--------------------------- MODULE CatalogProofs ---------------------------
(***************************************************************************)
(* Registry and rows of ModelCatalog, for any models, admins, catalogs and *)
(* requests, and any number of synchronisations and restarts; then clients *)
(* and mappings, for any callers, proxies, names and configuration; then   *)
(* what follows for the whole.                                             *)
(***************************************************************************)
EXTENDS Catalog, TLAPS, FiniteSetTheorems

Routed(row) == applyLocalModelDefaults(ModelRouteFromRow(row))

\* The registry routes m as the rows rs say.
Agree(rs, m) ==
    /\ m \in DOMAIN registry <=> m \in DOMAIN rs
    /\ m \in DOMAIN rs => registry[m] = Routed(rs[m])

Alone(m) == \A a \in DOMAIN ops : ops[a].id # m

\* What a handler that has its model to itself relies on between two of its
\* statements: the registry lags behind by what the handler has saved, or is
\* ahead by what it is about to delete.
Halfway(op) ==
    /\ op.pc \in {"merge", "save"} => Agree(rows, op.id)
    /\ op.pc = "register" => op.id \in DOMAIN rows /\ rows[op.id] = op.route
    /\ op.pc = "delete" => op.id \notin DOMAIN registry

\* A model nobody raced for, while no synchronisation runs.
Settled(m) ==
    /\ Alone(m) => Agree(rows, m)
    /\ \A a \in DOMAIN ops : ops[a].id = m =>
          /\ Halfway(ops[a])
          /\ \A b \in DOMAIN ops : ops[b].id = m => b = a

\* While one runs, the registry routes every model nobody raced for as the rows
\* said when they were read, and once the rows were read again they say the same
\* still of all models no handler has touched.
Waits(m) == sync.pc \in {"saving", "rebuilding"} /\ serving => Agree(sync.snapshot, m)
Reread(m) ==
    sync.pc = "replacing" =>
        /\ m \in DOMAIN sync.snapshot <=> m \in DOMAIN rows
        /\ m \in DOMAIN rows => sync.snapshot[m] = rows[m]

IsOp(op) ==
    /\ op = [pc |-> op.pc, id |-> op.id, route |-> op.route, patch |-> op.patch,
             whole |-> op.whole, alone |-> op.alone]
    /\ op.pc \in {"merge", "save", "register", "delete"}
IsSync ==
    /\ sync = [pc |-> sync.pc, fetched |-> sync.fetched,
               catalog |-> sync.catalog, snapshot |-> sync.snapshot,
               todo |-> sync.todo, met |-> sync.met]
    /\ sync.pc \in {"idle", "saving", "rebuilding", "replacing"}
Shapes ==
    /\ IsSync
    /\ \A a \in DOMAIN ops : IsOp(ops[a])
    /\ serving \/ DOMAIN ops = {}

\* A synchronisation remembers the models handlers worked on since it began.
Meets ==
    sync.pc # "idle" => sync.met \subseteq torn /\ \A a \in DOMAIN ops : ops[a].id \in sync.met

IInv ==
    /\ Shapes /\ Meets
    /\ \A m \in Models \ torn : (sync.pc = "idle" /\ serving => Settled(m)) /\ Waits(m)
    /\ \A m \in Models \ sync.met : Reread(m)

----------------------------------------------------------------------------
LEMMA EmptyNone == DOMAIN None = {}
  BY DEF None

LEMMA RuntimeRoutes ==
    ASSUME NEW rs
    PROVE  /\ DOMAIN Runtime(rs) = DOMAIN rs
           /\ \A m \in DOMAIN rs : Runtime(rs)[m] = Routed(rs[m])
  BY DEF Runtime, Routed

\* A step of the handler of admin a, on model x: other models are as they were.
LEMMA HandlerStep ==
    ASSUME IInv, NEW a \in DOMAIN ops, NEW x, ops[a].id = x,
           UNCHANGED <<sync, serving>>, torn \subseteq torn',
           \A m \in Models \ {x} : /\ m \in DOMAIN rows' <=> m \in DOMAIN rows
                                   /\ m \in DOMAIN rows => rows'[m] = rows[m]
                                   /\ m \in DOMAIN registry' <=> m \in DOMAIN registry
                                   /\ m \in DOMAIN registry => registry'[m] = registry[m],
           DOMAIN ops' \subseteq DOMAIN ops, DOMAIN ops \ {a} \subseteq DOMAIN ops',
           \A b \in DOMAIN ops \ {a} : ops'[b] = ops[b],
           a \in DOMAIN ops' => IsOp(ops'[a]) /\ ops'[a].id = x,
           x \in Models \ torn' /\ Halfway(ops[a]) =>
              IF a \in DOMAIN ops' THEN Halfway(ops[a])' ELSE Agree(rows, x)'
    PROVE  IInv'
<1>1. Shapes'
  BY DEF IInv, Shapes, IsSync
<1>2. Meets'
  BY DEF IInv, Meets
<1>3. ASSUME NEW m \in Models \ torn', m # x, sync.pc = "idle" /\ serving PROVE Settled(m)'
  <2>1. Settled(m)
    BY <1>3 DEF IInv
  <2>2. \A b \in DOMAIN ops' : ops'[b].id = m => b \in DOMAIN ops /\ b # a /\ ops'[b] = ops[b]
    BY <1>3
  <2>3. \A b \in DOMAIN ops : ops[b].id = m => b \in DOMAIN ops' /\ ops'[b] = ops[b]
    BY <1>3
  <2>4. Alone(m)' => Alone(m)
    BY <2>3 DEF Alone
  <2>5. Agree(rows, m) => Agree(rows, m)'
    BY <1>3 DEF Agree
  <2>6. ASSUME NEW b \in DOMAIN ops', ops'[b].id = m PROVE Halfway(ops[b])'
    <3>1. Halfway(ops[b])
      BY <2>1, <2>2, <2>6 DEF Settled
    <3>2. ops'[b] = ops[b]
      BY <2>2, <2>6
    <3>. QED
      BY <1>3, <2>5, <2>6, <3>1, <3>2 DEF Halfway
  <2>7. \A b, c \in DOMAIN ops' : ops'[b].id = m /\ ops'[c].id = m => c = b
    BY <2>1, <2>2 DEF Settled
  <2>. QED
    BY <2>1, <2>4, <2>5, <2>6, <2>7 DEF Settled
<1>4. ASSUME x \in Models \ torn', sync.pc = "idle" /\ serving PROVE Settled(x)'
  <2>1. Settled(x)
    BY <1>4 DEF IInv
  <2>2. \A b \in DOMAIN ops' : ops'[b].id = x => b = a
    BY <2>1 DEF Settled
  <2>3. Halfway(ops[a])
    BY <2>1 DEF Settled
  <2>4. CASE a \in DOMAIN ops'
    <3>1. Halfway(ops[a])'
      BY <1>4, <2>3, <2>4
    <3>. QED
      BY <2>2, <2>4, <3>1 DEF Settled, Alone
  <2>5. CASE a \notin DOMAIN ops'
    <3>1. Agree(rows, x)'
      BY <1>4, <2>3, <2>5
    <3>. QED
      BY <2>2, <2>5, <3>1 DEF Settled, Alone
  <2>. QED
    BY <2>4, <2>5
<1>5. ASSUME NEW m \in Models \ torn' PROVE Waits(m)'
  <2>1. Waits(m)
    BY DEF IInv
  <2>2. sync.pc \in {"saving", "rebuilding"} => m # x
    BY DEF IInv, Meets
  <2>. QED
    BY <2>1, <2>2 DEF Waits, Agree
<1>6. ASSUME NEW m \in Models \ sync'.met PROVE Reread(m)'
  <2>1. Reread(m)
    BY <1>6 DEF IInv
  <2>2. sync.pc = "replacing" => m # x
    BY <1>6 DEF IInv, Meets
  <2>. QED
    BY <2>1, <2>2 DEF Reread
<1>. QED
  BY <1>1, <1>2, <1>3, <1>4, <1>5, <1>6 DEF IInv

LEMMA AloneFacts ==
    ASSUME NEW op, IsOp(op), NEW v
    PROVE  LET op2 == [op EXCEPT !.alone = v]
           IN  IsOp(op2) /\ op2.pc = op.pc /\ op2.id = op.id /\ op2.route = op.route
<1> DEFINE op2 == [pc |-> op.pc, id |-> op.id, route |-> op.route, patch |-> op.patch,
                   whole |-> op.whole, alone |-> v]
<1>1. [op EXCEPT !.alone = v] = op2
  BY DEF IsOp
<1>2. IsOp(op2) /\ op2.pc = op.pc /\ op2.id = op.id /\ op2.route = op.route
  BY DEF IsOp
<1>. QED
  BY <1>1, <1>2

\* A handler starts on model x.
LEMMA HandlerStarts ==
    ASSUME IInv, NEW a, NEW x, NEW op, IsOp(op), op.id = x, op.pc \in {"merge", "delete"},
           Start(a, x, op), UNCHANGED <<rows, serving>>,
           \A m \in Models \ {x} : /\ m \in DOMAIN registry' <=> m \in DOMAIN registry
                                   /\ m \in DOMAIN registry => registry'[m] = registry[m],
           op.pc = "merge" => UNCHANGED registry,
           op.pc = "delete" => x \notin DOMAIN registry'
    PROVE  IInv'
<1>1. /\ serving /\ a \notin DOMAIN ops
      /\ DOMAIN ops' = DOMAIN ops \cup {a}
      /\ IsOp(ops'[a]) /\ ops'[a].id = x /\ ops'[a].pc = op.pc
  <2> DEFINE alone == sync.pc = "idle" /\ x \notin Busy
             op2 == [op EXCEPT !.alone = alone]
  <2>1. IsOp(op2) /\ op2.id = x /\ op2.pc = op.pc
    BY AloneFacts
  <2> HIDE DEF op2
  <2>2. serving /\ a \notin DOMAIN ops /\ DOMAIN ops' = DOMAIN ops \cup {a} /\ ops'[a] = op2
    BY DEF Start, Put, op2
  <2>. QED
    BY <2>1, <2>2
<1>2. ASSUME NEW b \in DOMAIN ops
      PROVE  /\ IsOp(ops'[b]) /\ ops'[b].id = ops[b].id
             /\ ops'[b].pc = ops[b].pc /\ ops'[b].route = ops[b].route
  <2>1. PICK v : ops'[b] = [ops[b] EXCEPT !.alone = v]
    BY <1>1, <1>2 DEF Start, Put
  <2>2. IsOp(ops[b])
    BY <1>2 DEF IInv, Shapes
  <2>. QED
    BY <2>1, <2>2, AloneFacts
<1>3. /\ torn' = IF sync.pc = "idle" /\ x \notin Busy THEN torn ELSE torn \cup {x}
      /\ sync.pc = "idle" => UNCHANGED sync
      /\ sync.pc # "idle" => sync' = [sync EXCEPT !.met = @ \cup {x}]
  BY DEF Start
<1>4. /\ sync'.pc = sync.pc /\ sync'.snapshot = sync.snapshot /\ IsSync'
      /\ sync'.met = IF sync.pc = "idle" THEN sync.met ELSE sync.met \cup {x}
  <2>1. IsSync
    BY DEF IInv, Shapes
  <2>2. CASE sync.pc = "idle"
    BY <1>3, <2>1, <2>2 DEF IsSync
  <2>3. CASE sync.pc # "idle"
    <3> DEFINE s == [pc |-> sync.pc, fetched |-> sync.fetched,
                     catalog |-> sync.catalog, snapshot |-> sync.snapshot,
                     todo |-> sync.todo, met |-> sync.met \cup {x}]
    <3>1. sync' = s
      BY <1>3, <2>1, <2>3 DEF IsSync
    <3>2. /\ s.pc = sync.pc /\ s.snapshot = sync.snapshot /\ s.met = sync.met \cup {x}
          /\ s = [pc |-> s.pc, fetched |-> s.fetched, catalog |-> s.catalog,
                  snapshot |-> s.snapshot, todo |-> s.todo, met |-> s.met]
      OBVIOUS
    <3> HIDE DEF s
    <3>. QED
      BY <2>1, <2>3, <3>1, <3>2 DEF IsSync
  <2>. QED
    BY <2>2, <2>3
<1>5. Shapes'
  <2>1. \A b \in DOMAIN ops' : IsOp(ops'[b])
    BY <1>1, <1>2
  <2>. QED
    BY <1>1, <1>4, <2>1 DEF Shapes, IsOp
<1>6. Meets'
  <2>1. ASSUME sync.pc # "idle", NEW b \in DOMAIN ops' PROVE ops'[b].id \in sync'.met
    <3>1. CASE b = a
      BY <1>1, <1>4, <2>1, <3>1
    <3>2. CASE b # a
      BY <1>1, <1>2, <1>4, <2>1, <3>2 DEF IInv, Meets
    <3>. QED
      BY <3>1, <3>2
  <2>2. sync.pc # "idle" => sync'.met \subseteq torn'
    BY <1>3, <1>4 DEF IInv, Meets
  <2>. QED
    BY <1>4, <2>1, <2>2 DEF Meets
<1>7. ASSUME NEW m \in Models \ torn', m # x, sync.pc = "idle" PROVE Settled(m)'
  <2>1. Settled(m)
    BY <1>1, <1>3, <1>7 DEF IInv
  <2>2. \A b \in DOMAIN ops' : ops'[b].id = m => b \in DOMAIN ops
    BY <1>1, <1>7
  <2>3. Alone(m)' => Alone(m)
    BY <1>1, <1>2 DEF Alone
  <2>4. Agree(rows, m) => Agree(rows, m)'
    BY <1>7 DEF Agree
  <2>5. ASSUME NEW b \in DOMAIN ops', ops'[b].id = m PROVE Halfway(ops[b])'
    <3>1. b \in DOMAIN ops /\ ops[b].id = m
      BY <1>2, <2>2, <2>5
    <3>2. Halfway(ops[b])
      BY <2>1, <3>1 DEF Settled
    <3>. QED
      BY <1>2, <1>7, <2>4, <2>5, <3>1, <3>2 DEF Halfway
  <2>6. \A b, c \in DOMAIN ops' : ops'[b].id = m /\ ops'[c].id = m => c = b
    BY <1>2, <2>1, <2>2 DEF Settled
  <2>. QED
    BY <2>1, <2>3, <2>4, <2>5, <2>6 DEF Settled
<1>8. ASSUME x \in Models \ torn' PROVE Settled(x)'
  <2>1. x \notin torn /\ sync.pc = "idle" /\ x \notin Busy
    BY <1>3, <1>8
  <2>2. \A b \in DOMAIN ops : ops[b].id # x
    BY <2>1 DEF Busy
  <2>3. \A b \in DOMAIN ops' : ops'[b].id = x => b = a
    BY <1>1, <1>2, <2>2
  <2>4. Agree(rows, x)
    BY <1>1, <1>8, <2>1, <2>2 DEF IInv, Settled, Alone
  <2>5. Halfway(ops[a])'
    <3>1. CASE op.pc = "merge"
      <4>1. Agree(rows, x)'
        BY <2>4, <3>1 DEF Agree
      <4>. QED
        BY <1>1, <3>1, <4>1 DEF Halfway
    <3>2. CASE op.pc = "delete"
      BY <1>1, <3>2 DEF Halfway
    <3>. QED
      BY <3>1, <3>2
  <2>6. ~ Alone(x)'
    BY <1>1 DEF Alone
  <2>. QED
    BY <2>3, <2>5, <2>6 DEF Settled
<1>9. ASSUME NEW m \in Models \ torn' PROVE Waits(m)'
  <2>1. Waits(m)
    BY <1>3, <1>9 DEF IInv
  <2>2. sync.pc # "idle" => m # x
    BY <1>3, <1>9
  <2>. QED
    BY <1>4, <2>1, <2>2 DEF Waits, Agree
<1>10. ASSUME NEW m \in Models \ sync'.met PROVE Reread(m)'
  <2>1. Reread(m)
    BY <1>4, <1>10 DEF IInv
  <2>. QED
    BY <1>4, <2>1 DEF Reread
<1>. QED
  BY <1>4, <1>5, <1>6, <1>7, <1>8, <1>9, <1>10 DEF IInv

----------------------------------------------------------------------------
(* The handlers. *)

LEMMA UpdateInv ==
    ASSUME IInv, NEW a, NEW m, NEW patch, Update(a, m, patch)
    PROVE  IInv'
<1>1. PICK p : Start(a, m, Op("merge", m, Over(p, ModelRouteFromRow(rows[m])), p, FALSE))
  BY DEF Update
<1>2. PICK op : op = Op("merge", m, Over(p, ModelRouteFromRow(rows[m])), p, FALSE)
  OBVIOUS
<1>3. IsOp(op) /\ op.id = m /\ op.pc = "merge"
  BY <1>2 DEF Op, IsOp
<1>4. UNCHANGED <<rows, registry, serving>>
  BY DEF Update
<1>. QED
  BY <1>1, <1>2, <1>3, <1>4, HandlerStarts

LEMMA UpsertInv ==
    ASSUME IInv, NEW a, NEW m, NEW patch, Upsert(a, m, patch)
    PROVE  IInv'
<1>1. PICK route, full : Start(a, m, Op("merge", m, route, full, TRUE))
  BY DEF Upsert
<1>2. PICK op : op = Op("merge", m, route, full, TRUE)
  OBVIOUS
<1>3. IsOp(op) /\ op.id = m /\ op.pc = "merge"
  BY <1>2 DEF Op, IsOp
<1>4. UNCHANGED <<rows, registry, serving>>
  BY DEF Upsert
<1>. QED
  BY <1>1, <1>2, <1>3, <1>4, HandlerStarts

LEMMA DeleteInv ==
    ASSUME IInv, NEW a, NEW m, Delete(a, m)
    PROVE  IInv'
<1>1. PICK op : op = Op("delete", m, Blank, None, TRUE)
  OBVIOUS
<1>2. IsOp(op) /\ op.id = m /\ op.pc = "delete"
  BY <1>1 DEF Op, IsOp
<1>3. /\ Start(a, m, op) /\ UNCHANGED <<rows, serving>> /\ m \notin DOMAIN registry'
      /\ \A x \in Models \ {m} : /\ x \in DOMAIN registry' <=> x \in DOMAIN registry
                                 /\ x \in DOMAIN registry => registry'[x] = registry[x]
  BY <1>1 DEF Delete, Drop, Restrict
<1>. QED
  BY <1>2, <1>3, HandlerStarts

\* The fields of an operation that a handler changes, one after the other.
LEMMA PcFacts ==
    ASSUME NEW op, IsOp(op), NEW pc
    PROVE  LET op2 == [op EXCEPT !.pc = pc]
           IN  /\ pc \in {"merge", "save", "register", "delete"} => IsOp(op2)
               /\ op2.pc = pc /\ op2.id = op.id /\ op2.route = op.route
<1> DEFINE op2 == [pc |-> pc, id |-> op.id, route |-> op.route, patch |-> op.patch,
                   whole |-> op.whole, alone |-> op.alone]
<1>1. [op EXCEPT !.pc = pc] = op2
  BY DEF IsOp
<1>2. /\ pc \in {"merge", "save", "register", "delete"} => IsOp(op2)
      /\ op2.pc = pc /\ op2.id = op.id /\ op2.route = op.route
  BY DEF IsOp
<1>. QED
  BY <1>1, <1>2

LEMMA RouteFacts ==
    ASSUME NEW op, IsOp(op), NEW route
    PROVE  LET op2 == [op EXCEPT !.route = route]
           IN  IsOp(op2) /\ op2.pc = op.pc /\ op2.id = op.id /\ op2.route = route
<1> DEFINE op2 == [pc |-> op.pc, id |-> op.id, route |-> route, patch |-> op.patch,
                   whole |-> op.whole, alone |-> op.alone]
<1>1. [op EXCEPT !.route = route] = op2
  BY DEF IsOp
<1>2. IsOp(op2) /\ op2.pc = op.pc /\ op2.id = op.id /\ op2.route = route
  BY DEF IsOp
<1>. QED
  BY <1>1, <1>2

LEMMA MergeCustomizedInv ==
    ASSUME IInv, NEW a, MergeCustomized(a)
    PROVE  IInv'
<1>1. a \in DOMAIN ops /\ ops[a].pc = "merge" /\ UNCHANGED <<rows, registry, sync, serving, torn>>
  BY DEF MergeCustomized
<1> DEFINE op1 == [ops[a] EXCEPT !.pc = "save"]
<1>2. PICK route : /\ DOMAIN ops' = DOMAIN ops /\ ops'[a] = [op1 EXCEPT !.route = route]
                   /\ \A b \in DOMAIN ops \ {a} : ops'[b] = ops[b]
  BY <1>1 DEF MergeCustomized
<1>3. IsOp(op1) /\ op1.pc = "save" /\ op1.id = ops[a].id
  BY <1>1, PcFacts DEF IInv, Shapes
<1> HIDE DEF op1
<1>4. IsOp(ops'[a]) /\ ops'[a].pc = "save" /\ ops'[a].id = ops[a].id
  BY <1>2, <1>3, RouteFacts
<1>5. Halfway(ops[a]) => Halfway(ops[a])'
  BY <1>1, <1>4 DEF Halfway, Agree
<1>6. PICK x : x = ops[a].id
  OBVIOUS
<1>. QED
  BY <1>1, <1>2, <1>4, <1>5, <1>6, HandlerStep

LEMMA SaveEditInv ==
    ASSUME IInv, NEW a, SaveEdit(a)
    PROVE  IInv'
<1>1. a \in DOMAIN ops /\ ops[a].pc = "save" /\ UNCHANGED <<registry, sync, serving, torn>>
  BY DEF SaveEdit
<1>2. PICK x, row : x = ops[a].id /\ row = NewModelRouteRow(ops[a].route)
  OBVIOUS
<1>3. CASE /\ rows' = Put(rows, x, row)
           /\ ops' = [ops EXCEPT ![a].pc = "register", ![a].route = row]
  <2> DEFINE op1 == [ops[a] EXCEPT !.pc = "register"]
  <2>1. /\ DOMAIN ops' = DOMAIN ops /\ ops'[a] = [op1 EXCEPT !.route = row]
        /\ \A b \in DOMAIN ops \ {a} : ops'[b] = ops[b]
    BY <1>1, <1>3
  <2>2. IsOp(op1) /\ op1.pc = "register" /\ op1.id = x
    BY <1>1, <1>2, PcFacts DEF IInv, Shapes
  <2> HIDE DEF op1
  <2>3. IsOp(ops'[a]) /\ ops'[a].pc = "register" /\ ops'[a].id = x /\ ops'[a].route = row
    BY <2>1, <2>2, RouteFacts
  <2>4. /\ x \in DOMAIN rows' /\ rows'[x] = row
        /\ \A m \in Models \ {x} : /\ m \in DOMAIN rows' <=> m \in DOMAIN rows
                                   /\ m \in DOMAIN rows => rows'[m] = rows[m]
    BY <1>3 DEF Put
  <2>5. Halfway(ops[a])'
    BY <2>3, <2>4 DEF Halfway
  <2>. QED
    BY <1>1, <1>2, <2>1, <2>3, <2>4, <2>5, HandlerStep
<1>4. CASE ops' = Drop(ops, a) /\ UNCHANGED rows
  <2>1. DOMAIN ops' = DOMAIN ops \ {a} /\ \A b \in DOMAIN ops' : ops'[b] = ops[b]
    BY <1>4 DEF Drop, Restrict
  <2>2. Halfway(ops[a]) => Agree(rows, x)'
    BY <1>1, <1>2, <1>4 DEF Halfway, Agree
  <2>. QED
    BY <1>1, <1>2, <1>4, <2>1, <2>2, HandlerStep
<1>. QED
  BY <1>2, <1>3, <1>4 DEF SaveEdit

LEMMA RegisterModelInv ==
    ASSUME IInv, NEW a, RegisterModel(a)
    PROVE  IInv'
<1>1. PICK x : x = ops[a].id
  OBVIOUS
<1>2. /\ a \in DOMAIN ops /\ ops[a].pc = "register" /\ UNCHANGED <<rows, sync, serving, torn>>
      /\ registry' = Put(registry, x, Routed(ops[a].route)) /\ ops' = Drop(ops, a)
  BY <1>1 DEF RegisterModel, Routed
<1>3. DOMAIN ops' = DOMAIN ops \ {a} /\ \A b \in DOMAIN ops' : ops'[b] = ops[b]
  BY <1>2 DEF Drop, Restrict
<1>4. /\ x \in DOMAIN registry' /\ registry'[x] = Routed(ops[a].route)
      /\ \A m \in Models \ {x} : /\ m \in DOMAIN registry' <=> m \in DOMAIN registry
                                 /\ m \in DOMAIN registry => registry'[m] = registry[m]
  BY <1>2 DEF Put
<1>5. Halfway(ops[a]) => Agree(rows, x)'
  BY <1>1, <1>2, <1>4 DEF Halfway, Agree
<1>. QED
  BY <1>1, <1>2, <1>3, <1>4, <1>5, HandlerStep

LEMMA DeleteRowInv ==
    ASSUME IInv, NEW a, DeleteRow(a)
    PROVE  IInv'
<1>1. PICK x : x = ops[a].id
  OBVIOUS
<1>2. /\ a \in DOMAIN ops /\ ops[a].pc = "delete" /\ UNCHANGED <<registry, sync, serving>>
      /\ \/ rows' = Drop(rows, x) /\ UNCHANGED torn
         \/ torn' = torn \cup {x} /\ UNCHANGED rows
      /\ ops' = Drop(ops, a)
  BY <1>1 DEF DeleteRow
<1>3. DOMAIN ops' = DOMAIN ops \ {a} /\ \A b \in DOMAIN ops' : ops'[b] = ops[b]
  BY <1>2 DEF Drop, Restrict
<1>4. /\ x \notin torn' => x \notin DOMAIN rows'
      /\ \A m \in Models \ {x} : /\ m \in DOMAIN rows' <=> m \in DOMAIN rows
                                 /\ m \in DOMAIN rows => rows'[m] = rows[m]
  BY <1>2 DEF Drop, Restrict
<1>5. x \notin torn' /\ Halfway(ops[a]) => Agree(rows, x)'
  BY <1>1, <1>2, <1>4 DEF Halfway, Agree
<1>. QED
  BY <1>1, <1>2, <1>3, <1>4, <1>5, HandlerStep

LEMMA ToggleInv ==
    ASSUME IInv, NEW a, NEW m, Toggle(a, m)
    PROVE  IInv'
<1>1. PICK patch : Update(a, m, patch)
  BY DEF Toggle
<1>. QED
  BY <1>1, UpdateInv

----------------------------------------------------------------------------
(* The synchronisation. *)

LEMMA NoSyncFacts == NoSync.pc = "idle" /\ (sync' = NoSync => IsSync')
  BY DEF NoSync, IsSync

LEMMA BeginSyncInv ==
    ASSUME IInv, NEW kind, NEW fetched, NEW catalog, BeginSync(kind, fetched, catalog)
    PROVE  IInv'
<1>1. /\ sync.pc = "idle" /\ UNCHANGED <<rows, registry, serving>> /\ torn' = torn \cup Busy
      /\ DOMAIN ops' = DOMAIN ops
  BY DEF BeginSync
<1>2. IsSync' /\ sync'.pc \in {"saving", "rebuilding"} /\ sync'.snapshot = rows /\ sync'.met = Busy
  <2>1. PICK pc, arrived, todo :
            /\ sync' = [pc |-> pc, fetched |-> fetched, catalog |-> arrived,
                        snapshot |-> rows, todo |-> todo, met |-> Busy]
            /\ pc \in {"saving", "rebuilding"}
    BY DEF BeginSync
  <2>. QED
    BY <2>1 DEF IsSync
<1>3. ASSUME NEW b \in DOMAIN ops PROVE IsOp(ops'[b]) /\ ops'[b].id = ops[b].id
  <2>1. PICK v : ops'[b] = [ops[b] EXCEPT !.alone = v]
    BY <1>3 DEF BeginSync
  <2>2. IsOp(ops[b])
    BY <1>3 DEF IInv, Shapes
  <2>. QED
    BY <2>1, <2>2, AloneFacts
<1>4. Shapes'
  BY <1>1, <1>2, <1>3 DEF IInv, Shapes
<1>5. Meets'
  BY <1>1, <1>2, <1>3 DEF Meets, Busy
<1>6. ASSUME NEW m \in Models \ torn', serving PROVE Waits(m)'
  <2>1. Settled(m) /\ Alone(m)
    BY <1>1, <1>6 DEF IInv, Alone, Busy
  <2>2. Agree(rows, m)
    BY <2>1 DEF Settled
  <2>. QED
    BY <1>1, <1>2, <2>2 DEF Waits, Agree
<1>. QED
  BY <1>1, <1>2, <1>4, <1>5, <1>6 DEF IInv, Waits, Reread

LEMMA SaveNextInv ==
    ASSUME IInv, NEW m, NEW matched, SaveNext(m, matched)
    PROVE  IInv'
<1>1. /\ sync.pc = "saving" /\ UNCHANGED <<registry, ops, serving, torn>>
      /\ \E todo : sync' = [sync EXCEPT !.todo = todo]
  BY DEF SaveNext
<1>2. IsSync' /\ sync'.pc = sync.pc /\ sync'.snapshot = sync.snapshot /\ sync'.met = sync.met
  <2>1. PICK todo : sync' = [sync EXCEPT !.todo = todo]
    BY <1>1
  <2>2. IsSync
    BY DEF IInv, Shapes
  <2> DEFINE s == [pc |-> sync.pc, fetched |-> sync.fetched,
                   catalog |-> sync.catalog, snapshot |-> sync.snapshot,
                   todo |-> todo, met |-> sync.met]
  <2>3. sync' = s
    BY <2>1, <2>2 DEF IsSync
  <2>4. /\ s.pc = sync.pc /\ s.snapshot = sync.snapshot /\ s.met = sync.met
        /\ s = [pc |-> s.pc, fetched |-> s.fetched, catalog |-> s.catalog,
                snapshot |-> s.snapshot, todo |-> s.todo, met |-> s.met]
    OBVIOUS
  <2> HIDE DEF s
  <2>. QED
    BY <2>2, <2>3, <2>4 DEF IsSync
<1>3. Shapes' /\ Meets'
  BY <1>1, <1>2 DEF IInv, Shapes, Meets
<1>. QED
  BY <1>1, <1>2, <1>3 DEF IInv, Waits, Reread, Agree

\* The rows have just been written or read: the snapshot is what is stored.
LEMMA Snapshots ==
    ASSUME IInv, sync.pc # "idle", sync'.pc = "replacing", sync'.met = sync.met, IsSync',
           sync'.snapshot = rows', UNCHANGED <<registry, ops, serving, torn>>
    PROVE  IInv'
<1>1. Shapes' /\ Meets'
  BY DEF IInv, Shapes, Meets
<1>. QED
  BY <1>1 DEF IInv, Waits, Reread

LEMMA SyncFacts ==
    ASSUME IsSync, NEW rs, NEW todo,
           sync' = [pc |-> "replacing", fetched |-> sync.fetched,
                    catalog |-> sync.catalog, snapshot |-> rs, todo |-> todo, met |-> sync.met]
    PROVE  IsSync' /\ sync'.pc = "replacing" /\ sync'.snapshot = rs /\ sync'.met = sync.met
           /\ sync'.fetched = sync.fetched /\ sync'.catalog = sync.catalog
  BY DEF IsSync

LEMMA SyncPc ==
    ASSUME IsSync
    PROVE  [sync EXCEPT !.pc = "replacing"] =
             [pc |-> "replacing", fetched |-> sync.fetched,
              catalog |-> sync.catalog, snapshot |-> sync.snapshot, todo |-> sync.todo,
              met |-> sync.met]
  BY DEF IsSync

LEMMA ReplaceRowsSync ==
    ASSUME IsSync, NEW found, ReplaceRows(found)
    PROVE  IsSync' /\ sync'.pc = "replacing" /\ sync'.snapshot = rows' /\ sync'.met = sync.met
           /\ sync'.fetched = sync.fetched /\ sync'.catalog = sync.catalog
<1>1. sync' = [[[sync EXCEPT !.pc = "replacing"] EXCEPT !.snapshot = rows'] EXCEPT !.todo = {}]
  BY DEF ReplaceRows
<1> DEFINE s1 == [pc |-> "replacing", fetched |-> sync.fetched,
                  catalog |-> sync.catalog, snapshot |-> sync.snapshot, todo |-> sync.todo,
                  met |-> sync.met]
           s2 == [pc |-> "replacing", fetched |-> sync.fetched,
                  catalog |-> sync.catalog, snapshot |-> rows', todo |-> sync.todo,
                  met |-> sync.met]
           s3 == [pc |-> "replacing", fetched |-> sync.fetched,
                  catalog |-> sync.catalog, snapshot |-> rows', todo |-> {}, met |-> sync.met]
<1>3. [s1 EXCEPT !.snapshot = rows'] = s2
  OBVIOUS
<1>4. [s2 EXCEPT !.todo = {}] = s3
  OBVIOUS
<1>5. [sync EXCEPT !.pc = "replacing"] = s1
  BY SyncPc
<1> HIDE DEF s1, s2
<1>6. sync' = s3
  BY <1>1, <1>3, <1>4, <1>5, Zenon
<1>. QED
  BY <1>6, SyncFacts

LEMMA ReplaceRowsInv ==
    ASSUME IInv, NEW found, ReplaceRows(found)
    PROVE  IInv'
<1>1. sync.pc = "rebuilding" /\ UNCHANGED <<registry, ops, serving, torn>>
  BY DEF ReplaceRows
<1>2. IsSync' /\ sync'.pc = "replacing" /\ sync'.snapshot = rows' /\ sync'.met = sync.met
  BY ReplaceRowsSync DEF IInv, Shapes
<1>. QED
  BY <1>1, <1>2, Snapshots

LEMMA ReloadRowsSync ==
    ASSUME IsSync, ReloadRows
    PROVE  IsSync' /\ sync'.pc = "replacing" /\ sync'.snapshot = rows /\ sync'.met = sync.met
           /\ sync'.fetched = sync.fetched /\ sync'.catalog = sync.catalog
<1>1. sync' = [[sync EXCEPT !.pc = "replacing"] EXCEPT !.snapshot = rows]
  BY DEF ReloadRows
<1> DEFINE s1 == [pc |-> "replacing", fetched |-> sync.fetched,
                  catalog |-> sync.catalog, snapshot |-> sync.snapshot, todo |-> sync.todo,
                  met |-> sync.met]
           s2 == [pc |-> "replacing", fetched |-> sync.fetched,
                  catalog |-> sync.catalog, snapshot |-> rows, todo |-> sync.todo,
                  met |-> sync.met]
<1>3. [s1 EXCEPT !.snapshot = rows] = s2
  OBVIOUS
<1>4. [sync EXCEPT !.pc = "replacing"] = s1
  BY SyncPc
<1> HIDE DEF s1
<1>5. sync' = s2
  BY <1>1, <1>3, <1>4, Zenon
<1>. QED
  BY <1>5, SyncFacts

LEMMA ReloadRowsInv ==
    ASSUME IInv, ReloadRows
    PROVE  IInv'
<1>1. sync.pc = "saving" /\ UNCHANGED <<rows, registry, ops, serving, torn>>
  BY DEF ReloadRows
<1>2. IsSync' /\ sync'.pc = "replacing" /\ sync'.snapshot = rows /\ sync'.met = sync.met
  BY ReloadRowsSync DEF IInv, Shapes
<1>. QED
  BY <1>1, <1>2, Snapshots

\* A synchronisation ends, with registry and rows agreed on what is not torn.
LEMMA SyncEnds ==
    ASSUME IInv, sync' = NoSync, serving' \/ UNCHANGED serving, UNCHANGED <<rows, ops>>,
           \A m \in Models \ torn' : Alone(m) /\ Agree(rows, m)'
    PROVE  IInv'
<1>1. sync'.pc = "idle" /\ IsSync'
  BY NoSyncFacts
<1>2. Shapes'
  BY <1>1 DEF IInv, Shapes
<1>3. \A m \in Models \ torn' : Settled(m)'
  BY DEF Settled, Alone
<1>4. Meets' /\ \A m : Waits(m)' /\ Reread(m)'
  BY <1>1 DEF Meets, Waits, Reread
<1>. QED
  BY <1>1, <1>2, <1>3, <1>4 DEF IInv

LEMMA ReplaceModelsInv ==
    ASSUME IInv, ReplaceModels
    PROVE  IInv'
<1>1. /\ sync.pc = "replacing" /\ registry' = Runtime(sync.snapshot)
      /\ sync' = NoSync /\ serving' /\ torn' = torn \cap sync.met /\ UNCHANGED <<rows, ops>>
  BY DEF ReplaceModels
<1>2. ASSUME NEW m \in Models \ torn' PROVE Alone(m) /\ Agree(rows, m)'
  <2>1. m \notin sync.met /\ Alone(m)
    BY <1>1, <1>2 DEF IInv, Meets, Alone
  <2>2. Reread(m)
    BY <2>1 DEF IInv
  <2>3. Agree(rows, m)'
    BY <1>1, <2>2, RuntimeRoutes DEF Reread, Agree
  <2>. QED
    BY <2>1, <2>3
<1>. QED
  BY <1>1, <1>2, SyncEnds

LEMMA SyncFailsInv ==
    ASSUME IInv, SyncFails
    PROVE  IInv'
<1>1. /\ sync.pc \in {"saving", "rebuilding"} /\ sync' = NoSync /\ serving' /\ UNCHANGED <<rows, registry, ops>>
      /\ torn' = IF rows = sync.snapshot /\ serving THEN torn ELSE Models
  BY DEF SyncFails
<1>2. ASSUME NEW m \in Models \ torn' PROVE Alone(m) /\ Agree(rows, m)'
  <2>1. rows = sync.snapshot /\ serving /\ m \notin torn
    BY <1>1, <1>2
  <2>2. Alone(m) /\ Agree(rows, m)
    BY <1>1, <2>1 DEF IInv, Meets, Alone, Waits
  <2>. QED
    BY <1>1, <2>2 DEF Agree
<1>. QED
  BY <1>1, <1>2, SyncEnds

LEMMA RestartInv ==
    ASSUME Restart
    PROVE  IInv'
<1>1. sync' = NoSync /\ ops' = None /\ serving' = FALSE
  BY DEF Restart
<1>2. sync'.pc = "idle" /\ IsSync'
  BY <1>1, NoSyncFacts
<1>3. DOMAIN ops' = {}
  BY <1>1, EmptyNone
<1>. QED
  BY <1>1, <1>2, <1>3 DEF IInv, Shapes, Meets, Waits, Reread

----------------------------------------------------------------------------
LEMMA InitInv == Init => IInv
<1> SUFFICES ASSUME Init PROVE IInv
  OBVIOUS
<1>1. registry = Runtime(rows) /\ sync = NoSync /\ ops = None /\ serving = TRUE
  BY DEF Init
<1>2. sync.pc = "idle" /\ IsSync
  BY <1>1 DEF NoSync, IsSync
<1>3. DOMAIN ops = {}
  BY <1>1, EmptyNone
<1>4. \A m : Agree(rows, m)
  BY <1>1, RuntimeRoutes DEF Agree
<1>. QED
  BY <1>1, <1>2, <1>3, <1>4 DEF IInv, Shapes, Meets, Settled, Waits, Reread

LEMMA StutterInv == IInv /\ UNCHANGED vars => IInv'
  BY DEF IInv, vars, Shapes, IsSync, Meets, Settled, Halfway, Alone, Agree, Waits, Reread

LEMMA NextInv == IInv /\ [Next]_vars => IInv'
<1> SUFFICES ASSUME IInv, [Next]_vars PROVE IInv'
  OBVIOUS
<1>1. ASSUME NEW kind, NEW fetched, NEW catalog, BeginSync(kind, fetched, catalog) PROVE IInv'
  BY <1>1, BeginSyncInv
<1>2. ASSUME NEW m, NEW matched, SaveNext(m, matched) PROVE IInv'
  BY <1>2, SaveNextInv
<1>3. ASSUME NEW found, ReplaceRows(found) PROVE IInv'
  BY <1>3, ReplaceRowsInv
<1>4. CASE ReloadRows
  BY <1>4, ReloadRowsInv
<1>5. CASE ReplaceModels
  BY <1>5, ReplaceModelsInv
<1>6. CASE SyncFails
  BY <1>6, SyncFailsInv
<1>7. ASSUME NEW a, NEW m, Toggle(a, m) \/ Delete(a, m) PROVE IInv'
  BY <1>7, ToggleInv, DeleteInv
<1>8. ASSUME NEW a, NEW m, NEW patch, Update(a, m, patch) \/ Upsert(a, m, patch) PROVE IInv'
  BY <1>8, UpdateInv, UpsertInv
<1>9. ASSUME NEW a, MergeCustomized(a) \/ SaveEdit(a) PROVE IInv'
  BY <1>9, MergeCustomizedInv, SaveEditInv
<1>10. ASSUME NEW a, RegisterModel(a) \/ DeleteRow(a) PROVE IInv'
  BY <1>10, RegisterModelInv, DeleteRowInv
<1>11. CASE Restart
  BY <1>11, RestartInv
<1>12. CASE UNCHANGED vars
  BY <1>12, StutterInv
<1>. QED
  BY <1>1, <1>2, <1>3, <1>4, <1>5, <1>6, <1>7, <1>8, <1>9, <1>10, <1>11, <1>12 DEF Next

LEMMA InvAgrees == IInv => RoutesAgree
<1> SUFFICES ASSUME IInv, serving, sync.pc = "idle", NEW m \in Models \ (torn \cup Busy)
             PROVE  /\ m \in DOMAIN registry <=> m \in DOMAIN rows
                    /\ m \in DOMAIN rows => registry[m] = Runtime(rows)[m]
  BY DEF RoutesAgree
<1>1. Settled(m) /\ Alone(m)
  BY DEF IInv, Alone, Busy
<1>2. Agree(rows, m)
  BY <1>1 DEF Settled
<1>. QED
  BY <1>2, RuntimeRoutes DEF Agree

\* Whatever the order of edits, synchronisations, failures and restarts,
\* requests are routed by what is stored whenever no writer is at work: of every
\* model but those two writers worked on at once, or whose deletion failed
\* (admin/router.go and modelsync/sync.go write the two one after the other).
THEOREM RoutesAreKept == Spec => []RoutesAgree
<1>1. Init => IInv
  BY InitInv
<1>2. IInv /\ [Next]_vars => IInv'
  BY NextInv
<1>3. IInv => RoutesAgree
  BY InvAgrees
<1>. QED
  BY <1>1, <1>2, <1>3, PTL DEF Spec
----------------------------------------------------------------------------
(* Lists of upstreams *)

\* The lists that rows hold, in which no upstream is twice.
Lists == {<<>>, <<"go">>, <<"ollama">>, <<"go", "ollama">>, <<"ollama", "go">>}

\* The sets of two upstreams.
LEMMA TwoUpstreams ==
    /\ "go" # "ollama" /\ "go" \in Upstreams /\ "ollama" \in Upstreams
    /\ \A u \in Upstreams : u = "go" \/ u = "ollama"
    /\ Upstreams \ {"go"} = {"ollama"} /\ Upstreams \ {"ollama"} = {"go"}
    /\ \A S \in SUBSET Upstreams : S = {} \/ S = {"go"} \/ S = {"ollama"} \/ S = Upstreams
  BY DEF Upstreams

\* The four lists a synchronisation makes.
LEMMA GoFirstLists ==
    /\ GoFirst(Upstreams) = <<"go", "ollama">> /\ GoFirst({"go"}) = <<"go">>
    /\ GoFirst({"ollama"}) = <<"ollama">> /\ GoFirst({}) = <<>>
<1>1. "go" # "ollama" /\ {"go"} # Upstreams /\ {"ollama"} # Upstreams /\ {} # Upstreams /\ {"go"} # {"ollama"}
      /\ {} # {"go"} /\ {} # {"ollama"}
  BY DEF Upstreams
<1>. QED
  BY <1>1, Zenon DEF GoFirst

\* What is in the two lists of both upstreams.
LEMMA Pairs ==
    ASSUME NEW u, NEW v
    PROVE  /\ Range(<<u, v>>) = {u, v} /\ (\A w : Contains(<<u, v>>, w) <=> w \in {u, v})
           /\ <<u, v>> # <<>> /\ Head(<<u, v>>) = u
<1>1. Len(<<u, v>>) = 2 /\ DOMAIN <<u, v>> = 1 .. 2 /\ 1 .. 2 = {1, 2} /\ Head(<<u, v>>) = u
  OBVIOUS
<1>2. <<u, v>>[1] = u /\ <<u, v>>[2] = v
  OBVIOUS
<1>3. <<u, v>> # <<>>
  BY <1>1
<1>4. \A w : (\E i \in {1, 2} : <<u, v>>[i] = w) <=> w \in {u, v}
  BY <1>2
<1>5. \A w : Contains(<<u, v>>, w) <=> w \in {u, v}
  BY <1>1, <1>4, Zenon DEF Contains
<1>6. Range(<<u, v>>) = {<<u, v>>[i] : i \in {1, 2}}
  BY <1>1, Zenon DEF Range
<1>. QED
  BY <1>1, <1>2, <1>3, <1>5, <1>6

\* What is in a list of one upstream.
LEMMA Singles ==
    ASSUME NEW u
    PROVE  /\ Range(<<u>>) = {u} /\ (\A w : Contains(<<u>>, w) <=> w = u)
           /\ <<u>> # <<>> /\ Head(<<u>>) = u
  BY DEF Range, Contains

\* What is in a row's list.
LEMMA ListFacts ==
    ASSUME NEW ups \in Lists
    PROVE  /\ Range(ups) \subseteq Upstreams
           /\ \A u : Contains(ups, u) <=> u \in Range(ups)
           /\ ups = <<>> <=> Range(ups) = {}
           /\ ups # <<>> => Head(ups) \in Range(ups)
<1>1. CASE ups = <<>>
  BY <1>1 DEF Range, Contains
<1>2. CASE \E u \in Upstreams : ups = <<u>>
  BY <1>2, Singles
<1>3. CASE \E u \in Upstreams, v \in Upstreams : ups = <<u, v>>
  BY <1>3, Pairs
<1>. QED
  BY <1>1, <1>2, <1>3, TwoUpstreams DEF Lists

\* The lists a synchronisation makes.
LEMMA GoFirstFacts ==
    ASSUME NEW S \in SUBSET Upstreams
    PROVE  GoFirst(S) \in Lists /\ Range(GoFirst(S)) = S
<1>1. CASE S = {}
  BY <1>1, GoFirstLists DEF Lists, Range
<1>2. CASE S = {"go"}
  BY <1>2, GoFirstLists, Singles DEF Lists
<1>3. CASE S = {"ollama"}
  BY <1>3, GoFirstLists, Singles DEF Lists
<1>4. CASE S = Upstreams
  <2>1. Range(<<"go", "ollama">>) = {"go", "ollama"}
    BY Pairs
  <2>. QED
    BY <1>4, <2>1, GoFirstLists DEF Lists, Upstreams
<1>. QED
  BY <1>1, <1>2, <1>3, <1>4, TwoUpstreams

\* The lists an admin's request is left with.
LEMMA Deduplicated ==
    ASSUME NEW u \in Upstreams, NEW S \in SUBSET Upstreams, u \notin S
    PROVE  <<u>> \o GoFirst(S) = IF S = {} THEN <<u>> ELSE IF u = "go" THEN <<"go", "ollama">> ELSE <<"ollama", "go">>
<1>1. <<u>> \o <<>> = <<u>>
  OBVIOUS
<1>2. ASSUME NEW v PROVE <<u>> \o <<v>> = <<u, v>>
  <2> DEFINE s == <<u>> \o <<v>>
  <2>1. s \in Seq({u, v}) /\ Len(s) = 2
    OBVIOUS
  <2>2. s[1] = u /\ s[2] = v
    OBVIOUS
  <2> HIDE DEF s
  <2>3. s = <<s[1], s[2]>>
    BY <2>1
  <2>4. s = <<u, v>>
    BY <2>2, <2>3
  <2>. QED
    BY <2>4 DEF s
<1>3. CASE S = {}
  BY <1>1, <1>3, GoFirstLists
<1>4. CASE u = "go" /\ S = {"ollama"}
  BY <1>2, <1>4, GoFirstLists
<1>5. CASE u = "ollama" /\ S = {"go"}
  BY <1>2, <1>5, GoFirstLists
<1>6. S = {} \/ (u = "go" /\ S = {"ollama"}) \/ (u = "ollama" /\ S = {"go"})
  BY TwoUpstreams
<1>. QED
  BY <1>3, <1>4, <1>5, <1>6, Zenon

LEMMA ValidatedList ==
    ASSUME NEW ups \in Seq(STRING), NEW l \in ValidateAndNormalizeUpstreams(ups)
    PROVE  l \in Lists
<1>1. ups # <<>> /\ Range(ups) \subseteq Upstreams /\ l = deduplicateUpstreams(ups)
  BY DEF ValidateAndNormalizeUpstreams
<1>2. Head(ups) \in Upstreams
  BY <1>1 DEF Range
<1>3. l = <<Head(ups)>> \o GoFirst(Range(ups) \ {Head(ups)})
  BY <1>1 DEF deduplicateUpstreams
<1> DEFINE u == Head(ups)
           S == Range(ups) \ {Head(ups)}
<1>4. l = IF S = {} THEN <<u>> ELSE IF u = "go" THEN <<"go", "ollama">> ELSE <<"ollama", "go">>
  <2>1. u \in Upstreams /\ S \in SUBSET Upstreams /\ u \notin S
    BY <1>1, <1>2
  <2> HIDE DEF u, S
  <2>2. l = <<u>> \o GoFirst(S)
    BY <1>3 DEF u, S
  <2>. QED
    BY <2>1, <2>2, Deduplicated
<1>5. u = "go" \/ u = "ollama"
  BY <1>2, TwoUpstreams
<1> HIDE DEF u, S
<1>. QED
  BY <1>4, <1>5, Zenon DEF Lists

\* The first list is the one that registration leaves as it is.
LEMMA DeduplicatedOnce ==
    ASSUME NEW S \in SUBSET Upstreams, S # {}
    PROVE  deduplicateUpstreams(GoFirst(S)) = GoFirst(S)
<1> DEFINE l == GoFirst(S)
           u == Head(l)
           rest == Range(l) \ {u}
<1>1. l \in Lists /\ Range(l) = S /\ u \in S
  BY GoFirstFacts, ListFacts
<1>2. deduplicateUpstreams(l) = <<u>> \o GoFirst(rest)
  BY Zenon DEF deduplicateUpstreams
<1> HIDE DEF l
<1>3. deduplicateUpstreams(l) = IF rest = {} THEN <<u>> ELSE IF u = "go" THEN <<"go", "ollama">> ELSE <<"ollama", "go">>
  BY <1>1, <1>2, Deduplicated
<1>4. CASE S = {"go"}
  BY <1>1, <1>3, <1>4, GoFirstLists DEF l
<1>5. CASE S = {"ollama"}
  BY <1>1, <1>3, <1>5, GoFirstLists DEF l
<1>6. CASE S = Upstreams
  BY <1>1, <1>3, <1>6, GoFirstLists, TwoUpstreams, Pairs DEF l
<1>. QED
  BY <1>4, <1>5, <1>6, TwoUpstreams DEF l

\* What a reconciliation leaves of a list.
LEMMA WithoutFacts ==
    ASSUME NEW ups \in Lists, NEW gone
    PROVE  Without(ups, gone) \in Lists /\ Range(Without(ups, gone)) = Range(ups) \ gone
  BY ListFacts, GoFirstFacts DEF Without
----------------------------------------------------------------------------
(* What an admin set *)

Fields == {"upstream", "upstreams", "protocol", "group", "targets", "pricing", "status", "custom"}
Edited == Fields \ {"custom"}
IsRow(r) == DOMAIN r = Fields /\ r = [f \in Fields |-> r[f]] /\ r.upstreams \in Lists

\* The fields of a request, and what is left of them after validation.
IsRequest(patch) == DOMAIN patch \subseteq Edited /\ ("upstreams" \in DOMAIN patch => patch.upstreams \in Seq(STRING))
IsPatch(p) == DOMAIN p \subseteq Edited /\ ("upstreams" \in DOMAIN p => p.upstreams \in Lists)

\* Reading or writing a row changes nothing of it.
Normal(r) ==
    /\ OrElse(r.upstream, "go") = r.upstream /\ OrElse(r.protocol, "chat") = r.protocol
    /\ OrElse(r.group, "go") = r.group

\* Row s keeps what is customized in row r.
Keeps(r, s) == IsRow(s) /\ s.custom = r.custom /\ \A f \in r.custom \cap Edited : s[f] = r[f]

\* A default is a default of itself.
LEMMA OrElseTwice ==
    /\ \A v : OrElse(OrElse(v, "go"), "go") = OrElse(v, "go")
    /\ \A v : OrElse(OrElse(v, "chat"), "chat") = OrElse(v, "chat")
    /\ OrElse("go", "go") = "go" /\ OrElse("ollama", "go") = "ollama"
    /\ OrElse("chat", "chat") = "chat" /\ OrElse("messages", "chat") = "messages"
  BY Zenon DEF OrElse

\* What SaveModelRoute writes is a row that reading and writing leave alone.
LEMMA WrittenRow ==
    ASSUME NEW r, IsRow(r)
    PROVE  LET s == NewModelRouteRow(r)
           IN  /\ IsRow(s) /\ Normal(s) /\ s.custom = r.custom
               /\ s.upstream = OrElse(r.upstream, "go") /\ s.protocol = OrElse(r.protocol, "chat")
               /\ s.group = OrElse(r.group, "go")
               /\ \A f \in Fields \ {"upstream", "protocol", "group"} : s[f] = r[f]
  BY OrElseTwice DEF IsRow, Fields, Normal, NewModelRouteRow

\* What a row is read as.
LEMMA ReadRow ==
    ASSUME NEW r, IsRow(r)
    PROVE  /\ IsRow(ModelRouteFromRow(r))
           /\ Normal(r) => ModelRouteFromRow(r) = r
  BY DEF IsRow, Fields, Normal, ModelRouteFromRow

\* Writing a route that kept what was customized keeps it.
LEMMA WriteKeeps ==
    ASSUME NEW old, IsRow(old), Normal(old), NEW r, Keeps(old, r)
    PROVE  Keeps(old, NewModelRouteRow(r)) /\ Normal(NewModelRouteRow(r))
<1> DEFINE s == NewModelRouteRow(r)
<1>1. /\ IsRow(s) /\ Normal(s) /\ s.custom = r.custom
      /\ s.upstream = OrElse(r.upstream, "go") /\ s.protocol = OrElse(r.protocol, "chat")
      /\ s.group = OrElse(r.group, "go")
      /\ \A f \in Fields \ {"upstream", "protocol", "group"} : s[f] = r[f]
  BY WrittenRow DEF Keeps
<1> HIDE DEF s
<1>2. ASSUME NEW f \in old.custom \cap Edited PROVE s[f] = old[f]
  BY <1>1, <1>2 DEF Keeps, Normal, Edited
<1>3. s.custom = old.custom
  BY <1>1 DEF Keeps
<1>. QED
  BY <1>1, <1>2, <1>3 DEF Keeps, s

\* Metadata, a merge and a reconciliation keep what was customized.
LEMMA MetadataKeeps ==
    ASSUME NEW old, NEW r, Keeps(old, r), NEW matched
    PROVE  Keeps(old, ApplyOpenRouterMetadata(r, matched))
  BY DEF Keeps, IsRow, Fields, Edited, ApplyOpenRouterMetadata

LEMMA MergeKeeps ==
    ASSUME NEW m, NEW ups, NEW old, IsRow(old), Normal(old), NEW fetched
    PROVE  Keeps(old, buildMergedRoute(m, ups, old, fetched))
<1>1. ModelRouteFromRow(old) = old
  BY ReadRow
<1> DEFINE route == ModelRouteFromRow(old)
           primary == IF Head(ups) \in fetched THEN {"upstream", "group"} ELSE {}
           auto == (primary \cup {"upstreams", "targets", "protocol"}) \ route.custom
           members == {u \in Upstreams : IF u \in fetched THEN Contains(ups, u) ELSE Contains(route.upstreams, u)}
           merged == [fallback(m, ups) EXCEPT !.upstreams = GoFirst(members)]
<1>2. buildMergedRoute(m, ups, old, fetched) = [f \in DOMAIN route |-> IF f \in auto THEN merged[f] ELSE route[f]]
  BY Zenon DEF buildMergedRoute
<1>3. auto \cap old.custom = {} /\ "custom" \notin auto
  BY <1>1
<1>4. route = old
  BY <1>1
<1>5. merged.upstreams \in Lists
  BY GoFirstFacts DEF fallback
<1> HIDE DEF auto, merged, route
<1>. QED
  BY <1>2, <1>3, <1>4, <1>5 DEF Keeps, IsRow, Fields, Edited

LEMMA ReconcileKeeps ==
    ASSUME NEW old, IsRow(old), Normal(old), NEW fetched
    PROVE  Keeps(old, reconcile(old, fetched))
<1>1. ModelRouteFromRow(old) = old
  BY ReadRow
<1>2. PICK ups, status :
         /\ reconcile(old, fetched) = [old EXCEPT !.upstreams = ups, !.status = status]
         /\ ups \in Lists
         /\ "upstreams" \in old.custom => ups = old.upstreams
         /\ "status" \in old.custom => status = old.status
  <2> DEFINE ups == IF "upstreams" \in old.custom THEN old.upstreams ELSE Without(old.upstreams, fetched)
             status == IF "status" \notin old.custom /\ ups = <<>> THEN "disabled" ELSE old.status
  <2>1. reconcile(old, fetched) = [old EXCEPT !.upstreams = ups, !.status = status]
    BY <1>1 DEF reconcile
  <2>2. ups \in Lists
    BY WithoutFacts DEF IsRow
  <2>. QED
    BY <2>1, <2>2
<1>. QED
  BY <1>2 DEF Keeps, IsRow, Fields, Edited

\* The list of a model in the merged catalogs.
LEMMA MergedLists ==
    ASSUME NEW catalog, NEW m
    PROVE  /\ mergeModels(catalog, m) = <<>> <=> m \notin Listed(catalog)
           /\ m \in Listed(catalog) => Head(mergeModels(catalog, m)) \in Upstreams
           /\ \A u \in Upstreams : Contains(mergeModels(catalog, m), u) <=> m \in catalog[u]
           /\ mergeModels(catalog, m) \in Lists
<1> DEFINE S == {u \in Upstreams : m \in catalog[u]}
<1>1. S \in SUBSET Upstreams /\ mergeModels(catalog, m) = GoFirst(S)
  BY DEF mergeModels
<1>2. S = {} <=> m \notin Listed(catalog)
  BY DEF Listed
<1>3. \A u \in Upstreams : u \in S <=> m \in catalog[u]
  OBVIOUS
<1> HIDE DEF S
<1>. QED
  BY <1>1, <1>2, <1>3, GoFirstFacts, ListFacts

\* The route of a model that nothing is stored of.
LEMMA FallbackRow ==
    ASSUME NEW m, NEW ups \in Lists, Head(ups) \in Upstreams
    PROVE  LET r == fallback(m, ups)
           IN  IsRow(r) /\ Normal(r) /\ r.upstreams = ups /\ r.custom = {}
<1> DEFINE r == fallback(m, ups)
<1>1. PICK group \in Upstreams : \E targets :
         r = [upstream |-> Head(ups), upstreams |-> ups, protocol |-> inferProtocol(m),
              group |-> group, targets |-> targets, pricing |-> "none", status |-> "enabled", custom |-> {}]
  <2> DEFINE group == IF Contains(ups, "go") THEN "go" ELSE Head(ups)
             default == [protocol |-> inferProtocol(m), group |-> group]
             needTargets == Len(ups) > 1 /\ \E u \in Range(ups) : target(m, u) # default
             targets == IF needTargets THEN [u \in Range(ups) |-> target(m, u)] ELSE <<>>
  <2>1. r = [upstream |-> Head(ups), upstreams |-> ups, protocol |-> default.protocol,
             group |-> group, targets |-> targets, pricing |-> "none", status |-> "enabled", custom |-> {}]
    BY Zenon DEF fallback
  <2>2. group \in Upstreams /\ default.protocol = inferProtocol(m)
    BY DEF Upstreams
  <2> HIDE DEF group, default, targets
  <2>. QED
    BY <2>1, <2>2
<1> HIDE DEF r
<1>2. IsRow(r)
  BY <1>1 DEF IsRow, Fields
<1>3. Normal(r)
  BY <1>1, OrElseTwice DEF Normal, Upstreams, inferProtocol
<1>. QED
  BY <1>1, <1>2, <1>3 DEF r

\* What metadata changes of a row.
LEMMA MetadataRow ==
    ASSUME NEW r, IsRow(r), NEW matched
    PROVE  LET s == ApplyOpenRouterMetadata(r, matched)
           IN  IsRow(s) /\ s.custom = r.custom /\ (\A f \in Fields \ {"pricing"} : s[f] = r[f])
  BY DEF IsRow, Fields, ApplyOpenRouterMetadata

\* The rows of two catalogs nothing was stored of before.
LEMMA FreshRows ==
    ASSUME NEW catalog
    PROVE  /\ DOMAIN Fresh(catalog) = Listed(catalog)
           /\ \A m \in Listed(catalog) :
                 IsRow(Fresh(catalog)[m]) /\ Normal(Fresh(catalog)[m])
                 /\ Fresh(catalog)[m].upstreams = mergeModels(catalog, m)
  BY MergedLists, FallbackRow DEF Fresh

\* What a synchronisation writes is a row and keeps what was customized.
LEMMA SyncedRow ==
    ASSUME NEW m, NEW matched,
           m \in DOMAIN sync.snapshot => IsRow(sync.snapshot[m]) /\ Normal(sync.snapshot[m]),
           m \in DOMAIN sync.snapshot \cup Listed(sync.catalog)
    PROVE  /\ IsRow(Synced(m, matched)) /\ Normal(Synced(m, matched))
           /\ m \in DOMAIN sync.snapshot => Keeps(sync.snapshot[m], Synced(m, matched))
<1> DEFINE ups == mergeModels(sync.catalog, m)
           old == sync.snapshot[m]
<1>1. CASE ups = <<>>
  <2>1. m \in DOMAIN sync.snapshot
    BY <1>1, MergedLists
  <2>2. Synced(m, matched) = NewModelRouteRow(reconcile(old, sync.fetched))
    BY <1>1 DEF Synced
  <2>. QED
    BY <2>1, <2>2, ReconcileKeeps, WriteKeeps DEF Keeps
<1>2. CASE ups # <<>> /\ m \in DOMAIN sync.snapshot
  <2>1. Synced(m, matched) = NewModelRouteRow(ApplyOpenRouterMetadata(
                               buildMergedRoute(m, ups, old, sync.fetched), matched))
    BY <1>2 DEF Synced
  <2>2. Keeps(old, buildMergedRoute(m, ups, old, sync.fetched))
    BY <1>2, MergeKeeps
  <2>3. Keeps(old, ApplyOpenRouterMetadata(buildMergedRoute(m, ups, old, sync.fetched), matched))
    BY <2>2, MetadataKeeps
  <2>. QED
    BY <1>2, <2>1, <2>3, WriteKeeps DEF Keeps
<1>3. CASE ups # <<>> /\ m \notin DOMAIN sync.snapshot
  <2>1. Synced(m, matched) = NewModelRouteRow(ApplyOpenRouterMetadata(fallback(m, ups), matched))
    BY <1>3 DEF Synced
  <2>2. IsRow(ApplyOpenRouterMetadata(fallback(m, ups), matched))
    BY <1>3, MergedLists, FallbackRow, MetadataRow
  <2>. QED
    BY <1>3, <2>1, <2>2, WrittenRow
<1>. QED
  BY <1>1, <1>2, <1>3

----------------------------------------------------------------------------
\* The rows rs hold what was asked for m.
Holds(rs, m) ==
    \A f \in DOMAIN asked[m] : m \in DOMAIN rs /\ f \in rs[m].custom /\ rs[m][f] = asked[m][f]

AreRows(rs) == \A m \in DOMAIN rs : IsRow(rs[m]) /\ Normal(rs[m])
AskedTypes == DOMAIN asked = Models /\ \A m \in Models : DOMAIN asked[m] \subseteq Edited
SyncRows ==
    /\ sync.pc = "saving" => AreRows(sync.snapshot) /\ sync.todo \subseteq DOMAIN sync.snapshot \cup Listed(sync.catalog)
    /\ sync.pc = "rebuilding" => sync.fetched = Upstreams /\ Listed(sync.catalog) # {}

\* What a handler is about to write back of the row: the flags of the fields it
\* does not name and, if it read them, the values.
Carries(op) ==
    \A f \in DOMAIN asked[op.id] \ DOMAIN op.patch :
        /\ op.whole \/ op.route[f] = asked[op.id][f]
        /\ op.pc = "save" => f \in op.route.custom

\* A handler works alone, or nothing is promised of its model.
Edits(a) ==
    LET op == ops[a]
    IN  /\ op.id \in Models /\ DOMAIN op.patch \subseteq Edited /\ IsRow(op.route)
        /\ op.pc = "save" => DOMAIN op.patch \subseteq op.route.custom
        /\ op.alone \/ DOMAIN asked[op.id] = {}
        /\ op.alone => /\ sync.pc = "idle" /\ \A b \in DOMAIN ops : ops[b].id = op.id => b = a
                       /\ op.pc \in {"merge", "save"} => Carries(op)

Promises(m) == Holds(rows, m) /\ (sync.pc = "saving" => Holds(sync.snapshot, m))

EditInv ==
    /\ AreRows(rows) /\ AskedTypes /\ SyncRows
    /\ \A a \in DOMAIN ops : Edits(a)
    /\ \A m \in Models : Promises(m)

\* A step of one handler leaves what the others promise.
LEMMA OthersEdit ==
    ASSUME EditInv, NEW a \in DOMAIN ops, NEW x, ops[a].id = x, UNCHANGED sync,
           DOMAIN ops' \subseteq DOMAIN ops, \A b \in DOMAIN ops' \ {a} : ops'[b] = ops[b],
           a \in DOMAIN ops' => ops'[a].id = x,
           \A m \in Models \ {x} : asked'[m] = asked[m],
           ops[a].alone \/ (DOMAIN asked[x] = {} => DOMAIN asked'[x] = {})
    PROVE  \A b \in DOMAIN ops' \ {a} : Edits(b)'
<1> SUFFICES ASSUME NEW b \in DOMAIN ops' \ {a} PROVE Edits(b)'
  OBVIOUS
<1>1. Edits(a) /\ Edits(b) /\ b \in DOMAIN ops /\ ops'[b] = ops[b] /\ ops[b].id \in Models
  BY DEF EditInv, Edits
<1>2. ops[b].id = x => ~ops[a].alone /\ ~ops[b].alone
  BY <1>1 DEF Edits
<1>3. DOMAIN asked[ops[b].id] = {} => DOMAIN asked'[ops[b].id] = {}
  BY <1>1, <1>2
<1>4. ops[b].alone => \A c \in DOMAIN ops' : ops'[c].id = ops[b].id => c = b
  <2>1. \A c \in DOMAIN ops' : ops'[c].id = ops[c].id
    OBVIOUS
  <2>. QED
    BY <1>1, <2>1 DEF Edits
<1>5. ops[b].alone => asked'[ops[b].id] = asked[ops[b].id]
  BY <1>1, <1>2
<1>. QED
  BY <1>1, <1>3, <1>4, <1>5 DEF Edits, Carries

\* The handlers, one statement at a time.
LEMMA MergeCustomizedEdits ==
    ASSUME IInv, EditInv, NEW a \in DOMAIN ops, MergeCustomized(a)
    PROVE  EditInv'
<1> DEFINE op == ops[a]
           before == IF op.id \in DOMAIN rows THEN rows[op.id].custom ELSE {}
           route == [op.route EXCEPT !.custom = @ \cup before \cup DOMAIN op.patch]
           op2 == [pc |-> "save", id |-> op.id, route |-> route, patch |-> op.patch,
                   whole |-> op.whole, alone |-> op.alone]
<1>1. /\ op.pc = "merge" /\ UNCHANGED <<rows, sync, asked>>
      /\ ops' = [ops EXCEPT ![a].pc = "save", ![a].route.custom = @ \cup before \cup DOMAIN op.patch]
  BY DEF MergeCustomized
<1>2. DOMAIN ops' = DOMAIN ops /\ \A b \in DOMAIN ops \ {a} : ops'[b] = ops[b]
  BY <1>1
<1>3. IsOp(op) /\ Edits(a)
  BY DEF IInv, Shapes, EditInv
<1>4. ops'[a] = op2
  BY <1>1, <1>3 DEF IsOp
<1>5. /\ IsRow(route) /\ route.custom = op.route.custom \cup before \cup DOMAIN op.patch
      /\ \A f \in Edited : route[f] = op.route[f]
  BY <1>3 DEF Edits, IsRow, Fields, Edited
<1>6. op2.pc = "save" /\ op2.id = op.id /\ op2.route = route /\ op2.patch = op.patch
      /\ op2.whole = op.whole /\ op2.alone = op.alone
  OBVIOUS
<1> HIDE DEF op2, route, before
<1>7. op.alone => Carries(ops[a])'
  <2>1. SUFFICES ASSUME op.alone, NEW f \in DOMAIN asked[op.id] \ DOMAIN op.patch
                 PROVE  (op.whole \/ route[f] = asked[op.id][f]) /\ f \in route.custom
    BY <1>1, <1>4, <1>6 DEF Carries
  <2>2. op.id \in Models /\ f \in Edited /\ (op.whole \/ op.route[f] = asked[op.id][f])
    BY <1>1, <1>3, <2>1 DEF Edits, Carries, EditInv, AskedTypes
  <2>3. f \in before
    BY <2>2 DEF EditInv, Promises, Holds, before
  <2>. QED
    BY <1>5, <2>2, <2>3
<1>8. Edits(a)'
  <2>1. op.alone => sync'.pc = "idle" /\ \A b \in DOMAIN ops' : ops'[b].id = op.id => b = a
    BY <1>1, <1>2, <1>3, <1>4, <1>6 DEF Edits
  <2>2. op.alone \/ DOMAIN asked'[op.id] = {}
    BY <1>1, <1>3 DEF Edits
  <2>3. op.id \in Models /\ DOMAIN op.patch \subseteq Edited
    BY <1>3 DEF Edits
  <2>. QED
    BY <1>4, <1>5, <1>6, <1>7, <2>1, <2>2, <2>3 DEF Edits
<1>9. \A b \in DOMAIN ops' \ {a} : Edits(b)'
  BY <1>1, <1>2, <1>4, <1>6, OthersEdit
<1>. QED
  BY <1>1, <1>8, <1>9 DEF EditInv, AreRows, AskedTypes, SyncRows, Promises, Holds

\* A row is written over what was asked before.
LEMMA SaveEditEdits ==
    ASSUME IInv, EditInv, NEW a \in DOMAIN ops, SaveEdit(a)
    PROVE  EditInv'
<1> DEFINE op == ops[a]
           x == op.id
           row == NewModelRouteRow(op.route)
           set == [f \in DOMAIN op.patch |-> row[f]]
           op2 == [pc |-> "register", id |-> op.id, route |-> row, patch |-> op.patch,
                   whole |-> op.whole, alone |-> op.alone]
<1>1. /\ op.pc = "save" /\ UNCHANGED sync
      /\ \/ /\ rows' = Put(rows, x, row)
            /\ ops' = [ops EXCEPT ![a].pc = "register", ![a].route = row]
            /\ asked' = IF ~op.alone THEN asked
                        ELSE [asked EXCEPT ![x] =
                                  Over(set, IF op.whole THEN Restrict(row, DOMAIN @) ELSE @)]
         \/ ops' = Drop(ops, a) /\ UNCHANGED <<rows, asked>>
  BY Zenon DEF SaveEdit
<1>2. IsOp(op) /\ Edits(a)
  BY DEF IInv, Shapes, EditInv
<1>3. CASE ops' = Drop(ops, a) /\ UNCHANGED <<rows, asked>>
  <2>1. DOMAIN ops' = DOMAIN ops \ {a} /\ \A b \in DOMAIN ops' : ops'[b] = ops[b]
    BY <1>3 DEF Drop, Restrict
  <2>2. \A b \in DOMAIN ops' \ {a} : Edits(b)'
    BY <1>1, <1>3, <2>1, OthersEdit
  <2>. QED
    BY <1>1, <1>3, <2>1, <2>2 DEF EditInv, AreRows, AskedTypes, SyncRows, Promises, Holds
<1>4. CASE /\ rows' = Put(rows, x, row)
           /\ ops' = [ops EXCEPT ![a].pc = "register", ![a].route = row]
           /\ asked' = IF ~op.alone THEN asked
                       ELSE [asked EXCEPT ![x] =
                                 Over(set, IF op.whole THEN Restrict(row, DOMAIN @) ELSE @)]
  <2>1. DOMAIN ops' = DOMAIN ops /\ \A b \in DOMAIN ops \ {a} : ops'[b] = ops[b]
    BY <1>4
  <2>2. ops'[a] = op2
    BY <1>2, <1>4 DEF IsOp
  <2>3. op2.pc = "register" /\ op2.id = x /\ op2.route = row /\ op2.patch = op.patch
        /\ op2.whole = op.whole /\ op2.alone = op.alone
    OBVIOUS
  <2>4. /\ IsRow(row) /\ Normal(row) /\ row.custom = op.route.custom
        /\ row.upstream = OrElse(op.route.upstream, "go") /\ row.protocol = OrElse(op.route.protocol, "chat")
        /\ row.group = OrElse(op.route.group, "go")
        /\ \A f \in Fields \ {"upstream", "protocol", "group"} : row[f] = op.route[f]
    BY <1>2, WrittenRow DEF Edits
  <2>5. x \in Models /\ DOMAIN op.patch \subseteq Edited /\ DOMAIN op.patch \subseteq row.custom
    BY <1>1, <1>2, <2>4 DEF Edits
  <2> HIDE DEF op2, row
  <2>6. /\ DOMAIN rows' = DOMAIN rows \cup {x} /\ rows'[x] = row
        /\ \A m \in DOMAIN rows \ {x} : rows'[m] = rows[m]
    BY <1>4 DEF Put
  <2>7. \A m \in Models \ {x} : asked'[m] = asked[m]
    BY <1>4 DEF EditInv, AskedTypes
  <2>8. /\ ~op.alone => asked' = asked /\ DOMAIN asked[x] = {}
        /\ op.alone => /\ sync.pc = "idle" /\ Carries(op)
                       /\ asked'[x] = Over(set, IF op.whole THEN Restrict(row, DOMAIN asked[x]) ELSE asked[x])
                       /\ \A b \in DOMAIN ops : ops[b].id = x => b = a
    BY <1>1, <1>2, <1>4, <2>5 DEF EditInv, AskedTypes, Edits
  <2>9. op.alone => /\ DOMAIN asked'[x] = DOMAIN op.patch \cup DOMAIN asked[x]
                    /\ \A f \in DOMAIN op.patch : asked'[x][f] = row[f]
                    /\ \A f \in DOMAIN asked[x] \ DOMAIN op.patch :
                          asked'[x][f] = IF op.whole THEN row[f] ELSE asked[x][f]
    <3> DEFINE old == IF op.whole THEN Restrict(row, DOMAIN asked[x]) ELSE asked[x]
    <3>1. DOMAIN old = DOMAIN asked[x]
      BY DEF Restrict
    <3>2. \A f \in DOMAIN asked[x] : old[f] = IF op.whole THEN row[f] ELSE asked[x][f]
      BY DEF Restrict
    <3>3. op.alone => asked'[x] = Over(set, old)
      BY <2>8
    <3> HIDE DEF old
    <3>4. /\ DOMAIN Over(set, old) = DOMAIN op.patch \cup DOMAIN old
          /\ \A f \in DOMAIN op.patch : Over(set, old)[f] = row[f]
          /\ \A f \in DOMAIN old \ DOMAIN op.patch : Over(set, old)[f] = old[f]
      BY DEF Over
    <3>. QED
      BY <3>1, <3>2, <3>3, <3>4
  <2>10. AskedTypes'
    <3>1. DOMAIN asked' = Models
      BY <1>4 DEF EditInv, AskedTypes
    <3>2. DOMAIN asked'[x] \subseteq Edited
      BY <2>5, <2>8, <2>9 DEF EditInv, AskedTypes
    <3>. QED
      BY <2>7, <3>1, <3>2 DEF EditInv, AskedTypes
  <2>11. ASSUME NEW f \in DOMAIN asked'[x] PROVE f \in row.custom /\ row[f] = asked'[x][f]
    <3>1. op.alone
      BY <2>8, <2>11
    <3>2. CASE f \in DOMAIN op.patch
      BY <2>5, <2>9, <3>1, <3>2
    <3>3. CASE f \notin DOMAIN op.patch /\ op.whole
      <4>1. f \in DOMAIN asked[x] /\ asked'[x][f] = row[f]
        BY <2>9, <2>11, <3>1, <3>3
      <4>. QED
        BY <1>1, <2>4, <2>8, <3>1, <3>3, <4>1 DEF Carries
    <3>4. CASE f \notin DOMAIN op.patch /\ ~op.whole
      <4>1. f \in DOMAIN asked[x] /\ asked'[x][f] = asked[x][f] /\ f \in Edited
        BY <2>5, <2>9, <2>11, <3>1, <3>4 DEF EditInv, AskedTypes
      <4>2. op.route[f] = asked[x][f] /\ f \in op.route.custom
        BY <1>1, <2>8, <3>1, <3>4, <4>1 DEF Carries
      <4>3. x \in DOMAIN rows /\ rows[x][f] = asked[x][f] /\ Normal(rows[x]) /\ IsRow(rows[x])
        BY <2>5, <4>1 DEF EditInv, Promises, Holds, AreRows
      <4>4. row[f] = op.route[f]
        <5>1. CASE f = "upstream"
          BY <2>4, <4>2, <4>3, <5>1 DEF Normal
        <5>2. CASE f = "protocol"
          BY <2>4, <4>2, <4>3, <5>2 DEF Normal
        <5>3. CASE f = "group"
          BY <2>4, <4>2, <4>3, <5>3 DEF Normal
        <5>4. CASE f \notin {"upstream", "protocol", "group"}
          BY <2>4, <4>1, <5>4 DEF Edited
        <5>. QED
          BY <5>1, <5>2, <5>3, <5>4
      <4>. QED
        BY <2>4, <4>1, <4>2, <4>4
    <3>. QED
      BY <3>2, <3>3, <3>4
  <2>12. ASSUME NEW m \in Models PROVE Promises(m)'
    <3>1. Holds(rows, m)'
      <4>1. CASE m = x
        BY <2>6, <2>11, <4>1 DEF Holds
      <4>2. CASE m # x
        BY <2>6, <2>7, <4>2 DEF Holds, EditInv, Promises
      <4>. QED
        BY <4>1, <4>2
    <3>2. sync'.pc = "saving" => Holds(sync.snapshot, m)'
      BY <1>1, <2>8 DEF Holds, EditInv, Promises
    <3>. QED
      BY <3>1, <3>2 DEF Promises
  <2>13. Edits(a)'
    <3>1. op.alone => sync'.pc = "idle" /\ \A b \in DOMAIN ops' : ops'[b].id = x => b = a
      BY <1>1, <2>1, <2>8
    <3>2. op.alone \/ DOMAIN asked'[x] = {}
      BY <2>8
    <3>. QED
      BY <2>2, <2>3, <2>4, <2>5, <3>1, <3>2 DEF Edits
  <2>14. \A b \in DOMAIN ops' \ {a} : Edits(b)'
    BY <1>1, <2>1, <2>2, <2>3, <2>7, <2>8, OthersEdit
  <2>15. AreRows(rows)' /\ SyncRows'
    BY <1>1, <2>4, <2>6 DEF AreRows, SyncRows, EditInv
  <2>. QED
    BY <2>12, <2>13, <2>14, <2>15, <2>10 DEF EditInv
<1>. QED
  BY <1>1, <1>3, <1>4

LEMMA RegisterModelEdits ==
    ASSUME EditInv, NEW a \in DOMAIN ops, RegisterModel(a)
    PROVE  EditInv'
<1>1. UNCHANGED <<rows, sync, asked>> /\ ops' = Drop(ops, a)
  BY DEF RegisterModel
<1>2. DOMAIN ops' = DOMAIN ops \ {a} /\ \A b \in DOMAIN ops' : ops'[b] = ops[b]
  BY <1>1 DEF Drop, Restrict
<1>3. \A b \in DOMAIN ops' \ {a} : Edits(b)'
  BY <1>1, <1>2, OthersEdit
<1>. QED
  BY <1>1, <1>2, <1>3 DEF EditInv, AreRows, AskedTypes, SyncRows, Promises, Holds

LEMMA DeleteRowEdits ==
    ASSUME EditInv, NEW a \in DOMAIN ops, DeleteRow(a)
    PROVE  EditInv'
<1> DEFINE x == ops[a].id
<1>1. /\ UNCHANGED sync /\ ops' = Drop(ops, a)
      /\ \/ rows' = Drop(rows, x) /\ asked' = [asked EXCEPT ![x] = None]
         \/ UNCHANGED <<rows, asked>>
  BY DEF DeleteRow
<1>2. DOMAIN ops' = DOMAIN ops \ {a} /\ \A b \in DOMAIN ops' : ops'[b] = ops[b]
  BY <1>1 DEF Drop, Restrict
<1>3. x \in Models /\ DOMAIN asked = Models
  BY DEF EditInv, Edits, AskedTypes
<1>4. /\ DOMAIN asked' = Models /\ \A m \in Models \ {x} : asked'[m] = asked[m]
      /\ asked'[x] = asked[x] \/ DOMAIN asked'[x] = {}
  BY <1>1, <1>3, EmptyNone
<1>5. \A b \in DOMAIN ops' \ {a} : Edits(b)'
  BY <1>1, <1>2, <1>4, OthersEdit
<1>6. AreRows(rows)' /\ SyncRows' /\ AskedTypes'
  <2>1. DOMAIN rows' \subseteq DOMAIN rows /\ \A m \in DOMAIN rows' : rows'[m] = rows[m]
    BY <1>1 DEF Drop, Restrict
  <2>. QED
    BY <1>1, <1>4, <2>1 DEF EditInv, AreRows, SyncRows, AskedTypes
<1>7. ASSUME NEW m \in Models PROVE Promises(m)'
  <2>1. CASE UNCHANGED <<rows, asked>>
    BY <1>1, <2>1 DEF EditInv, Promises, Holds
  <2>2. CASE rows' = Drop(rows, x) /\ asked' = [asked EXCEPT ![x] = None]
    <3>1. \A n \in DOMAIN rows \ {x} : n \in DOMAIN rows' /\ rows'[n] = rows[n]
      BY <2>2 DEF Drop, Restrict
    <3>2. DOMAIN asked'[x] = {}
      BY <1>3, <2>2, EmptyNone
    <3>. QED
      BY <1>1, <1>4, <3>1, <3>2 DEF EditInv, Promises, Holds
  <2>. QED
    BY <1>1, <2>1, <2>2
<1>. QED
  BY <1>2, <1>5, <1>6, <1>7 DEF EditInv

LEMMA AloneEdits ==
    ASSUME NEW op, IsOp(op), NEW v
    PROVE  LET op2 == [op EXCEPT !.alone = v]
           IN  /\ op2.alone = v /\ op2.whole = op.whole /\ op2.patch = op.patch
               /\ op2.pc = op.pc /\ op2.id = op.id /\ op2.route = op.route
<1> DEFINE op2 == [pc |-> op.pc, id |-> op.id, route |-> op.route, patch |-> op.patch,
                   whole |-> op.whole, alone |-> v]
<1>1. [op EXCEPT !.alone = v] = op2
  BY DEF IsOp
<1>2. /\ op2.alone = v /\ op2.whole = op.whole /\ op2.patch = op.patch
      /\ op2.pc = op.pc /\ op2.id = op.id /\ op2.route = op.route
  OBVIOUS
<1>. QED
  BY <1>1, <1>2

\* A handler starts on model x; what it carries of the row was asked.
LEMMA StartEdits ==
    ASSUME IInv, EditInv, NEW a, NEW x \in Models, NEW op, IsOp(op), op.id = x,
           op.pc \in {"merge", "delete"}, DOMAIN op.patch \subseteq Edited, IsRow(op.route),
           Start(a, x, op), UNCHANGED rows,
           op.pc = "merge" => \A f \in DOMAIN asked[x] \ DOMAIN op.patch : op.whole \/ op.route[f] = asked[x][f]
    PROVE  EditInv'
<1> DEFINE alone == sync.pc = "idle" /\ x \notin Busy
           op2 == [op EXCEPT !.alone = alone]
<1>1. /\ a \notin DOMAIN ops
      /\ ops' = Put([b \in DOMAIN ops |-> [ops[b] EXCEPT !.alone = @ /\ ops[b].id # x]], a, op2)
      /\ asked' = IF alone THEN asked ELSE [asked EXCEPT ![x] = None]
      /\ sync' = IF sync.pc = "idle" THEN sync ELSE [sync EXCEPT !.met = @ \cup {x}]
  BY DEF Start
<1>2. /\ op2.alone = alone /\ op2.whole = op.whole /\ op2.patch = op.patch
      /\ op2.pc = op.pc /\ op2.id = x /\ op2.route = op.route
  BY AloneEdits
<1> HIDE DEF op2
<1>3. DOMAIN ops' = DOMAIN ops \cup {a} /\ ops'[a] = op2
  BY <1>1 DEF Put
<1>4. ASSUME NEW b \in DOMAIN ops
      PROVE  /\ ops'[b].alone = (ops[b].alone /\ ops[b].id # x)
             /\ ops'[b].whole = ops[b].whole /\ ops'[b].patch = ops[b].patch
             /\ ops'[b].pc = ops[b].pc /\ ops'[b].id = ops[b].id /\ ops'[b].route = ops[b].route
  <2>1. ops'[b] = [ops[b] EXCEPT !.alone = ops[b].alone /\ ops[b].id # x]
    BY <1>1, <1>4 DEF Put
  <2>2. IsOp(ops[b])
    BY DEF IInv, Shapes
  <2>. QED
    BY <2>1, <2>2, AloneEdits
<1>5. /\ sync'.pc = sync.pc /\ sync'.snapshot = sync.snapshot /\ sync'.todo = sync.todo
      /\ sync'.fetched = sync.fetched /\ sync'.catalog = sync.catalog
  BY <1>1 DEF IInv, Shapes, IsSync
<1>6. /\ DOMAIN asked' = Models /\ DOMAIN asked = Models
      /\ \A m \in Models \ {x} : asked'[m] = asked[m]
      /\ asked'[x] = asked[x] \/ DOMAIN asked'[x] = {}
      /\ ~alone => DOMAIN asked'[x] = {}
      /\ alone => asked' = asked
  BY <1>1, EmptyNone DEF EditInv, AskedTypes
<1>7. alone => sync.pc = "idle" /\ \A b \in DOMAIN ops : ops[b].id # x
  BY DEF Busy
<1>8. \A b \in DOMAIN ops : ops[b].id = x => ~alone
  BY <1>7
<1> HIDE DEF alone
<1>9. Edits(a)'
  <2>1. alone => sync'.pc = "idle" /\ \A b \in DOMAIN ops' : ops'[b].id = x => b = a
    BY <1>3, <1>4, <1>5, <1>7
  <2>2. alone /\ op.pc = "merge" => Carries(ops[a])'
    BY <1>2, <1>3, <1>6 DEF Carries
  <2>. QED
    BY <1>2, <1>3, <1>6, <2>1, <2>2 DEF Edits
<1>10. ASSUME NEW b \in DOMAIN ops PROVE Edits(b)'
  <2>1. Edits(b) /\ b # a
    BY <1>1, <1>10 DEF EditInv
  <2>2. CASE ops[b].id = x
    BY <1>3, <1>4, <1>6, <1>8, <2>1, <2>2 DEF Edits
  <2>3. CASE ops[b].id # x
    <3>1. ops[b].alone => \A c \in DOMAIN ops' : ops'[c].id = ops[b].id => c = b
      BY <1>2, <1>3, <1>4, <2>1, <2>3 DEF Edits
    <3>2. asked'[ops[b].id] = asked[ops[b].id]
      BY <1>6, <2>1, <2>3 DEF Edits
    <3>3. ops'[b].alone <=> ops[b].alone
      BY <1>4, <2>3
    <3>. QED
      BY <1>3, <1>4, <1>5, <2>1, <3>1, <3>2, <3>3 DEF Edits, Carries
  <2>. QED
    BY <2>2, <2>3
<1>11. AskedTypes' /\ AreRows(rows)' /\ SyncRows'
  BY <1>5, <1>6 DEF EditInv, AskedTypes, AreRows, SyncRows
<1>12. \A m \in Models : Promises(m)'
  BY <1>5, <1>6 DEF EditInv, Promises, Holds
<1>. QED
  BY <1>3, <1>9, <1>10, <1>11, <1>12 DEF EditInv

\* What the admin API accepts.
LEMMA RequestFields == \A patch \in Patches : IsRequest(patch)
  BY PatchAssumption DEF IsRequest, Edited, Fields

\* What a request that passes sets, if it is of the fields it may set.
LEMMA AcceptedPatch ==
    ASSUME NEW patch, IsRequest(patch), NEW route, NEW p \in Accepted(patch, route)
    PROVE  IsPatch(p)
<1>1. PICK ups : /\ p = [f \in DOMAIN patch |-> IF f = "upstreams" THEN ups ELSE patch[f]]
                 /\ "upstreams" \in DOMAIN patch => ups \in ValidateAndNormalizeUpstreams(patch.upstreams)
  BY DEF Accepted
<1>2. "upstreams" \in DOMAIN p => p.upstreams \in Lists
  BY <1>1, ValidatedList DEF IsRequest
<1>. QED
  BY <1>1, <1>2 DEF IsPatch, IsRequest

\* A request laid over a row is a row.
LEMMA OverRow ==
    ASSUME NEW p, IsPatch(p), NEW r, IsRow(r)
    PROVE  IsRow(Over(p, r)) /\ (\A f \in Fields \ DOMAIN p : Over(p, r)[f] = r[f])
           /\ Over(p, r).custom = r.custom
  BY DEF IsRow, IsPatch, Fields, Edited, Over

\* The handlers' first statements.
LEMMA UpdateEdits ==
    ASSUME IInv, EditInv, NEW a, NEW x \in Models, NEW patch, IsRequest(patch), Update(a, x, patch)
    PROVE  EditInv'
<1>1. PICK p \in Accepted(patch, rows[x]) :
         Start(a, x, Op("merge", x, Over(p, ModelRouteFromRow(rows[x])), p, FALSE))
  BY DEF Update
<1> DEFINE op == Op("merge", x, Over(p, ModelRouteFromRow(rows[x])), p, FALSE)
<1>2. UNCHANGED rows /\ x \in DOMAIN rows /\ IsPatch(p) /\ DOMAIN p \subseteq Edited
  BY AcceptedPatch DEF Update, IsPatch
<1>3. IsOp(op) /\ op.id = x /\ op.pc = "merge" /\ op.patch = p /\ op.route = Over(p, ModelRouteFromRow(rows[x]))
  BY DEF Op, IsOp
<1>4. IsRow(rows[x]) /\ ModelRouteFromRow(rows[x]) = rows[x]
  BY <1>2, ReadRow DEF EditInv, AreRows
<1>5. \A f \in DOMAIN asked[x] : f \in Fields /\ rows[x][f] = asked[x][f]
  BY DEF EditInv, AskedTypes, Promises, Holds, Edited
<1> HIDE DEF op
<1>6. IsRow(op.route) /\ \A f \in DOMAIN asked[x] \ DOMAIN op.patch : op.route[f] = asked[x][f]
  BY <1>2, <1>3, <1>4, <1>5, OverRow
<1>7. Start(a, x, op)
  BY <1>1 DEF op
<1>. QED
  BY <1>2, <1>3, <1>6, <1>7, StartEdits

LEMMA ToggleEdits ==
    ASSUME IInv, EditInv, NEW a, NEW x \in Models, Toggle(a, x)
    PROVE  EditInv'
<1>1. PICK status : Update(a, x, [status |-> status])
  BY DEF Toggle
<1>2. IsRequest([status |-> status])
  BY DEF IsRequest, Edited, Fields
<1>. QED
  BY <1>1, <1>2, UpdateEdits

LEMMA BlankRow == IsRow(Blank)
  BY DEF Blank, IsRow, Fields, Lists

LEMMA UpsertEdits ==
    ASSUME IInv, EditInv, NEW a, NEW x \in Models, NEW patch, IsRequest(patch), Upsert(a, x, patch)
    PROVE  EditInv'
<1> DEFINE named == Over(patch, [Blank EXCEPT !.protocol = inferProtocol(x)])
           route == [named EXCEPT !.group = OrElse(@, named.upstream)]
<1>1. /\ DOMAIN named = Fields
      /\ "upstreams" \notin DOMAIN patch => named.upstreams = <<>>
  BY DEF Blank, Over, IsRequest, Edited, Fields
<1> HIDE DEF named
<1>2. named = [f \in Fields |-> named[f]]
  BY <1>1 DEF named, Over
<1>3. /\ DOMAIN route = Fields /\ route = [f \in Fields |-> route[f]]
      /\ "upstreams" \notin DOMAIN patch => route.upstreams = <<>>
  BY <1>1, <1>2 DEF Fields
<1>4. PICK p \in Accepted(patch, Blank) :
         LET full == Over(p, [protocol |-> route.protocol, group |-> route.group])
         IN  Start(a, x, Op("merge", x, Over(full, route), full, TRUE))
  BY Zenon DEF Upsert, named
<1> HIDE DEF route
<1> DEFINE full == Over(p, [protocol |-> route.protocol, group |-> route.group])
           op == Op("merge", x, Over(full, route), full, TRUE)
<1>5. IsPatch(full) /\ DOMAIN full \subseteq Edited /\ DOMAIN patch \subseteq DOMAIN full
  <2>1. IsPatch(p) /\ DOMAIN p = DOMAIN patch
    BY AcceptedPatch DEF Accepted
  <2>. QED
    BY <2>1 DEF Over, IsPatch, Edited, Fields
<1>6. IsOp(op) /\ op.id = x /\ op.pc = "merge" /\ op.patch = full /\ op.route = Over(full, route) /\ op.whole = TRUE
  BY DEF Op, IsOp
<1>7. Start(a, x, op) /\ UNCHANGED rows
  BY <1>4 DEF Upsert
<1> HIDE DEF full, op
<1>8. IsRow(op.route)
  <2>1. Over(full, route).upstreams \in Lists
    BY <1>3, <1>5 DEF Over, IsPatch, Fields, Lists
  <2>2. DOMAIN Over(full, route) = Fields /\ Over(full, route) = [f \in Fields |-> Over(full, route)[f]]
    BY <1>3, <1>5 DEF Over, Edited
  <2>. QED
    BY <1>6, <2>1, <2>2 DEF IsRow
<1>. QED
  BY <1>5, <1>6, <1>7, <1>8, StartEdits

LEMMA DeleteEdits ==
    ASSUME IInv, EditInv, NEW a, NEW x \in Models, Delete(a, x)
    PROVE  EditInv'
<1> DEFINE op == Op("delete", x, Blank, None, TRUE)
<1>1. Start(a, x, op) /\ UNCHANGED rows
  BY DEF Delete
<1>2. IsOp(op) /\ op.id = x /\ op.pc = "delete" /\ op.patch = None /\ op.route = Blank
  BY DEF Op, IsOp
<1> HIDE DEF op
<1>. QED
  BY <1>1, <1>2, StartEdits, BlankRow, EmptyNone

\* The synchronisation, and the restart.
LEMMA BeginSyncEdits ==
    ASSUME IInv, EditInv, NEW kind, NEW fetched, NEW catalog, BeginSync(kind, fetched, catalog)
    PROVE  EditInv'
<1> DEFINE arrived == [u \in Upstreams |-> IF u \in fetched THEN catalog[u] ELSE {}]
           pc == IF kind = "rebuild" THEN "rebuilding" ELSE "saving"
           new == [pc |-> pc, fetched |-> fetched, catalog |-> arrived, snapshot |-> rows,
                   todo |-> Listed(arrived) \cup DOMAIN rows, met |-> Busy]
<1>1. /\ kind = "rebuild" => MayRebuild(fetched, arrived)
      /\ sync' = new /\ UNCHANGED rows
      /\ ops' = [a \in DOMAIN ops |-> [ops[a] EXCEPT !.alone = FALSE]]
      /\ asked' = [m \in Models |-> IF m \in Busy THEN None ELSE asked[m]]
  BY DEF BeginSync
<1>2. /\ new.pc = pc /\ new.fetched = fetched /\ new.catalog = arrived /\ new.snapshot = rows
      /\ new.todo = Listed(arrived) \cup DOMAIN rows
  OBVIOUS
<1> HIDE DEF arrived, new
<1>3. SyncRows'
  BY <1>1, <1>2 DEF SyncRows, EditInv, MayRebuild, AreRows
<1>4. ASSUME NEW b \in DOMAIN ops
      PROVE  /\ ops'[b].alone = FALSE
             /\ ops'[b].whole = ops[b].whole /\ ops'[b].patch = ops[b].patch
             /\ ops'[b].pc = ops[b].pc /\ ops'[b].id = ops[b].id /\ ops'[b].route = ops[b].route
  <2>1. ops'[b] = [ops[b] EXCEPT !.alone = FALSE]
    BY <1>1, <1>4
  <2>2. IsOp(ops[b])
    BY DEF IInv, Shapes
  <2>. QED
    BY <2>1, <2>2, AloneEdits
<1>5. /\ DOMAIN asked' = Models
      /\ \A m \in Models : asked'[m] = asked[m] \/ DOMAIN asked'[m] = {}
      /\ \A m \in Models \cap Busy : DOMAIN asked'[m] = {}
  BY <1>1, EmptyNone
<1>6. ASSUME NEW b \in DOMAIN ops PROVE Edits(b)'
  <2>1. Edits(b) /\ ops[b].id \in Busy
    BY DEF EditInv, Busy
  <2>2. DOMAIN asked'[ops[b].id] = {}
    BY <1>5, <2>1 DEF Edits
  <2>. QED
    BY <1>4, <2>1, <2>2 DEF Edits
<1>7. DOMAIN ops' = DOMAIN ops
  BY <1>1
<1>8. AskedTypes' /\ AreRows(rows)'
  BY <1>1, <1>5 DEF EditInv, AskedTypes, AreRows
<1>9. ASSUME NEW m \in Models PROVE Promises(m)'
  BY <1>1, <1>2, <1>5 DEF EditInv, Promises, Holds
<1>. QED
  BY <1>3, <1>6, <1>7, <1>8, <1>9 DEF EditInv

\* The synchronisation writes rows, and no handler works alone.
LEMMA SyncStepEdits ==
    ASSUME EditInv, sync.pc # "idle", UNCHANGED ops, AreRows(rows)', AskedTypes', SyncRows',
           \A m \in Models : asked'[m] = asked[m] \/ DOMAIN asked'[m] = {},
           \A m \in Models : Promises(m)'
    PROVE  EditInv'
<1>1. ASSUME NEW a \in DOMAIN ops PROVE Edits(a)'
  BY DEF EditInv, Edits
<1>. QED
  BY <1>1 DEF EditInv

LEMMA SaveNextEdits ==
    ASSUME IInv, EditInv, NEW x \in Models, NEW matched, SaveNext(x, matched)
    PROVE  EditInv'
<1>1. /\ sync.pc = "saving" /\ x \in sync.todo /\ UNCHANGED <<ops, asked>>
      /\ rows' = IF Unchanged(x) THEN rows ELSE Put(rows, x, Synced(x, matched))
      /\ sync' = [sync EXCEPT !.todo = @ \ {x}]
  BY DEF SaveNext
<1>2. /\ sync'.pc = sync.pc /\ sync'.snapshot = sync.snapshot /\ sync'.todo = sync.todo \ {x}
      /\ sync'.fetched = sync.fetched /\ sync'.catalog = sync.catalog
  BY <1>1 DEF IInv, Shapes, IsSync
<1>3. x \in DOMAIN sync.snapshot \cup Listed(sync.catalog) /\ AreRows(sync.snapshot)
  BY <1>1 DEF EditInv, SyncRows
<1>4. /\ IsRow(Synced(x, matched)) /\ Normal(Synced(x, matched))
      /\ x \in DOMAIN sync.snapshot => Keeps(sync.snapshot[x], Synced(x, matched))
  BY <1>3, SyncedRow DEF AreRows
<1>5. CASE UNCHANGED rows
  BY <1>1, <1>2, <1>5, SyncStepEdits DEF EditInv, AreRows, AskedTypes, SyncRows, Promises, Holds
<1>6. CASE rows' = Put(rows, x, Synced(x, matched))
  <2>1. /\ DOMAIN rows' = DOMAIN rows \cup {x} /\ rows'[x] = Synced(x, matched)
        /\ \A m \in DOMAIN rows \ {x} : rows'[m] = rows[m]
    BY <1>6 DEF Put
  <2>2. ASSUME NEW m \in Models PROVE Promises(m)'
    <3>1. Holds(sync.snapshot, m) /\ Holds(rows, m)
      BY <1>1 DEF EditInv, Promises
    <3>2. CASE m = x
      <4>1. ASSUME NEW f \in DOMAIN asked[x] PROVE f \in rows'[x].custom /\ rows'[x][f] = asked[x][f]
        <5>1. f \in Edited
          BY <4>1 DEF EditInv, AskedTypes
        <5>2. x \in DOMAIN sync.snapshot /\ f \in sync.snapshot[x].custom /\ sync.snapshot[x][f] = asked[x][f]
          BY <3>1, <3>2, <4>1 DEF Holds
        <5>. QED
          BY <1>4, <2>1, <5>1, <5>2 DEF Keeps
      <4>2. Holds(rows, m)'
        BY <1>1, <2>1, <3>2, <4>1 DEF Holds
      <4>. QED
        BY <1>1, <1>2, <3>1, <4>2 DEF Promises, Holds
    <3>3. CASE m # x
      BY <1>1, <1>2, <2>1, <3>1, <3>3 DEF Promises, Holds
    <3>. QED
      BY <3>2, <3>3
  <2>3. AreRows(rows)' /\ AskedTypes' /\ SyncRows'
    BY <1>1, <1>2, <1>4, <2>1 DEF EditInv, AreRows, AskedTypes, SyncRows
  <2>. QED
    BY <1>1, <2>2, <2>3, SyncStepEdits
<1>. QED
  BY <1>1, <1>5, <1>6

LEMMA ReplaceRowsEdits ==
    ASSUME IInv, EditInv, NEW found, ReplaceRows(found)
    PROVE  EditInv'
<1> DEFINE fresh == Fresh(sync.catalog)
<1>1. /\ sync.pc = "rebuilding" /\ UNCHANGED ops /\ asked' = [m \in Models |-> None]
      /\ rows' = [m \in Listed(sync.catalog) |-> ApplyOpenRouterMetadata(fresh[m], m \in found)]
      /\ sync' = [sync EXCEPT !.pc = "replacing", !.snapshot = rows', !.todo = {}]
  BY DEF ReplaceRows
<1>2. ASSUME NEW m \in DOMAIN rows' PROVE IsRow(rows'[m]) /\ Normal(rows'[m])
  <2>1. IsRow(fresh[m]) /\ Normal(fresh[m])
    BY <1>1, FreshRows
  <2> HIDE DEF fresh
  <2>2. /\ IsRow(rows'[m])
        /\ \A f \in Fields \ {"pricing"} : rows'[m][f] = fresh[m][f]
    BY <1>1, <2>1, MetadataRow
  <2>. QED
    BY <2>1, <2>2 DEF Normal, Fields
<1>3. AskedTypes' /\ \A m \in Models : DOMAIN asked'[m] = {}
  BY <1>1, EmptyNone DEF AskedTypes
<1>4. sync'.pc = "replacing"
  BY ReplaceRowsSync DEF IInv, Shapes
<1>. QED
  BY <1>1, <1>2, <1>3, <1>4, SyncStepEdits DEF AreRows, SyncRows, Promises, Holds

LEMMA ReloadRowsEdits ==
    ASSUME IInv, EditInv, ReloadRows
    PROVE  EditInv'
<1>1. sync.pc = "saving" /\ sync'.pc = "replacing" /\ UNCHANGED <<rows, ops, asked>>
  BY ReloadRowsSync DEF ReloadRows, IInv, Shapes
<1>. QED
  BY <1>1, SyncStepEdits DEF EditInv, AreRows, AskedTypes, SyncRows, Promises, Holds

LEMMA SyncEndsEdits ==
    ASSUME EditInv, ReplaceModels \/ SyncFails
    PROVE  EditInv'
<1>1. sync.pc # "idle" /\ sync' = NoSync /\ UNCHANGED <<rows, ops, asked>>
  BY DEF ReplaceModels, SyncFails
<1>2. sync'.pc = "idle"
  BY <1>1, NoSyncFacts
<1>. QED
  BY <1>1, <1>2, SyncStepEdits DEF EditInv, AreRows, AskedTypes, SyncRows, Promises, Holds

LEMMA RestartEdits ==
    ASSUME EditInv, Restart
    PROVE  EditInv'
<1>1. sync' = NoSync /\ ops' = None /\ UNCHANGED <<rows, asked>>
  BY DEF Restart
<1>2. sync'.pc = "idle" /\ DOMAIN ops' = {}
  BY <1>1, NoSyncFacts, EmptyNone
<1>. QED
  BY <1>1, <1>2 DEF EditInv, AreRows, AskedTypes, SyncRows, Promises, Holds

\* What the database holds at first, and all steps together.
LEMMA InitEdits == Init => EditInv
<1> SUFFICES ASSUME Init PROVE EditInv
  OBVIOUS
<1>1. sync.pc = "idle" /\ DOMAIN ops = {}
  BY NoSyncFacts, EmptyNone DEF Init
<1>2. PICK catalog \in Catalogs :
        LET synced == Fresh(catalog)
        IN  \/ rows = synced /\ asked = [m \in Models |-> None]
            \/ \E m \in DOMAIN synced, patch \in Patches : \E p \in Accepted(patch, synced[m]) :
                  LET row == NewModelRouteRow([Over(p, synced[m]) EXCEPT !.custom = DOMAIN p])
                  IN  /\ rows = Put(synced, m, row)
                      /\ asked = [x \in Models |-> IF x = m THEN Restrict(row, DOMAIN p) ELSE None]
  BY Zenon DEF Init
<1> DEFINE synced == Fresh(catalog)
<1>3. AreRows(synced)
  BY FreshRows DEF AreRows
<1> HIDE DEF synced
<1>4. CASE rows = synced /\ asked = [m \in Models |-> None]
  BY <1>1, <1>3, <1>4, EmptyNone DEF EditInv, AreRows, AskedTypes, SyncRows, Promises, Holds
<1>5. CASE \E m \in DOMAIN synced, patch \in Patches : \E p \in Accepted(patch, synced[m]) :
              LET row == NewModelRouteRow([Over(p, synced[m]) EXCEPT !.custom = DOMAIN p])
              IN  /\ rows = Put(synced, m, row)
                  /\ asked = [x \in Models |-> IF x = m THEN Restrict(row, DOMAIN p) ELSE None]
  <2>1. PICK m \in DOMAIN synced, patch \in Patches : \E p \in Accepted(patch, synced[m]) :
              LET row == NewModelRouteRow([Over(p, synced[m]) EXCEPT !.custom = DOMAIN p])
              IN  /\ rows = Put(synced, m, row)
                  /\ asked = [x \in Models |-> IF x = m THEN Restrict(row, DOMAIN p) ELSE None]
    BY <1>5
  <2>2. PICK p \in Accepted(patch, synced[m]) :
              LET row == NewModelRouteRow([Over(p, synced[m]) EXCEPT !.custom = DOMAIN p])
              IN  /\ rows = Put(synced, m, row)
                  /\ asked = [x \in Models |-> IF x = m THEN Restrict(row, DOMAIN p) ELSE None]
    BY <2>1
  <2> DEFINE route == [Over(p, synced[m]) EXCEPT !.custom = DOMAIN p]
             row == NewModelRouteRow(route)
  <2>3. rows = Put(synced, m, row)
        /\ asked = [x \in Models |-> IF x = m THEN Restrict(row, DOMAIN p) ELSE None]
    BY <2>2
  <2>4. IsPatch(p) /\ DOMAIN p \subseteq Edited
    BY AcceptedPatch, RequestFields DEF IsPatch
  <2>5. IsRow(Over(p, synced[m]))
    BY <1>3, <2>4, OverRow DEF AreRows
  <2>6. IsRow(route) /\ route.custom = DOMAIN p
    BY <2>5 DEF IsRow, Fields
  <2> HIDE DEF route
  <2>7. IsRow(row) /\ Normal(row) /\ row.custom = DOMAIN p
    BY <2>6, WrittenRow
  <2> HIDE DEF row
  <2>8. /\ DOMAIN rows = DOMAIN synced \cup {m} /\ rows[m] = row
        /\ \A x \in DOMAIN synced \ {m} : rows[x] = synced[x]
    BY <2>3 DEF Put
  <2>9. /\ DOMAIN asked = Models /\ \A x \in Models \ {m} : DOMAIN asked[x] = {}
        /\ m \in Models => asked[m] = Restrict(row, DOMAIN p)
    BY <2>3, EmptyNone
  <2>10. m \in Models => DOMAIN asked[m] \subseteq DOMAIN p /\ \A f \in DOMAIN asked[m] : asked[m][f] = row[f]
    BY <2>9 DEF Restrict
  <2>11. AreRows(rows) /\ AskedTypes
    BY <1>3, <2>4, <2>7, <2>8, <2>9, <2>10 DEF AreRows, AskedTypes
  <2>12. ASSUME NEW x \in Models PROVE Promises(x)
    BY <1>1, <2>7, <2>8, <2>9, <2>10 DEF Promises, Holds
  <2>. QED
    BY <1>1, <2>11, <2>12 DEF EditInv, SyncRows
<1>. QED
  BY <1>2, <1>4, <1>5 DEF synced

LEMMA StutterEdits == EditInv /\ UNCHANGED vars => EditInv'
  BY DEF vars, EditInv, AreRows, AskedTypes, SyncRows, Edits, Carries, Promises, Holds

LEMMA NextEdits == IInv /\ EditInv /\ [Next]_vars => EditInv'
<1> SUFFICES ASSUME IInv, EditInv, [Next]_vars PROVE EditInv'
  OBVIOUS
<1>0. \A patch \in Patches : IsRequest(patch)
  BY RequestFields
<1>1. CASE \E kind \in {"sync", "rebuild"}, fetched \in SUBSET Upstreams, catalog \in Catalogs :
              BeginSync(kind, fetched, catalog)
  BY <1>1, BeginSyncEdits
<1>2. CASE \E m \in Models, matched \in BOOLEAN : SaveNext(m, matched)
  BY <1>2, SaveNextEdits
<1>3. CASE \E found \in SUBSET Models : ReplaceRows(found)
  BY <1>3, ReplaceRowsEdits
<1>4. CASE ReloadRows
  BY <1>4, ReloadRowsEdits
<1>5. CASE ReplaceModels \/ SyncFails
  BY <1>5, SyncEndsEdits
<1>6. CASE \E a \in Admins, m \in Models : Toggle(a, m) \/ Delete(a, m)
  BY <1>6, ToggleEdits, DeleteEdits
<1>7. CASE \E a \in Admins, m \in Models, patch \in Patches : Update(a, m, patch) \/ Upsert(a, m, patch)
  BY <1>0, <1>7, UpdateEdits, UpsertEdits
<1>8. CASE \E a \in DOMAIN ops : MergeCustomized(a) \/ SaveEdit(a) \/ RegisterModel(a) \/ DeleteRow(a)
  BY <1>8, MergeCustomizedEdits, SaveEditEdits, RegisterModelEdits, DeleteRowEdits
<1>9. CASE Restart
  BY <1>9, RestartEdits
<1>10. CASE UNCHANGED vars
  BY <1>10, StutterEdits
<1>. QED
  BY <1>1, <1>2, <1>3, <1>4, <1>5, <1>6, <1>7, <1>8, <1>9, <1>10 DEF Next

LEMMA EditsHold == EditInv => EditsKept
  BY DEF EditInv, Promises, Holds, EditsKept
----------------------------------------------------------------------------
(* What a synchronisation decides *)

\* After the synchronisation, u serves m.
Serves(m, u) ==
    IF u \in sync.fetched THEN m \in sync.catalog[u]
    ELSE m \in DOMAIN sync.snapshot /\ Contains(sync.snapshot[m].upstreams, u)

\* The fetches, and what was read before them, decided the row of m.
Decided(row, m) ==
    LET known == m \in DOMAIN sync.snapshot
        before == IF known THEN sync.snapshot[m].upstreams ELSE <<>>
    IN  (known => before # <<>>) =>
        /\ "upstreams" \in row.custom \/ \A u \in Upstreams : Contains(row.upstreams, u) <=> Serves(m, u)
        /\ row.status = "disabled" =>
              \/ known /\ sync.snapshot[m].status = "disabled"
              \/ "status" \notin row.custom /\ \A u \in Range(before) : ~Serves(m, u)

\* The route of this row calls every upstream the way its catalog says.
Called(row, m) ==
    LET route == Routed(row)
    IN  route.status = "enabled" /\ route.custom \cap
            {"upstream", "upstreams", "protocol", "group", "targets", "status"} = {} =>
        \A u \in Range(route.upstreams) :
            /\ route.upstreams = <<"ollama">> \/ TargetProtocol(route, u) = target(m, u).protocol
            /\ ResolveUpstreamGroup(route, u) = u

\* What the synchronisation has done so far with models no handler touched.
Settles(row, m) == Decided(row, m) /\ (sync.fetched = Upstreams => Called(row, m))
Arrived ==
    sync.fetched \subseteq Upstreams /\ \A u \in Upstreams \ sync.fetched : sync.catalog[u] = {}
Progress ==
    /\ sync.pc \in {"saving", "rebuilding"} => Arrived
    /\ sync.pc = "saving" => \A m \in DOMAIN rows \ sync.met :
          IF m \in sync.todo THEN m \in DOMAIN sync.snapshot /\ rows[m] = sync.snapshot[m]
          ELSE Settles(rows[m], m)
    /\ sync.pc = "replacing" /\ sync.fetched = Upstreams =>
          \A m \in DOMAIN sync.snapshot \ sync.met : Called(sync.snapshot[m], m)

\* What the synchronisation makes of a model that is in a catalog.
LEMMA FallbackCalls ==
    ASSUME NEW m, NEW S \in SUBSET Upstreams, S # {}
    PROVE  LET r == fallback(m, GoFirst(S))
           IN  /\ r.upstream = Head(GoFirst(S)) /\ r.group = Head(GoFirst(S)) /\ r.upstreams = GoFirst(S)
               /\ r.protocol = inferProtocol(m) /\ r.status = "enabled"
               /\ S # Upstreams => DOMAIN r.targets = {}
               /\ S = Upstreams => r.targets = [u \in Upstreams |-> target(m, u)]
<1> DEFINE ups == GoFirst(S)
           group == IF Contains(ups, "go") THEN "go" ELSE Head(ups)
           default == [protocol |-> inferProtocol(m), group |-> group]
           needTargets == Len(ups) > 1 /\ \E u \in Range(ups) : target(m, u) # default
           targets == IF needTargets THEN [u \in Range(ups) |-> target(m, u)] ELSE <<>>
           r == fallback(m, ups)
<1>1. r = [upstream |-> Head(ups), upstreams |-> ups, protocol |-> default.protocol,
           group |-> group, targets |-> targets, pricing |-> "none", status |-> "enabled", custom |-> {}]
  BY Zenon DEF fallback
<1>2. Range(ups) = S /\ (\A u : Contains(ups, u) <=> u \in S) /\ Head(ups) \in S
  BY GoFirstFacts, ListFacts
<1>3. group = Head(ups)
  <2>1. CASE S = {"go"} \/ S = {"ollama"}
    BY <1>2, <2>1, TwoUpstreams
  <2>2. CASE S = Upstreams
    BY <1>2, <2>2, TwoUpstreams, GoFirstLists, Pairs
  <2>. QED
    BY <2>1, <2>2, TwoUpstreams
<1>4. S # Upstreams => DOMAIN targets = {}
  <2>0. \A v : Len(<<v>>) = 1
    OBVIOUS
  <2>1. S # Upstreams => ups = <<"go">> \/ ups = <<"ollama">>
    BY TwoUpstreams, GoFirstLists
  <2>2. S # Upstreams => Len(ups) = 1
    BY <2>1, <2>0
  <2>3. S # Upstreams => ~needTargets
    <3>2. \A n : n = 1 => ~(n > 1)
      OBVIOUS
    <3>1. S # Upstreams => ~(Len(ups) > 1)
      BY <2>2, <3>2, Zenon
    <3>. QED
      BY <3>1, Zenon
  <2> HIDE DEF needTargets
  <2>. QED
    BY <2>3
<1>5. S = Upstreams => targets = [u \in Upstreams |-> target(m, u)]
  <2> SUFFICES ASSUME S = Upstreams PROVE targets = [u \in Upstreams |-> target(m, u)]
    OBVIOUS
  <2>1. Len(ups) = 2
    BY GoFirstLists
  <2>2. target(m, "ollama").group = "ollama" /\ default.group = "go"
    BY <1>2, TwoUpstreams DEF target
  <2>3. "ollama" \in Range(ups) /\ target(m, "ollama") # default
    BY <1>2, <2>2, TwoUpstreams
  <2>4. needTargets
    BY <2>1, <2>3
  <2> HIDE DEF needTargets
  <2>. QED
    BY <1>2, <2>4
<1> HIDE DEF ups, group, targets, r
<1>6. r.upstream = Head(ups) /\ r.group = group /\ r.upstreams = ups /\ r.targets = targets
      /\ r.protocol = inferProtocol(m) /\ r.status = "enabled"
  BY <1>1
<1>. QED
  BY <1>3, <1>4, <1>5, <1>6 DEF r, ups

\* The route of a row, as requests see it.
LEMMA RoutedRow ==
    ASSUME NEW row, IsRow(row), Normal(row)
    PROVE  LET route == Routed(row)
           IN  /\ \A f \in Fields \ {"upstreams"} : route[f] = row[f]
               /\ row.upstreams # <<>> => route.upstreams = deduplicateUpstreams(row.upstreams)
<1>1. Routed(row) = applyLocalModelDefaults(row)
  BY ReadRow DEF Routed
<1> DEFINE r == [row EXCEPT !.upstream = OrElse(@, "go"), !.group = OrElse(@, "go")]
<1>2. r = row
  BY DEF IsRow, Normal, Fields
<1>3. applyLocalModelDefaults(row) = [r EXCEPT !.upstreams = IF @ = <<>> THEN <<r.upstream>> ELSE deduplicateUpstreams(@)]
  BY Zenon DEF applyLocalModelDefaults
<1> HIDE DEF r
<1>. QED
  BY <1>1, <1>2, <1>3 DEF IsRow, Fields

\* A route that has the fallback's fields calls its upstreams by their own targets.
LEMMA FreshCalled ==
    ASSUME NEW m, NEW S \in SUBSET Upstreams, S # {}, NEW row, IsRow(row), Normal(row),
           \A f \in {"upstream", "upstreams", "protocol", "group", "targets"} :
              row[f] = fallback(m, GoFirst(S))[f]
    PROVE  Called(row, m)
<1> DEFINE route == Routed(row)
           ups == GoFirst(S)
<1>1. /\ route.upstream = Head(ups) /\ route.group = Head(ups) /\ route.upstreams = ups
      /\ route.protocol = inferProtocol(m)
      /\ S # Upstreams => DOMAIN route.targets = {}
      /\ S = Upstreams => route.targets = [u \in Upstreams |-> target(m, u)]
  <2>1. ups # <<>>
    BY GoFirstFacts, ListFacts
  <2>2. deduplicateUpstreams(ups) = ups
    BY DeduplicatedOnce
  <2>. QED
    BY <2>1, <2>2, RoutedRow, FallbackCalls DEF Fields
<1>2. Range(ups) = S /\ (S = {"go"} => Head(ups) = "go") /\ (S = {"ollama"} => Head(ups) = "ollama")
      /\ (S = {"ollama"} => ups = <<"ollama">>)
  BY GoFirstFacts, ListFacts, GoFirstLists
<1>3. \A u \in Upstreams : target(m, u) = [protocol |-> IF u = "go" THEN inferProtocol(m) ELSE "chat", group |-> u]
  BY DEF target
<1> HIDE DEF route, ups
<1>4. ASSUME NEW u \in S
      PROVE  /\ route.upstreams = <<"ollama">> \/ TargetProtocol(route, u) = target(m, u).protocol
             /\ ResolveUpstreamGroup(route, u) = u
  <2>1. CASE S = Upstreams
    <3>1. u \in DOMAIN route.targets /\ route.targets[u] = target(m, u)
      BY <1>1, <2>1
    <3>2. /\ target(m, u).protocol = "chat" \/ target(m, u).protocol = "messages"
          /\ target(m, u).group = "go" \/ target(m, u).group = "ollama"
          /\ target(m, u).group = u
      BY <1>3, TwoUpstreams DEF inferProtocol
    <3>3. "chat" # "" /\ "messages" # "" /\ "go" # "" /\ "ollama" # ""
      OBVIOUS
    <3>4. target(m, u).protocol # "" /\ target(m, u).group # ""
      BY <3>2, <3>3, Zenon
    <3>. QED
      BY <3>1, <3>2, <3>4, Zenon DEF TargetProtocol, ResolveUpstreamGroup
  <2>2. CASE S = {"go"}
    <3>1. u \notin DOMAIN route.targets /\ u = "go" /\ route.upstream = "go" /\ route.group = "go"
      BY <1>1, <1>2, <2>2, TwoUpstreams
    <3>2. target(m, u).protocol = inferProtocol(m)
      BY <1>3, <3>1, TwoUpstreams
    <3>. QED
      BY <1>1, <3>1, <3>2 DEF TargetProtocol, ResolveUpstreamGroup
  <2>3. CASE S = {"ollama"}
    <3>1. u \notin DOMAIN route.targets /\ u = "ollama" /\ route.upstream = "ollama"
          /\ route.group = "ollama" /\ route.upstreams = <<"ollama">>
      BY <1>1, <1>2, <2>3, TwoUpstreams
    <3>. QED
      BY <3>1 DEF ResolveUpstreamGroup
  <2>. QED
    BY <2>1, <2>2, <2>3, TwoUpstreams
<1>. QED
  BY <1>1, <1>2, <1>4 DEF Called, route

\* A row that no catalog lists: what is written, and what is not because it
\* would change nothing.
LEMMA UnlistedSettles ==
    ASSUME NEW m \in DOMAIN sync.snapshot, NEW row, m \notin Listed(sync.catalog), Arrived,
           IsRow(sync.snapshot[m]), Normal(sync.snapshot[m]),
           LET new == reconcile(sync.snapshot[m], sync.fetched)
           IN  row.upstreams = new.upstreams /\ row.status = new.status /\ row.custom = new.custom,
           IsRow(row), Normal(row)
    PROVE  Settles(row, m)
<1> DEFINE old == sync.snapshot[m]
           ups == IF "upstreams" \in old.custom THEN old.upstreams ELSE Without(old.upstreams, sync.fetched)
<1>1. ModelRouteFromRow(old) = old
  BY ReadRow
<1>2. reconcile(old, sync.fetched) = [old EXCEPT !.upstreams = ups,
          !.status = IF "status" \notin old.custom /\ ups = <<>> THEN "disabled" ELSE @]
  BY <1>1, Zenon DEF reconcile
<1>3. old.upstreams \in Lists /\ ups \in Lists
  BY WithoutFacts DEF IsRow
<1>4. "upstreams" \notin old.custom => Range(ups) = Range(old.upstreams) \ sync.fetched
  BY <1>3, WithoutFacts
<1>5. "upstreams" \in old.custom => ups = old.upstreams
  OBVIOUS
<1> HIDE DEF ups
<1>6. /\ row.upstreams = ups /\ row.custom = old.custom
      /\ row.status = IF "status" \notin old.custom /\ ups = <<>> THEN "disabled" ELSE old.status
  BY <1>2 DEF IsRow, Fields
<1>7. \A u \in Upstreams : Serves(m, u) <=> u \notin sync.fetched /\ Contains(old.upstreams, u)
  BY DEF Serves, Listed
<1>8. /\ Range(old.upstreams) \subseteq Upstreams
      /\ \A u : Contains(old.upstreams, u) <=> u \in Range(old.upstreams)
      /\ \A u : Contains(ups, u) <=> u \in Range(ups)
      /\ ups = <<>> <=> Range(ups) = {}
  BY <1>3, ListFacts
<1>9. Decided(row, m)
  <2>1. "upstreams" \notin row.custom => \A u \in Upstreams : Contains(row.upstreams, u) <=> Serves(m, u)
    BY <1>4, <1>6, <1>7, <1>8
  <2>2. ASSUME row.status = "disabled", old.upstreams # <<>>, old.status # "disabled"
        PROVE  "status" \notin row.custom /\ \A u \in Range(old.upstreams) : ~Serves(m, u)
    <3>1. "status" \notin row.custom /\ ups = <<>>
      BY <1>6, <2>2
    <3>2. \A u \in Range(old.upstreams) : u \in sync.fetched
      BY <1>4, <1>5, <1>8, <2>2, <3>1
    <3>. QED
      BY <1>7, <1>8, <3>1, <3>2
  <2>. QED
    BY <2>1, <2>2 DEF Decided
<1>10. ASSUME sync.fetched = Upstreams PROVE Called(row, m)
  <2>1. Routed(row).status = row.status /\ Routed(row).custom = row.custom
    BY RoutedRow DEF Fields
  <2>2. "upstreams" \notin old.custom /\ "status" \notin old.custom => row.status = "disabled"
    BY <1>4, <1>6, <1>8, <1>10
  <2>. QED
    BY <1>6, <2>1, <2>2 DEF Called
<1>. QED
  BY <1>9, <1>10 DEF Settles

\* The row of a model that was stored and is listed.
LEMMA MergedSettles ==
    ASSUME NEW m \in DOMAIN sync.snapshot, NEW row, m \in Listed(sync.catalog), Arrived,
           IsRow(sync.snapshot[m]), Normal(sync.snapshot[m]),
           LET new == buildMergedRoute(m, mergeModels(sync.catalog, m), sync.snapshot[m], sync.fetched)
           IN  /\ row.custom = new.custom
               /\ \A f \in {"upstream", "upstreams", "protocol", "group", "targets", "status"} : row[f] = new[f],
           IsRow(row), Normal(row)
    PROVE  Settles(row, m)
<1> DEFINE old == sync.snapshot[m]
           ups == mergeModels(sync.catalog, m)
           S == {u \in Upstreams : m \in sync.catalog[u]}
           route == ModelRouteFromRow(old)
           primary == IF Head(ups) \in sync.fetched THEN {"upstream", "group"} ELSE {}
           auto == (primary \cup {"upstreams", "targets", "protocol"}) \ route.custom
           members == {u \in Upstreams : IF u \in sync.fetched THEN Contains(ups, u) ELSE Contains(route.upstreams, u)}
           merged == [fallback(m, ups) EXCEPT !.upstreams = GoFirst(members)]
           new == buildMergedRoute(m, ups, old, sync.fetched)
<1>1. new = [f \in DOMAIN route |-> IF f \in auto THEN merged[f] ELSE route[f]]
  BY Zenon DEF buildMergedRoute
<1>2. route = old
  BY ReadRow
<1>3. S \in SUBSET Upstreams /\ S # {} /\ ups = GoFirst(S) /\ Head(ups) \in S
      /\ \A u : Contains(ups, u) <=> u \in S
  <2>1. S \in SUBSET Upstreams /\ S # {} /\ ups = GoFirst(S)
    BY DEF Listed, mergeModels
  <2> HIDE DEF S, ups
  <2>. QED
    BY <2>1, GoFirstFacts, ListFacts
<1>4. members = {u \in Upstreams : Serves(m, u)}
  BY <1>2, <1>3 DEF Serves
<1>5. merged.upstreams = GoFirst(members) /\ \A f \in {"upstream", "protocol", "group", "targets"} : merged[f] = fallback(m, ups)[f]
  BY DEF fallback
<1>6. DOMAIN old = Fields
  BY DEF IsRow
<1> HIDE DEF route, merged, members, auto, new, ups, S
<1>7. row.custom = old.custom /\ row.status = old.status
  <2>1. "custom" \notin auto /\ "status" \notin auto
    BY DEF auto
  <2>2. new.custom = old.custom /\ new.status = old.status
    BY <1>1, <1>2, <1>6, <2>1 DEF Fields
  <2>. QED
    BY <2>2 DEF new, ups
<1>8. "upstreams" \notin row.custom => row.upstreams = GoFirst(members)
  <2>1. "upstreams" \notin row.custom => "upstreams" \in auto
    BY <1>2, <1>7 DEF auto
  <2>2. "upstreams" \notin row.custom => new.upstreams = merged.upstreams
    BY <1>1, <1>2, <1>6, <2>1 DEF Fields
  <2>. QED
    BY <1>5, <2>2 DEF new, ups
<1>9. Decided(row, m)
  <2>1. \A u \in Upstreams : Contains(GoFirst(members), u) <=> Serves(m, u)
    BY <1>4, GoFirstFacts, ListFacts
  <2>. QED
    BY <1>7, <1>8, <2>1 DEF Decided
<1>10. ASSUME sync.fetched = Upstreams PROVE Called(row, m)
  <2> DEFINE own == {"upstream", "upstreams", "protocol", "group", "targets", "status"}
  <2>1. Routed(row).custom = row.custom
    BY RoutedRow DEF Fields
  <2>2. CASE row.custom \cap own = {}
    <3>1. members = S
      BY <1>3, <1>4, <1>10 DEF Serves, S
    <3>2. {"upstream", "upstreams", "protocol", "group", "targets"} \subseteq auto
      BY <1>2, <1>3, <1>7, <1>10, <2>2 DEF auto
    <3>3. \A f \in {"upstream", "upstreams", "protocol", "group", "targets"} : new[f] = merged[f]
      BY <1>1, <1>2, <1>6, <3>2 DEF Fields
    <3>4. fallback(m, ups).upstreams = GoFirst(S)
      BY <1>3, FallbackCalls
    <3>5. \A f \in {"upstream", "upstreams", "protocol", "group", "targets"} : row[f] = fallback(m, ups)[f]
      BY <1>5, <3>1, <3>3, <3>4 DEF new, ups
    <3>. QED
      BY <1>3, <3>5, FreshCalled
  <2>3. CASE row.custom \cap own # {}
    BY <2>1, <2>3 DEF Called
  <2>. QED
    BY <2>2, <2>3
<1>. QED
  BY <1>9, <1>10 DEF Settles

\* The row of a model that is listed and was not stored.
LEMMA NewSettles ==
    ASSUME NEW m, NEW row, m \in Listed(sync.catalog), IsRow(row), Normal(row),
           m \notin DOMAIN sync.snapshot, Arrived,
           \A f \in Fields \ {"pricing"} : row[f] = fallback(m, mergeModels(sync.catalog, m))[f]
    PROVE  Settles(row, m)
<1> DEFINE S == {u \in Upstreams : m \in sync.catalog[u]}
           ups == GoFirst(S)
<1>1. S \in SUBSET Upstreams /\ S # {} /\ mergeModels(sync.catalog, m) = ups
  BY DEF Listed, mergeModels
<1>2. \A u \in Upstreams : u \in S <=> Serves(m, u)
  BY DEF Serves, Arrived
<1> HIDE DEF S
<1>3. row.upstreams = ups /\ row.status = "enabled"
  <2>1. row.upstreams = fallback(m, ups).upstreams /\ row.status = fallback(m, ups).status
    BY <1>1 DEF Fields
  <2>2. fallback(m, ups).upstreams = ups /\ fallback(m, ups).status = "enabled"
    BY <1>1, FallbackCalls
  <2>. QED
    BY <2>1, <2>2
<1>4. Decided(row, m)
  BY <1>1, <1>2, <1>3, GoFirstFacts, ListFacts DEF Decided
<1>5. Called(row, m)
  BY <1>1, FreshCalled DEF Fields
<1>. QED
  BY <1>4, <1>5 DEF Settles

\* Writing a row that was read changes nothing.
LEMMA WrittenAgain ==
    ASSUME NEW r, IsRow(r), Normal(r)
    PROVE  NewModelRouteRow(r) = r
  BY DEF IsRow, Normal, Fields, NewModelRouteRow

\* The row the synchronisation writes settles the model, and so does the row it
\* leaves because it would write the same list and status.
LEMMA SyncedSettles ==
    ASSUME NEW m \in DOMAIN sync.snapshot \cup Listed(sync.catalog), NEW matched, Arrived,
           m \in DOMAIN sync.snapshot => IsRow(sync.snapshot[m]) /\ Normal(sync.snapshot[m])
    PROVE  /\ Settles(Synced(m, matched), m)
           /\ Unchanged(m) => m \in DOMAIN sync.snapshot /\ Settles(sync.snapshot[m], m)
<1> DEFINE ups == mergeModels(sync.catalog, m)
           old == sync.snapshot[m]
<1>1. \A x : IsRow(Synced(m, x)) /\ Normal(Synced(m, x))
  BY SyncedRow
<1>2. ups \in Lists /\ (ups = <<>> <=> m \notin Listed(sync.catalog)) /\ (ups # <<>> => Head(ups) \in Upstreams)
  BY MergedLists
<1>3. CASE ups = <<>>
  <2> DEFINE new == reconcile(old, sync.fetched)
  <2>1. m \in DOMAIN sync.snapshot /\ m \notin Listed(sync.catalog)
    BY <1>2, <1>3
  <2>2. \A x : Synced(m, x) = NewModelRouteRow(new)
    BY <1>3 DEF Synced
  <2>3. Keeps(old, new)
    BY <2>1, ReconcileKeeps
  <2>4. /\ NewModelRouteRow(new).upstreams = new.upstreams /\ NewModelRouteRow(new).status = new.status
        /\ NewModelRouteRow(new).custom = new.custom
    BY <2>3, WrittenRow DEF Keeps, Fields
  <2>5. Settles(Synced(m, matched), m)
    BY <1>1, <2>1, <2>2, <2>4, UnlistedSettles
  <2>6. ASSUME Unchanged(m) PROVE Settles(old, m)
    <3>1. old.upstreams = new.upstreams /\ old.status = new.status /\ old.custom = new.custom
      BY <2>2, <2>3, <2>4, <2>6 DEF Unchanged, Keeps
    <3>. QED
      BY <2>1, <3>1, UnlistedSettles
  <2>. QED
    BY <2>1, <2>5, <2>6
<1>4. CASE ups # <<>> /\ m \in DOMAIN sync.snapshot
  <2> DEFINE new == buildMergedRoute(m, ups, old, sync.fetched)
             route == ApplyOpenRouterMetadata(new, matched)
  <2>1. Keeps(old, new) /\ IsRow(fallback(m, ups)) /\ Normal(fallback(m, ups))
    BY <1>2, <1>4, MergeKeeps, FallbackRow
  <2>2. Normal(new)
    <3> DEFINE read == ModelRouteFromRow(old)
               primary == IF Head(ups) \in sync.fetched THEN {"upstream", "group"} ELSE {}
               auto == (primary \cup {"upstreams", "targets", "protocol"}) \ read.custom
               members == {u \in Upstreams : IF u \in sync.fetched THEN Contains(ups, u) ELSE Contains(read.upstreams, u)}
               merged == [fallback(m, ups) EXCEPT !.upstreams = GoFirst(members)]
    <3>1. new = [f \in DOMAIN read |-> IF f \in auto THEN merged[f] ELSE read[f]]
      BY Zenon DEF buildMergedRoute
    <3>2. read = old /\ Normal(old) /\ DOMAIN old = Fields
      BY <1>4, ReadRow DEF IsRow
    <3>3. \A f \in {"upstream", "protocol", "group"} : merged[f] = fallback(m, ups)[f]
      BY <2>1 DEF IsRow, Fields
    <3> HIDE DEF read, auto, merged, new
    <3>4. \A f \in {"upstream", "protocol", "group"} : new[f] = fallback(m, ups)[f] \/ new[f] = old[f]
      BY <3>1, <3>2, <3>3 DEF Fields
    <3>5. Normal(fallback(m, ups)) /\ Normal(old)
      BY <2>1, <3>2
    <3>. QED
      BY <3>4, <3>5 DEF Normal, new
  <2>3. IsRow(new)
    BY <2>1 DEF Keeps
  <2>4. Synced(m, matched) = NewModelRouteRow(route)
    BY <1>4 DEF Synced
  <2> HIDE DEF new
  <2>5. IsRow(route) /\ route.custom = new.custom /\ \A f \in Fields \ {"pricing"} : route[f] = new[f]
    BY <2>3, MetadataRow
  <2> HIDE DEF route
  <2>6. Normal(route)
    BY <2>2, <2>5 DEF Normal, Fields
  <2>7. Synced(m, matched) = route
    BY <2>4, <2>5, <2>6, WrittenAgain
  <2>8. Settles(Synced(m, matched), m)
    BY <1>2, <1>4, <2>5, <2>6, <2>7, MergedSettles DEF Fields, new
  <2>. QED
    BY <1>4, <2>8 DEF Unchanged
<1>5. CASE ups # <<>> /\ m \notin DOMAIN sync.snapshot
  <2> DEFINE new == fallback(m, ups)
             route == ApplyOpenRouterMetadata(new, matched)
  <2>1. IsRow(new) /\ Normal(new)
    BY <1>2, <1>5, FallbackRow
  <2>2. Synced(m, matched) = NewModelRouteRow(route)
    BY <1>5 DEF Synced
  <2> HIDE DEF new
  <2>3. IsRow(route) /\ \A f \in Fields \ {"pricing"} : route[f] = new[f]
    BY <2>1, MetadataRow
  <2> HIDE DEF route
  <2>4. Normal(route)
    BY <2>1, <2>3 DEF Normal, Fields
  <2>5. Synced(m, matched) = route
    BY <2>2, <2>3, <2>4, WrittenAgain
  <2>6. Settles(Synced(m, matched), m)
    BY <1>2, <1>5, <2>3, <2>4, <2>5, NewSettles DEF new
  <2>. QED
    BY <1>5, <2>6 DEF Unchanged
<1>. QED
  BY <1>3, <1>4, <1>5

----------------------------------------------------------------------------
\* Handlers write rows of models they met.
LEMMA HandlerProgress ==
    ASSUME Progress, UNCHANGED <<sync.pc, sync.fetched, sync.catalog, sync.snapshot, sync.todo>>,
           sync.met \subseteq sync'.met,
           sync.pc # "idle" => \A m \in DOMAIN rows' \ sync'.met : m \in DOMAIN rows /\ rows'[m] = rows[m]
    PROVE  Progress'
<1>1. /\ sync'.pc = sync.pc /\ sync'.fetched = sync.fetched /\ sync'.catalog = sync.catalog
      /\ sync'.snapshot = sync.snapshot /\ sync'.todo = sync.todo
  OBVIOUS
<1>2. ASSUME sync.pc = "saving", NEW m \in DOMAIN rows' \ sync'.met, m \notin sync.todo
      PROVE  Settles(rows[m], m)'
  <2>1. rows'[m] = rows[m] /\ Settles(rows[m], m)
    BY <1>2 DEF Progress
  <2>. QED
    BY <1>1, <2>1 DEF Settles, Decided, Serves
<1>3. ASSUME sync.pc = "saving", NEW m \in DOMAIN rows' \ sync'.met, m \in sync.todo
      PROVE  m \in DOMAIN sync'.snapshot /\ rows'[m] = sync'.snapshot[m]
  BY <1>1, <1>3 DEF Progress
<1>. QED
  BY <1>1, <1>2, <1>3 DEF Progress, Arrived

\* The handlers' steps.
LEMMA StartProgress ==
    ASSUME IInv, Progress, NEW a, NEW x, NEW op, Start(a, x, op), UNCHANGED rows
    PROVE  Progress'
<1>1. sync' = IF sync.pc = "idle" THEN sync ELSE [sync EXCEPT !.met = @ \cup {x}]
  BY DEF Start
<1>2. /\ sync'.pc = sync.pc /\ sync'.fetched = sync.fetched /\ sync'.catalog = sync.catalog
      /\ sync'.snapshot = sync.snapshot /\ sync'.todo = sync.todo /\ sync.met \subseteq sync'.met
  BY <1>1 DEF IInv, Shapes, IsSync
<1>. QED
  BY <1>2, HandlerProgress

LEMMA RowProgress ==
    ASSUME IInv, Progress, NEW a \in DOMAIN ops, UNCHANGED sync,
           \A m \in DOMAIN rows' \ {ops[a].id} : m \in DOMAIN rows /\ rows'[m] = rows[m]
    PROVE  Progress'
  BY HandlerProgress DEF IInv, Meets

\* The synchronisation's steps.
LEMMA BeginSyncProgress ==
    ASSUME NEW kind, NEW fetched \in SUBSET Upstreams, NEW catalog, BeginSync(kind, fetched, catalog)
    PROVE  Progress'
<1> DEFINE arrived == [u \in Upstreams |-> IF u \in fetched THEN catalog[u] ELSE {}]
           pc == IF kind = "rebuild" THEN "rebuilding" ELSE "saving"
           new == [pc |-> pc, fetched |-> fetched, catalog |-> arrived, snapshot |-> rows,
                   todo |-> Listed(arrived) \cup DOMAIN rows, met |-> Busy]
<1>1. sync' = new /\ UNCHANGED rows
  BY DEF BeginSync
<1>2. /\ new.pc = pc /\ new.fetched = fetched /\ new.catalog = arrived /\ new.snapshot = rows
      /\ new.todo = Listed(arrived) \cup DOMAIN rows
  OBVIOUS
<1>3. pc # "replacing" /\ \A u \in Upstreams \ fetched : arrived[u] = {}
  OBVIOUS
<1> HIDE DEF arrived, new, pc
<1>. QED
  BY <1>1, <1>2, <1>3 DEF Progress, Arrived

LEMMA SaveNextProgress ==
    ASSUME IInv, EditInv, Progress, NEW x, NEW matched, SaveNext(x, matched)
    PROVE  Progress'
<1>1. /\ sync.pc = "saving" /\ x \in sync.todo
      /\ rows' = IF Unchanged(x) THEN rows ELSE Put(rows, x, Synced(x, matched))
      /\ sync' = [sync EXCEPT !.todo = @ \ {x}]
  BY DEF SaveNext
<1>2. /\ sync'.pc = sync.pc /\ sync'.snapshot = sync.snapshot /\ sync'.todo = sync.todo \ {x}
      /\ sync'.fetched = sync.fetched /\ sync'.catalog = sync.catalog /\ sync'.met = sync.met
  BY <1>1 DEF IInv, Shapes, IsSync
<1>3. /\ x \in DOMAIN sync.snapshot \cup Listed(sync.catalog) /\ Arrived
      /\ x \in DOMAIN sync.snapshot => IsRow(sync.snapshot[x]) /\ Normal(sync.snapshot[x])
  BY <1>1 DEF EditInv, SyncRows, AreRows, Progress
<1>4. ASSUME x \in DOMAIN rows' \ sync.met PROVE Settles(rows'[x], x)
  <2>1. CASE Unchanged(x)
    <3>1. rows'[x] = sync.snapshot[x]
      BY <1>1, <1>4, <2>1 DEF Progress
    <3>. QED
      BY <1>3, <2>1, <3>1, SyncedSettles
  <2>2. CASE ~Unchanged(x)
    <3>1. rows'[x] = Synced(x, matched)
      BY <1>1, <2>2 DEF Put
    <3>. QED
      BY <1>3, <3>1, SyncedSettles
  <2>. QED
    BY <2>1, <2>2
<1>5. ASSUME NEW m \in DOMAIN rows' \ sync.met, m # x
      PROVE  m \in DOMAIN rows /\ rows'[m] = rows[m]
  BY <1>1, <1>5 DEF Put
<1>6. ASSUME NEW m \in DOMAIN rows' \ sync'.met, m \notin sync'.todo
      PROVE  Settles(rows[m], m)'
  <2>1. Settles(rows'[m], m)
    <3>1. CASE m = x
      BY <1>2, <1>4, <1>6, <3>1
    <3>2. CASE m # x
      BY <1>1, <1>2, <1>5, <1>6, <3>2 DEF Progress
    <3>. QED
      BY <3>1, <3>2
  <2>. QED
    BY <1>2, <2>1 DEF Settles, Decided, Serves
<1>7. ASSUME NEW m \in DOMAIN rows' \ sync'.met, m \in sync'.todo
      PROVE  m \in DOMAIN sync'.snapshot /\ rows'[m] = sync'.snapshot[m]
  BY <1>1, <1>2, <1>5, <1>7 DEF Progress
<1>. QED
  BY <1>1, <1>2, <1>3, <1>6, <1>7 DEF Progress, Arrived

LEMMA ReloadRowsProgress ==
    ASSUME IInv, Progress, ReloadRows
    PROVE  Progress'
<1>1. /\ sync.pc = "saving" /\ sync.todo = {} /\ UNCHANGED rows
      /\ sync'.pc = "replacing" /\ sync'.snapshot = rows /\ sync'.met = sync.met
      /\ sync'.fetched = sync.fetched /\ sync'.catalog = sync.catalog
  BY ReloadRowsSync DEF ReloadRows, IInv, Shapes
<1>. QED
  BY <1>1 DEF Progress, Settles

LEMMA ReplaceRowsProgress ==
    ASSUME IInv, NEW found, ReplaceRows(found)
    PROVE  Progress'
<1> DEFINE fresh == Fresh(sync.catalog)
<1>1. /\ rows' = [m \in Listed(sync.catalog) |-> ApplyOpenRouterMetadata(fresh[m], m \in found)]
      /\ sync'.pc = "replacing" /\ sync'.snapshot = rows'
  BY ReplaceRowsSync DEF ReplaceRows, IInv, Shapes
<1>2. ASSUME NEW m \in Listed(sync.catalog) PROVE Called(rows'[m], m)
  <2> DEFINE S == {u \in Upstreams : m \in sync.catalog[u]}
  <2>1. S \in SUBSET Upstreams /\ S # {} /\ fresh[m] = fallback(m, GoFirst(S))
    BY DEF Listed, mergeModels, Fresh
  <2>2. IsRow(fresh[m]) /\ Normal(fresh[m])
    BY FreshRows
  <2> HIDE DEF fresh, S
  <2>3. IsRow(rows'[m]) /\ \A f \in Fields \ {"pricing"} : rows'[m][f] = fresh[m][f]
    BY <1>1, <2>2, MetadataRow
  <2>4. Normal(rows'[m])
    BY <2>2, <2>3 DEF Normal, Fields
  <2>. QED
    BY <2>1, <2>3, <2>4, FreshCalled DEF Fields
<1>. QED
  BY <1>1, <1>2 DEF Progress

LEMMA IdleProgress == sync.pc = "idle" => Progress
  BY DEF Progress

LEMMA StutterProgress == Progress /\ UNCHANGED vars => Progress'
  BY DEF vars, Progress, Arrived, Settles, Decided, Serves

\* All steps together.
LEMMA NextProgress == IInv /\ EditInv /\ Progress /\ [Next]_vars => Progress'
<1> SUFFICES ASSUME IInv, EditInv, Progress, [Next]_vars PROVE Progress'
  OBVIOUS
<1>1. CASE \E kind \in {"sync", "rebuild"}, fetched \in SUBSET Upstreams, catalog \in Catalogs :
              BeginSync(kind, fetched, catalog)
  BY <1>1, BeginSyncProgress
<1>2. CASE \E m \in Models, matched \in BOOLEAN : SaveNext(m, matched)
  BY <1>2, SaveNextProgress
<1>3. CASE \E found \in SUBSET Models : ReplaceRows(found)
  BY <1>3, ReplaceRowsProgress
<1>4. CASE ReloadRows
  BY <1>4, ReloadRowsProgress
<1>5. CASE ReplaceModels \/ SyncFails \/ Restart
  <2>1. sync' = NoSync
    BY <1>5 DEF ReplaceModels, SyncFails, Restart
  <2>2. sync'.pc = "idle"
    BY <2>1, NoSyncFacts
  <2>. QED
    BY <2>2 DEF Progress
<1>6. CASE \E a \in Admins, m \in Models :
             Toggle(a, m) \/ Delete(a, m) \/ \E patch \in Patches : Update(a, m, patch) \/ Upsert(a, m, patch)
  <2>1. \E a, m, op : Start(a, m, op) /\ UNCHANGED rows
    <3>1. ASSUME NEW a, NEW m, NEW patch, Update(a, m, patch) \/ Upsert(a, m, patch) \/ Delete(a, m)
          PROVE  \E op : Start(a, m, op) /\ UNCHANGED rows
      BY <3>1 DEF Update, Upsert, Delete
    <3>2. ASSUME NEW a, NEW m, Toggle(a, m) PROVE \E patch : Update(a, m, patch)
      BY <3>2 DEF Toggle
    <3>. QED
      BY <1>6, <3>1, <3>2
  <2>. QED
    BY <2>1, StartProgress
<1>7. CASE \E a \in DOMAIN ops : MergeCustomized(a) \/ SaveEdit(a) \/ RegisterModel(a) \/ DeleteRow(a)
  <2>1. PICK a \in DOMAIN ops : MergeCustomized(a) \/ SaveEdit(a) \/ RegisterModel(a) \/ DeleteRow(a)
    BY <1>7
  <2>2. UNCHANGED sync
    BY <2>1, Zenon DEF MergeCustomized, SaveEdit, RegisterModel, DeleteRow
  <2>3. \A m \in DOMAIN rows' \ {ops[a].id} : m \in DOMAIN rows /\ rows'[m] = rows[m]
    BY <2>1 DEF MergeCustomized, SaveEdit, RegisterModel, DeleteRow, Put, Drop, Restrict
  <2>. QED
    BY <2>2, <2>3, RowProgress
<1>8. CASE UNCHANGED vars
  BY <1>8, StutterProgress
<1>. QED
  BY <1>1, <1>2, <1>3, <1>4, <1>5, <1>6, <1>7, <1>8 DEF Next

\* What Progress says of the two properties.
LEMMA FetchesHold == EditInv /\ Progress => FetchesDecide
<1> SUFFICES ASSUME Progress, sync.pc = "saving", sync.todo = {}, NEW m \in DOMAIN rows \ sync.met
             PROVE  Decided(rows[m], m)
  <2>1. ASSUME NEW m \in DOMAIN rows \ sync.met, Decided(rows[m], m)
        PROVE  LET known == m \in DOMAIN sync.snapshot
                   before == IF known THEN sync.snapshot[m].upstreams ELSE <<>>
                   custom(f) == f \in rows[m].custom
                   serves(u) == IF u \in sync.fetched THEN m \in sync.catalog[u] ELSE Contains(before, u)
               IN  (known => before # <<>>) =>
                   /\ custom("upstreams") \/ \A u \in Upstreams : Contains(rows[m].upstreams, u) <=> serves(u)
                   /\ rows[m].status = "disabled" =>
                         \/ known /\ sync.snapshot[m].status = "disabled"
                         \/ ~custom("status") /\ \A u \in Range(before) : ~serves(u)
    <3>1. \A u : ~Contains(<<>>, u)
      BY DEF Contains
    <3>. QED
      BY <2>1, <3>1 DEF Decided, Serves
  <2>. QED
    BY <2>1, Zenon DEF FetchesDecide
<1>. QED
  BY DEF Progress, Settles

LEMMA TargetsHold == Progress => RightTarget
<1> SUFFICES ASSUME Progress, sync.pc = "replacing", sync.fetched = Upstreams,
                    NEW m \in DOMAIN sync.snapshot \ sync.met
             PROVE  Runtime(sync.snapshot)[m] = Routed(sync.snapshot[m]) /\ Called(sync.snapshot[m], m)
  BY DEF RightTarget, Called
<1>. QED
  BY DEF Progress, Runtime, Routed
----------------------------------------------------------------------------
(* Rows that go *)

\* A rebuild replaces the rows by what the two catalogs list.
LEMMA RebuiltRows ==
    ASSUME EditInv, NEW found, ReplaceRows(found)
    PROVE  Rebuilt
<1> DEFINE fresh == Fresh(sync.catalog)
<1>1. /\ rows' = [m \in Listed(sync.catalog) |-> ApplyOpenRouterMetadata(fresh[m], m \in found)]
      /\ sync.fetched = Upstreams /\ Listed(sync.catalog) # {}
  BY DEF ReplaceRows, EditInv, SyncRows
<1>2. ASSUME NEW m \in Listed(sync.catalog)
      PROVE  rows'[m].upstreams = mergeModels(sync.catalog, m)
  <2>1. IsRow(fresh[m]) /\ fresh[m].upstreams = mergeModels(sync.catalog, m)
    BY FreshRows
  <2> HIDE DEF fresh
  <2>. QED
    BY <1>1, <2>1, MetadataRow DEF Fields
<1>. QED
  BY <1>1, <1>2, MergedLists DEF Rebuilt

\* No other step but a deletion takes a row away.
LEMMA NextRows ==
    EditInv /\ [Next]_vars => [DOMAIN rows \subseteq DOMAIN rows' \/ Deleted \/ Rebuilt]_rows
<1> SUFFICES ASSUME EditInv, Next, rows' # rows
             PROVE  DOMAIN rows \subseteq DOMAIN rows' \/ Deleted \/ Rebuilt
  BY DEF vars
<1>1. ASSUME NEW kind, NEW fetched, NEW catalog, BeginSync(kind, fetched, catalog) PROVE FALSE
  BY <1>1 DEF BeginSync
<1>2. ASSUME NEW m, NEW matched, SaveNext(m, matched) PROVE DOMAIN rows \subseteq DOMAIN rows'
  BY <1>2 DEF SaveNext, Put
<1>3. ASSUME ReloadRows \/ ReplaceModels \/ SyncFails \/ Restart PROVE FALSE
  BY <1>3 DEF ReloadRows, ReplaceModels, SyncFails, Restart
<1>4. ASSUME NEW a, NEW m, NEW patch, Update(a, m, patch) \/ Upsert(a, m, patch) \/ Delete(a, m) PROVE FALSE
  BY <1>4 DEF Update, Upsert, Delete
<1>5. ASSUME NEW a, NEW m, Toggle(a, m) PROVE FALSE
  BY <1>4, <1>5 DEF Toggle
<1>6. ASSUME NEW a, MergeCustomized(a) \/ RegisterModel(a) PROVE FALSE
  BY <1>6 DEF MergeCustomized, RegisterModel
<1>7. ASSUME NEW a, SaveEdit(a) PROVE DOMAIN rows \subseteq DOMAIN rows'
  BY <1>7 DEF SaveEdit, Put
<1>8. ASSUME NEW a, DeleteRow(a) PROVE Deleted
  BY <1>8 DEF DeleteRow, Deleted
<1>. QED
  BY <1>1, <1>2, <1>3, <1>4, <1>5, <1>6, <1>7, <1>8, RebuiltRows DEF Next

----------------------------------------------------------------------------
(* Clients *)

\* Nothing is cached or held at first.
LEMMA ClientsEmpty == DOMAIN Clients!None = {}
  BY DEF Clients!None

\* Every cached client dials a proxy of the key it is cached under, so clients
\* of two keys differ; as many were made as are cached, and what a caller got is
\* what is cached for its proxy still.
ClientsCached ==
    /\ DOMAIN clientCache \subseteq Range(Key)
    /\ made = Cardinality(DOMAIN clientCache)
    /\ \A k \in DOMAIN clientCache : Key[clientCache[k].dials] = k
ClientsHeld ==
    /\ \A c \in DOMAIN waiting : waiting[c] \in DOMAIN Key
    /\ \A c \in DOMAIN holds :
          /\ Key[holds[c].url] \in DOMAIN clientCache
          /\ holds[c].client = clientCache[Key[holds[c].url]]
ClientsInv == ClientsCached /\ ClientsHeld

LEMMA ClientsStart == Clients!Init => ClientsInv
<1>1. Cardinality({}) = 0
  BY FS_EmptySet
<1>. QED
  BY <1>1, ClientsEmpty DEF Clients!Init, ClientsInv, ClientsCached, ClientsHeld

LEMMA ClientsLook ==
    ASSUME ClientsInv, NEW c, NEW url \in DOMAIN Key, Clients!Lookup(c, url)
    PROVE  ClientsInv'
<1>1. ClientsCached'
  BY DEF ClientsInv, ClientsCached, Clients!Lookup
<1>2. CASE Key[url] \in DOMAIN clientCache
  <2> DEFINE got == [url |-> url, client |-> clientCache[Key[url]]]
  <2>1. holds' = Clients!Put(holds, c, got) /\ UNCHANGED <<clientCache, waiting>>
    BY <1>2 DEF Clients!Lookup
  <2>2. got.url = url /\ got.client = clientCache[Key[url]]
    OBVIOUS
  <2> HIDE DEF got
  <2>3. /\ DOMAIN holds' = DOMAIN holds \cup {c} /\ holds'[c] = got
        /\ \A x \in DOMAIN holds \ {c} : holds'[x] = holds[x]
    BY <2>1 DEF Clients!Put
  <2>4. ClientsHeld'
    BY <1>2, <2>1, <2>2, <2>3 DEF ClientsInv, ClientsHeld
  <2>. QED
    BY <1>1, <2>4 DEF ClientsInv
<1>3. CASE Key[url] \notin DOMAIN clientCache
  <2>1. waiting' = Clients!Put(waiting, c, url) /\ UNCHANGED <<clientCache, holds>>
    BY <1>3 DEF Clients!Lookup
  <2>2. /\ DOMAIN waiting' = DOMAIN waiting \cup {c} /\ waiting'[c] = url
        /\ \A x \in DOMAIN waiting \ {c} : waiting'[x] = waiting[x]
    BY <2>1 DEF Clients!Put
  <2>3. ClientsHeld'
    BY <2>1, <2>2 DEF ClientsInv, ClientsHeld
  <2>. QED
    BY <1>1, <2>3 DEF ClientsInv
<1>. QED
  BY <1>2, <1>3

\* The slow path: whoever made the client of a proxy first, the second look
\* finds it, so the cache grows exactly when a client is made.
LEMMA ClientsMake ==
    ASSUME IsFiniteSet(Range(Key)), ClientsInv, NEW c, Clients!Make(c)
    PROVE  ClientsInv'
<1> DEFINE url == waiting[c]
           k == Key[url]
           known == k \in DOMAIN clientCache
           client == IF known THEN clientCache[k] ELSE [n |-> made + 1, dials |-> url]
           got == [url |-> url, client |-> client]
<1>1. /\ c \in DOMAIN waiting
      /\ clientCache' = Clients!Put(clientCache, k, client)
      /\ made' = IF known THEN made ELSE made + 1
      /\ holds' = Clients!Put(holds, c, got)
      /\ waiting' = Clients!Drop(waiting, c)
  BY DEF Clients!Make
<1>2. url \in DOMAIN Key
  BY <1>1 DEF ClientsInv, ClientsHeld
<1>3. Key[client.dials] = k
  BY DEF ClientsInv, ClientsCached
<1>4. known => client = clientCache[k]
  OBVIOUS
<1>5. got.url = url /\ got.client = client
  OBVIOUS
<1>6. k \in Range(Key)
  BY <1>2 DEF Range
<1> HIDE DEF client, got, k
<1>7. DOMAIN clientCache' = DOMAIN clientCache \cup {k} /\ clientCache'[k] = client
      /\ \A x \in DOMAIN clientCache : clientCache'[x] = clientCache[x]
  <2>1. /\ DOMAIN clientCache' = DOMAIN clientCache \cup {k} /\ clientCache'[k] = client
        /\ \A x \in DOMAIN clientCache \ {k} : clientCache'[x] = clientCache[x]
    BY <1>1 DEF Clients!Put
  <2>. QED
    BY <1>4, <2>1
<1>8. made' = Cardinality(DOMAIN clientCache')
  <2>1. IsFiniteSet(DOMAIN clientCache)
    BY FS_Subset DEF ClientsInv, ClientsCached
  <2>2. CASE known
    BY <1>1, <1>7, <2>2 DEF ClientsInv, ClientsCached
  <2>3. CASE ~known
    BY <1>1, <1>7, <2>1, <2>3, FS_AddElement DEF ClientsInv, ClientsCached
  <2>. QED
    BY <2>2, <2>3
<1>9. ClientsCached'
  <2>1. DOMAIN clientCache' \subseteq Range(Key)
    BY <1>6, <1>7 DEF ClientsInv, ClientsCached
  <2>2. \A x \in DOMAIN clientCache' : Key[clientCache'[x].dials] = x
    BY <1>3, <1>7 DEF ClientsInv, ClientsCached
  <2>. QED
    BY <1>8, <2>1, <2>2 DEF ClientsCached
<1>10. /\ DOMAIN holds' = DOMAIN holds \cup {c} /\ holds'[c] = got
       /\ \A x \in DOMAIN holds \ {c} : holds'[x] = holds[x]
  BY <1>1 DEF Clients!Put
<1>11. ClientsHeld'
  <2>1. \A d \in DOMAIN waiting' : waiting'[d] \in DOMAIN Key
    BY <1>1 DEF ClientsInv, ClientsHeld, Clients!Drop, Clients!Restrict
  <2>2. ASSUME NEW d \in DOMAIN holds'
        PROVE  /\ Key[holds'[d].url] \in DOMAIN clientCache'
               /\ holds'[d].client = clientCache'[Key[holds'[d].url]]
    <3>1. CASE d = c
      BY <1>5, <1>7, <1>10, <3>1 DEF k
    <3>2. CASE d # c
      <4>1. d \in DOMAIN holds /\ holds'[d] = holds[d]
        BY <1>10, <3>2
      <4>. QED
        BY <1>7, <4>1 DEF ClientsInv, ClientsHeld
    <3>. QED
      BY <3>1, <3>2
  <2>. QED
    BY <2>1, <2>2 DEF ClientsHeld
<1>. QED
  BY <1>9, <1>11 DEF ClientsInv

LEMMA ClientsStutter == ClientsInv /\ UNCHANGED Clients!vars => ClientsInv'
  BY DEF ClientsInv, ClientsCached, ClientsHeld, Clients!vars

LEMMA ClientsStep == IsFiniteSet(Range(Key)) /\ ClientsInv /\ [Clients!Next]_(Clients!vars) => ClientsInv'
<1> SUFFICES ASSUME IsFiniteSet(Range(Key)), ClientsInv, [Clients!Next]_(Clients!vars) PROVE ClientsInv'
  OBVIOUS
<1>1. ASSUME NEW c \in Callers, Clients!Make(c) PROVE ClientsInv'
  BY <1>1, ClientsMake
<1>2. ASSUME NEW c \in Callers, NEW url \in DOMAIN Key, Clients!Lookup(c, url) PROVE ClientsInv'
  BY <1>2, ClientsLook
<1>. QED
  BY <1>1, <1>2, ClientsStutter DEF Clients!Next

LEMMA ClientsShare ==
    ASSUME IsFiniteSet(Range(Key)), ClientsInv
    PROVE  Clients!OneClientPerProxy
<1>1. made <= Cardinality(Range(Key))
  BY FS_Subset DEF ClientsInv, ClientsCached
<1>2. ASSUME NEW c \in DOMAIN holds PROVE Key[holds[c].client.dials] = Key[holds[c].url]
  BY DEF ClientsInv, ClientsCached, ClientsHeld
<1>3. ASSUME NEW c \in DOMAIN holds, NEW d \in DOMAIN holds
      PROVE  holds[c].client = holds[d].client <=> Key[holds[c].url] = Key[holds[d].url]
  BY <1>2 DEF ClientsInv, ClientsHeld
<1>. QED
  BY <1>1, <1>2, <1>3 DEF Clients!OneClientPerProxy, Clients!Range, Clients!Cardinality, Range, Cardinality

\* Callers of NewClientForProxy that use one proxy share one client, and no
\* caller gets the client of another proxy, for any number of callers and any
\* finite number of proxies, however they are spelled.
THEOREM CatalogSharesClients ==
    ASSUME IsFiniteSet(Range(Key))
    PROVE  CatalogSpec => []OneClientPerProxy
<1>1. CatalogInit => ClientsInv
  BY ClientsStart DEF CatalogInit
<1>2. ClientsInv /\ [CatalogNext]_<<vars, mappingVars, clientVars, part>> => ClientsInv'
  <2>1. [CatalogNext]_<<vars, mappingVars, clientVars, part>> => [Clients!Next]_(Clients!vars)
    BY DEF CatalogNext, clientVars, Clients!vars
  <2>. QED
    BY <2>1, ClientsStep
<1>3. ClientsInv => OneClientPerProxy
  BY ClientsShare DEF OneClientPerProxy
<1>. QED
  BY <1>1, <1>2, <1>3, PTL DEF CatalogSpec

----------------------------------------------------------------------------
(* Mappings *)

\* The rule for s is what RulesAgree asks for.
RuleAgrees(s) ==
    /\ s \in fixed => s \in DOMAIN rules /\ rules[s] = overlay[s]
    /\ s \notin fixed => /\ s \in DOMAIN rules <=> s \in DOMAIN stored
                         /\ s \in DOMAIN rules => rules[s] = stored[s]

\* Between its two statements a handler relies on the first: nobody else has
\* touched the row or the rule of its name since.
MappingHalfway(h) ==
    /\ h.source \notin fixed
    /\ h.pc = "register" => h.source \in DOMAIN stored /\ stored[h.source] = h.target
    /\ h.pc = "delete" => h.source \notin DOMAIN rules

Unedited(s) == \A a \in DOMAIN handlers : handlers[a].source # s

\* A name that was not raced is free, and then its rule agrees, or is in the
\* hands of one handler.
RuleSettled(s) ==
    /\ Unedited(s) => RuleAgrees(s)
    /\ \A a \in DOMAIN handlers :
          handlers[a].source = s =>
            /\ MappingHalfway(handlers[a])
            /\ \A b \in DOMAIN handlers : handlers[b].source = s => b = a

\* Rows hold no empty name, as the handlers check; a rule that was configured
\* is one of the overlay.
IsHandler(h) ==
    /\ h = [pc |-> h.pc, source |-> h.source, target |-> h.target]
    /\ h.pc \in {"save", "register", "delete"}
    /\ h.source # ""
    /\ h.pc = "save" => h.target # ""
MappingClean ==
    /\ \A s \in DOMAIN stored : s # "" /\ stored[s] # ""
    /\ \A a \in DOMAIN handlers : IsHandler(handlers[a])
    /\ fixed \subseteq DOMAIN overlay

MappingInv == MappingClean /\ \A s \in Sources \ raced : RuleSettled(s)

----------------------------------------------------------------------------
LEMMA MappingEmpty == DOMAIN Mapping!None = {}
  BY DEF Mapping!None

LEMMA MappingStart == Mapping!Init => MappingInv
  BY MappingEmpty DEF Mapping!Init, MappingInv, MappingClean, RuleSettled, RuleAgrees, Unedited

\* What a handler does to the map of handlers when it starts.
LEMMA MappingBegin ==
    ASSUME MappingInv, NEW a, NEW source, NEW h, Mapping!Begin(a, source, h),
           IsHandler(h), h.source = source, h.pc # "register",
           UNCHANGED <<stored, overlay>>,
           \A s \in Sources : s # source =>
              /\ s \in DOMAIN rules' <=> s \in DOMAIN rules
              /\ s \in DOMAIN rules => rules'[s] = rules[s],
           h.pc = "delete" => source \notin DOMAIN rules'
    PROVE  MappingInv'
<1>1. /\ DOMAIN handlers' = DOMAIN handlers \cup {a} /\ handlers'[a] = h
      /\ \A b \in DOMAIN handlers : handlers'[b] = handlers[b] /\ b # a
  BY DEF Mapping!Begin, Mapping!Put
<1>2. source # "" /\ fixed' = fixed \ {source} /\ raced \subseteq raced'
  BY DEF Mapping!Begin
<1>3. MappingClean'
  BY <1>1, <1>2 DEF MappingInv, MappingClean, IsHandler
<1>4. ASSUME NEW s \in Sources \ raced', s # source PROVE RuleSettled(s)'
  <2>1. RuleSettled(s)
    BY <1>2 DEF MappingInv
  <2>2. Unedited(s)' <=> Unedited(s)
    BY <1>1, <1>4 DEF Unedited
  <2>3. RuleAgrees(s) => RuleAgrees(s)'
    BY <1>2, <1>4 DEF RuleAgrees
  <2>4. ASSUME NEW b \in DOMAIN handlers', handlers'[b].source = s
        PROVE  /\ MappingHalfway(handlers[b])'
               /\ \A d \in DOMAIN handlers' : handlers'[d].source = s => d = b
    <3>1. b \in DOMAIN handlers /\ handlers'[b] = handlers[b]
      BY <1>1, <1>4, <2>4
    <3>2. MappingHalfway(handlers[b])
      BY <2>1, <2>4, <3>1 DEF RuleSettled
    <3>3. MappingHalfway(handlers[b])'
      BY <1>2, <1>4, <2>4, <3>1, <3>2 DEF MappingHalfway
    <3>4. \A d \in DOMAIN handlers' : handlers'[d].source = s => d = b
      BY <1>1, <1>4, <2>1, <2>4, <3>1 DEF RuleSettled
    <3>. QED
      BY <3>3, <3>4
  <2>. QED
    BY <2>1, <2>2, <2>3, <2>4 DEF RuleSettled
<1>5. ASSUME source \in Sources \ raced' PROVE RuleSettled(source)'
  <2>1. \A b \in DOMAIN handlers : handlers[b].source # source
    BY <1>5 DEF Mapping!Begin
  <2>2. \A b \in DOMAIN handlers' : handlers'[b].source = source => b = a
    BY <1>1, <2>1
  <2>3. MappingHalfway(handlers[a])'
    BY <1>1, <1>2 DEF MappingHalfway, IsHandler
  <2>4. ~ Unedited(source)'
    BY <1>1 DEF Unedited
  <2>. QED
    BY <2>2, <2>3, <2>4 DEF RuleSettled
<1>. QED
  BY <1>3, <1>4, <1>5 DEF MappingInv

LEMMA MappingUpsert ==
    ASSUME MappingInv, NEW a, NEW source, NEW goal, Mapping!Upsert(a, source, goal)
    PROVE  MappingInv'
<1> DEFINE h == [pc |-> "save", source |-> source, target |-> goal]
<1>1. Mapping!Begin(a, source, h) /\ goal # "" /\ UNCHANGED <<stored, rules, overlay>>
  BY DEF Mapping!Upsert
<1>2. h.source = source /\ h.pc = "save" /\ IsHandler(h)
  BY <1>1 DEF Mapping!Begin, IsHandler
<1> HIDE DEF h
<1>. QED
  BY <1>1, <1>2, MappingBegin

LEMMA MappingDelete ==
    ASSUME MappingInv, NEW a, NEW source, Mapping!Delete(a, source)
    PROVE  MappingInv'
<1> DEFINE h == [pc |-> "delete", source |-> source, target |-> ""]
<1>1. Mapping!Begin(a, source, h) /\ rules' = Mapping!Drop(rules, source) /\ UNCHANGED <<stored, overlay>>
  BY DEF Mapping!Delete
<1>2. h.source = source /\ h.pc = "delete" /\ IsHandler(h)
  BY <1>1 DEF Mapping!Begin, IsHandler
<1>3. source \notin DOMAIN rules' /\ \A s : s # source =>
         /\ s \in DOMAIN rules' <=> s \in DOMAIN rules
         /\ s \in DOMAIN rules => rules'[s] = rules[s]
  BY <1>1 DEF Mapping!Drop, Mapping!Restrict
<1> HIDE DEF h
<1>. QED
  BY <1>1, <1>2, <1>3, MappingBegin

\* The end of a handler on source, for every other name.
LEMMA OtherRulesSettled ==
    ASSUME MappingInv, NEW a \in DOMAIN handlers, NEW s \in Sources \ raced', s # handlers[a].source,
           raced \subseteq raced', UNCHANGED <<overlay, fixed>>,
           \/ handlers' = Mapping!Drop(handlers, a)
           \/ handlers' = [handlers EXCEPT ![a].pc = "register"],
           s \in DOMAIN stored' <=> s \in DOMAIN stored,
           s \in DOMAIN stored => stored'[s] = stored[s],
           s \in DOMAIN rules' <=> s \in DOMAIN rules,
           s \in DOMAIN rules => rules'[s] = rules[s]
    PROVE  RuleSettled(s)'
<1>1. RuleSettled(s)
  BY DEF MappingInv
<1>2. \A b : b # a => /\ b \in DOMAIN handlers' <=> b \in DOMAIN handlers
                      /\ b \in DOMAIN handlers => handlers'[b] = handlers[b]
  BY DEF Mapping!Drop, Mapping!Restrict
<1>3. a \in DOMAIN handlers' => handlers'[a].source = handlers[a].source
  BY DEF Mapping!Drop, Mapping!Restrict, MappingInv, MappingClean, IsHandler
<1>4. Unedited(s)' <=> Unedited(s)
  BY <1>2, <1>3 DEF Unedited
<1>5. RuleAgrees(s) => RuleAgrees(s)'
  BY DEF RuleAgrees
<1>6. ASSUME NEW b \in DOMAIN handlers', handlers'[b].source = s
      PROVE  /\ MappingHalfway(handlers[b])'
             /\ \A d \in DOMAIN handlers' : handlers'[d].source = s => d = b
  <2>1. b \in DOMAIN handlers /\ handlers'[b] = handlers[b]
    BY <1>2, <1>3, <1>6
  <2>2. MappingHalfway(handlers[b])
    BY <1>1, <1>6, <2>1 DEF RuleSettled
  <2>3. MappingHalfway(handlers[b])'
    BY <1>6, <2>1, <2>2 DEF MappingHalfway
  <2>4. \A d \in DOMAIN handlers' : handlers'[d].source = s => d = b
    BY <1>1, <1>2, <1>3, <1>6, <2>1 DEF RuleSettled
  <2>. QED
    BY <2>3, <2>4
<1>. QED
  BY <1>1, <1>4, <1>5, <1>6 DEF RuleSettled

\* A handler that is done leaves its name free, if it had it for itself.
LEMMA LeavesUnedited ==
    ASSUME MappingInv, NEW a \in DOMAIN handlers, NEW s \in Sources \ raced, handlers[a].source = s,
           handlers' = Mapping!Drop(handlers, a), RuleAgrees(s)'
    PROVE  RuleSettled(s)'
<1>1. \A b \in DOMAIN handlers : handlers[b].source = s => b = a
  BY DEF MappingInv, RuleSettled
<1>2. DOMAIN handlers' = DOMAIN handlers \ {a}
      /\ \A b \in DOMAIN handlers' : handlers'[b] = handlers[b]
  BY DEF Mapping!Drop, Mapping!Restrict
<1>3. \A b \in DOMAIN handlers' : handlers'[b].source # s
  BY <1>1, <1>2
<1>. QED
  BY <1>3 DEF RuleSettled

LEMMA MappingSave ==
    ASSUME MappingInv, NEW a, Mapping!SaveModelMapping(a)
    PROVE  MappingInv'
<1>1. PICK s, t : s = handlers[a].source /\ t = handlers[a].target
  OBVIOUS
<1>2. a \in DOMAIN handlers /\ handlers[a].pc = "save" /\ IsHandler(handlers[a])
  BY DEF Mapping!SaveModelMapping, MappingInv, MappingClean
<1>3. /\ a \in DOMAIN handlers /\ handlers[a].pc = "save" /\ s # "" /\ t # ""
      /\ raced \subseteq raced' /\ UNCHANGED <<rules, overlay, edits, fixed>>
      /\ \/ stored' = Mapping!Put(stored, s, t) /\ handlers' = [handlers EXCEPT ![a].pc = "register"]
            /\ UNCHANGED raced
         \/ handlers' = Mapping!Drop(handlers, a) /\ raced' = raced \cup {s} /\ UNCHANGED stored
  <2>1. s # "" /\ t # ""
    BY <1>2, <1>1 DEF IsHandler
  <2>. QED
    BY <1>2, <1>1, <2>1 DEF Mapping!SaveModelMapping
<1>4. ASSUME NEW x \in Sources \ raced', x # s PROVE RuleSettled(x)'
  <2>1. /\ x \in DOMAIN stored' <=> x \in DOMAIN stored
        /\ x \in DOMAIN stored => stored'[x] = stored[x]
    BY <1>3, <1>4 DEF Mapping!Put
  <2>. QED
    BY <1>1, <1>3, <1>4, <2>1, OtherRulesSettled
<1>5. CASE stored' = Mapping!Put(stored, s, t) /\ handlers' = [handlers EXCEPT ![a].pc = "register"]
           /\ UNCHANGED raced
  <2>1. /\ DOMAIN stored' = DOMAIN stored \cup {s} /\ stored'[s] = t
        /\ \A x \in DOMAIN stored \ {s} : stored'[x] = stored[x]
    BY <1>5 DEF Mapping!Put
  <2>2. /\ DOMAIN handlers' = DOMAIN handlers
        /\ \A b \in DOMAIN handlers : /\ handlers'[b].source = handlers[b].source
                                      /\ handlers'[b].target = handlers[b].target
                                      /\ b # a => handlers'[b] = handlers[b]
        /\ handlers'[a] = [pc |-> "register", source |-> s, target |-> t]
    BY <1>2, <1>1, <1>5 DEF IsHandler
  <2>3. MappingClean'
    <3>1. \A x \in DOMAIN stored' : x # "" /\ stored'[x] # ""
      BY <1>3, <2>1 DEF MappingInv, MappingClean
    <3>2. IsHandler([pc |-> "register", source |-> s, target |-> t])
      BY <1>3 DEF IsHandler
    <3>3. \A b \in DOMAIN handlers' : IsHandler(handlers'[b])
      BY <1>3, <2>2, <3>2 DEF MappingInv, MappingClean
    <3>. QED
      BY <1>3, <3>1, <3>3 DEF MappingInv, MappingClean, IsHandler
  <2>4. ASSUME s \in Sources \ raced PROVE RuleSettled(s)'
    <3>1. RuleSettled(s)
      BY <2>4 DEF MappingInv
    <3>2. ~ Unedited(s)'
      BY <1>1, <1>3, <2>2 DEF Unedited
    <3>3. \A b \in DOMAIN handlers' : handlers'[b].source = s => b = a
      BY <1>1, <1>3, <2>2, <3>1 DEF RuleSettled
    <3>4. s \notin fixed
      BY <1>1, <1>3, <3>1 DEF RuleSettled, MappingHalfway
    <3>5. MappingHalfway(handlers[a])'
      <4>1. handlers'[a].source = s /\ handlers'[a].target = t /\ handlers'[a].pc = "register"
        BY <2>2
      <4>. QED
        BY <1>3, <2>1, <3>4, <4>1 DEF MappingHalfway
    <3>. QED
      BY <3>2, <3>3, <3>5 DEF RuleSettled
  <2>. QED
    BY <1>4, <1>5, <2>3, <2>4 DEF MappingInv
<1>6. CASE handlers' = Mapping!Drop(handlers, a) /\ raced' = raced \cup {s} /\ UNCHANGED stored
  <2>1. MappingClean'
    BY <1>3, <1>6 DEF MappingInv, MappingClean, Mapping!Drop, Mapping!Restrict
  <2>. QED
    BY <1>4, <1>6, <2>1 DEF MappingInv
<1>. QED
  BY <1>3, <1>5, <1>6

LEMMA MappingRegister ==
    ASSUME MappingInv, NEW a, Mapping!RegisterModelMapping(a)
    PROVE  MappingInv'
<1>1. PICK s, t : s = handlers[a].source /\ t = handlers[a].target
  OBVIOUS
<1>2. /\ a \in DOMAIN handlers /\ handlers[a].pc = "register"
      /\ rules' = Mapping!Put(rules, s, t) /\ handlers' = Mapping!Drop(handlers, a)
      /\ UNCHANGED <<stored, overlay, edits, fixed, raced>>
  BY <1>1 DEF Mapping!RegisterModelMapping
<1>3. /\ DOMAIN rules' = DOMAIN rules \cup {s} /\ rules'[s] = t
      /\ \A x \in DOMAIN rules \ {s} : rules'[x] = rules[x]
  BY <1>2 DEF Mapping!Put
<1>4. MappingClean'
  BY <1>2 DEF MappingInv, MappingClean, Mapping!Drop, Mapping!Restrict
<1>5. ASSUME NEW x \in Sources \ raced', x # s PROVE RuleSettled(x)'
  BY <1>1, <1>2, <1>3, <1>5, OtherRulesSettled
<1>6. ASSUME s \in Sources \ raced' PROVE RuleSettled(s)'
  <2>1. MappingHalfway(handlers[a])
    BY <1>1, <1>2, <1>6 DEF MappingInv, RuleSettled
  <2>2. RuleAgrees(s)'
    BY <1>1, <1>2, <1>3, <2>1 DEF RuleAgrees, MappingHalfway
  <2>. QED
    BY <1>1, <1>2, <1>6, <2>2, LeavesUnedited
<1>. QED
  BY <1>4, <1>5, <1>6 DEF MappingInv

LEMMA MappingDeleteRow ==
    ASSUME MappingInv, NEW a, Mapping!DeleteModelMapping(a)
    PROVE  MappingInv'
<1>1. PICK s : s = handlers[a].source
  OBVIOUS
<1>2. /\ a \in DOMAIN handlers /\ handlers[a].pc = "delete"
      /\ \/ stored' = Mapping!Drop(stored, s) /\ UNCHANGED raced
         \/ raced' = raced \cup {s} /\ UNCHANGED stored
      /\ handlers' = Mapping!Drop(handlers, a)
      /\ UNCHANGED <<rules, overlay, edits, fixed>>
  BY <1>1 DEF Mapping!DeleteModelMapping
<1>3. \A x \in DOMAIN stored' : x \in DOMAIN stored /\ stored'[x] = stored[x]
  BY <1>2 DEF Mapping!Drop, Mapping!Restrict
<1>4. MappingClean'
  BY <1>2, <1>3 DEF MappingInv, MappingClean, Mapping!Drop, Mapping!Restrict
<1>5. ASSUME NEW x \in Sources \ raced', x # s PROVE RuleSettled(x)'
  <2>1. x \in DOMAIN stored' <=> x \in DOMAIN stored
    BY <1>2, <1>5 DEF Mapping!Drop, Mapping!Restrict
  <2>. QED
    BY <1>1, <1>2, <1>3, <1>5, <2>1, OtherRulesSettled
<1>6. ASSUME s \in Sources \ raced' PROVE RuleSettled(s)'
  <2>1. stored' = Mapping!Drop(stored, s) /\ s \in Sources \ raced
    BY <1>2, <1>6
  <2>2. MappingHalfway(handlers[a])
    BY <1>1, <1>2, <2>1 DEF MappingInv, RuleSettled
  <2>3. s \notin DOMAIN stored'
    BY <2>1 DEF Mapping!Drop, Mapping!Restrict
  <2>4. RuleAgrees(s)'
    BY <1>1, <1>2, <2>2, <2>3 DEF RuleAgrees, MappingHalfway
  <2>. QED
    BY <1>1, <1>2, <2>1, <2>4, LeavesUnedited
<1>. QED
  BY <1>4, <1>5, <1>6 DEF MappingInv

\* A start reads every row, if they can be read, and lays the configuration
\* over them; no handler is left.
LEMMA MappingRestart == MappingInv /\ Mapping!Restart => MappingInv'
<1> SUFFICES ASSUME MappingInv, Mapping!Restart PROVE MappingInv'
  OBVIOUS
<1>1. PICK env \in Configured, file \in Configured, readable \in BOOLEAN :
         /\ Mapping!Start(IF readable THEN stored ELSE Mapping!None, env, file)
         /\ raced' = IF readable THEN {} ELSE Sources
         /\ UNCHANGED <<stored, edits>>
  BY DEF Mapping!Restart
<1> DEFINE inRows == IF readable THEN stored ELSE Mapping!None
<1>2. /\ overlay' = Mapping!Over(Mapping!normalize(file), Mapping!normalize(env)) /\ fixed' = DOMAIN overlay'
      /\ rules' = Mapping!normalize(Mapping!Over(overlay', inRows)) /\ handlers' = Mapping!None
  BY <1>1 DEF Mapping!Start
<1>3. MappingClean'
  BY <1>1, <1>2, MappingEmpty DEF MappingInv, MappingClean
<1>4. CASE readable
  <2>1. \A s \in DOMAIN overlay' : s # "" /\ overlay'[s] # ""
    BY <1>2 DEF Mapping!Over, Mapping!normalize, Mapping!Restrict
  <2>2. \A s \in DOMAIN inRows : s # "" /\ inRows[s] # ""
    BY <1>4 DEF MappingInv, MappingClean
  <2>3. /\ DOMAIN rules' = DOMAIN overlay' \cup DOMAIN inRows
        /\ \A s \in DOMAIN rules' :
              rules'[s] = IF s \in DOMAIN overlay' THEN overlay'[s] ELSE inRows[s]
    BY <1>2, <2>1, <2>2 DEF Mapping!Over, Mapping!normalize, Mapping!Restrict
  <2>4. inRows = stored'
    BY <1>1, <1>4
  <2> HIDE DEF inRows
  <2>5. ASSUME NEW s PROVE RuleAgrees(s)'
    BY <1>2, <2>3, <2>4 DEF RuleAgrees
  <2>6. ASSUME NEW s PROVE RuleSettled(s)'
    BY <1>2, <2>5, MappingEmpty DEF RuleSettled
  <2>. QED
    BY <1>3, <2>6 DEF MappingInv
<1>5. CASE ~readable
  BY <1>1, <1>3, <1>5 DEF MappingInv
<1>. QED
  BY <1>4, <1>5

LEMMA MappingStutter == MappingInv /\ UNCHANGED Mapping!vars => MappingInv'
<1> SUFFICES ASSUME MappingInv, UNCHANGED Mapping!vars PROVE MappingInv'
  OBVIOUS
<1>1. MappingClean'
  BY DEF MappingInv, MappingClean, Mapping!vars
<1>2. ASSUME NEW s \in Sources \ raced PROVE RuleSettled(s)'
  <2>1. RuleSettled(s)
    BY DEF MappingInv
  <2>. QED
    BY <2>1 DEF RuleSettled, RuleAgrees, MappingHalfway, Unedited, Mapping!vars
<1>. QED
  BY <1>1, <1>2 DEF MappingInv, Mapping!vars

LEMMA MappingStep == MappingInv /\ [Mapping!Next]_(Mapping!vars) => MappingInv'
<1> SUFFICES ASSUME MappingInv, [Mapping!Next]_(Mapping!vars) PROVE MappingInv'
  OBVIOUS
<1>1. ASSUME NEW a \in Admins, NEW source \in Sources, Mapping!Delete(a, source) PROVE MappingInv'
  BY <1>1, MappingDelete
<1>2. ASSUME NEW a \in Admins, NEW source \in Sources, NEW goal \in Targets,
             Mapping!Upsert(a, source, goal)
      PROVE  MappingInv'
  BY <1>2, MappingUpsert
<1>3. ASSUME NEW a \in Admins, Mapping!SaveModelMapping(a) PROVE MappingInv'
  BY <1>3, MappingSave
<1>4. ASSUME NEW a \in Admins, Mapping!RegisterModelMapping(a) PROVE MappingInv'
  BY <1>4, MappingRegister
<1>5. ASSUME NEW a \in Admins, Mapping!DeleteModelMapping(a) PROVE MappingInv'
  BY <1>5, MappingDeleteRow
<1>. QED
  BY <1>1, <1>2, <1>3, <1>4, <1>5, MappingRestart, MappingStutter DEF Mapping!Next

LEMMA MappingAgrees == MappingInv => Mapping!RulesAgree
<1> SUFFICES ASSUME MappingInv PROVE Mapping!RulesAgree
  OBVIOUS
<1> DEFINE busy == {handlers[a].source : a \in DOMAIN handlers}
           meant == Mapping!Over(Mapping!Restrict(overlay, fixed), Mapping!Restrict(stored, DOMAIN stored \ fixed))
<1>1. /\ DOMAIN meant = fixed \cup DOMAIN stored
      /\ \A s \in DOMAIN meant : meant[s] = IF s \in fixed THEN overlay[s] ELSE stored[s]
  BY DEF Mapping!Over, Mapping!Restrict
<1> HIDE DEF meant
<1>2. ASSUME NEW s \in Sources \ (raced \cup busy)
      PROVE  /\ s \in DOMAIN rules <=> s \in DOMAIN meant
             /\ s \in DOMAIN rules => rules[s] = meant[s]
  <2>1. RuleAgrees(s)
    BY DEF MappingInv, RuleSettled, Unedited
  <2>. QED
    BY <1>1, <2>1 DEF RuleAgrees
<1>. QED
  BY <1>2 DEF Mapping!RulesAgree, meant

----------------------------------------------------------------------------
(* The whole: models, mappings and clients *)

LEMMA IdleInv == ModelsIdle => IInv
<1> SUFFICES ASSUME ModelsIdle PROVE IInv
  OBVIOUS
<1>1. rows = None /\ registry = None /\ sync = NoSync /\ ops = None /\ serving = TRUE
  BY DEF ModelsIdle
<1>2. sync.pc = "idle" /\ IsSync
  BY <1>1 DEF NoSync, IsSync
<1>3. DOMAIN ops = {} /\ DOMAIN rows = {} /\ DOMAIN registry = {}
  BY <1>1, EmptyNone
<1>. QED
  BY <1>1, <1>2, <1>3 DEF IInv, Shapes, Meets, Settled, Agree, Waits, Reread

\* Requests are routed and rewritten by what is stored whenever no writer is at
\* work, for any models, names, admins, catalogs, requests and configurations:
\* but for what two writers worked on at once or a failure hit (admin/router.go,
\* modelsync/sync.go and config/model_mapping.go write row and rule one after
\* the other).
THEOREM CatalogAgrees == CatalogSpec => []RegistryAgrees
<1> DEFINE Inv == IInv /\ MappingInv
<1>1. CatalogInit => Inv
  <2>1. CatalogInit => (Init \/ ModelsIdle) /\ Mapping!Init
    BY DEF CatalogInit
  <2>. QED
    BY <2>1, InitInv, IdleInv, MappingStart
<1>2. Inv /\ [CatalogNext]_<<vars, mappingVars, clientVars, part>> => Inv'
  <2>1. [CatalogNext]_<<vars, mappingVars, clientVars, part>>
        => [Next]_vars /\ [Mapping!Next]_(Mapping!vars)
    BY DEF CatalogNext, mappingVars, Mapping!vars
  <2>. QED
    BY <2>1, NextInv, MappingStep
<1>3. Inv => RegistryAgrees
  BY InvAgrees, MappingAgrees DEF RegistryAgrees
<1> HIDE DEF Inv
<1>. QED
  BY <1>1, <1>2, <1>3, PTL DEF CatalogSpec

----------------------------------------------------------------------------
\* The invariant of the model catalog: registry and rows (IInv), what admins set
\* (EditInv), and what a synchronisation has settled (Progress).
ModelsInv == IInv /\ EditInv /\ Progress

LEMMA IdleEdits == ModelsIdle => EditInv
<1> SUFFICES ASSUME ModelsIdle PROVE EditInv
  OBVIOUS
<1>1. sync = NoSync /\ rows = None /\ ops = None /\ asked = [m \in Models |-> None]
  BY DEF ModelsIdle
<1>2. sync.pc = "idle" /\ DOMAIN rows = {} /\ DOMAIN ops = {} /\ \A m \in Models : DOMAIN asked[m] = {}
  BY <1>1, NoSyncFacts, EmptyNone
<1>. QED
  BY <1>1, <1>2 DEF EditInv, AreRows, AskedTypes, SyncRows, Promises, Holds

LEMMA ModelsInvStarts == CatalogInit => ModelsInv
<1>1. CatalogInit => Init \/ ModelsIdle
  BY DEF CatalogInit
<1>2. Init \/ ModelsIdle => sync.pc = "idle"
  BY NoSyncFacts DEF Init, ModelsIdle
<1>. QED
  BY <1>1, <1>2, InitInv, IdleInv, InitEdits, IdleEdits, IdleProgress DEF ModelsInv

LEMMA CatalogSteps == [CatalogNext]_<<vars, mappingVars, clientVars, part>> => [Next]_vars
  BY DEF CatalogNext

LEMMA ModelsInvStays == ModelsInv /\ [CatalogNext]_<<vars, mappingVars, clientVars, part>> => ModelsInv'
  BY CatalogSteps, NextInv, NextEdits, NextProgress DEF ModelsInv

\* What an admin set survives every synchronisation, PATCH of another field,
\* toggle, failure and restart, for any number of models, admins, requests and
\* catalogs (mergeModelCustomizedFields in admin/router.go, buildMergedRoute and
\* the reconciliation in modelsync/sync.go). What survives a POST that does not
\* name a field edited before is the blank the POST left (upsertModel).
THEOREM EditsStay == CatalogSpec => []EditsKept
<1>1. ModelsInv => EditsKept
  BY EditsHold DEF ModelsInv
<1>. QED
  BY <1>1, ModelsInvStarts, ModelsInvStays, PTL DEF CatalogSpec

\* A fetch that failed takes no upstream from a model and disables none, and one
\* that arrived decides, whatever handlers and synchronisations did before
\* (buildMergedRoute and the reconciliation in modelsync/sync.go); but for rows
\* stored without a list of upstreams and for lists an admin customized.
THEOREM FetchesRule == CatalogSpec => []FetchesDecide
<1>1. ModelsInv => FetchesDecide
  BY FetchesHold DEF ModelsInv
<1>. QED
  BY <1>1, ModelsInvStarts, ModelsInvStays, PTL DEF CatalogSpec

\* After two complete fetches every upstream of an enabled model, none of whose
\* fields involved an admin customized, is called with its own key group and
\* protocol, but for the protocol of a model Ollama alone serves (fallbackRoute and
\* the merge of targets in modelsync/sync.go, config/models.go's getters).
THEOREM TargetsFit == CatalogSpec => []RightTarget
<1>1. ModelsInv => RightTarget
  BY TargetsHold DEF ModelsInv
<1>. QED
  BY <1>1, ModelsInvStarts, ModelsInvStays, PTL DEF CatalogSpec

\* A row goes only when an admin deletes it, or when two complete catalogs
\* replace all rows at once (ReplaceModelRoutes): no failed fetch, no failed
\* write and no restart loses one.
THEOREM RowsGoOnPurpose == CatalogSpec => RowsStay
<1>1. ModelsInv /\ [CatalogNext]_<<vars, mappingVars, clientVars, part>>
      => [DOMAIN rows \subseteq DOMAIN rows' \/ Deleted \/ Rebuilt]_rows
  BY CatalogSteps, NextRows DEF ModelsInv
<1>. QED
  BY <1>1, ModelsInvStarts, ModelsInvStays, PTL DEF CatalogSpec, RowsStay
=============================================================================
