------------------------------ MODULE KeyPool ------------------------------
(***************************************************************************)
(* The pool of upstream credentials (pool/key.go) as the proxy's request   *)
(* goroutines, the admin handlers (admin/router.go) and the clock use it.  *)
(*                                                                         *)
(* The rows live in SQLite and every statement on one is atomic; whatever  *)
(* takes several statements (MarkFailure, the quota branch of              *)
(* MarkFailureWithQuota, toggleKey) takes several actions here, so other   *)
(* goroutines run between them.  Only the cursor has a mutex.              *)
(***************************************************************************)
EXTENDS Integers, FiniteSets, FiniteSetsExt

CONSTANTS
    Key,          \* ids a row may get; ids grow and are never used again
    Group,        \* upstream groups ("go" and "ollama")
    GroupOf,      \* the group each key is created in: no handler changes it
    Handler,      \* request goroutines, each trying the keys of one pick
    Admin,        \* admin requests that may be running toggleKey
    Weights,      \* weights an admin may send
    Threshold,    \* cooldownConfig.threshold
    Base,         \* cooldownConfig.baseDuration, in ticks
    MaxCool,      \* cooldownConfig.maxDuration, in ticks
    Overflow,     \* the first fail_count whose backoff, a float64, does not
                  \* fit time.Duration (32 for the 30 seconds of NewPicker)
    QuotaReset,   \* reset times a 429 may carry, in ticks
    FailCap,      \* bound: fail_count saturates here
    CursorPeriod, \* bound: the cursor is kept modulo this number; exact when
                  \* it is a multiple of every total weight that can arise
    Answers,      \* what an attempt may meet in this instance
    AdminOps      \* the admin operations of this instance

AllAnswers == {"success", "final", "deadline", "serverError",
               "unauthorized", "rateLimited"}
AllAdminOps == {"create", "edit", "toggle", "reset", "delete"}

(* Every count from Overflow on has the same cooldowns, so saturating the  *)
(* counter at FailCap changes none.                                        *)
ASSUME PoolAssumption ==
    /\ Key \subseteq Nat /\ IsFiniteSet(Key)
    /\ GroupOf \in [Key -> Group]
    /\ Weights \subseteq Int
    /\ Threshold \in Nat \ {0} /\ Base \in Nat \ {0} /\ MaxCool \in Nat \ {0}
    /\ QuotaReset \subseteq Nat \ {0}
    /\ Overflow \in Nat /\ Overflow > Threshold
    /\ FailCap \in Nat /\ FailCap >= Overflow
    /\ CursorPeriod \in Nat \ {0}
    /\ Answers \subseteq AllAnswers /\ AdminOps \subseteq AllAdminOps

VARIABLES
    row,     \* the keys table
    cursor,  \* Picker.cursor: the virtual round-robin position of each group
    req,     \* the request each handler is serving
    toggle   \* toggleKey requests between their statements

vars == <<row, cursor, req, toggle>>

----------------------------------------------------------------------------
(* Rows *)

Unborn == [state |-> "unborn", enabled |-> FALSE, weight |-> 1,
           fails |-> 0, cooling |-> 0]
Gone == [Unborn EXCEPT !.state = "gone"]
Created(w) == [Unborn EXCEPT !.state = "present", !.enabled = TRUE,
                             !.weight = w]

Present(k) == row[k].state = "present"

\* A weight of zero or less counts as one, at the admin API and in the picker.
Effective(w) == IF w <= 0 THEN 1 ELSE w

\* What the weight column holds; 1 is the column's default.
StoredWeight == {Effective(w) : w \in Weights} \cup {1}

\* Mutant: the picker forgets the cooldown filter.
UsableEvenCooling(g) ==
    {k \in Key : Present(k) /\ row[k].enabled /\ GroupOf[k] = g}

Usable(g) ==
    {k \in Key : /\ Present(k) /\ row[k].enabled /\ GroupOf[k] = g
                 /\ row[k].cooling = 0}

\* UPDATE ... WHERE id = k: a row deleted meanwhile is left alone.
Update(k, new) == row' = [row EXCEPT ![k] = IF Present(k) THEN new ELSE @]

Cleared(r) == [r EXCEPT !.fails = 0, !.cooling = 0]

OneMore(n) == IF n < FailCap THEN n + 1 ELSE FailCap

\* Mutant: the backoff without its ceiling.
UncappedBackoff(n) == {Base * 2^(n - Threshold)}

\* min(baseDuration * 2^(fails - threshold), maxDuration).  What a float64 out
\* of range converts to is the machine's choice: the largest Duration, which
\* is capped (arm64), or the smallest, which ends the cooldown in the past
\* (amd64).
Backoff(n) ==
    LET d == Base * 2^(n - Threshold)
    IN  IF n >= Overflow THEN {0, MaxCool}
        ELSE IF d \in 0 .. MaxCool THEN {d} ELSE {MaxCool}

----------------------------------------------------------------------------
(* Weighted round robin over the candidates loaded by one pick             *)

TotalWeight(cand) == SumFunction(cand)

\* Mutant: the candidate's own weight is left out.
AccumulatedBefore(cand, k) ==
    SumFunctionOnSet(cand, {j \in DOMAIN cand : j < k})

\* Weight of the candidates up to k in id order.
Accumulated(cand, k) == SumFunctionOnSet(cand, {j \in DOMAIN cand : j <= k})

\* The first candidate whose accumulated weight exceeds pos, else the first.
Chosen(cand, pos) ==
    LET above == {k \in DOMAIN cand : pos < Accumulated(cand, k)}
    IN  IF above = {} THEN Min(DOMAIN cand) ELSE Min(above)

\* Mutant: the next candidate may be the same one.
AfterOrSame(C, k) ==
    LET higher == {j \in C : j >= k}
    IN  IF higher = {} THEN Min(C) ELSE Min(higher)

\* The attempt list continues from the chosen candidate in id order and
\* wraps: the candidate after k.
After(C, k) ==
    LET higher == {j \in C : j > k}
    IN  IF higher = {} THEN Min(C) ELSE Min(higher)

----------------------------------------------------------------------------
(* Requests.  pc is where the goroutine stands:                            *)
(*   idle       no attempt list; the last request ended with an answer     *)
(*   loaded     PickAttempts has read the rows, not yet the cursor         *)
(*   asking     an attempt with key cur is in flight                       *)
(*   marking    MarkFailure is about to read the row of cur                *)
(*   writing    the row was read (fail_count = seen), the UPDATE is due    *)
(*   exhausted  every candidate was tried without an answer                *)

NoKey == [k \in {} |-> 0]
Idle == [pc |-> "idle", cand |-> NoKey, first |-> 0, cur |-> 0, tried |-> {},
         answer |-> "none", seen |-> 0, reset |-> 0]

AtRest(h) == req[h].pc \in {"idle", "exhausted"}

\* PickAttempts up to the candidate filter.  Without a usable key it returns
\* ErrNoAvailableKey before touching the cursor: nothing changes.
Load(h, g) ==
    /\ AtRest(h)
    /\ Usable(g) # {}
    /\ req' = [req EXCEPT ![h] = [Idle EXCEPT
                 !.pc = "loaded",
                 !.cand = [k \in Usable(g) |-> Effective(row[k].weight)]]]
    /\ UNCHANGED <<row, cursor, toggle>>

CandGroup(cand) == GroupOf[CHOOSE k \in DOMAIN cand : TRUE]

\* PickAttempts from the mutex on: the group's cursor moves by one and its
\* old value selects the candidate the attempt list starts with.
Advance(h) ==
    LET cand == req[h].cand
        g    == CandGroup(cand)
        k    == Chosen(cand, cursor[g] % TotalWeight(cand))
    IN  /\ req[h].pc = "loaded"
        /\ cursor' = [cursor EXCEPT ![g] = (@ + 1) % CursorPeriod]
        /\ req' = [req EXCEPT ![h].pc = "asking", ![h].first = k, ![h].cur = k]
        /\ UNCHANGED <<row, toggle>>

Asking(h, answer) == req[h].pc = "asking" /\ answer \in Answers

\* The retry loop's next iteration: the next key of the attempt list, or the
\* end of the list.
Moved(q) ==
    LET k == After(DOMAIN q.cand, q.cur)
        tried == q.tried \cup {q.cur}
    IN  IF k = q.first
        THEN [Idle EXCEPT !.pc = "exhausted", !.cand = q.cand, !.tried = tried]
        ELSE [q EXCEPT !.pc = "asking", !.cur = k, !.tried = tried,
                       !.answer = "none", !.seen = 0, !.reset = 0]

NextKey(h) == req' = [req EXCEPT ![h] = Moved(@)]

\* The upstream answered and the whole body was relayed: MarkSuccess.
Success(h) ==
    /\ Asking(h, "success")
    /\ Update(req[h].cur, Cleared(row[req[h].cur]))
    /\ req' = [req EXCEPT ![h] = Idle]
    /\ UNCHANGED <<cursor, toggle>>

\* An answer that ends the request and says nothing about the key: 400 and
\* the other client errors, a client that went away.
Final(h) ==
    /\ Asking(h, "final")
    /\ req' = [req EXCEPT ![h] = Idle]
    /\ UNCHANGED <<row, cursor, toggle>>

\* The attempt ran into the gateway's deadline: the next key, no mark.
Deadline(h) ==
    /\ Asking(h, "deadline")
    /\ NextKey(h)
    /\ UNCHANGED <<row, cursor, toggle>>

\* Mutant: a 5xx is marked like a 401.
ServerErrorMarked(h) ==
    /\ Asking(h, "serverError")
    /\ req' = [req EXCEPT ![h].pc = "marking"]
    /\ UNCHANGED <<row, cursor, toggle>>

\* 402, 403, 5xx, a refused connection, an unusable body: markFailureCountOnly.
ServerError(h) ==
    LET k == req[h].cur
    IN  /\ Asking(h, "serverError")
        /\ Update(k, [row[k] EXCEPT !.fails = OneMore(@)])
        /\ NextKey(h)
        /\ UNCHANGED <<cursor, toggle>>

\* A stream that breaks after its first bytes went out: counted as well, but
\* the request ends.
StreamBroken(h) ==
    LET k == req[h].cur
    IN  /\ Asking(h, "serverError")
        /\ Update(k, [row[k] EXCEPT !.fails = OneMore(@)])
        /\ req' = [req EXCEPT ![h] = Idle]
        /\ UNCHANGED <<cursor, toggle>>

\* 401: MarkFailureWithQuota goes straight to MarkFailure.
Unauthorized(h) ==
    /\ Asking(h, "unauthorized")
    /\ req' = [req EXCEPT ![h].pc = "marking", ![h].answer = "unauthorized"]
    /\ UNCHANGED <<row, cursor, toggle>>

\* 429 with an exhausted quota bucket: the row read here is the one whose
\* fail_count the UPDATE will write back plus one.
QuotaLimited(h) ==
    LET k == req[h].cur
    IN  /\ Asking(h, "rateLimited")
        /\ Present(k)
        /\ \E d \in QuotaReset :
              req' = [req EXCEPT ![h].pc = "writing",
                                 ![h].answer = "rateLimited",
                                 ![h].seen = row[k].fails, ![h].reset = d]
        /\ UNCHANGED <<row, cursor, toggle>>

\* 429 without one: fall through to MarkFailure, which reads the row again.
\* A key deleted meanwhile is not marked at all.
RateLimited(h) ==
    /\ Asking(h, "rateLimited")
    /\ IF Present(req[h].cur)
       THEN req' = [req EXCEPT ![h].pc = "marking", ![h].answer = "rateLimited"]
       ELSE NextKey(h)
    /\ UNCHANGED <<row, cursor, toggle>>

\* MarkFailure, its SELECT.
ReadFails(h) ==
    LET k == req[h].cur
    IN  /\ req[h].pc = "marking"
        /\ IF Present(k)
           THEN req' = [req EXCEPT ![h].pc = "writing", ![h].seen = row[k].fails]
           ELSE NextKey(h)
        /\ UNCHANGED <<row, cursor, toggle>>

\* The rows MarkFailure may write: the count read earlier plus one, and a
\* cooldown once that count has reached the threshold.
Failed(r, n) ==
    {[r EXCEPT !.fails = n, !.cooling = d] :
        d \in IF n >= Threshold THEN Backoff(n) ELSE {r.cooling}}

\* The row the quota branch writes.
QuotaFailed(r, n, d) == [r EXCEPT !.fails = n, !.cooling = d]

\* MarkFailure or the quota branch, the UPDATE; then the next key.
WriteFails(h) ==
    LET k == req[h].cur
        n == OneMore(req[h].seen)
    IN  /\ req[h].pc = "writing"
        /\ \E new \in IF req[h].reset > 0
                       THEN {QuotaFailed(row[k], n, req[h].reset)}
                       ELSE Failed(row[k], n) :
              Update(k, new)
        /\ NextKey(h)
        /\ UNCHANGED <<cursor, toggle>>

----------------------------------------------------------------------------
(* Admin handlers *)

CreateKey(k) ==
    /\ "create" \in AdminOps
    /\ row[k].state = "unborn"
    /\ \A j \in Key : j < k => row[j].state # "unborn"
    /\ \E w \in Weights : row' = [row EXCEPT ![k] = Created(Effective(w))]
    /\ UNCHANGED <<cursor, req, toggle>>

\* updateKey: one UPDATE of the fields the body carries.
UpdateKey(k) ==
    /\ "edit" \in AdminOps
    /\ Present(k)
    /\ \E w \in {row[k].weight} \cup {Effective(v) : v \in Weights},
          on \in BOOLEAN :
             row' = [row EXCEPT ![k].weight = w, ![k].enabled = on]
    /\ UNCHANGED <<cursor, req, toggle>>

ResetCooldown(k) ==
    /\ "reset" \in AdminOps
    /\ Update(k, Cleared(row[k]))
    /\ UNCHANGED <<cursor, req, toggle>>

DeleteKey(k) ==
    /\ "delete" \in AdminOps
    /\ Present(k)
    /\ row' = [row EXCEPT ![k] = Gone]
    /\ UNCHANGED <<cursor, req, toggle>>

NoToggle == [step |-> "none", key |-> 0, enabled |-> FALSE]

\* toggleKey: SELECT, UPDATE of enabled, and for a disabled key a second
\* UPDATE that clears its failure state.
ToggleRead(a, k) ==
    /\ "toggle" \in AdminOps
    /\ toggle[a].step = "none"
    /\ Present(k)
    /\ toggle' = [toggle EXCEPT ![a] =
          [step |-> "write", key |-> k, enabled |-> ~row[k].enabled]]
    /\ UNCHANGED <<row, cursor, req>>

ToggleWrite(a) ==
    LET t == toggle[a]
    IN  /\ t.step = "write"
        /\ Update(t.key, [row[t.key] EXCEPT !.enabled = t.enabled])
        /\ toggle' = [toggle EXCEPT ![a] =
              IF t.enabled THEN NoToggle ELSE [t EXCEPT !.step = "clear"]]
        /\ UNCHANGED <<cursor, req>>

ToggleClear(a) ==
    LET t == toggle[a]
    IN  /\ t.step = "clear"
        /\ Update(t.key, Cleared(row[t.key]))
        /\ toggle' = [toggle EXCEPT ![a] = NoToggle]
        /\ UNCHANGED <<cursor, req>>

----------------------------------------------------------------------------
(* The clock and the process *)

Tick ==
    /\ \E k \in Key : row[k].cooling > 0
    /\ row' = [k \in Key |-> [row[k] EXCEPT
                 !.cooling = IF @ > 0 THEN @ - 1 ELSE 0]]
    /\ UNCHANGED <<cursor, req, toggle>>

\* The process stops anywhere and starts again: the rows are on disk, the
\* cursors start from zero and running requests are lost.
Restart ==
    /\ cursor' = [g \in Group |-> 0]
    /\ req' = [h \in Handler |-> Idle]
    /\ toggle' = [a \in Admin |-> NoToggle]
    /\ UNCHANGED row

Init ==
    /\ row \in [Key -> {Unborn} \cup {Created(Effective(w)) : w \in Weights}]
    /\ \A j, k \in Key : j < k /\ row[j] = Unborn => row[k] = Unborn
    /\ cursor = [g \in Group |-> 0]
    /\ req = [h \in Handler |-> Idle]
    /\ toggle = [a \in Admin |-> NoToggle]

Attempt(h) ==
    \/ Success(h) \/ Final(h) \/ Deadline(h)
    \/ ServerError(h) \/ StreamBroken(h)
    \/ Unauthorized(h) \/ QuotaLimited(h) \/ RateLimited(h)
    \/ ReadFails(h) \/ WriteFails(h)

Serve(h) == (\E g \in Group : Load(h, g)) \/ Advance(h) \/ Attempt(h)

Administer ==
    \/ \E k \in Key : \/ CreateKey(k) \/ UpdateKey(k)
                      \/ ResetCooldown(k) \/ DeleteKey(k)
    \/ \E a \in Admin : \/ \E k \in Key : ToggleRead(a, k)
                        \/ ToggleWrite(a) \/ ToggleClear(a)

Next ==
    \/ \E h \in Handler : Serve(h)
    \/ Administer
    \/ Tick
    \/ Restart

Spec == Init /\ [][Next]_vars

\* Time passes: the only fairness the cooldowns need.
FairSpec == Spec /\ WF_vars(Tick)

----------------------------------------------------------------------------
(* Properties *)

Cooling == {d \in Nat : d <= MaxCool \/ \E q \in QuotaReset : d <= q}

Candidates == UNION {[C -> StoredWeight] : C \in SUBSET Key}

Request ==
    [pc : {"idle", "loaded", "asking", "marking", "writing", "exhausted"},
     cand : Candidates,
     first : Nat, cur : Nat, tried : SUBSET Key,
     answer : {"none", "unauthorized", "rateLimited"},
     seen : 0 .. FailCap, reset : QuotaReset \cup {0}]

\* The shape of every variable.  It bounds the stored cooldown: no failure
\* sets one longer than maxDuration, or than a quota reset the upstream named
\* (pool/key.go, MarkFailure and MarkFailureWithQuota).
TypeOK ==
    /\ row \in [Key -> [state : {"unborn", "present", "gone"},
                        enabled : BOOLEAN, weight : StoredWeight,
                        fails : 0 .. FailCap, cooling : Cooling]]
    /\ cursor \in [Group -> 0 .. CursorPeriod - 1]
    /\ req \in [Handler -> Request]
    /\ toggle \in [Admin -> [step : {"none", "write", "clear"},
                             key : Key \cup {0}, enabled : BOOLEAN]]

\* One request offers each candidate once: the key being tried was not tried
\* before by this request, and the request is given up only after all the
\* candidates were tried (PickAttempts' rotation and the retry loops over it).
OnceEach ==
    \A h \in Handler :
        /\ req[h].pc \in {"asking", "marking", "writing"} =>
              req[h].cur \in DOMAIN req[h].cand \ req[h].tried
        /\ req[h].pc = "exhausted" => req[h].tried = DOMAIN req[h].cand

\* A cooldown starts or grows only because a request with that key got a 401
\* or a 429: a 5xx, a refused connection, a bad body or a deadline never takes
\* a key out of rotation (MarkFailureWithQuota, isCooldownStatus).
CooldownCause ==
    [][\A k \in Key : row'[k].cooling > row[k].cooling =>
          \E h \in Handler : /\ req[h].cur = k
                             /\ req[h].answer \in {"unauthorized", "rateLimited"}]_vars

\* A key that cools down becomes eligible again, or is disabled or deleted,
\* whatever the requests and the admin do: a request can only extend the
\* cooldown of a key it loaded while the key was eligible (PickAttempts'
\* cooldown filter).
Recovers ==
    \A k \in Key :
        row[k].cooling > 0 ~> row[k].cooling = 0

\* Every failure that MarkFailure records raises fail_count by one ("MarkFailure
\* increments the fail counter", pool/key.go).
FailureCounted ==
    [][\A h \in Handler :
          LET k == req[h].cur
          IN  WriteFails(h) /\ req[h].reset = 0 /\ Present(k) =>
                  row'[k].fails = OneMore(row[k].fails)]_vars

\* "fail >= threshold -> baseDuration; each subsequent fail doubles the
\* cooldown, capped at maxDuration" (pool/key.go, NewPicker): a failure that
\* MarkFailure records at or above the threshold leaves the key cooling.
FailureCools ==
    [][\A h \in Handler :
          LET k == req[h].cur
          IN  WriteFails(h) /\ Present(k) /\ OneMore(req[h].seen) >= Threshold =>
                  row'[k].cooling > 0]_vars
=============================================================================
