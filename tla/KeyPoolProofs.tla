--------------------------- MODULE KeyPoolProofs ---------------------------
(***************************************************************************)
(* Proofs about KeyPool and KeyPoolShare for every set of keys, groups,    *)
(* handlers and admins and every choice of thresholds, durations and       *)
(* weights.                                                                *)
(***************************************************************************)
EXTENDS KeyPoolShare, TLAPS, WellFoundedInduction, FiniteSetTheorems

USE DEF AllAnswers, AllAdminOps

----------------------------------------------------------------------------
(* Least elements of finite sets of ids                                    *)

UpTo(S, x) == {j \in S : j <= x}

LEMMA UpToSmaller ==
    ASSUME NEW S, S \subseteq Nat, NEW x \in S, NEW y \in S, y < x
    PROVE  <<UpTo(S, y), UpTo(S, x)>> \in StrictSubsetOrdering(S)
<1>1. UpTo(S, y) \in SUBSET S /\ UpTo(S, x) \in SUBSET S
  BY DEF UpTo
<1>2. x \in Nat /\ y \in Nat
  OBVIOUS
<1>3. ASSUME NEW j \in UpTo(S, y) PROVE j \in UpTo(S, x)
  BY <1>2 DEF UpTo
<1>4. x \in UpTo(S, x) /\ x \notin UpTo(S, y)
  BY <1>2 DEF UpTo
<1>. QED
  BY <1>1, <1>3, <1>4 DEF StrictSubsetOrdering

\* A finite set of ids that is not empty has a least element: the sets of the
\* ids up to each of them are well-founded under inclusion.
LEMMA LeastExists ==
    ASSUME NEW S, S \subseteq Nat, IsFiniteSet(S), S # {}
    PROVE  \E x \in S : \A y \in S : x <= y
<1> DEFINE T == {UpTo(S, x) : x \in S}
<1>1. ASSUME NEW x \in S PROVE UpTo(S, x) \in FiniteSubsetsOf(S)
  <2>1. UpTo(S, x) \subseteq S
    BY DEF UpTo
  <2>2. IsFiniteSet(UpTo(S, x))
    BY <2>1, FS_Subset
  <2>. QED
    BY <2>1, <2>2 DEF FiniteSubsetsOf
<1>2. T \subseteq FiniteSubsetsOf(S) /\ T # {}
  BY <1>1
<1>3. PICK B \in T : \A C \in T : ~ (<<C, B>> \in StrictSubsetOrdering(S))
  BY <1>2, FS_StrictSubsetOrderingWellFounded, WFMin, Zenon
<1>4. PICK x \in S : B = UpTo(S, x)
  BY <1>3
<1>5. ASSUME NEW y \in S PROVE ~ (y < x)
  BY <1>3, <1>4, UpToSmaller
<1>6. ASSUME NEW y \in S PROVE x <= y
  <2>1. x \in Nat /\ y \in Nat
    OBVIOUS
  <2>. QED
    BY <1>5, <2>1
<1>. QED
  BY <1>6

\* What Min returns, for the sets of ids the picker applies it to.
LEMMA MinIsLeast ==
    ASSUME NEW S, S \subseteq Nat, IsFiniteSet(S), S # {}
    PROVE  Min(S) \in S /\ \A y \in S : Min(S) <= y
  BY LeastExists DEF Min

----------------------------------------------------------------------------
(* The attempt order                                                       *)

\* The candidates from f on, in cyclic order, that come before c.
Passed(C, f, c) ==
    IF f <= c THEN {j \in C : f <= j /\ j < c}
              ELSE {j \in C : f <= j \/ j < c}

\* The next candidate is a candidate with none between it and k, or, after
\* the last one, the first of all.
LEMMA AfterIsNext ==
    ASSUME NEW C, C \subseteq Nat, IsFiniteSet(C), NEW k \in C
    PROVE  /\ After(C, k) \in C
           /\ \/ /\ After(C, k) > k
                 /\ \A j \in C : j > k => After(C, k) <= j
              \/ \A j \in C : j <= k /\ After(C, k) <= j
<1> DEFINE higher == {j \in C : j > k}
<1>1. CASE higher = {}
  <2>1. After(C, k) = Min(C)
    BY <1>1 DEF After
  <2>2. \A j \in C : j <= k
    BY <1>1
  <2>. QED
    BY <2>1, <2>2, MinIsLeast
<1>2. CASE higher # {}
  <2>1. After(C, k) = Min(higher)
    BY <1>2 DEF After
  <2>2. higher \subseteq C /\ IsFiniteSet(higher)
    BY FS_Subset
  <2>3. Min(higher) \in higher /\ \A y \in higher : Min(higher) <= y
    BY <1>2, <2>2, MinIsLeast
  <2>. QED
    BY <2>1, <2>3
<1>. QED
  BY <1>1, <1>2

\* Moving on from c adds exactly c to what was passed; arriving back at the
\* first candidate means that every candidate was passed.
LEMMA PassedStep ==
    ASSUME NEW C, C \subseteq Nat, IsFiniteSet(C), NEW f \in C, NEW c \in C
    PROVE  IF After(C, c) = f
           THEN Passed(C, f, c) \cup {c} = C
           ELSE Passed(C, f, c) \cup {c} = Passed(C, f, After(C, c))
<1> DEFINE k == After(C, c)
<1>1. /\ k \in C
      /\ \/ k > c /\ \A j \in C : j > c => k <= j
         \/ \A j \in C : j <= c /\ k <= j
  BY AfterIsNext
<1> HIDE DEF k
<1>2. f \in Nat /\ c \in Nat /\ k \in Nat /\ \A j \in C : j \in Nat
  BY <1>1
<1>3. ASSUME k = f, NEW j \in C PROVE j \in Passed(C, f, c) \cup {c}
  BY <1>1, <1>2, <1>3 DEF Passed
<1>4. ASSUME k # f, NEW j \in C
      PROVE  j \in Passed(C, f, c) \cup {c} <=> j \in Passed(C, f, k)
  BY <1>1, <1>2, <1>4 DEF Passed
<1>5. \A x, y \in C : Passed(C, x, y) \subseteq C
  BY DEF Passed
<1>. QED
  BY <1>1, <1>3, <1>4, <1>5 DEF k

\* The attempt list starts with a candidate, whatever the cursor says.
LEMMA ChosenIsCandidate ==
    ASSUME NEW cand, NEW pos, DOMAIN cand \subseteq Nat,
           IsFiniteSet(DOMAIN cand), DOMAIN cand # {}
    PROVE  Chosen(cand, pos) \in DOMAIN cand
<1> DEFINE above == {k \in DOMAIN cand : pos < Accumulated(cand, k)}
<1>1. CASE above = {}
  BY <1>1, MinIsLeast DEF Chosen
<1>2. CASE above # {}
  <2>1. above \subseteq DOMAIN cand /\ IsFiniteSet(above)
    BY FS_Subset
  <2>2. Min(above) \in above
    BY <1>2, <2>1, MinIsLeast
  <2>. QED
    BY <1>2, <2>1, <2>2 DEF Chosen
<1>. QED
  BY <1>1, <1>2
----------------------------------------------------------------------------
(* The inductive invariant                                                 *)

Trying == {"asking", "marking", "writing"}

\* While a request runs, what it has tried is what lies between the candidate
\* it started with and the current one; that it is giving up means it has
\* tried everything; and a key that is about to be marked answered 401 or 429.
Sound(q) ==
    /\ q.pc = "loaded" => DOMAIN q.cand # {} /\ q.tried = {}
    /\ q.pc \in Trying =>
          /\ q.first \in DOMAIN q.cand /\ q.cur \in DOMAIN q.cand
          /\ q.tried = Passed(DOMAIN q.cand, q.first, q.cur)
    /\ q.pc = "exhausted" => q.tried = DOMAIN q.cand
    /\ q.pc \in {"marking", "writing"} =>
          q.answer \in {"unauthorized", "rateLimited"}

IInv == TypeOK /\ \A h \in Handler : Sound(req[h])

Row == [state : {"unborn", "present", "gone"}, enabled : BOOLEAN,
        weight : StoredWeight, fails : 0 .. FailCap, cooling : Cooling]

----------------------------------------------------------------------------
(* Types of the operators                                                  *)

LEMMA CoolingType ==
    /\ 0 \in Cooling /\ QuotaReset \subseteq Cooling
    /\ \A n \in Nat : Backoff(n) \subseteq Cooling
    /\ \A d \in Cooling : d \in Nat /\ (d > 0 => d - 1 \in Cooling)
<1>1. 0 \in Cooling /\ QuotaReset \subseteq Cooling
  BY PoolAssumption DEF Cooling
<1>2. ASSUME NEW n \in Nat PROVE Backoff(n) \subseteq Cooling
  <2>1. Backoff(n) \subseteq 0 .. MaxCool
    BY PoolAssumption DEF Backoff
  <2>. QED
    BY <2>1, PoolAssumption DEF Cooling
<1>3. ASSUME NEW d \in Cooling, d > 0 PROVE d - 1 \in Cooling
  <2>1. d \in Nat /\ (d <= MaxCool \/ \E q \in QuotaReset : d <= q)
    BY DEF Cooling
  <2>2. CASE d <= MaxCool
    BY <1>3, <2>1, <2>2, PoolAssumption DEF Cooling
  <2>3. CASE \E q \in QuotaReset : d <= q
    <3>1. PICK q \in QuotaReset : d <= q
      BY <2>3
    <3>2. q \in Nat /\ d - 1 \in Nat /\ d - 1 <= q
      BY <1>3, <2>1, <3>1, PoolAssumption
    <3>. QED
      BY <3>2 DEF Cooling
  <2>. QED
    BY <2>1, <2>2, <2>3
<1>. QED
  BY <1>1, <1>2, <1>3 DEF Cooling

LEMMA RowType ==
    /\ Unborn \in Row /\ Gone \in Row
    /\ \A w \in Weights : Created(Effective(w)) \in Row
    /\ \A w \in Weights : Effective(w) \in StoredWeight
    /\ \A r \in Row : Cleared(r) \in Row
<1>1. \A w \in Weights : Effective(w) \in StoredWeight
  BY DEF StoredWeight
<1>2. 1 \in StoredWeight /\ 0 \in 0 .. FailCap /\ 0 \in Cooling
  BY PoolAssumption, CoolingType DEF StoredWeight
<1>. QED
  BY <1>1, <1>2 DEF Row, Unborn, Gone, Created, Cleared

LEMMA OneMoreType ==
    ASSUME NEW n \in 0 .. FailCap
    PROVE  OneMore(n) \in 0 .. FailCap /\ OneMore(n) \in Nat
  BY PoolAssumption DEF OneMore

LEMMA FailedType ==
    ASSUME NEW r \in Row, NEW n \in 0 .. FailCap, NEW d \in Cooling
    PROVE  Failed(r, n) \subseteq Row /\ QuotaFailed(r, n, d) \in Row
<1>1. n \in Nat /\ Backoff(n) \subseteq Cooling
  BY CoolingType, PoolAssumption
<1>. QED
  BY <1>1 DEF Failed, QuotaFailed, Row

LEMMA UpdateType ==
    ASSUME row \in [Key -> Row], NEW k, NEW new, k \in Key => new \in Row,
           Update(k, new)
    PROVE  row' \in [Key -> Row]
  BY DEF Update

LEMMA CandidatesType ==
    /\ NoKey \in Candidates /\ DOMAIN NoKey = {}
    /\ \A c \in Candidates : /\ DOMAIN c \subseteq Key /\ DOMAIN c \subseteq Nat
                             /\ IsFiniteSet(DOMAIN c)
<1>1. NoKey \in [{} -> StoredWeight] /\ DOMAIN NoKey = {}
  BY DEF NoKey
<1>2. ASSUME NEW c \in Candidates PROVE DOMAIN c \subseteq Key
  BY DEF Candidates
<1>3. ASSUME NEW c \in Candidates PROVE IsFiniteSet(DOMAIN c)
  BY <1>2, PoolAssumption, FS_Subset
<1>. QED
  BY <1>1, <1>2, <1>3, PoolAssumption DEF Candidates

LEMMA IdleSound == Idle \in Request /\ Sound(Idle)
<1>1. Idle \in Request
  BY CandidatesType, PoolAssumption DEF Idle, Request
<1>. QED
  BY <1>1 DEF Sound, Idle, Trying

\* Moving on keeps the account of what was tried.
LEMMA MovedSound ==
    ASSUME NEW q \in Request, Sound(q), q.pc \in Trying
    PROVE  Moved(q) \in Request /\ Sound(Moved(q))
<1> DEFINE C == DOMAIN q.cand
<1> DEFINE k == After(C, q.cur)
<1>1. /\ C \subseteq Key /\ C \subseteq Nat /\ IsFiniteSet(C)
      /\ q.first \in C /\ q.cur \in C
      /\ q.tried = Passed(C, q.first, q.cur)
  BY CandidatesType DEF Request, Sound
<1>2. k \in C
  BY <1>1, AfterIsNext
<1>3. CASE k = q.first
  <2>1. q.tried \cup {q.cur} = C
    BY <1>1, <1>3, PassedStep
  <2>2. Moved(q) = [Idle EXCEPT !.pc = "exhausted", !.cand = q.cand,
                                !.tried = C]
    BY <1>3, <2>1 DEF Moved
  <2>3. Moved(q) \in Request
    BY <1>1, <2>2, IdleSound DEF Request, Idle
  <2>. QED
    BY <2>2, <2>3 DEF Sound, Trying, Idle
<1>4. CASE k # q.first
  <2>1. q.tried \cup {q.cur} = Passed(C, q.first, k)
    BY <1>1, <1>4, PassedStep
  <2>2. Moved(q) = [q EXCEPT !.pc = "asking", !.cur = k,
                             !.tried = q.tried \cup {q.cur},
                             !.answer = "none", !.seen = 0, !.reset = 0]
    BY <1>4 DEF Moved
  <2> HIDE DEF k
  <2>3. k \in Nat /\ q.tried \cup {q.cur} \subseteq Key /\ 0 \in 0 .. FailCap
    BY <1>1, <1>2, PoolAssumption DEF Request
  <2>4. Moved(q) \in Request
    BY <2>2, <2>3 DEF Request
  <2>5. /\ Moved(q).pc = "asking" /\ Moved(q).cand = q.cand
        /\ Moved(q).first = q.first /\ Moved(q).cur = k
        /\ Moved(q).tried = Passed(C, q.first, k)
    BY <2>1, <2>2 DEF Request
  <2>. QED
    BY <1>1, <1>2, <2>4, <2>5 DEF Sound, Trying
<1>. QED
  BY <1>3, <1>4
----------------------------------------------------------------------------
(* Each action keeps the invariant                                         *)

Toggle == [step : {"none", "write", "clear"}, key : Key \cup {0},
           enabled : BOOLEAN]

LEMMA Parts ==
    IInv <=> /\ row \in [Key -> Row]
             /\ cursor \in [Group -> 0 .. CursorPeriod - 1]
             /\ req \in [Handler -> Request]
             /\ \A h \in Handler : Sound(req[h])
             /\ toggle \in [Admin -> Toggle]
  BY DEF IInv, TypeOK, Row, Toggle

LEMMA PartsNext ==
    IInv' <=> /\ row' \in [Key -> Row]
              /\ cursor' \in [Group -> 0 .. CursorPeriod - 1]
              /\ req' \in [Handler -> Request]
              /\ \A h \in Handler : Sound(req'[h])
              /\ toggle' \in [Admin -> Toggle]
  BY DEF IInv, TypeOK, Row, Toggle, Request, Cooling, Candidates, StoredWeight,
         Sound

LEMMA SetRequest ==
    ASSUME IInv, NEW h \in Handler, NEW q, q \in Request, Sound(q),
           req' = [req EXCEPT ![h] = q]
    PROVE  req' \in [Handler -> Request] /\ \A i \in Handler : Sound(req'[i])
  BY Parts

\* While a request tries a key, the key is one of the table's.
LEMMA CurIsKey ==
    ASSUME IInv, NEW h \in Handler, req[h].pc \in Trying
    PROVE  /\ req[h] \in Request /\ Sound(req[h])
           /\ req[h].cur \in Key /\ row[req[h].cur] \in Row
           /\ Moved(req[h]) \in Request /\ Sound(Moved(req[h]))
<1>1. req[h] \in Request /\ Sound(req[h]) /\ row \in [Key -> Row]
  BY Parts
<1>2. req[h].cur \in DOMAIN req[h].cand /\ req[h].cand \in Candidates
  BY <1>1 DEF Sound, Request
<1>3. req[h].cur \in Key
  BY <1>2, CandidatesType
<1>. QED
  BY <1>1, <1>3, MovedSound

LEMMA InitInv == Init => IInv
<1> SUFFICES ASSUME Init PROVE IInv
  OBVIOUS
<1>1. row \in [Key -> Row]
  BY RowType DEF Init
<1>2. cursor \in [Group -> 0 .. CursorPeriod - 1]
  BY PoolAssumption DEF Init
<1>3. req \in [Handler -> Request] /\ \A h \in Handler : Sound(req[h])
  BY IdleSound DEF Init
<1>4. toggle \in [Admin -> Toggle]
  BY DEF Init, NoToggle, Toggle
<1>. QED
  BY <1>1, <1>2, <1>3, <1>4, Parts

LEMMA LoadInv ==
    ASSUME IInv, NEW h \in Handler, NEW g \in Group, Load(h, g) PROVE IInv'
<1> DEFINE c == [k \in Usable(g) |-> Effective(row[k].weight)]
<1> DEFINE q == [Idle EXCEPT !.pc = "loaded", !.cand = c]
<1>1. Usable(g) \in SUBSET Key /\ row \in [Key -> Row]
  BY Parts DEF Usable
<1>2. ASSUME NEW w \in StoredWeight PROVE Effective(w) \in StoredWeight
  BY PoolAssumption DEF StoredWeight, Effective
<1>3. c \in [Usable(g) -> StoredWeight]
  BY <1>1, <1>2 DEF Row
<1>4. c \in Candidates /\ DOMAIN c # {}
  BY <1>1, <1>3 DEF Candidates, Load
<1>5. req' = [req EXCEPT ![h] = q]
  BY DEF Load
<1> HIDE DEF c
<1>6. q \in Request /\ q.pc = "loaded" /\ q.cand = c /\ q.tried = {}
  BY <1>4, IdleSound DEF Request, Idle
<1>7. Sound(q)
  BY <1>4, <1>6 DEF Sound, Trying
<1> HIDE DEF q
<1>8. req' \in [Handler -> Request] /\ \A i \in Handler : Sound(req'[i])
  BY <1>5, <1>6, <1>7, SetRequest
<1>. QED
  BY <1>8, Parts, PartsNext DEF Load

LEMMA AdvanceInv ==
    ASSUME IInv, NEW h \in Handler, Advance(h) PROVE IInv'
<1> DEFINE c == req[h].cand
<1> DEFINE g == CandGroup(c)
<1> DEFINE k == Chosen(c, cursor[g] % TotalWeight(c))
<1> DEFINE q == [req[h] EXCEPT !.pc = "asking", !.first = k, !.cur = k]
<1>1. req[h] \in Request /\ Sound(req[h]) /\ req[h].pc = "loaded"
  BY Parts DEF Advance
<1>2. c \in Candidates /\ DOMAIN c # {}
  BY <1>1 DEF Request, Sound
<1>3. DOMAIN c \subseteq Key /\ DOMAIN c \subseteq Nat /\ IsFiniteSet(DOMAIN c)
  BY <1>2, CandidatesType
<1>4. k \in DOMAIN c
  BY <1>2, <1>3, ChosenIsCandidate
<1>5. req' = [req EXCEPT ![h] = q] /\ cursor' = [cursor EXCEPT ![g] = (@ + 1) % CursorPeriod]
  BY DEF Advance
<1> HIDE DEF k
<1>6. cursor' \in [Group -> 0 .. CursorPeriod - 1]
  <2>1. cursor \in [Group -> 0 .. CursorPeriod - 1] /\ CursorPeriod \in Nat \ {0}
    BY Parts, PoolAssumption
  <2>2. \A n \in 0 .. CursorPeriod - 1 :
           (n + 1) % CursorPeriod \in 0 .. CursorPeriod - 1
    BY <2>1
  <2> HIDE DEF g
  <2>. QED
    BY <1>5, <2>1, <2>2
<1>7. q \in Request /\ Sound(q)
  <2>1. k \in Nat
    BY <1>3, <1>4
  <2>2. q \in Request
    BY <1>1, <2>1 DEF Request
  <2>3. q.pc = "asking" /\ q.cand = c /\ q.first = k /\ q.cur = k
    BY <1>1 DEF Request
  <2>4. q.tried = {} /\ Passed(DOMAIN c, k, k) = {}
    BY <1>1, <1>3, <2>1 DEF Request, Sound, Passed
  <2>. QED
    BY <1>4, <2>2, <2>3, <2>4 DEF Sound, Trying
<1> HIDE DEF q
<1>8. req' \in [Handler -> Request] /\ \A i \in Handler : Sound(req'[i])
  BY <1>5, <1>7, SetRequest
<1>. QED
  BY <1>6, <1>8, Parts, PartsNext DEF Advance

\* The actions that end or continue one request's attempt: they set its
\* request to q and may write one row.
LEMMA AttemptInv ==
    ASSUME IInv, NEW h \in Handler, NEW q, q \in Request, Sound(q),
           req' = [req EXCEPT ![h] = q], row' \in [Key -> Row],
           UNCHANGED <<cursor, toggle>>
    PROVE  IInv'
  BY SetRequest, Parts, PartsNext

LEMMA SuccessInv ==
    ASSUME IInv, NEW h \in Handler, Success(h) PROVE IInv'
<1>1. req[h].cur \in Key /\ row[req[h].cur] \in Row
  BY CurIsKey DEF Success, Asking, Trying
<1>2. row' \in [Key -> Row]
  BY <1>1, RowType, UpdateType, Parts DEF Success
<1>. QED
  BY <1>2, IdleSound, AttemptInv DEF Success

LEMMA FinalInv ==
    ASSUME IInv, NEW h \in Handler, Final(h) PROVE IInv'
  BY IdleSound, AttemptInv, Parts DEF Final

LEMMA DeadlineInv ==
    ASSUME IInv, NEW h \in Handler, Deadline(h) PROVE IInv'
<1>1. Moved(req[h]) \in Request /\ Sound(Moved(req[h]))
  BY CurIsKey DEF Deadline, Asking, Trying
<1>. QED
  BY <1>1, AttemptInv, Parts DEF Deadline, NextKey

LEMMA ServerErrorInv ==
    ASSUME IInv, NEW h \in Handler, ServerError(h) PROVE IInv'
<1> DEFINE k == req[h].cur
<1> DEFINE new == [row[k] EXCEPT !.fails = OneMore(@)]
<1>1. /\ k \in Key /\ row[k] \in Row
      /\ Moved(req[h]) \in Request /\ Sound(Moved(req[h]))
  BY CurIsKey DEF ServerError, Asking, Trying
<1>2. new \in Row
  BY <1>1, OneMoreType DEF Row
<1>3. row' \in [Key -> Row]
  BY <1>2, UpdateType, Parts DEF ServerError
<1>. QED
  BY <1>1, <1>3, AttemptInv DEF ServerError, NextKey

LEMMA StreamBrokenInv ==
    ASSUME IInv, NEW h \in Handler, StreamBroken(h) PROVE IInv'
<1> DEFINE k == req[h].cur
<1> DEFINE new == [row[k] EXCEPT !.fails = OneMore(@)]
<1>1. k \in Key /\ row[k] \in Row
  BY CurIsKey DEF StreamBroken, Asking, Trying
<1>2. new \in Row
  BY <1>1, OneMoreType DEF Row
<1>3. row' \in [Key -> Row]
  BY <1>2, UpdateType, Parts DEF StreamBroken
<1>. QED
  BY <1>3, IdleSound, AttemptInv DEF StreamBroken

\* An attempt that goes on to mark its key keeps what it has tried.
LEMMA MarkSound ==
    ASSUME NEW q \in Request, Sound(q), q.pc \in Trying,
           NEW pc \in {"marking", "writing"},
           NEW a \in {"unauthorized", "rateLimited"},
           NEW n \in 0 .. FailCap, NEW d \in QuotaReset \cup {0},
           NEW p, p = [q EXCEPT !.pc = pc, !.answer = a, !.seen = n, !.reset = d]
    PROVE  p \in Request /\ Sound(p)
<1>1. p \in Request
  BY DEF Request
<1>2. /\ p.pc = pc /\ p.answer = a /\ p.cand = q.cand
      /\ p.first = q.first /\ p.cur = q.cur /\ p.tried = q.tried
  BY DEF Request
<1>. QED
  BY <1>1, <1>2 DEF Sound, Trying

LEMMA UnauthorizedInv ==
    ASSUME IInv, NEW h \in Handler, Unauthorized(h) PROVE IInv'
<1> DEFINE q == [req[h] EXCEPT !.pc = "marking", !.answer = "unauthorized"]
<1>1. req[h] \in Request /\ Sound(req[h]) /\ req[h].pc \in Trying
  BY CurIsKey DEF Unauthorized, Asking, Trying
<1>2. q = [req[h] EXCEPT !.pc = "marking", !.answer = "unauthorized",
                         !.seen = req[h].seen, !.reset = req[h].reset]
  BY <1>1 DEF Request
<1>3. req' = [req EXCEPT ![h] = q]
  BY DEF Unauthorized
<1>4. req[h].seen \in 0 .. FailCap /\ req[h].reset \in QuotaReset \cup {0}
  BY <1>1 DEF Request
<1> HIDE DEF q
<1>5. q \in Request /\ Sound(q)
  BY <1>1, <1>2, <1>4, MarkSound
<1>. QED
  BY <1>3, <1>5, AttemptInv, Parts DEF Unauthorized

LEMMA QuotaLimitedInv ==
    ASSUME IInv, NEW h \in Handler, QuotaLimited(h) PROVE IInv'
<1> DEFINE k == req[h].cur
<1>1. req[h] \in Request /\ Sound(req[h]) /\ req[h].pc \in Trying /\ row[k] \in Row
  BY CurIsKey DEF QuotaLimited, Asking, Trying
<1>2. PICK d \in QuotaReset :
         req' = [req EXCEPT ![h].pc = "writing", ![h].answer = "rateLimited",
                            ![h].seen = row[k].fails, ![h].reset = d]
  BY DEF QuotaLimited
<1> DEFINE q == [req[h] EXCEPT !.pc = "writing", !.answer = "rateLimited",
                               !.seen = row[k].fails, !.reset = d]
<1>3. req' = [req EXCEPT ![h] = q]
  BY <1>2
<1>4. row[k].fails \in 0 .. FailCap
  BY <1>1 DEF Row
<1>5. q \in Request /\ Sound(q)
  BY <1>1, <1>4, MarkSound
<1> HIDE DEF q
<1>. QED
  BY <1>3, <1>5, AttemptInv, Parts DEF QuotaLimited

LEMMA RateLimitedInv ==
    ASSUME IInv, NEW h \in Handler, RateLimited(h) PROVE IInv'
<1> DEFINE q == [req[h] EXCEPT !.pc = "marking", !.answer = "rateLimited"]
<1>1. /\ req[h] \in Request /\ Sound(req[h]) /\ req[h].pc \in Trying
      /\ Moved(req[h]) \in Request /\ Sound(Moved(req[h]))
  BY CurIsKey DEF RateLimited, Asking, Trying
<1>2. q = [req[h] EXCEPT !.pc = "marking", !.answer = "rateLimited",
                         !.seen = req[h].seen, !.reset = req[h].reset]
  BY <1>1 DEF Request
<1>3. \/ req' = [req EXCEPT ![h] = q]
      \/ req' = [req EXCEPT ![h] = Moved(req[h])]
  BY DEF RateLimited, NextKey
<1>4. req[h].seen \in 0 .. FailCap /\ req[h].reset \in QuotaReset \cup {0}
  BY <1>1 DEF Request
<1> HIDE DEF q
<1>5. q \in Request /\ Sound(q)
  BY <1>1, <1>2, <1>4, MarkSound
<1>. QED
  BY <1>1, <1>3, <1>5, AttemptInv, Parts DEF RateLimited

LEMMA ReadFailsInv ==
    ASSUME IInv, NEW h \in Handler, ReadFails(h) PROVE IInv'
<1> DEFINE k == req[h].cur
<1> DEFINE q == [req[h] EXCEPT !.pc = "writing", !.seen = row[k].fails]
<1>1. /\ req[h] \in Request /\ Sound(req[h]) /\ req[h].pc = "marking"
      /\ Moved(req[h]) \in Request /\ Sound(Moved(req[h])) /\ row[k] \in Row
  BY CurIsKey DEF ReadFails, Trying
<1>2. q = [req[h] EXCEPT !.pc = "writing", !.answer = req[h].answer,
                         !.seen = row[k].fails, !.reset = req[h].reset]
  BY <1>1 DEF Request
<1>3. \/ req' = [req EXCEPT ![h] = q]
      \/ req' = [req EXCEPT ![h] = Moved(req[h])]
  BY DEF ReadFails, NextKey
<1>4. /\ req[h].answer \in {"unauthorized", "rateLimited"}
      /\ row[k].fails \in 0 .. FailCap /\ req[h].reset \in QuotaReset \cup {0}
  BY <1>1 DEF Sound, Row, Request
<1> HIDE DEF q
<1>5. req[h].pc \in Trying
  BY <1>1 DEF Trying
<1>6. q \in Request /\ Sound(q)
  <2> HIDE DEF k
  <2>. QED
    BY <1>1, <1>2, <1>4, <1>5, MarkSound
<1>. QED
  BY <1>1, <1>3, <1>6, AttemptInv, Parts DEF ReadFails

\* The rows MarkFailure and the quota branch write.
LEMMA WriteFailsRow ==
    ASSUME IInv, NEW h \in Handler, WriteFails(h) PROVE row' \in [Key -> Row]
<1> DEFINE k == req[h].cur
<1> DEFINE n == OneMore(req[h].seen)
<1>1. req[h] \in Request /\ row[k] \in Row
  BY CurIsKey DEF WriteFails, Trying
<1>2. n \in 0 .. FailCap
  BY <1>1, OneMoreType DEF Request
<1>3. req[h].reset \in Cooling
  BY <1>1, CoolingType DEF Request
<1>4. Failed(row[k], n) \subseteq Row /\ QuotaFailed(row[k], n, req[h].reset) \in Row
  BY <1>1, <1>2, <1>3, FailedType
<1> DEFINE written == IF req[h].reset > 0
                      THEN {QuotaFailed(row[k], n, req[h].reset)}
                      ELSE Failed(row[k], n)
<1>5. PICK new \in written : Update(k, new)
  BY DEF WriteFails
<1>6. new \in Row
  BY <1>4
<1> HIDE DEF written
<1>. QED
  BY <1>5, <1>6, UpdateType, Parts

LEMMA WriteFailsInv ==
    ASSUME IInv, NEW h \in Handler, WriteFails(h) PROVE IInv'
<1>1. Moved(req[h]) \in Request /\ Sound(Moved(req[h]))
  BY CurIsKey DEF WriteFails, Trying
<1>. QED
  BY <1>1, WriteFailsRow, AttemptInv DEF WriteFails, NextKey

LEMMA AdministerInv ==
    ASSUME IInv, Administer PROVE IInv'
<1>1. /\ row \in [Key -> Row] /\ toggle \in [Admin -> Toggle]
      /\ UNCHANGED <<cursor, req>>
  BY Parts DEF Administer, CreateKey, UpdateKey, ResetCooldown, DeleteKey,
               ToggleRead, ToggleWrite, ToggleClear
<1> SUFFICES row' \in [Key -> Row] /\ toggle' \in [Admin -> Toggle]
  BY <1>1, Parts, PartsNext
<1>2. CASE \E k \in Key : CreateKey(k)
  BY <1>1, <1>2, RowType DEF CreateKey
<1>3. CASE \E k \in Key : UpdateKey(k)
  <2>1. PICK k \in Key : UpdateKey(k)
    BY <1>3
  <2>2. PICK w \in {row[k].weight} \cup {Effective(v) : v \in Weights},
             on \in BOOLEAN :
                row' = [row EXCEPT ![k].weight = w, ![k].enabled = on]
    BY <2>1 DEF UpdateKey
  <2>3. w \in StoredWeight
    BY <1>1, RowType DEF Row
  <2>4. row' \in [Key -> Row]
    BY <1>1, <2>2, <2>3 DEF Row
  <2>. QED
    BY <1>1, <2>1, <2>4 DEF UpdateKey
<1>4. CASE \E k \in Key : ResetCooldown(k)
  BY <1>1, <1>4, RowType, UpdateType DEF ResetCooldown
<1>5. CASE \E k \in Key : DeleteKey(k)
  BY <1>1, <1>5, RowType DEF DeleteKey
<1>6. CASE \E a \in Admin, k \in Key : ToggleRead(a, k)
  <2>1. PICK a \in Admin, k \in Key : ToggleRead(a, k)
    BY <1>6
  <2>2. row[k].enabled \in BOOLEAN
    BY <1>1 DEF Row
  <2>3. [step |-> "write", key |-> k, enabled |-> ~row[k].enabled] \in Toggle
    BY <2>2 DEF Toggle
  <2>. QED
    BY <1>1, <2>1, <2>3 DEF ToggleRead
<1>7. CASE \E a \in Admin : ToggleWrite(a)
  <2>1. PICK a \in Admin : ToggleWrite(a)
    BY <1>7
  <2> DEFINE t == toggle[a]
  <2>2. t \in Toggle /\ NoToggle \in Toggle
    BY <1>1 DEF Toggle, NoToggle
  <2>3. [t EXCEPT !.step = "clear"] \in Toggle
    BY <2>2 DEF Toggle
  <2>4. t.key \in Key => [row[t.key] EXCEPT !.enabled = t.enabled] \in Row
    BY <1>1, <2>2 DEF Toggle, Row
  <2>5. row' \in [Key -> Row]
    BY <1>1, <2>1, <2>4, UpdateType DEF ToggleWrite
  <2>6. toggle' \in [Admin -> Toggle]
    BY <1>1, <2>1, <2>2, <2>3 DEF ToggleWrite
  <2>. QED
    BY <2>5, <2>6
<1>8. CASE \E a \in Admin : ToggleClear(a)
  <2>1. PICK a \in Admin : ToggleClear(a)
    BY <1>8
  <2>2. row' \in [Key -> Row]
    BY <1>1, <2>1, RowType, UpdateType DEF ToggleClear
  <2>3. toggle' \in [Admin -> Toggle]
    BY <1>1, <2>1 DEF ToggleClear, Toggle, NoToggle
  <2>. QED
    BY <2>2, <2>3
<1>. QED
  BY <1>2, <1>3, <1>4, <1>5, <1>6, <1>7, <1>8 DEF Administer

LEMMA TickInv == ASSUME IInv, Tick PROVE IInv'
<1>1. row \in [Key -> Row] /\ \A k \in Key : row[k].cooling \in Cooling
  BY Parts DEF Row
<1>2. \A d \in Cooling : (IF d > 0 THEN d - 1 ELSE 0) \in Cooling
  BY CoolingType
<1>3. row' \in [Key -> Row]
  BY <1>1, <1>2 DEF Tick, Row
<1>. QED
  BY <1>3, Parts, PartsNext DEF Tick

LEMMA RestartInv == ASSUME IInv, Restart PROVE IInv'
<1>1. cursor' \in [Group -> 0 .. CursorPeriod - 1]
  BY PoolAssumption DEF Restart
<1>2. req' \in [Handler -> Request] /\ \A h \in Handler : Sound(req'[h])
  BY IdleSound DEF Restart
<1>3. toggle' \in [Admin -> Toggle]
  BY DEF Restart, NoToggle, Toggle
<1>. QED
  BY <1>1, <1>2, <1>3, Parts, PartsNext DEF Restart

LEMMA ServeInv == ASSUME IInv, NEW h \in Handler, Serve(h) PROVE IInv'
  BY LoadInv, AdvanceInv, SuccessInv, FinalInv, DeadlineInv, ServerErrorInv,
     StreamBrokenInv,
     UnauthorizedInv, QuotaLimitedInv, RateLimitedInv, ReadFailsInv,
     WriteFailsInv DEF Serve, Attempt

LEMMA NextInv == IInv /\ [Next]_vars => IInv'
<1> SUFFICES ASSUME IInv, [Next]_vars PROVE IInv'
  OBVIOUS
<1>1. CASE Next
  BY <1>1, ServeInv, AdministerInv, TickInv, RestartInv DEF Next
<1>2. CASE UNCHANGED vars
  BY <1>2, Parts, PartsNext DEF vars
<1>. QED
  BY <1>1, <1>2

----------------------------------------------------------------------------
(* The theorems                                                            *)

\* The inductive invariant holds in every behaviour of the pool.
THEOREM Invariance == Spec => []IInv
<1>. QED
  BY InitInv, NextInv, PTL DEF Spec

\* Every variable keeps its shape: in particular fail_count and the stored
\* cooldown stay within their bounds through all races of requests and admins.
THEOREM TypeCorrect == Spec => []TypeOK
<1>1. IInv => TypeOK
  BY DEF IInv
<1>. QED
  BY <1>1, Invariance, PTL

\* A request tries every candidate of its pick once: it never returns to a key
\* and never gives up early, for any number of keys, any weights and any
\* cursor (PickAttempts' rotation, the retry loops).
THEOREM EachOnce == Spec => []OnceEach
<1>1. IInv => OnceEach
  <2> SUFFICES ASSUME IInv, NEW h \in Handler
               PROVE  /\ req[h].pc \in Trying =>
                            req[h].cur \in DOMAIN req[h].cand \ req[h].tried
                      /\ req[h].pc = "exhausted" =>
                            req[h].tried = DOMAIN req[h].cand
    BY DEF OnceEach, Trying
  <2>1. Sound(req[h]) /\ req[h] \in Request
    BY Parts
  <2>2. ASSUME req[h].pc \in Trying
        PROVE  req[h].cur \in DOMAIN req[h].cand \ req[h].tried
    <3>1. req[h].cur \in Nat /\ req[h].first \in Nat
      BY <2>1 DEF Request
    <3>. QED
      BY <2>1, <2>2, <3>1 DEF Sound, Passed
  <2>3. req[h].pc = "exhausted" => req[h].tried = DOMAIN req[h].cand
    BY <2>1 DEF Sound
  <2>. QED
    BY <2>2, <2>3
<1>. QED
  BY <1>1, Invariance, PTL

\* Only a 401 or a 429 takes a key out of rotation, or keeps it out longer:
\* every other action leaves the cooldowns or shortens them.
LEMMA CauseStep ==
    ASSUME IInv, [Next]_vars, NEW k \in Key, row'[k].cooling > row[k].cooling
    PROVE  \E h \in Handler : /\ req[h].cur = k
                              /\ req[h].answer \in {"unauthorized", "rateLimited"}
<1>1. row \in [Key -> Row] /\ row[k] \in Row /\ row[k].cooling \in Nat
  BY Parts, CoolingType DEF Row
<1>2. ~ (row[k].cooling > row[k].cooling) /\ ~ (0 > row[k].cooling)
  BY <1>1
<1>3. ASSUME row' = row PROVE FALSE
  BY <1>2, <1>3
<1>4. ASSUME NEW j, j \in Key => Cleared(row[j]) \in Row, Update(j, Cleared(row[j]))
      PROVE  FALSE
  <2>1. row'[k].cooling = row[k].cooling \/ row'[k].cooling = 0
    BY <1>1, <1>4 DEF Update, Cleared, Row
  <2>. QED
    BY <1>2, <2>1
<1>5. ASSUME NEW h \in Handler, Serve(h)
      PROVE  req[h].cur = k /\ req[h].answer \in {"unauthorized", "rateLimited"}
  <2>1. CASE Success(h)
    <3>1. req[h].cur \in Key /\ Update(req[h].cur, Cleared(row[req[h].cur]))
      BY <2>1, CurIsKey DEF Success, Asking, Trying
    <3>. QED
      BY <1>1, <1>4, <3>1, RowType
  <2>2. CASE ServerError(h) \/ StreamBroken(h)
    <3>1. row'[k].cooling = row[k].cooling
      BY <1>1, <2>2 DEF ServerError, StreamBroken, Update, Row
    <3>. QED
      BY <1>2, <3>1
  <2>3. CASE WriteFails(h)
    <3>1. req[h].cur = k
      BY <1>1, <1>2, <2>3 DEF WriteFails, Update
    <3>2. Sound(req[h]) /\ req[h].pc = "writing"
      BY <2>3, Parts DEF WriteFails
    <3>. QED
      BY <3>1, <3>2 DEF Sound
  <2>4. CASE \/ \E g \in Group : Load(h, g)
             \/ Advance(h) \/ Final(h) \/ Deadline(h) \/ Unauthorized(h)
             \/ QuotaLimited(h) \/ RateLimited(h) \/ ReadFails(h)
    BY <1>3, <2>4 DEF Load, Advance, Final, Deadline, Unauthorized,
                      QuotaLimited, RateLimited, ReadFails
  <2>. QED
    BY <1>5, <2>1, <2>2, <2>3, <2>4 DEF Serve, Attempt
<1>6. ASSUME Administer PROVE FALSE
  <2>1. CASE \E j \in Key : CreateKey(j)
    <3>1. row'[k].cooling = row[k].cooling \/ row'[k].cooling = 0
      BY <1>1, <2>1 DEF CreateKey, Created, Unborn
    <3>. QED
      BY <1>2, <3>1
  <2>2. CASE \E j \in Key : UpdateKey(j)
    <3>1. row'[k].cooling = row[k].cooling
      BY <1>1, <2>2 DEF UpdateKey, Row
    <3>. QED
      BY <1>2, <3>1
  <2>3. CASE \E j \in Key : ResetCooldown(j)
    BY <1>1, <1>4, <2>3, RowType DEF ResetCooldown
  <2>4. CASE \E j \in Key : DeleteKey(j)
    <3>1. row'[k].cooling = row[k].cooling \/ row'[k].cooling = 0
      BY <1>1, <2>4 DEF DeleteKey, Gone, Unborn
    <3>. QED
      BY <1>2, <3>1
  <2>5. CASE \E a \in Admin, j \in Key : ToggleRead(a, j)
    BY <1>3, <2>5 DEF ToggleRead
  <2>6. CASE \E a \in Admin : ToggleWrite(a)
    <3>1. row'[k].cooling = row[k].cooling
      BY <1>1, <2>6 DEF ToggleWrite, Update, Row
    <3>. QED
      BY <1>2, <3>1
  <2>7. CASE \E a \in Admin : ToggleClear(a)
    BY <1>1, <1>4, <2>7, RowType DEF ToggleClear
  <2>. QED
    BY <1>6, <2>1, <2>2, <2>3, <2>4, <2>5, <2>6, <2>7 DEF Administer
<1>7. ASSUME Tick PROVE FALSE
  <2>1. row'[k].cooling = IF row[k].cooling > 0 THEN row[k].cooling - 1 ELSE 0
    BY <1>1, <1>7 DEF Tick, Row
  <2>. QED
    BY <1>1, <2>1
<1>. QED
  BY <1>3, <1>5, <1>6, <1>7 DEF Next, vars, Restart

\* Only a 401 or a 429 starts or lengthens a cooldown, in every behaviour.
THEOREM OnlyKeyFaultsCool == Spec => CooldownCause
<1>1. IInv /\ [Next]_vars =>
        [\A k \in Key : row'[k].cooling > row[k].cooling =>
            \E h \in Handler :
               /\ req[h].cur = k
               /\ req[h].answer \in {"unauthorized", "rateLimited"}]_vars
  BY CauseStep
<1>. QED
  BY <1>1, Invariance, PTL DEF Spec, CooldownCause

----------------------------------------------------------------------------
(* Sums over finite sets                                                   *)

\* Among subsets of a finite set some have no other of them below.
LEMMA SmallestSubset ==
    ASSUME NEW S, IsFiniteSet(S), NEW T, T \subseteq SUBSET S, T # {}
    PROVE  \E s \in T : \A t \in T : t \subseteq s => t = s
<1>1. T \subseteq FiniteSubsetsOf(S)
  <2>1. ASSUME NEW s \in T PROVE s \in FiniteSubsetsOf(S)
    BY FS_Subset DEF FiniteSubsetsOf
  <2>. QED
    BY <2>1
<1>2. IsWellFoundedOn(StrictSubsetOrdering(S), FiniteSubsetsOf(S))
  BY FS_StrictSubsetOrderingWellFounded
<1>3. PICK s \in T : \A t \in T : ~ (<<t, s>> \in StrictSubsetOrdering(S))
  BY <1>1, <1>2, WFMin, Zenon
<1>4. ASSUME NEW t \in T, t \subseteq s PROVE t = s
  BY <1>3, <1>4 DEF StrictSubsetOrdering
<1>. QED
  BY <1>4

\* Induction over the subsets of a finite set.
LEMMA SubsetInduction ==
    ASSUME NEW S, IsFiniteSet(S), NEW P,
           \A s \in SUBSET S : (\A t \in SUBSET s : t # s => t \in P) => s \in P
    PROVE  SUBSET S \subseteq P
<1> DEFINE T == (SUBSET S) \ P
<1>1. SUFFICES ASSUME T # {} PROVE FALSE
  OBVIOUS
<1>2. T \subseteq SUBSET S
  OBVIOUS
<1>3. PICK s \in T : \A t \in T : t \subseteq s => t = s
  <2> HIDE DEF T
  <2>. QED
    BY <1>1, <1>2, SmallestSubset
<1>. QED
  BY <1>3

\* What folds with choose, step by step, over the subsets of S.
IsFold(g, S, base, step, pick) ==
    g = [s \in SUBSET S |-> IF s = {} THEN base ELSE step[<<pick[s], g[s \ {pick[s]}]>>]]

LEMMA FoldsAgree ==
    ASSUME NEW S, IsFiniteSet(S), NEW A, S \subseteq A, NEW base, NEW step, NEW pick,
           \A s \in SUBSET A : s # {} => pick[s] \in s,
           NEW g, NEW h, IsFold(g, S, base, step, pick), IsFold(h, A, base, step, pick)
    PROVE  \A s \in SUBSET S : g[s] = h[s]
<1> DEFINE P == {s \in SUBSET S : g[s] = h[s]}
<1>1. ASSUME NEW s \in SUBSET S, \A t \in SUBSET s : t # s => t \in P
      PROVE  s \in P
  <2>1. CASE s = {}
    <3>1. g[s] = base /\ h[s] = base
      BY <2>1 DEF IsFold
    <3>. QED
      BY <3>1
  <2>2. CASE s # {}
    <3> DEFINE x == pick[s]
               t == s \ {x}
    <3>1. x \in s /\ t \in SUBSET s /\ t # s
      BY <2>2
    <3>2. g[t] = h[t]
      BY <1>1, <3>1
    <3>3. g[s] = step[<<x, g[t]>>] /\ h[s] = step[<<x, h[t]>>]
      BY <2>2 DEF IsFold
    <3>. QED
      BY <3>2, <3>3
  <2>. QED
    BY <2>1, <2>2
<1>2. SUBSET S \subseteq P
  <2> HIDE DEF P
  <2>. QED
    BY <1>1, SubsetInduction
<1>. QED
  BY <1>2

LEMMA FoldExists ==
    ASSUME NEW S, IsFiniteSet(S), NEW base, NEW step, NEW pick,
           \A s \in SUBSET S : s # {} => pick[s] \in s
    PROVE  \E g : IsFold(g, S, base, step, pick)
<1> DEFINE P == {s \in SUBSET S : \E g : IsFold(g, s, base, step, pick)}
           G(s) == CHOOSE g : IsFold(g, s, base, step, pick)
<1>1. ASSUME NEW s \in SUBSET S, \A t \in SUBSET s : t # s => t \in P
      PROVE  s \in P
  <2> DEFINE below(t) == IF t = {} THEN base ELSE step[<<pick[t], G(t \ {pick[t]})[t \ {pick[t]}]>>]
             g == [t \in SUBSET s |-> below(t)]
  <2>1. ASSUME NEW t \in SUBSET s, t # s PROVE IsFold(G(t), t, base, step, pick)
    BY <1>1, <2>1
  <2>2. ASSUME NEW t \in SUBSET s, t # {}
        PROVE  G(t \ {pick[t]})[t \ {pick[t]}] = g[t \ {pick[t]}]
    <3> DEFINE x == pick[t]
               u == t \ {x}
               y == pick[u]
               v == u \ {y}
    <3>1. x \in t /\ u \in SUBSET s /\ u # s /\ g[u] = below(u)
      BY <2>2
    <3>2. IsFold(G(u), u, base, step, pick)
      BY <2>1, <3>1
    <3>3. G(u)[u] = IF u = {} THEN base ELSE step[<<y, G(u)[v]>>]
      BY <3>2 DEF IsFold
    <3>4. CASE u = {}
      BY <3>1, <3>3, <3>4
    <3>5. CASE u # {}
      <4>1. y \in u /\ v \in SUBSET s /\ v # s /\ v \subseteq u
        BY <3>1, <3>5
      <4>2. IsFold(G(v), v, base, step, pick)
        BY <2>1, <4>1
      <4>3. IsFiniteSet(v) /\ \A w \in SUBSET u : w # {} => pick[w] \in w
        BY <3>1, <4>1, FS_Subset
      <4> HIDE DEF G, y, v, u
      <4>4. \A w \in SUBSET v : G(v)[w] = G(u)[w]
        BY <3>2, <4>1, <4>2, <4>3, FoldsAgree
      <4>5. g[u] = step[<<y, G(v)[v]>>] /\ G(u)[u] = step[<<y, G(u)[v]>>]
        BY <3>1, <3>3, <3>5 DEF y, v, u
      <4> HIDE DEF g
      <4>6. G(u)[u] = g[u]
        BY <4>4, <4>5
      <4>. QED
        BY <4>6 DEF u, G
    <3>. QED
      BY <3>4, <3>5
  <2>3. IsFold(g, s, base, step, pick)
    <3>1. ASSUME NEW t \in SUBSET s
          PROVE  g[t] = IF t = {} THEN base ELSE step[<<pick[t], g[t \ {pick[t]}]>>]
      <4>1. g[t] = below(t)
        OBVIOUS
      <4> HIDE DEF g
      <4>. QED
        BY <2>2, <4>1
    <3>2. g = [t \in SUBSET s |-> g[t]]
      OBVIOUS
    <3> HIDE DEF g
    <3>. QED
      BY <3>1, <3>2 DEF IsFold
  <2>. QED
    BY <2>3
<1>2. SUBSET S \subseteq P
  <2> HIDE DEF P
  <2>. QED
    BY <1>1, SubsetInduction
<1>. QED
  BY <1>2

\* SumFunctionOnSet, unfolded.
SumStep(f, g, S) ==
    g = [s \in SUBSET S |->
            IF s = {} THEN 0
            ELSE f[CHOOSE x \in s : TRUE] + g[s \ {CHOOSE x \in s : TRUE}]]

LEMMA SumUnfolds ==
    ASSUME NEW f, NEW S
    PROVE  SumFunctionOnSet(f, S) = (CHOOSE g : SumStep(f, g, S))[S]
  BY Zenon DEF SumFunctionOnSet, FoldFunctionOnSet, MapThenFoldSet, SumStep

LEMMA SumIsFold ==
    ASSUME NEW S, IsFiniteSet(S), NEW f, \A x \in S : f[x] \in Nat
    PROVE  \E g : SumStep(f, g, S) /\ \A s \in SUBSET S : g[s] \in Nat
<1> DEFINE pick == [s \in SUBSET S |-> CHOOSE x \in s : TRUE]
           step == [p \in S \X Nat |-> f[p[1]] + p[2]]
<1>1. \A s \in SUBSET S : s # {} => pick[s] \in s
  OBVIOUS
<1>2. PICK g : IsFold(g, S, 0, step, pick)
  <2> HIDE DEF pick, step
  <2>. QED
    BY <1>1, FoldExists
<1>3. ASSUME NEW s \in SUBSET S
      PROVE  g[s] = IF s = {} THEN 0 ELSE step[<<pick[s], g[s \ {pick[s]}]>>]
  BY <1>2 DEF IsFold
<1> DEFINE P == {s \in SUBSET S : g[s] \in Nat}
<1>4. ASSUME NEW s \in SUBSET S, \A t \in SUBSET s : t # s => t \in P
      PROVE  s \in P
  <2>1. CASE s = {}
    <3> HIDE DEF pick, step
    <3>1. g[s] = 0
      BY <1>3, <2>1, Zenon
    <3>. QED
      BY <3>1
  <2>2. CASE s # {}
    <3>1. pick[s] \in s /\ g[s \ {pick[s]}] \in Nat
      BY <1>1, <1>4, <2>2
    <3>2. step[<<pick[s], g[s \ {pick[s]}]>>] = f[pick[s]] + g[s \ {pick[s]}]
      BY <3>1
    <3>3. f[pick[s]] \in Nat
      BY <3>1
    <3> HIDE DEF pick, step
    <3>. QED
      BY <1>3, <2>2, <3>1, <3>2, <3>3
  <2>. QED
    BY <2>1, <2>2
<1>5. SUBSET S \subseteq P
  <2> HIDE DEF P
  <2>. QED
    BY <1>4, SubsetInduction
<1>6. ASSUME NEW s \in SUBSET S
      PROVE  g[s] = IF s = {} THEN 0 ELSE f[CHOOSE x \in s : TRUE] + g[s \ {CHOOSE x \in s : TRUE}]
  <2>1. CASE s = {}
    <3> HIDE DEF pick, step
    <3>. QED
      BY <1>3, <2>1
  <2>2. CASE s # {}
    <3>1. pick[s] = (CHOOSE x \in s : TRUE) /\ pick[s] \in s
      BY <1>1, <2>2
    <3>2. g[s \ {pick[s]}] \in Nat
      BY <1>5, <3>1
    <3>3. step[<<pick[s], g[s \ {pick[s]}]>>] = f[pick[s]] + g[s \ {pick[s]}]
      BY <3>1, <3>2
    <3> HIDE DEF pick, step
    <3>. QED
      BY <1>3, <2>2, <3>1, <3>3
  <2>. QED
    BY <2>1, <2>2
<1>7. g = [s \in SUBSET S |-> g[s]]
  BY <1>2 DEF IsFold
<1>8. SumStep(f, g, S)
  BY <1>6, <1>7 DEF SumStep
<1>. QED
  BY <1>5, <1>8

LEMMA SumStepsAgree ==
    ASSUME NEW A, NEW S \in SUBSET A, IsFiniteSet(S), NEW f,
           NEW g, NEW h, SumStep(f, g, A), SumStep(f, h, S)
    PROVE  \A s \in SUBSET S : g[s] = h[s]
<1> DEFINE P == {s \in SUBSET S : g[s] = h[s]}
<1>1. ASSUME NEW s \in SUBSET S, \A t \in SUBSET s : t # s => t \in P
      PROVE  s \in P
  <2>1. CASE s = {}
    BY <2>1 DEF SumStep
  <2>2. CASE s # {}
    <3> DEFINE x == CHOOSE x \in s : TRUE
    <3>1. x \in s
      BY <2>2
    <3>2. g[s \ {x}] = h[s \ {x}]
      BY <1>1, <3>1
    <3>3. g[s] = f[x] + g[s \ {x}] /\ h[s] = f[x] + h[s \ {x}]
      BY <2>2 DEF SumStep
    <3>. QED
      BY <3>2, <3>3
  <2>. QED
    BY <2>1, <2>2
<1>2. SUBSET S \subseteq P
  <2> HIDE DEF P
  <2>. QED
    BY <1>1, SubsetInduction
<1>. QED
  BY <1>2

\* A sum is that of the rest and any one of its terms.
LEMMA SumFacts ==
    ASSUME NEW S, IsFiniteSet(S), NEW f, \A x \in S : f[x] \in Nat
    PROVE  /\ SumFunctionOnSet(f, S) \in Nat
           /\ \A x \in S : SumFunctionOnSet(f, S) = f[x] + SumFunctionOnSet(f, S \ {x})
           /\ S = {} => SumFunctionOnSet(f, S) = 0
<1> DEFINE Sum(s) == SumFunctionOnSet(f, s)
<1>1. ASSUME NEW s \in SUBSET S
      PROVE  \E g : /\ SumStep(f, g, s) /\ \A t \in SUBSET s : g[t] \in Nat
                    /\ Sum(s) = g[s]
  <2> DEFINE g == CHOOSE g : SumStep(f, g, s)
  <2>1. IsFiniteSet(s) /\ \A x \in s : f[x] \in Nat
    BY FS_Subset
  <2>2. PICK h : SumStep(f, h, s) /\ \A t \in SUBSET s : h[t] \in Nat
    BY <2>1, SumIsFold
  <2>3. SumStep(f, g, s)
    BY <2>2
  <2>4. Sum(s) = g[s]
    BY SumUnfolds
  <2> HIDE DEF g
  <2>6. \A t \in SUBSET s : g[t] = h[t]
    BY <2>1, <2>2, <2>3, SumStepsAgree
  <2>7. \A t \in SUBSET s : g[t] \in Nat
    BY <2>2, <2>6
  <2>. QED
    BY <2>3, <2>4, <2>7
<1>2. PICK g : SumStep(f, g, S) /\ (\A t \in SUBSET S : g[t] \in Nat) /\ Sum(S) = g[S]
  BY <1>1
<1>3. ASSUME NEW s \in SUBSET S PROVE Sum(s) = g[s]
  <2>1. PICK h : SumStep(f, h, s) /\ (\A t \in SUBSET s : h[t] \in Nat) /\ Sum(s) = h[s]
    BY <1>1
  <2>2. IsFiniteSet(s)
    BY FS_Subset
  <2>3. \A t \in SUBSET s : g[t] = h[t]
    <3> HIDE DEF Sum
    <3>1. SumStep(f, g, S) /\ SumStep(f, h, s)
      BY <1>2, <2>1
    <3>. QED
      BY <2>2, <3>1, SumStepsAgree
  <2>. QED
    BY <2>1, <2>3
<1> HIDE DEF Sum
<1> DEFINE P == {s \in SUBSET S : \A x \in s : g[s] = f[x] + g[s \ {x}]}
<1>4. ASSUME NEW s \in SUBSET S, \A t \in SUBSET s : t # s => t \in P
      PROVE  s \in P
  <2>1. ASSUME NEW x \in s PROVE g[s] = f[x] + g[s \ {x}]
    <3> DEFINE p == CHOOSE y \in s : TRUE
    <3>1. p \in s /\ g[s] = f[p] + g[s \ {p}]
      BY <1>2, <2>1 DEF SumStep
    <3> HIDE DEF p
    <3>2. CASE p = x
      BY <3>1, <3>2
    <3>3. CASE p # x
      <4> DEFINE both == (s \ {p}) \ {x}
      <4>1. s \ {p} \in P /\ s \ {x} \in P
        BY <1>4, <3>1
      <4>2. g[s \ {p}] = f[x] + g[both]
        BY <4>1, <3>3
      <4>3. both = (s \ {x}) \ {p}
        OBVIOUS
      <4>4. g[s \ {x}] = f[p] + g[(s \ {x}) \ {p}]
        BY <4>1, <3>1, <3>3
      <4>5. g[both] \in Nat /\ f[x] \in Nat /\ f[p] \in Nat
        BY <1>2, <3>1
      <4> HIDE DEF both
      <4>. QED
        BY <3>1, <4>2, <4>3, <4>4, <4>5
    <3>. QED
      BY <3>2, <3>3
  <2>. QED
    BY <2>1
<1>5. SUBSET S \subseteq P
  <2> HIDE DEF P
  <2>. QED
    BY <1>4, SubsetInduction
<1>6. \A x \in S : Sum(S) = f[x] + Sum(S \ {x})
  BY <1>2, <1>3, <1>5
<1>7. S = {} => Sum(S) = 0
  BY <1>2 DEF SumStep
<1>. QED
  BY <1>2, <1>6, <1>7 DEF Sum

\* More terms never make a smaller sum.
LEMMA SumGrows ==
    ASSUME NEW S, IsFiniteSet(S), NEW f, \A x \in S : f[x] \in Nat
    PROVE  \A t \in SUBSET S : SumFunctionOnSet(f, t) <= SumFunctionOnSet(f, S)
<1> DEFINE Sum(s) == SumFunctionOnSet(f, s)
           P == {s \in SUBSET S : \A t \in SUBSET s : Sum(t) <= Sum(s)}
<1>1. ASSUME NEW s \in SUBSET S
      PROVE  /\ Sum(s) \in Nat
             /\ \A x \in s : Sum(s) = f[x] + Sum(s \ {x}) /\ f[x] \in Nat
  <2>1. IsFiniteSet(s) /\ \A x \in s : f[x] \in Nat
    BY FS_Subset
  <2>. QED
    BY <2>1, SumFacts
<1> HIDE DEF Sum
<1>2. ASSUME NEW s \in SUBSET S, \A t \in SUBSET s : t # s => t \in P
      PROVE  s \in P
  <2>1. ASSUME NEW t \in SUBSET s PROVE Sum(t) <= Sum(s)
    <3>1. CASE t = s
      BY <1>1, <3>1
    <3>2. CASE t # s
      <4>1. PICK x \in s : x \notin t
        BY <3>2
      <4> DEFINE u == s \ {x}
      <4>2. u \in SUBSET s /\ u # s /\ t \in SUBSET u
        BY <4>1
      <4>3. Sum(t) <= Sum(u)
        BY <1>2, <4>2
      <4>4. Sum(s) = f[x] + Sum(u) /\ Sum(u) \in Nat /\ Sum(t) \in Nat /\ f[x] \in Nat
        BY <1>1, <4>1, <4>2
      <4> HIDE DEF u
      <4>. QED
        BY <4>3, <4>4
    <3>. QED
      BY <3>1, <3>2
  <2>. QED
    BY <2>1
<1>3. SUBSET S \subseteq P
  <2> HIDE DEF P
  <2>. QED
    BY <1>2, SubsetInduction
<1>. QED
  BY <1>3 DEF Sum

LEMMA GreatestExists ==
    ASSUME NEW S, S \subseteq Nat, IsFiniteSet(S), S # {}
    PROVE  \E x \in S : \A y \in S : y <= x
<1> DEFINE Has(s) == \E x \in s : \A y \in s : y <= x
           P == {s \in SUBSET S : s # {} => Has(s)}
<1>1. ASSUME NEW s \in SUBSET S, \A t \in SUBSET s : t # s => t \in P
      PROVE  s \in P
  <2>1. SUFFICES ASSUME s # {} PROVE Has(s)
    OBVIOUS
  <2>2. PICK x \in s : TRUE
    BY <2>1
  <2>3. CASE s = {x}
    BY <2>3
  <2>4. CASE s # {x}
    <3>1. PICK m \in s \ {x} : \A y \in s \ {x} : y <= m
      <4> DEFINE t == s \ {x}
      <4>1. t \in SUBSET s /\ t # s /\ t # {}
        BY <2>2, <2>4
      <4>2. t \in P
        BY <1>1, <4>1
      <4>. QED
        BY <4>1, <4>2
    <3>2. x \in Nat /\ m \in Nat /\ \A y \in s : y \in Nat
      BY <2>2, <3>1
    <3>3. CASE x <= m
      BY <3>1, <3>2, <3>3
    <3>4. CASE m < x
      BY <2>2, <3>1, <3>2, <3>4
    <3>. QED
      BY <3>2, <3>3, <3>4
  <2>. QED
    BY <2>3, <2>4
<1>2. SUBSET S \subseteq P
  <2> HIDE DEF P
  <2>. QED
    BY <1>1, SubsetInduction
<1>. QED
  BY <1>2

----------------------------------------------------------------------------
(* The weighted round robin divides a round of TotalWeight positions into  *)
(* one slice for each candidate, as long as its weight.                    *)

Weighing(cand) ==
    /\ DOMAIN cand \subseteq Nat /\ IsFiniteSet(DOMAIN cand) /\ DOMAIN cand # {}
    /\ \A k \in DOMAIN cand : cand[k] \in Nat \ {0}

Below(cand, k) == SumFunctionOnSet(cand, {j \in DOMAIN cand : j < k})

LEMMA Slices ==
    ASSUME NEW cand, Weighing(cand)
    PROVE  /\ TotalWeight(cand) \in Nat \ {0}
           /\ \A k \in DOMAIN cand :
                 /\ Below(cand, k) \in Nat /\ Accumulated(cand, k) = Below(cand, k) + cand[k]
                 /\ Accumulated(cand, k) <= TotalWeight(cand)
                 /\ (\A j \in DOMAIN cand : j <= k) => Accumulated(cand, k) = TotalWeight(cand)
                 /\ (\A j \in DOMAIN cand : k <= j) => Below(cand, k) = 0
           /\ \A j, k \in DOMAIN cand : j < k => Accumulated(cand, j) <= Below(cand, k)
<1> DEFINE D == DOMAIN cand
           Sum(s) == SumFunctionOnSet(cand, s)
           upTo(k) == {j \in D : j <= k}
           under(k) == {j \in D : j < k}
<1>1. D \subseteq Nat /\ IsFiniteSet(D) /\ D # {} /\ \A k \in D : cand[k] \in Nat \ {0}
  BY DEF Weighing
<1>2. ASSUME NEW s \in SUBSET D
      PROVE  /\ Sum(s) \in Nat
             /\ \A x \in s : Sum(s) = cand[x] + Sum(s \ {x})
             /\ s = {} => Sum(s) = 0
             /\ \A t \in SUBSET s : Sum(t) <= Sum(s)
  <2>1. IsFiniteSet(s) /\ \A x \in s : cand[x] \in Nat
    BY <1>1, FS_Subset
  <2>. QED
    BY <2>1, SumFacts, SumGrows
<1>3. TotalWeight(cand) = Sum(D)
  BY DEF TotalWeight, SumFunction
<1>4. \A k \in D : Below(cand, k) = Sum(under(k)) /\ Accumulated(cand, k) = Sum(upTo(k))
  BY DEF Below, Accumulated
<1> HIDE DEF D, Sum
<1>5. TotalWeight(cand) \in Nat \ {0}
  <2>1. PICK x \in D : TRUE
    BY <1>1
  <2>2. Sum(D) = cand[x] + Sum(D \ {x}) /\ Sum(D \ {x}) \in Nat /\ cand[x] \in Nat \ {0}
    BY <1>1, <1>2, <2>1
  <2>. QED
    BY <1>3, <2>2
<1>6. ASSUME NEW k \in D
      PROVE  /\ Below(cand, k) \in Nat /\ Accumulated(cand, k) = Below(cand, k) + cand[k]
             /\ Accumulated(cand, k) <= TotalWeight(cand)
             /\ (\A j \in D : j <= k) => Accumulated(cand, k) = TotalWeight(cand)
             /\ (\A j \in D : k <= j) => Below(cand, k) = 0
  <2>1. /\ k \in upTo(k) /\ upTo(k) \ {k} = under(k)
        /\ upTo(k) \in SUBSET D /\ under(k) \in SUBSET D
    <3>1. k <= k /\ \A j \in D : (j <= k /\ j # k) <=> j < k
      BY <1>1
    <3>. QED
      BY <3>1
  <2>2. (\A j \in D : j <= k) => upTo(k) = D
    OBVIOUS
  <2>3. (\A j \in D : k <= j) => under(k) = {}
    <3>1. \A j \in D : k <= j => ~(j < k)
      BY <1>1
    <3>. QED
      BY <3>1
  <2>4. Sum(under(k)) \in Nat /\ cand[k] \in Nat /\ Sum(upTo(k)) <= Sum(D)
        /\ Sum(upTo(k)) = cand[k] + Sum(under(k))
    BY <1>1, <1>2, <2>1
  <2>5. under(k) = {} => Sum(under(k)) = 0
    BY <1>2, <2>1
  <2> HIDE DEF upTo, under
  <2>. QED
    BY <1>3, <1>4, <2>2, <2>3, <2>4, <2>5
<1>7. ASSUME NEW j \in D, NEW k \in D, j < k PROVE Accumulated(cand, j) <= Below(cand, k)
  <2>1. upTo(j) \in SUBSET under(k) /\ under(k) \in SUBSET D
    <3>1. \A i \in D : i <= j => i < k
      BY <1>1, <1>7
    <3>. QED
      BY <3>1
  <2>. QED
    BY <1>2, <1>4, <2>1
<1>. QED
  BY <1>5, <1>6, <1>7 DEF D

\* A position of the cursor chooses the candidate in whose slice it lies.
LEMMA ChosenBySlice ==
    ASSUME NEW cand, Weighing(cand), NEW pos \in Nat, pos < TotalWeight(cand)
    PROVE  /\ Chosen(cand, pos) \in DOMAIN cand
           /\ \A k \in DOMAIN cand :
                 Chosen(cand, pos) = k <=> Below(cand, k) <= pos /\ pos < Accumulated(cand, k)
<1> DEFINE D == DOMAIN cand
           above == {k \in D : pos < Accumulated(cand, k)}
           c == Min(above)
<1>1. D \subseteq Nat /\ IsFiniteSet(D) /\ D # {} /\ \A k \in D : cand[k] \in Nat \ {0}
  BY DEF Weighing
<1>2. PICK m \in D : \A j \in D : j <= m
  BY <1>1, GreatestExists
<1>3. m \in above
  BY <1>2, Slices
<1>4. above \subseteq Nat /\ IsFiniteSet(above)
  BY <1>1, FS_Subset
<1>5. c \in above /\ \A j \in above : c <= j
  <2> HIDE DEF above
  <2>. QED
    BY <1>3, <1>4, MinIsLeast
<1>6. Chosen(cand, pos) = c
  <2>1. above # {}
    BY <1>3
  <2>. QED
    BY <2>1, Zenon DEF Chosen
<1> HIDE DEF c
<1>7. Below(cand, c) <= pos
  <2> DEFINE under == {j \in D : j < c}
  <2>1. CASE under = {}
    <3>1. c \in D /\ \A j \in D : c <= j
      BY <1>1, <1>5, <2>1
    <3>2. Below(cand, c) = 0
      BY <3>1, Slices
    <3>. QED
      BY <3>2
  <2>2. CASE under # {}
    <3>1. IsFiniteSet(under) /\ under \subseteq Nat
      BY <1>1, FS_Subset
    <3>2. PICK p \in under : \A j \in under : j <= p
      BY <2>2, <3>1, GreatestExists
    <3>3. {j \in D : j < c} = {j \in D : j <= p}
      BY <1>1, <1>5, <3>2
    <3>4. Below(cand, c) = Accumulated(cand, p)
      BY <3>3 DEF Below, Accumulated
    <3>5. p \in D /\ p < c /\ ~(pos < Accumulated(cand, p))
      BY <1>1, <1>5, <3>2
    <3>6. Accumulated(cand, p) \in Nat
      BY <3>5, <1>1, Slices
    <3>. QED
      BY <3>4, <3>5, <3>6
  <2>. QED
    BY <2>1, <2>2
<1>8. ASSUME NEW k \in D, Below(cand, k) <= pos, pos < Accumulated(cand, k) PROVE c = k
  <2>1. c <= k /\ c \in D /\ c \in Nat /\ k \in Nat
    BY <1>1, <1>5, <1>8
  <2>2. ASSUME c < k PROVE FALSE
    <3>1. Accumulated(cand, c) <= Below(cand, k) /\ pos < Accumulated(cand, c)
      BY <1>5, <2>1, <2>2, Slices
    <3>2. Accumulated(cand, c) \in Nat /\ Below(cand, k) \in Nat
      BY <1>1, <2>1, Slices
    <3>. QED
      BY <1>8, <3>1, <3>2
  <2>. QED
    BY <2>1, <2>2
<1>. QED
  BY <1>5, <1>6, <1>7, <1>8

----------------------------------------------------------------------------
(* The cursor                                                              *)

LEMMA NextPosition ==
    ASSUME NEW c \in Nat, NEW T \in Nat \ {0}
    PROVE  /\ c % T \in 0 .. T - 1
           /\ (c + 1) % T = IF (c % T) + 1 = T THEN 0 ELSE (c % T) + 1
<1>1. c % T \in 0 .. T - 1 /\ (c + 1) % T \in 0 .. T - 1
  OBVIOUS
<1>2. c = T * (c \div T) + (c % T)
  OBVIOUS
<1>3. c + 1 = T * ((c + 1) \div T) + ((c + 1) % T)
  OBVIOUS
<1>4. c \div T \in Int /\ (c + 1) \div T \in Int
  OBVIOUS
<1> DEFINE r == c % T
           n == (c + 1) % T
           d == ((c + 1) \div T) - (c \div T)
<1>5. d \in Int /\ T * d = r + 1 - n
  BY <1>1, <1>2, <1>3, <1>4
<1> HIDE DEF r, n, d
<1>6. d >= 2 => T * d >= T + T
  BY <1>5
<1>7. d <= -1 => T * d <= -T
  BY <1>5
<1>8. d = 0 => T * d = 0
  BY <1>5
<1>9. d = 1 => T * d = T
  BY <1>5
<1>10. n = IF r + 1 = T THEN 0 ELSE r + 1
  <2>1. r \in 0 .. T - 1 /\ n \in 0 .. T - 1
    BY <1>1 DEF r, n
  <2>2. d = 0 \/ d = 1
    BY <1>5, <1>6, <1>7, <2>1
  <2>. QED
    BY <1>5, <1>8, <1>9, <2>1, <2>2
<1>. QED
  BY <1>1, <1>10 DEF r, n

\* Where the cursor stood d picks ago, in a round of T.
Ago(c, d, T) == IF c % T >= d THEN (c % T) - d ELSE (c % T) - d + T

LEMMA AgoFacts ==
    ASSUME NEW c \in Nat, NEW T \in Nat \ {0}, NEW next \in Nat, next % T = (c + 1) % T
    PROVE  /\ \A d \in 1 .. T : Ago(c, d, T) \in 0 .. T - 1
           /\ Ago(next, 1, T) = c % T
           /\ \A d \in 1 .. T - 1 : Ago(next, d + 1, T) = Ago(c, d, T)
<1> DEFINE r == c % T
           n == next % T
<1>1. r \in 0 .. T - 1 /\ n = IF r + 1 = T THEN 0 ELSE r + 1
  BY NextPosition
<1>2. /\ \A d \in Int : Ago(c, d, T) = IF r >= d THEN r - d ELSE r - d + T
      /\ \A d \in Int : Ago(next, d, T) = IF n >= d THEN n - d ELSE n - d + T
  BY DEF Ago
<1> HIDE DEF r, n
<1>3. \A d \in 1 .. T : Ago(c, d, T) \in 0 .. T - 1
  BY <1>1, <1>2
<1>4. Ago(next, 1, T) = r
  BY <1>1, <1>2
<1>5. \A d \in 1 .. T - 1 : Ago(next, d + 1, T) = Ago(c, d, T)
  BY <1>1, <1>2
<1>. QED
  BY <1>3, <1>4, <1>5 DEF r

\* A round of picks starts with every candidate as often as its weight says.
LEMMA RoundIsShared ==
    ASSUME NEW cand, Weighing(cand), NEW c \in Nat, NEW k \in DOMAIN cand
    PROVE  LET T == TotalWeight(cand)
           IN  Cardinality({i \in 1 .. T : Chosen(cand, Ago(c, T - i + 1, T)) = k}) = cand[k]
<1> DEFINE T == TotalWeight(cand)
           r == c % T
           a == Below(cand, k)
           b == Accumulated(cand, k)
           I == {i \in 1 .. T : Chosen(cand, Ago(c, T - i + 1, T)) = k}
           g == [p \in a .. (b - 1) |-> IF p >= r THEN p - r + 1 ELSE p - r + T + 1]
<1>1. /\ T \in Nat \ {0} /\ a \in Nat /\ b = a + cand[k] /\ b <= T
      /\ cand[k] \in Nat \ {0}
  BY Slices DEF Weighing
<1>2. r \in 0 .. T - 1
  BY <1>1, NextPosition
<1> HIDE DEF T, a, b
<1>3. ASSUME NEW i \in 1 .. T
      PROVE  i \in I <=> a <= Ago(c, T - i + 1, T) /\ Ago(c, T - i + 1, T) < b
  <2> DEFINE p == Ago(c, T - i + 1, T)
  <2>1. p \in 0 .. T - 1
    <3>1. T - i + 1 \in 1 .. T /\ c + 1 \in Nat
      BY <1>1
    <3>. QED
      BY <1>1, <3>1, AgoFacts
  <2>2. Chosen(cand, p) = k <=> a <= p /\ p < b
    BY <1>1, <2>1, ChosenBySlice DEF a, b, T
  <2>. QED
    BY <2>2
<1>4. ASSUME NEW i \in 1 .. T
      PROVE  Ago(c, T - i + 1, T) = IF i + r > T THEN i + r - T - 1 ELSE i + r - 1
  BY <1>1, <1>2 DEF Ago
<1> HIDE DEF I, r
<1>5. ASSUME NEW p \in a .. (b - 1)
      PROVE  g[p] \in I /\ g[p] \in Int /\ p = IF g[p] + r > T THEN g[p] + r - T - 1 ELSE g[p] + r - 1
  <2>1. g[p] = IF p >= r THEN p - r + 1 ELSE p - r + T + 1
    OBVIOUS
  <2> HIDE DEF g
  <2>2. g[p] \in 1 .. T /\ p = IF g[p] + r > T THEN g[p] + r - T - 1 ELSE g[p] + r - 1
    BY <1>1, <1>2, <2>1
  <2>3. p \in Int /\ a <= p /\ p < b
    BY <1>1
  <2>. QED
    BY <1>3, <1>4, <2>2, <2>3
<1>6. ASSUME NEW i \in I PROVE \E p \in a .. (b - 1) : g[p] = i
  <2> DEFINE p == IF i + r > T THEN i + r - T - 1 ELSE i + r - 1
  <2>1. i \in 1 .. T
    BY DEF I
  <2>2. p \in Int /\ a <= p /\ p < b
    BY <1>1, <1>2, <1>3, <1>4, <2>1
  <2>3. p \in a .. (b - 1) /\ g[p] = i
    BY <1>1, <1>2, <2>1, <2>2
  <2>. QED
    BY <2>3
<1>7. g \in Bijection(a .. (b - 1), I)
  <2>1. g \in [a .. (b - 1) -> I]
    BY <1>5
  <2>2. \A p, q \in a .. (b - 1) : g[p] = g[q] => p = q
    BY <1>5
  <2> HIDE DEF g
  <2>. QED
    BY <1>6, <2>1, <2>2 DEF Bijection, Injection, Surjection, IsInjective
<1>8. IsFiniteSet(a .. (b - 1)) /\ Cardinality(a .. (b - 1)) = cand[k]
  <2>1. a \in Int /\ b - 1 \in Int /\ ~(a > b - 1) /\ (b - 1) - a + 1 = cand[k]
    BY <1>1
  <2>. QED
    BY <2>1, FS_Interval
<1>9. ExistsBijection(a .. (b - 1), I)
  BY <1>7 DEF ExistsBijection
<1>10. Cardinality(I) = cand[k]
  BY <1>8, <1>9, FS_Bijection
<1>. QED
  BY <1>10 DEF I, T

----------------------------------------------------------------------------
(* The share of each candidate                                             *)

\* Candidates of one pick: rows of one group.
Pick(cand) ==
    /\ cand \in Candidates /\ DOMAIN cand # {}
    /\ \E g \in Group : \A k \in DOMAIN cand : GroupOf[k] = g

\* The i-th of the last picks started where the cursor stood then.
FromCursor(w, c) ==
    /\ Len(w.firsts) <= TotalWeight(w.cand)
    /\ \A i \in 1 .. Len(w.firsts) :
          w.firsts[i] = Chosen(w.cand, Ago(c, Len(w.firsts) - i + 1, TotalWeight(w.cand)))

WindowFits(w, c) ==
    /\ w.firsts \in Seq(Key)
    /\ w = NoPicks \/ (Pick(w.cand) /\ FromCursor(w, c))

ShareInv ==
    /\ \A h \in Handler : req[h].pc = "loaded" => Pick(req[h].cand)
    /\ window \in [Group -> [cand : Candidates, firsts : Seq(Key)]]
    /\ \A g \in Group : WindowFits(window[g], cursor[g])

LEMMA PickFacts ==
    ASSUME NEW cand, Pick(cand)
    PROVE  /\ Weighing(cand) /\ CandGroup(cand) \in Group
           /\ TotalWeight(cand) \in Nat \ {0} /\ CursorPeriod % TotalWeight(cand) = 0
<1> DEFINE C == DOMAIN cand
<1>1. C \subseteq Key /\ C \subseteq Nat /\ IsFiniteSet(C) /\ C # {}
  BY CandidatesType DEF Pick
<1>2. cand \in [C -> StoredWeight]
  BY DEF Pick, Candidates
<1>3. StoredWeight \subseteq Nat \ {0}
  BY PoolAssumption DEF StoredWeight, Effective
<1>4. Weighing(cand)
  BY <1>1, <1>2, <1>3 DEF Weighing
<1>5. PICK g \in Group : \A k \in C : GroupOf[k] = g
  BY DEF Pick
<1>6. CandGroup(cand) \in Group
  BY <1>1, <1>5 DEF CandGroup
<1>7. CursorPeriod % TotalWeight(cand) = 0
  BY <1>1, <1>2, <1>5, CursorAssumption
<1>. QED
  BY <1>4, <1>6, <1>7, Slices

\* The next pick of a group.
LEMMA NextCursor ==
    ASSUME NEW cand, Pick(cand), NEW c \in 0 .. CursorPeriod - 1
    PROVE  LET T == TotalWeight(cand)
               next == (c + 1) % CursorPeriod
           IN  next \in 0 .. CursorPeriod - 1 /\ next % T = (c + 1) % T
<1> DEFINE T == TotalWeight(cand)
           next == (c + 1) % CursorPeriod
<1>1. CursorPeriod \in Nat \ {0} /\ c \in Nat /\ c % CursorPeriod = c
  BY PoolAssumption
<1>2. next = IF c + 1 = CursorPeriod THEN 0 ELSE c + 1
  BY <1>1, NextPosition
<1>3. T \in Nat \ {0} /\ CursorPeriod % T = 0 /\ 0 % T = 0
  BY PickFacts
<1> HIDE DEF next, T
<1>4. next % T = (c + 1) % T
  BY <1>2, <1>3
<1>5. next \in 0 .. CursorPeriod - 1
  BY <1>1, <1>2
<1>. QED
  BY <1>4, <1>5 DEF next, T

\* The window after one more pick from the same candidates.
LEMMA WindowMoves ==
    ASSUME NEW cand, Pick(cand), NEW firsts \in Seq(Key), NEW c \in 0 .. CursorPeriod - 1,
           FromCursor([cand |-> cand, firsts |-> firsts], c)
    PROVE  LET T == TotalWeight(cand)
               k == Chosen(cand, c % T)
               new == Newest(Append(firsts, k), T)
           IN  /\ new \in Seq(Key)
               /\ FromCursor([cand |-> cand, firsts |-> new], (c + 1) % CursorPeriod)
<1> DEFINE T == TotalWeight(cand)
           k == Chosen(cand, c % T)
           next == (c + 1) % CursorPeriod
           all == Append(firsts, k)
           n == Len(firsts)
           new == Newest(all, T)
<1>1. T \in Nat \ {0} /\ c \in Nat /\ next \in Nat /\ next % T = (c + 1) % T
      /\ c % T \in 0 .. T - 1 /\ Weighing(cand)
  <2>1. T \in Nat \ {0} /\ Weighing(cand)
    BY PickFacts
  <2>2. next \in 0 .. CursorPeriod - 1 /\ next % T = (c + 1) % T
    BY NextCursor
  <2>3. c \in Nat /\ next \in Nat
    BY <2>2, PoolAssumption
  <2> HIDE DEF T, next
  <2>. QED
    BY <2>1, <2>2, <2>3, NextPosition
<1>2. k \in Key
  <2>1. k \in DOMAIN cand
    BY <1>1, ChosenBySlice
  <2>. QED
    BY <2>1, CandidatesType DEF Pick
<1>3. /\ n \in Nat /\ n <= T
      /\ \A i \in 1 .. n : firsts[i] = Chosen(cand, Ago(c, n - i + 1, T))
  BY DEF FromCursor
<1>4. Ago(next, 1, T) = c % T /\ \A d \in 1 .. T - 1 : Ago(next, d + 1, T) = Ago(c, d, T)
  BY <1>1, AgoFacts
<1> HIDE DEF T, k, next
<1>5. /\ all \in Seq(Key) /\ Len(all) = n + 1 /\ all[n + 1] = k
      /\ \A i \in 1 .. n : all[i] = firsts[i]
  BY <1>2
<1>6. ASSUME NEW i \in 1 .. n + 1, n - i + 2 <= T
      PROVE  all[i] = Chosen(cand, Ago(next, n - i + 2, T))
  <2>1. CASE i = n + 1
    <3>1. n - i + 2 = 1
      BY <1>3, <2>1
    <3>. QED
      BY <1>4, <1>5, <2>1, <3>1 DEF k
  <2>2. CASE i # n + 1
    <3>1. i \in 1 .. n /\ n - i + 1 \in 1 .. T - 1 /\ (n - i + 1) + 1 = n - i + 2
      BY <1>1, <1>3, <1>6, <2>2
    <3>2. Ago(next, (n - i + 1) + 1, T) = Ago(c, n - i + 1, T)
      BY <1>4, <3>1
    <3>. QED
      BY <1>3, <1>5, <3>1, <3>2
  <2>. QED
    BY <2>1, <2>2
<1>7. CASE n < T
  <2>1. new = all
    BY <1>1, <1>3, <1>5, <1>7 DEF Newest
  <2>2. \A i \in 1 .. n + 1 : n - i + 2 <= T /\ (n + 1) - i + 1 = n - i + 2
    BY <1>1, <1>3, <1>7
  <2> HIDE DEF all, n, new
  <2>3. n + 1 <= T
    BY <1>1, <1>3, <1>7
  <2>4. FromCursor([cand |-> cand, firsts |-> all], next)
    BY <1>5, <1>6, <2>2, <2>3 DEF FromCursor, T
  <2>. QED
    BY <1>5, <2>1, <2>4 DEF next, new, all, k, T
<1>8. CASE ~(n < T)
  <2>1. n = T /\ Len(all) > T /\ Len(all) - T + 1 = 2
    BY <1>1, <1>3, <1>5, <1>8
  <2>2. new = SubSeq(all, 2, n + 1)
    BY <1>5, <2>1 DEF Newest
  <2> HIDE DEF all, new, n
  <2>3. new \in Seq(Key) /\ Len(new) = n /\ \A i \in 1 .. n : new[i] = all[i + 1]
    BY <1>3, <1>5, <2>2
  <2>4. ASSUME NEW i \in 1 .. n PROVE new[i] = Chosen(cand, Ago(next, n - i + 1, T))
    <3>1. i + 1 \in 1 .. n + 1 /\ n - (i + 1) + 2 <= T /\ n - (i + 1) + 2 = n - i + 1
      BY <1>1, <1>3, <2>1
    <3>. QED
      BY <1>6, <2>3, <3>1
  <2>5. FromCursor([cand |-> cand, firsts |-> new], next)
    BY <1>3, <2>3, <2>4 DEF FromCursor, T
  <2>. QED
    BY <2>3, <2>5 DEF next, new, all, k, T
<1>. QED
  BY <1>7, <1>8, <1>3, <1>1

LEMMA LoadPicks ==
    ASSUME IInv, NEW h \in Handler, NEW g \in Group, Load(h, g)
    PROVE  req' = [req EXCEPT ![h] = req'[h]] /\ Pick(req'[h].cand)
<1> DEFINE C == Usable(g)
           cand == [k \in C |-> Effective(row[k].weight)]
           q == [Idle EXCEPT !.pc = "loaded", !.cand = cand]
<1>1. C # {} /\ req' = [req EXCEPT ![h] = q]
  BY DEF Load
<1>2. C \subseteq Key /\ \A k \in C : GroupOf[k] = g
  BY DEF Usable
<1>3. \A k \in C : Effective(row[k].weight) \in StoredWeight
  <2>1. ASSUME NEW k \in Key PROVE row[k].weight \in StoredWeight
    BY Parts DEF Row
  <2>2. \A w \in StoredWeight : Effective(w) = w
    BY PoolAssumption DEF StoredWeight, Effective
  <2>. QED
    BY <1>2, <2>1, <2>2
<1>4. cand \in Candidates
  BY <1>2, <1>3 DEF Candidates
<1> HIDE DEF C
<1>5. DOMAIN cand = C
  OBVIOUS
<1> HIDE DEF cand
<1>6. Pick(cand)
  BY <1>1, <1>2, <1>4, <1>5 DEF Pick
<1>7. q.cand = cand
  BY DEF Idle
<1> HIDE DEF q
<1>8. req'[h] = q
  BY <1>1, Parts
<1>. QED
  BY <1>1, <1>6, <1>7, <1>8

LEMMA LoadShare ==
    ASSUME IInv, ShareInv, NEW h \in Handler, NEW g \in Group, Load(h, g), window' = window
    PROVE  ShareInv'
<1>1. req' = [req EXCEPT ![h] = req'[h]] /\ Pick(req'[h].cand)
  BY LoadPicks
<1>2. \A i \in Handler : req'[i].pc = "loaded" => Pick(req'[i].cand)
  BY <1>1, Parts DEF ShareInv
<1>3. cursor' = cursor
  BY DEF Load
<1>. QED
  BY <1>2, <1>3 DEF ShareInv

\* Only Load loads.
LEMMA AttemptNotLoaded ==
    ASSUME IInv, NEW h \in Handler, Attempt(h)
    PROVE  /\ \A i \in Handler : req'[i].pc = "loaded" => req[i].pc = "loaded" /\ req'[i] = req[i]
           /\ cursor' = cursor
<1>1. req \in [Handler -> Request] /\ req[h] \in Request
  BY Parts
<1>2. ASSUME NEW q, q.pc # "loaded", req' = [req EXCEPT ![h] = q]
      PROVE  \A i \in Handler : req'[i].pc = "loaded" => req[i].pc = "loaded" /\ req'[i] = req[i]
  BY <1>1, <1>2
<1>3. Idle.pc # "loaded"
  BY DEF Idle
<1>4. Moved(req[h]).pc # "loaded"
  <2> DEFINE r == req[h]
             tried == r.tried \cup {r.cur}
  <2>1. CASE After(DOMAIN r.cand, r.cur) = r.first
    <3>1. Moved(r) = [Idle EXCEPT !.pc = "exhausted", !.cand = r.cand, !.tried = tried]
      BY <2>1, Zenon DEF Moved
    <3>. QED
      BY <3>1 DEF Idle
  <2>2. CASE After(DOMAIN r.cand, r.cur) # r.first
    <3>1. Moved(r) = [r EXCEPT !.pc = "asking", !.cur = After(DOMAIN r.cand, r.cur), !.tried = tried,
                               !.answer = "none", !.seen = 0, !.reset = 0]
      BY <2>2, Zenon DEF Moved
    <3>. QED
      BY <1>1, <3>1 DEF Request
  <2>. QED
    BY <2>1, <2>2
<1>5. ASSUME NextKey(h)
      PROVE  \A i \in Handler : req'[i].pc = "loaded" => req[i].pc = "loaded" /\ req'[i] = req[i]
  <2>1. req' = [req EXCEPT ![h] = Moved(req[h])]
    BY <1>1, <1>5 DEF NextKey
  <2>. QED
    BY <1>2, <1>4, <2>1
<1>6. cursor' = cursor
  BY DEF Attempt, Success, Final, Deadline, ServerError, StreamBroken, Unauthorized,
         QuotaLimited, RateLimited, ReadFails, WriteFails
<1>7. CASE Success(h) \/ Final(h) \/ StreamBroken(h)
  <2>1. req' = [req EXCEPT ![h] = Idle]
    BY <1>7 DEF Success, Final, StreamBroken
  <2>. QED
    BY <1>2, <1>3, <1>6, <2>1
<1>8. CASE Deadline(h) \/ ServerError(h) \/ WriteFails(h)
  BY <1>5, <1>6, <1>8 DEF Deadline, ServerError, WriteFails
<1>9. CASE Unauthorized(h)
  <2>1. req' = [req EXCEPT ![h] = [req[h] EXCEPT !.pc = "marking", !.answer = "unauthorized"]]
    BY <1>1, <1>9 DEF Unauthorized
  <2>. QED
    BY <1>1, <1>2, <1>6, <2>1 DEF Request
<1>10. CASE QuotaLimited(h)
  <2>1. PICK d \in QuotaReset :
           req' = [req EXCEPT ![h] = [req[h] EXCEPT !.pc = "writing", !.answer = "rateLimited",
                                        !.seen = row[req[h].cur].fails, !.reset = d]]
    BY <1>1, <1>10 DEF QuotaLimited
  <2>. QED
    BY <1>1, <1>2, <1>6, <2>1 DEF Request
<1>11. CASE RateLimited(h)
  <2>1. NextKey(h) \/ req' = [req EXCEPT ![h] = [req[h] EXCEPT !.pc = "marking", !.answer = "rateLimited"]]
    BY <1>1, <1>11 DEF RateLimited
  <2>. QED
    BY <1>1, <1>2, <1>5, <1>6, <2>1 DEF Request
<1>12. CASE ReadFails(h)
  <2>1. NextKey(h) \/ req' = [req EXCEPT ![h] = [req[h] EXCEPT !.pc = "writing", !.seen = row[req[h].cur].fails]]
    BY <1>1, <1>12 DEF ReadFails
  <2>. QED
    BY <1>1, <1>2, <1>5, <1>6, <2>1 DEF Request
<1>. QED
  BY <1>7, <1>8, <1>9, <1>10, <1>11, <1>12 DEF Attempt

\* A pick moves the cursor of its own group and the window with it.
LEMMA AdvanceShare ==
    ASSUME IInv, ShareInv, NEW h \in Handler, Advance(h),
           Observe(CandGroup(req[h].cand), req[h].cand, req'[h].first)
    PROVE  ShareInv'
<1> DEFINE cand == req[h].cand
           g == CandGroup(cand)
           T == TotalWeight(cand)
           k == Chosen(cand, cursor[g] % T)
           q == [req[h] EXCEPT !.pc = "asking", !.first = k, !.cur = k]
           old == IF window[g].cand = cand THEN window[g].firsts ELSE <<>>
           new == Newest(Append(old, k), T)
           next == (cursor[g] + 1) % CursorPeriod
           w == [cand |-> cand, firsts |-> new]
<1>1. Pick(cand) /\ g \in Group /\ T \in Nat \ {0} /\ req[h] \in Request /\ cursor[g] \in 0 .. CursorPeriod - 1
  BY PickFacts, Parts DEF Advance, ShareInv
<1>2. req' = [req EXCEPT ![h] = q] /\ cursor' = [cursor EXCEPT ![g] = next]
  BY DEF Advance
<1>3. req'[h].first = k /\ req'[h].pc = "asking"
  BY <1>1, <1>2, Parts DEF Request
<1>4. window' = [window EXCEPT ![g] = w]
  BY <1>3, Zenon DEF Observe
<1>5. \A i \in Handler : req'[i].pc = "loaded" => Pick(req'[i].cand)
  BY <1>2, <1>3, Parts DEF ShareInv
<1>6. old \in Seq(Key) /\ FromCursor([cand |-> cand, firsts |-> old], cursor[g])
  <2>1. CASE window[g].cand = cand
    <3>1. window[g] # NoPicks
      BY <1>1, <2>1, CandidatesType DEF Pick, NoPicks
    <3>2. WindowFits(window[g], cursor[g])
      BY <1>1 DEF ShareInv
    <3>3. old = window[g].firsts
      BY <2>1
    <3>. QED
      BY <2>1, <3>1, <3>2, <3>3 DEF WindowFits, FromCursor
  <2>2. CASE window[g].cand # cand
    <3>1. old = <<>> /\ Len(old) = 0
      BY <2>2
    <3> DEFINE r == [cand |-> cand, firsts |-> old]
    <3>2. Len(r.firsts) = 0 /\ r.cand = cand
      BY <3>1
    <3>3. r.firsts = <<>>
      BY <3>1
    <3> HIDE DEF r
    <3>4. FromCursor(r, cursor[g])
      BY <1>1, <3>2 DEF FromCursor
    <3>5. old \in Seq(Key)
      <4>1. <<>> \in Seq(Key)
        OBVIOUS
      <4>. QED
        BY <3>1, <4>1
    <3>. QED
      BY <3>4, <3>5, Zenon DEF r
  <2>. QED
    BY <2>1, <2>2
<1> HIDE DEF old
<1>7. new \in Seq(Key) /\ FromCursor(w, next)
  BY <1>1, <1>6, WindowMoves
<1>8. WindowFits(w, next) /\ w \in [cand : Candidates, firsts : Seq(Key)]
  BY <1>1, <1>7 DEF WindowFits, Pick
<1> HIDE DEF w, next, g
<1>9. /\ window' \in [Group -> [cand : Candidates, firsts : Seq(Key)]]
      /\ \A i \in Group : WindowFits(window'[i], cursor'[i])
  BY <1>1, <1>2, <1>4, <1>8, Parts DEF ShareInv
<1>. QED
  BY <1>5, <1>9 DEF ShareInv

LEMMA EmptyWindows ==
    ASSUME NEW w, w = [g \in Group |-> NoPicks]
    PROVE  /\ w \in [Group -> [cand : Candidates, firsts : Seq(Key)]]
           /\ \A c : \A g \in Group : WindowFits(w[g], c)
<1>1. NoPicks \in [cand : Candidates, firsts : Seq(Key)] /\ NoPicks.firsts \in Seq(Key)
  BY CandidatesType DEF NoPicks
<1>2. ASSUME NEW c, NEW n, n = NoPicks PROVE WindowFits(n, c)
  <2>1. n.firsts \in Seq(Key)
    BY <1>1, <1>2
  <2>2. n = NoPicks \/ (Pick(n.cand) /\ FromCursor(n, c))
    BY <1>2
  <2>. QED
    BY <2>1, <2>2 DEF WindowFits
<1>. QED
  BY <1>1, <1>2

LEMMA InitShare == ShareInit => IInv /\ ShareInv
<1> SUFFICES ASSUME ShareInit PROVE IInv /\ ShareInv
  OBVIOUS
<1>1. IInv
  BY InitInv DEF ShareInit
<1>2. \A h \in Handler : req[h].pc # "loaded"
  BY DEF ShareInit, Init, Idle
<1>. QED
  BY <1>1, <1>2, EmptyWindows DEF ShareInit, ShareInv

LEMMA NextShare == IInv /\ ShareInv /\ [ShareNext]_shareVars => (IInv /\ ShareInv)'
<1> SUFFICES ASSUME IInv, ShareInv, [ShareNext]_shareVars PROVE IInv' /\ ShareInv'
  OBVIOUS
<1>1. [Next]_vars
  BY DEF ShareNext, shareVars, Next, Serve, vars
<1>2. IInv'
  BY <1>1, NextInv
<1>3. ASSUME UNCHANGED <<cursor, window>>,
             \A i \in Handler : req'[i].pc = "loaded" => req[i].pc = "loaded" /\ req'[i] = req[i]
      PROVE  ShareInv'
  BY <1>3 DEF ShareInv
<1>4. CASE \E h \in Handler : Advance(h) /\ Observe(CandGroup(req[h].cand), req[h].cand, req'[h].first)
  BY <1>2, <1>4, AdvanceShare
<1>5. CASE \E h \in Handler : (\E g \in Group : Load(h, g)) /\ UNCHANGED window
  BY <1>2, <1>5, LoadShare
<1>6. CASE \E h \in Handler : Attempt(h) /\ UNCHANGED window
  BY <1>2, <1>3, <1>6, AttemptNotLoaded
<1>7. CASE (Administer \/ Tick) /\ UNCHANGED window
  <2>1. req' = req /\ cursor' = cursor
    BY <1>7 DEF Administer, CreateKey, UpdateKey, ResetCooldown, DeleteKey,
                ToggleRead, ToggleWrite, ToggleClear, Tick
  <2>. QED
    BY <1>2, <1>3, <1>7, <2>1
<1>8. CASE Restart /\ window' = [g \in Group |-> NoPicks]
  <2>1. \A h \in Handler : req'[h].pc # "loaded"
    BY <1>8 DEF Restart, Idle
  <2>. QED
    BY <1>2, <1>8, <2>1, EmptyWindows DEF ShareInv
<1>9. CASE UNCHANGED shareVars
  BY <1>2, <1>3, <1>9 DEF shareVars, vars
<1>. QED
  BY <1>4, <1>5, <1>6, <1>7, <1>8, <1>9 DEF ShareNext

\* The round robin shares a group's traffic by weight: as long as the candidates
\* stay the same, any round of picks starts with each as often as its weight
\* says, whichever goroutines pick and in whatever order they reach the cursor
\* (PickAttempts).
THEOREM SharesByWeight == ShareSpec => []WeightedShare
<1>1. IInv /\ ShareInv => WeightedShare
  <2> SUFFICES ASSUME IInv, ShareInv, NEW g \in Group,
                      Len(window[g].firsts) = TotalWeight(window[g].cand),
                      NEW k \in DOMAIN window[g].cand
               PROVE  Cardinality({i \in DOMAIN window[g].firsts : window[g].firsts[i] = k})
                         = window[g].cand[k]
    BY DEF WeightedShare
  <2> DEFINE w == window[g]
             T == TotalWeight(w.cand)
             c == cursor[g]
  <2>1. WindowFits(w, c) /\ w # NoPicks /\ c \in Nat
    BY CandidatesType, Parts, PoolAssumption DEF ShareInv, NoPicks
  <2>2. Pick(w.cand) /\ FromCursor(w, c) /\ w.firsts \in Seq(Key)
    BY <2>1 DEF WindowFits
  <2>3. DOMAIN w.firsts = 1 .. T /\ \A i \in 1 .. T : w.firsts[i] = Chosen(w.cand, Ago(c, T - i + 1, T))
    BY <2>2 DEF FromCursor
  <2>4. {i \in DOMAIN w.firsts : w.firsts[i] = k}
           = {i \in 1 .. T : Chosen(w.cand, Ago(c, T - i + 1, T)) = k}
    BY <2>3
  <2>5. Weighing(w.cand)
    BY <2>2, PickFacts
  <2>. QED
    BY <2>1, <2>4, <2>5, RoundIsShared
<1>. QED
  BY <1>1, InitShare, NextShare, PTL DEF ShareSpec
=============================================================================
