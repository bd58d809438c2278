-------------------------- MODULE TokenGateProofs --------------------------
(***************************************************************************)
(* The request cap and the rate limit of TokenGate for any number of       *)
(* tokens and handlers.                                                    *)
(***************************************************************************)
EXTENDS TokenGate, TLAPS, SequenceTheorems

CapTypes ==
    /\ token \in [Token -> TokenRow]
    /\ granted \in [Token -> Nat]
    /\ peak \in [Token -> Nat]
    /\ req \in [Handler -> [pc : {"idle", "rate", "cap", "reserving", "proxy"},
                            tok : {NoRequest.tok} \cup Token,
                            rate : Nat, max : Nat]]
    /\ \A h \in Handler : req[h].pc # "idle" => req[h].tok \in Token

\* No reservation exists before the token does, and the current cap of an
\* existing token is never above the highest it has had.
CapFacts(t) ==
    /\ token[t].used = granted[t]
    /\ granted[t] <= peak[t]
    /\ token[t].state = "unborn" => granted[t] = 0
    /\ token[t].state = "present" => token[t].max <= peak[t]

IInv == CapTypes /\ \A t \in Token : CapFacts(t)

LEMMA HigherFacts ==
    \A a, b \in Nat : Higher(a, b) \in Nat /\ a <= Higher(a, b) /\ b <= Higher(a, b)
  BY DEF Higher

LEMMA EndTypes ==
    ASSUME CapTypes, NEW h \in Handler, End(h), UNCHANGED <<token, granted, peak>>
    PROVE  CapTypes'
<1>1. NoRequest.pc = "idle" /\ NoRequest.rate = 0 /\ NoRequest.max = 0
  BY DEF NoRequest
<1>2. NoRequest \in [pc : {"idle", "rate", "cap", "reserving", "proxy"},
                     tok : {NoRequest.tok} \cup Token, rate : Nat, max : Nat]
  BY DEF NoRequest
<1> HIDE DEF NoRequest
<1>. QED
  BY <1>1, <1>2 DEF CapTypes, End

LEMMA GoOnTypes ==
    ASSUME CapTypes, NEW h \in Handler, req[h].pc # "idle",
           NEW pc \in {"cap", "reserving", "proxy"}, GoOn(h, pc)
    PROVE  /\ req' \in [Handler ->
                         [pc : {"idle", "rate", "cap", "reserving", "proxy"},
                          tok : {NoRequest.tok} \cup Token, rate : Nat, max : Nat]]
           /\ \A i \in Handler : req'[i].pc # "idle" => req'[i].tok \in Token
  BY DEF CapTypes, GoOn

LEMMA InitInv == Init => IInv
<1> SUFFICES ASSUME Init PROVE IInv
  OBVIOUS
<1>1. token \in [Token -> TokenRow] /\ \A t \in Token : token[t].used = 0
                                     /\ token[t].state = "unborn"
  BY GateAssumption DEF Init, NoToken, TokenRow
<1>2. NoRequest.pc = "idle"
      /\ NoRequest \in [pc : {"idle", "rate", "cap", "reserving", "proxy"},
                        tok : {NoRequest.tok} \cup Token, rate : Nat, max : Nat]
  BY DEF NoRequest
<1>. QED
  BY <1>1, <1>2 DEF Init, IInv, CapTypes, CapFacts

LEMMA ServeInv == ASSUME IInv, NEW h \in Handler, Serve(h) PROVE IInv'
<1>1. CapTypes /\ \A t \in Token : CapFacts(t)
  BY DEF IInv
<1>2. ASSUME CapTypes', UNCHANGED <<token, granted, peak>> PROVE IInv'
  BY <1>1, <1>2 DEF IInv, CapFacts
<1>3. CASE \E t \in Token : Auth(h, t)
  <2>1. PICK t \in Token : Auth(h, t)
    BY <1>3
  <2>2. token[t].rate \in Nat /\ token[t].max \in Nat
    BY <1>1, GateAssumption DEF CapTypes, TokenRow
  <2>3. CapTypes'
    BY <1>1, <2>1, <2>2 DEF Auth, CapTypes, history
  <2>. QED
    BY <1>2, <2>1, <2>3 DEF Auth, history
<1>4. CASE Unlimited(h)
  <2>1. CapTypes'
    BY <1>1, <1>4, GoOnTypes DEF Unlimited, history, CapTypes
  <2>. QED
    BY <1>2, <1>4, <2>1 DEF Unlimited, history
<1>5. CASE RateAdmit(h)
  <2>1. CapTypes'
    BY <1>1, <1>5, GoOnTypes DEF RateAdmit, CapTypes
  <2>. QED
    BY <1>2, <1>5, <2>1 DEF RateAdmit
<1>6. CASE RateReject(h) \/ Refuse(h) \/ StoreError(h) \/ Done(h)
  <2>1. End(h) /\ UNCHANGED <<token, granted, peak>>
    BY <1>6 DEF RateReject, Refuse, StoreError, Done, history
  <2>. QED
    BY <1>1, <1>2, <2>1, EndTypes
<1>7. CASE CapCheck(h)
  <2>1. UNCHANGED <<token, granted, peak>>
    BY <1>7 DEF CapCheck, history
  <2>2. req[h].pc # "idle" /\ (End(h) \/ GoOn(h, "proxy") \/ GoOn(h, "reserving"))
    BY <1>7 DEF CapCheck
  <2>3. CapTypes'
    BY <1>1, <2>1, <2>2, EndTypes, GoOnTypes DEF CapTypes
  <2>. QED
    BY <1>2, <2>1, <2>3
<1>8. CASE Reserve(h)
  <2> DEFINE t == req[h].tok
  <2>1. t \in Token /\ Reservable(token[t])
    BY <1>1, <1>8 DEF Reserve, CapTypes
  <2>2. /\ token[t].used \in Nat /\ token[t].max \in Nat
        /\ granted[t] \in Nat /\ peak[t] \in Nat
    BY <1>1, <2>1, GateAssumption DEF CapTypes, TokenRow
  <2>3. granted[t] + 1 <= peak[t] /\ token[t].state = "present"
    BY <1>1, <2>1, <2>2 DEF CapFacts, Reservable
  <2>4. /\ token' = [token EXCEPT ![t].used = @ + 1]
        /\ granted' = [granted EXCEPT ![t] = @ + 1]
        /\ peak' = peak /\ GoOn(h, "proxy") /\ req[h].pc # "idle"
    BY <1>8 DEF Reserve
  <2>5. token' \in [Token -> TokenRow] /\ granted' \in [Token -> Nat]
    BY <1>1, <2>1, <2>2, <2>4 DEF CapTypes, TokenRow
  <2>6. CapTypes'
    BY <1>1, <2>4, <2>5, GoOnTypes DEF CapTypes
  <2>7. ASSUME NEW u \in Token PROVE CapFacts(u)'
    BY <1>1, <2>1, <2>2, <2>3, <2>4 DEF CapFacts, CapTypes, TokenRow
  <2>. QED
    BY <2>6, <2>7 DEF IInv
<1>. QED
  BY <1>3, <1>4, <1>5, <1>6, <1>7, <1>8 DEF Serve

LEMMA AdministerInv == ASSUME IInv, NEW t \in Token, Administer(t) PROVE IInv'
<1>1. CapTypes /\ \A u \in Token : CapFacts(u)
  BY DEF IInv
<1>2. /\ token[t] \in TokenRow /\ token[t].used \in Nat /\ token[t].max \in Nat
      /\ granted[t] \in Nat /\ peak[t] \in Nat
  BY <1>1, GateAssumption DEF CapTypes, TokenRow
<1>3. CASE CreateToken(t)
  <2>1. PICK r \in Rates, m \in Caps :
           /\ token' = [token EXCEPT ![t] =
                 [state |-> "present", enabled |-> TRUE, expired |-> FALSE,
                  rate |-> r, max |-> m, used |-> 0]]
           /\ peak' = [peak EXCEPT ![t] = m]
    BY <1>3 DEF CreateToken
  <2>2. m \in Nat /\ granted[t] = 0 /\ UNCHANGED <<req, granted>>
    BY <1>1, <1>3, GateAssumption DEF CreateToken, CapFacts
  <2>3. CapTypes'
    BY <1>1, <2>1, <2>2 DEF CapTypes, TokenRow
  <2>4. ASSUME NEW u \in Token PROVE CapFacts(u)'
    BY <1>1, <2>1, <2>2 DEF CapFacts, CapTypes
  <2>. QED
    BY <2>3, <2>4 DEF IInv
<1>4. CASE UpdateToken(t)
  <2>1. PICK r \in Rates, m \in Caps, on, past \in BOOLEAN :
           /\ token' = [token EXCEPT ![t].rate = r, ![t].max = m,
                                     ![t].enabled = on, ![t].expired = past]
           /\ peak' = [peak EXCEPT ![t] = Higher(@, m)]
    BY <1>4 DEF UpdateToken
  <2>2. m \in Nat /\ UNCHANGED <<req, granted>>
    BY <1>4, GateAssumption DEF UpdateToken
  <2>3. /\ Higher(peak[t], m) \in Nat /\ peak[t] <= Higher(peak[t], m)
        /\ m <= Higher(peak[t], m)
    BY <1>2, <2>2, HigherFacts
  <2> DEFINE new == [token[t] EXCEPT !.rate = r, !.max = m, !.enabled = on,
                                     !.expired = past]
  <2>4. CapTypes'
    <3>1. new \in TokenRow
      BY <1>2, <2>1 DEF TokenRow
    <3>2. token' = [token EXCEPT ![t] = new]
      BY <1>1, <2>1 DEF CapTypes
    <3> HIDE DEF new
    <3>3. token' \in [Token -> TokenRow]
      BY <1>1, <3>1, <3>2 DEF CapTypes
    <3>4. peak' \in [Token -> Nat]
      BY <1>1, <2>1, <2>3 DEF CapTypes
    <3>5. CapTypes /\ req' = req /\ granted' = granted
      BY <1>1, <2>2
    <3>. QED
      BY <3>3, <3>4, <3>5 DEF CapTypes
  <2>5. ASSUME NEW u \in Token PROVE CapFacts(u)'
    BY <1>1, <1>2, <2>1, <2>2, <2>3 DEF CapFacts, CapTypes, TokenRow
  <2>. QED
    BY <2>4, <2>5 DEF IInv
<1>5. CASE DeleteToken(t) \/ Expire(t)
  <2>1. /\ UNCHANGED <<req, granted, peak>>
        /\ \/ token' = [token EXCEPT ![t].state = "gone"] /\ Exists(t)
           \/ token' = [token EXCEPT ![t].expired = TRUE]
    BY <1>5 DEF DeleteToken, Expire, history
  <2>2. /\ [token[t] EXCEPT !.state = "gone"] \in TokenRow
        /\ [token[t] EXCEPT !.expired = TRUE] \in TokenRow
    BY <1>2 DEF TokenRow
  <2>3. token' \in [Token -> TokenRow]
    BY <1>1, <2>1, <2>2 DEF CapTypes
  <2>4. CapTypes'
    BY <1>1, <2>1, <2>3 DEF CapTypes
  <2>5. ASSUME NEW u \in Token PROVE CapFacts(u)'
    BY <1>1, <2>1 DEF CapFacts, CapTypes, TokenRow
  <2>. QED
    BY <2>4, <2>5 DEF IInv
<1>. QED
  BY <1>3, <1>4, <1>5 DEF Administer

LEMMA NextInv == IInv /\ [Next]_vars => IInv'
<1> SUFFICES ASSUME IInv, [Next]_vars PROVE IInv'
  OBVIOUS
<1>1. CASE Tick \/ UNCHANGED vars
  BY <1>1 DEF Tick, vars, IInv, CapTypes, CapFacts
<1>2. CASE Restart
  <2>1. NoRequest.pc = "idle"
        /\ NoRequest \in [pc : {"idle", "rate", "cap", "reserving", "proxy"},
                          tok : {NoRequest.tok} \cup Token, rate : Nat, max : Nat]
    BY DEF NoRequest
  <2>2. CapTypes'
    BY <1>2, <2>1 DEF Restart, IInv, CapTypes
  <2>. QED
    BY <1>2, <2>2 DEF Restart, IInv, CapFacts
<1>. QED
  BY <1>1, <1>2, ServeInv, AdministerInv DEF Next

THEOREM Invariance == Spec => []IInv
<1>. QED
  BY InitInv, NextInv, PTL DEF Spec

\* No more requests are let through on a reservation than the highest cap the
\* token has had, for any number of racing requests and any edits.
THEOREM CapIsHeld == Spec => []CapHeld
<1>1. IInv => CapHeld
  BY DEF IInv, CapFacts, CapHeld
<1>. QED
  BY <1>1, Invariance, PTL

\* requests_used counts the reservations exactly.
THEOREM UsedIsExact == Spec => []UsedExact
<1>1. IInv => UsedExact
  BY DEF IInv, CapFacts, UsedExact
<1>. QED
  BY <1>1, Invariance, PTL

----------------------------------------------------------------------------
(* The rate limit *)

Ages == Seq(0 .. Minute)

\* n divides ages: those younger than age are the ones after it.
Divides(n, ages, age) == \A i \in 1 .. Len(ages) : ages[i] < age <=> i > n

\* Ages are in order: whatever the age, those younger than it are the last.
InOrder(ages) == \A age \in Int : \E n \in 0 .. Len(ages) : Divides(n, ages, age)

\* The admissions of the last minute are what the limiter remembers of a token,
\* after what it has not purged yet.
Remembers(ages, rec) ==
    /\ InOrder(rec) /\ Len(rec) <= Len(ages)
    /\ \A i \in 1 .. Len(rec) : rec[i] < Minute /\ rec[i] = ages[Len(ages) - Len(rec) + i]
    /\ \A i \in 1 .. Len(ages) - Len(rec) : ages[i] = Minute

RateTypes ==
    /\ window \in [Token -> [known : BOOLEAN, limit : Nat, ages : Ages]]
    /\ recent \in [Token -> Ages]
RateFacts(t) ==
    /\ Remembers(window[t].ages, recent[t])
    /\ window[t].known => Len(recent[t]) <= window[t].limit
    /\ ~window[t].known => window[t].ages = <<>>
RateInv == RateTypes /\ \A t \in Token : RateFacts(t)

LEMMA AgesFacts ==
    ASSUME NEW ages \in Ages
    PROVE  /\ Len(ages) \in Nat /\ DOMAIN ages = 1 .. Len(ages)
           /\ \A i \in 1 .. Len(ages) : ages[i] \in 0 .. Minute
  BY ElementOfSeq, LenProperties DEF Ages

\* A division gives the young ones.
LEMMA YoungerFacts ==
    ASSUME NEW ages \in Ages, NEW age \in Int, NEW n \in 0 .. Len(ages), Divides(n, ages, age)
    PROVE  LET y == Younger(ages, age)
           IN  /\ y \in Ages /\ Len(y) = Len(ages) - n
               /\ \A i \in 1 .. Len(y) : y[i] = ages[n + i]
<1> DEFINE P(x) == \A i \in 1 .. Len(ages) : ages[i] < age <=> i > x
           k == CHOOSE x \in 0 .. Len(ages) : P(x)
<1>1. k \in 0 .. Len(ages) /\ P(k)
  <2>1. P(n)
    BY DEF Divides
  <2>2. \E x \in 0 .. Len(ages) : P(x)
    BY <2>1
  <2> HIDE DEF P
  <2>. QED
    BY <2>2
<1>2. Younger(ages, age) = SubSeq(ages, k + 1, Len(ages))
  BY Zenon DEF Younger
<1> HIDE DEF k
<1>3. Len(ages) \in Nat /\ \A i \in 1 .. Len(ages) : ages[i] \in 0 .. Minute
  BY AgesFacts
<1>4. k = n
  <2>1. ASSUME k < n PROVE FALSE
    <3>1. n \in 1 .. Len(ages) /\ n > k /\ ~(n > n)
      BY <1>1, <1>3, <2>1
    <3>. QED
      BY <1>1, <3>1 DEF Divides
  <2>2. ASSUME n < k PROVE FALSE
    <3>1. k \in 1 .. Len(ages) /\ k > n /\ ~(k > k)
      BY <1>1, <1>3, <2>2
    <3>. QED
      BY <1>1, <3>1 DEF Divides
  <2>. QED
    BY <1>1, <1>3, <2>1, <2>2
<1> HIDE DEF P
<1>5. \A i \in n + 1 .. Len(ages) : ages[i] \in 0 .. Minute
  BY <1>3
<1> DEFINE y == SubSeq(ages, n + 1, Len(ages))
<1>6. /\ y \in Seq(0 .. Minute)
      /\ Len(y) = IF n + 1 <= Len(ages) THEN Len(ages) - (n + 1) + 1 ELSE 0
      /\ \A i \in 1 .. Len(ages) - (n + 1) + 1 : y[i] = ages[(n + 1) + i - 1]
  BY <1>3, <1>5, SubSeqProperties
<1> HIDE DEF y
<1>7. Len(y) = Len(ages) - n /\ \A i \in 1 .. Len(y) : y[i] = ages[n + i]
  BY <1>3, <1>6
<1>. QED
  BY <1>2, <1>4, <1>6, <1>7 DEF y, Ages

LEMMA NoAges == <<>> \in Ages /\ Len(<<>>) = 0 /\ InOrder(<<>>)
  BY DEF Ages, InOrder, Divides

\* One more admission.
LEMMA AppendFacts ==
    ASSUME NEW ages \in Ages
    PROVE  /\ Append(ages, 0) \in Ages /\ Len(Append(ages, 0)) = Len(ages) + 1
           /\ \A i \in 1 .. Len(ages) : Append(ages, 0)[i] = ages[i]
           /\ Append(ages, 0)[Len(ages) + 1] = 0
  BY GateAssumption DEF Ages

LEMMA AppendInOrder ==
    ASSUME NEW ages \in Ages, InOrder(ages)
    PROVE  InOrder(Append(ages, 0))
<1> DEFINE new == Append(ages, 0)
<1>1. /\ Len(ages) \in Nat /\ Len(new) = Len(ages) + 1 /\ new[Len(ages) + 1] = 0
      /\ \A i \in 1 .. Len(ages) : new[i] = ages[i] /\ ages[i] \in 0 .. Minute
  BY AppendFacts, AgesFacts
<1> HIDE DEF new
<1>2. ASSUME NEW age \in Int, age > 0 PROVE \E n \in 0 .. Len(new) : Divides(n, new, age)
  <2>1. PICK n \in 0 .. Len(ages) : Divides(n, ages, age)
    BY DEF InOrder
  <2>2. n \in 0 .. Len(new)
    BY <1>1
  <2>3. ASSUME NEW i \in 1 .. Len(new) PROVE new[i] < age <=> i > n
    <3>1. CASE i = Len(ages) + 1
      BY <1>1, <1>2, <3>1
    <3>2. CASE i # Len(ages) + 1
      <4>1. i \in 1 .. Len(ages) /\ new[i] = ages[i]
        BY <1>1, <3>2
      <4>. QED
        BY <2>1, <4>1 DEF Divides
    <3>. QED
      BY <3>1, <3>2
  <2>. QED
    BY <2>2, <2>3 DEF Divides
<1>3. ASSUME NEW age \in Int, age <= 0 PROVE \E n \in 0 .. Len(new) : Divides(n, new, age)
  <2>1. ASSUME NEW i \in 1 .. Len(new) PROVE ~(new[i] < age) /\ ~(i > Len(new))
    <3>1. CASE i = Len(ages) + 1
      BY <1>1, <1>3, <3>1
    <3>2. CASE i # Len(ages) + 1
      <4>1. i \in 1 .. Len(ages) /\ new[i] \in 0 .. Minute
        BY <1>1, <3>2
      <4>. QED
        BY <1>1, <1>3, <4>1
    <3>. QED
      BY <3>1, <3>2
  <2>2. Len(new) \in 0 .. Len(new)
    BY <1>1
  <2>. QED
    BY <2>1, <2>2 DEF Divides
<1>4. ASSUME NEW age \in Int PROVE \E n \in 0 .. Len(new) : Divides(n, new, age)
  <2>1. age > 0 \/ age <= 0
    OBVIOUS
  <2>. QED
    BY <1>2, <1>3, <2>1
<1>. QED
  BY <1>4 DEF InOrder, new

\* A tick of the clock.
LEMMA OlderFacts ==
    ASSUME NEW ages \in Ages
    PROVE  /\ Older(ages) \in Ages /\ Len(Older(ages)) = Len(ages)
           /\ \A i \in 1 .. Len(ages) :
                 Older(ages)[i] = IF ages[i] < Minute THEN ages[i] + 1 ELSE Minute
<1>1. DOMAIN ages = 1 .. Len(ages) /\ Len(ages) \in Nat /\ \A i \in 1 .. Len(ages) : ages[i] \in 0 .. Minute
  BY AgesFacts
<1>2. Older(ages) = [i \in 1 .. Len(ages) |-> IF ages[i] < Minute THEN ages[i] + 1 ELSE Minute]
  BY <1>1 DEF Older
<1>3. \A i \in 1 .. Len(ages) : (IF ages[i] < Minute THEN ages[i] + 1 ELSE Minute) \in 0 .. Minute
  BY <1>1, GateAssumption
<1>4. Older(ages) \in [1 .. Len(ages) -> 0 .. Minute]
  BY <1>2, <1>3
<1>. QED
  BY <1>1, <1>2, <1>4 DEF Ages

LEMMA OlderInOrder ==
    ASSUME NEW ages \in Ages, InOrder(ages)
    PROVE  InOrder(Older(ages))
<1> DEFINE old == Older(ages)
<1>1. /\ Len(ages) \in Nat /\ Len(old) = Len(ages)
      /\ \A i \in 1 .. Len(ages) : /\ ages[i] \in 0 .. Minute
                                   /\ old[i] = IF ages[i] < Minute THEN ages[i] + 1 ELSE Minute
  BY OlderFacts, AgesFacts
<1> HIDE DEF old
<1>2. ASSUME NEW age \in Int PROVE \E n \in 0 .. Len(old) : Divides(n, old, age)
  <2>1. CASE age > Minute
    <3>1. \A i \in 1 .. Len(old) : old[i] < age /\ i > 0
      BY <1>1, <2>1, GateAssumption
    <3>2. 0 \in 0 .. Len(old)
      BY <1>1
    <3>. QED
      BY <3>1, <3>2 DEF Divides
  <2>2. CASE age <= Minute
    <3>1. PICK n \in 0 .. Len(ages) : Divides(n, ages, age - 1)
      BY DEF InOrder
    <3>2. ASSUME NEW i \in 1 .. Len(old) PROVE old[i] < age <=> i > n
      <4>1. ages[i] < age - 1 <=> i > n
        BY <1>1, <3>1 DEF Divides
      <4>. QED
        BY <1>1, <2>2, <4>1, GateAssumption
    <3>. QED
      BY <1>1, <3>2 DEF Divides
  <2>. QED
    BY <2>1, <2>2, GateAssumption
<1>. QED
  BY <1>2 DEF InOrder, old

\* What is left of ages in order is in order.
LEMMA YoungerInOrder ==
    ASSUME NEW ages \in Ages, InOrder(ages), NEW age \in Int
    PROVE  /\ InOrder(Younger(ages, age))
           /\ \E n \in 0 .. Len(ages) :
                 /\ Divides(n, ages, age) /\ Len(Younger(ages, age)) = Len(ages) - n
                 /\ \A i \in 1 .. Len(ages) - n : Younger(ages, age)[i] = ages[n + i]
<1>1. PICK n \in 0 .. Len(ages) : Divides(n, ages, age)
  BY DEF InOrder
<1> DEFINE y == Younger(ages, age)
<1>2. y \in Ages /\ Len(y) = Len(ages) - n /\ Len(ages) \in Nat /\ \A i \in 1 .. Len(y) : y[i] = ages[n + i]
  BY <1>1, YoungerFacts DEF Ages
<1> HIDE DEF y
<1>3. ASSUME NEW a \in Int PROVE \E m \in 0 .. Len(y) : Divides(m, y, a)
  <2>1. PICK k \in 0 .. Len(ages) : Divides(k, ages, a)
    BY DEF InOrder
  <2> DEFINE m == IF k > n THEN k - n ELSE 0
  <2>2. m \in 0 .. Len(y)
    BY <1>2
  <2>3. ASSUME NEW i \in 1 .. Len(y) PROVE y[i] < a <=> i > m
    <3>1. n + i \in 1 .. Len(ages) /\ y[i] = ages[n + i]
      BY <1>2
    <3>2. ages[n + i] < a <=> n + i > k
      BY <2>1, <3>1 DEF Divides
    <3>. QED
      BY <3>1, <3>2
  <2>. QED
    BY <2>2, <2>3 DEF Divides
<1>. QED
  BY <1>1, <1>2, <1>3 DEF InOrder, y

----------------------------------------------------------------------------
\* What the limiter remembers after its purge, after an admission, after a tick.
LEMMA PurgedRemembers ==
    ASSUME NEW ages \in Ages, NEW rec \in Ages, Remembers(ages, rec)
    PROVE  LET y == Younger(ages, Minute)
           IN  y \in Ages /\ Len(y) = Len(rec) /\ Remembers(y, rec)
<1> DEFINE n == Len(ages) - Len(rec)
           y == Younger(ages, Minute)
<1>1. /\ Len(ages) \in Nat /\ Len(rec) \in Nat /\ Minute \in Nat
      /\ \A i \in 1 .. Len(rec) : rec[i] \in 0 .. Minute
  BY AgesFacts, GateAssumption
<1>2. n \in 0 .. Len(ages) /\ Divides(n, ages, Minute)
  <2>1. n \in 0 .. Len(ages)
    BY <1>1 DEF Remembers
  <2>2. ASSUME NEW i \in 1 .. Len(ages) PROVE ages[i] < Minute <=> i > n
    <3>1. CASE i > n
      <4>1. i - n \in 1 .. Len(rec) /\ n + (i - n) = i
        BY <1>1, <2>1, <3>1
      <4>. QED
        BY <3>1, <4>1 DEF Remembers
    <3>2. CASE ~(i > n)
      <4>1. i \in 1 .. n
        BY <1>1, <2>1, <3>2
      <4>2. ages[i] = Minute
        BY <4>1 DEF Remembers
      <4>. QED
        BY <1>1, <3>2, <4>2
    <3>. QED
      BY <3>1, <3>2
  <2>. QED
    BY <2>1, <2>2 DEF Divides
<1>3. y \in Ages /\ Len(y) = Len(ages) - n /\ \A i \in 1 .. Len(y) : y[i] = ages[n + i]
  BY <1>1, <1>2, YoungerFacts
<1> HIDE DEF y
<1>4. Len(y) = Len(rec) /\ Len(y) - Len(rec) = 0
  BY <1>1, <1>3
<1>5. \A i \in 1 .. Len(rec) : rec[i] < Minute /\ rec[i] = ages[n + i] /\ y[i] = ages[n + i]
  BY <1>3, <1>4 DEF Remembers
<1>6. Remembers(y, rec)
  <2>1. \A i \in 1 .. Len(rec) : y[Len(y) - Len(rec) + i] = y[i]
    BY <1>1, <1>4
  <2>. QED
    BY <1>1, <1>4, <1>5, <2>1 DEF Remembers
<1>. QED
  BY <1>3, <1>4, <1>6 DEF y

LEMMA AppendRemembers ==
    ASSUME NEW ages \in Ages, NEW rec \in Ages, Remembers(ages, rec), Len(ages) = Len(rec)
    PROVE  Remembers(Append(ages, 0), Append(rec, 0))
<1> DEFINE a == Append(ages, 0)
           r == Append(rec, 0)
<1>1. /\ Len(rec) \in Nat /\ Minute \in Nat /\ Minute > 0
      /\ Len(a) = Len(rec) + 1 /\ Len(r) = Len(rec) + 1 /\ a[Len(rec) + 1] = 0 /\ r[Len(rec) + 1] = 0
      /\ \A i \in 1 .. Len(rec) : a[i] = ages[i] /\ r[i] = rec[i]
  BY AppendFacts, AgesFacts, GateAssumption
<1>2. InOrder(r)
  BY AppendInOrder DEF Remembers
<1> HIDE DEF a, r
<1>3. ASSUME NEW i \in 1 .. Len(r) PROVE r[i] < Minute /\ r[i] = a[Len(a) - Len(r) + i]
  <2>1. Len(a) - Len(r) + i = i
    BY <1>1
  <2>2. CASE i = Len(rec) + 1
    BY <1>1, <2>1, <2>2
  <2>3. CASE i # Len(rec) + 1
    <3>1. i \in 1 .. Len(rec) /\ Len(ages) - Len(rec) + i = i
      BY <1>1, <2>3
    <3>2. rec[i] < Minute /\ rec[i] = ages[i]
      BY <3>1 DEF Remembers
    <3>. QED
      BY <1>1, <2>1, <3>1, <3>2
  <2>. QED
    BY <2>2, <2>3
<1>4. Len(a) - Len(r) = 0 /\ Len(r) <= Len(a) /\ \A i \in 1 .. 0 : a[i] = Minute
  BY <1>1
<1>5. Remembers(a, r)
  BY <1>2, <1>3, <1>4 DEF Remembers
<1>. QED
  BY <1>5 DEF a, r

LEMMA TickRemembers ==
    ASSUME NEW ages \in Ages, NEW rec \in Ages, Remembers(ages, rec)
    PROVE  /\ Remembers(Older(ages), Younger(Older(rec), Minute))
           /\ Younger(Older(rec), Minute) \in Ages
           /\ Len(Younger(Older(rec), Minute)) <= Len(rec)
<1> DEFINE a == Older(ages)
           o == Older(rec)
           r == Younger(o, Minute)
<1>1. /\ Len(ages) \in Nat /\ Len(rec) \in Nat /\ Minute \in Nat /\ Len(a) = Len(ages) /\ Len(o) = Len(rec)
      /\ \A i \in 1 .. Len(ages) : a[i] = IF ages[i] < Minute THEN ages[i] + 1 ELSE Minute
      /\ \A i \in 1 .. Len(rec) : o[i] = IF rec[i] < Minute THEN rec[i] + 1 ELSE Minute
  BY AgesFacts, OlderFacts, GateAssumption
<1>2. o \in Ages /\ InOrder(o)
  BY OlderFacts, OlderInOrder DEF Remembers
<1>3. \A i \in 1 .. Len(rec) : o[i] \in 0 .. Minute
  BY <1>1, <1>2, AgesFacts
<1> HIDE DEF a, o
<1>4. PICK n \in 0 .. Len(o) :
          /\ Divides(n, o, Minute) /\ Len(r) = Len(o) - n
          /\ \A i \in 1 .. Len(o) - n : r[i] = o[n + i]
  <2>1. Minute \in Int
    BY <1>1
  <2>. QED
    BY <1>2, <2>1, YoungerInOrder
<1>5. InOrder(r) /\ r \in Ages
  BY <1>1, <1>2, <1>4, YoungerInOrder, YoungerFacts
<1> HIDE DEF r
<1>6. Len(r) <= Len(a) /\ Len(r) <= Len(rec) /\ Len(rec) <= Len(ages) /\ Len(r) \in Nat
  BY <1>1, <1>4 DEF Remembers
<1>7. ASSUME NEW i \in 1 .. Len(r) PROVE r[i] < Minute /\ r[i] = a[Len(a) - Len(r) + i]
  <2> DEFINE j == n + i
             k == Len(ages) - Len(rec) + j
  <2>1. /\ j \in 1 .. Len(rec) /\ j > n /\ r[i] = o[j]
        /\ k \in 1 .. Len(ages) /\ k = Len(a) - Len(r) + i
    BY <1>1, <1>4, <1>6
  <2>2. o[j] < Minute
    BY <1>1, <1>4, <2>1 DEF Divides
  <2>3. rec[j] = ages[k]
    BY <2>1 DEF Remembers
  <2> HIDE DEF j, k
  <2>4. a[k] = o[j]
    BY <1>1, <2>1, <2>3
  <2>. QED
    BY <2>1, <2>2, <2>4
<1>8. ASSUME NEW i \in 1 .. Len(a) - Len(r) PROVE a[i] = Minute
  <2>1. i \in 1 .. Len(ages)
    BY <1>1, <1>6
  <2>2. CASE i <= Len(ages) - Len(rec)
    <3>1. ages[i] = Minute
      BY <1>1, <1>6, <2>1, <2>2 DEF Remembers
    <3>. QED
      BY <1>1, <2>1, <3>1
  <2>3. CASE ~(i <= Len(ages) - Len(rec))
    <3> DEFINE j == i - (Len(ages) - Len(rec))
    <3>1. j \in 1 .. Len(rec) /\ ~(j > n) /\ Len(ages) - Len(rec) + j = i
      BY <1>1, <1>4, <1>6, <2>1, <2>3
    <3>2. rec[j] = ages[i]
      BY <3>1 DEF Remembers
    <3> HIDE DEF j
    <3>3. ~(o[j] < Minute) /\ o[j] \in 0 .. Minute
      BY <1>1, <1>3, <1>4, <3>1 DEF Divides
    <3>4. a[i] = o[j]
      BY <1>1, <2>1, <3>1, <3>2
    <3>. QED
      BY <1>1, <3>3, <3>4
  <2>. QED
    BY <2>2, <2>3
<1>9. Remembers(a, r)
  BY <1>5, <1>6, <1>7, <1>8 DEF Remembers
<1>. QED
  BY <1>5, <1>6, <1>9 DEF a, o, r

----------------------------------------------------------------------------
IsEntry(w) == w \in [known : BOOLEAN, limit : Nat, ages : Ages]

LEMMA StartRate == NoWindow \in [known : BOOLEAN, limit : Nat, ages : Ages] /\ Remembers(<<>>, <<>>)
                   /\ NoWindow.known = FALSE /\ NoWindow.ages = <<>>
<1>1. NoWindow.known = FALSE /\ NoWindow.ages = <<>>
  BY DEF NoWindow
<1>2. NoWindow \in [known : BOOLEAN, limit : Nat, ages : Ages]
  BY NoAges DEF NoWindow
<1>3. Remembers(<<>>, <<>>)
  BY NoAges DEF Remembers
<1>. QED
  BY <1>1, <1>2, <1>3

\* The entry that a request finds, and what the purge leaves of it.
LEMMA EntryFound ==
    ASSUME RateInv, NEW t \in Token, NEW rate \in Nat, NEW e, e = Entry(t, rate)
    PROVE  IsEntry(e) /\ e.known /\ Remembers(e.ages, recent[t]) /\ Len(recent[t]) <= e.limit
<1>1. RateFacts(t) /\ IsEntry(window[t]) /\ recent[t] \in Ages
  BY DEF RateInv, RateTypes, IsEntry
<1>2. CASE window[t].known
  <2>1. e = window[t]
    BY <1>2 DEF Entry
  <2>. QED
    BY <1>1, <1>2, <2>1 DEF RateFacts
<1>3. CASE ~window[t].known
  <2>1. e = [known |-> TRUE, limit |-> rate, ages |-> <<>>]
    BY <1>3 DEF Entry
  <2>2. window[t].ages = <<>>
    BY <1>1, <1>3 DEF RateFacts
  <2>3. Remembers(<<>>, recent[t])
    BY <1>1, <2>2 DEF RateFacts
  <2>4. Len(recent[t]) = 0
    BY <1>1, <2>3, NoAges, AgesFacts DEF Remembers
  <2>5. e.known /\ e.limit = rate /\ e.ages = <<>>
    BY <2>1
  <2>6. IsEntry(e)
    BY <2>1, NoAges DEF IsEntry
  <2>. QED
    BY <2>3, <2>4, <2>5, <2>6
<1>. QED
  BY <1>2, <1>3

LEMMA PurgedEntry ==
    ASSUME IInv, RateInv, NEW h \in Handler, req[h].pc = "rate"
    PROVE  LET w == Purged(h)
               t == req[h].tok
           IN  /\ t \in Token /\ IsEntry(w) /\ Len(w.ages) = Len(recent[t]) /\ Remembers(w.ages, recent[t])
               /\ w.known /\ Len(recent[t]) <= w.limit
               /\ w = [known |-> w.known, limit |-> w.limit, ages |-> w.ages]
<1> DEFINE t == req[h].tok
           e == Entry(t, req[h].rate)
<1>1. t \in Token /\ req[h].rate \in Nat
  BY DEF IInv, CapTypes
<1>2. recent[t] \in Ages
  BY <1>1 DEF RateInv, RateTypes
<1>5. IsEntry(e) /\ e.known /\ Remembers(e.ages, recent[t]) /\ Len(recent[t]) <= e.limit
  BY <1>1, EntryFound
<1> DEFINE y == Younger(e.ages, Minute)
           w == [e EXCEPT !.ages = y]
<1>6. Purged(h) = w
  BY Zenon DEF Purged
<1> HIDE DEF e
<1>7. y \in Ages /\ Len(y) = Len(recent[t]) /\ Remembers(y, recent[t])
  BY <1>2, <1>5, PurgedRemembers DEF IsEntry
<1> HIDE DEF y
<1>8. w = [known |-> e.known, limit |-> e.limit, ages |-> y]
  <2>1. e \in [known : BOOLEAN, limit : Nat, ages : Ages]
    BY <1>5 DEF IsEntry
  <2>. QED
    BY <2>1
<1> HIDE DEF w
<1>9. w.known = e.known /\ w.limit = e.limit /\ w.ages = y
  BY <1>5, <1>8
<1>10. IsEntry(w)
  BY <1>5, <1>7, <1>8 DEF IsEntry
<1>. QED
  BY <1>1, <1>5, <1>6, <1>7, <1>8, <1>9, <1>10

\* A step on the entry of one token.
LEMMA EntryRate ==
    ASSUME RateInv, NEW t \in Token, NEW w, IsEntry(w), NEW rec \in Ages,
           window' = [window EXCEPT ![t] = w], recent' = [recent EXCEPT ![t] = rec],
           Remembers(w.ages, rec), w.known, Len(rec) <= w.limit
    PROVE  RateInv'
<1>1. RateTypes'
  BY DEF RateInv, RateTypes, IsEntry
<1>2. window'[t] = w /\ recent'[t] = rec
      /\ \A u \in Token \ {t} : window'[u] = window[u] /\ recent'[u] = recent[u]
  BY DEF RateInv, RateTypes
<1>3. ASSUME NEW u \in Token PROVE RateFacts(u)'
  BY <1>2, <1>3 DEF RateInv, RateFacts
<1>. QED
  BY <1>1, <1>3 DEF RateInv

LEMMA RateAdmitRate ==
    ASSUME IInv, RateInv, NEW h \in Handler, RateAdmit(h)
    PROVE  RateInv'
<1> DEFINE t == req[h].tok
           w == Purged(h)
           new == [w EXCEPT !.ages = Append(@, 0)]
           rec == Append(recent[t], 0)
<1>1. /\ req[h].pc = "rate" /\ Len(w.ages) < w.limit
      /\ window' = [window EXCEPT ![t] = new] /\ recent' = [recent EXCEPT ![t] = Append(@, 0)]
  BY Zenon DEF RateAdmit
<1>2. /\ t \in Token /\ IsEntry(w) /\ Len(w.ages) = Len(recent[t]) /\ Remembers(w.ages, recent[t])
      /\ w.known /\ w = [known |-> w.known, limit |-> w.limit, ages |-> w.ages]
  BY <1>1, PurgedEntry
<1> HIDE DEF w
<1>3. recent[t] \in Ages /\ w.ages \in Ages /\ w.limit \in Nat
  BY <1>2 DEF RateInv, RateTypes, IsEntry
<1>4. rec \in Ages /\ Len(rec) = Len(recent[t]) + 1 /\ Append(w.ages, 0) \in Ages
  BY <1>3, AppendFacts
<1>5. Remembers(Append(w.ages, 0), rec)
  BY <1>2, <1>3, AppendRemembers
<1>6. new = [known |-> w.known, limit |-> w.limit, ages |-> Append(w.ages, 0)]
  <2> DEFINE a == Append(w.ages, 0)
  <2>1. new = [w EXCEPT !.ages = a]
    BY Zenon
  <2> HIDE DEF a, new
  <2>2. new = [known |-> w.known, limit |-> w.limit, ages |-> a]
    BY <1>2, <2>1 DEF IsEntry
  <2>. QED
    BY <2>2 DEF a
<1>7. IsEntry(new) /\ new.ages = Append(w.ages, 0) /\ new.known /\ new.limit = w.limit
  BY <1>2, <1>4, <1>6 DEF IsEntry
<1>8. Len(rec) <= w.limit
  BY <1>1, <1>2, <1>3, <1>4, AgesFacts
<1>9. recent' = [recent EXCEPT ![t] = rec]
  BY <1>1, <1>2 DEF RateInv, RateTypes
<1> HIDE DEF new, rec, t
<1>. QED
  BY <1>1, <1>2, <1>4, <1>5, <1>7, <1>8, <1>9, EntryRate

LEMMA RateRejectRate ==
    ASSUME IInv, RateInv, NEW h \in Handler, RateReject(h)
    PROVE  RateInv'
<1> DEFINE t == req[h].tok
           w == Purged(h)
<1>1. req[h].pc = "rate" /\ window' = [window EXCEPT ![t] = w] /\ recent' = recent
  BY Zenon DEF RateReject, history
<1>2. /\ t \in Token /\ IsEntry(w) /\ Remembers(w.ages, recent[t])
      /\ w.known /\ Len(recent[t]) <= w.limit
  BY <1>1, PurgedEntry
<1> HIDE DEF w
<1>3. recent[t] \in Ages /\ recent' = [recent EXCEPT ![t] = recent[t]]
  BY <1>1, <1>2 DEF RateInv, RateTypes
<1>. QED
  BY <1>1, <1>2, <1>3, EntryRate

LEMMA TickRate ==
    ASSUME RateInv, Tick
    PROVE  RateInv'
<1>1. /\ window' = [t \in Token |-> [window[t] EXCEPT !.ages = Older(@)]]
      /\ recent' = [t \in Token |-> Younger(Older(recent[t]), Minute)]
  BY DEF Tick
<1>2. ASSUME NEW t \in Token
      PROVE  IsEntry(window'[t]) /\ recent'[t] \in Ages /\ RateFacts(t)'
  <2> DEFINE w == window[t]
  <2>1. RateFacts(t) /\ IsEntry(w) /\ recent[t] \in Ages
    BY DEF RateInv, RateTypes, IsEntry
  <2>2. w.ages \in Ages /\ Older(w.ages) \in Ages /\ (w.ages = <<>> => Older(w.ages) = <<>>)
    <3>1. w.ages \in Ages
      BY <2>1 DEF IsEntry
    <3>2. Older(w.ages) \in Ages /\ Len(Older(w.ages)) = Len(w.ages)
      BY <3>1, OlderFacts
    <3>3. w.ages = <<>> => Older(w.ages) = <<>>
      BY <3>2, NoAges, EmptySeq DEF Ages
    <3>. QED
      BY <3>1, <3>2, <3>3
  <2>3. window'[t] = [known |-> w.known, limit |-> w.limit, ages |-> Older(w.ages)]
    BY <1>1, <2>1 DEF IsEntry
  <2>4. window'[t].known = w.known /\ window'[t].limit = w.limit /\ window'[t].ages = Older(w.ages)
    BY <2>3
  <2>5. IsEntry(window'[t])
    BY <2>1, <2>2, <2>3 DEF IsEntry
  <2>6. recent'[t] = Younger(Older(recent[t]), Minute)
    BY <1>1
  <2>7. /\ Remembers(Older(w.ages), recent'[t]) /\ recent'[t] \in Ages
        /\ Len(recent'[t]) <= Len(recent[t])
    BY <2>1, <2>2, <2>6, TickRemembers DEF RateFacts
  <2>8. w.limit \in Nat /\ Len(recent[t]) \in Nat /\ Len(recent'[t]) \in Nat
    BY <2>1, <2>7, AgesFacts DEF IsEntry
  <2>9. w.known => Len(recent'[t]) <= w.limit
    BY <2>1, <2>7, <2>8 DEF RateFacts
  <2>10. ~w.known => Older(w.ages) = <<>>
    BY <2>1, <2>2 DEF RateFacts
  <2>. QED
    BY <2>4, <2>5, <2>7, <2>9, <2>10 DEF RateFacts
<1>3. RateTypes'
  <2>1. window' \in [Token -> [known : BOOLEAN, limit : Nat, ages : Ages]]
    BY <1>1, <1>2 DEF IsEntry
  <2>2. recent' \in [Token -> Ages]
    BY <1>1, <1>2
  <2>. QED
    BY <2>1, <2>2 DEF RateTypes
<1>. QED
  BY <1>2, <1>3 DEF RateInv

LEMMA FreshRate ==
    ASSUME window = [t \in Token |-> NoWindow], recent = [t \in Token |-> <<>>]
    PROVE  RateInv
  BY StartRate, NoAges DEF RateInv, RateTypes, RateFacts

LEMMA NextRate == IInv /\ RateInv /\ [Next]_vars => RateInv'
<1> SUFFICES ASSUME IInv, RateInv, [Next]_vars PROVE RateInv'
  OBVIOUS
<1>1. CASE UNCHANGED <<window, recent>>
  BY <1>1 DEF RateInv, RateTypes, RateFacts
<1>2. CASE \E h \in Handler : RateAdmit(h)
  BY <1>2, RateAdmitRate
<1>3. CASE \E h \in Handler : RateReject(h)
  BY <1>3, RateRejectRate
<1>4. CASE Tick
  BY <1>4, TickRate
<1>5. CASE Restart
  <2>1. window' = [t \in Token |-> NoWindow] /\ recent' = [t \in Token |-> <<>>]
    BY <1>5 DEF Restart
  <2>2. RateTypes'
    BY <2>1, StartRate, NoAges DEF RateTypes
  <2>3. ASSUME NEW t \in Token PROVE RateFacts(t)'
    BY <2>1, StartRate DEF RateFacts
  <2>. QED
    BY <2>2, <2>3 DEF RateInv
<1>6. ASSUME NEW h \in Handler, Serve(h) PROVE RateInv'
  <2>1. CASE (\E t \in Token : Auth(h, t)) \/ Unlimited(h) \/ CapCheck(h) \/ Refuse(h) \/ StoreError(h) \/ Done(h)
    BY <1>1, <2>1 DEF Auth, Unlimited, CapCheck, Refuse, StoreError, Done, history
  <2>2. CASE Reserve(h)
    BY <1>1, <2>2 DEF Reserve
  <2>. QED
    BY <1>2, <1>3, <1>6, <2>1, <2>2 DEF Serve
<1>7. ASSUME NEW t \in Token, Administer(t) PROVE RateInv'
  <2>1. UNCHANGED <<window, recent>>
    BY <1>7 DEF Administer, CreateToken, UpdateToken, DeleteToken, Expire, history
  <2>. QED
    BY <1>1, <2>1
<1>8. CASE UNCHANGED vars
  BY <1>1, <1>8 DEF vars
<1>. QED
  BY <1>4, <1>5, <1>6, <1>7, <1>8 DEF Next

\* What the limiter remembers is what was admitted in the last minute, so no
\* token has more admissions in any minute than the limit of its window, however
\* many requests arrive and whatever the length of the queue (allow).
THEOREM RateIsHeld == Spec => []RateHeld
<1>1. Init => IInv /\ RateInv
  BY InitInv, FreshRate DEF Init
<1>2. IInv /\ RateInv /\ [Next]_vars => (IInv /\ RateInv)'
  BY NextInv, NextRate
<1>3. IInv /\ RateInv => RateHeld
  BY DEF RateInv, RateFacts, RateHeld
<1>. QED
  BY <1>1, <1>2, <1>3, PTL DEF Spec

\* The tables, the limiter's windows and the requests keep their shapes, if there
\* is a token at all.
THEOREM TypeCorrect ==
    ASSUME Token # {}
    PROVE  Spec => []TypeOK
<1>1. Init => IInv /\ RateInv
  BY InitInv, FreshRate DEF Init
<1>2. IInv /\ RateInv /\ [Next]_vars => (IInv /\ RateInv)'
  BY NextInv, NextRate
<1>3. IInv /\ RateInv => TypeOK
  <2>1. NoRequest.tok \in Token
    BY DEF NoRequest
  <2> HIDE DEF NoRequest
  <2>. QED
    BY <2>1 DEF IInv, CapTypes, RateInv, RateTypes, Ages, TypeOK
<1>. QED
  BY <1>1, <1>2, <1>3, PTL DEF Spec
=============================================================================
