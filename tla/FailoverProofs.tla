--------------------------- MODULE FailoverProofs ---------------------------
(***************************************************************************)
(* For any number of keys, any set of failing statuses and with or without *)
(* a deadline: Failover implements OneResponse, and its trail of attempts  *)
(* is in order, permitted, complete, logged and answered from.             *)
(***************************************************************************)
EXTENDS Failover, TLAPS

\* What was sent follows from where the goroutine is: bytes of an answer are
\* out only while a committed stream is piped or at the end, and an error
\* envelope only at the end and never on top of such bytes.
SentInv ==
    /\ wrote \in BOOLEAN
    /\ wrote => pc \in {"piping", "done"}
    /\ pc = "piping" => wrote
    /\ answer # 0 => pc = "done" /\ ~wrote

\* Nothing is sent when the request arrives.
LEMMA InitSent == Init => SentInv /\ Client!Init
  BY DEF Init, SentInv, Phase, Client!Init

\* The frames of the attempts and of the bodies.
LEMMA StepShape ==
    ASSUME SentInv, Next
    PROVE  /\ pc # "done"
           /\ \/ /\ pc # "piping" /\ UNCHANGED <<wrote, answer>>
                 /\ pc' # "piping"
              \/ pc = "body" /\ wrote' = TRUE /\ pc' \in {"piping", "done"}
                 /\ UNCHANGED answer
              \/ pc = "piping" /\ pc' \in {"piping", "done"}
                 /\ UNCHANGED <<wrote, answer>>
              \/ pc \notin {"piping", "body"} /\ pc' = "done" /\ UNCHANGED wrote
<1>1. CASE ClientLeaves
  BY <1>1 DEF ClientLeaves, SentInv
<1>2. CASE Choose
  <2>0. CASE Reject \/ Resolve
    BY <2>0 DEF Reject, Resolve
  <2>1. CASE SkipForbidden
    BY <2>1 DEF SkipForbidden
  <2>2. CASE StopForbidden
    BY <2>2 DEF StopForbidden
  <2>3. CASE Enter
    BY <2>3 DEF Enter, Return
  <2>4. CASE Judge
    BY <2>4 DEF Judge
  <2>5. CASE Answer
    BY <2>5 DEF Answer
  <2>. QED
    BY <1>2, <2>0, <2>1, <2>2, <2>3, <2>4, <2>5 DEF Choose
<1>3. CASE Exchange
  <2>1. pc = "attempt" /\ UNCHANGED <<wrote, answer>>
    BY <1>3 DEF Exchange, BadTarget, Canceled, DeadlineHit, Refused, KeyFailure,
                RequestTimeout, ClientError, OtherError, Accepted, AttemptFrame
  <2>2. pc' \in {"attempt", "body", "returned", "done"}
    BY <1>3 DEF Exchange, BadTarget, Canceled, DeadlineHit, Refused, KeyFailure,
                RequestTimeout, ClientError, OtherError, Accepted, NextKeyOr,
                Return, Stop
  <2>. QED
    BY <2>1, <2>2
<1>4. CASE BadBody \/ BodyCut
  BY <1>4 DEF BadBody, BodyCut, NextKeyOr, Return, Stop, BodyFrame
<1>5. CASE Commit \/ CommitUnwritable \/ WriteWhole
  BY <1>5 DEF Commit, CommitUnwritable, WriteWhole, Stop, BodyFrame
<1>6. CASE StreamEnds \/ StreamBreaks \/ StreamCut \/ StreamUnwritable
  BY <1>6 DEF StreamEnds, StreamBreaks, StreamCut, StreamUnwritable, Stop,
              PipeFrame, BodyFrame
<1>. QED
  BY <1>1, <1>2, <1>3, <1>4, <1>5, <1>6 DEF Next, Handle, Body

\* No step sends a second answer.
LEMMA NextSent == SentInv /\ [Next]_vars => SentInv'
<1> SUFFICES ASSUME SentInv, [Next]_vars PROVE SentInv'
  OBVIOUS
<1>1. CASE Next
  <2>1. pc # "done" /\ answer = 0 /\ (wrote <=> pc = "piping") /\ wrote \in BOOLEAN
    BY <1>1, StepShape DEF SentInv
  <2>2. CASE UNCHANGED <<wrote, answer>>
    BY <1>1, <2>1, <2>2, StepShape DEF SentInv
  <2>3. CASE ~ UNCHANGED <<wrote, answer>>
    <3>1. CASE wrote' = TRUE /\ pc' \in {"piping", "done"} /\ answer' = 0
      BY <3>1 DEF SentInv
    <3>2. CASE wrote' = FALSE /\ pc' = "done"
      BY <3>2 DEF SentInv
    <3>. QED
      BY <1>1, <2>1, <2>3, <3>1, <3>2, StepShape
  <2>. QED
    BY <2>2, <2>3
<1>2. CASE UNCHANGED vars
  BY <1>2 DEF vars, SentInv
<1>. QED
  BY <1>1, <1>2

\* A step is a step of the promise or leaves what was sent alone.
LEMMA StepImplements == SentInv /\ [Next]_vars => [Client!Next]_Phase
<1> SUFFICES ASSUME SentInv, [Next]_vars PROVE Client!Next \/ Phase' = Phase
  OBVIOUS
<1>1. CASE Next
  <2>1. pc # "done" /\ answer = 0 /\ (wrote <=> pc = "piping") /\ wrote \in BOOLEAN
    BY <1>1, StepShape DEF SentInv
  <2>2. Phase = IF wrote THEN "relaying" ELSE "waiting"
    BY <2>1 DEF Phase
  <2>3. SentInv'
    BY NextSent
  <2>4. wrote => wrote'
    BY <1>1, <2>1, StepShape
  <2>5. CASE wrote'
    <3>1. Phase' \in {"relaying", "delivered", "broken"}
      BY <2>3, <2>5 DEF SentInv, Phase
    <3>. QED
      BY <2>2, <3>1 DEF Client!Next, Client!Relay, Client!Finish
  <2>6. CASE ~ wrote'
    <3>1. Phase' \in {"refused", "dropped", "waiting"} /\ Phase = "waiting"
      BY <2>2, <2>4, <2>6 DEF Phase
    <3>. QED
      BY <3>1 DEF Client!Next, Client!Refuse, Client!Drop
  <2>. QED
    BY <2>5, <2>6
<1>2. CASE UNCHANGED vars
  BY <1>2 DEF vars, Phase, Last
<1>. QED
  BY <1>1, <1>2

THEOREM SentInvariance == Spec => []SentInv
<1>. QED
  BY InitSent, NextSent, PTL DEF Spec

\* The client gets at most one response, never an envelope after bytes of an
\* answer nor bytes of a second answer, whatever fails and is retried.
THEOREM OneResponseIsKept == Spec => ImplementsOneResponse
<1>. QED
  BY InitSent, StepImplements, SentInvariance, PTL
  DEF Spec, ImplementsOneResponse, Client!Spec

----------------------------------------------------------------------------
(* What a request has tried, and what that says of its answer *)

Final == {"complete", "clientWrite", "upstreamBroke"}
Trying == {"attempt", "body", "piping"}

\* Upstream j has nothing more to offer.
Tried(j) ==
    \E i \in DOMAIN trail :
        trail[i].up = j /\ (trail[i].key = trail[i].of \/ trail[i].end = "timeout408")
TriedBelow(n) ==
    \A j \in DOMAIN route.order : j < n /\ route.order[j] \in route.allowed => Tried(j)

\* Where the goroutine is says what it works on.
Place ==
    /\ pc = "received" => ui = 0 /\ trail = <<>>
    /\ pc \notin {"received", "done"} => ui > 0
    /\ pc \in {"received", "choose", "answering"} => keys = 0 /\ key = 0
    /\ pc \in Trying => 1 <= key /\ key <= keys /\ Current \in route.allowed
    /\ pc \in {"received", "choose"} => (attempted <=> trail # <<>>)
    /\ pc \in Trying \cup {"returned"} => attempted
    /\ pc \in {"returned", "answering"} => trail # <<>>
    /\ trail = <<>> => result = NoResult

\* The trail leads to where the goroutine is.
Leads ==
    /\ \A i \in DOMAIN trail :
          /\ route.order[trail[i].up] \in route.allowed
          /\ trail[i].up <= ui
          /\ pc = "choose" \/ (pc \in Trying /\ key = 1) => trail[i].up < ui
          /\ (trail[i].end \in Final \/ trail[i].mark = "success") =>
                i = Len(trail) /\ wrote /\ pc = "done"
    /\ pc \in Trying /\ key > 1 =>
          trail # <<>> /\ Last.up = ui /\ Last.key = key - 1 /\ Last.of = keys
    /\ InOrder

\* What is behind the goroutine was tried to the end.
Through ==
    /\ pc \notin {"received", "answering", "done"} => TriedBelow(ui)
    /\ pc = "returned" /\ result.retryable => Tried(ui)
    /\ pc = "answering" /\ result.retryable => TriedBelow(Len(route.order) + 1)
    /\ Exhaustive

\* The result is the one of the last attempt.
Outcome ==
    /\ pc \in {"choose", "returned", "answering"} /\ trail # <<>> =>
          /\ Last.end # "cut" => result.status \in StatusOf(Last)
          /\ result.status >= 400 \/ (Last.end = "cut" /\ (client = "gone" \/ Timed))
          /\ Last.end \notin {"unconvertible", "noKey"} => Last.log # 0
    /\ AnswerFromLast /\ NoSilentEnd /\ LastLogged
    /\ PermittedOnly

IInv == TypeOK /\ SentInv /\ Place /\ Leads /\ Through /\ Outcome

\* What a status is.
LEMMA StatusFacts ==
    /\ \A s \in Status : s \in Nat
    /\ \A s \in KeyStatus : s >= 400 /\ s \in Status
    /\ {0, 200, 400, 403, 404, 408, 410, 413, 499, 500, 502, 503, 504} \subseteq Status
  BY FailoverAssumption DEF Status

\* What a route is.
LEMMA RouteFacts ==
    ASSUME route \in Routes
    PROVE  /\ Len(route.order) \in {1, 2} /\ DOMAIN route.order = 1 .. Len(route.order)
           /\ \A j \in DOMAIN route.order : route.order[j] \in Upstream
           /\ route.deadline \in BOOLEAN /\ route.stream \in BOOLEAN
  BY FailoverAssumption DEF Routes, Upstream

\* The record of an attempt.
LEMMA EndedFacts ==
    ASSUME TypeOK, Place, pc \notin {"received", "done"},
           NEW end, NEW mark, NEW log, Ended(end, mark, log)
    PROVE  /\ Last' = [up |-> ui, key |-> key, of |-> keys, end |-> end, mark |-> mark, log |-> log]
           /\ trail'[Len(trail) + 1] = Last'
           /\ Len(trail') = Len(trail) + 1 /\ Len(trail) \in Nat
           /\ DOMAIN trail = 1 .. Len(trail) /\ DOMAIN trail' = 1 .. Len(trail) + 1
           /\ \A i \in DOMAIN trail : trail'[i] = trail[i] /\ trail[i] \in Attempt
           /\ trail' # <<>>
           /\ end \in Ends /\ mark \in {"none", "failure", "success"} /\ log \in Status
                 => trail' \in Seq(Attempt)
<1> DEFINE n == [up |-> ui, key |-> key, of |-> keys, end |-> end, mark |-> mark, log |-> log]
<1>1. trail' = Append(trail, n) /\ trail \in Seq(Attempt)
  BY DEF Ended, TypeOK
<1>2. ui \in {1, 2} /\ key \in 0 .. MaxKeys /\ keys \in 0 .. MaxKeys
  <2>1. ui > 0 /\ ui \in 0 .. Len(route.order) /\ route \in Routes
    BY DEF TypeOK, Place
  <2>2. Len(route.order) \in {1, 2}
    BY <2>1, RouteFacts
  <2>3. ui \in Nat /\ ui >= 1 /\ ui <= 2
    BY <2>1, <2>2
  <2>4. ui \in {1, 2}
    BY <2>3
  <2>. QED
    BY <2>4 DEF TypeOK
<1>3. end \in Ends /\ mark \in {"none", "failure", "success"} /\ log \in Status => n \in Attempt
  BY <1>2 DEF Attempt
<1> HIDE DEF n
<1>4. /\ Len(trail') = Len(trail) + 1 /\ Len(trail) \in Nat
      /\ DOMAIN trail = 1 .. Len(trail) /\ DOMAIN trail' = 1 .. Len(trail) + 1
      /\ \A i \in DOMAIN trail : trail'[i] = trail[i] /\ trail[i] \in Attempt
      /\ trail'[Len(trail) + 1] = n
  BY <1>1
<1>5. Last' = n /\ trail' # <<>>
  BY <1>4 DEF Last
<1>6. n \in Attempt => trail' \in Seq(Attempt)
  BY <1>1
<1>. QED
  BY <1>3, <1>4, <1>5, <1>6 DEF n

----------------------------------------------------------------------------
(* Types *)

\* The ways on from an attempt keep the types of what they change.
LEMMA MoveTypes ==
    ASSUME TypeOK, Place,
           \/ \E s \in Status : pc \in Trying /\ NextKeyOr(s)
           \/ \E s \in Status, r \in BOOLEAN : Return(s, r)
           \/ Stop
    PROVE  /\ pc' \in {"attempt", "returned", "done"}
           /\ key' \in 0 .. MaxKeys
           /\ result' \in [status : Status, retryable : BOOLEAN]
<1>0. key \in Nat /\ keys \in Nat /\ MaxKeys \in Nat /\ key <= MaxKeys /\ keys <= MaxKeys
  BY FailoverAssumption DEF TypeOK
<1>1. CASE \E s \in Status, r \in BOOLEAN : Return(s, r)
  BY <1>1 DEF TypeOK, Return
<1>2. CASE pc \in Trying /\ key < keys /\ key' = key + 1 /\ pc' = "attempt" /\ UNCHANGED result
  BY <1>0, <1>2 DEF TypeOK
<1>3. CASE Stop
  BY <1>3 DEF TypeOK, Stop
<1>. QED
  BY <1>1, <1>2, <1>3 DEF NextKeyOr

\* The loop over the upstreams keeps the types.
LEMMA ChooseTypes == TypeOK /\ Place /\ Choose => TypeOK'
<1> SUFFICES ASSUME TypeOK, Place, Choose PROVE TypeOK'
  OBVIOUS
<1>1. CASE Reject
  BY <1>1 DEF Reject, TypeOK, Status
<1>2. CASE Resolve
  <2>1. Len(route.order) \in {1, 2}
    BY RouteFacts DEF TypeOK
  <2>2. 1 \in 0 .. Len(route.order)
    BY <2>1
  <2>. QED
    BY <1>2, <2>2 DEF Resolve, TypeOK
<1>3. CASE SkipForbidden \/ Judge
  BY <1>3, RouteFacts, FailoverAssumption DEF SkipForbidden, Judge, IsLast, TypeOK
<1>4. CASE StopForbidden \/ Answer
  BY <1>4 DEF StopForbidden, Answer, TypeOK, Status
<1>5. CASE Enter
  <2>1. pc = "choose" /\ UNCHANGED <<route, ui, mode, wrote, answer, client>> /\ attempted' = TRUE
    BY <1>5 DEF Enter
  <2>2. CASE Ended("unconvertible", "none", 0) /\ Return(400, FALSE) /\ UNCHANGED keys
    <3>1. trail' \in Seq(Attempt)
      BY <2>1, <2>2, EndedFacts, StatusFacts DEF Ends
    <3>. QED
      BY <2>1, <2>2, <3>1, StatusFacts DEF TypeOK, Return
  <2>3. CASE Ended("noKey", "none", 0) /\ Return(503, TRUE) /\ UNCHANGED keys
    <3>1. trail' \in Seq(Attempt)
      BY <2>1, <2>3, EndedFacts, StatusFacts DEF Ends
    <3>. QED
      BY <2>1, <2>3, <3>1, StatusFacts DEF TypeOK, Return
  <2>4. CASE keys' \in 1 .. MaxKeys /\ key' = 1 /\ pc' = "attempt" /\ UNCHANGED <<result, trail>>
    BY <2>1, <2>4, FailoverAssumption DEF TypeOK
  <2>. QED
    BY <1>5, <2>2, <2>3, <2>4 DEF Enter
<1>. QED
  BY <1>1, <1>2, <1>3, <1>4, <1>5 DEF Choose

\* The status of a usage-log row.
LEMMA LogFacts == \A s \in Status : LogOf(s) \in Status
  BY StatusFacts DEF LogOf

----------------------------------------------------------------------------
(* The ends of an attempt *)

\* The next key is tried.
TriesNext(end, mark, log) ==
    /\ pc \in Trying /\ Ended(end, mark, log)
    /\ end \notin Final /\ mark # "success"
    /\ key < keys /\ key' = key + 1 /\ pc' = "attempt" /\ attempted'
    /\ UNCHANGED <<route, ui, keys, result, wrote, answer, client>>

\* The upstream returns a result; one that another upstream may replace only
\* when its keys are used up or would not help.
GivesUp(end, mark, log) ==
    /\ pc \in Trying \/ (pc = "choose" /\ Current \in route.allowed)
    /\ Ended(end, mark, log)
    /\ end \notin Final /\ mark # "success"
    /\ pc' = "returned" /\ attempted'
    /\ result'.retryable => key = keys \/ end = "timeout408"
    /\ end # "cut" => result'.status \in StatusOf(Last')
    /\ result'.status >= 400 \/ (end = "cut" /\ (client = "gone" \/ Timed))
    /\ end \notin {"unconvertible", "noKey"} => log # 0
    /\ UNCHANGED <<route, ui, keys, key, wrote, answer, client>>

\* The request ends.
Concludes(end, mark, log) ==
    /\ pc \in Trying /\ Ended(end, mark, log)
    /\ end \in Final \/ mark = "success" => wrote'
    /\ log # 0
    /\ wrote' \/ client = "gone" \/ (Timed /\ end = "cut")
    /\ pc' = "done"
    /\ UNCHANGED <<route, ui, keys, key, result, answer, client>>

\* What was tried stays tried.
LEMMA TriedStays ==
    ASSUME DOMAIN trail \subseteq DOMAIN trail', \A i \in DOMAIN trail : trail'[i] = trail[i],
           NEW j, Tried(j)
    PROVE  Tried(j)'
  BY DEF Tried

\* The order of the attempts goes on with one that is in order.
LEMMA InOrderGrows ==
    ASSUME InOrder, Len(trail) \in Nat, Len(trail') = Len(trail) + 1, DOMAIN trail = 1 .. Len(trail),
           \A i \in DOMAIN trail : trail'[i] = trail[i],
           trail # <<>> /\ Len(trail) > 0 =>
              LET a == Last
                  b == trail'[Len(trail) + 1]
              IN  \/ b.up = a.up /\ b.key = a.key + 1 /\ b.of = a.of
                  \/ b.up > a.up /\ b.key \in {0, 1}
    PROVE  InOrder'
<1> SUFFICES ASSUME NEW i \in 1 .. Len(trail') - 1
             PROVE  LET a == trail'[i]
                        b == trail'[i + 1]
                    IN  \/ b.up = a.up /\ b.key = a.key + 1 /\ b.of = a.of
                        \/ b.up > a.up /\ b.key \in {0, 1}
  BY DEF InOrder
<1>1. i \in 1 .. Len(trail) /\ trail'[i] = trail[i]
  OBVIOUS
<1>2. CASE i = Len(trail)
  <2>1. trail # <<>> /\ Len(trail) > 0
    BY <1>1
  <2>. QED
    BY <1>1, <1>2, <2>1 DEF Last
<1>3. CASE i # Len(trail)
  <2>1. i \in 1 .. Len(trail) - 1 /\ i + 1 \in DOMAIN trail
    BY <1>1, <1>3
  <2>. QED
    BY <1>1, <2>1 DEF InOrder
<1>. QED
  BY <1>2, <1>3

\* Whatever follows an attempt, the trail still leads to it.
LEMMA LeadsGrows ==
    ASSUME IInv, pc \in Trying \/ (pc = "choose" /\ Current \in route.allowed),
           NEW end, NEW mark, NEW log, Ended(end, mark, log),
           pc' \in {"attempt", "returned", "done"}, pc' = "attempt" => key' = key + 1 /\ key' > 1,
           end \in Final \/ mark = "success" => wrote' /\ pc' = "done",
           UNCHANGED <<route, ui, keys>>
    PROVE  Leads'
<1>1. TypeOK /\ Place /\ Leads /\ pc \notin {"received", "done"}
  BY DEF IInv, Trying
<1>2. /\ Last' = [up |-> ui, key |-> key, of |-> keys, end |-> end, mark |-> mark, log |-> log]
      /\ trail'[Len(trail) + 1] = Last'
      /\ Len(trail') = Len(trail) + 1 /\ Len(trail) \in Nat
      /\ DOMAIN trail = 1 .. Len(trail) /\ DOMAIN trail' = 1 .. Len(trail) + 1
      /\ \A i \in DOMAIN trail : trail'[i] = trail[i] /\ trail[i] \in Attempt
      /\ trail' # <<>>
  BY <1>1, EndedFacts
<1>3. Current \in route.allowed /\ key \in Nat /\ ui \in Nat
  BY <1>1 DEF Place, TypeOK
<1>4. ASSUME NEW i \in DOMAIN trail'
      PROVE  /\ route.order[trail'[i].up] \in route.allowed
             /\ trail'[i].up <= ui
             /\ trail'[i].end \in Final \/ trail'[i].mark = "success" =>
                   i = Len(trail') /\ wrote' /\ pc' = "done"
  <2>1. CASE i = Len(trail) + 1
    BY <1>2, <1>3, <2>1 DEF Current
  <2>2. CASE i \in DOMAIN trail
    BY <1>1, <1>2, <2>2 DEF Leads, Trying
  <2>. QED
    BY <1>2, <2>1, <2>2
<1>5. InOrder'
  <2>1. ASSUME trail # <<>>, Len(trail) > 0
        PROVE  \/ ui = Last.up /\ key = Last.key + 1 /\ keys = Last.of
               \/ ui > Last.up /\ key \in {0, 1}
    <3>1. Len(trail) \in DOMAIN trail /\ Last = trail[Len(trail)] /\ Last \in Attempt
      BY <1>2, <2>1 DEF Last
    <3>2. CASE pc \in Trying /\ key > 1
      BY <1>1, <1>3, <3>1, <3>2 DEF Leads, Attempt
    <3>3. CASE pc = "choose" \/ (pc \in Trying /\ key <= 1)
      <4>1. (pc = "choose" /\ key = 0) \/ key = 1
        BY <1>1, <1>3, <3>3 DEF Place
      <4>2. Last.up < ui
        BY <1>1, <3>1, <3>3, <4>1 DEF Leads
      <4>. QED
        BY <1>3, <3>1, <4>1, <4>2 DEF Attempt
    <3>. QED
      BY <1>3, <3>2, <3>3
  <2>. QED
    BY <1>1, <1>2, <2>1, InOrderGrows DEF Leads
<1>6. pc' = "attempt" /\ key' > 1 => Last'.up = ui' /\ Last'.key = key' - 1 /\ Last'.of = keys'
  BY <1>2, <1>3
<1>7. pc' # "choose" /\ (pc' \in Trying => pc' = "attempt" /\ key' > 1 /\ key' # 1)
  BY <1>3 DEF Trying
<1>. QED
  BY <1>2, <1>4, <1>5, <1>6, <1>7 DEF Leads

\* Trying the next key.
LEMMA TriesNextInv ==
    ASSUME IInv, TypeOK', SentInv', NEW end, NEW mark, NEW log, TriesNext(end, mark, log)
    PROVE  IInv'
<1>1. TypeOK /\ SentInv /\ Place /\ Leads /\ Through /\ Outcome
  BY DEF IInv
<1>2. pc \in Trying /\ pc' = "attempt" /\ key \in Nat /\ keys \in Nat /\ key >= 1 /\ key' = key + 1
  BY <1>1 DEF TriesNext, Place, TypeOK
<1>3. DOMAIN trail \subseteq DOMAIN trail' /\ (\A i \in DOMAIN trail : trail'[i] = trail[i]) /\ trail' # <<>>
  BY <1>1, <1>2, EndedFacts DEF TriesNext, Trying
<1>4. Place'
  <2>1. ui > 0 /\ Current \in route.allowed /\ UNCHANGED <<ui, route, keys>> /\ key' <= keys /\ key' >= 1
    BY <1>1, <1>2 DEF TriesNext, Place, Trying
  <2>. QED
    BY <1>2, <1>3, <2>1 DEF Place, Current, TriesNext
<1>5. Leads'
  BY <1>2, LeadsGrows DEF TriesNext
<1>6. Through'
  <2>1. TriedBelow(ui)
    BY <1>1, <1>2 DEF Through, Trying
  <2>2. TriedBelow(ui)'
    BY <1>3, <2>1, TriedStays DEF TriedBelow, TriesNext
  <2>. QED
    BY <1>2, <2>2 DEF Through, Exhaustive
<1>7. Outcome'
  <2>1. answer' = 0
    BY <1>1, <1>2 DEF TriesNext, SentInv, Trying
  <2>. QED
    BY <1>2, <1>5, <2>1 DEF Outcome, AnswerFromLast, NoSilentEnd, LastLogged, PermittedOnly, Leads
<1>. QED
  BY <1>4, <1>5, <1>6, <1>7 DEF IInv

\* Leaving an upstream with a result.
LEMMA GivesUpInv ==
    ASSUME IInv, TypeOK', SentInv', NEW end, NEW mark, NEW log, GivesUp(end, mark, log)
    PROVE  IInv'
<1>1. TypeOK /\ SentInv /\ Place /\ Leads /\ Through /\ Outcome
  BY DEF IInv
<1>2. pc \in {"choose"} \cup Trying /\ pc' = "returned" /\ UNCHANGED <<route, ui, keys, key, answer, client>>
  BY DEF GivesUp
<1>3. /\ Last' = [up |-> ui, key |-> key, of |-> keys, end |-> end, mark |-> mark, log |-> log]
      /\ trail'[Len(trail) + 1] = Last'
      /\ DOMAIN trail' = 1 .. Len(trail) + 1 /\ Len(trail) \in Nat
      /\ DOMAIN trail \subseteq DOMAIN trail' /\ (\A i \in DOMAIN trail : trail'[i] = trail[i])
      /\ trail' # <<>>
  BY <1>1, <1>2, EndedFacts DEF GivesUp, Trying
<1>4. Place'
  <2>1. ui > 0
    BY <1>1, <1>2 DEF Place, Trying
  <2>. QED
    BY <1>2, <1>3, <2>1 DEF Place, Trying, GivesUp
<1>5. Leads'
  BY <1>2, LeadsGrows DEF GivesUp
<1>6. Through'
  <2>1. TriedBelow(ui)
    BY <1>1, <1>2 DEF Through, Trying
  <2>2. TriedBelow(ui)'
    BY <1>2, <1>3, <2>1, TriedStays DEF TriedBelow
  <2>3. result'.retryable => Tried(ui)'
    <3>1. SUFFICES ASSUME result'.retryable PROVE Tried(ui)'
      OBVIOUS
    <3>2. Len(trail) + 1 \in DOMAIN trail'
      BY <1>3
    <3>3. key = keys \/ end = "timeout408"
      BY <3>1 DEF GivesUp
    <3>. QED
      BY <1>2, <1>3, <3>2, <3>3 DEF Tried
  <2>. QED
    BY <1>2, <2>2, <2>3 DEF Through, Exhaustive
<1>7. Outcome'
  <2>1. answer' = 0
    BY <1>1, <1>2 DEF SentInv, Trying
  <2>2. PermittedOnly'
    BY <1>2, <1>5 DEF PermittedOnly, Leads
  <2>3. AnswerFromLast' /\ NoSilentEnd' /\ LastLogged'
    BY <1>2, <2>1 DEF AnswerFromLast, NoSilentEnd, LastLogged
  <2>4. /\ Last'.end # "cut" => result'.status \in StatusOf(Last')
        /\ result'.status >= 400 \/ (Last'.end = "cut" /\ (client' = "gone" \/ Timed'))
        /\ Last'.end \notin {"unconvertible", "noKey"} => Last'.log # 0
    BY <1>2, <1>3 DEF GivesUp, Timed
  <2>. QED
    BY <2>2, <2>3, <2>4 DEF Outcome, StatusOf, Last
<1>. QED
  BY <1>4, <1>5, <1>6, <1>7 DEF IInv

\* The end of a request by an attempt.
LEMMA ConcludesInv ==
    ASSUME IInv, TypeOK', SentInv', NEW end, NEW mark, NEW log, Concludes(end, mark, log)
    PROVE  IInv'
<1>1. TypeOK /\ SentInv /\ Place /\ Leads /\ Through /\ Outcome
  BY DEF IInv
<1>2. pc \in Trying /\ pc' = "done" /\ UNCHANGED <<route, ui, keys, key, answer, client, result>>
  BY DEF Concludes
<1>3. /\ Last' = [up |-> ui, key |-> key, of |-> keys, end |-> end, mark |-> mark, log |-> log]
      /\ trail' # <<>>
  BY <1>1, <1>2, EndedFacts DEF Concludes, Trying
<1>4. answer' = 0
  BY <1>1, <1>2 DEF SentInv, Trying
<1>5. Place'
  BY <1>2, <1>3 DEF Place, Trying
<1>6. Leads'
  BY <1>2, LeadsGrows DEF Concludes
<1>7. Through'
  BY <1>2, <1>4 DEF Through, Exhaustive, Trying
<1>8. Outcome'
  <2>1. AnswerFromLast'
    BY <1>4 DEF AnswerFromLast
  <2>2. NoSilentEnd'
    BY <1>2, <1>3 DEF Concludes, NoSilentEnd, Timed
  <2>3. LastLogged'
    BY <1>3 DEF Concludes, LastLogged
  <2>4. PermittedOnly'
    <3>1. Current \in route.allowed /\ ui \in DOMAIN route.order
      <4>1. ui > 0 /\ ui \in 0 .. Len(route.order) /\ DOMAIN route.order = 1 .. Len(route.order)
        BY <1>1, <1>2, RouteFacts DEF Place, TypeOK, Trying
      <4>. QED
        BY <1>1, <1>2, <4>1 DEF Place
    <3>. QED
      BY <1>2, <1>3, <1>4, <1>6, <3>1 DEF PermittedOnly, Leads, Current
  <2>. QED
    BY <1>2, <2>1, <2>2, <2>3, <2>4 DEF Outcome
<1>. QED
  BY <1>5, <1>6, <1>7, <1>8 DEF IInv

----------------------------------------------------------------------------
(* The steps between attempts *)

\* The loop over the upstreams.
LEMMA ChooseInv ==
    ASSUME IInv, TypeOK', SentInv', Choose
    PROVE  IInv'
<1>1. TypeOK /\ SentInv /\ Place /\ Leads /\ Through /\ Outcome
  BY DEF IInv
<1>2. /\ ui \in Nat /\ DOMAIN route.order = 1 .. Len(route.order) /\ Len(route.order) \in {1, 2}
      /\ ui <= Len(route.order) /\ keys \in Nat /\ key \in Nat
  BY <1>1, RouteFacts DEF TypeOK
<1>3. CASE Reject
  BY <1>1, <1>3 DEF Reject, IInv, Place, Leads, Through, Outcome, Exhaustive, AnswerFromLast,
     NoSilentEnd, LastLogged, PermittedOnly, NoResult, Trying, InOrder
<1>4. CASE Resolve
  <2>1. trail' = <<>> /\ ui' = 1 /\ pc' = "choose" /\ UNCHANGED <<route, result, answer>>
    BY <1>1, <1>4 DEF Resolve, Place
  <2>2. Place' /\ Leads'
    BY <1>1, <1>4, <2>1 DEF Resolve, Place, Leads, Trying, InOrder
  <2>3. Through'
    BY <1>2, <2>1 DEF Through, TriedBelow, Exhaustive
  <2>4. Outcome'
    BY <1>1, <1>4, <2>1 DEF Resolve, Outcome, AnswerFromLast, NoSilentEnd, LastLogged, PermittedOnly
  <2>. QED
    BY <2>2, <2>3, <2>4 DEF IInv
<1>5. CASE SkipForbidden
  <2>1. /\ pc = "choose" /\ pc' = "choose" /\ ui' = ui + 1 /\ Current \notin route.allowed
        /\ UNCHANGED <<route, keys, key, result, attempted, wrote, answer, client, trail>>
    BY <1>5 DEF SkipForbidden
  <2>2. Place'
    BY <1>1, <1>2, <2>1 DEF Place, Trying
  <2>3. Leads'
    <3>1. \A i \in DOMAIN trail : trail[i].up < ui + 1 /\ trail[i].up <= ui + 1
      <4>1. \A i \in DOMAIN trail : trail[i] \in Attempt
        BY <1>1 DEF TypeOK
      <4>2. \A i \in DOMAIN trail : trail[i].up \in Nat
        BY <4>1 DEF Attempt
      <4>. QED
        BY <1>1, <1>2, <2>1, <4>2 DEF Leads
    <3>. QED
      BY <1>1, <2>1, <3>1 DEF Leads, Trying, InOrder
  <2>4. Through'
    <3>1. TriedBelow(ui)
      BY <1>1, <2>1 DEF Through
    <3>2. PICK n : n = ui + 1
      OBVIOUS
    <3>3. TriedBelow(n)
      BY <1>2, <2>1, <3>1, <3>2 DEF TriedBelow, Current
    <3>4. TriedBelow(n)'
      BY <2>1, <3>3 DEF TriedBelow, Tried
    <3>. QED
      BY <1>1, <2>1, <3>2, <3>4 DEF Through, Exhaustive
  <2>5. Outcome'
    BY <1>1, <2>1 DEF Outcome, AnswerFromLast, NoSilentEnd, LastLogged, PermittedOnly, StatusOf, Last, Timed
  <2>. QED
    BY <2>2, <2>3, <2>4, <2>5 DEF IInv
<1>6. CASE StopForbidden
  <2>1. /\ pc = "choose" /\ Current \notin route.allowed /\ ui = Len(route.order)
        /\ UNCHANGED <<route, ui, keys, key, result, attempted, wrote, client, trail>>
    BY <1>6 DEF StopForbidden, IsLast
  <2>2. TriedBelow(Len(route.order) + 1)
    <3>1. TriedBelow(ui)
      BY <1>1, <2>1 DEF Through
    <3>. QED
      BY <1>2, <2>1, <3>1 DEF TriedBelow, Current
  <2>3. Leads'
    BY <1>1, <1>6, <2>1 DEF StopForbidden, Leads, Trying, InOrder
  <2>4. CASE attempted /\ pc' = "answering" /\ UNCHANGED answer
    <3>1. Place'
      BY <1>1, <2>1, <2>4 DEF Place, Trying
    <3>2. Through'
      BY <1>1, <2>1, <2>2, <2>4 DEF Through, Exhaustive, TriedBelow, Tried
    <3>3. Outcome'
      BY <1>1, <2>1, <2>4 DEF Outcome, AnswerFromLast, NoSilentEnd, LastLogged, PermittedOnly, StatusOf, Last, Timed
    <3>. QED
      BY <2>3, <3>1, <3>2, <3>3 DEF IInv
  <2>5. CASE ~attempted /\ pc' = "done" /\ answer' = 403
    <3>1. trail = <<>> /\ result = NoResult
      BY <1>1, <2>1, <2>5 DEF Place
    <3>2. Place' /\ Through'
      BY <1>1, <2>1, <2>5, <3>1 DEF Place, Through, Exhaustive, NoResult, Trying
    <3>3. \A j \in DOMAIN route.order : route.order[j] \notin route.allowed
      BY <1>2, <2>2, <3>1 DEF TriedBelow, Tried
    <3>4. Outcome'
      BY <2>1, <2>3, <2>5, <3>1, <3>3 DEF Outcome, AnswerFromLast, NoSilentEnd, LastLogged, PermittedOnly
    <3>. QED
      BY <2>3, <3>2, <3>4 DEF IInv
  <2>. QED
    BY <1>6, <2>4, <2>5 DEF StopForbidden
<1>7. CASE Enter
  <2>1. pc = "choose" /\ Current \in route.allowed /\ attempted' /\ UNCHANGED <<route, ui, wrote, answer, client>>
    BY <1>7 DEF Enter
  <2>2. keys = 0 /\ key = 0
    BY <1>1, <2>1 DEF Place
  <2>3. CASE Ended("unconvertible", "none", 0) /\ Return(400, FALSE) /\ UNCHANGED keys
    <3>1. Last'.end = "unconvertible"
      BY <1>1, <2>1, <2>3, EndedFacts
    <3>2. 400 \in StatusOf(Last')
      BY <3>1 DEF StatusOf
    <3>3. GivesUp("unconvertible", "none", 0)
      BY <2>1, <2>2, <2>3, <3>2 DEF GivesUp, Return, Final
    <3>. QED
      BY <3>3, GivesUpInv
  <2>5. CASE Ended("noKey", "none", 0) /\ Return(503, TRUE) /\ UNCHANGED keys
    <3>1. Last'.end = "noKey"
      BY <1>1, <2>1, <2>5, EndedFacts
    <3>2. 503 \in StatusOf(Last')
      BY <3>1 DEF StatusOf
    <3>3. GivesUp("noKey", "none", 0)
      BY <2>1, <2>2, <2>5, <3>2 DEF GivesUp, Return, Final
    <3>. QED
      BY <3>3, GivesUpInv
  <2>4. CASE keys' \in 1 .. MaxKeys /\ key' = 1 /\ pc' = "attempt" /\ UNCHANGED <<result, trail>>
    <3>1. keys' >= 1
      BY <2>4, FailoverAssumption
    <3>2. Place'
      BY <1>1, <2>1, <2>4, <3>1 DEF Place, Trying, Current
    <3>3. Leads'
      BY <1>1, <2>1, <2>4 DEF Leads, Trying, InOrder
    <3>4. Through'
      BY <1>1, <2>1, <2>4 DEF Through, Exhaustive, TriedBelow, Tried
    <3>5. Outcome'
      BY <1>1, <2>1, <2>4 DEF Outcome, AnswerFromLast, NoSilentEnd, LastLogged, PermittedOnly, SentInv
    <3>. QED
      BY <3>2, <3>3, <3>4, <3>5 DEF IInv
  <2>. QED
    BY <1>7, <2>3, <2>4, <2>5 DEF Enter
<1>8. CASE Judge
  <2>1. /\ pc = "returned" /\ keys' = 0 /\ key' = 0
        /\ UNCHANGED <<route, result, attempted, wrote, answer, client, trail>>
        /\ IF result.retryable /\ ui # Len(route.order) THEN ui' = ui + 1 /\ pc' = "choose"
                                                     ELSE ui' = ui /\ pc' = "answering"
    BY <1>8 DEF Judge, IsLast
  <2>2. Place'
    BY <1>1, <1>2, <2>1 DEF Place, Trying
  <2>3. Leads'
    <3>1. \A i \in DOMAIN trail : trail[i].up < ui + 1 /\ trail[i].up <= ui + 1
      <4>1. \A i \in DOMAIN trail : trail[i] \in Attempt
        BY <1>1 DEF TypeOK
      <4>2. \A i \in DOMAIN trail : trail[i].up \in Nat
        BY <4>1 DEF Attempt
      <4>. QED
        BY <1>1, <1>2, <2>1, <4>2 DEF Leads
    <3>. QED
      BY <1>1, <2>1, <3>1 DEF Leads, Trying, InOrder
  <2>4. Through'
    <3>1. PICK n : n = ui + 1
      OBVIOUS
    <3>2. result.retryable => TriedBelow(n)
      BY <1>1, <1>2, <2>1, <3>1 DEF Through, TriedBelow
    <3>3. result.retryable => TriedBelow(n)'
      BY <2>1, <3>2 DEF TriedBelow, Tried
    <3>4. answer' = 0
      BY <1>1, <2>1 DEF SentInv
    <3>5. CASE pc' = "choose"
      BY <2>1, <3>1, <3>3, <3>4, <3>5 DEF Through, Exhaustive
    <3>6. CASE pc' = "answering"
      BY <2>1, <3>1, <3>3, <3>4, <3>6 DEF Through, Exhaustive
    <3>. QED
      BY <2>1, <3>5, <3>6
  <2>5. Outcome'
    BY <1>1, <2>1 DEF Outcome, AnswerFromLast, NoSilentEnd, LastLogged, PermittedOnly, StatusOf, Last, Timed
  <2>. QED
    BY <2>2, <2>3, <2>4, <2>5 DEF IInv
<1>9. CASE Answer
  <2>1. /\ pc = "answering" /\ pc' = "done" /\ answer' = result.status
        /\ UNCHANGED <<route, ui, keys, key, result, attempted, wrote, client, trail>>
    BY <1>9 DEF Answer
  <2>2. Place' /\ Leads'
    BY <1>1, <2>1 DEF Place, Leads, Trying, InOrder
  <2>3. Through'
    BY <1>1, <1>2, <2>1 DEF Through, Exhaustive, TriedBelow, Tried
  <2>4. Outcome'
    <3>1. trail # <<>>
      BY <1>1, <2>1 DEF Place
    <3>2. AnswerFromLast' /\ NoSilentEnd' /\ LastLogged'
      BY <1>1, <2>1, <3>1 DEF Outcome, AnswerFromLast, NoSilentEnd, LastLogged, StatusOf, Last, Timed
    <3>3. PermittedOnly'
      <4>1. Len(trail) \in DOMAIN trail /\ trail[Len(trail)] \in Attempt
        BY <1>1, <3>1 DEF TypeOK
      <4>2. trail[Len(trail)].up \in DOMAIN route.order
        BY <1>1, <1>2, <4>1 DEF Leads, Attempt
      <4>. QED
        BY <1>1, <2>1, <3>1, <4>1, <4>2 DEF PermittedOnly, Leads
    <3>. QED
      BY <2>1, <3>2, <3>3 DEF Outcome
  <2>. QED
    BY <2>2, <2>3, <2>4 DEF IInv
<1>. QED
  BY <1>3, <1>4, <1>5, <1>6, <1>7, <1>8, <1>9 DEF Choose

\* Headers or first bytes arrive, or the client leaves: nothing is tried or
\* answered.
LEMMA WaitingInv ==
    ASSUME IInv, TypeOK', SentInv', Accepted \/ Commit \/ ClientLeaves
    PROVE  IInv'
<1>1. TypeOK /\ SentInv /\ Place /\ Leads /\ Through /\ Outcome
  BY DEF IInv
<1>2. /\ UNCHANGED <<route, ui, keys, key, result, attempted, answer, trail>>
      /\ pc # "done" /\ (pc' = pc \/ (pc \in Trying /\ pc' \in Trying))
      /\ client' = client \/ client' = "gone"
  <2>1. CASE Accepted
    BY <2>1 DEF Accepted, Trying
  <2>2. CASE Commit
    BY <2>2 DEF Commit, BodyFrame, Trying
  <2>3. CASE ClientLeaves
    BY <2>3 DEF ClientLeaves
  <2>. QED
    BY <2>1, <2>2, <2>3
<1>3. Place' /\ Leads'
  BY <1>1, <1>2 DEF Place, Leads, Current, Trying, InOrder, Last
<1>4. Through'
  BY <1>1, <1>2 DEF Through, Exhaustive, TriedBelow, Tried, Trying
<1>5. Outcome'
  BY <1>1, <1>2 DEF Outcome, AnswerFromLast, NoSilentEnd, LastLogged, PermittedOnly, StatusOf, Last, Timed,
     SentInv, Trying
<1>. QED
  BY <1>3, <1>4, <1>5 DEF IInv

----------------------------------------------------------------------------
(* Each end of an attempt is of one of the three kinds *)

\* An attempt ends and moves nothing but its own part of the state.
Attempted(end, mark, log) ==
    /\ pc \in Trying
    /\ end \in Ends /\ mark \in {"none", "failure", "success"} /\ log \in Status
    /\ Ended(end, mark, log)
    /\ UNCHANGED <<route, ui, keys, mode, attempted, answer, client>>

\* The end of an attempt keeps the types.
LEMMA AttemptedTypes ==
    ASSUME TypeOK, Place, NEW end, NEW mark, NEW log, Attempted(end, mark, log),
           wrote' \in BOOLEAN,
           \/ \E s \in Status : NextKeyOr(s)
           \/ \E s \in Status, r \in BOOLEAN : Return(s, r)
           \/ Stop
    PROVE  TypeOK'
<1>1. trail' \in Seq(Attempt)
  BY EndedFacts DEF Attempted, Trying
<1>2. /\ pc' \in {"attempt", "returned", "done"}
      /\ key' \in 0 .. MaxKeys
      /\ result' \in [status : Status, retryable : BOOLEAN]
  BY MoveTypes DEF Attempted
<1>. QED
  BY <1>1, <1>2 DEF Attempted, TypeOK

\* The next key or, after the last, a result the next upstream may replace.
LEMMA NextKeyOrInv ==
    ASSUME IInv, SentInv', NEW end, NEW mark, NEW log, NEW s \in Status,
           Attempted(end, mark, log), end \notin Final, mark # "success",
           NextKeyOr(s), UNCHANGED wrote,
           s >= 400, key >= keys => s \in StatusOf(Last') /\ log # 0
    PROVE  IInv'
<1>1. TypeOK /\ Place /\ SentInv
  BY DEF IInv
<1>2. TypeOK'
  BY <1>1, AttemptedTypes DEF SentInv
<1>3. key \in Nat /\ keys \in Nat /\ key <= keys /\ attempted
  BY <1>1 DEF TypeOK, Place, Attempted
<1>4. CASE key < keys
  <2>1. TriesNext(end, mark, log)
    BY <1>3, <1>4 DEF NextKeyOr, TriesNext, Attempted
  <2>. QED
    BY <1>2, <2>1, TriesNextInv
<1>5. CASE key >= keys
  <2>1. GivesUp(end, mark, log)
    BY <1>3, <1>5 DEF NextKeyOr, GivesUp, Return, Attempted
  <2>. QED
    BY <1>2, <2>1, GivesUpInv
<1>. QED
  BY <1>3, <1>4, <1>5

\* The two kinds of result: final, or one the next upstream may replace.
Fails(s) == Return(s, FALSE)
MayHelp(s) == Return(s, TRUE)

\* A result no further attempt of this upstream improves.
LEMMA ReturnInv ==
    ASSUME IInv, SentInv', NEW end, NEW mark, NEW log, NEW s \in Status,
           Attempted(end, mark, log), end \notin Final, mark # "success",
           Fails(s) \/ (MayHelp(s) /\ end = "timeout408"),
           UNCHANGED wrote, log # 0,
           \/ s >= 400 /\ s \in StatusOf(Last')
           \/ end = "cut" /\ (client = "gone" \/ Timed)
    PROVE  IInv'
<1>1. TypeOK /\ Place /\ SentInv /\ attempted
  BY DEF IInv, Place, Attempted
<1>2. TypeOK'
  BY <1>1, AttemptedTypes DEF SentInv, Fails, MayHelp
<1>3. GivesUp(end, mark, log)
  BY <1>1 DEF GivesUp, Fails, MayHelp, Return, Attempted
<1>. QED
  BY <1>2, <1>3, GivesUpInv

\* The request ends.
LEMMA StopInv ==
    ASSUME IInv, SentInv', NEW end, NEW mark, NEW log,
           Attempted(end, mark, log), Stop, log # 0,
           end \in Final \/ mark = "success" => wrote',
           wrote' \/ client = "gone" \/ (Timed /\ end = "cut")
    PROVE  IInv'
<1>1. TypeOK /\ Place
  BY DEF IInv
<1>2. TypeOK'
  BY <1>1, AttemptedTypes DEF SentInv
<1>3. Concludes(end, mark, log)
  BY DEF Concludes, Stop, Attempted
<1>. QED
  BY <1>2, <1>3, ConcludesInv

\* An exchange up to the response headers.
LEMMA ExchangeInv ==
    ASSUME IInv, SentInv', Exchange
    PROVE  IInv'
<1>1. TypeOK /\ Place /\ pc = "attempt" /\ pc \in Trying
  BY DEF IInv, Exchange, BadTarget, Canceled, DeadlineHit, Refused, KeyFailure,
     RequestTimeout, ClientError, OtherError, Accepted, Trying
<1>2. ASSUME NEW end, NEW mark, NEW log, Ended(end, mark, log)
      PROVE  Last'.end = end /\ Last'.log = log
  BY <1>1, <1>2, EndedFacts
<1>3. CASE BadTarget
  <2>1. Attempted("badTarget", "none", 500) /\ Fails(500) /\ UNCHANGED wrote
    BY <1>1, <1>3, StatusFacts DEF BadTarget, Fails, MayHelp, Return, AttemptFrame, Attempted, Ends
  <2>2. 500 \in StatusOf(Last')
    BY <1>2, <2>1 DEF StatusOf, Attempted
  <2>. QED
    BY <2>1, <2>2, ReturnInv, StatusFacts DEF Final
<1>4. CASE Canceled
  <2>1. Attempted("canceled", "none", 499) /\ Stop /\ UNCHANGED wrote /\ client = "gone"
    BY <1>1, <1>4, StatusFacts DEF Canceled, AttemptFrame, Attempted, Ends
  <2>. QED
    BY <2>1, StopInv DEF Final
<1>5. CASE DeadlineHit
  <2>1. Attempted("deadline", "none", 504) /\ NextKeyOr(504) /\ UNCHANGED wrote
    BY <1>1, <1>5, StatusFacts DEF DeadlineHit, AttemptFrame, Attempted, Ends
  <2>2. 504 \in StatusOf(Last')
    BY <1>2, <2>1 DEF StatusOf, Attempted
  <2>. QED
    BY <2>1, <2>2, NextKeyOrInv, StatusFacts DEF Final
<1>6. CASE Refused
  <2>1. Attempted("refused", "failure", LogOf(502)) /\ NextKeyOr(502) /\ UNCHANGED wrote
    BY <1>1, <1>6, StatusFacts, LogFacts DEF Refused, AttemptFrame, Attempted, Ends
  <2>2. 502 \in StatusOf(Last')
    BY <1>2, <2>1 DEF StatusOf, Attempted
  <2>3. key >= keys => LogOf(502) # 0
    BY <1>1 DEF LogOf, TypeOK
  <2>. QED
    BY <2>1, <2>2, <2>3, NextKeyOrInv, StatusFacts DEF Final
<1>7. CASE KeyFailure
  <2>0. PICK s \in KeyStatus :
           /\ \E log \in IF Current = "go" THEN {s, 502} ELSE {LogOf(s)} : Ended("keyFailure", "failure", log)
           /\ NextKeyOr(s)
    BY <1>7 DEF KeyFailure
  <2>1. PICK log \in IF Current = "go" THEN {s, 502} ELSE {LogOf(s)} : Ended("keyFailure", "failure", log)
    BY <2>0
  <2>2. s \in Status /\ s >= 400 /\ log \in Status
    BY <2>0, <2>1, StatusFacts, LogFacts
  <2>3. Attempted("keyFailure", "failure", log) /\ UNCHANGED wrote
    BY <1>1, <1>7, <2>1, <2>2 DEF KeyFailure, AttemptFrame, Attempted, Ends
  <2>4. key >= keys => log \in {s, 502}
    BY <1>1, <2>1 DEF LogOf, TypeOK
  <2>5. log \in {s, 502} => s \in StatusOf(Last')
    BY <1>2, <2>1 DEF StatusOf
  <2>. QED
    BY <2>0, <2>1, <2>2, <2>3, <2>4, <2>5, NextKeyOrInv DEF Final
<1>8. CASE RequestTimeout
  <2>1. Attempted("timeout408", "none", 408) /\ UNCHANGED wrote /\ (NextKeyOr(502) \/ MayHelp(408))
    BY <1>1, <1>8, StatusFacts DEF RequestTimeout, Fails, MayHelp, Return, AttemptFrame, Attempted, Ends
  <2>2. 408 \in StatusOf(Last') /\ 502 \in StatusOf(Last')
    BY <1>2, <2>1 DEF StatusOf, Attempted
  <2>3. CASE NextKeyOr(502)
    BY <2>1, <2>2, <2>3, NextKeyOrInv, StatusFacts DEF Final
  <2>4. CASE MayHelp(408)
    <3>1. 408 \in Status /\ 408 >= 400 /\ 408 # 0 /\ "timeout408" \notin Final /\ "none" # "success"
      BY StatusFacts DEF Final
    <3>. QED
      BY <2>1, <2>2, <2>4, <3>1, ReturnInv
  <2>. QED
    BY <2>1, <2>3, <2>4
<1>9. CASE ClientError
  <2>1. Attempted("clientError", "none", 400) /\ Fails(400) /\ UNCHANGED wrote
    BY <1>1, <1>9, StatusFacts DEF ClientError, Fails, MayHelp, Return, AttemptFrame, Attempted, Ends
  <2>2. 400 \in StatusOf(Last')
    BY <1>2, <2>1 DEF StatusOf, Attempted
  <2>. QED
    BY <2>1, <2>2, ReturnInv, StatusFacts DEF Final
<1>10. CASE OtherError
  <2>1. Attempted("otherError", "none", 410) /\ UNCHANGED wrote /\ (NextKeyOr(502) \/ Fails(410))
    BY <1>1, <1>10, StatusFacts DEF OtherError, Fails, MayHelp, Return, AttemptFrame, Attempted, Ends
  <2>2. 410 \in StatusOf(Last') /\ 502 \in StatusOf(Last')
    BY <1>2, <2>1 DEF StatusOf, Attempted
  <2>. QED
    BY <2>1, <2>2, NextKeyOrInv, ReturnInv, StatusFacts DEF Final
<1>11. CASE Accepted
  <2>1. TypeOK'
    BY <1>1, <1>11 DEF Accepted, TypeOK
  <2>. QED
    BY <1>11, <2>1, WaitingInv
<1>. QED
  BY <1>3, <1>4, <1>5, <1>6, <1>7, <1>8, <1>9, <1>10, <1>11 DEF Exchange

\* An answer's body.
LEMMA BodyInv ==
    ASSUME IInv, SentInv', Body
    PROVE  IInv'
<1>1. TypeOK /\ Place /\ SentInv /\ pc \in Trying /\ (pc = "piping" => wrote)
  BY DEF IInv, SentInv, Body, BadBody, BodyCut, Commit, CommitUnwritable, WriteWhole, StreamEnds,
     StreamBreaks, StreamCut, StreamUnwritable, Trying
<1>2. CASE BadBody
  <2>1. Attempted("badBody", "failure", 502) /\ NextKeyOr(502) /\ UNCHANGED wrote
    BY <1>1, <1>2, StatusFacts DEF BadBody, BodyFrame, Attempted, Ends
  <2>2. Last'.end = "badBody"
    BY <1>1, <2>1, EndedFacts DEF Attempted, Trying
  <2>3. 502 \in StatusOf(Last')
    BY <2>2 DEF StatusOf
  <2>. QED
    BY <2>1, <2>3, NextKeyOrInv, StatusFacts DEF Final
<1>3. CASE BodyCut
  <2>1. /\ Attempted("cut", "none", 499) /\ UNCHANGED wrote /\ (Fails(200) \/ Stop)
        /\ client = "gone" \/ Timed
    BY <1>1, <1>3, StatusFacts DEF BodyCut, Fails, MayHelp, Return, BodyFrame, Attempted, Ends
  <2>. QED
    BY <2>1, ReturnInv, StopInv, StatusFacts DEF Final
<1>4. CASE Commit
  <2>1. TypeOK'
    BY <1>1, <1>4 DEF Commit, BodyFrame, TypeOK
  <2>. QED
    BY <1>4, <2>1, WaitingInv
<1>5. CASE CommitUnwritable
  <2>1. Attempted("clientWrite", "none", 200) /\ Stop /\ wrote'
    BY <1>1, <1>5, StatusFacts DEF CommitUnwritable, BodyFrame, Attempted, Ends
  <2>. QED
    BY <2>1, StopInv
<1>6. CASE WriteWhole
  <2>1. Attempted("complete", "success", 200) /\ Stop /\ wrote'
    BY <1>1, <1>6, StatusFacts DEF WriteWhole, BodyFrame, Attempted, Ends
  <2>. QED
    BY <2>1, StopInv
<1>7. CASE StreamEnds
  <2>1. Attempted("complete", "success", 200) /\ Stop /\ wrote'
    BY <1>1, <1>7, StatusFacts DEF StreamEnds, PipeFrame, BodyFrame, Attempted, Ends
  <2>. QED
    BY <2>1, StopInv
<1>8. CASE StreamBreaks
  <2>1. PICK mark \in {"failure", "none"} : Attempted("upstreamBroke", mark, 200) /\ Stop /\ wrote'
    BY <1>1, <1>8, StatusFacts DEF StreamBreaks, PipeFrame, BodyFrame, Attempted, Ends
  <2>. QED
    BY <2>1, StopInv
<1>9. CASE StreamCut
  <2>1. Attempted("cut", "none", 200) /\ Stop /\ wrote'
    BY <1>1, <1>9, StatusFacts DEF StreamCut, PipeFrame, BodyFrame, Attempted, Ends
  <2>. QED
    BY <2>1, StopInv
<1>10. CASE StreamUnwritable
  <2>1. PICK mark \in {"failure", "none"} : Attempted("clientWrite", mark, 200) /\ Stop /\ wrote'
    BY <1>1, <1>10, StatusFacts DEF StreamUnwritable, PipeFrame, BodyFrame, Attempted, Ends
  <2>. QED
    BY <2>1, StopInv
<1>. QED
  BY <1>2, <1>3, <1>4, <1>5, <1>6, <1>7, <1>8, <1>9, <1>10 DEF Body

----------------------------------------------------------------------------
\* The request arrives.
LEMMA InitInv == Init => IInv
<1> SUFFICES ASSUME Init PROVE IInv
  OBVIOUS
<1>1. TypeOK
  <2>1. result \in [status : Status, retryable : BOOLEAN]
    BY DEF Init, NoResult, Status
  <2>2. ui \in 0 .. Len(route.order)
    BY RouteFacts DEF Init
  <2>3. 0 \in 0 .. MaxKeys /\ trail \in Seq(Attempt) /\ 0 \in Status
    BY FailoverAssumption DEF Init, Status
  <2>. QED
    BY <2>1, <2>2, <2>3 DEF Init, TypeOK
<1>2. trail = <<>> /\ pc = "received" /\ answer = 0 /\ keys = 0 /\ key = 0 /\ ui = 0
      /\ attempted = FALSE /\ result = NoResult
  BY DEF Init
<1>. QED
  BY <1>1, <1>2, InitSent DEF IInv, Place, Leads, Through, Outcome, InOrder, Exhaustive, AnswerFromLast,
     NoSilentEnd, LastLogged, PermittedOnly, Trying

\* Every step.
LEMMA NextInv == IInv /\ [Next]_vars => IInv'
<1> SUFFICES ASSUME IInv, [Next]_vars PROVE IInv'
  OBVIOUS
<1>1. TypeOK /\ Place /\ SentInv'
  BY NextSent DEF IInv
<1>2. CASE Choose
  BY <1>1, <1>2, ChooseTypes, ChooseInv
<1>3. CASE Exchange
  BY <1>1, <1>3, ExchangeInv
<1>4. CASE Body
  BY <1>1, <1>4, BodyInv
<1>5. CASE ClientLeaves
  <2>1. TypeOK'
    BY <1>1, <1>5 DEF ClientLeaves, TypeOK
  <2>. QED
    BY <1>1, <1>5, <2>1, WaitingInv
<1>6. CASE UNCHANGED vars
  <2>1. TypeOK'
    BY <1>1, <1>6 DEF vars, TypeOK
  <2>. QED
    BY <1>1, <1>6, <2>1 DEF vars, IInv, Place, Leads, Through, Outcome, InOrder, Exhaustive, AnswerFromLast,
       NoSilentEnd, LastLogged, PermittedOnly, Trying, TriedBelow, Tried, Last, StatusOf, Timed, Current
<1>. QED
  BY <1>2, <1>3, <1>4, <1>5, <1>6 DEF Next, Handle

\* Every reachable state of a request fits its trail.
THEOREM Invariance == Spec => []IInv
  BY InitInv, NextInv, PTL DEF Spec

\* proxyRequest's state keeps its types; a key's number stays within the pick.
THEOREM TypeCorrect == Spec => []TypeOK
<1>1. IInv => TypeOK
  BY DEF IInv
<1>. QED
  BY <1>1, Invariance, PTL

\* "Each upstream is tried at most once - no circular retry": the attempts
\* follow the route and the picks without a gap, and a failure that another
\* attempt might have mended is answered only when none is left.
THEOREM EverythingTriedOnce == Spec => []TriesAll
<1>1. IInv => TriesAll
  BY DEF IInv, Leads, Through, TriesAll
<1>. QED
  BY <1>1, Invariance, PTL

\* No hop of a failover uses an upstream the token's groups exclude, and 403 is
\* the answer of the loop exactly when they exclude all of the route.
THEOREM GroupsHold == Spec => []PermittedOnly
<1>1. IInv => PermittedOnly
  BY DEF IInv, Outcome
<1>. QED
  BY <1>1, Invariance, PTL

\* The error envelope carries the status of the last attempt that was made,
\* whatever was skipped after it; nothing is said of one cut off in the middle of
\* its body.
THEOREM LastFailureIsAnswered == Spec => []AnswerFromLast
<1>1. IInv => AnswerFromLast
  BY DEF IInv, Outcome
<1>. QED
  BY <1>1, Invariance, PTL

\* Once an attempt's bytes reached the client, or its key was marked
\* successful, nothing else is tried.
THEOREM OneAttemptReachesClient == Spec => []OnlyLastReachesClient
<1>1. IInv => OnlyLastReachesClient
  BY DEF IInv, Leads, OnlyLastReachesClient, Final
<1>. QED
  BY <1>1, Invariance, PTL

\* The attempt that decided the request has a row in the usage log, also on
\* Ollama, which leaves intermediate failures out.
THEOREM DecisionIsLogged == Spec => []LastLogged
<1>1. IInv => LastLogged
  BY DEF IInv, Outcome
<1>. QED
  BY <1>1, Invariance, PTL

\* A waiting client is left without any answer only where a deadline passed
\* while the body was read.
THEOREM SilenceIsExplained == Spec => []NoSilentEnd
<1>1. IInv => NoSilentEnd
  BY DEF IInv, Outcome
<1>. QED
  BY <1>1, Invariance, PTL
=============================================================================
