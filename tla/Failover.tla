------------------------------ MODULE Failover ------------------------------
(***************************************************************************)
(* One proxied request on its way through proxyRequest's failover loop     *)
(* (api/proxy.go), the key loops of the Go and Ollama upstreams            *)
(* (api/proxy.go, api/ollama.go) and the response handlers                 *)
(* (api/stream.go), with the upstream and the client as environment.       *)
(*                                                                         *)
(* Which keys an upstream offers is KeyPool's matter: here they are        *)
(* numbered in the order PickAttempts returned them.                       *)
(***************************************************************************)
EXTENDS Integers, Sequences, FiniteSets

CONSTANTS
    MaxKeys,     \* bound: the most keys a pick returns
    KeyStatus,   \* statuses of the class shouldMarkUpstreamFailure selects
    Deadlines    \* {FALSE}: UPSTREAM_TIMEOUT is 0, the default; TRUE: it is set

ASSUME FailoverAssumption ==
    /\ MaxKeys \in Nat
    /\ KeyStatus \subseteq {401, 402, 403, 429} \cup 500 .. 599
    /\ Deadlines \subseteq BOOLEAN

Upstream == {"go", "ollama"}

VARIABLES
    route,    \* the request: fixed by its body, its model's route and its token
    pc,       \* where the goroutine is
    ui,       \* index of the upstream in route.order, 0 before the loop
    keys,     \* number of keys of the current pick
    key,      \* number of the key being tried
    mode,     \* how the answer's body is handled
    result,   \* the attemptResult of the last upstream that returned one
    attempted,\* attemptedAny
    wrote,    \* c.Writer.Written() of a relayed answer
    answer,   \* status of the error envelope sent to the client, 0 for none
    client,   \* whether the client still waits
    trail     \* history: one record per finished attempt

vars == <<route, pc, ui, keys, key, mode, result, attempted, wrote, answer,
          client, trail>>

----------------------------------------------------------------------------

\* order: route.Upstreams without duplicates; allowed: the upstreams whose
\* group the token may use; cross: those that speak another protocol than
\* the client; responses: the client speaks the Responses protocol; deadline:
\* a request context has the gateway's timeout (never for a stream).
Routes ==
    [order : {<<"go">>, <<"ollama">>, <<"go", "ollama">>, <<"ollama", "go">>},
     allowed : SUBSET Upstream,
     cross : SUBSET Upstream,
     stream : BOOLEAN, responses : BOOLEAN, deadline : Deadlines]

NoResult == [status |-> 0, retryable |-> FALSE]

Current == route.order[ui]
IsLast == ui = Len(route.order)
Cross == Current \in route.cross
Timed == route.deadline /\ ~route.stream

\* The end of one attempt: how it ended, which mark its key got and the
\* status of its usage-log row (0: no row).
Ended(end, mark, log) ==
    trail' = Append(trail, [up |-> ui, key |-> key, of |-> keys, end |-> end,
                            mark |-> mark, log |-> log])

Return(status, retryable) ==
    /\ pc' = "returned"
    /\ result' = [status |-> status, retryable |-> retryable]
    /\ UNCHANGED key

\* Mutant: one key more than the pick returned.
NextKeyBeyond(status) ==
    IF key <= keys
    THEN key' = key + 1 /\ pc' = "attempt" /\ UNCHANGED result
    ELSE Return(status, TRUE)

\* Mutant: the last key of the pick is never tried.
NextKeyButLast(status) ==
    IF key + 1 < keys
    THEN key' = key + 1 /\ pc' = "attempt" /\ UNCHANGED result
    ELSE Return(status, TRUE)

\* The next key, or an attemptResult the next upstream may replace.
NextKeyOr(status) ==
    IF key < keys
    THEN key' = key + 1 /\ pc' = "attempt" /\ UNCHANGED result
    ELSE Return(status, TRUE)

Stop == pc' = "done" /\ UNCHANGED <<key, result>>

\* Mutant: Ollama's failures are never logged.
LogOfGoOnly(status) == IF Current = "ollama" THEN 0 ELSE status

\* Ollama's key handlers leave an intermediate failure out of the usage log.
LogOf(status) == IF Current = "ollama" /\ key < keys THEN 0 ELSE status

----------------------------------------------------------------------------
(* proxyRequest: the checks before the loop, the loop over the upstreams   *)

\* Unreadable or oversized body, unknown model, disabled model.
Reject ==
    /\ pc = "received"
    /\ answer' \in {400, 413, 404, 403}
    /\ pc' = "done"
    /\ UNCHANGED <<route, ui, keys, key, mode, result, attempted, wrote,
                   client, trail>>

Resolve ==
    /\ pc = "received"
    /\ pc' = "choose" /\ ui' = 1
    /\ UNCHANGED <<route, keys, key, mode, result, attempted, wrote, answer,
                   client, trail>>

\* Mutant: the loop index does not move.
SkipInPlace ==
    /\ pc = "choose" /\ Current \notin route.allowed /\ ~IsLast
    /\ UNCHANGED vars

\* A group the token may not use: the upstream is passed over.
SkipForbidden ==
    /\ pc = "choose" /\ Current \notin route.allowed /\ ~IsLast
    /\ ui' = ui + 1
    /\ UNCHANGED <<route, pc, keys, key, mode, result, attempted, wrote,
                   answer, client, trail>>

\* Mutant: 403 even after another upstream failed.
StopAlways403 ==
    /\ pc = "choose" /\ Current \notin route.allowed /\ IsLast
    /\ pc' = "done" /\ answer' = 403
    /\ UNCHANGED <<route, ui, keys, key, mode, result, attempted, wrote,
                   client, trail>>

\* The last upstream is forbidden: 403 if nothing was attempted, else the
\* last result is answered.
StopForbidden ==
    /\ pc = "choose" /\ Current \notin route.allowed /\ IsLast
    /\ IF attempted THEN pc' = "answering" /\ UNCHANGED answer
                    ELSE pc' = "done" /\ answer' = 403
    /\ UNCHANGED <<route, ui, keys, key, mode, result, attempted, wrote,
                   client, trail>>

\* Mutant: the group check is missing.
EnterAny ==
    /\ pc = "choose"
    /\ attempted' = TRUE
    /\ keys' \in 1 .. MaxKeys
    /\ key' = 1 /\ pc' = "attempt"
    /\ UNCHANGED <<route, ui, mode, result, wrote, answer, client, trail>>

\* The request body is converted for this upstream and its keys are picked.
\* 400: the body cannot be converted; 503: the pool has no available key.
Enter ==
    /\ pc = "choose" /\ Current \in route.allowed
    /\ attempted' = TRUE
    /\ \/ /\ Cross
          /\ Ended("unconvertible", "none", 0) /\ Return(400, FALSE)
          /\ UNCHANGED keys
       \/ /\ Ended("noKey", "none", 0) /\ Return(503, TRUE)
          /\ UNCHANGED keys
       \/ /\ keys' \in 1 .. MaxKeys
          /\ key' = 1 /\ pc' = "attempt"
          /\ UNCHANGED <<result, trail>>
    /\ UNCHANGED <<route, ui, mode, wrote, answer, client>>

\* A retryable result moves on to the next upstream, if there is one; the
\* Go handler looks for one itself, with the same outcome.
Judge ==
    /\ pc = "returned"
    /\ IF result.retryable /\ ~IsLast
       THEN ui' = ui + 1 /\ pc' = "choose"
       ELSE pc' = "answering" /\ UNCHANGED ui
    /\ keys' = 0 /\ key' = 0
    /\ UNCHANGED <<route, mode, result, attempted, wrote, answer, client,
                   trail>>

\* "All upstreams failed": the error envelope.
Answer ==
    /\ pc = "answering"
    /\ answer' = result.status
    /\ pc' = "done"
    /\ UNCHANGED <<route, ui, keys, key, mode, result, attempted, wrote,
                   client, trail>>

----------------------------------------------------------------------------
(* One attempt: the exchange up to the response headers                    *)

AttemptFrame == UNCHANGED <<route, ui, keys, mode, attempted, wrote, answer,
                            client>>

\* The URL cannot be parsed: no request is sent.
BadTarget ==
    /\ pc = "attempt"
    /\ Ended("badTarget", "none", 500)
    /\ Return(500, FALSE)
    /\ AttemptFrame

\* Do fails because the client left: 499 in the log, nothing is answered.
Canceled ==
    /\ pc = "attempt" /\ client = "gone"
    /\ Ended("canceled", "none", 499)
    /\ Stop
    /\ AttemptFrame

\* Mutant: the deadline is taken for the client's cancellation.
DeadlineTerminal ==
    /\ pc = "attempt" /\ Timed
    /\ Ended("deadline", "none", 504)
    /\ Stop
    /\ AttemptFrame

DeadlineHit ==
    /\ pc = "attempt" /\ Timed
    /\ Ended("deadline", "none", 504)
    /\ NextKeyOr(504)
    /\ AttemptFrame

Refused ==
    /\ pc = "attempt"
    /\ Ended("refused", "failure", LogOf(502))
    /\ NextKeyOr(502)
    /\ AttemptFrame

\* 401, 402, 403, 429 and 5xx.  The Go handler logs 502 when it cannot read
\* the error's body.
KeyFailure ==
    /\ pc = "attempt"
    /\ \E s \in KeyStatus :
          /\ \E log \in IF Current = "go" THEN {s, 502} ELSE {LogOf(s)} :
                Ended("keyFailure", "failure", log)
          /\ NextKeyOr(s)
    /\ AttemptFrame

\* Ollama without conversion has no branch for the other 4xx: they reach
\* proxySameProtocolResponse.
OllamaSame == Current = "ollama" /\ ~Cross

\* 408: the next upstream may help, another key of this one does not.
RequestTimeout ==
    /\ pc = "attempt"
    /\ Ended("timeout408", "none", 408)
    /\ IF OllamaSame THEN NextKeyOr(502) ELSE Return(408, TRUE)
    /\ AttemptFrame

\* 400, 404, 405, 409, 413, 415, 422: isClientErrorNonRetryable.
ClientError ==
    /\ pc = "attempt"
    /\ Ended("clientError", "none", 400)
    /\ Return(400, FALSE)
    /\ AttemptFrame

\* Any other 4xx.
OtherError ==
    /\ pc = "attempt"
    /\ Ended("otherError", "none", 410)
    /\ IF OllamaSame THEN NextKeyOr(502) ELSE Return(410, FALSE)
    /\ AttemptFrame

\* A status below 400: the body handler follows from the protocols, the
\* request's stream flag and whether the answer is an event stream.
Accepted ==
    /\ pc = "attempt"
    /\ pc' = "body"
    /\ \E sse \in BOOLEAN :
          mode' = IF Cross THEN (IF route.stream THEN "convert" ELSE "buffered")
                  ELSE IF route.responses /\ sse THEN "convert"
                  ELSE IF ~route.stream /\ ~sse THEN "whole"
                  ELSE "live"
    /\ UNCHANGED <<route, ui, keys, key, result, attempted, wrote, answer,
                   client, trail>>

----------------------------------------------------------------------------
(* The answer's body before anything reached the client                    *)

BodyFrame == UNCHANGED <<route, ui, keys, mode, attempted, answer, client>>

\* The body is unreadable, undecodable or empty: the key is marked, the next
\* one is tried.
BadBody ==
    /\ pc = "body"
    /\ Ended("badBody", "failure", 502)
    /\ NextKeyOr(502)
    /\ UNCHANGED wrote /\ BodyFrame

\* The read fails with the context's error.  "whole" ignores read errors and
\* finds a body it cannot parse; Ollama's same-protocol handler does not look
\* at Terminal and returns the upstream's 200 as its result.
BodyCut ==
    /\ pc = "body" /\ (client = "gone" \/ Timed)
    /\ mode # "whole"
    /\ Ended("cut", "none", 499)
    /\ IF OllamaSame THEN Return(200, FALSE) ELSE Stop
    /\ UNCHANGED wrote /\ BodyFrame

\* A streamed answer: the first event is valid and goes out with the headers.
Commit ==
    /\ pc = "body" /\ mode \in {"convert", "live"}
    /\ wrote' = TRUE /\ pc' = "piping"
    /\ UNCHANGED <<key, result, trail>> /\ BodyFrame

\* The first write finds the client gone.
CommitUnwritable ==
    /\ pc = "body" /\ mode \in {"convert", "live", "whole"} /\ client = "gone"
    /\ wrote' = TRUE
    /\ Ended("clientWrite", "none", 200)
    /\ Stop
    /\ BodyFrame

\* A whole answer is valid and written at once.
WriteWhole ==
    /\ pc = "body" /\ mode \in {"whole", "buffered"}
    /\ wrote' = TRUE
    /\ Ended("complete", "success", 200)
    /\ Stop
    /\ BodyFrame

----------------------------------------------------------------------------
(* The rest of a committed stream *)

PipeFrame == UNCHANGED wrote /\ BodyFrame

StreamEnds ==
    /\ pc = "piping"
    /\ Ended("complete", "success", 200)
    /\ Stop /\ PipeFrame

\* Mutant: a broken stream is retried with the next key.
StreamBreaksRetry ==
    /\ pc = "piping"
    /\ Ended("upstreamBroke", "failure", 200)
    /\ NextKeyOr(502) /\ PipeFrame

\* Mutant: a broken stream is answered with an error envelope.
StreamBreaksAnswered ==
    /\ pc = "piping"
    /\ Ended("upstreamBroke", "failure", 200)
    /\ Return(502, FALSE) /\ PipeFrame

\* The upstream reports failure, breaks off or sends what cannot be decoded.
\* "live" only copies bytes: without the tracker of the Responses protocol it
\* sees nothing but the read error, which marks no key.
StreamBreaks ==
    /\ pc = "piping"
    /\ \E mark \in IF mode = "convert" THEN {"failure"}
                   ELSE IF route.responses THEN {"failure", "none"} ELSE {"none"} :
          Ended("upstreamBroke", mark, 200)
    /\ Stop /\ PipeFrame

\* The context ends while the stream is read.
StreamCut ==
    /\ pc = "piping" /\ (client = "gone" \/ Timed)
    /\ Ended("cut", "none", 200)
    /\ Stop /\ PipeFrame

\* A later write finds the client gone.  The converter returns that error as
\* it is: only the first write is wrapped as errClientWriteAfterCommit.
StreamUnwritable ==
    /\ pc = "piping" /\ client = "gone"
    /\ Ended("clientWrite", IF mode = "convert" THEN "failure" ELSE "none", 200)
    /\ Stop /\ PipeFrame

----------------------------------------------------------------------------

ClientLeaves ==
    /\ client = "waiting" /\ pc # "done"
    /\ client' = "gone"
    /\ UNCHANGED <<route, pc, ui, keys, key, mode, result, attempted, wrote,
                   answer, trail>>

Init ==
    /\ route \in Routes
    /\ pc = "received" /\ ui = 0 /\ keys = 0 /\ key = 0 /\ mode = "none"
    /\ result = NoResult
    /\ attempted = FALSE /\ wrote = FALSE
    /\ answer = 0
    /\ client = "waiting"
    /\ trail = <<>>

Choose == Reject \/ Resolve \/ SkipForbidden \/ StopForbidden \/ Enter \/ Judge \/ Answer

Exchange == \/ BadTarget \/ Canceled \/ DeadlineHit \/ Refused \/ KeyFailure
            \/ RequestTimeout \/ ClientError \/ OtherError \/ Accepted

Body == \/ BadBody \/ BodyCut \/ Commit \/ CommitUnwritable \/ WriteWhole
        \/ StreamEnds \/ StreamBreaks \/ StreamCut \/ StreamUnwritable

Handle == Choose \/ Exchange \/ Body

Next == Handle \/ ClientLeaves

Spec == Init /\ [][Next]_vars

\* The goroutine runs; once the client has left, its context makes every
\* upstream call and read return.
FairSpec == Spec /\ WF_vars(Handle)

----------------------------------------------------------------------------
(* Properties *)

Ends == {"unconvertible", "noKey", "badTarget", "canceled", "deadline",
         "refused", "keyFailure", "timeout408", "clientError", "otherError",
         "badBody", "cut", "complete", "clientWrite", "upstreamBroke"}

Status == KeyStatus \cup {0, 200, 400, 403, 404, 408, 410, 413, 499, 500, 502, 503, 504}

Attempt == [up : {1, 2}, key : 0 .. MaxKeys, of : 0 .. MaxKeys, end : Ends,
            mark : {"none", "failure", "success"}, log : Status]

TypeOK ==
    /\ route \in Routes
    /\ pc \in {"received", "choose", "attempt", "body", "piping", "returned", "answering",
              "done"}
    /\ ui \in 0 .. Len(route.order)
    /\ keys \in 0 .. MaxKeys /\ key \in 0 .. MaxKeys
    /\ mode \in {"none", "convert", "buffered", "whole", "live"}
    /\ result \in [status : Status, retryable : BOOLEAN]
    /\ attempted \in BOOLEAN /\ wrote \in BOOLEAN
    /\ answer \in Status
    /\ client \in {"waiting", "gone"}
    /\ trail \in Seq(Attempt)

Last == trail[Len(trail)]

\* "Each upstream is tried at most once - no circular retry" (api/proxy.go,
\* proxyRequest): the attempts go through the upstreams in the route's order
\* and through the keys of each in the pick's order, without a gap.
InOrder ==
    \A i \in 1 .. Len(trail) - 1 :
        LET a == trail[i]
            b == trail[i + 1]
        IN  \/ b.up = a.up /\ b.key = a.key + 1 /\ b.of = a.of
            \/ b.up > a.up /\ b.key \in {0, 1}

\* A token's group restriction holds on every hop of a failover: no attempt
\* uses an upstream the token may not use, and a request that got to the loop
\* is answered 403 without an attempt exactly when the token may use none of
\* the route's upstreams.
PermittedOnly ==
    /\ \A i \in DOMAIN trail : route.order[trail[i].up] \in route.allowed
    /\ pc = "done" /\ ui > 0 =>
          ((answer = 403 /\ trail = <<>>) <=>
              \A j \in DOMAIN route.order : route.order[j] \notin route.allowed)

\* The client gets a retryable failure only after failover ran out: every
\* permitted upstream was entered, and its last key was tried unless a 408
\* made the other keys pointless.
Exhaustive ==
    pc = "done" /\ answer # 0 /\ result.retryable =>
        \A j \in DOMAIN route.order :
            route.order[j] \in route.allowed =>
                \E i \in DOMAIN trail :
                    /\ trail[i].up = j
                    /\ trail[i].key = trail[i].of \/ trail[i].end = "timeout408"

\* Failover tries everything once: in order without a gap, and to the end before
\* the client gets a failure another attempt might have mended.
TriesAll == InOrder /\ Exhaustive

\* The status a failed attempt stands for.
StatusOf(a) ==
    CASE a.end = "unconvertible" -> {400}
      [] a.end = "noKey"         -> {503}
      [] a.end = "deadline"      -> {504}
      [] a.end \in {"refused", "badBody"} -> {502}
      [] a.end \in {"timeout408", "otherError"} -> {a.log, 502}
      [] a.end = "keyFailure" /\ a.log = 502 -> KeyStatus
      [] OTHER -> {a.log}

\* The error the client sees is the one of the last upstream that was entered:
\* an upstream skipped for permission never hides a real failure
\* (proxyRequest, lastResult). Nothing is said of a body whose read was cut off:
\* the client has left, or see WaitingClientIsAnswered.
AnswerFromLast ==
    answer # 0 /\ trail # <<>> /\ Last.end # "cut" => answer \in StatusOf(Last)

\* Only the last attempt reaches the client, and only it can count as a
\* success of its key: once bytes are committed no other key or upstream is
\* tried (proxyRequest and proxyGoUpstream, the Written() checks).
OnlyLastReachesClient ==
    \A i \in DOMAIN trail :
        trail[i].end \in {"complete", "clientWrite", "upstreamBroke"}
            \/ trail[i].mark = "success"
        => i = Len(trail) /\ wrote /\ pc = "done"

\* The usage log has a row for the attempt that decided the request, also
\* where Ollama's intermediate failures have none.
LastLogged ==
    pc = "done" /\ trail # <<>> /\ Last.end \notin {"unconvertible", "noKey"}
        => Last.log # 0

\* A request ends without a response only when the client left or, with a
\* deadline set, when the deadline passed while the body was read.
NoSilentEnd ==
    pc = "done" /\ client = "waiting" =>
        wrote \/ answer >= 400 \/ (Timed /\ Last.end = "cut")

\* Once the client has left the request ends, whatever the upstreams do.
EndsWhenClientLeft == client = "gone" ~> pc = "done"

Phase ==
    IF wrote
    THEN IF answer # 0 THEN "mixed"
         ELSE IF pc # "done" THEN "relaying"
         ELSE IF Last.end = "complete" THEN "delivered" ELSE "broken"
    ELSE IF answer # 0 THEN "refused"
         ELSE IF pc = "done" THEN "dropped" ELSE "waiting"

Client == INSTANCE OneResponse WITH phase <- Phase

\* The failover loop keeps the gateway's promise to the client.
ImplementsOneResponse == Client!Spec

\* "client write failure ... the upstream is healthy, do NOT markKeyFailure"
\* (api/stream.go, proxyCrossProtocolStream).
NoBlameForClient ==
    \A i \in DOMAIN trail :
        trail[i].end = "clientWrite" => trail[i].mark # "failure"

\* "Terminal stops the current request without failover.  It is used for
\* client disconnects/cancellations" (api/stream.go, responseResult): a request
\* whose client still waits gets an answer.
WaitingClientIsAnswered ==
    pc = "done" /\ client = "waiting" => wrote \/ answer >= 400
=============================================================================
