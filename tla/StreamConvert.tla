--------------------------- MODULE StreamConvert ---------------------------
(***************************************************************************)
(* protocol/stream_convert.go StreamConvertIncremental under               *)
(* api/stream.go proxyCrossProtocolStream: one upstream stream turned into *)
(* the client's protocol, event by event. It runs for a client of another  *)
(* protocol than the upstream, and for every Responses client, whose       *)
(* stream is rebuilt even when the upstream speaks Responses too.          *)
(*                                                                         *)
(* One step is one upstream event, with every client event it causes. HTTP *)
(* 200 is committed by the first client event (firstEventWriter), so the   *)
(* response is committed exactly when out is not empty.                    *)
(***************************************************************************)
EXTENDS StreamDecoders, StreamEmitters

CONSTANTS Tools,       \* tool call indices of a Chat upstream
          MaxEvents    \* bounds: events of one stream, by its protocol

ASSUME ToolsAssumption == Tools \subseteq Nat

VARIABLES up, dst,     \* protocols of the upstream and of the client
          given,       \* upstream events received
          closed,      \* how the upstream stream ended, "" while it is open
          conv,        \* state of the converter
          out,         \* events the client received
          mark         \* what the key is marked as at the end, "" before it

vars == <<up, dst, given, closed, conv, out, mark>>

\* conv.read counts the events converted: until the first event with content
\* is found, a Responses client's events are only held.
NewConverter == [em |-> NewEmitter, started |-> FALSE, seen |-> FALSE,
                 reason |-> "", failed |-> FALSE, read |-> 0]

Init ==
    /\ up \in Protocols
    /\ dst \in Protocols
    /\ up = dst => dst = "responses"
    /\ given = <<>> /\ closed = "" /\ conv = NewConverter
    /\ out = <<>> /\ mark = ""

-----------------------------------------------------------------------------
IsMeaningful(ev) ==
    \/ ev.meta \/ ev.usage # {}
    \/ ev.delta # 0 \/ ev.text # 0 \/ ev.finish # ""
    \/ \E j \in DOMAIN ev.content : ev.content[j].n # 0
    \/ \E j \in DOMAIN ev.calls : ev.calls[j].id # 0 \/ ev.calls[j].n # 0
    \/ \E j \in DOMAIN ev.args : ev.args[j].n # 0

\* A piece of content, the arguments of a tool call and a tool call, handed to
\* the emitter; empty ones are dropped.
PassText(s, c) == IF c.n = 0 THEN s ELSE OnDelta(dst, s, c.k, c.n)
PassArgs(s, c) == IF c.n = 0 THEN s ELSE OnToolCallDelta(dst, s, c.i, c.n)
PassCall(s, c) ==
    PassArgs(IF c.id = 0 THEN s ELSE OnToolCallStart(dst, s, c.i, c.id), c)

\* Mutant: the finish reason "failed" is passed on like any other.
EmitFailed(s, ev) ==
    LET s1 == FoldLeft(PassText, s, ev.content)
    IN  IF ev.finish = "" THEN s1 ELSE OnFinish(dst, s1, ev.finish)

\* One decoded event handed to the emitter, in the order of the code: content,
\* text, tool calls, tool arguments, content delta, usage and at last the
\* finish reason, which is withheld when it is "failed".
Emit(s, ev) ==
    LET s1 == FoldLeft(PassText, s, ev.content)
        s2 == IF ev.content = <<>> THEN PassText(s1, Piece("text", ev.text)) ELSE s1
        s3 == FoldLeft(PassArgs, FoldLeft(PassCall, s2, ev.calls), ev.args)
        s4 == IF ev.content = <<>> THEN PassText(s3, Piece("text", ev.delta)) ELSE s3
        s5 == OnUsage(dst, s4, ev.usage)
    IN  IF ev.finish \in {"", "failed"} THEN s5 ELSE OnFinish(dst, s5, ev.finish)

\* normalize: r is [c, w], the converter and what it wrote in this step.
Normalize(r, e) ==
    LET ev == Decode(up, e)
        started == r.c.started \/ IsMeaningful(ev)
        s0 == [e |-> r.c.em, w |-> r.w]
        s1 == IF started /\ ~r.c.started THEN OnStart(dst, s0) ELSE s0
        s2 == IF started THEN Emit(s1, ev) ELSE s1
    IN  [c |-> [em |-> s2.e, started |-> started,
                seen |-> r.c.seen \/ Terminal(up, e),
                reason |-> OrElse(ev.finish, r.c.reason),
                failed |-> ev.finish = "failed",
                read |-> r.c.read + 1],
         w |-> s2.w]

\* readFirstContentSSEEvent: for a Responses client, lifecycle events are held
\* and a failure before any content lets the caller try another key.
Lifecycle(e) == e.t = "created"
EarlyFailure(e) == e.t \in {"failed", "incomplete"}
PreReading == conv.read = 0 /\ dst = "responses"

-----------------------------------------------------------------------------
\* The client receives burst, or is found gone while it is written: the write
\* that commits is wrapped as a client error, a later one blames the key.
Deliver(burst, next, verdict) ==
    \/ /\ out' = out \o burst /\ conv' = next /\ mark' = verdict
    \/ \E j \in 0..(Len(burst) - 1) :
          /\ out' = out \o SubSeq(burst, 1, j) /\ conv' = next
          /\ mark' = IF out = <<>> /\ j = 0 THEN "none" ELSE "failure"

Receive(e) ==
    LET told == Append(given, e)
        start == [c |-> conv, w |-> <<>>]
        r == FoldLeft(Normalize, start, SubSeq(told, conv.read + 1, Len(told)))
    IN  /\ mark = "" /\ closed = ""
        /\ Len(given) < MaxEvents[up]
        /\ given' = told
        /\ \/ /\ PreReading /\ Lifecycle(e)
              /\ UNCHANGED <<conv, out, mark>>
           \/ /\ PreReading /\ EarlyFailure(e)
              /\ mark' = "failure"
              /\ UNCHANGED <<conv, out>>
           \/ /\ ~(PreReading /\ (Lifecycle(e) \/ EarlyFailure(e)))
              /\ Deliver(r.w, r.c, IF r.c.failed THEN "failure" ELSE "")
        /\ UNCHANGED <<up, dst, closed>>

\* The decoder reaches [DONE] or the end of the body. A stream it finds whole
\* is completed; otherwise onError writes nothing and the key is blamed.
SourceEnds(how) ==
    LET whole == conv.read > 0 /\ DecodesWhole(up, conv.seen, how)
        s == OnComplete(dst, [e |-> conv.em, w |-> <<>>], conv.reason)
    IN  /\ mark = "" /\ closed = ""
        /\ closed' = how
        /\ IF whole THEN Deliver(s.w, [conv EXCEPT !.em = s.e], "success")
                    ELSE mark' = "failure" /\ UNCHANGED <<conv, out>>
        /\ UNCHANGED <<up, dst, given>>

\* The body breaks, or an event of it cannot be decoded.
SourceBreaks ==
    /\ mark = "" /\ closed = ""
    /\ closed' = "broken" /\ mark' = "failure"
    /\ UNCHANGED <<up, dst, given, conv, out>>

\* The client cancels: reading the body fails with the request's context.
ClientCancels ==
    /\ mark = "" /\ closed = ""
    /\ closed' = "canceled" /\ mark' = "none"
    /\ UNCHANGED <<up, dst, given, conv, out>>

Next ==
    \/ \E e \in Sends(up, given, Tools) : Receive([e EXCEPT !.n = Len(given) + 1])
    \/ \E how \in {"done", "eof"} : SourceEnds(how)
    \/ SourceBreaks
    \/ ClientCancels

Spec == Init /\ [][Next]_vars

-----------------------------------------------------------------------------
(***************************************************************************)
(* Properties.                                                             *)
(***************************************************************************)
\* One vocabulary for both sides: the kind of content an event carries, and
\* the ids under which its tool call was introduced.
Kind(e) ==
    CASE e.t \in {"text", "text_delta"} -> "text"
      [] e.t \in {"think", "think_delta"} -> "think"
      [] e.t \in {"args", "whole", "args_delta"} -> "args"
      [] e.t = "block_delta" -> IF e.k = "tool" THEN "args" ELSE e.k
      [] OTHER -> ""
Begins(e) == \/ e.t \in {"call", "whole"}
             \/ e.t = "block_start" /\ e.k = "tool"
             \/ e.t = "item_added" /\ e.k = "call"
Content(h) ==
    LET said[j \in 0..Len(h)] ==
            IF j = 0 THEN <<>>
            ELSE IF Kind(h[j]) = "" THEN said[j - 1]
            ELSE Append(said[j - 1], [k |-> Kind(h[j]), n |-> h[j].n])
    IN  said[Len(h)]

EndMarker(e) ==
    CASE dst = "chat" -> e.t = "DONE"
      [] dst = "messages" -> e.t = "message_stop"
      [] dst = "responses" -> e.t \in {"completed", "incomplete"}
SourceWhole == /\ ~Sent(given, "failed")
               /\ \/ \E j \in DOMAIN given : Terminal(up, given[j])
                  \/ up = "chat" /\ closed = "done"

\* The detailed converter implements AnswerRelay: a client of any protocol
\* hears exactly the upstream's text, thinking and tool arguments, and no
\* end marker follows a stream that failed or broke off (stream_convert.go
\* P0-1/P0-3, "must NOT emit success terminal events").
Answer == INSTANCE AnswerRelay WITH
    heard <- Content(given),
    told <- Content(out),
    source <- IF SourceWhole THEN "whole"
              ELSE IF closed = "" /\ ~Sent(given, "failed") THEN "open" ELSE "cut",
    answer <- IF \E j \in DOMAIN out : EndMarker(out[j]) THEN "whole"
              ELSE IF mark = "" THEN "open" ELSE "cut"
RelaysAnswer == Answer!AnswerSpec

\* The Responses decoder reports a finish reason at every finished output item
\* (protocol/responses.go, response.output_item.done), so a stream that goes on
\* with another item has finished too early for the emitter.
FinishedEarly == \E j, k \in DOMAIN given :
                    j < k /\ given[j].t = "item_done" /\ given[k].t = "item_added"

\* Tool arguments reach the client under the id their call had when it was
\* introduced, whatever blocks or items the emitter opened in between.
Mentions(h, e) == {j \in DOMAIN h : h[j].i = e.i /\ (Begins(h[j]) \/ Kind(h[j]) = "args")}
IntroducedBy(h, e) == h[Min(Mentions(h, e))]
RightCall ==
    \A j \in {x \in DOMAIN out : Kind(out[x]) = "args"} :
        LET heard == IntroducedBy(given, given[out[j].n])
            told == IntroducedBy(out, out[j])
        IN  (IF Begins(told) THEN told.n ELSE 0)
            = (IF Begins(heard) THEN heard.i + 1 ELSE 0)

\* The parts of a Messages or Responses answer (blocks or items): each index is begun once and
\* stopped once, a delta falls between the two, and when the answer has ended
\* every part begun was stopped.
Begin(e) == e.t \in {"block_start", "item_added"}
Stop(e) == e.t \in {"block_stop", "item_done"}
Closed(h) == \A j \in DOMAIN h : Begin(h[j]) =>
                \E k \in DOMAIN h : j < k /\ Stop(h[k]) /\ h[k].i = h[j].i
PartsClosed ==
    dst # "chat" /\ ~FinishedEarly =>
        /\ \A j \in DOMAIN out :
              LET before == {k \in 1..(j - 1) : out[k].i = out[j].i}
                  begun == \E k \in before : Begin(out[k])
                  stopped == \E k \in before : Stop(out[k])
              IN  /\ Begin(out[j]) => ~begun
                  /\ Kind(out[j]) # "" \/ Stop(out[j]) => begun /\ ~stopped
        /\ (\E j \in DOMAIN out : EndMarker(out[j])) => Closed(out)

\* A client hears at most one finish reason and one end marker, and after the
\* end nothing but the usage and [DONE] that belong to it.
OneEnding ==
    LET says(types) == {j \in DOMAIN out : out[j].t \in types}
        finish == says({"finish", "message_delta", "completed", "incomplete"})
        content == {j \in DOMAIN out : Kind(out[j]) # "" \/ Begin(out[j])}
    IN  /\ Cardinality(finish) <= 1 /\ Cardinality(says({"message_stop", "DONE"})) <= 1
        /\ ~FinishedEarly => \A j \in content, k \in finish : j < k
WellFormed == PartsClosed /\ OneEnding

\* An answer that was cut at the token limit is not passed off as a finished
\* one. Not kept from Messages to Responses, where message_stop overwrites the
\* reason max_tokens with "stop", and after a Responses item that is done.
CutShort(h) == \E j \in DOMAIN h :
    h[j].t = "incomplete" \/ h[j].k \in {"length", "max_tokens"}
TruncationTold ==
    /\ mark = "success"
    /\ ~(up = "messages" /\ dst = "responses")
    /\ ~(up = "responses" /\ Sent(given, "item_done"))
    => (CutShort(out) <=> CutShort(given))

\* Token counts the upstream reported reach the client, even when they come
\* after the finish reason. Not kept for a Messages client, whose only usage
\* is in the message_delta written at the finish reason.
UsageTold ==
    mark = "success" /\ dst # "messages" =>
        \A h \in DOMAIN given : \A u \in Decode(up, given[h]).usage :
            \E j \in DOMAIN out : u \in out[j].u
EndingTold == TruncationTold /\ UsageTold

\* A stream that fails before it said anything is not committed, so that the
\* caller can still fail over (P0-2). Not kept when message_start or the first
\* chunk of an upstream already opened a Messages or Responses answer.
FailsOverBeforeContent ==
    /\ mark = "failure" /\ (dst = "chat" \/ up = dst)
    /\ \A j \in DOMAIN given : given[j].t \in {"role", "ping", "message_start", "created", "failed"}
    => out = <<>>
=============================================================================
