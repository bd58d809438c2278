----------------------------- MODULE Conversion -----------------------------
(***************************************************************************)
(* What the gateway makes of the bodies of one request, by the route it    *)
(* takes (api/stream.go proxySameProtocolResponse and                      *)
(* proxyCrossProtocolResponse): a streamed answer is converted event by    *)
(* event or passed on live, and messages and whole answers are converted   *)
(* at once. The three share no state, so a behaviour follows one of them.  *)
(***************************************************************************)
EXTENDS StreamConvert

CONSTANTS MaxLines, MaxPending, Calls, MaxMessages

\* The tracker holds at least a line of two parts (maxSSERead is 1 MiB).
ASSUME MaxPendingAssumption == MaxPending \in Nat /\ MaxPending >= 2
\* The empty string stands for no id.
ASSUME CallsAssumption == "" \notin Calls

VARIABLES route,                             \* "converted", "live" or "messages"
          inbound, lines, size, pos, tracker, fate,
          from, form, invalid, history

liveVars == <<inbound, lines, size, pos, tracker, fate>>
messageVars == <<from, form, invalid, history>>

Live == INSTANCE LiveRelay
Message == INSTANCE MessageConvert

StreamIdle == /\ up = "chat" /\ dst = "chat" /\ given = <<>> /\ closed = ""
              /\ conv = NewConverter /\ out = <<>> /\ mark = ""
LiveIdle == /\ inbound = "other" /\ lines = <<>> /\ size = 0 /\ pos = 0
            /\ tracker = Live!NewTracker /\ fate = "reading"
MessageIdle == from = "chat" /\ form = "string" /\ invalid = {} /\ history = <<>>

ConversionInit ==
    \/ route = "converted" /\ Init /\ LiveIdle /\ MessageIdle
    \/ route = "live" /\ Live!Init /\ StreamIdle /\ MessageIdle
    \/ route = "messages" /\ Message!Init /\ StreamIdle /\ LiveIdle

ConversionNext ==
    /\ UNCHANGED route
    /\ \/ route = "converted" /\ Next /\ UNCHANGED <<liveVars, messageVars>>
       \/ route = "live" /\ Live!Next /\ UNCHANGED <<vars, messageVars>>
       \/ route = "messages" /\ Message!Next /\ UNCHANGED <<vars, liveVars>>

\* The verdict on a key does not depend on where io.Copy cut the stream into
\* chunks (responsesSSETracker, stated in LiveRelay).
VerdictIgnoresCuts == Live!VerdictIgnoresCuts

\* A converted request pairs every tool result with a call the upstream has just
\* seen, and leaves no call unanswered (normalizeChatHistory).
ToolsPaired == Message!ToolsPaired

\* The text of every message reaches the upstream, but for the exceptions that
\* MessageConvert names.
TextKept == Message!TextKept

\* The reasoning next to a tool call reaches an upstream that asks for it, and
\* no output item is lost on the way (attachReasoning, coalesce). Each piece
\* counts once; which turn it stands in is not compared.
ReasoningKept == Message!ThinkingKept /\ Message!OutputsKept

\* The client of a whole converted answer gets its text and its calls, but
\* for the exceptions that MessageConvert names.
AnswerKept == Message!AnswerKept

\* What a tool returned reaches the upstream (convert_test.go: a decoder that
\* dropped that payload "lost the tool output").
ToolOutputKept == Message!ToolOutputKept

ConversionSpec == ConversionInit /\ [][ConversionNext]_<<vars, liveVars, messageVars, route>>
=============================================================================
