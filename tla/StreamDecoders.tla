--------------------------- MODULE StreamDecoders ---------------------------
(***************************************************************************)
(* The upstream's side of a converted stream: which events an upstream of  *)
(* each protocol sends, and what protocol/stream_*.go and the Decode...    *)
(* functions make of one event.                                            *)
(*                                                                         *)
(* An upstream event is [t, i, k, n]: its type, the index it carries (tool *)
(* call, content block or output item), a kind or reason, and its payload. *)
(* A payload is the position of the event in the stream, so each one can   *)
(* be told from every other; 0 is the empty string. The id of a tool call  *)
(* is its index plus one, and 0 is no id.                                  *)
(***************************************************************************)
EXTENDS Naturals, Sequences, FiniteSets

Protocols == {"chat", "messages", "responses"}

Event(t, i, k) == [t |-> t, i |-> i, k |-> k, n |-> 0]

\* IRStreamEvent, with the fields the converter looks at.
NoEvent == [meta |-> FALSE, usage |-> {}, text |-> 0, content |-> <<>>,
            calls |-> <<>>, args |-> <<>>, delta |-> 0, finish |-> ""]

Piece(k, n) == [k |-> k, n |-> n]
ToolCall(i, id, n) == [i |-> i, id |-> id, n |-> n]

-----------------------------------------------------------------------------
(***************************************************************************)
(* Decoding. Error payloads, malformed JSON and empty chunks are errors of *)
(* the decoder; the converter's SourceBreaks stands for them.              *)
(***************************************************************************)
DecodeChatStreamChunk(e) ==
    LET chunk == [NoEvent EXCEPT !.meta = TRUE]
        id == e.i + 1
    IN  CASE e.t = "role" -> chunk
          [] e.t = "text" -> [chunk EXCEPT !.text = e.n]
          [] e.t = "think" -> [chunk EXCEPT !.content = <<Piece("think", e.n)>>]
          [] e.t = "call" -> [chunk EXCEPT !.calls = <<ToolCall(e.i, id, 0)>>]
          [] e.t = "args" -> [chunk EXCEPT !.calls = <<ToolCall(e.i, 0, e.n)>>]
          [] e.t = "whole" -> [chunk EXCEPT !.calls = <<ToolCall(e.i, id, e.n)>>]
          [] e.t = "finish" -> [chunk EXCEPT !.finish = e.k]
          [] e.t = "usage" -> [chunk EXCEPT !.usage = {"prompt", "completion"}]

DecodeMessagesStreamEvent(e) ==
    CASE e.t = "message_start" -> [NoEvent EXCEPT !.meta = TRUE, !.usage = {"prompt"}]
      [] e.t = "block_start" /\ e.k = "tool" ->
            [NoEvent EXCEPT !.calls = <<ToolCall(e.i, e.i + 1, 0)>>]
      [] e.t = "block_start" /\ e.k # "tool" ->
            [NoEvent EXCEPT !.content = <<Piece(e.k, 0)>>]
      [] e.t = "block_delta" /\ e.k = "tool" ->
            [NoEvent EXCEPT !.args = <<[i |-> e.i, n |-> e.n]>>]
      [] e.t = "block_delta" /\ e.k # "tool" ->
            [NoEvent EXCEPT !.content = <<Piece(e.k, e.n)>>, !.delta = e.n]
      [] e.t = "message_delta" -> [NoEvent EXCEPT !.finish = e.k, !.usage = {"completion"}]
      [] e.t = "message_stop" -> [NoEvent EXCEPT !.finish = "stop"]
      [] OTHER -> NoEvent     \* block_stop, ping

DecodeResponsesStreamEvent(e) ==
    CASE e.t = "created" -> [NoEvent EXCEPT !.meta = TRUE]
      [] e.t = "item_added" /\ e.k = "call" ->
            [NoEvent EXCEPT !.calls = <<ToolCall(e.i, e.i + 1, 0)>>]
      [] e.t = "text_delta" -> [NoEvent EXCEPT !.delta = e.n]
      [] e.t = "think_delta" -> [NoEvent EXCEPT !.content = <<Piece("think", e.n)>>,
                                                !.delta = e.n]
      [] e.t = "args_delta" -> [NoEvent EXCEPT !.args = <<[i |-> e.i, n |-> e.n]>>]
      [] e.t = "item_done" ->
            [NoEvent EXCEPT !.finish = IF e.k = "call" THEN "tool_calls" ELSE "stop"]
      [] e.t = "completed" -> [NoEvent EXCEPT !.meta = TRUE,
                                              !.usage = {"prompt", "completion"}]
      [] e.t = "incomplete" -> [NoEvent EXCEPT !.finish = "length"]
      [] e.t = "failed" -> [NoEvent EXCEPT !.finish = "failed"]
      [] OTHER -> NoEvent     \* items without content, ...done and lifecycle events

Decode(up, e) ==
    CASE up = "chat" -> DecodeChatStreamChunk(e)
      [] up = "messages" -> DecodeMessagesStreamEvent(e)
      [] up = "responses" -> DecodeResponsesStreamEvent(e)

\* terminalSeen: the stream may end cleanly after this event.
ChatTerminal(e) == e.t = "finish"
MessagesTerminal(e) == e.t = "message_stop"
ResponsesTerminal(e) == e.t \in {"completed", "incomplete", "failed"}
Terminal(up, e) ==
    CASE up = "chat" -> ChatTerminal(e)
      [] up = "messages" -> MessagesTerminal(e)
      [] up = "responses" -> ResponsesTerminal(e)

\* Whether a decoder returns nil when its stream stops: at [DONE], at the end
\* of the body, or broken by an error. seen is terminalSeen.
ChatStreamDecoder(seen, how) == how = "done" \/ (how = "eof" /\ seen)
\* Mutant: a Messages stream that just stops is taken for whole.
MessagesDecoderTrusting(seen, how) == how = "eof"
MessagesStreamDecoder(seen, how) == how = "eof" /\ seen
ResponsesStreamDecoder(seen, how) == how \in {"done", "eof"} /\ seen
DecodesWhole(up, seen, how) ==
    CASE up = "chat" -> ChatStreamDecoder(seen, how)
      [] up = "messages" -> MessagesStreamDecoder(seen, how)
      [] up = "responses" -> ResponsesStreamDecoder(seen, how)

-----------------------------------------------------------------------------
(***************************************************************************)
(* The upstreams. h is what the upstream has sent so far.                  *)
(***************************************************************************)
Sent(h, t) == \E j \in 1..Len(h) : h[j].t = t
SentAt(h, t, i) == \E j \in 1..Len(h) : h[j].t = t /\ h[j].i = i

Reasons == {"stop", "tool_calls", "length"}

\* A Chat upstream: deltas in any order (tool call 1 starts after tool call 0,
\* a call may start with its arguments or never be named), then the finish
\* chunk, then perhaps usage.
ChatSends(h, Tools) ==
    LET named(i) == SentAt(h, "call", i) \/ SentAt(h, "whole", i)
        fresh == {i \in Tools : /\ ~named(i) /\ ~SentAt(h, "args", i)
                                /\ \A j \in Tools : j < i => named(j)}
    IN  IF Sent(h, "finish")
          THEN IF Sent(h, "usage") THEN {} ELSE {Event("usage", 0, "")}
          ELSE (IF h = <<>> THEN {Event("role", 0, "")} ELSE {})
               \cup {Event(t, 0, "") : t \in {"text", "think"}}
               \cup {Event("call", i, "") : i \in fresh}
               \cup {Event("whole", i, "") : i \in fresh}
               \cup {Event("args", i, "") : i \in Tools}
               \cup {Event("finish", 0, r) : r \in Reasons}

\* A Messages upstream: blocks one after the other, numbered from 0.
MessagesSends(h) ==
    LET blocks == {j \in 1..Len(h) : h[j].t = "block_start"}
        stops == {j \in 1..Len(h) : h[j].t = "block_stop"}
        last == CHOOSE j \in blocks : \A b \in blocks : b <= j
        nblocks == Cardinality(blocks)
    IN  IF h = <<>> THEN {Event("message_start", 0, ""), Event("ping", 0, "")}
        ELSE IF h[1].t = "ping" /\ Len(h) = 1 THEN {Event("message_start", 0, "")}
        ELSE IF Sent(h, "message_stop") THEN {}
        ELSE IF Sent(h, "message_delta") THEN {Event("message_stop", 0, "")}
        ELSE IF nblocks > Cardinality(stops)
               THEN {Event("block_delta", h[last].i, h[last].k),
                     Event("block_stop", h[last].i, "")}
               ELSE {Event("block_start", nblocks, k) : k \in {"text", "think", "tool"}}
                    \cup {Event("message_delta", 0, r) :
                             r \in {"end_turn", "tool_use", "max_tokens"}}

\* A Responses upstream: output items one after the other, numbered from 0.
ResponsesSends(h) ==
    LET added == {j \in 1..Len(h) : h[j].t = "item_added"}
        last == CHOOSE j \in added : \A b \in added : b <= j
        done == {j \in 1..Len(h) : h[j].t = "item_done"}
        nadded == Cardinality(added)
        delta == CASE h[last].k = "message" -> "text_delta"
                   [] h[last].k = "reasoning" -> "think_delta"
                   [] h[last].k = "call" -> "args_delta"
    IN  IF \E j \in 1..Len(h) : ResponsesTerminal(h[j]) THEN {}
        ELSE (IF h = <<>> THEN {Event("created", 0, "")} ELSE {Event("failed", 0, "")})
             \cup (IF nadded > Cardinality(done)
                     THEN {Event(delta, h[last].i, ""),
                           Event("item_done", h[last].i, h[last].k)}
                     ELSE {Event("item_added", nadded, k) :
                              k \in {"message", "reasoning", "call"}}
                          \cup {Event("completed", 0, "")})
             \cup (IF h = <<>> THEN {} ELSE {Event("incomplete", 0, "")})

Sends(up, h, Tools) ==
    CASE up = "chat" -> ChatSends(h, Tools)
      [] up = "messages" -> MessagesSends(h)
      [] up = "responses" -> ResponsesSends(h)
=============================================================================
