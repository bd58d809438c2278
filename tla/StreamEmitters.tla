--------------------------- MODULE StreamEmitters ---------------------------
(***************************************************************************)
(* The three emitters of protocol/stream_convert.go. A handler takes       *)
(* [e, w], the emitter and what it has written so far, and returns both    *)
(* after the call. An event for the client is [t, i, n, k, u]: its type,   *)
(* the index it carries, a payload or a tool call's id, a kind or reason,  *)
(* and the usage fields it reports.                                        *)
(***************************************************************************)
EXTENDS Naturals, Sequences, FiniteSets, SequencesExt

Out(t) == [t |-> t, i |-> 0, n |-> 0, k |-> "", u |-> {}]
At(t, i) == [Out(t) EXCEPT !.i = i]
Write(s, ev) == [s EXCEPT !.w = Append(@, ev)]

\* The fields of the three emitter structs. current is currentType, block is
\* blockIdx, next is nextBlockIdx or nextOutputIndex, item is messageOutputIndex
\* (meant only once added), tools is toolBlocks or toolItems by source index.
NewEmitter ==
    [roleSent |-> FALSE, finished |-> FALSE, usage |-> {}, current |-> "",
     block |-> 0, next |-> 0, tools |-> <<>>, order |-> <<>>,
     added |-> FALSE, item |-> 0, part |-> FALSE]

ToChat(r) == CASE r \in {"end_turn", "stop_sequence"} -> "stop"
               [] r = "tool_use" -> "tool_calls"
               [] r = "max_tokens" -> "length"
               [] OTHER -> r
ToMessages(r) == CASE r = "stop" -> "end_turn"
                   [] r = "tool_calls" -> "tool_use"
                   [] r = "length" -> "max_tokens"
                   [] OTHER -> r
ToResponses(r) == CASE r = "stop" -> "completed"
                    [] r = "length" -> "incomplete"
                    [] OTHER -> r
OrElse(r, default) == IF r = "" THEN default ELSE r

-----------------------------------------------------------------------------
\* chatEmitter. onStart writes nothing.
ChatRole(s) ==
    IF s.e.roleSent THEN s
    ELSE [Write(s, Out("role")) EXCEPT !.e.roleSent = TRUE]
ChatDelta(s, k, n) == Write(ChatRole(s), [Out(k) EXCEPT !.n = n])
ChatToolStart(s, i, id) == Write(ChatRole(s), [At("call", i) EXCEPT !.n = id])
ChatToolDelta(s, i, n) == Write(s, [At("args", i) EXCEPT !.n = n])
ChatFinish(s, r) ==
    IF s.e.finished THEN s
    ELSE [Write(s, [Out("finish") EXCEPT !.k = ToChat(r)]) EXCEPT !.e.finished = TRUE]
ChatComplete(s, r) ==
    LET f == ChatFinish(s, OrElse(r, "stop"))
        u == IF f.e.usage = {} THEN f
             ELSE Write(f, [Out("usage") EXCEPT !.u = f.e.usage])
    IN  Write(u, Out("DONE"))

-----------------------------------------------------------------------------
\* messagesEmitter. Text and thinking blocks are closed when another kind of
\* block begins, tool blocks stay open for later deltas.
MessagesStart(s) == Write(s, Out("message_start"))
CloseCurrentBlock(s) ==
    IF s.e.current = "" THEN s
    ELSE [Write(s, At("block_stop", s.e.block))
            EXCEPT !.e.current = "", !.e.next = @ + 1]
OpenBlock(s, k) ==
    [Write(s, [At("block_start", s.e.next) EXCEPT !.k = k])
        EXCEPT !.e.block = s.e.next, !.e.current = k]
MessagesDelta(s, k, n) ==
    LET c == IF s.e.current = k THEN s ELSE CloseCurrentBlock(s)
        o == IF c.e.current = "" THEN OpenBlock(c, k) ELSE c
    IN  Write(o, [At("block_delta", o.e.block) EXCEPT !.n = n, !.k = k])

OpenTool(s, i) == i \in DOMAIN s.e.tools /\ s.e.tools[i].open
MessagesToolStart(s, i, id) ==
    IF OpenTool(s, i)
      THEN [s EXCEPT !.e.tools[i].id = IF id = 0 THEN @ ELSE id]
      ELSE LET c == CloseCurrentBlock(s)
               block == [at |-> c.e.next, id |-> id, open |-> TRUE]
           IN  [Write(c, [At("block_start", block.at) EXCEPT !.n = id, !.k = "tool"])
                  EXCEPT !.e.next = @ + 1,
                         !.e.tools = [j \in DOMAIN @ \cup {i} |->
                                         IF j = i THEN block ELSE @[j]]]
\* Mutant: arguments go to the tool block opened last.
MessagesToolDeltaLast(s, i, n) ==
    LET o == IF OpenTool(s, i) THEN s ELSE MessagesToolStart(s, i, 0)
    IN  Write(o, [At("block_delta", o.e.next - 1) EXCEPT !.n = n, !.k = "tool"])
MessagesToolDelta(s, i, n) ==
    LET o == IF OpenTool(s, i) THEN s ELSE MessagesToolStart(s, i, 0)
    IN  Write(o, [At("block_delta", o.e.tools[i].at) EXCEPT !.n = n, !.k = "tool"])

\* Mutant: tool blocks are left open.
NoToolStops(e) == <<>>
\* The stops of the tool blocks still open, in the order of their indices.
Nth(S, j) == CHOOSE x \in S : Cardinality({y \in S : y <= x}) = j
ToolStops(e) ==
    LET open == {e.tools[i].at : i \in {j \in DOMAIN e.tools : e.tools[j].open}}
    IN  [j \in 1..Cardinality(open) |-> At("block_stop", Nth(open, j))]
MessagesFinish(s, r) ==
    IF s.e.finished THEN s
    ELSE LET c == CloseCurrentBlock(s)
             reason == OrElse(ToMessages(r), "end_turn")
             delta == [Out("message_delta") EXCEPT
                          !.k = reason, !.u = c.e.usage \cap {"completion"}]
         IN  [c EXCEPT !.w = @ \o Append(ToolStops(c.e), delta),
                       !.e.finished = TRUE,
                       !.e.tools = [j \in DOMAIN @ |-> [@[j] EXCEPT !.open = FALSE]]]
MessagesComplete(s, r) == Write(MessagesFinish(s, r), Out("message_stop"))

-----------------------------------------------------------------------------
\* responsesEmitter. All text and thinking goes to one message item.
ResponsesStart(s) == Write(s, Out("created"))
EnsureMessageItem(s) ==
    IF s.e.added THEN s
    ELSE [Write(s, [At("item_added", s.e.next) EXCEPT !.k = "message"])
            EXCEPT !.e.added = TRUE, !.e.item = s.e.next, !.e.next = @ + 1]
ResponsesText(s, n) ==
    LET m == EnsureMessageItem(s)
        p == IF m.e.part THEN m
             ELSE [Write(m, At("part_added", m.e.item)) EXCEPT !.e.part = TRUE]
    IN  Write(p, [At("text_delta", p.e.item) EXCEPT !.n = n])
ResponsesThinking(s, n) ==
    LET m == EnsureMessageItem(s)
    IN  Write(m, [At("think_delta", m.e.item) EXCEPT !.n = n])
ResponsesToolStart(s, i, id) ==
    IF i \in DOMAIN s.e.tools
      THEN [s EXCEPT !.e.tools[i].id = IF id = 0 THEN @ ELSE id]
      ELSE LET item == [at |-> s.e.next, id |-> id, open |-> TRUE]
           IN  [Write(s, [At("item_added", item.at) EXCEPT !.n = id, !.k = "call"])
                  EXCEPT !.e.next = @ + 1, !.e.order = Append(@, i),
                         !.e.tools = [j \in DOMAIN @ \cup {i} |->
                                         IF j = i THEN item ELSE @[j]]]
ResponsesToolDelta(s, i, n) ==
    LET o == IF i \in DOMAIN s.e.tools THEN s ELSE ResponsesToolStart(s, i, 0)
    IN  Write(o, [At("args_delta", o.e.tools[i].at) EXCEPT !.n = n])

\* The message item first, then the tool items in the order they began, two
\* events for each.
ToolsDone(e) ==
    [j \in 1..(2 * Len(e.order)) |->
        LET tool == e.tools[e.order[(j + 1) \div 2]]
        IN  IF j % 2 = 1 THEN At("args_done", tool.at)
            ELSE [At("item_done", tool.at) EXCEPT !.k = "call", !.n = tool.id]]
ItemsDone(e) ==
    (IF e.part THEN <<At("text_done", e.item), At("part_done", e.item)>> ELSE <<>>)
    \o (IF e.added THEN <<[At("item_done", e.item) EXCEPT !.k = "message"]>> ELSE <<>>)
    \o ToolsDone(e)
ResponsesFinish(s, r) ==
    IF s.e.finished THEN s
    ELSE [s EXCEPT !.w = @ \o ItemsDone(s.e), !.e.finished = TRUE,
                   !.e.tools = [j \in DOMAIN @ |-> [@[j] EXCEPT !.open = FALSE]]]
ResponsesComplete(s, r) ==
    LET f == ResponsesFinish(s, r)
        type == IF ToResponses(r) \in {"incomplete", "failed"}
                  THEN ToResponses(r) ELSE "completed"
        end == Write(f, [Out(type) EXCEPT !.u = f.e.usage])
    IN  IF type = "completed" THEN Write(end, Out("DONE")) ELSE end

-----------------------------------------------------------------------------
\* targetEmitter, by the client's protocol.
OnStart(dst, s) ==
    CASE dst = "chat" -> s
      [] dst = "messages" -> MessagesStart(s)
      [] dst = "responses" -> ResponsesStart(s)
OnDelta(dst, s, k, n) ==
    CASE dst = "chat" -> ChatDelta(s, k, n)
      [] dst = "messages" -> MessagesDelta(s, k, n)
      [] dst = "responses" /\ k = "text" -> ResponsesText(s, n)
      [] dst = "responses" /\ k = "think" -> ResponsesThinking(s, n)
OnToolCallStart(dst, s, i, id) ==
    CASE dst = "chat" -> ChatToolStart(s, i, id)
      [] dst = "messages" -> MessagesToolStart(s, i, id)
      [] dst = "responses" -> ResponsesToolStart(s, i, id)
OnToolCallDelta(dst, s, i, n) ==
    CASE dst = "chat" -> ChatToolDelta(s, i, n)
      [] dst = "messages" -> MessagesToolDelta(s, i, n)
      [] dst = "responses" -> ResponsesToolDelta(s, i, n)
OnFinish(dst, s, r) ==
    CASE dst = "chat" -> ChatFinish(s, r)
      [] dst = "messages" -> MessagesFinish(s, r)
      [] dst = "responses" -> ResponsesFinish(s, r)
\* Mutant: a later report of usage replaces the earlier one.
OnUsageReplacing(dst, s, u) == [s EXCEPT !.e.usage = IF u = {} THEN @ ELSE u]
OnUsage(dst, s, u) == [s EXCEPT !.e.usage = @ \cup u]    \* mergeUsageInto
OnComplete(dst, s, r) ==
    CASE dst = "chat" -> ChatComplete(s, r)
      [] dst = "messages" -> MessagesComplete(s, r)
      [] dst = "responses" -> ResponsesComplete(s, r)
=============================================================================
