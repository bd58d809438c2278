--------------------------- MODULE MessageConvert ---------------------------
(***************************************************************************)
(* protocol.ConvertRequest and ConvertResponse: a client's conversation    *)
(* turned into the upstream's protocol, and a whole answer turned back.    *)
(* The conversation grows by one wire message or item at a time, and every *)
(* state is a request the client may send. A conversion to the client's    *)
(* own protocol passes the body on, so the properties are about the others.*)
(*                                                                         *)
(* A wire message is [role, think, text, calls, outs]: its reasoning and   *)
(* its visible text, the tool calls it makes and the tool outputs it       *)
(* carries. A Chat message carries one output, a Responses item is one     *)
(* thing only. Text is a sequence of payloads <<position, part>>, so that  *)
(* <<>> is the empty string and \o is concatenation.                       *)
(***************************************************************************)
EXTENDS Naturals, Sequences, SequencesExt

CONSTANTS Calls,       \* ids of tool calls
          MaxMessages  \* bounds: messages of a conversation, by protocol

VARIABLES from,        \* the client's protocol
          form,        \* its text contents: a "string" or a list of "parts"
          invalid,     \* calls whose tool name is not valid
          history      \* the client's conversation

vars == <<from, form, invalid, history>>

Wire(role, think, text, calls, outs) ==
    [role |-> role, think |-> think, text |-> text, calls |-> calls, outs |-> outs]

Init ==
    /\ from \in {"chat", "messages", "responses"}
    /\ form \in {"string", "parts"}
    /\ invalid \in {{}} \cup {{c} : c \in Calls}
    /\ history = <<>>

-----------------------------------------------------------------------------
(***************************************************************************)
(* The client (external). Calls are made once, outputs answer calls made   *)
(* before, possibly late, twice or never.                                  *)
(***************************************************************************)
Made == UNION {Range(history[j].calls) : j \in DOMAIN history}
Say(slot) == <<<<Len(history) + 1, slot>>>>
OneOf(slot) == {<<>>, Say(slot)}
CallSeqs == {q \in BoundedSeq(Calls \ Made, 2) : Len(q) < 2 \/ q[1] # q[2]}
Out(c) == [id |-> c, text |-> Say(c)]

User == Wire("user", <<>>, Say("text"), <<>>, <<>>)
System == Wire("system", <<>>, Say("text"), <<>>, <<>>)
ChatWire ==
    {User, System}
    \cup {Wire("assistant", th, tx, q, <<>>) :
             th \in OneOf("think"), tx \in OneOf("text"), q \in CallSeqs}
    \cup {Wire("tool", <<>>, <<>>, <<>>, <<Out(c)>>) : c \in Made}
MessagesWire ==
    {User}
    \cup {Wire("assistant", th, tx, q, <<>>) :
             th \in OneOf("think"), tx \in OneOf("text"), q \in CallSeqs}
    \cup {Wire("user", <<>>, tx, <<>>, [j \in DOMAIN q |-> Out(q[j])]) :
             tx \in OneOf("text"), q \in {r \in SeqOf(Made, 2) : r # <<>>}}
ResponsesWire ==
    {User, System, Wire("assistant", <<>>, Say("text"), <<>>, <<>>),
     Wire("assistant", Say("think"), <<>>, <<>>, <<>>)}
    \cup {Wire("assistant", <<>>, <<>>, <<c>>, <<>>) : c \in Calls \ Made}
    \cup {Wire("tool", <<>>, <<>>, <<>>, <<Out(c)>>) : c \in Made}

Next ==
    /\ Len(history) < MaxMessages[from]
    /\ \E w \in CASE from = "chat" -> ChatWire
                  [] from = "messages" -> MessagesWire
                  [] from = "responses" -> ResponsesWire :
          w # Wire("assistant", <<>>, <<>>, <<>>, <<>>) /\ history' = Append(history, w)
    /\ UNCHANGED <<from, form, invalid>>

Spec == Init /\ [][Next]_vars

-----------------------------------------------------------------------------
(***************************************************************************)
(* IRMessage, and its helpers of types.go and tools.go.                    *)
(***************************************************************************)
Block(t, text, id) == [t |-> t, text |-> text, id |-> id]
Blocks(t, text) == IF text = <<>> THEN <<>> ELSE <<Block(t, text, "")>>
IR(role, text, content, calls, id) ==
    [role |-> role, text |-> text, content |-> content, calls |-> calls, callId |-> id]

\* FoldLeft, as a recursive function; FlattenSeq is one as well.
Fold(step(_, _), base, seq) ==
    LET fold[j \in 0..Len(seq)] == IF j = 0 THEN base ELSE step(fold[j - 1], seq[j])
    IN  fold[Len(seq)]

TextOf(content, t) ==
    FlattenSeq([j \in DOMAIN content |-> IF content[j].t = t THEN content[j].text ELSE <<>>])
HasType(content, t) == \E j \in DOMAIN content : content[j].t = t
visibleText(m) == IF m.text # <<>> THEN m.text ELSE TextOf(m.content, "text")
thinkingText(m) == TextOf(m.content, "thinking")
\* appendThinkingContentBlock and appendTextContent: to the first block of the
\* type, or a new one.
AppendTo(content, t, text) ==
    IF HasType(content, t)
      THEN LET first == SelectInSeq(content, LAMBDA c : c.t = t)
           IN  [content EXCEPT ![first].text = @ \o text]
      ELSE Append(content, Block(t, text, ""))
ValidCalls(q) == FlattenSeq([j \in DOMAIN q |-> IF q[j] \in invalid THEN <<>> ELSE <<q[j]>>])
IsTool(m) == m.role = "tool" \/ m.callId # ""

\* Chat and Messages messages, and Responses items.
chatMsgToIR(w) ==
    LET said == IF w.outs = <<>> THEN w.text ELSE w.outs[1].text
        think == Blocks("thinking", w.think)
        string == IF think = <<>> \/ said = <<>> THEN think ELSE AppendTo(think, "text", said)
    IN  IR(w.role, IF form = "string" THEN said ELSE <<>>,
           IF form = "string" THEN string ELSE think \o Blocks("text", said),
           w.calls, IF w.outs = <<>> THEN "" ELSE w.outs[1].id)
msgMsgToIR(w) ==
    LET results == [j \in DOMAIN w.outs |-> Block("tool_result", w.outs[j].text, w.outs[j].id)]
        uses == [j \in DOMAIN w.calls |-> Block("tool_use", <<>>, w.calls[j])]
        content == Blocks("thinking", w.think) \o results \o Blocks("text", w.text) \o uses
        plain == Len(content) = 1 /\ HasType(content, "text")
    IN  IR(w.role, IF plain THEN w.text ELSE <<>>, content, ValidCalls(w.calls),
           IF w.outs = <<>> THEN "" ELSE Last(w.outs).id)
respItemToIR(w) ==
    IF w.outs # <<>>
      THEN IR("tool", w.outs[1].text, <<>>, <<>>, w.outs[1].id)
      ELSE LET think == Blocks("thinking", w.think)
               content == IF form = "string" THEN <<>> ELSE Blocks("text", w.text)
           IN  IR(w.role, w.text, think \o content, ValidCalls(w.calls), "")

\* Reasoning goes to the tool call before it, if nothing but instructions came
\* between, or else to the assistant message that follows.
attachReasoning(r, think) ==
    LET said == {j \in DOMAIN r.out : r.out[j].role # "system"}
        last == CHOOSE j \in said : \A k \in said : k <= j
    IN  IF said # {} /\ r.out[last].role = "assistant" /\ r.out[last].calls # <<>>
          THEN [r EXCEPT !.out[last].content = AppendTo(@, "thinking", think)]
          ELSE [r EXCEPT !.pending = @ \o think]
decodeItem(r, w) ==
    LET m == respItemToIR(w)
        takes == r.pending # <<>> /\ (m.role = "assistant" \/ m.calls # <<>>)
        t == [m EXCEPT !.content = AppendTo(@, "thinking", r.pending)]
    IN  IF w.think # <<>> THEN attachReasoning(r, w.think)
        ELSE [out |-> Append(r.out, IF takes THEN t ELSE m),
              pending |-> IF takes THEN <<>> ELSE r.pending]
coalesceResponsesFunctionCalls(messages) ==
    LET callsOnly(m) == m.calls # <<>> /\ visibleText(m) = <<>>
        think(m, n) == IF HasType(n.content, "thinking")
                         THEN AppendTo(m.content, "thinking", thinkingText(n)) ELSE m.content
        join(m, n) == [m EXCEPT !.calls = @ \o n.calls, !.content = think(m, n)]
    IN  Fold(LAMBDA out, m : IF out # <<>> /\ callsOnly(Last(out)) /\ callsOnly(m)
                               THEN Append(Front(out), join(Last(out), m)) ELSE Append(out, m),
             <<>>, messages)
\* Mutant: reasoning at the end of the input is forgotten.
decodeWithoutRest(items) ==
    coalesceResponsesFunctionCalls(
        Fold(decodeItem, [out |-> <<>>, pending |-> <<>>], items).out)
decodeResponsesInputItems(items) ==
    LET r == Fold(decodeItem, [out |-> <<>>, pending |-> <<>>], items)
        rest == IF r.pending = <<>> THEN <<>>
                ELSE <<IR("assistant", <<>>, Blocks("thinking", r.pending), <<>>, "")>>
    IN  coalesceResponsesFunctionCalls(r.out \o rest)

DecodeChatRequest(items) == [j \in DOMAIN items |-> chatMsgToIR(items[j])]
DecodeMessagesRequest(items) == [j \in DOMAIN items |-> msgMsgToIR(items[j])]
DecodeResponsesRequest(items) == decodeResponsesInputItems(items)
decodeRequest(items) ==
    CASE from = "chat" -> DecodeChatRequest(items)
      [] from = "messages" -> DecodeMessagesRequest(items)
      [] from = "responses" -> DecodeResponsesRequest(items)

-----------------------------------------------------------------------------
(***************************************************************************)
(* Encoding a request. System messages are folded into the instructions.   *)
(***************************************************************************)
findToolOutput(messages, used, start, call) ==
    LET found == {j \in start..Len(messages) :
                     j \notin used /\ IsTool(messages[j]) /\ messages[j].callId = call}
    IN  IF found = {} THEN 0 ELSE CHOOSE j \in found : \A k \in found : j <= k

\* Mutant: a call without an output stays in the history.
pairCallsAll(messages, used, i) ==
    Fold(LAMBDA p, call :
            LET at == findToolOutput(messages, p.used, i + 1, call)
                q == [p EXCEPT !.calls = Append(@, call)]
            IN  IF at = 0 THEN q
                ELSE [q EXCEPT !.used = @ \cup {at}, !.outs = Append(@, messages[at])],
         [calls |-> <<>>, outs |-> <<>>, used |-> used], ValidCalls(messages[i].calls))

\* Every call is paired with the first output after it that is not taken; calls
\* without an output and outputs without a call are dropped.
pairCalls(messages, used, i) ==
    Fold(LAMBDA p, call :
            LET at == findToolOutput(messages, p.used, i + 1, call)
            IN  IF at = 0 THEN p
                ELSE [calls |-> Append(p.calls, call), used |-> p.used \cup {at},
                      outs |-> Append(p.outs, [messages[at] EXCEPT !.role = "tool",
                                                 !.callId = call, !.calls = <<>>])],
         [calls |-> <<>>, outs |-> <<>>, used |-> used], ValidCalls(messages[i].calls))
normalizeMessage(messages, r, i) ==
    LET m == messages[i]
        p == pairCalls(messages, r.used, i)
        plain == [m EXCEPT !.calls = <<>>]
        payload == visibleText(m) # <<>> \/ thinkingText(m) # <<>>
        pair == Append(r.out, [m EXCEPT !.role = "assistant", !.calls = p.calls]) \o p.outs
    IN  CASE i \in r.used \/ IsTool(m) -> r
          [] ~(i \in r.used \/ IsTool(m)) /\ ValidCalls(m.calls) = <<>> ->
                [r EXCEPT !.out = Append(@, plain)]
          [] ~(i \in r.used \/ IsTool(m)) /\ p.calls # <<>> -> [out |-> pair, used |-> p.used]
          [] OTHER -> [r EXCEPT !.out = IF payload THEN Append(@, plain) ELSE @]
normalizeChatHistory(messages) ==
    Fold(LAMBDA r, i : normalizeMessage(messages, r, i), [out |-> <<>>, used |-> {}],
         [i \in DOMAIN messages |-> i]).out

\* Mutant: the text blocks of a message are not looked at.
irMsgToChatTextField(m) ==
    Wire(m.role, thinkingText(m), m.text, ValidCalls(m.calls),
         IF m.callId = "" THEN <<>> ELSE <<m.callId>>)
irMsgToChat(m) ==
    Wire(m.role, thinkingText(m),
         IF m.content = <<>> THEN m.text ELSE TextOf(m.content, "text"),
         ValidCalls(m.calls),
         IF m.callId = "" THEN <<>> ELSE <<m.callId>>)
\* Blocks of the message; tool calls of another protocol are not among them.
irMsgToMsg(m) ==
    IF visibleText(m) # <<>> /\ m.calls = <<>> /\ ~HasType(m.content, "thinking")
      THEN [role |-> m.role, content |-> <<Block("text", visibleText(m), "")>>]
      ELSE [role |-> m.role, content |-> m.content]
\* One item for a message: an output, its first call, or its text.
irMsgToRespItem(m) ==
    CASE IsTool(m) -> Wire("tool", <<>>, visibleText(m), <<>>, <<m.callId>>)
      [] ~IsTool(m) /\ m.calls # <<>> ->
            Wire("assistant", thinkingText(m), <<>>, <<Head(m.calls)>>, <<>>)
      [] OTHER -> Wire(m.role, thinkingText(m), visibleText(m), <<>>, <<>>)

\* messageTextForSystem for Chat and Responses; only the Text field for Messages.
Instructions(messages, to) ==
    LET text(m) == IF to = "messages" THEN m.text ELSE visibleText(m)
        said == [j \in DOMAIN messages |->
                    IF messages[j].role = "system" THEN text(messages[j]) ELSE <<>>]
    IN  FlattenSeq(said)
Without(role, ws) ==
    FlattenSeq([j \in DOMAIN ws |-> IF ws[j].role = role THEN <<>> ELSE <<ws[j]>>])
Rest(messages) == Without("system", messages)
EncodeChatRequest(messages) ==
    LET h == normalizeChatHistory(Rest(messages)) IN [j \in DOMAIN h |-> irMsgToChat(h[j])]
EncodeMessagesRequest(messages) ==
    LET h == Rest(messages) IN [j \in DOMAIN h |-> irMsgToMsg(h[j])]
EncodeResponsesRequest(messages) ==
    LET h == Rest(messages) IN [j \in DOMAIN h |-> irMsgToRespItem(h[j])]

-----------------------------------------------------------------------------
(***************************************************************************)
(* ConvertResponse: an answer, one IR message for each choice. The answers *)
(* are those the conversation holds, from as the upstream's protocol.      *)
(***************************************************************************)
msgContentToIRMessage(w) ==
    LET m == msgMsgToIR(w) IN [m EXCEPT !.text = IF Len(m.content) = 1 THEN w.text ELSE <<>>]
respOutputToIR(w) ==
    LET think == Blocks("thinking", w.think)
    IN  IF w.calls # <<>> THEN IR("assistant", <<>>, think, ValidCalls(w.calls), "")
        ELSE IR("assistant", w.text, think \o Blocks("text", w.text), <<>>, "")
DecodeChatResponse(answer) == [j \in DOMAIN answer |-> chatMsgToIR(answer[j])]
DecodeMessagesResponse(answer) == [j \in DOMAIN answer |-> msgContentToIRMessage(answer[j])]
DecodeResponsesResponse(answer) == [j \in DOMAIN answer |-> respOutputToIR(answer[j])]
decodeResponse(answer) ==
    CASE from = "chat" -> DecodeChatResponse(answer)
      [] from = "messages" -> DecodeMessagesResponse(answer)
      [] from = "responses" -> DecodeResponsesResponse(answer)

\* Mutant: text that is not in a block is dropped.
irMsgToMsgContentBlocks(m) ==
    m.content \o [j \in DOMAIN m.calls |-> Block("tool_use", <<>>, m.calls[j])]
\* Blocks as they are, then the text and the calls that have no block yet.
irMsgToMsgContent(m) ==
    LET kept == [j \in DOMAIN m.content |->
                    IF m.content[j].t = "tool_result" THEN <<>> ELSE <<m.content[j]>>]
        shown == FlattenSeq(kept)
        text == IF HasType(shown, "text") THEN <<>> ELSE Blocks("text", visibleText(m))
        emitted == {c.id : c \in {d \in Range(shown) : d.t = "tool_use"}}
        uses == [j \in DOMAIN m.calls |->
                    IF m.calls[j] \in emitted THEN <<>>
                    ELSE <<Block("tool_use", <<>>, m.calls[j])>>]
    IN  shown \o text \o FlattenSeq(uses)
irMsgToRespOutput(m) ==
    IF m.calls # <<>> THEN Wire("assistant", thinkingText(m), <<>>, <<Head(m.calls)>>, <<>>)
    ELSE Wire("assistant", thinkingText(m), visibleText(m), <<>>, <<>>)

\* A Messages answer is made of the first choice alone.
EncodeChatResponse(choices) == [j \in DOMAIN choices |-> irMsgToChat(choices[j])]
EncodeMessagesResponse(choices) == irMsgToMsgContent(choices[1])
EncodeResponsesResponse(choices) == [j \in DOMAIN choices |-> irMsgToRespOutput(choices[j])]

-----------------------------------------------------------------------------
(***************************************************************************)
(* Properties.                                                             *)
(***************************************************************************)
Texts(ws) == FlattenSeq([j \in DOMAIN ws |-> ws[j].text])
Thoughts(ws) == FlattenSeq([j \in DOMAIN ws |-> ws[j].think])
CallsOf(ws) == FlattenSeq([j \in DOMAIN ws |-> ws[j].calls])
ChatRequest == EncodeChatRequest(decodeRequest(history))
NotTool(ws) == Without("tool", ws)

\* A Chat upstream gets a history it accepts: every message with tool calls is
\* followed at once by one output for each of its calls, in their order, and
\* outputs stand nowhere else (types.go:336, "Tool messages are only valid
\* immediately after the assistant tool_call they answer").
ToolsPaired ==
    LET h == ChatRequest
        owner(j) == {i \in 1..(j - 1) : /\ j - i <= Len(h[i].calls)
                                        /\ h[j].outs = <<h[i].calls[j - i]>>}
    IN  from # "chat" => \A j \in DOMAIN h :
          /\ h[j].role = "tool" => owner(j) # {} /\ h[j].calls = <<>>
          /\ \A k \in DOMAIN h[j].calls :
                j + k <= Len(h) /\ h[j + k].role = "tool" /\ j \in owner(j + k)

\* What was said stays said: the visible text of the conversation reaches the
\* upstream whole and in order, instructions apart. Not kept for a message with
\* tool outputs next to its text, or with tool calls unless it goes to a Chat
\* upstream; for a Responses string content after a reasoning item; and for Chat
\* instructions in parts that go to a Messages upstream.
Mixed(w) == w.text # <<>> /\ (w.calls # <<>> \/ w.outs # <<>>)
TextKept ==
    LET messages == decodeRequest(history)
        spoken == Texts(Without("system", history))
        system == FlattenSeq([j \in DOMAIN history |->
                                 IF history[j].role = "system" THEN history[j].text ELSE <<>>])
        toMessages == NotTool(EncodeMessagesRequest(messages))
        blocks == FlattenSeq([j \in DOMAIN toMessages |-> TextOf(toMessages[j].content, "text")])
        quiet == \A j \in DOMAIN history : history[j].think = <<>>
        shadowed == from = "responses" /\ form = "string" /\ ~quiet
        unmixed == \A j \in DOMAIN history : ~Mixed(history[j])
        apart == \A j \in DOMAIN history : history[j].text = <<>> \/ history[j].outs = <<>>
    IN  /\ \A to \in {"chat", "messages", "responses"} :
              from # to /\ (to = "messages" /\ from = "chat" => form = "string")
                  => Instructions(messages, to) = system
        /\ from # "chat" /\ apart /\ ~shadowed => Texts(NotTool(ChatRequest)) = spoken
        /\ from # "messages" /\ unmixed /\ ~shadowed => blocks = spoken
        /\ from # "responses" /\ unmixed
              => Texts(NotTool(EncodeResponsesRequest(messages))) = spoken

\* Reasoning is carried along once, also when it arrives before, between or
\* after the tool calls it belongs to and when those calls are dropped.
ThinkingKept ==
    LET told == Thoughts(ChatRequest)
        heard == Thoughts(history)
    IN  from # "chat" => Range(told) = Range(heard) /\ Len(told) = Len(heard)

\* The first output of every valid call reaches a Chat upstream under its call,
\* however late it comes. Kept for a Responses client; see ToolOutputKept.
FirstOutputs ==
    {o \in UNION {Range(history[j].outs) : j \in DOMAIN history} :
        /\ o.id \notin invalid
        /\ \A j \in DOMAIN history, k \in 1..2 :
              k <= Len(history[j].outs) /\ history[j].outs[k].id = o.id => o.text[1][1] <= j}
Delivered(o) == \E j \in DOMAIN ChatRequest :
                   ChatRequest[j].outs = <<o.id>> /\ ChatRequest[j].text = o.text
OutputsKept == from = "responses" => \A o \in FirstOutputs : Delivered(o)

\* convert_test.go:1127 has the decoder keep the payload of a tool_result because
\* "converting such a Messages request to Chat lost the tool output". It still
\* is: irMsgToChatWithReasoning writes text and image blocks only.
ToolOutputKept == from # "chat" => \A o \in FirstOutputs : Delivered(o)

\* A whole answer keeps its text and its tool calls. Not kept when a Responses
\* answer of several items goes to a Messages client, and when a message with
\* several calls, or with text and a call, goes to a Responses client.
Answer ==
    LET n == Len(history)
        own == {j \in 1..n : history[j].role # "assistant"}
        last == IF own = {} THEN 0 ELSE CHOOSE j \in own : \A k \in own : k <= j
    IN  IF from = "responses" THEN SubSeq(history, last + 1, n)
        ELSE IF last = n THEN <<>> ELSE <<history[n]>>
AnswerKept ==
    LET choices == decodeResponse(Answer)
        calls == ValidCalls(CallsOf(Answer))
        chat == EncodeChatResponse(choices)
        content == EncodeMessagesResponse(choices)
        uses == FlattenSeq([j \in DOMAIN content |->
                               IF content[j].t = "tool_use" THEN <<content[j].id>> ELSE <<>>])
        output == EncodeResponsesResponse(choices)
        several(w) == Len(w.calls) > 1 \/ Mixed(w)
    IN  Answer # <<>> =>
        /\ from # "chat" => Texts(chat) = Texts(Answer) /\ CallsOf(chat) = calls
        /\ from # "messages" /\ Len(choices) = 1 =>
              /\ TextOf(content, "text") = Texts(Answer)
              /\ ValidCalls(uses) = calls
        /\ from # "responses" /\ (\A j \in DOMAIN Answer : ~several(Answer[j])) =>
              Texts(output) = Texts(Answer) /\ ValidCalls(CallsOf(output)) = calls
=============================================================================
