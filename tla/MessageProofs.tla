--------------------------- MODULE MessageProofs ---------------------------
(***************************************************************************)
(* What a conversation loses on its way, for histories and answers of any  *)
(* length: nothing of its text, and nothing of an answer; a Chat upstream  *)
(* gets the reasoning once and the outputs that were asked for.            *)
(***************************************************************************)
EXTENDS ConversionProofs

----------------------------------------------------------------------------
(* A whole answer                                                          *)

\* m is a choice decoded from w.
Answers(m, w) ==
    /\ m.content \in Seq(BlockSet) /\ m.calls \in Seq(Calls)
    /\ Message!ValidCalls(m.calls) = Message!ValidCalls(w.calls)
    /\ Tells(m, w.text)
    /\ from # "messages" => Clean(m.content)
    /\ from # "responses" => m.calls \in {w.calls, Message!ValidCalls(w.calls)}

LEMMA ChatAnswered ==
    ASSUME NEW w \in WireSet, w.outs = <<>>
    PROVE  Answers(Message!chatMsgToIR(w), w)
<1> DEFINE m == Message!chatMsgToIR(w)
<1>1. w.calls \in Seq(Calls) /\ ChatSaid(w) = w.text
  BY DEF WireSet, ChatSaid
<1>2. m.calls = w.calls /\ Clean(m.content) /\ Tells(m, w.text)
  BY <1>1, ChatMsgSays, Zenon
<1> HIDE DEF m
<1>3. Answers(m, w)
  BY <1>1, <1>2 DEF Answers, Clean
<1>. QED
  BY <1>3 DEF m

LEMMA MessagesAnswered ==
    ASSUME NEW w \in WireSet, from = "messages"
    PROVE  Answers(Message!msgContentToIRMessage(w), w)
<1> DEFINE n == Message!msgMsgToIR(w)
           t == IF Len(n.content) = 1 THEN w.text ELSE <<>>
           m == [n EXCEPT !.text = t]
<1>1. Message!msgContentToIRMessage(w) = m
  BY Zenon DEF Message!msgContentToIRMessage
<1>2. n \in IRSet /\ n.calls = Message!ValidCalls(w.calls) /\ Heard(n, w.think, w.text)
  BY MsgMsgType, MsgMsgSays, Zenon
<1>3. w.calls \in Seq(Calls)
  BY DEF WireSet
<1>4. t \in {w.text, <<>>}
  OBVIOUS
<1> HIDE DEF n, t
<1>5. m.content = n.content /\ m.calls = n.calls /\ m.text = t /\ n.content \in Seq(BlockSet) /\ n.calls \in Seq(Calls)
  BY <1>2 DEF IRSet
<1> HIDE DEF m
<1>6. Tells(m, w.text)
  BY <1>2, <1>4, <1>5, Zenon DEF Tells, Heard
<1>7. Message!ValidCalls(m.calls) = Message!ValidCalls(w.calls)
  BY <1>2, <1>3, <1>5, ValidAgain, Zenon
<1>8. Answers(m, w)
  BY <1>2, <1>5, <1>6, <1>7 DEF Answers
<1>. QED
  BY <1>1, <1>8

LEMMA ResponsesAnswered ==
    ASSUME NEW w \in WireSet, from = "responses", w.calls # <<>> => w.text = <<>>
    PROVE  Answers(Message!respOutputToIR(w), w)
<1> DEFINE e == <<>>
           a == Message!Blocks("thinking", w.think)
           b == Message!Blocks("text", w.text)
           m == Message!respOutputToIR(w)
           no == ""
<1>1. w.think \in Phrase /\ w.text \in Phrase /\ w.calls \in Seq(Calls)
  BY DEF WireSet
<1>2. Clean(a) /\ Clean(a \o b)
  BY <1>1, CleanBlocks, CleanConcat, Zenon
<1>3. Message!TextOf(a, "text") = e /\ Message!TextOf(a \o b, "text") = w.text
  BY <1>1, BlocksText, BothHeard
<1>4. Message!respOutputToIR(w) =
        IF w.calls # e THEN Message!IR("assistant", e, a, Message!ValidCalls(w.calls), no)
        ELSE Message!IR("assistant", w.text, a \o b, e, no)
  BY Zenon DEF Message!respOutputToIR
<1> HIDE DEF a, b, no, m
<1>5. CASE w.calls # e
  <2>1. m = Message!IR("assistant", e, a, Message!ValidCalls(w.calls), no)
    BY <1>4, <1>5, Zenon DEF m
  <2>2. m.text = e /\ m.content = a /\ m.calls = Message!ValidCalls(w.calls)
    BY <2>1 DEF Message!IR
  <2>3. Tells(m, w.text)
    BY <1>3, <1>5, <2>2, Zenon DEF Tells
  <2>4. Message!ValidCalls(m.calls) = Message!ValidCalls(w.calls) /\ m.calls \in Seq(Calls)
    BY <1>1, <2>2, ValidAgain, ValidCallsType, Zenon
  <2>. QED
    BY <1>2, <2>2, <2>3, <2>4 DEF Answers, Clean, m
<1>6. CASE w.calls = e
  <2>1. m = Message!IR("assistant", w.text, a \o b, e, no)
    BY <1>4, <1>6, Zenon DEF m
  <2>2. m.text = w.text /\ m.content = a \o b /\ m.calls = w.calls
    BY <1>6, <2>1 DEF Message!IR
  <2>3. Tells(m, w.text)
    BY <1>3, <2>2, Zenon DEF Tells
  <2>. QED
    BY <1>1, <1>2, <2>2, <2>3 DEF Answers, Clean, m
<1>. QED
  BY <1>5, <1>6

LEMMA OutputAnswered ==
    ASSUME NEW m, NEW w \in WireSet, Answers(m, w), from # "responses",
           ~(Len(w.calls) > 1), ~Message!Mixed(w)
    PROVE  /\ Message!irMsgToRespOutput(m).text = w.text
           /\ Message!irMsgToRespOutput(m).calls \in Seq(Calls)
           /\ Message!ValidCalls(Message!irMsgToRespOutput(m).calls) = Message!ValidCalls(w.calls)
<1> DEFINE e == <<>>
           o == Message!irMsgToRespOutput(m)
<1>1. w.calls \in Seq(Calls) /\ m.calls \in Seq(Calls) /\ Message!ValidCalls(m.calls) = Message!ValidCalls(w.calls)
      /\ (m.calls = w.calls \/ m.calls = Message!ValidCalls(w.calls))
  BY DEF Answers, WireSet
<1>2. o = IF m.calls # e
            THEN Message!Wire("assistant", Message!thinkingText(m), e, <<Head(m.calls)>>, e)
            ELSE Message!Wire("assistant", Message!thinkingText(m), Message!visibleText(m), e, e)
  BY Zenon DEF Message!irMsgToRespOutput
<1>3. Message!visibleText(m) = w.text
  BY TellsVisible, Zenon DEF Answers
<1> HIDE DEF o
<1>4. CASE m.calls = e
  <2>1. o.text = w.text /\ o.calls = e
    BY <1>2, <1>3, <1>4 DEF Message!Wire
  <2>. QED
    BY <1>1, <1>4, <2>1, Zenon DEF o
<1>5. CASE m.calls # e
  <2>1. o.text = e /\ o.calls = <<Head(m.calls)>>
    BY <1>2, <1>5 DEF Message!Wire
  <2>2. w.calls # e
    BY <1>1, <1>5, ValidNone, Zenon
  <2>3. w.text = e
    BY <2>2, Zenon DEF Message!Mixed
  <2>4. PICK c \in Calls : w.calls = <<c>>
    <3> DEFINE q == w.calls
    <3>1. q \in Seq(Calls) /\ q # <<>> /\ ~(Len(q) > 1)
      BY <1>1, <2>2
    <3> HIDE DEF q
    <3>2. Len(q) = 1 /\ q[1] \in Calls
      BY <3>1
    <3>3. q = <<q[1]>>
      BY <3>1, <3>2
    <3>. QED
      BY <3>2, <3>3 DEF q
  <2>5. m.calls = <<c>>
    <3>1. Message!ValidCalls(<<c>>) = IF c \in invalid THEN e ELSE <<c>>
      <4>1. <<c>> \in Seq(Calls)
        OBVIOUS
      <4>2. Single(ValidOf, c)
        BY ValidMeasure, SumOne, Zenon
      <4>3. ValidOf[c] = IF c \in invalid THEN e ELSE <<c>>
        BY DEF ValidOf
      <4>. QED
        BY <4>1, <4>2, <4>3, ValidIsSum, Zenon DEF Single
    <3> HIDE DEF e
    <3>. QED
      BY <1>1, <1>5, <2>4, <3>1, Zenon
  <2>6. o.calls = w.calls
    <3>1. <<Head(m.calls)>> = <<c>>
      BY <2>5
    <3>. QED
      BY <2>1, <2>4, <3>1, Zenon
  <2>. QED
    BY <1>1, <2>1, <2>3, <2>6, Zenon DEF o
<1>. QED
  BY <1>4, <1>5

\* The id of a call's block.
UseId == [b \in BlockSet |-> IF b.t = "tool_use" THEN <<b.id>> ELSE <<>>]

LEMMA UseIdMeasure == Measure(UseId, BlockSet, Ids)
<1>1. ASSUME NEW b \in BlockSet PROVE (IF b.t = "tool_use" THEN <<b.id>> ELSE <<>>) \in Seq(Ids)
  <2>1. b.id \in Ids
    BY DEF BlockSet
  <2>. QED
    BY <2>1
<1>. QED
  BY <1>1 DEF Measure, UseId

\* The blocks of some calls.
CallBlocks(q) == [j \in DOMAIN q |-> Message!Block("tool_use", <<>>, q[j])]

LEMMA CallBlocksType ==
    ASSUME NEW q \in Seq(Calls)
    PROVE  /\ CallBlocks(q) \in Seq(BlockSet)
           /\ Message!TextOf(CallBlocks(q), "text") = <<>>
           /\ Sum(UseId, CallBlocks(q)) = q
<1> DEFINE e == <<>>
           b == CallBlocks(q)
<1>1. DOMAIN q = 1..Len(q) /\ Len(q) \in Nat /\ \A j \in 1..Len(q) : q[j] \in Calls
  OBVIOUS
<1>2. e \in Phrase
  BY DEF Phrase
<1> HIDE DEF e
<1>3. ASSUME NEW j \in 1..Len(q)
      PROVE  /\ Message!Block("tool_use", e, q[j]) \in BlockSet
             /\ Message!Block("tool_use", e, q[j]).t = "tool_use"
             /\ Message!Block("tool_use", e, q[j]).id = q[j]
  BY <1>1, <1>2, IdTypes, BlockTypes DEF Message!Block
<1>4. b \in [1..Len(q) -> BlockSet] /\ \A j \in 1..Len(q) : b[j].t = "tool_use" /\ b[j].id = q[j]
  BY <1>1, <1>3 DEF CallBlocks, e
<1> HIDE DEF b
<1>5. b \in Seq(BlockSet) /\ Len(b) = Len(q) /\ DOMAIN b = DOMAIN q
  BY <1>1, <1>4
<1>6. ~Message!HasType(b, "text")
  BY <1>1, <1>4, <1>5 DEF Message!HasType
<1>7. Mapped(UseId, b) = [j \in DOMAIN q |-> <<q[j]>>]
  BY <1>1, <1>4, <1>5 DEF Mapped, UseId
<1>8. Sum(UseId, b) = q
  BY <1>7, FlattenSingles, Zenon DEF Sum
<1>. QED
  BY <1>5, <1>6, <1>8, OtherText, Zenon DEF b

\* A clean message with its calls as blocks.
LEMMA ContentIs ==
    ASSUME NEW m, Clean(m.content), m.calls \in Seq(Calls)
    PROVE  Message!irMsgToMsgContent(m) =
              (m.content \o (IF Message!HasType(m.content, "text") THEN <<>>
                             ELSE Message!Blocks("text", Message!visibleText(m)))) \o CallBlocks(m.calls)
<1> DEFINE kept == [j \in DOMAIN m.content |->
                      IF m.content[j].t = "tool_result" THEN <<>> ELSE <<m.content[j]>>]
           shown == Message!FlattenSeq(kept)
           text == IF Message!HasType(shown, "text") THEN <<>> ELSE Message!Blocks("text", Message!visibleText(m))
           emitted == {c.id : c \in {d \in Message!Range(shown) : d.t = "tool_use"}}
           uses == [j \in DOMAIN m.calls |->
                      IF m.calls[j] \in emitted THEN <<>>
                      ELSE <<Message!Block("tool_use", <<>>, m.calls[j])>>]
           b == CallBlocks(m.calls)
<1>1. Message!irMsgToMsgContent(m) = shown \o text \o Message!FlattenSeq(uses)
  BY Zenon DEF Message!irMsgToMsgContent
<1>2. m.content \in Seq(BlockSet) /\ \A j \in DOMAIN m.content : m.content[j].t \in {"thinking", "text"}
  BY DEF Clean
<1>3. shown = m.content
  <2>1. kept = [j \in DOMAIN m.content |-> <<m.content[j]>>]
    BY <1>2
  <2>. QED
    BY <1>2, <2>1, FlattenSingles, Zenon
<1> HIDE DEF shown
<1>4. emitted = {}
  <2>1. {d \in Message!Range(shown) : d.t = "tool_use"} = {}
    BY <1>2, <1>3 DEF Message!Range
  <2>. QED
    BY <2>1
<1> HIDE DEF emitted
<1>5. Message!FlattenSeq(uses) = b
  <2>1. b \in Seq(BlockSet)
    BY CallBlocksType
  <2>2. DOMAIN b = DOMAIN m.calls /\ \A j \in DOMAIN m.calls : b[j] = Message!Block("tool_use", <<>>, m.calls[j])
    BY DEF CallBlocks
  <2> HIDE DEF b
  <2>3. uses = [j \in DOMAIN b |-> <<b[j]>>]
    BY <1>4, <2>2
  <2>. QED
    BY <2>1, <2>3, FlattenSingles, Zenon
<1>. QED
  BY <1>1, <1>3, <1>5, Zenon

LEMMA CleanUses ==
    ASSUME NEW a, Clean(a) PROVE Sum(UseId, a) = <<>>
<1>1. a \in Seq(BlockSet)
  BY DEF Clean
<1>2. ASSUME NEW j \in 1..Len(a) PROVE UseId[a[j]] = <<>>
  <2>1. a[j] \in BlockSet /\ a[j].t \in {"thinking", "text"}
    BY <1>1 DEF Clean
  <2>. QED
    BY <2>1 DEF UseId
<1>. QED
  BY <1>1, <1>2, UseIdMeasure, SumEmpty, Zenon

LEMMA ContentAnswered ==
    ASSUME NEW m, NEW w \in WireSet, Answers(m, w), from # "messages"
    PROVE  /\ Message!irMsgToMsgContent(m) \in Seq(BlockSet)
           /\ Message!TextOf(Message!irMsgToMsgContent(m), "text") = w.text
           /\ Sum(UseId, Message!irMsgToMsgContent(m)) = m.calls
<1> DEFINE e == <<>>
           a == m.content
           x == IF Message!HasType(a, "text") THEN e ELSE Message!Blocks("text", Message!visibleText(m))
           b == CallBlocks(m.calls)
           c == Message!irMsgToMsgContent(m)
<1>1. Clean(a) /\ m.calls \in Seq(Calls) /\ Tells(m, w.text) /\ w.text \in Phrase
  BY DEF Answers, WireSet
<1>2. c = (a \o x) \o b
  BY <1>1, ContentIs, Zenon
<1>3. Message!visibleText(m) = w.text
  BY <1>1, TellsVisible, Zenon
<1>4. Clean(x)
  BY <1>1, <1>3, CleanNone, CleanBlocks, Zenon
<1>5. Message!TextOf(a, "text") \o Message!TextOf(x, "text") = w.text
  <2>1. w.text \o e = w.text /\ e \o w.text = w.text
    BY <1>1 DEF Phrase
  <2>2. CASE Message!HasType(a, "text")
    <3>1. x = e
      BY <2>2, Zenon
    <3>2. a # e
      BY <2>2 DEF Message!HasType
    <3>3. Message!TextOf(a, "text") = w.text
      BY <1>1, <3>2, Zenon DEF Tells
    <3>4. Message!TextOf(x, "text") = e
      BY <3>1, NoText, Zenon
    <3> HIDE DEF a, x
    <3>. QED
      BY <2>1, <3>3, <3>4, Zenon
  <2>3. CASE ~Message!HasType(a, "text")
    <3>1. x = Message!Blocks("text", w.text)
      BY <1>3, <2>3, Zenon
    <3>2. Message!TextOf(x, "text") = w.text
      BY <1>1, <3>1, BlocksText
    <3>3. Message!TextOf(a, "text") = e
      <4>1. a \in Seq(BlockSet)
        BY <1>1 DEF Clean
      <4>. QED
        BY <2>3, <4>1, OtherText, Zenon
    <3> HIDE DEF a, x
    <3>. QED
      BY <2>1, <3>2, <3>3, Zenon
  <2>. QED
    BY <2>2, <2>3
<1> HIDE DEF a, x, b, c
<1>6. a \in Seq(BlockSet) /\ x \in Seq(BlockSet) /\ b \in Seq(BlockSet) /\ a \o x \in Seq(BlockSet)
      /\ (a \o x) \o b \in Seq(BlockSet)
  <2>1. a \in Seq(BlockSet) /\ x \in Seq(BlockSet) /\ b \in Seq(BlockSet)
    BY <1>1, <1>4, CallBlocksType DEF Clean, b
  <2>. QED
    BY <2>1
<1>7. /\ Message!TextOf(b, "text") = e /\ Sum(UseId, b) = m.calls
      /\ Sum(UseId, a) = e /\ Sum(UseId, x) = e
  BY <1>1, <1>4, CallBlocksType, CleanUses, Zenon DEF b
<1>8. Message!TextOf(c, "text") = w.text
  <2>1. Reads(a \o x, b, "text") /\ Reads(a, x, "text")
    BY <1>6, TextConcat, Zenon
  <2>2. w.text \o e = w.text
    BY <1>1 DEF Phrase
  <2>. QED
    BY <1>2, <1>5, <1>7, <2>1, <2>2, Zenon DEF Reads
<1>9. Sum(UseId, c) = m.calls
  <2>1. Adds(UseId, a \o x, b) /\ Adds(UseId, a, x)
    BY <1>6, UseIdMeasure, SumConcat, Zenon
  <2>2. (e \o e) \o m.calls = m.calls
    BY <1>1
  <2>. QED
    BY <1>2, <1>7, <2>1, <2>2, Zenon DEF Adds
<1>. QED
  BY <1>2, <1>6, <1>8, <1>9, Zenon DEF c

\* An answer is what the assistant said last.
LEMMA AnswerType ==
    ASSUME MessageInv
    PROVE  /\ Message!Answer \in Seq(WireSet)
           /\ \A j \in 1..Len(Message!Answer) : Shaped(Message!Answer[j]) /\ Message!Answer[j].role = "assistant"
<1> DEFINE n == Len(history)
           own == {j \in 1..n : history[j].role # "assistant"}
           last == IF own = {} THEN 0 ELSE CHOOSE j \in own : \A k \in own : k <= j
           e == <<>>
           a == Message!Answer
<1>1. n \in Nat /\ history \in Seq(WireSet)
      /\ \A j \in 1..n : Shaped(history[j]) /\ history[j] \in WireSet
  BY DEF MessageInv
<1>2. last \in 0..n /\ \A j \in 1..n : j > last => history[j].role = "assistant"
  <2>1. CASE own = {}
    BY <1>1, <2>1
  <2>2. CASE own # {}
    <3> DEFINE P(j) == \A k \in own : k <= j
    <3>1. \E j \in own : P(j)
      <4>1. own \in SUBSET (1..n)
        OBVIOUS
      <4> HIDE DEF own
      <4>. QED
        BY <1>1, <2>2, <4>1, GreatestExists
    <3>2. last = CHOOSE j \in own : P(j)
      BY <2>2, Zenon
    <3> HIDE DEF P, last
    <3>3. last \in own /\ P(last)
      BY <3>1, <3>2, Zenon
    <3>. QED
      BY <1>1, <3>3 DEF P
  <2>. QED
    BY <2>1, <2>2
<1>3. a = IF from = "responses" THEN SubSeq(history, last + 1, n)
          ELSE IF last = n THEN e ELSE <<history[n]>>
  BY Zenon DEF Message!Answer
<1> HIDE DEF last, a
<1>4. CASE from = "responses"
  <2>1. a = SubSeq(history, last + 1, n)
    BY <1>3, <1>4
  <2>2. a \in Seq(WireSet) /\ Len(a) = n - last /\ \A j \in 1..(n - last) : a[j] = history[last + j]
    BY <1>1, <1>2, <2>1
  <2>3. \A j \in 1..(n - last) : last + j \in 1..n /\ last + j > last
    BY <1>1, <1>2
  <2>. QED
    BY <1>1, <1>2, <2>2, <2>3 DEF a
<1>5. CASE from # "responses" /\ last = n
  <2>1. a = e
    BY <1>3, <1>5, Zenon
  <2>2. a \in Seq(WireSet) /\ Len(a) = 0
    BY <2>1
  <2>. QED
    BY <2>2 DEF a
<1>6. CASE from # "responses" /\ last # n
  <2>1. a = <<history[n]>>
    BY <1>3, <1>6, Zenon
  <2>2. n \in 1..n /\ n > last
    BY <1>1, <1>2, <1>6
  <2>3. a \in Seq(WireSet) /\ Len(a) = 1 /\ a[1] = history[n]
    BY <1>1, <2>1, <2>2
  <2>4. \A j \in 1..Len(a) : a[j] = history[n]
    BY <2>3
  <2>. QED
    BY <1>1, <1>2, <2>2, <2>3, <2>4 DEF a
<1>. QED
  BY <1>4, <1>5, <1>6

LEMMA ChoicesAnswer ==
    ASSUME MessageInv
    PROVE  /\ DOMAIN Message!decodeResponse(Message!Answer) = 1..Len(Message!Answer)
           /\ \A j \in 1..Len(Message!Answer) :
                 Answers(Message!decodeResponse(Message!Answer)[j], Message!Answer[j])
<1> DEFINE a == Message!Answer
           c == Message!decodeResponse(a)
<1>1. DOMAIN a = 1..Len(a) /\ \A j \in 1..Len(a) : a[j] \in WireSet /\ Shaped(a[j]) /\ a[j].role = "assistant"
  <2>1. a \in Seq(WireSet) /\ \A j \in 1..Len(a) : Shaped(a[j]) /\ a[j].role = "assistant"
    BY AnswerType
  <2> HIDE DEF a
  <2>. QED
    BY <2>1
<1> HIDE DEF a
<1>2. CASE from = "chat"
  <2>1. c = [j \in DOMAIN a |-> Message!chatMsgToIR(a[j])]
    BY <1>2 DEF Message!decodeResponse, Message!DecodeChatResponse
  <2>2. ASSUME NEW j \in 1..Len(a) PROVE Answers(Message!chatMsgToIR(a[j]), a[j])
    <3>1. a[j].outs = <<>>
      BY <1>1 DEF Shaped
    <3>. QED
      BY <1>1, <3>1, ChatAnswered
  <2>. QED
    BY <1>1, <2>1, <2>2 DEF a
<1>3. CASE from = "messages"
  <2>1. c = [j \in DOMAIN a |-> Message!msgContentToIRMessage(a[j])]
    BY <1>3 DEF Message!decodeResponse, Message!DecodeMessagesResponse
  <2>. QED
    BY <1>1, <1>3, <2>1, MessagesAnswered DEF a
<1>4. CASE from = "responses"
  <2>1. c = [j \in DOMAIN a |-> Message!respOutputToIR(a[j])]
    BY <1>4 DEF Message!decodeResponse, Message!DecodeResponsesResponse
  <2>2. ASSUME NEW j \in 1..Len(a) PROVE Answers(Message!respOutputToIR(a[j]), a[j])
    <3>1. a[j].calls # <<>> => a[j].text = <<>>
      BY <1>1, <1>4 DEF Shaped
    <3>. QED
      BY <1>1, <1>4, <3>1, ResponsesAnswered
  <2>. QED
    BY <1>1, <2>1, <2>2 DEF a
<1>. QED
  BY <1>2, <1>3, <1>4 DEF MessageInv

\* The calls of wire messages, cleared of those with invalid names.
LEMMA CallsKept ==
    ASSUME NEW a, DOMAIN a = 1..Len(a), Len(a) \in Nat, \A j \in 1..Len(a) : a[j].calls \in Seq(Calls)
    PROVE  Message!ValidCalls(Message!CallsOf(a))
              = Message!FlattenSeq([j \in DOMAIN a |-> Message!ValidCalls(a[j].calls)])
<1> DEFINE U == Seq(Calls)
           s == [j \in DOMAIN a |-> a[j].calls]
<1>1. s \in [1..Len(a) -> U] /\ DOMAIN s = DOMAIN a /\ \A j \in DOMAIN a : s[j] = a[j].calls
  OBVIOUS
<1>2. Message!CallsOf(a) = Message!FlattenSeq(s)
  BY Zenon DEF Message!CallsOf
<1> HIDE DEF s, U
<1>3. s \in Seq(U)
  BY <1>1
<1>4. Filters(s)
  BY <1>3, ValidFlatten DEF U
<1>5. [j \in DOMAIN s |-> Message!ValidCalls(s[j])] = [j \in DOMAIN a |-> Message!ValidCalls(a[j].calls)]
  BY <1>1
<1>. QED
  BY <1>2, <1>4, <1>5, Zenon DEF Filters

LEMMA AnswerIsKept ==
    ASSUME MessageInv PROVE AnswerKept
<1> DEFINE a == Message!Answer
           choices == Message!decodeResponse(a)
           calls == Message!ValidCalls(Message!CallsOf(a))
           chat == Message!EncodeChatResponse(choices)
           content == Message!EncodeMessagesResponse(choices)
           uses == Message!FlattenSeq([j \in DOMAIN content |->
                     IF content[j].t = "tool_use" THEN <<content[j].id>> ELSE <<>>])
           output == Message!EncodeResponsesResponse(choices)
           several(w) == Len(w.calls) > 1 \/ Message!Mixed(w)
<1>1. AnswerKept <=> (a # <<>> =>
        /\ from # "chat" => Message!Texts(chat) = Message!Texts(a) /\ Message!CallsOf(chat) = calls
        /\ from # "messages" /\ Len(choices) = 1 =>
              /\ Message!TextOf(content, "text") = Message!Texts(a)
              /\ Message!ValidCalls(uses) = calls
        /\ from # "responses" /\ (\A j \in DOMAIN a : ~several(a[j])) =>
              Message!Texts(output) = Message!Texts(a) /\ Message!ValidCalls(Message!CallsOf(output)) = calls)
  BY Zenon DEF AnswerKept, Message!AnswerKept
<1>2. /\ Len(a) \in Nat /\ DOMAIN a = 1..Len(a)
      /\ \A j \in 1..Len(a) : a[j] \in WireSet /\ a[j].calls \in Seq(Calls) /\ a[j].text \in Phrase
  <2>1. a \in Seq(WireSet)
    BY AnswerType
  <2> HIDE DEF a
  <2>2. /\ Len(a) \in Nat /\ DOMAIN a = 1..Len(a) /\ \A j \in 1..Len(a) : a[j] \in WireSet
    BY <2>1
  <2>3. \A w \in WireSet : w.calls \in Seq(Calls) /\ w.text \in Phrase
    BY DEF WireSet
  <2>. QED
    BY <2>2, <2>3
<1>3. DOMAIN choices = 1..Len(a) /\ \A j \in 1..Len(a) : Answers(choices[j], a[j])
  BY ChoicesAnswer
<1> HIDE DEF a, choices
<1>4. calls = Message!FlattenSeq([j \in DOMAIN a |-> Message!ValidCalls(a[j].calls)])
  BY <1>2, CallsKept, Zenon
<1>5. Message!Texts(chat) = Message!Texts(a) /\ Message!CallsOf(chat) = calls
  <2>1. chat = [j \in DOMAIN choices |-> Message!irMsgToChat(choices[j])]
    BY Zenon DEF Message!EncodeChatResponse
  <2>2. ASSUME NEW j \in 1..Len(a)
        PROVE  chat[j].text = a[j].text /\ chat[j].calls = Message!ValidCalls(a[j].calls)
    <3>1. chat[j] = Message!irMsgToChat(choices[j])
      BY <1>3, <2>1
    <3>2. Answers(choices[j], a[j])
      BY <1>3
    <3>3. Message!irMsgToChat(choices[j]).text = a[j].text
      BY <3>2, TellsInChat, Zenon DEF Answers
    <3>4. Message!irMsgToChat(choices[j]).calls = Message!ValidCalls(choices[j].calls)
      BY ChatFields, Zenon
    <3>. QED
      BY <3>1, <3>2, <3>3, <3>4, Zenon DEF Answers
  <2>3. DOMAIN chat = 1..Len(a)
    BY <1>3, <2>1
  <2> HIDE DEF chat
  <2>4. /\ [j \in DOMAIN chat |-> chat[j].text] = [j \in DOMAIN a |-> a[j].text]
        /\ [j \in DOMAIN chat |-> chat[j].calls] = [j \in DOMAIN a |-> Message!ValidCalls(a[j].calls)]
    BY <1>2, <2>2, <2>3
  <2>. QED
    BY <1>4, <2>4, Zenon DEF Message!Texts, Message!CallsOf
<1>6. ASSUME from # "messages", Len(choices) = 1
      PROVE  Message!TextOf(content, "text") = Message!Texts(a) /\ Message!ValidCalls(uses) = calls
  <2>1. Len(a) = 1
    <3>1. 1..Len(choices) = 1..Len(a)
      <4>1. choices \in [1..Len(a) -> Message!Range(choices)]
        <5>1. choices = [j \in 1..Len(a) |-> choices[j]]
          BY <1>3 DEF Message!decodeResponse, Message!DecodeChatResponse, Message!DecodeMessagesResponse, Message!DecodeResponsesResponse, MessageInv, choices
        <5>. QED
          BY <1>3, <5>1 DEF Message!Range
      <4>. QED
        BY <1>2, <4>1
    <3>. QED
      BY <1>2, <1>6, <3>1
  <2>2. content = Message!irMsgToMsgContent(choices[1]) /\ Answers(choices[1], a[1]) /\ a[1] \in WireSet
    BY <1>2, <1>3, <2>1 DEF Message!EncodeMessagesResponse
  <2>3. content \in Seq(BlockSet) /\ Message!TextOf(content, "text") = a[1].text
        /\ Sum(UseId, content) = choices[1].calls
    BY <1>6, <2>2, ContentAnswered, Zenon
  <2>4. uses = Sum(UseId, content)
    <3>1. \A j \in DOMAIN content : content[j] \in BlockSet
      BY <2>3
    <3> HIDE DEF content
    <3>2. Mapped(UseId, content) = [j \in DOMAIN content |-> IF content[j].t = "tool_use" THEN <<content[j].id>> ELSE <<>>]
      BY <3>1 DEF Mapped, UseId
    <3>. QED
      BY <3>2, Zenon DEF Sum
  <2>5. [j \in DOMAIN a |-> a[j].text] = <<a[1].text>>
        /\ [j \in DOMAIN a |-> Message!ValidCalls(a[j].calls)] = <<Message!ValidCalls(a[1].calls)>>
    BY <1>2, <2>1
  <2>6. Message!Texts(a) = a[1].text /\ calls = Message!ValidCalls(a[1].calls)
    <3>1. a[1].text \in Phrase /\ Message!ValidCalls(a[1].calls) \in Seq(Calls)
      BY <1>2, <2>1, ValidCallsType
    <3> DEFINE t == a[1].text
               v == Message!ValidCalls(a[1].calls)
    <3> HIDE DEF t, v
    <3>2. Message!FlattenSeq(<<t>>) = t /\ Message!FlattenSeq(<<v>>) = v
      BY <3>1, FlattenOne DEF t, v, Phrase
    <3>. QED
      BY <1>4, <2>5, <3>2, Zenon DEF Message!Texts, t, v
  <2>7. Message!ValidCalls(choices[1].calls) = Message!ValidCalls(a[1].calls)
    BY <2>2, Zenon DEF Answers
  <2> HIDE DEF uses, calls, content
  <2>. QED
    BY <2>3, <2>4, <2>6, <2>7, Zenon
<1>7. ASSUME from # "responses", \A j \in DOMAIN a : ~several(a[j])
      PROVE  Message!Texts(output) = Message!Texts(a) /\ Message!ValidCalls(Message!CallsOf(output)) = calls
  <2>1. output = [j \in DOMAIN choices |-> Message!irMsgToRespOutput(choices[j])]
    BY Zenon DEF Message!EncodeResponsesResponse
  <2>2. ASSUME NEW j \in 1..Len(a)
        PROVE  /\ output[j].text = a[j].text /\ output[j].calls \in Seq(Calls)
               /\ Message!ValidCalls(output[j].calls) = Message!ValidCalls(a[j].calls)
    <3>1. output[j] = Message!irMsgToRespOutput(choices[j])
      BY <1>3, <2>1
    <3>2. Answers(choices[j], a[j]) /\ a[j] \in WireSet
      BY <1>2, <1>3
    <3>3. ~(Len(a[j].calls) > 1) /\ ~Message!Mixed(a[j])
      BY <1>2, <1>7
    <3>. QED
      BY <1>7, <3>1, <3>2, <3>3, OutputAnswered
  <2>3. DOMAIN output = 1..Len(a) /\ output = [j \in 1..Len(a) |-> output[j]]
    BY <1>3, <2>1
  <2> HIDE DEF output
  <2>4. /\ [j \in DOMAIN output |-> output[j].text] = [j \in DOMAIN a |-> a[j].text]
        /\ [j \in DOMAIN output |-> Message!ValidCalls(output[j].calls)]
              = [j \in DOMAIN a |-> Message!ValidCalls(a[j].calls)]
    BY <1>2, <2>2, <2>3
  <2>5. Len(output) = Len(a)
    BY <1>2, <2>3
  <2>6. Message!ValidCalls(Message!CallsOf(output))
          = Message!FlattenSeq([j \in DOMAIN output |-> Message!ValidCalls(output[j].calls)])
    BY <1>2, <2>2, <2>3, <2>5, CallsKept
  <2>. QED
    BY <1>4, <2>4, <2>6, Zenon DEF Message!Texts
<1> HIDE DEF calls, chat, content, uses, output, several
<1>. QED
  BY <1>1, <1>5, <1>6, <1>7, Zenon

\* A whole answer, however many choices or items it has, keeps its text and its
\* tool calls in the client's protocol, with the exceptions AnswerKept names
\* (ConvertResponse in protocol/convert.go, and the response decoders and
\* encoders of chat.go, messages.go and responses.go).
THEOREM AnswersAreKept == ConversionSpec => []AnswerKept
BY AnswerIsKept, MessageInvAlways, PTL

----------------------------------------------------------------------------
(* What was said stays said                                                *)

\* What messages say to their reader, and what is written of them for a Chat
\* upstream.
Speakers == {"user", "assistant"}
Seen(R) == [m \in IRSet |-> IF m.role \in R THEN Message!visibleText(m) ELSE <<>>]
Shown(m) == IF m.content = <<>> THEN m.text ELSE Message!TextOf(m.content, "text")

\* The conversations that TextKept speaks of.
Unmixed == \A j \in 1..Len(history) : ~Message!Mixed(history[j])
Apart == \A j \in 1..Len(history) : history[j].text = <<>> \/ history[j].outs = <<>>
Shadowed == from = "responses" /\ form = "string" /\ ~Thoughtless

\* A message that each encoder writes with its text.
Voiced(m) ==
    /\ Apart /\ Message!IsTool(m) => m.role = "tool" \/ Message!visibleText(m) = <<>>
    /\ ~Shadowed /\ m.role # "tool" => Shown(m) = Message!visibleText(m)
    /\ Unmixed /\ m.role # "tool" /\ m.calls # <<>> => Message!visibleText(m) = <<>>

\* A message that says what w does.
Renders(m, w) ==
    /\ m \in IRSet /\ m.role = w.role /\ Voiced(m)
    /\ m.role # "tool" => Message!visibleText(m) = w.text
    /\ from = "chat" /\ form = "string" => m.text = Message!visibleText(m)

LEMMA VisibleType ==
    ASSUME NEW m \in IRSet PROVE Message!visibleText(m) \in Phrase
<1>1. m.text \in Phrase /\ m.content \in Seq(BlockSet)
  BY DEF IRSet
<1>2. Message!TextOf(m.content, "text") \in Phrase
  BY <1>1, TextOfType
<1>. QED
  BY <1>1, <1>2, Zenon DEF Message!visibleText

LEMMA SeenMeasure == ASSUME NEW R PROVE Measure(Seen(R), IRSet, Payload)
<1> DEFINE e == <<>>
<1>1. e \in Phrase
  BY DEF Phrase
<1> HIDE DEF e
<1>2. \A m \in IRSet : (IF m.role \in R THEN Message!visibleText(m) ELSE e) \in Phrase
  BY <1>1, VisibleType, Zenon
<1>3. Seen(R) = [m \in IRSet |-> IF m.role \in R THEN Message!visibleText(m) ELSE e]
  BY Zenon DEF Seen, e
<1>4. Seen(R) \in [IRSet -> Phrase]
  BY <1>2, <1>3
<1>. QED
  BY <1>4, Zenon DEF Measure, Phrase

LEMMA ChatRenders ==
    ASSUME NEW k \in 1..Len(history), history[k] \in WireSet, Shaped(history[k]), from = "chat"
    PROVE  Renders(Message!chatMsgToIR(history[k]), history[k])
<1> DEFINE w == history[k]
           m == Message!chatMsgToIR(w)
           v == Message!visibleText(m)
<1>1. /\ m \in IRSet /\ m.role = w.role /\ m.calls = w.calls
      /\ m.callId = IF w.outs = <<>> THEN "" ELSE w.outs[1].id
      /\ Tells(m, ChatSaid(w)) /\ (form = "string" => m.text = ChatSaid(w))
  BY ChatMsgSays, Zenon
<1>2. v = ChatSaid(w) /\ Shown(m) = ChatSaid(w)
  <2>1. Message!irMsgToChat(m).text = ChatSaid(w)
    BY <1>1, TellsInChat, Zenon
  <2>2. Message!irMsgToChat(m).text = Shown(m)
    <3> DEFINE o == IF m.callId = "" THEN <<>> ELSE <<m.callId>>
    <3> HIDE DEF m, o
    <3>1. Message!irMsgToChat(m) = Message!Wire(m.role, Message!thinkingText(m), Shown(m),
             Message!ValidCalls(m.calls), o)
      BY Zenon DEF Message!irMsgToChat, Shown, o
    <3>. QED
      BY <3>1 DEF Message!Wire
  <2>. QED
    BY <1>1, <2>1, <2>2, TellsVisible, Zenon
<1>3. (w.role = "tool" <=> w.outs # <<>>) /\ (w.role # "assistant" => w.calls = <<>>)
  BY DEF Shaped
<1>4. Unmixed => w.text = <<>> \/ w.calls = <<>>
  BY DEF Unmixed, Message!Mixed
<1> HIDE DEF w, m, v
<1>5. Message!IsTool(m) => m.role = "tool"
  BY <1>1, <1>3, Zenon DEF Message!IsTool
<1>6. m.role # "tool" => v = w.text
  BY <1>1, <1>2, <1>3, Zenon DEF ChatSaid
<1>7. Unmixed /\ m.role # "tool" /\ m.calls # <<>> => v = <<>>
  BY <1>1, <1>4, <1>6, Zenon
<1>8. Voiced(m)
  BY <1>2, <1>5, <1>7, Zenon DEF Voiced, v
<1>. QED
  BY <1>1, <1>2, <1>6, <1>8, Zenon DEF Renders, w, m, v

LEMMA MessagesRenders ==
    ASSUME NEW k \in 1..Len(history), history[k] \in WireSet, Shaped(history[k]), from = "messages"
    PROVE  Renders(Message!msgMsgToIR(history[k]), history[k])
<1> DEFINE w == history[k]
           m == Message!msgMsgToIR(w)
           v == Message!visibleText(m)
           t == Message!TextOf(m.content, "text")
<1>1. /\ m \in IRSet /\ m.role = w.role /\ m.calls = Message!ValidCalls(w.calls)
      /\ m.callId = IF w.outs = <<>> THEN "" ELSE Message!Last(w.outs).id
      /\ m.text \in {w.text, <<>>} /\ t = w.text
  BY MsgMsgSays, MsgMsgType, Zenon DEF Heard
<1>2. v = w.text
  <2> HIDE DEF w, m, t
  <2>1. v = IF m.text # <<>> THEN m.text ELSE t
    BY Zenon DEF Message!visibleText, t
  <2>2. m.text = w.text \/ m.text = <<>>
    BY <1>1
  <2>. QED
    BY <1>1, <2>1, <2>2, Zenon
<1>3. Shown(m) = w.text
  <2>1. m.text = w.text \/ m.text = <<>>
    BY <1>1
  <2>2. m.content = <<>> => t = <<>>
    BY NoText, Zenon
  <2>3. Shown(m) = IF m.content = <<>> THEN m.text ELSE t
    BY Zenon DEF Shown
  <2> HIDE DEF w, m, t
  <2>. QED
    BY <1>1, <2>1, <2>2, <2>3, Zenon
<1>4. w.role # "tool"
  BY DEF Shaped
<1>5. Unmixed => w.text = <<>> \/ w.calls = <<>>
  BY DEF Unmixed, Message!Mixed
<1>6. Apart => w.text = <<>> \/ w.outs = <<>>
  BY DEF Apart
<1> HIDE DEF w, m, v, t
<1>7. Message!IsTool(m) => w.outs # <<>>
  BY <1>1, <1>4, Zenon DEF Message!IsTool
<1>8. w.calls = <<>> => m.calls = <<>>
  BY <1>1, ValidNone, Zenon
<1>9. Voiced(m)
  BY <1>2, <1>3, <1>5, <1>6, <1>7, <1>8, Zenon DEF Voiced, v
<1>10. from # "chat"
  OBVIOUS
<1>. QED
  BY <1>1, <1>2, <1>9, <1>10, Zenon DEF Renders, w, m, v

LEMMA ItemVoiced ==
    ASSUME NEW m \in Item, from = "responses"
    PROVE  Voiced(m)
<1>1. (Message!IsTool(m) => m.role = "tool") /\ Message!visibleText(m) = m.text
  BY ItemFacts, Zenon
<1>2. ItemForm(m)
  BY ItemFacts, Zenon
<1>3. m.calls # <<>> => m.text = <<>>
  BY <1>2, Zenon DEF ItemForm
<1>4. ASSUME ~Shadowed, m.role # "tool" PROVE Shown(m) = m.text
  <2>1. CASE form # "string"
    <3>1. m.text = Message!TextOf(m.content, "text")
      BY <1>2, <1>4, <2>1, Zenon DEF ItemForm
    <3>. QED
      BY <3>1, Zenon DEF Shown
  <2>2. CASE form = "string"
    <3>1. m.content = <<>>
      BY <1>2, <1>4, <2>2, Zenon DEF ItemForm, Shadowed
    <3>. QED
      BY <3>1, Zenon DEF Shown
  <2>. QED
    BY <2>1, <2>2
<1>. QED
  BY <1>1, <1>3, <1>4, Zenon DEF Voiced

LEMMA Rendered ==
    ASSUME MessageInv, from # "responses"
    PROVE  /\ Message!decodeRequest(history) \in Seq(IRSet)
           /\ Len(Message!decodeRequest(history)) = Len(history)
           /\ \A j \in 1..Len(history) : Renders(Message!decodeRequest(history)[j], history[j])
<1> DEFINE n == Len(history)
           M == Message!decodeRequest(history)
<1>1. /\ n \in Nat /\ DOMAIN history = 1..n
      /\ \A j \in 1..n : history[j] \in WireSet /\ Shaped(history[j])
  BY DEF MessageInv
<1>2. CASE from = "chat"
  <2>1. M = [j \in DOMAIN history |-> Message!chatMsgToIR(history[j])]
    BY <1>2 DEF Message!decodeRequest, Message!DecodeChatRequest
  <2> HIDE DEF M
  <2>2. ASSUME NEW j \in 1..n PROVE M[j] \in IRSet /\ Renders(M[j], history[j])
    <3>1. M[j] = Message!chatMsgToIR(history[j])
      BY <1>1, <2>1
    <3>2. Renders(M[j], history[j])
      BY <1>1, <1>2, <3>1, ChatRenders, Zenon
    <3>. QED
      BY <3>2, Zenon DEF Renders
  <2>3. M \in [1..n -> IRSet]
    BY <1>1, <2>1, <2>2
  <2>. QED
    BY <1>1, <2>2, <2>3, FunctionSeq DEF M
<1>3. CASE from = "messages"
  <2>1. M = [j \in DOMAIN history |-> Message!msgMsgToIR(history[j])]
    BY <1>3 DEF Message!decodeRequest, Message!DecodeMessagesRequest
  <2> HIDE DEF M
  <2>2. ASSUME NEW j \in 1..n PROVE M[j] \in IRSet /\ Renders(M[j], history[j])
    <3>1. M[j] = Message!msgMsgToIR(history[j])
      BY <1>1, <2>1
    <3>2. Renders(M[j], history[j])
      BY <1>1, <1>3, <3>1, MessagesRenders, Zenon
    <3>. QED
      BY <3>2, Zenon DEF Renders
  <2>3. M \in [1..n -> IRSet]
    BY <1>1, <2>1, <2>2
  <2>. QED
    BY <1>1, <2>2, <2>3, FunctionSeq DEF M
<1>. QED
  BY <1>2, <1>3 DEF MessageInv

\* The messages say what the conversation does, and each is written with its
\* text.
LEMMA DecodedVoices ==
    ASSUME MessageInv
    PROVE  /\ Message!decodeRequest(history) \in Seq(IRSet)
           /\ \A j \in 1..Len(Message!decodeRequest(history)) :
                 /\ Message!decodeRequest(history)[j] \in IRSet
                 /\ Voiced(Message!decodeRequest(history)[j])
                 /\ from # "messages" /\ (from = "chat" => form = "string")
                       => Message!decodeRequest(history)[j].text
                             = Message!visibleText(Message!decodeRequest(history)[j])
<1> DEFINE M == Message!decodeRequest(history)
<1>1. CASE from = "responses"
  <2>0. "tool" \notin Speakers
    BY DEF Speakers
  <2>1. M \in Seq(Item)
    BY <1>1, <2>0, ResponsesTexts, Zenon DEF MessageInv, Sendable
  <2>2. Item \subseteq IRSet
    BY DEF Item
  <2> HIDE DEF M
  <2>3. M \in Seq(IRSet) /\ \A j \in 1..Len(M) : M[j] \in Item /\ M[j] \in IRSet
    BY <2>1, <2>2
  <2>. QED
    BY <1>1, <2>3, ItemFacts, ItemVoiced, Zenon DEF M
<1>2. CASE from # "responses"
  <2>1. M \in Seq(IRSet) /\ Len(M) = Len(history) /\ \A j \in 1..Len(history) : Renders(M[j], history[j])
    BY <1>2, Rendered, Zenon
  <2>2. from = "chat" \/ from = "messages"
    BY <1>2 DEF MessageInv
  <2> HIDE DEF M
  <2>. QED
    BY <2>1, <2>2, Zenon DEF Renders, M
<1>. QED
  BY <1>1, <1>2

LEMMA DecodedTexts ==
    ASSUME MessageInv, NEW R, "tool" \notin R
    PROVE  Sum(Seen(R), Message!decodeRequest(history)) = Sum(SaidBy(R), history)
<1> DEFINE M == Message!decodeRequest(history)
           g == Seen(R)
           h == SaidBy(R)
<1>1. history \in Seq(WireSet) /\ \A j \in 1..Len(history) : history[j] \in WireSet
  BY DEF MessageInv
<1>2. CASE from = "responses"
  <2>1. M \in Seq(Item) /\ Sum(TextBy(R), M) = Sum(h, history)
    BY <1>2, ResponsesTexts, Zenon DEF MessageInv, Sendable
  <2>2. \A j \in 1..Len(M) : M[j] \in Item
    BY <2>1
  <2>3. ASSUME NEW j \in 1..Len(M) PROVE g[M[j]] = TextBy(R)[M[j]]
    <3>1. M[j] \in IRSet /\ Message!visibleText(M[j]) = M[j].text
      BY <2>2, ItemFacts, Zenon
    <3>2. g[M[j]] = IF M[j].role \in R THEN Message!visibleText(M[j]) ELSE <<>>
      BY <3>1, Zenon DEF Seen
    <3>3. TextBy(R)[M[j]] = IF M[j].role \in R THEN M[j].text ELSE <<>>
      BY <3>1, Zenon DEF TextBy
    <3>. QED
      BY <3>1, <3>2, <3>3, Zenon
  <2> HIDE DEF M, g, h
  <2>4. Sum(g, M) = Sum(TextBy(R), M)
    BY <2>1, <2>3, SumSame
  <2>. QED
    BY <2>1, <2>4, Zenon DEF M, g, h
<1>3. CASE from # "responses"
  <2>1. M \in Seq(IRSet) /\ Len(M) = Len(history) /\ \A j \in 1..Len(history) : Renders(M[j], history[j])
    BY <1>3, Rendered, Zenon
  <2>2. ASSUME NEW j \in 1..Len(M) PROVE g[M[j]] = h[history[j]]
    <3>1. M[j] \in IRSet /\ M[j].role = history[j].role
          /\ (M[j].role # "tool" => Message!visibleText(M[j]) = history[j].text)
      BY <2>1, <2>2, Zenon DEF Renders
    <3>2. g[M[j]] = IF M[j].role \in R THEN Message!visibleText(M[j]) ELSE <<>>
      BY <3>1, Zenon DEF Seen
    <3>3. h[history[j]] = IF history[j].role \in R THEN history[j].text ELSE <<>>
      BY <1>1, <2>1, Zenon DEF SaidBy
    <3>4. M[j].role \in R => M[j].role # "tool"
      OBVIOUS
    <3>. QED
      BY <3>1, <3>2, <3>3, <3>4, Zenon
  <2>4. M \in Seq(IRSet) /\ history \in Seq(WireSet) /\ Len(M) = Len(history)
    BY <1>1, <2>1
  <2> HIDE DEF M, g, h
  <2>5. Matches(g, M, h, history)
    BY <2>2, Zenon DEF Matches
  <2>6. SameSum(g, M, h, history)
    BY <2>4, <2>5, SumMatches, Zenon
  <2>3. Sum(g, M) = Sum(h, history)
    BY <2>6, Zenon DEF SameSum
  <2>. QED
    BY <2>3, Zenon DEF M, g, h
<1>. QED
  BY <1>2, <1>3

\* What normalizing the history carries over: the g of a message written is the
\* v of the message it was.
Carries(g, v, m) ==
    IF Message!IsTool(m)
      THEN v[m] = <<>> /\ \A call \in Calls : g[Result(m, call)] = <<>>
      ELSE /\ \A x \in IRSet :
                 x.role # "tool" /\ x.text = m.text /\ x.content = m.content => g[x] = v[m]
           /\ Message!visibleText(m) = <<>> /\ Message!thinkingText(m) = <<>> => v[m] = <<>>
CarriesAll(g, v, messages) == \A j \in 1..Len(messages) : Carries(g, v, messages[j])
StepAdds(g, v, messages, r, i) ==
    Sum(g, Message!normalizeMessage(messages, r, i).out) = Sum(g, r.out) \o v[messages[i]]

LEMMA NormalStepAdds ==
    ASSUME NEW messages \in Seq(IRSet), NEW T, NEW g, Measure(g, IRSet, T), NEW v,
           CarriesAll(g, v, messages), NEW r \in Normal(messages), NEW i \in 1..Len(messages)
    PROVE  StepAdds(g, v, messages, r, i)
<1> DEFINE m == messages[i]
           p == Message!pairCalls(messages, r.used, i)
           x == Message!normalizeMessage(messages, r, i)
           s == Sum(g, r.out)
<1>1. r.out \in Seq(IRSet) /\ r.used \in SUBSET OutputsOf(messages) /\ m \in IRSet
  BY DEF Normal
<1>2. p \in Pairs(messages)
  BY <1>1, PairCallsType
<1>3. s \o <<>> = s
  <2>1. s \in Seq(T)
    BY <1>1, SumType, Zenon
  <2> HIDE DEF s
  <2>. QED
    BY <2>1
<1>4. Becomes(messages, r, i, x)
  BY NormalizeMessageCases, Zenon
<1>5. Carries(g, v, m)
  BY Zenon DEF CarriesAll
<1>6. ASSUME ~Message!IsTool(m), NEW y \in IRSet, y.role # "tool", y.text = m.text, y.content = m.content
      PROVE  g[y] = v[m] /\ Sum(g, Append(r.out, y)) = s \o v[m]
  <2>1. g[y] = v[m]
    BY <1>5, <1>6, Zenon DEF Carries
  <2>2. AddsOne(g, r.out, y)
    BY <1>1, SumAppend, Zenon
  <2>. QED
    BY <2>1, <2>2, Zenon DEF AddsOne
<1>7. p.outs \in Seq(IRSet) /\ Sum(g, p.outs) = <<>>
  <2>1. p.outs \in Seq(IRSet) /\ p.calls \in Seq(Valid) /\ Len(p.outs) = Len(p.calls)
        /\ \A k \in 1..Len(p.calls) : \E a \in OutputsOf(messages) : p.outs[k] = Result(messages[a], p.calls[k])
    BY <1>2 DEF Pairs
  <2> HIDE DEF p
  <2>2. ASSUME NEW k \in 1..Len(p.outs) PROVE g[p.outs[k]] = <<>>
    <3>1. PICK a \in OutputsOf(messages) : p.outs[k] = Result(messages[a], p.calls[k])
      BY <2>1
    <3>2. a \in 1..Len(messages) /\ Message!IsTool(messages[a])
      BY DEF OutputsOf
    <3>3. p.calls[k] \in Calls
      <4>1. p.calls[k] \in Valid
        BY <2>1
      <4>. QED
        BY <4>1 DEF Valid
    <3>4. Carries(g, v, messages[a])
      BY <3>2, Zenon DEF CarriesAll
    <3>. QED
      BY <3>1, <3>2, <3>3, <3>4, Zenon DEF Carries
  <2>3. \A k \in 1..Len(p.outs) : g[p.outs[k]] = <<>>
    BY <2>2
  <2>. QED
    BY <2>1, <2>3, SumEmpty, Zenon
<1>8. ~Message!IsTool(m) => m.role # "tool"
  BY Zenon DEF Message!IsTool
<1> HIDE DEF m, p, s, x
<1>9. CASE x = r /\ Message!IsTool(m)
  <2>1. v[m] = <<>>
    BY <1>5, <1>9, Zenon DEF Carries
  <2>. QED
    BY <1>3, <1>9, <2>1, Zenon DEF StepAdds, x, s, m
<1>10. CASE x = r /\ ~Message!IsTool(m) /\ Message!visibleText(m) = <<>> /\ Message!thinkingText(m) = <<>>
  <2>1. v[m] = <<>>
    BY <1>5, <1>10, Zenon DEF Carries
  <2>. QED
    BY <1>3, <1>10, <2>1, Zenon DEF StepAdds, x, s, m
<1>11. CASE ~Message!IsTool(m) /\ x = [out |-> Append(r.out, Plain(m)), used |-> r.used]
  <2>1. x.out = Append(r.out, Plain(m))
    BY <1>11
  <2>2. Plain(m) \in IRSet /\ Plain(m).role # "tool" /\ Plain(m).text = m.text /\ Plain(m).content = m.content
    BY <1>1, <1>8, <1>11, PlainType
  <2>. QED
    BY <1>6, <1>11, <2>1, <2>2, Zenon DEF StepAdds, x, s, m
<1>12. CASE ~Message!IsTool(m) /\ x = [out |-> Append(r.out, Leading(m, p)) \o p.outs, used |-> p.used]
  <2> DEFINE y == Leading(m, p)
  <2>1. x.out = Append(r.out, y) \o p.outs
    BY <1>12
  <2>2. y \in IRSet /\ y.role # "tool" /\ y.text = m.text /\ y.content = m.content
    BY <1>1, <1>2, LeadingType
  <2> HIDE DEF y
  <2>3. Sum(g, Append(r.out, y)) = s \o v[m] /\ g[y] = v[m]
    BY <1>6, <1>12, <2>2, Zenon
  <2>4. Append(r.out, y) \in Seq(IRSet)
    BY <1>1, <2>2
  <2>5. Adds(g, Append(r.out, y), p.outs)
    BY <1>7, <2>4, SumConcat, Zenon
  <2>6. (s \o v[m]) \o <<>> = s \o v[m]
    <3>1. Sum(g, Append(r.out, y)) \in Seq(T)
      BY <2>4, SumType, Zenon
    <3>2. s \o v[m] \in Seq(T)
      BY <2>3, <3>1, Zenon
    <3>. QED
      BY <3>2
  <2>. QED
    BY <1>7, <2>1, <2>3, <2>5, <2>6, Zenon DEF Adds, StepAdds, x, s, m
<1>. QED
  BY <1>4, <1>9, <1>10, <1>11, <1>12, Zenon DEF Becomes, m, p

LEMMA NormalSum ==
    ASSUME NEW messages \in Seq(IRSet), NEW T, NEW g, Measure(g, IRSet, T),
           NEW v, Measure(v, IRSet, T), CarriesAll(g, v, messages)
    PROVE  SameSum(g, Message!normalizeChatHistory(messages), v, messages)
<1> DEFINE n == Len(messages)
<1>1. PICK f : NormalSteps(f, messages)
  BY NormalizeSteps, Zenon
<1> DEFINE F == [j \in 0..n |-> Sum(g, f[j].out)]
<1>2. n \in Nat
  OBVIOUS
<1>3. F[0] = <<>>
  <2>1. f[0].out = <<>>
    BY <1>1, Zenon DEF NormalSteps
  <2>2. F[0] = Sum(g, f[0].out)
    BY <1>2
  <2>. QED
    BY <2>1, <2>2, SumNone, Zenon
<1>4. ASSUME NEW j \in 1..n PROVE F[j] = F[j - 1] \o v[messages[j]]
  <2>1. j \in 0..n /\ j - 1 \in 0..n
    BY <1>2
  <2>2. f[j - 1] \in Normal(messages) /\ f[j] = Message!normalizeMessage(messages, f[j - 1], j)
    BY <1>1, <2>1, Zenon DEF NormalSteps
  <2>3. StepAdds(g, v, messages, f[j - 1], j)
    BY <2>2, NormalStepAdds, Zenon
  <2>4. Sum(g, f[j].out) = Sum(g, f[j - 1].out) \o v[messages[j]]
    BY <2>2, <2>3, Zenon DEF StepAdds
  <2>. QED
    BY <2>1, <2>4
<1>5. F[n] = Sum(g, f[n].out)
  BY <1>2
<1> HIDE DEF F
<1>6. Builds(v, messages, F)
  BY <1>4, Zenon DEF Builds
<1>7. Totals(v, messages, F)
  BY <1>3, <1>6, SumGrows, Zenon
<1>. QED
  BY <1>1, <1>5, <1>7, Zenon DEF NormalSteps, Totals, SameSum

\* Lists of messages encoded, for a Chat or a Responses and for a Messages
\* upstream.
EncodedSet == [role : Roles, think : Phrase, text : Phrase, calls : Seq(Calls), outs : Seq(Ids)]
ContentSet == [role : Roles, content : Seq(BlockSet)]
TextField(S) == [w \in S |-> w.text]
ContentText == [c \in ContentSet |-> Message!TextOf(c.content, "text")]

LEMMA FieldMeasures ==
    /\ Measure(TextField(WireSet), WireSet, Payload)
    /\ Measure(TextField(EncodedSet), EncodedSet, Payload)
    /\ Measure(ContentText, ContentSet, Payload)
<1>1. \A w \in WireSet : w.text \in Seq(Payload)
  BY DEF WireSet, Phrase
<1>2. \A w \in EncodedSet : w.text \in Seq(Payload)
  BY DEF EncodedSet, Phrase
<1>3. ASSUME NEW c \in ContentSet PROVE Message!TextOf(c.content, "text") \in Seq(Payload)
  <2>1. c.content \in Seq(BlockSet)
    BY DEF ContentSet
  <2>. QED
    BY <2>1, TextOfType DEF Phrase
<1>. QED
  BY <1>1, <1>2, <1>3 DEF Measure, TextField, ContentText

LEMMA TextsIsSum ==
    ASSUME NEW S, NEW ws \in Seq(S)
    PROVE  Message!Texts(ws) = Sum(TextField(S), ws)
<1>1. \A j \in DOMAIN ws : ws[j] \in S
  OBVIOUS
<1>2. [j \in DOMAIN ws |-> ws[j].text] = Mapped(TextField(S), ws)
  BY <1>1 DEF Mapped, TextField
<1>. QED
  BY <1>2, Zenon DEF Message!Texts, Sum

\* The sum of a list without some role, by that of the list it was made from.
WithoutMatches(role, g, es, v, ms) ==
    \A j \in 1..Len(es) : v[ms[j]] = IF es[j].role = role THEN <<>> ELSE g[es[j]]

LEMMA WithoutSum ==
    ASSUME NEW role, NEW S, NEW T, NEW g, Measure(g, S, T), NEW es \in Seq(S),
           NEW R, NEW ms \in Seq(R), NEW v, Len(es) = Len(ms), WithoutMatches(role, g, es, v, ms)
    PROVE  SameSum(g, Message!Without(role, es), v, ms)
<1> DEFINE h == [e \in S |-> IF e.role = role THEN <<>> ELSE g[e]]
<1>1. \A e \in S : h[e] = IF e.role = role THEN <<>> ELSE g[e]
  BY Zenon
<1>2. \A j \in 1..Len(es) : es[j] \in S
  OBVIOUS
<1> HIDE DEF h
<1>3. Sum(g, Message!Without(role, es)) = Sum(h, es)
  BY <1>1, SumWithout
<1>4. Matches(h, es, v, ms)
  BY <1>1, <1>2, Zenon DEF Matches, WithoutMatches
<1>5. SameSum(h, es, v, ms)
  BY <1>4, SumMatches, Zenon
<1>. QED
  BY <1>3, <1>5, Zenon DEF SameSum

\* What the user and the assistant say.
LEMMA SpokenIs ==
    ASSUME MessageInv
    PROVE  Message!Texts(Message!Without("system", history)) = Sum(SaidBy(Speakers), history)
<1> DEFINE g == TextField(WireSet)
           h == SaidBy(Speakers)
           ws == Message!Without("system", history)
<1>1. /\ history \in Seq(WireSet) /\ from \in {"chat", "messages", "responses"}
      /\ \A j \in 1..Len(history) : history[j] \in WireSet /\ Shaped(history[j])
  BY DEF MessageInv
<1>2. Message!Texts(ws) = Sum(g, ws)
  BY <1>1, WithoutType, TextsIsSum
<1>3. ASSUME NEW j \in 1..Len(history)
      PROVE  h[history[j]] = IF history[j].role = "system" THEN <<>> ELSE g[history[j]]
  <2> DEFINE w == history[j]
  <2>1. w \in WireSet /\ w.role \in Roles
    BY <1>1 DEF WireSet
  <2>2. h[w] = IF w.role \in Speakers THEN w.text ELSE <<>>
    BY <2>1, Zenon DEF SaidBy
  <2>3. g[w] = w.text
    BY <2>1, Zenon DEF TextField
  <2>4. w.role = "tool" => w.text = <<>>
    BY <1>1 DEF Shaped
  <2>5. w.role \in Speakers \/ w.role = "system" \/ w.role = "tool"
    BY <2>1 DEF Roles, Speakers
  <2>6. "system" \notin Speakers /\ "tool" \notin Speakers
    BY DEF Speakers
  <2> HIDE DEF g, h
  <2>. QED
    BY <2>2, <2>3, <2>4, <2>5, <2>6, Zenon
<1>4. Measure(g, WireSet, Payload)
  BY FieldMeasures, Zenon
<1> HIDE DEF g, h
<1>5. WithoutMatches("system", g, history, h, history)
  BY <1>3, Zenon DEF WithoutMatches
<1>6. SameSum(g, ws, h, history)
  BY <1>1, <1>4, <1>5, WithoutSum, Zenon
<1>. QED
  BY <1>2, <1>6, Zenon DEF SameSum, h

\* What the messages say that are no instructions.
Voice == [m \in IRSet |-> IF m.role = "tool" THEN <<>> ELSE Message!visibleText(m)]
VoicedSet == {m \in IRSet : Voiced(m)}

LEMMA VoiceMeasure == Measure(Voice, IRSet, Payload)
<1> DEFINE e == <<>>
<1>1. e \in Phrase
  BY DEF Phrase
<1> HIDE DEF e
<1>2. \A m \in IRSet : (IF m.role = "tool" THEN e ELSE Message!visibleText(m)) \in Phrase
  BY <1>1, VisibleType, Zenon
<1>3. Voice = [m \in IRSet |-> IF m.role = "tool" THEN e ELSE Message!visibleText(m)]
  BY Zenon DEF Voice, e
<1>4. Voice \in [IRSet -> Phrase]
  BY <1>2, <1>3
<1>. QED
  BY <1>4, Zenon DEF Measure, Phrase

LEMMA VoiceKept ==
    ASSUME MessageInv
    PROVE  /\ Message!Rest(Message!decodeRequest(history)) \in Seq(VoicedSet)
           /\ Message!Rest(Message!decodeRequest(history)) \in Seq(IRSet)
           /\ Sum(Voice, Message!Rest(Message!decodeRequest(history)))
                 = Message!Texts(Message!Without("system", history))
<1> DEFINE M == Message!decodeRequest(history)
           h == Seen(Speakers)
           ms == Message!Rest(M)
<1>1. M \in Seq(IRSet) /\ \A j \in 1..Len(M) : M[j] \in IRSet /\ Voiced(M[j])
  BY DecodedVoices, Zenon
<1>2. Sum(h, M) = Message!Texts(Message!Without("system", history))
  <2>1. "tool" \notin Speakers
    BY DEF Speakers
  <2>2. Sum(h, M) = Sum(SaidBy(Speakers), history)
    BY <2>1, DecodedTexts, Zenon
  <2>. QED
    BY <2>2, SpokenIs, Zenon
<1> HIDE DEF M, h
<1>3. M \in Seq(VoicedSet)
  BY <1>1 DEF VoicedSet
<1>4. ms \in Seq(VoicedSet) /\ ms \in Seq(IRSet)
  BY <1>1, <1>3, WithoutType, Zenon DEF Message!Rest
<1>5. ASSUME NEW j \in 1..Len(M)
      PROVE  h[M[j]] = IF M[j].role = "system" THEN <<>> ELSE Voice[M[j]]
  <2> DEFINE m == M[j]
  <2>1. m \in IRSet /\ m.role \in Roles
    <3>1. m \in IRSet
      BY <1>1
    <3>. QED
      BY <3>1 DEF IRSet
  <2>2. h[m] = IF m.role \in Speakers THEN Message!visibleText(m) ELSE <<>>
    BY <2>1, Zenon DEF Seen, h
  <2>3. Voice[m] = IF m.role = "tool" THEN <<>> ELSE Message!visibleText(m)
    BY <2>1, Zenon DEF Voice
  <2>4. m.role \in Speakers \/ m.role = "system" \/ m.role = "tool"
    BY <2>1 DEF Roles, Speakers
  <2>5. "system" \notin Speakers /\ "tool" \notin Speakers /\ "tool" # "system"
    BY DEF Speakers
  <2>. QED
    BY <2>2, <2>3, <2>4, <2>5, Zenon
<1>6. WithoutMatches("system", Voice, M, h, M)
  BY <1>5, Zenon DEF WithoutMatches
<1>7. SameSum(Voice, Message!Without("system", M), h, M)
  BY <1>1, <1>6, VoiceMeasure, WithoutSum, Zenon
<1>. QED
  BY <1>2, <1>4, <1>7, Zenon DEF SameSum, Message!Rest, M

LEMMA ChatEncoded ==
    ASSUME NEW m \in IRSet
    PROVE  /\ Message!irMsgToChat(m) \in EncodedSet
           /\ Message!irMsgToChat(m).role = m.role
           /\ Message!irMsgToChat(m).think = Message!thinkingText(m)
           /\ Message!irMsgToChat(m).text = Shown(m)
<1> DEFINE o == IF m.callId = "" THEN <<>> ELSE <<m.callId>>
           think == Message!thinkingText(m)
           text == Shown(m)
           calls == Message!ValidCalls(m.calls)
<1>1. /\ m.role \in Roles /\ m.text \in Phrase /\ m.content \in Seq(BlockSet)
      /\ m.calls \in Seq(Calls) /\ m.callId \in Ids
  BY DEF IRSet
<1>2. think \in Phrase /\ Message!TextOf(m.content, "text") \in Phrase
  BY <1>1, TextOfType DEF Message!thinkingText
<1>3. text \in Phrase
  BY <1>1, <1>2, Zenon DEF Shown
<1>4. calls \in Seq(Calls)
  BY <1>1, ValidCallsType
<1>5. o \in Seq(Ids)
  <2> DEFINE a == <<m.callId>>
             e == <<>>
  <2>1. a \in Seq(Ids) /\ e \in Seq(Ids)
    BY <1>1
  <2> HIDE DEF a, e
  <2>2. o = IF m.callId = "" THEN e ELSE a
    BY Zenon DEF a, e
  <2>. QED
    BY <2>1, <2>2, Zenon
<1>6. Message!irMsgToChat(m) = Message!Wire(m.role, think, text, calls, o)
  BY Zenon DEF Message!irMsgToChat, Shown
<1> HIDE DEF o, think, text, calls
<1>7. /\ Message!irMsgToChat(m) \in EncodedSet
      /\ Message!irMsgToChat(m).role = m.role
      /\ Message!irMsgToChat(m).think = think
      /\ Message!irMsgToChat(m).text = text
  BY <1>1, <1>2, <1>3, <1>4, <1>5, <1>6 DEF EncodedSet, Message!Wire
<1>. QED
  BY <1>7, Zenon DEF think, text

\* What a Chat upstream reads that is no output.
Written == [m \in IRSet |-> IF m.role = "tool" THEN <<>> ELSE Shown(m)]

LEMMA ShownType ==
    ASSUME NEW m \in IRSet PROVE Shown(m) \in Phrase
<1>1. m.text \in Phrase /\ m.content \in Seq(BlockSet)
  BY DEF IRSet
<1>2. Message!TextOf(m.content, "text") \in Phrase
  BY <1>1, TextOfType
<1>. QED
  BY <1>1, <1>2, Zenon DEF Shown

LEMMA WrittenMeasure == Measure(Written, IRSet, Payload)
<1> DEFINE e == <<>>
<1>1. e \in Phrase
  BY DEF Phrase
<1> HIDE DEF e
<1>2. \A m \in IRSet : (IF m.role = "tool" THEN e ELSE Shown(m)) \in Phrase
  BY <1>1, ShownType, Zenon
<1>3. Written = [m \in IRSet |-> IF m.role = "tool" THEN e ELSE Shown(m)]
  BY Zenon DEF Written, e
<1>4. Written \in [IRSet -> Phrase]
  BY <1>2, <1>3
<1>. QED
  BY <1>4, Zenon DEF Measure, Phrase

LEMMA TextCarried ==
    ASSUME NEW m \in VoicedSet, Apart, ~Shadowed
    PROVE  Carries(Written, Voice, m)
<1>1. m \in IRSet /\ Voiced(m)
  BY DEF VoicedSet
<1>2. Voice[m] = IF m.role = "tool" THEN <<>> ELSE Message!visibleText(m)
  BY <1>1, Zenon DEF Voice
<1>3. CASE Message!IsTool(m)
  <2>1. Voice[m] = <<>>
    BY <1>1, <1>2, <1>3, Zenon DEF Voiced
  <2>2. ASSUME NEW call \in Calls PROVE Written[Result(m, call)] = <<>>
    <3>1. Result(m, call) \in IRSet /\ Result(m, call).role = "tool"
      BY <1>1, ResultType
    <3>. QED
      BY <3>1, Zenon DEF Written
  <2>. QED
    BY <1>3, <2>1, <2>2, Zenon DEF Carries
<1>4. CASE ~Message!IsTool(m)
  <2>1. m.role # "tool"
    BY <1>4, Zenon DEF Message!IsTool
  <2>2. Voice[m] = Message!visibleText(m) /\ Shown(m) = Message!visibleText(m)
    BY <1>1, <1>2, <2>1, Zenon DEF Voiced
  <2>3. ASSUME NEW x \in IRSet, x.role # "tool", x.text = m.text, x.content = m.content
        PROVE  Written[x] = Voice[m]
    <3>1. Written[x] = Shown(x)
      BY <2>3, Zenon DEF Written
    <3>2. Shown(x) = Shown(m)
      BY <2>3, Zenon DEF Shown
    <3>. QED
      BY <2>2, <3>1, <3>2, Zenon
  <2>. QED
    BY <1>4, <2>2, <2>3, Zenon DEF Carries
<1>. QED
  BY <1>3, <1>4

\* The history a Chat upstream gets, as it is encoded.
LEMMA ChatRequestIs ==
    ASSUME NEW ms \in Seq(IRSet)
    PROVE  LET h == Message!normalizeChatHistory(ms)
               c == [j \in DOMAIN h |-> Message!irMsgToChat(h[j])]
           IN  /\ h \in Seq(IRSet) /\ c \in Seq(EncodedSet) /\ Len(c) = Len(h)
               /\ \A j \in 1..Len(c) : h[j] \in IRSet /\ c[j] = Message!irMsgToChat(h[j]) /\ c[j] \in EncodedSet
<1> DEFINE h == Message!normalizeChatHistory(ms)
           c == [j \in DOMAIN h |-> Message!irMsgToChat(h[j])]
<1>1. h \in Seq(IRSet)
  BY NormalizeType DEF Chats
<1> HIDE DEF h
<1>2. Len(h) \in Nat /\ DOMAIN h = 1..Len(h) /\ \A j \in 1..Len(h) : h[j] \in IRSet
  BY <1>1
<1>3. \A j \in 1..Len(h) : Message!irMsgToChat(h[j]) \in EncodedSet
  BY <1>2, ChatEncoded, Zenon
<1>4. c \in [1..Len(h) -> EncodedSet] /\ \A j \in 1..Len(h) : c[j] = Message!irMsgToChat(h[j])
  BY <1>2, <1>3
<1> HIDE DEF c
<1>5. c \in Seq(EncodedSet) /\ Len(c) = Len(h)
  BY <1>2, <1>4, FunctionSeq
<1>6. \A j \in 1..Len(c) : h[j] \in IRSet /\ c[j] = Message!irMsgToChat(h[j]) /\ c[j] \in EncodedSet
  BY <1>2, <1>3, <1>4, <1>5
<1>. QED
  BY <1>1, <1>5, <1>6, Zenon DEF h, c

LEMMA ChatTextKept ==
    ASSUME MessageInv, Apart, ~Shadowed
    PROVE  Message!Texts(Message!NotTool(Message!ChatRequest))
              = Message!Texts(Message!Without("system", history))
<1> DEFINE ms == Message!Rest(Message!decodeRequest(history))
           h == Message!normalizeChatHistory(ms)
           c == Message!ChatRequest
           ws == Message!Without("tool", c)
           g == TextField(EncodedSet)
<1>1. ms \in Seq(VoicedSet) /\ ms \in Seq(IRSet)
      /\ Sum(Voice, ms) = Message!Texts(Message!Without("system", history))
  BY VoiceKept, Zenon
<1>2. c = [j \in DOMAIN h |-> Message!irMsgToChat(h[j])]
  BY Zenon DEF Message!ChatRequest, Message!EncodeChatRequest
<1> HIDE DEF ms
<1>3. /\ h \in Seq(IRSet) /\ c \in Seq(EncodedSet) /\ Len(c) = Len(h)
      /\ \A j \in 1..Len(c) : h[j] \in IRSet /\ c[j] = Message!irMsgToChat(h[j]) /\ c[j] \in EncodedSet
  BY <1>1, <1>2, ChatRequestIs, Zenon
<1> HIDE DEF c
<1>4. SameSum(Written, h, Voice, ms)
  <2>1. \A j \in 1..Len(ms) : ms[j] \in VoicedSet
    BY <1>1
  <2>2. CarriesAll(Written, Voice, ms)
    BY <2>1, TextCarried, Zenon DEF CarriesAll
  <2>. QED
    BY <1>1, <2>2, WrittenMeasure, VoiceMeasure, NormalSum, Zenon
<1> HIDE DEF h
<1>5. ASSUME NEW j \in 1..Len(c)
      PROVE  Written[h[j]] = IF c[j].role = "tool" THEN <<>> ELSE g[c[j]]
  <2>1. c[j].role = h[j].role /\ c[j].text = Shown(h[j])
    BY <1>3, ChatEncoded, Zenon
  <2>2. g[c[j]] = c[j].text
    BY <1>3, Zenon DEF TextField
  <2>3. Written[h[j]] = IF h[j].role = "tool" THEN <<>> ELSE Shown(h[j])
    BY <1>3, Zenon DEF Written
  <2>. QED
    BY <2>1, <2>2, <2>3, Zenon
<1>6. WithoutMatches("tool", g, c, Written, h)
  BY <1>5, Zenon DEF WithoutMatches
<1>7. Measure(g, EncodedSet, Payload)
  BY FieldMeasures, Zenon
<1>8. Message!Texts(ws) = Sum(g, ws)
  BY <1>3, WithoutType, TextsIsSum
<1> HIDE DEF g
<1>9. SameSum(g, ws, Written, h)
  BY <1>3, <1>6, <1>7, WithoutSum, Zenon
<1>. QED
  BY <1>1, <1>4, <1>8, <1>9, Zenon DEF SameSum, Message!NotTool, c

LEMMA MessagesTextKept ==
    ASSUME MessageInv, Unmixed, ~Shadowed,
           NEW ms, ms = Message!NotTool(Message!EncodeMessagesRequest(Message!decodeRequest(history)))
    PROVE  Message!FlattenSeq([j \in DOMAIN ms |-> Message!TextOf(ms[j].content, "text")])
              = Message!Texts(Message!Without("system", history))
<1> DEFINE h == Message!Rest(Message!decodeRequest(history))
           c == [j \in DOMAIN h |-> Message!irMsgToMsg(h[j])]
           g == ContentText
<1>1. h \in Seq(VoicedSet) /\ h \in Seq(IRSet)
      /\ Sum(Voice, h) = Message!Texts(Message!Without("system", history))
  BY VoiceKept, Zenon
<1>2. ms = Message!Without("tool", c)
  BY Zenon DEF Message!NotTool, Message!EncodeMessagesRequest
<1> HIDE DEF h
<1>3. Len(h) \in Nat /\ DOMAIN h = 1..Len(h) /\ \A j \in 1..Len(h) : h[j] \in IRSet /\ h[j] \in VoicedSet
  BY <1>1
<1>4. ASSUME NEW m \in VoicedSet
      PROVE  /\ Message!irMsgToMsg(m) \in ContentSet /\ Message!irMsgToMsg(m).role = m.role
             /\ m.role # "tool" => Message!TextOf(Message!irMsgToMsg(m).content, "text") = Message!visibleText(m)
  <2> DEFINE v == Message!visibleText(m)
             b == Message!Block("text", v, "")
             a == IF v # <<>> /\ m.calls = <<>> /\ ~Message!HasType(m.content, "thinking")
                    THEN <<b>> ELSE m.content
  <2>1. m \in IRSet /\ Voiced(m)
    BY DEF VoicedSet
  <2>2. m.role \in Roles /\ m.content \in Seq(BlockSet) /\ v \in Phrase
    BY <2>1, VisibleType DEF IRSet
  <2>3. Message!irMsgToMsg(m) = [role |-> m.role, content |-> a]
    BY Zenon DEF Message!irMsgToMsg
  <2>4. b \in BlockSet /\ b.t = "text" /\ b.text = v
    <3>1. b \in BlockSet
      BY <2>2, BlockTypes, IdTypes
    <3> DEFINE z == ""
    <3>2. b = Message!Block("text", v, z)
      OBVIOUS
    <3> HIDE DEF z, v, b
    <3>. QED
      BY <3>1, <3>2 DEF Message!Block
  <2> HIDE DEF b
  <2>5. <<b>> \in Seq(BlockSet) /\ Message!TextOf(<<b>>, "text") = v
    <3>1. Message!TextOf(<<b>>, "text") = IF b.t = "text" THEN b.text ELSE <<>>
      BY <2>4, BlockText, Zenon
    <3>. QED
      BY <2>4, <3>1
  <2>6. ASSUME m.role # "tool", a = m.content
        PROVE  Message!TextOf(m.content, "text") = v
    <3>1. v = IF m.text # <<>> THEN m.text ELSE Message!TextOf(m.content, "text")
      BY Zenon DEF Message!visibleText
    <3>2. CASE v = <<>>
      BY <3>1, <3>2, Zenon
    <3>3. CASE v # <<>>
      <4>1. m.calls = <<>>
        BY <2>1, <2>6, <3>3, Zenon DEF Voiced
      <4>2. CASE Message!HasType(m.content, "thinking")
        <5>1. m.content # <<>>
          BY <4>2 DEF Message!HasType
        <5>2. Shown(m) = v
          BY <2>1, <2>6, Zenon DEF Voiced
        <5>. QED
          BY <5>1, <5>2, Zenon DEF Shown
      <4>3. CASE ~Message!HasType(m.content, "thinking")
        <5>1. a = <<b>>
          BY <3>3, <4>1, <4>3, Zenon
        <5>. QED
          BY <2>5, <2>6, <5>1, Zenon
      <4>. QED
        BY <4>2, <4>3
    <3>. QED
      BY <3>2, <3>3
  <2>7. a = <<b>> \/ a = m.content
    BY Zenon
  <2> HIDE DEF a, v
  <2>8. a \in Seq(BlockSet) /\ (m.role # "tool" => Message!TextOf(a, "text") = v)
    BY <2>2, <2>5, <2>6, <2>7, Zenon
  <2>9. Message!irMsgToMsg(m).role = m.role /\ Message!irMsgToMsg(m).content = a
        /\ Message!irMsgToMsg(m) \in ContentSet
    BY <2>2, <2>3, <2>8 DEF ContentSet
  <2>. QED
    BY <2>8, <2>9, Zenon DEF v
<1>5. c \in Seq(ContentSet) /\ Len(c) = Len(h)
      /\ \A j \in 1..Len(h) : c[j] = Message!irMsgToMsg(h[j])
  <2>1. \A j \in 1..Len(h) : Message!irMsgToMsg(h[j]) \in ContentSet
    BY <1>3, <1>4, Zenon
  <2>2. c \in [1..Len(h) -> ContentSet] /\ \A j \in 1..Len(h) : c[j] = Message!irMsgToMsg(h[j])
    BY <1>3, <2>1
  <2> HIDE DEF c
  <2>. QED
    BY <1>3, <2>2, FunctionSeq
<1> HIDE DEF c
<1>6. ASSUME NEW j \in 1..Len(c)
      PROVE  Voice[h[j]] = IF c[j].role = "tool" THEN <<>> ELSE g[c[j]]
  <2>1. j \in 1..Len(h)
    BY <1>5
  <2>2. c[j] \in ContentSet /\ c[j].role = h[j].role
        /\ (h[j].role # "tool" => Message!TextOf(c[j].content, "text") = Message!visibleText(h[j]))
    BY <1>3, <1>4, <1>5, <2>1, Zenon
  <2>3. g[c[j]] = Message!TextOf(c[j].content, "text")
    BY <2>2, Zenon DEF ContentText
  <2>4. Voice[h[j]] = IF h[j].role = "tool" THEN <<>> ELSE Message!visibleText(h[j])
    BY <1>3, <2>1, Zenon DEF Voice
  <2> HIDE DEF g
  <2>. QED
    BY <2>2, <2>3, <2>4, Zenon
<1>7. WithoutMatches("tool", g, c, Voice, h)
  BY <1>6, Zenon DEF WithoutMatches
<1>8. SameSum(g, Message!Without("tool", c), Voice, h)
  BY <1>1, <1>5, <1>7, FieldMeasures, WithoutSum, Zenon
<1>9. ms \in Seq(ContentSet)
  BY <1>2, <1>5, WithoutType
<1>10. Sum(g, ms) = Message!FlattenSeq([j \in DOMAIN ms |-> Message!TextOf(ms[j].content, "text")])
  <2>1. \A j \in DOMAIN ms : ms[j] \in ContentSet
    BY <1>9
  <2>2. Mapped(g, ms) = [j \in DOMAIN ms |-> Message!TextOf(ms[j].content, "text")]
    BY <2>1 DEF Mapped, ContentText
  <2>. QED
    BY <2>2, Zenon DEF Sum
<1>. QED
  BY <1>1, <1>2, <1>8, <1>10, Zenon DEF SameSum

LEMMA ItemEncoded ==
    ASSUME NEW m \in VoicedSet, Unmixed
    PROVE  /\ Message!irMsgToRespItem(m) \in EncodedSet
           /\ Voice[m] = IF Message!irMsgToRespItem(m).role = "tool" THEN <<>>
                         ELSE Message!irMsgToRespItem(m).text
<1> DEFINE v == Message!visibleText(m)
           think == Message!thinkingText(m)
           x == Message!irMsgToRespItem(m)
           e == <<>>
           first == <<Head(m.calls)>>
           o == <<m.callId>>
<1>1. m \in IRSet /\ Voiced(m)
  BY DEF VoicedSet
<1>2. /\ m.role \in Roles /\ m.content \in Seq(BlockSet) /\ v \in Phrase
      /\ m.calls \in Seq(Calls) /\ m.callId \in Ids
  BY <1>1, VisibleType DEF IRSet
<1>3. think \in Phrase /\ e \in Phrase
  <2>1. think \in Phrase
    BY <1>2, TextOfType DEF Message!thinkingText
  <2> HIDE DEF think
  <2>. QED
    BY <2>1 DEF Phrase
<1>4. Voice[m] = IF m.role = "tool" THEN <<>> ELSE v
  BY <1>1, Zenon DEF Voice
<1>5. Apart
  BY DEF Unmixed, Apart, Message!Mixed
<1>6. Message!IsTool(m) => v = <<>> \/ m.role = "tool"
  BY <1>1, <1>5, Zenon DEF Voiced
<1>7. m.calls # <<>> /\ m.role # "tool" => v = <<>>
  BY <1>1, Zenon DEF Voiced
<1>8. o \in Seq(Ids) /\ e \in Seq(Ids) /\ e \in Seq(Calls)
  BY <1>2
<1>9. m.calls # <<>> => first \in Seq(Calls)
  BY <1>2
<1>10. ~Message!IsTool(m) => m.role # "tool"
  BY Zenon DEF Message!IsTool
<1>11. CASE Message!IsTool(m)
  <2>1. x = Message!Wire("tool", e, v, e, o)
    BY <1>11, Zenon DEF Message!irMsgToRespItem
  <2> HIDE DEF v, think, x, e, first, o
  <2>2. x \in EncodedSet /\ x.role = "tool"
    BY <1>2, <1>3, <1>8, <2>1 DEF EncodedSet, Message!Wire, Roles
  <2>. QED
    BY <1>4, <1>6, <1>11, <2>2, Zenon DEF x
<1>12. CASE ~Message!IsTool(m) /\ m.calls # <<>>
  <2>1. x = Message!Wire("assistant", think, e, first, e)
    BY <1>12, Zenon DEF Message!irMsgToRespItem
  <2>0. "assistant" # "tool"
    OBVIOUS
  <2> HIDE DEF v, think, x, e, first, o
  <2>2. x \in EncodedSet /\ x.role = "assistant" /\ x.text = e
    BY <1>2, <1>3, <1>8, <1>9, <1>12, <2>1 DEF EncodedSet, Message!Wire, Roles
  <2>. QED
    BY <1>4, <1>7, <1>10, <1>12, <2>0, <2>2, Zenon DEF x, e
<1>13. CASE ~Message!IsTool(m) /\ ~(m.calls # <<>>)
  <2>1. x = Message!Wire(m.role, think, v, e, e)
    BY <1>13, Zenon DEF Message!irMsgToRespItem
  <2> HIDE DEF v, think, x, e, first, o
  <2>2. x \in EncodedSet /\ x.role = m.role /\ x.text = v
    BY <1>2, <1>3, <1>8, <2>1 DEF EncodedSet, Message!Wire
  <2>. QED
    BY <1>4, <2>2, Zenon DEF x
<1>. QED
  BY <1>11, <1>12, <1>13

LEMMA ResponsesTextKept ==
    ASSUME MessageInv, Unmixed
    PROVE  Message!Texts(Message!NotTool(Message!EncodeResponsesRequest(Message!decodeRequest(history))))
              = Message!Texts(Message!Without("system", history))
<1> DEFINE h == Message!Rest(Message!decodeRequest(history))
           c == [j \in DOMAIN h |-> Message!irMsgToRespItem(h[j])]
           ws == Message!Without("tool", c)
           g == TextField(EncodedSet)
<1>1. h \in Seq(VoicedSet) /\ h \in Seq(IRSet)
      /\ Sum(Voice, h) = Message!Texts(Message!Without("system", history))
  BY VoiceKept, Zenon
<1>2. Message!NotTool(Message!EncodeResponsesRequest(Message!decodeRequest(history))) = ws
  BY Zenon DEF Message!NotTool, Message!EncodeResponsesRequest
<1> HIDE DEF h
<1>3. Len(h) \in Nat /\ DOMAIN h = 1..Len(h) /\ \A j \in 1..Len(h) : h[j] \in VoicedSet
  BY <1>1
<1>4. c \in Seq(EncodedSet) /\ Len(c) = Len(h)
      /\ \A j \in 1..Len(h) : c[j] = Message!irMsgToRespItem(h[j])
  <2>1. \A j \in 1..Len(h) : Message!irMsgToRespItem(h[j]) \in EncodedSet
    BY <1>3, ItemEncoded, Zenon
  <2>2. c \in [1..Len(h) -> EncodedSet] /\ \A j \in 1..Len(h) : c[j] = Message!irMsgToRespItem(h[j])
    BY <1>3, <2>1
  <2> HIDE DEF c
  <2>. QED
    BY <1>3, <2>2, FunctionSeq
<1> HIDE DEF c
<1>5. ASSUME NEW j \in 1..Len(c)
      PROVE  Voice[h[j]] = IF c[j].role = "tool" THEN <<>> ELSE g[c[j]]
  <2>1. h[j] \in VoicedSet /\ c[j] = Message!irMsgToRespItem(h[j]) /\ c[j] \in EncodedSet
    BY <1>3, <1>4
  <2>2. g[c[j]] = c[j].text
    BY <2>1, Zenon DEF TextField
  <2>3. Voice[h[j]] = IF c[j].role = "tool" THEN <<>> ELSE c[j].text
    BY <2>1, ItemEncoded, Zenon
  <2>. QED
    BY <2>2, <2>3, Zenon
<1>6. WithoutMatches("tool", g, c, Voice, h)
  BY <1>5, Zenon DEF WithoutMatches
<1>7. Measure(g, EncodedSet, Payload)
  BY FieldMeasures, Zenon
<1>8. Message!Texts(ws) = Sum(g, ws)
  BY <1>4, WithoutType, TextsIsSum
<1> HIDE DEF g
<1>9. SameSum(g, ws, Voice, h)
  BY <1>1, <1>4, <1>6, <1>7, WithoutSum, Zenon
<1>. QED
  BY <1>1, <1>2, <1>8, <1>9, Zenon DEF SameSum

\* Instructions stay whole, except that those in parts do not reach a Messages
\* upstream.
LEMMA InstructionsKept ==
    ASSUME MessageInv, NEW to, to \in {"chat", "messages", "responses"},
           from # to, to = "messages" /\ from = "chat" => form = "string"
    PROVE  Message!Instructions(Message!decodeRequest(history), to)
              = Message!FlattenSeq([j \in DOMAIN history |->
                   IF history[j].role = "system" THEN history[j].text ELSE <<>>])
<1> DEFINE M == Message!decodeRequest(history)
           R == {"system"}
           text(m) == IF to = "messages" THEN m.text ELSE Message!visibleText(m)
           said == [j \in DOMAIN M |-> IF M[j].role = "system" THEN text(M[j]) ELSE <<>>]
           heard == [j \in DOMAIN history |-> IF history[j].role = "system" THEN history[j].text ELSE <<>>]
<1>1. M \in Seq(IRSet) /\ \A j \in 1..Len(M) :
         /\ M[j] \in IRSet
         /\ from # "messages" /\ (from = "chat" => form = "string") => M[j].text = Message!visibleText(M[j])
  BY DecodedVoices, Zenon
<1>2. Sum(Seen(R), M) = Sum(SaidBy(R), history)
  <2>1. "tool" \notin R
    OBVIOUS
  <2>. QED
    BY <2>1, DecodedTexts, Zenon
<1>3. Message!Instructions(M, to) = Message!FlattenSeq(said)
  BY Zenon DEF Message!Instructions
<1> HIDE DEF M
<1>4. DOMAIN M = 1..Len(M)
  BY <1>1
<1>5. ASSUME NEW j \in DOMAIN M
      PROVE  Seen(R)[M[j]] = IF M[j].role = "system" THEN text(M[j]) ELSE <<>>
  <2>1. M[j] \in IRSet /\ text(M[j]) = Message!visibleText(M[j])
    BY <1>1, <1>4, Zenon
  <2>2. M[j].role \in R <=> M[j].role = "system"
    OBVIOUS
  <2>3. Seen(R)[M[j]] = IF M[j].role \in R THEN Message!visibleText(M[j]) ELSE <<>>
    BY <2>1, Zenon DEF Seen
  <2> HIDE DEF text, R
  <2>. QED
    BY <2>1, <2>2, <2>3, Zenon
<1>6. Mapped(Seen(R), M) = said
  <2> HIDE DEF text, R
  <2>. QED
    BY <1>5 DEF Mapped
<1>7. Mapped(SaidBy(R), history) = heard
  <2>1. ASSUME NEW j \in DOMAIN history
        PROVE  SaidBy(R)[history[j]] = IF history[j].role = "system" THEN history[j].text ELSE <<>>
    <3>1. history[j] \in WireSet
      BY DEF MessageInv
    <3>. QED
      BY <3>1 DEF SaidBy
  <2> HIDE DEF R
  <2>. QED
    BY <2>1 DEF Mapped
<1>. QED
  BY <1>2, <1>3, <1>6, <1>7, Zenon DEF Sum, M

LEMMA TextIsKept ==
    ASSUME MessageInv PROVE TextKept
<1> DEFINE messages == Message!decodeRequest(history)
           spoken == Message!Texts(Message!Without("system", history))
           system == Message!FlattenSeq([j \in DOMAIN history |->
                        IF history[j].role = "system" THEN history[j].text ELSE <<>>])
           toMessages == Message!NotTool(Message!EncodeMessagesRequest(messages))
           blocks == Message!FlattenSeq([j \in DOMAIN toMessages |->
                        Message!TextOf(toMessages[j].content, "text")])
           quiet == \A j \in DOMAIN history : history[j].think = <<>>
           shadowed == from = "responses" /\ form = "string" /\ ~quiet
           unmixed == \A j \in DOMAIN history : ~Message!Mixed(history[j])
           apart == \A j \in DOMAIN history : history[j].text = <<>> \/ history[j].outs = <<>>
<1>1. TextKept <=>
        /\ \A to \in {"chat", "messages", "responses"} :
              from # to /\ (to = "messages" /\ from = "chat" => form = "string")
                  => Message!Instructions(messages, to) = system
        /\ from # "chat" /\ apart /\ ~shadowed
              => Message!Texts(Message!NotTool(Message!ChatRequest)) = spoken
        /\ from # "messages" /\ unmixed /\ ~shadowed => blocks = spoken
        /\ from # "responses" /\ unmixed
              => Message!Texts(Message!NotTool(Message!EncodeResponsesRequest(messages))) = spoken
  BY Zenon DEF TextKept, Message!TextKept
<1>2. (shadowed <=> Shadowed) /\ (unmixed <=> Unmixed) /\ (apart <=> Apart)
  <2>1. DOMAIN history = 1..Len(history)
    BY DEF MessageInv
  <2>. QED
    BY <2>1, Zenon DEF Shadowed, Unmixed, Apart, Thoughtless
<1>3. ASSUME NEW to \in {"chat", "messages", "responses"},
             from # to, to = "messages" /\ from = "chat" => form = "string"
      PROVE  Message!Instructions(messages, to) = system
  BY <1>3, InstructionsKept, Zenon
<1>4. apart /\ ~shadowed => Message!Texts(Message!NotTool(Message!ChatRequest)) = spoken
  BY <1>2, ChatTextKept, Zenon
<1>5. unmixed /\ ~shadowed => blocks = spoken
  BY <1>2, MessagesTextKept, Zenon
<1>6. unmixed => Message!Texts(Message!NotTool(Message!EncodeResponsesRequest(messages))) = spoken
  BY <1>2, ResponsesTextKept, Zenon
<1> HIDE DEF messages, spoken, system, blocks, shadowed, unmixed, apart
<1>. QED
  BY <1>1, <1>3, <1>4, <1>5, <1>6, Zenon

\* The visible text of a conversation reaches the upstream whole and in order,
\* and its instructions apart from it, with the exceptions TextKept names
\* (ConvertRequest in protocol/convert.go, and the request decoders and encoders
\* of chat.go, messages.go and responses.go).
THEOREM TextsAreKept == ConversionSpec => []TextKept
BY TextIsKept, MessageInvAlways, PTL

----------------------------------------------------------------------------
(* Reasoning is carried along once                                         *)

Muse == [m \in IRSet |-> Message!thinkingText(m)]
ThinkField(S) == [w \in S |-> w.think]

LEMMA ThinkMeasures ==
    /\ Measure(Muse, IRSet, Payload)
    /\ Measure(ThinkField(WireSet), WireSet, Payload)
    /\ Measure(ThinkField(EncodedSet), EncodedSet, Payload)
<1>1. \A w \in WireSet : w.think \in Seq(Payload)
  BY DEF WireSet, Phrase
<1>2. \A w \in EncodedSet : w.think \in Seq(Payload)
  BY DEF EncodedSet, Phrase
<1>3. ASSUME NEW m \in IRSet PROVE Message!thinkingText(m) \in Seq(Payload)
  <2>1. m.content \in Seq(BlockSet)
    BY DEF IRSet
  <2>. QED
    BY <2>1, TextOfType DEF Message!thinkingText, Phrase
<1>. QED
  BY <1>1, <1>2, <1>3 DEF Measure, Muse, ThinkField

LEMMA ThoughtsIsSum ==
    ASSUME NEW S, NEW ws \in Seq(S)
    PROVE  Message!Thoughts(ws) = Sum(ThinkField(S), ws)
<1>1. \A j \in DOMAIN ws : ws[j] \in S
  OBVIOUS
<1>2. [j \in DOMAIN ws |-> ws[j].think] = Mapped(ThinkField(S), ws)
  BY <1>1 DEF Mapped, ThinkField
<1>. QED
  BY <1>2, Zenon DEF Message!Thoughts, Sum

\* A sum in which an element gained v.
Gains(g, o, k, y, v) == Alike(Sum(g, [o EXCEPT ![k] = y]), Sum(g, o) \o v)

LEMMA SumMore ==
    ASSUME NEW S, NEW T, NEW g, Measure(g, S, T), NEW o \in Seq(S), NEW k \in 1..Len(o),
           NEW y \in S, NEW v \in Seq(T), Alike(g[y], g[o[k]] \o v)
    PROVE  Gains(g, o, k, y, v)
<1> DEFINE s == Mapped(g, o)
           u == g[y]
           x == [o EXCEPT ![k] = y]
<1>1. Maps(g, o, T)
  BY MapType, Zenon
<1>2. s \in Seq(Seq(T)) /\ Len(s) = Len(o) /\ s[k] = g[o[k]] /\ k \in 1..Len(s)
  BY <1>1, Zenon DEF Maps
<1>3. u \in Seq(T)
  BY DEF Measure
<1>4. Mapped(g, x) = [s EXCEPT ![k] = u]
  <2>1. DOMAIN o = 1..Len(o) /\ DOMAIN x = DOMAIN o /\ \A j \in DOMAIN o : x[j] = IF j = k THEN y ELSE o[j]
    OBVIOUS
  <2> HIDE DEF x, u
  <2>2. Mapped(g, x) = [j \in DOMAIN o |-> IF j = k THEN g[y] ELSE g[o[j]]]
    BY <2>1 DEF Mapped
  <2>3. [s EXCEPT ![k] = u] = [j \in DOMAIN o |-> IF j = k THEN u ELSE g[o[j]]]
    BY <2>1 DEF Mapped
  <2>. QED
    BY <2>2, <2>3, Zenon DEF u
<1> HIDE DEF s, u, x
<1>5. Alike(u, s[k] \o v)
  BY <1>2, Zenon DEF u
<1>6. Alike(Message!FlattenSeq([s EXCEPT ![k] = u]), Message!FlattenSeq(s) \o v)
  BY <1>2, <1>3, <1>5, FlattenMore
<1>. QED
  BY <1>4, <1>6, Zenon DEF Gains, Sum, s, x

LEMMA AlikeFacts ==
    ASSUME NEW T, NEW a \in Seq(T), NEW b \in Seq(T), NEW c \in Seq(T)
    PROVE  /\ Alike(a, a) /\ Alike((a \o c) \o b, (a \o b) \o c)
           /\ (a \o b) \o c = a \o (b \o c) /\ a \o b \in Seq(T)
<1>1. Alike(a, a) /\ Alike(b, b) /\ Alike(c, c)
  BY Zenon DEF Alike
<1>2. b \o c \in Seq(T) /\ c \o b \in Seq(T) /\ a \o b \in Seq(T)
  OBVIOUS
<1>3. (a \o b) \o c = a \o (b \o c) /\ (a \o c) \o b = a \o (c \o b)
  OBVIOUS
<1>4. Alike(c \o b, b \o c)
  BY <1>1, AlikeConcat
<1>5. Alike(a \o (c \o b), a \o (b \o c))
  BY <1>1, <1>2, <1>4, AlikeConcat
<1>. QED
  BY <1>1, <1>2, <1>3, <1>5, Zenon

LEMMA AlikeChain ==
    ASSUME NEW a, NEW b, NEW c, Alike(a, b), Alike(b, c) PROVE Alike(a, c)
  BY Zenon DEF Alike

\* The reasoning of the messages decoded so far, and what waits for a message.
Mused(r) == Sum(Muse, r.out) \o r.pending

LEMMA ItemAddsThought ==
    ASSUME NEW r \in Decodings, NEW w \in WireSet, Shaped(w), from = "responses",
           w.think # <<>> => ~Thoughtless, NEW x, DecodesTo(r, w, x)
    PROVE  Alike(Mused(x), Mused(r) \o w.think)
<1> DEFINE g == Muse
           m == Message!respItemToIR(w)
           t == Musing(m, r.pending)
           s == Sum(g, r.out)
           p == r.pending
           v == w.think
           e == <<>>
<1>1. r.out \in Seq(Item) /\ r.out \in Seq(IRSet) /\ p \in Phrase /\ v \in Phrase /\ e \in Phrase
      /\ (Thoughtless => p = e)
  <2>1. Item \subseteq IRSet
    BY DEF Item
  <2>2. r.out \in Seq(Item) /\ p \in Phrase /\ v \in Phrase /\ (Thoughtless => p = e)
    BY DEF Decodings, WireSet
  <2>3. e \in Phrase
    BY DEF Phrase
  <2>. QED
    BY <2>1, <2>2, <2>3
<1>2. Measure(g, IRSet, Payload)
  BY ThinkMeasures, Zenon
<1>3. s \in Phrase
  BY <1>1, <1>2, SumType, Zenon DEF Phrase
<1>4. w.think = e => m \in Item /\ m.role = w.role /\ Message!thinkingText(m) = e
  BY RespItemSays, Zenon
<1> HIDE DEF g, m, s, p, v, e
<1>5. s \o e = s /\ (s \o p) \o e = s \o p /\ e \o p = p
  BY <1>1, <1>3 DEF e, Phrase
<1>6. /\ Alike((s \o v) \o p, (s \o p) \o v) /\ s \o (p \o v) = (s \o p) \o v
      /\ s \o v \in Phrase /\ s \o p \in Phrase
      /\ Alike(s, s) /\ Alike(p, p) /\ Alike(s \o p, s \o p)
  <2>1. s \in Seq(Payload) /\ p \in Seq(Payload) /\ v \in Seq(Payload)
    BY <1>1, <1>3 DEF Phrase
  <2>2. Alike((s \o v) \o p, (s \o p) \o v) /\ (s \o p) \o v = s \o (p \o v)
    BY <2>1, AlikeFacts
  <2>3. s \o v \in Phrase /\ s \o p \in Phrase
    BY <2>1 DEF Phrase
  <2>. QED
    BY <2>2, <2>3, Zenon DEF Alike
<1>7. ASSUME NEW k \in 1..Len(r.out), r.out[k].role = "assistant", w.think # e,
             x = [out |-> [r.out EXCEPT ![k] = Musing(r.out[k], w.think)], pending |-> r.pending]
      PROVE  Alike(Mused(x), Mused(r) \o w.think)
  <2> DEFINE y == Musing(r.out[k], w.think)
  <2>1. r.out[k] \in Item
    BY <1>1
  <2>2. y \in Item /\ Alike(Message!thinkingText(y), Message!thinkingText(r.out[k]) \o w.think)
    BY <1>1, <1>7, <2>1, MusingType, Zenon DEF e, v
  <2>3. y \in IRSet /\ r.out[k] \in IRSet
    BY <2>1, <2>2 DEF Item
  <2>4. x.out = [r.out EXCEPT ![k] = y] /\ x.pending = r.pending
    BY <1>7
  <2> HIDE DEF y
  <2>5. Alike(g[y], g[r.out[k]] \o w.think)
    BY <2>2, <2>3, Zenon DEF g, Muse
  <2>6. w.think \in Seq(Payload)
    BY <1>1 DEF v, Phrase
  <2>7. Gains(g, r.out, k, y, w.think)
    BY <1>1, <1>2, <2>3, <2>5, <2>6, SumMore, Zenon
  <2>8. Alike(Sum(g, x.out), s \o v)
    BY <2>4, <2>7, Zenon DEF Gains, s, v
  <2>9. Alike(Sum(g, x.out) \o p, (s \o v) \o p)
    <3>1. [r.out EXCEPT ![k] = y] \in Seq(IRSet)
      BY <1>1, <2>3
    <3>2. Sum(g, x.out) \in Seq(Payload)
      BY <1>2, <2>4, <3>1, SumType, Zenon
    <3>3. s \o v \in Seq(Payload) /\ p \in Seq(Payload)
      BY <1>1, <1>6 DEF Phrase
    <3>. QED
      BY <1>6, <2>8, <3>2, <3>3, AlikeConcat, Zenon
  <2>. QED
    BY <1>6, <2>4, <2>9, AlikeChain, Zenon DEF Mused, g, s, p, v
<1>8. ASSUME x = [out |-> r.out, pending |-> r.pending \o w.think]
      PROVE  Alike(Mused(x), Mused(r) \o w.think)
  <2>1. x.out = r.out /\ x.pending = r.pending \o w.think
    BY <1>8
  <2>. QED
    BY <1>6, <2>1, Zenon DEF Mused, Alike, g, s, p, v
<1>9. ASSUME NEW a \in IRSet, x.out = Append(r.out, a) PROVE Sum(g, x.out) = s \o g[a]
  <2>1. AddsOne(g, r.out, a)
    BY <1>1, <1>2, SumAppend, Zenon
  <2>. QED
    BY <1>9, <2>1, Zenon DEF AddsOne, s
<1>10. ASSUME w.think = e, x = [out |-> Append(r.out, m), pending |-> r.pending]
       PROVE  Alike(Mused(x), Mused(r) \o w.think)
  <2>1. x.out = Append(r.out, m) /\ x.pending = r.pending
    BY <1>10
  <2>2. m \in IRSet
    BY <1>4, <1>10 DEF Item
  <2>3. g[m] = e
    BY <1>4, <1>10, <2>2, Zenon DEF g, Muse
  <2>. QED
    BY <1>5, <1>6, <1>9, <1>10, <2>1, <2>2, <2>3, Zenon DEF Mused, g, s, p
<1>11. ASSUME w.think = e, r.pending # e, w.role = "assistant",
              x = [out |-> Append(r.out, t), pending |-> e]
       PROVE  Alike(Mused(x), Mused(r) \o w.think)
  <2>1. x.out = Append(r.out, t) /\ x.pending = e
    BY <1>11
  <2>2. t \in Item /\ Alike(Message!thinkingText(t), e \o p)
    BY <1>1, <1>4, <1>11, MusingType, Zenon DEF p
  <2>3. t \in IRSet
    BY <2>2 DEF Item
  <2>4. Alike(g[t], p) /\ g[t] \in Phrase
    <3>1. g[t] = Message!thinkingText(t)
      BY <2>3, Zenon DEF g, Muse
    <3>2. g[t] \in Phrase
      BY <1>2, <2>3 DEF Measure, Phrase
    <3>. QED
      BY <1>5, <2>2, <3>1, <3>2, Zenon
  <2>5. Sum(g, x.out) = s \o g[t]
    BY <1>9, <2>1, <2>3, Zenon
  <2>6. Alike(s \o g[t], s \o p) /\ (s \o g[t]) \o e = s \o g[t]
    <3> DEFINE z == g[t]
    <3>1. s \in Seq(Payload) /\ p \in Seq(Payload) /\ z \in Seq(Payload)
      BY <1>1, <1>3, <2>4 DEF Phrase
    <3> HIDE DEF z
    <3>2. Alike(s \o z, s \o p)
      BY <1>6, <2>4, <3>1, AlikeConcat, Zenon DEF z
    <3>3. (s \o z) \o e = s \o z
      BY <3>1 DEF e
    <3>. QED
      BY <3>2, <3>3, Zenon DEF z
  <2>7. Mused(x) = s \o g[t] /\ Mused(r) \o w.think = s \o p
    BY <1>5, <1>11, <2>1, <2>5, <2>6, Zenon DEF Mused, g, s, p
  <2>. QED
    BY <2>6, <2>7, Zenon
<1>. QED
  BY <1>7, <1>8, <1>10, <1>11, Zenon DEF DecodesTo, Attaches, m, e

LEMMA JoinAddsThought ==
    ASSUME NEW o \in Seq(Item), NEW m \in Item, NEW x, Joins(o, m, x)
    PROVE  Alike(Sum(Muse, x), Sum(Muse, o) \o Muse[m])
<1> DEFINE g == Muse
           s == Sum(g, o)
<1>1. o \in Seq(IRSet) /\ m \in IRSet
  <2>1. Item \subseteq IRSet
    BY DEF Item
  <2>. QED
    BY <2>1
<1>2. Measure(g, IRSet, Payload)
  BY ThinkMeasures, Zenon
<1> HIDE DEF g
<1>3. CASE x = Append(o, m)
  <2>1. AddsOne(g, o, m)
    BY <1>1, <1>2, SumAppend, Zenon
  <2>. QED
    BY <1>3, <2>1, Zenon DEF AddsOne, Alike, g
<1>4. ASSUME o # <<>>, OnlyCalls(o[Len(o)]), OnlyCalls(m),
             x = [o EXCEPT ![Len(o)] = Joined(o[Len(o)], m)]
      PROVE  Alike(Sum(g, x), s \o g[m])
  <2> DEFINE k == Len(o)
             a == o[k]
             y == Joined(a, m)
  <2>1. k \in 1..Len(o) /\ a \in Item
    BY <1>4
  <2>2. y \in Item /\ Alike(Message!thinkingText(y), Message!thinkingText(a) \o Message!thinkingText(m))
    BY <1>4, <2>1, JoinedType, Zenon
  <2>3. y \in IRSet /\ a \in IRSet
    BY <2>1, <2>2 DEF Item
  <2>4. x = [o EXCEPT ![k] = y]
    BY <1>4
  <2>5. Alike(g[y], g[o[k]] \o g[m])
    <3> HIDE DEF y
    <3>. QED
      BY <1>1, <2>2, <2>3, Zenon DEF g, Muse
  <2>6. g[m] \in Seq(Payload)
    BY <1>1, <1>2 DEF Measure
  <2> HIDE DEF a, k, y
  <2>7. Gains(g, o, k, y, g[m])
    BY <1>1, <1>2, <2>1, <2>3, <2>5, <2>6, SumMore, Zenon
  <2>. QED
    BY <2>4, <2>7, Zenon DEF Gains
<1>. QED
  BY <1>3, <1>4, Zenon DEF Joins, g

\* A list that gains u, element by element, in some order.
Gathers(F, u, T) ==
    /\ F[0] = <<>>
    /\ \A j \in 0..Len(u) : F[j] \in Seq(T)
    /\ \A j \in 1..Len(u) : Alike(F[j], F[j - 1] \o u[j])

LEMMA GatheredAlike ==
    ASSUME NEW T, NEW u \in Seq(Seq(T)), NEW F, Gathers(F, u, T)
    PROVE  Alike(F[Len(u)], Message!FlattenSeq(u))
<1> DEFINE n == Len(u)
           S == {x \in Seq(T) \X Seq(T) : Alike(x[1], x[2])}
<1>1. PICK H : /\ H[0] = <<>>
               /\ \A j \in 1..n : H[j] = H[j - 1] \o u[j]
               /\ \A j \in 0..n : H[j] \in Seq(T)
               /\ Message!FlattenSeq(u) = H[n]
  BY FlattenIsFold
<1>2. n \in Nat /\ \A j \in 1..n : u[j] \in Seq(T)
  OBVIOUS
<1> DEFINE G == [j \in 0..n |-> <<F[j], H[j]>>]
<1>3. ASSUME NEW j \in 0..n PROVE G[j] \in S <=> Alike(F[j], H[j])
  <2>1. F[j] \in Seq(T) /\ H[j] \in Seq(T)
    BY <1>1 DEF Gathers
  <2> DEFINE a == F[j]
             b == H[j]
  <2>2. G[j] = <<a, b>>
    OBVIOUS
  <2> HIDE DEF G, a, b
  <2>3. <<a, b>> \in S <=> Alike(a, b)
    BY <2>1 DEF a, b
  <2>. QED
    BY <2>2, <2>3 DEF a, b
<1>4. G[0] \in S
  <2>1. Alike(F[0], H[0])
    BY <1>1, Zenon DEF Gathers, Alike
  <2>2. 0 \in 0..n
    BY <1>2
  <2>. QED
    BY <1>3, <2>1, <2>2, Zenon
<1>5. ASSUME NEW j \in 1..n, G[j - 1] \in S PROVE G[j] \in S
  <2>1. j \in 0..n /\ j - 1 \in 0..n
    BY <1>2
  <2>2. Alike(F[j - 1], H[j - 1])
    BY <1>3, <1>5, <2>1, Zenon
  <2> DEFINE a == F[j - 1]
             b == H[j - 1]
             v == u[j]
  <2>3. a \in Seq(T) /\ b \in Seq(T) /\ v \in Seq(T)
    BY <1>1, <1>2, <2>1 DEF Gathers
  <2>4. Alike(F[j], a \o v) /\ H[j] = b \o v
    BY <1>1, Zenon DEF Gathers
  <2>5. Alike(v, v)
    BY Zenon DEF Alike
  <2> HIDE DEF a, b, v, G, S
  <2>6. Alike(a \o v, b \o v)
    BY <2>2, <2>3, <2>5, AlikeConcat, Zenon DEF a, b
  <2>7. Alike(F[j], H[j])
    BY <2>4, <2>6, AlikeChain, Zenon
  <2>. QED
    BY <1>3, <2>1, <2>7, Zenon
<1>6. \A j \in 1..n : G[j - 1] \in S => G[j] \in S
  BY <1>5
<1> HIDE DEF G, S
<1>7. \A j \in 0..n : G[j] \in S
  BY <1>2, <1>4, <1>6, RecursionHolds, Zenon
<1>8. n \in 0..n
  BY <1>2
<1>. QED
  BY <1>1, <1>3, <1>7, <1>8, Zenon

\* The messages of a Responses client carry the reasoning of its items.
LEMMA ResponsesThoughts ==
    ASSUME Sendable, from = "responses"
    PROVE  Alike(Sum(Muse, Message!decodeRequest(history)), Message!Thoughts(history))
<1> DEFINE g == Muse
           h == ThinkField(WireSet)
           n == Len(history)
           u == Mapped(h, history)
<1>1. PICK f, ms, c : Decoding(f, ms, c)
  BY ResponsesDecoded, Zenon
<1>2. DecodingSteps(f) /\ ms \in Seq(Item) /\ JoiningSteps(c, ms)
      /\ Message!decodeRequest(history) = c[Len(ms)]
  BY <1>1, Zenon DEF Decoding
<1>3. n \in Nat /\ Len(ms) \in Nat /\ history \in Seq(WireSet)
      /\ \A j \in 1..n : history[j] \in WireSet /\ Shaped(history[j])
  BY <1>2 DEF Sendable
<1>4. Measure(g, IRSet, Payload) /\ Measure(h, WireSet, Payload)
  BY ThinkMeasures, Zenon
<1>5. ms \in Seq(IRSet) /\ \A j \in 1..Len(ms) : ms[j] \in Item
  <2>1. Item \subseteq IRSet
    BY DEF Item
  <2>. QED
    BY <1>2, <2>1
<1>6. u \in Seq(Seq(Payload)) /\ Len(u) = n /\ \A j \in 1..n : u[j] = history[j].think
  <2>1. Maps(h, history, Payload)
    BY <1>3, <1>4, MapType, Zenon
  <2>2. \A w \in WireSet : h[w] = w.think
    BY DEF ThinkField
  <2> HIDE DEF h, u
  <2>3. u \in Seq(Seq(Payload)) /\ Len(u) = n /\ \A j \in 1..n : u[j] = h[history[j]]
    BY <2>1, Zenon DEF Maps, u
  <2>. QED
    BY <1>3, <2>2, <2>3, Zenon
<1>7. Message!Thoughts(history) = Message!FlattenSeq(u)
  BY <1>3, ThoughtsIsSum, Zenon DEF Sum
<1> HIDE DEF g, h, n, u
<1>8. ASSUME NEW r \in Decodings
      PROVE  /\ r.out \in Seq(IRSet) /\ r.pending \in Seq(Payload)
             /\ Sum(g, r.out) \in Seq(Payload) /\ Mused(r) \in Seq(Payload)
  <2>1. Item \subseteq IRSet
    BY DEF Item
  <2>2. r.out \in Seq(Item) /\ r.pending \in Phrase
    BY DEF Decodings
  <2>3. r.out \in Seq(IRSet) /\ r.pending \in Seq(Payload)
    BY <2>1, <2>2 DEF Phrase
  <2>4. Sum(g, r.out) \in Seq(Payload)
    BY <1>4, <2>3, SumType, Zenon
  <2> DEFINE s == Sum(g, r.out)
             p == r.pending
  <2>5. Mused(r) = s \o p
    BY Zenon DEF Mused, g
  <2> HIDE DEF s, p
  <2>6. s \o p \in Seq(Payload)
    BY <2>3, <2>4 DEF s, p
  <2>. QED
    BY <2>3, <2>4, <2>5, <2>6, Zenon
<1>9. Alike(Mused(f[n]), Message!FlattenSeq(u))
  <2> DEFINE F == [j \in 0..n |-> Mused(f[j])]
  <2>1. F[0] = <<>>
    <3>1. f[0].out = <<>> /\ f[0].pending = <<>>
      BY <1>2, Zenon DEF DecodingSteps
    <3>2. Sum(g, <<>>) = <<>>
      BY SumNone, Zenon
    <3>3. <<>> \o <<>> = <<>>
      OBVIOUS
    <3>4. F[0] = Mused(f[0])
      BY <1>3
    <3>. QED
      BY <3>1, <3>2, <3>3, <3>4, Zenon DEF Mused, g
  <2>2. \A j \in 0..n : F[j] \in Seq(Payload)
    <3>1. \A j \in 0..n : f[j] \in Decodings
      BY <1>2, Zenon DEF DecodingSteps, n
    <3>2. \A j \in 0..n : Mused(f[j]) \in Seq(Payload)
      BY <1>8, <3>1, Zenon
    <3>. QED
      BY <3>2
  <2>3. ASSUME NEW j \in 1..n PROVE Alike(F[j], F[j - 1] \o u[j])
    <3>1. j \in 0..n /\ j - 1 \in 0..n
      BY <1>3
    <3>2. f[j - 1] \in Decodings /\ DecodesTo(f[j - 1], history[j], f[j])
      BY <1>2, <3>1, Zenon DEF DecodingSteps, n
    <3>3. history[j].think # <<>> => ~Thoughtless
      BY DEF Thoughtless, n
    <3>4. Alike(Mused(f[j]), Mused(f[j - 1]) \o history[j].think)
      BY <1>3, <3>2, <3>3, ItemAddsThought, Zenon
    <3>5. F[j] = Mused(f[j]) /\ F[j - 1] = Mused(f[j - 1])
      BY <3>1
    <3> HIDE DEF F
    <3>. QED
      BY <1>6, <3>4, <3>5, Zenon
  <2>4. F[n] = Mused(f[n])
    BY <1>3
  <2> HIDE DEF F
  <2>5. Gathers(F, u, Payload)
    BY <1>6, <2>1, <2>2, <2>3, Zenon DEF Gathers
  <2>6. Alike(F[Len(u)], Message!FlattenSeq(u))
    BY <1>6, <2>5, GatheredAlike, Zenon
  <2>. QED
    BY <1>6, <2>4, <2>6, Zenon
<1>10. Sum(g, ms) = Mused(f[n])
  <2> DEFINE r == f[n]
             y == Late(r.pending)
  <2>1. \/ r.pending = <<>> /\ ms = r.out
        \/ ~Thoughtless /\ ms = Append(r.out, y)
    BY <1>1, Zenon DEF Decoding, n
  <2>2. r \in Decodings
    <3>1. n \in 0..n
      BY <1>3
    <3>. QED
      BY <1>2, <3>1, Zenon DEF DecodingSteps, n
  <2> HIDE DEF r
  <2>3. r.out \in Seq(IRSet) /\ r.pending \in Seq(Payload) /\ Sum(g, r.out) \in Seq(Payload)
    BY <1>8, <2>2, Zenon
  <2>4. ASSUME ~Thoughtless, ms = Append(r.out, y) PROVE Sum(g, ms) = Mused(r)
    <3>1. y \in Item /\ Message!thinkingText(y) = r.pending
      BY <2>3, <2>4, LateType, Zenon DEF Phrase
    <3>2. y \in IRSet
      BY <3>1 DEF Item
    <3> HIDE DEF y
    <3>3. g[y] = r.pending
      BY <3>1, <3>2, Zenon DEF g, Muse
    <3>4. AddsOne(g, r.out, y)
      BY <1>4, <2>3, <3>2, SumAppend, Zenon
    <3>. QED
      BY <2>4, <3>3, <3>4, Zenon DEF AddsOne, Mused, g
  <2>5. ASSUME r.pending = <<>>, ms = r.out PROVE Sum(g, ms) = Mused(r)
    <3>1. Sum(g, r.out) \o <<>> = Sum(g, r.out)
      BY <2>3
    <3>. QED
      BY <2>5, <3>1, Zenon DEF Mused, g
  <2>. QED
    BY <2>1, <2>4, <2>5, Zenon DEF r
<1>11. Alike(Sum(g, c[Len(ms)]), Sum(g, ms))
  <2> DEFINE k == Len(ms)
             v == Mapped(g, ms)
             F == [j \in 0..k |-> Sum(g, c[j])]
  <2>1. v \in Seq(Seq(Payload)) /\ Len(v) = k /\ \A j \in 1..k : v[j] = g[ms[j]]
    <3>1. Maps(g, ms, Payload)
      BY <1>4, <1>5, MapType, Zenon
    <3>. QED
      BY <3>1, Zenon DEF Maps
  <2>2. F[0] = <<>>
    <3>1. c[0] = <<>>
      BY <1>2, Zenon DEF JoiningSteps
    <3>. QED
      BY <1>3, <3>1, SumNone
  <2>3. \A j \in 0..k : F[j] \in Seq(Payload)
    <3>1. ASSUME NEW j \in 0..k PROVE Sum(g, c[j]) \in Seq(Payload)
      <4>1. c[j] \in Seq(Item)
        BY <1>2, Zenon DEF JoiningSteps
      <4>2. Item \subseteq IRSet
        BY DEF Item
      <4>3. c[j] \in Seq(IRSet)
        BY <4>1, <4>2
      <4>. QED
        BY <1>4, <4>3, SumType, Zenon
    <3>. QED
      BY <3>1
  <2>4. ASSUME NEW j \in 1..k PROVE Alike(F[j], F[j - 1] \o v[j])
    <3>1. j \in 0..k /\ j - 1 \in 0..k
      BY <1>3
    <3>2. c[j - 1] \in Seq(Item) /\ Joins(c[j - 1], ms[j], c[j])
      BY <1>2, <3>1, Zenon DEF JoiningSteps
    <3>3. Alike(Sum(g, c[j]), Sum(g, c[j - 1]) \o g[ms[j]])
      BY <1>5, <3>2, JoinAddsThought, Zenon DEF g
    <3>4. F[j] = Sum(g, c[j]) /\ F[j - 1] = Sum(g, c[j - 1])
      BY <3>1
    <3> HIDE DEF F, v
    <3>. QED
      BY <2>1, <3>3, <3>4, Zenon
  <2>5. F[k] = Sum(g, c[k])
    BY <1>3
  <2> HIDE DEF F, v, k
  <2>6. Gathers(F, v, Payload)
    BY <2>1, <2>2, <2>3, <2>4, Zenon DEF Gathers
  <2>7. Alike(F[Len(v)], Message!FlattenSeq(v))
    BY <2>1, <2>6, GatheredAlike, Zenon
  <2>. QED
    BY <2>1, <2>5, <2>7, Zenon DEF Sum, k, v
<1>. QED
  BY <1>2, <1>7, <1>9, <1>10, <1>11, AlikeChain, Zenon DEF g

\* Instructions and tool outputs come without reasoning.
Mute(m) == m.role = "system" \/ Message!IsTool(m) => Message!thinkingText(m) = <<>>
MuteSet == {m \in IRSet : Mute(m)}

LEMMA MessagesThinks ==
    ASSUME NEW w \in WireSet, Shaped(w), from = "messages"
    PROVE  /\ Message!msgMsgToIR(w) \in MuteSet
           /\ Message!thinkingText(Message!msgMsgToIR(w)) = w.think
<1> DEFINE m == Message!msgMsgToIR(w)
<1>1. /\ m \in IRSet /\ m.role = w.role
      /\ m.callId = IF w.outs = <<>> THEN "" ELSE Message!Last(w.outs).id
      /\ Message!thinkingText(m) = w.think
  BY MsgMsgSays, MsgMsgType, Zenon DEF Heard, Message!thinkingText
<1>2. w.role \in {"user", "assistant"} /\ (w.role # "assistant" => w.think = <<>>)
      /\ (w.role = "assistant" => w.outs = <<>>)
  BY DEF Shaped
<1>3. w.role # "tool" /\ w.role # "system"
  BY <1>2
<1> HIDE DEF m
<1>4. Message!IsTool(m) => w.outs # <<>>
  BY <1>1, <1>3, Zenon DEF Message!IsTool
<1>5. Mute(m)
  BY <1>1, <1>2, <1>3, <1>4, Zenon DEF Mute
<1>6. m \in MuteSet
  BY <1>1, <1>5 DEF MuteSet
<1>. QED
  BY <1>1, <1>6, Zenon DEF m

LEMMA DecodedThoughts ==
    ASSUME MessageInv, from # "chat"
    PROVE  /\ Message!decodeRequest(history) \in Seq(MuteSet)
           /\ Alike(Sum(Muse, Message!decodeRequest(history)), Message!Thoughts(history))
<1> DEFINE M == Message!decodeRequest(history)
<1>1. CASE from = "responses"
  <2>0. "tool" \notin Speakers
    BY DEF Speakers
  <2>1. M \in Seq(Item)
    BY <1>1, <2>0, ResponsesTexts, Zenon DEF MessageInv, Sendable
  <2>2. ASSUME NEW m \in Item PROVE m \in MuteSet
    <3>1. m \in IRSet /\ ItemForm(m) /\ (Message!IsTool(m) <=> m.role = "tool")
      BY ItemFacts, Zenon
    <3>2. m.role # "assistant" => Message!TextOf(m.content, "thinking") = <<>>
      BY <3>1, Zenon DEF ItemForm
    <3>3. "system" # "assistant" /\ "tool" # "assistant"
      OBVIOUS
    <3>4. Mute(m)
      BY <3>1, <3>2, <3>3, Zenon DEF Mute, Message!thinkingText
    <3>. QED
      BY <3>1, <3>4 DEF MuteSet
  <2>3. Item \subseteq MuteSet
    BY <2>2, Zenon
  <2> HIDE DEF M
  <2>4. M \in Seq(MuteSet)
    BY <2>1, <2>3
  <2>. QED
    BY <1>1, <2>4, ResponsesThoughts, Zenon DEF MessageInv, Sendable, M
<1>2. CASE from # "responses"
  <2>1. from = "messages"
    BY <1>2 DEF MessageInv
  <2>2. /\ history \in Seq(WireSet) /\ Len(history) \in Nat /\ DOMAIN history = 1..Len(history)
        /\ \A j \in 1..Len(history) : history[j] \in WireSet /\ Shaped(history[j])
    BY DEF MessageInv
  <2>3. M = [j \in DOMAIN history |-> Message!msgMsgToIR(history[j])]
    BY <2>1 DEF Message!decodeRequest, Message!DecodeMessagesRequest
  <2> HIDE DEF M
  <2>4. ASSUME NEW j \in 1..Len(history)
        PROVE  M[j] \in MuteSet /\ Message!thinkingText(M[j]) = history[j].think
    <3>1. M[j] = Message!msgMsgToIR(history[j])
      BY <2>2, <2>3
    <3>. QED
      BY <2>1, <2>2, <3>1, MessagesThinks, Zenon
  <2>5. M \in [1..Len(history) -> MuteSet]
    BY <2>2, <2>3, <2>4
  <2>6. M \in Seq(MuteSet) /\ Len(M) = Len(history)
    BY <2>2, <2>5, FunctionSeq
  <2>7. ASSUME NEW j \in 1..Len(M) PROVE Muse[M[j]] = ThinkField(WireSet)[history[j]]
    <3>1. M[j] \in IRSet /\ history[j] \in WireSet /\ Message!thinkingText(M[j]) = history[j].think
      BY <2>2, <2>4, <2>6 DEF MuteSet
    <3>. QED
      BY <3>1, Zenon DEF Muse, ThinkField
  <2>8. Matches(Muse, M, ThinkField(WireSet), history)
    BY <2>7, Zenon DEF Matches
  <2>9. SameSum(Muse, M, ThinkField(WireSet), history)
    BY <2>2, <2>6, <2>8, SumMatches, Zenon
  <2>10. Message!Thoughts(history) = Sum(ThinkField(WireSet), history)
    BY <2>2, ThoughtsIsSum, Zenon
  <2>. QED
    BY <2>6, <2>9, <2>10, Zenon DEF SameSum, Alike, M
<1>. QED
  BY <1>1, <1>2

LEMMA ThoughtCarried ==
    ASSUME NEW m \in MuteSet PROVE Carries(Muse, Muse, m)
<1>1. m \in IRSet /\ Mute(m)
  BY DEF MuteSet
<1>2. Muse[m] = Message!thinkingText(m)
  BY <1>1, Zenon DEF Muse
<1>3. ASSUME NEW x \in IRSet, x.content = m.content PROVE Muse[x] = Muse[m]
  BY <1>2, <1>3, Zenon DEF Muse, Message!thinkingText
<1>4. CASE Message!IsTool(m)
  <2>1. Muse[m] = <<>>
    BY <1>1, <1>2, <1>4, Zenon DEF Mute
  <2>2. ASSUME NEW call \in Calls PROVE Muse[Result(m, call)] = <<>>
    <3>1. Result(m, call) \in IRSet /\ Result(m, call).content = m.content
      BY <1>1, ResultType
    <3>. QED
      BY <1>3, <2>1, <3>1, Zenon
  <2>. QED
    BY <1>4, <2>1, <2>2, Zenon DEF Carries
<1>5. CASE ~Message!IsTool(m)
  BY <1>2, <1>3, <1>5, Zenon DEF Carries
<1>. QED
  BY <1>4, <1>5

LEMMA ThinkingIsKept ==
    ASSUME MessageInv PROVE Message!ThinkingKept
<1> DEFINE M == Message!decodeRequest(history)
           ms == Message!Rest(M)
           h == Message!normalizeChatHistory(ms)
           c == Message!ChatRequest
           g == ThinkField(EncodedSet)
<1>1. SUFFICES ASSUME from # "chat" PROVE Alike(Message!Thoughts(c), Message!Thoughts(history))
  BY Zenon DEF Message!ThinkingKept, Alike
<1>2. M \in Seq(MuteSet) /\ Alike(Sum(Muse, M), Message!Thoughts(history))
  BY <1>1, DecodedThoughts, Zenon
<1>3. c = [j \in DOMAIN h |-> Message!irMsgToChat(h[j])]
  BY Zenon DEF Message!ChatRequest, Message!EncodeChatRequest
<1> HIDE DEF M
<1>4. M \in Seq(IRSet) /\ ms \in Seq(MuteSet) /\ ms \in Seq(IRSet)
  <2>1. MuteSet \subseteq IRSet
    BY DEF MuteSet
  <2>2. ms \in Seq(MuteSet)
    BY <1>2, WithoutType, Zenon DEF Message!Rest
  <2> HIDE DEF ms
  <2>. QED
    BY <1>2, <2>1, <2>2
<1>5. SameSum(Muse, ms, Muse, M)
  <2>1. ASSUME NEW j \in 1..Len(M)
        PROVE  Muse[M[j]] = IF M[j].role = "system" THEN <<>> ELSE Muse[M[j]]
    <3>1. M[j] \in IRSet /\ Mute(M[j])
      BY <1>2 DEF MuteSet
    <3>2. Muse[M[j]] = Message!thinkingText(M[j])
      BY <3>1, Zenon DEF Muse
    <3>. QED
      BY <3>1, <3>2, Zenon DEF Mute
  <2>2. WithoutMatches("system", Muse, M, Muse, M)
    BY <2>1, Zenon DEF WithoutMatches
  <2>3. SameSum(Muse, Message!Without("system", M), Muse, M)
    BY <1>4, <2>2, ThinkMeasures, WithoutSum, Zenon
  <2>. QED
    BY <2>3, Zenon DEF Message!Rest
<1> HIDE DEF ms
<1>6. SameSum(Muse, h, Muse, ms)
  <2>1. \A j \in 1..Len(ms) : ms[j] \in MuteSet
    BY <1>4
  <2>2. CarriesAll(Muse, Muse, ms)
    BY <2>1, ThoughtCarried, Zenon DEF CarriesAll
  <2>. QED
    BY <1>4, <2>2, ThinkMeasures, NormalSum, Zenon
<1>7. /\ h \in Seq(IRSet) /\ c \in Seq(EncodedSet) /\ Len(c) = Len(h)
      /\ \A j \in 1..Len(c) : h[j] \in IRSet /\ c[j] = Message!irMsgToChat(h[j]) /\ c[j] \in EncodedSet
  BY <1>3, <1>4, ChatRequestIs, Zenon
<1> HIDE DEF h, c
<1>8. ASSUME NEW j \in 1..Len(c) PROVE g[c[j]] = Muse[h[j]]
  <2>1. c[j].think = Message!thinkingText(h[j])
    BY <1>7, ChatEncoded, Zenon
  <2>. QED
    BY <1>7, <2>1, Zenon DEF ThinkField, Muse
<1>9. Message!Thoughts(c) = Sum(g, c)
  BY <1>7, ThoughtsIsSum, Zenon
<1>10. Matches(g, c, Muse, h)
  BY <1>8, Zenon DEF Matches
<1>11. SameSum(g, c, Muse, h)
  BY <1>7, <1>10, SumMatches, Zenon
<1>. QED
  BY <1>2, <1>5, <1>6, <1>9, <1>11, Zenon DEF SameSum

----------------------------------------------------------------------------
(* The outputs of a Responses client reach a Chat upstream                 *)

\* A message that makes a call, and one that brings its output.
Makes(m, call) == \E k \in 1..Len(m.calls) : m.calls[k] = call
Brings(m, call) == Message!IsTool(m) /\ m.callId = call

\* Messages without an output of the call, those that make it before one, and
\* those whose first output of it says text.
Unanswered(s, call) == \A j \in 1..Len(s) : ~Brings(s[j], call)
Called(s, call) == Unanswered(s, call) /\ \E j \in 1..Len(s) : Makes(s[j], call)
Serves(s, call, text, a) ==
    /\ a \in 1..Len(s) /\ Brings(s[a], call) /\ s[a].text = text
    /\ \E j \in 1..(a - 1) : Makes(s[j], call)
    /\ \A j \in 1..(a - 1) : ~Brings(s[j], call)
Served(s, call, text) == \E a : Serves(s, call, text, a)

\* One more message: appended, or made part of what the assistant said, or left
\* out.
Places(s, m, call, x) ==
    \/ \E y \in Item : /\ x = Append(s, y)
                       /\ y.role = m.role /\ y.callId = m.callId /\ y.text = m.text /\ y.calls = m.calls
    \/ /\ ~Brings(m, call)
       /\ \E k \in 1..Len(s), y \in Item :
             /\ s[k].role = "assistant" /\ y.role = "assistant" /\ x = [s EXCEPT ![k] = y]
             /\ Makes(s[k], call) \/ Makes(m, call) => Makes(y, call)
    \/ x = s /\ ~Brings(m, call) /\ ~Makes(m, call)

LEMMA AssistantBrings ==
    ASSUME NEW y \in Item, y.role = "assistant", NEW call PROVE ~Brings(y, call)
<1>1. Message!IsTool(y) <=> y.role = "tool"
  BY ItemFacts, Zenon
<1>2. "assistant" # "tool"
  OBVIOUS
<1>. QED
  BY <1>1, <1>2, Zenon DEF Brings

LEMMA AlikeBrings ==
    ASSUME NEW m \in Item, NEW y \in Item, NEW call,
           y.role = m.role, y.callId = m.callId, y.calls = m.calls
    PROVE  (Brings(y, call) <=> Brings(m, call)) /\ (Makes(y, call) <=> Makes(m, call))
  BY Zenon DEF Brings, Makes, Message!IsTool

\* What becomes of the messages, element by element, and where the new one is.
StaysAs(s, call, x) ==
    \A j \in 1..Len(s) : \/ x[j] = s[j]
                         \/ /\ s[j].role = "assistant" /\ x[j].role = "assistant"
                            /\ Makes(s[j], call) => Makes(x[j], call)
EndsWith(s, m, call, x) ==
    \/ /\ Len(x) = Len(s) + 1 /\ x[Len(s) + 1].text = m.text
       /\ Brings(x[Len(s) + 1], call) <=> Brings(m, call)
       /\ Makes(x[Len(s) + 1], call) <=> Makes(m, call)
    \/ /\ Len(x) = Len(s) /\ ~Brings(m, call)
       /\ Makes(m, call) => \E j \in 1..Len(x) : Makes(x[j], call)

LEMMA PlacesIs ==
    ASSUME NEW s \in Seq(Item), NEW m \in Item, NEW call, NEW x, Places(s, m, call, x)
    PROVE  /\ x \in Seq(Item) /\ Len(x) >= Len(s)
           /\ StaysAs(s, call, x) /\ EndsWith(s, m, call, x)
<1>1. ASSUME NEW y \in Item, x = Append(s, y),
             y.role = m.role, y.callId = m.callId, y.text = m.text, y.calls = m.calls
      PROVE  /\ x \in Seq(Item) /\ Len(x) = Len(s) + 1
             /\ \A j \in 1..Len(s) : x[j] = s[j]
             /\ x[Len(s) + 1].text = m.text
             /\ Brings(x[Len(s) + 1], call) <=> Brings(m, call)
             /\ Makes(x[Len(s) + 1], call) <=> Makes(m, call)
  <2>1. x \in Seq(Item) /\ Len(x) = Len(s) + 1 /\ (\A j \in 1..Len(s) : x[j] = s[j]) /\ x[Len(s) + 1] = y
    BY <1>1
  <2>2. (Brings(y, call) <=> Brings(m, call)) /\ (Makes(y, call) <=> Makes(m, call))
    BY <1>1, AlikeBrings, Zenon
  <2>. QED
    BY <1>1, <2>1, <2>2, Zenon
<1>2. ASSUME NEW k \in 1..Len(s), NEW y \in Item, s[k].role = "assistant", y.role = "assistant",
             x = [s EXCEPT ![k] = y], Makes(s[k], call) \/ Makes(m, call) => Makes(y, call)
      PROVE  /\ x \in Seq(Item) /\ Len(x) = Len(s)
             /\ \A j \in 1..Len(s) : \/ x[j] = s[j]
                                     \/ /\ s[j].role = "assistant" /\ x[j].role = "assistant"
                                        /\ Makes(s[j], call) => Makes(x[j], call)
             /\ Makes(m, call) => \E j \in 1..Len(x) : Makes(x[j], call)
  <2>1. x \in Seq(Item) /\ Len(x) = Len(s) /\ k \in 1..Len(x)
        /\ (\A j \in 1..Len(s) : x[j] = IF j = k THEN y ELSE s[j])
    BY <1>2
  <2>2. x[k] = y
    BY <2>1
  <2>3. ASSUME NEW j \in 1..Len(s), j # k PROVE x[j] = s[j]
    BY <2>1, <2>3
  <2>. QED
    BY <1>2, <2>1, <2>2, <2>3, Zenon
<1>3. Len(s) + 1 >= Len(s) /\ Len(s) >= Len(s)
  OBVIOUS
<1>. QED
  BY <1>1, <1>2, <1>3, Zenon DEF Places, StaysAs, EndsWith

LEMMA PlacesUnanswered ==
    ASSUME NEW s \in Seq(Item), NEW m \in Item, NEW call, NEW x, Places(s, m, call, x),
           Unanswered(s, call), ~Brings(m, call)
    PROVE  Unanswered(x, call) /\ (Called(s, call) \/ Makes(m, call) => Called(x, call))
<1>1. /\ x \in Seq(Item) /\ Len(x) >= Len(s) /\ Len(s) \in Nat /\ Len(x) \in Nat
      /\ \A j \in 1..Len(s) : \/ x[j] = s[j]
                              \/ /\ s[j].role = "assistant" /\ x[j].role = "assistant"
                                 /\ Makes(s[j], call) => Makes(x[j], call)
      /\ \/ /\ Len(x) = Len(s) + 1
            /\ Brings(x[Len(s) + 1], call) <=> Brings(m, call)
            /\ Makes(x[Len(s) + 1], call) <=> Makes(m, call)
         \/ /\ Len(x) = Len(s)
            /\ Makes(m, call) => \E j \in 1..Len(x) : Makes(x[j], call)
  <2>1. x \in Seq(Item)
    BY PlacesIs, Zenon
  <2>2. Len(s) \in Nat /\ Len(x) \in Nat
    BY <2>1
  <2>3. StaysAs(s, call, x) /\ EndsWith(s, m, call, x)
    BY PlacesIs, Zenon
  <2>4. Len(x) >= Len(s)
    BY PlacesIs, Zenon
  <2>5. \A j \in 1..Len(s) : \/ x[j] = s[j]
                             \/ /\ s[j].role = "assistant" /\ x[j].role = "assistant"
                                /\ Makes(s[j], call) => Makes(x[j], call)
    BY <2>3, Zenon DEF StaysAs
  <2>6. \/ /\ Len(x) = Len(s) + 1
           /\ Brings(x[Len(s) + 1], call) <=> Brings(m, call)
           /\ Makes(x[Len(s) + 1], call) <=> Makes(m, call)
        \/ /\ Len(x) = Len(s)
           /\ Makes(m, call) => \E j \in 1..Len(x) : Makes(x[j], call)
    BY <2>3, Zenon DEF EndsWith
  <2>. QED
    BY <2>1, <2>2, <2>4, <2>5, <2>6, Zenon
<1>2. \A j \in 1..Len(x) : x[j] \in Item
  BY <1>1
<1>3. ASSUME NEW j \in 1..Len(s) PROVE ~Brings(x[j], call) /\ (Makes(s[j], call) => Makes(x[j], call))
  <2>1. j \in 1..Len(x)
    BY <1>1
  <2>. QED
    BY <1>1, <1>2, <2>1, AssistantBrings, Zenon DEF Unanswered
<1>4. \A j \in 1..Len(x) : j \in 1..Len(s) \/ (Len(x) = Len(s) + 1 /\ j = Len(s) + 1)
  BY <1>1
<1>5. Unanswered(x, call)
  BY <1>1, <1>3, <1>4, Zenon DEF Unanswered
<1>6. ASSUME NEW j \in 1..Len(s), Makes(s[j], call) PROVE Called(x, call)
  <2>1. j \in 1..Len(x)
    BY <1>1
  <2>. QED
    BY <1>3, <1>5, <1>6, <2>1, Zenon DEF Called
<1>7. ASSUME Makes(m, call) PROVE Called(x, call)
  <2>1. Len(x) = Len(s) + 1 => Len(s) + 1 \in 1..Len(x)
    BY <1>1
  <2>. QED
    BY <1>1, <1>5, <1>7, <2>1, Zenon DEF Called
<1>. QED
  BY <1>5, <1>6, <1>7, Zenon DEF Called

LEMMA PlacesOutput ==
    ASSUME NEW s \in Seq(Item), NEW m \in Item, NEW call, NEW x, Places(s, m, call, x),
           Called(s, call), Brings(m, call)
    PROVE  Served(x, call, m.text)
<1> DEFINE a == Len(s) + 1
<1>1. /\ x \in Seq(Item) /\ Len(x) = a /\ x[a].text = m.text /\ Brings(x[a], call)
      /\ \A j \in 1..Len(s) : \/ x[j] = s[j]
                              \/ /\ s[j].role = "assistant" /\ x[j].role = "assistant"
                                 /\ Makes(s[j], call) => Makes(x[j], call)
  <2>1. x \in Seq(Item) /\ StaysAs(s, call, x) /\ EndsWith(s, m, call, x)
    BY PlacesIs, Zenon
  <2>2. \A j \in 1..Len(s) : \/ x[j] = s[j]
                             \/ /\ s[j].role = "assistant" /\ x[j].role = "assistant"
                                /\ Makes(s[j], call) => Makes(x[j], call)
    BY <2>1, Zenon DEF StaysAs
  <2>3. Len(x) = a /\ x[a].text = m.text /\ Brings(x[a], call)
    BY <2>1, Zenon DEF EndsWith, a
  <2>. QED
    BY <2>1, <2>2, <2>3, Zenon
<1>2. a \in 1..Len(x) /\ a - 1 = Len(s) /\ \A j \in 1..Len(s) : x[j] \in Item
  BY <1>1
<1> HIDE DEF a
<1>3. ASSUME NEW j \in 1..Len(s) PROVE ~Brings(x[j], call) /\ (Makes(s[j], call) => Makes(x[j], call))
  BY <1>1, <1>2, AssistantBrings, Zenon DEF Called, Unanswered
<1>4. \E j \in 1..Len(s) : Makes(s[j], call)
  BY Zenon DEF Called
<1>5. Serves(x, call, m.text, a)
  BY <1>1, <1>2, <1>3, <1>4, Zenon DEF Serves
<1>. QED
  BY <1>5, Zenon DEF Served

LEMMA PlacesServed ==
    ASSUME NEW s \in Seq(Item), NEW m \in Item, NEW call, NEW x, Places(s, m, call, x),
           NEW text, Served(s, call, text)
    PROVE  Served(x, call, text)
<1>1. PICK a : Serves(s, call, text, a)
  BY Zenon DEF Served
<1>2. /\ x \in Seq(Item) /\ Len(x) >= Len(s)
      /\ \A j \in 1..Len(s) : \/ x[j] = s[j]
                              \/ /\ s[j].role = "assistant" /\ x[j].role = "assistant"
                                 /\ Makes(s[j], call) => Makes(x[j], call)
  BY PlacesIs, Zenon DEF StaysAs
<1>3. /\ a \in 1..Len(s) /\ Brings(s[a], call) /\ s[a].text = text
      /\ \E j \in 1..(a - 1) : Makes(s[j], call)
      /\ \A j \in 1..(a - 1) : ~Brings(s[j], call)
  BY <1>1, Zenon DEF Serves
<1>4. a \in 1..Len(x) /\ (\A j \in 1..(a - 1) : j \in 1..Len(s)) /\ \A j \in 1..Len(s) : x[j] \in Item /\ s[j] \in Item
  <2>1. Len(x) \in Nat /\ Len(s) \in Nat
    BY <1>2
  <2>. QED
    BY <1>2, <1>3, <2>1
<1>5. x[a] = s[a]
  <2>1. s[a].role = "assistant" => ~Brings(s[a], call)
    BY <1>3, <1>4, AssistantBrings, Zenon
  <2>. QED
    BY <1>2, <1>3, <2>1, Zenon
<1>6. ASSUME NEW j \in 1..(a - 1) PROVE ~Brings(x[j], call) /\ (Makes(s[j], call) => Makes(x[j], call))
  BY <1>2, <1>3, <1>4, AssistantBrings, Zenon
<1>7. Serves(x, call, text, a)
  BY <1>3, <1>4, <1>5, <1>6, Zenon DEF Serves
<1>. QED
  BY <1>7, Zenon DEF Served

\* F holds what each message made of the list.
PlacingSteps(F, ms, call) ==
    /\ F[0] = <<>>
    /\ \A j \in 0..Len(ms) : F[j] \in Seq(Item)
    /\ \A j \in 1..Len(ms) : Places(F[j - 1], ms[j], call, F[j])

\* What the list holds before the call, before its first output, and after that.
Phase(s, j, i, p, call, text) ==
    /\ j < p => Unanswered(s, call)
    /\ i <= j /\ j < p => Called(s, call)
    /\ p <= j => Served(s, call, text)

\* The list serves a call that the messages serve.
LEMMA PlacingServes ==
    ASSUME NEW ms \in Seq(Item), NEW call, NEW text, Served(ms, call, text),
           NEW F, PlacingSteps(F, ms, call)
    PROVE  Served(F[Len(ms)], call, text)
<1> DEFINE n == Len(ms)
           g == [j \in 0..n |-> j]
<1>1. n \in Nat /\ (\A j \in 1..n : j - 1 \in 0..n /\ j \in 0..n /\ ms[j] \in Item) /\ n \in 0..n /\ 0 \in 0..n
  OBVIOUS
<1>2. PICK p : Serves(ms, call, text, p)
  BY Zenon DEF Served
<1>3. /\ p \in 1..n /\ Brings(ms[p], call) /\ ms[p].text = text
      /\ \A j \in 1..(p - 1) : ~Brings(ms[j], call)
  BY <1>2, Zenon DEF Serves
<1>4. PICK i \in 1..(p - 1) : Makes(ms[i], call)
  BY <1>2, Zenon DEF Serves
<1> DEFINE S == {j \in 0..n : Phase(F[j], j, i, p, call, text)}
<1>5. g[0] \in S
  <2>1. Unanswered(<<>>, call)
    BY DEF Unanswered
  <2>2. ~(i <= 0) /\ ~(p <= 0)
    BY <1>3, <1>4
  <2>3. F[0] = <<>>
    BY Zenon DEF PlacingSteps
  <2>4. Phase(F[0], 0, i, p, call, text)
    BY <2>1, <2>2, <2>3, Zenon DEF Phase
  <2>. QED
    BY <1>1, <2>4
<1>6. ASSUME NEW j \in 1..n, g[j - 1] \in S PROVE g[j] \in S
  <2>1. Phase(F[j - 1], j - 1, i, p, call, text)
    BY <1>1, <1>6
  <2>2. F[j - 1] \in Seq(Item) /\ Places(F[j - 1], ms[j], call, F[j]) /\ ms[j] \in Item
    BY <1>1, Zenon DEF PlacingSteps
  <2>3. ASSUME j < p PROVE Unanswered(F[j], call) /\ (i <= j => Called(F[j], call))
    <3>1. j - 1 < p /\ j \in 1..(p - 1) /\ (i <= j => i = j \/ i <= j - 1)
      BY <1>3, <1>4, <2>3
    <3>2. ~Brings(ms[j], call)
      BY <1>3, <3>1, Zenon
    <3>3. Unanswered(F[j - 1], call) /\ (i <= j - 1 => Called(F[j - 1], call))
      BY <2>1, <3>1, Zenon DEF Phase
    <3>4. Unanswered(F[j], call) /\ (Called(F[j - 1], call) \/ Makes(ms[j], call) => Called(F[j], call))
      BY <2>2, <3>2, <3>3, PlacesUnanswered, Zenon
    <3>. QED
      BY <1>4, <3>1, <3>3, <3>4, Zenon
  <2>4. ASSUME p <= j PROVE Served(F[j], call, text)
    <3>1. j = p \/ p <= j - 1
      BY <1>3, <2>4
    <3>2. CASE j = p
      <4>1. i <= j - 1 /\ j - 1 < p
        BY <1>3, <1>4, <3>2
      <4>2. Called(F[j - 1], call)
        BY <2>1, <4>1, Zenon DEF Phase
      <4>. QED
        BY <1>3, <2>2, <3>2, <4>2, PlacesOutput, Zenon
    <3>3. CASE p <= j - 1
      <4>1. Served(F[j - 1], call, text)
        BY <2>1, <3>3, Zenon DEF Phase
      <4>. QED
        BY <2>2, <4>1, PlacesServed, Zenon
    <3>. QED
      BY <3>1, <3>2, <3>3, Zenon
  <2>5. Phase(F[j], j, i, p, call, text)
    BY <2>3, <2>4, Zenon DEF Phase
  <2>. QED
    BY <1>1, <2>5
<1>7. \A j \in 0..n : g[j] \in S
  <2>1. \A j \in 1..n : g[j - 1] \in S => g[j] \in S
    BY <1>6, Zenon
  <2> HIDE DEF g, S, n
  <2>. QED
    BY <1>1, <1>5, <2>1, RecursionHolds
<1>8. Phase(F[n], n, i, p, call, text) /\ p <= n
  BY <1>1, <1>3, <1>7
<1>. QED
  BY <1>8, Zenon DEF Phase

\* The message that an item is.
ItemOf(w) == IF w.think = <<>> THEN Message!respItemToIR(w) ELSE Late(w.think)

LEMMA ItemOfType ==
    ASSUME NEW w \in WireSet, Shaped(w), from = "responses", w.think # <<>> => ~Thoughtless
    PROVE  /\ ItemOf(w) \in Item
           /\ w.think = <<>> => /\ ItemOf(w).role = w.role /\ ItemOf(w).text = ChatSaid(w)
                                /\ ItemOf(w).calls = Message!ValidCalls(w.calls)
                                /\ ItemOf(w).callId = IF w.outs = <<>> THEN "" ELSE w.outs[1].id
           /\ w.think # <<>> => ItemOf(w).role = "assistant" /\ ItemOf(w).calls = <<>>
<1>1. CASE w.think = <<>>
  <2>1. ItemOf(w) = Message!respItemToIR(w)
    BY <1>1, Zenon DEF ItemOf
  <2>. QED
    BY <1>1, <2>1, RespItemSays, Zenon
<1>2. CASE w.think # <<>>
  <2>1. ItemOf(w) = Late(w.think) /\ w.think \in Phrase
    BY <1>2, Zenon DEF ItemOf, WireSet
  <2>. QED
    BY <1>2, <2>1, LateType, Zenon
<1>. QED
  BY <1>1, <1>2, Zenon

LEMMA NoCallsMade ==
    ASSUME NEW m, m.calls = <<>>, NEW call PROVE ~Makes(m, call)
  BY DEF Makes

LEMMA ItemPlaces ==
    ASSUME NEW r \in Decodings, NEW w \in WireSet, Shaped(w), from = "responses",
           w.think # <<>> => ~Thoughtless, NEW x, DecodesTo(r, w, x), NEW call
    PROVE  Places(r.out, ItemOf(w), call, x.out)
<1>1. r.out \in Seq(Item) /\ r.pending \in Phrase /\ (Thoughtless => r.pending = <<>>)
  BY Zenon DEF Decodings
<1>2. CASE w.think # <<>> /\ Attaches(r, w.think, x)
  <2>1. w.think \in Phrase
    BY Zenon DEF WireSet
  <2>2. ~Brings(ItemOf(w), call) /\ ~Makes(ItemOf(w), call)
    BY <1>2, ItemOfType, AssistantBrings, NoCallsMade, Zenon
  <2>3. ASSUME NEW k \in 1..Len(r.out), r.out[k].role = "assistant",
               x = [out |-> [r.out EXCEPT ![k] = Musing(r.out[k], w.think)], pending |-> r.pending]
        PROVE  Places(r.out, ItemOf(w), call, x.out)
    <3>1. r.out[k] \in Item
      BY <1>1
    <3>2. /\ Musing(r.out[k], w.think) \in Item /\ Musing(r.out[k], w.think).calls = r.out[k].calls
          /\ Musing(r.out[k], w.think).role = r.out[k].role
      BY <1>2, <2>1, <2>3, <3>1, MusingType, Zenon DEF Sounds
    <3>3. Makes(r.out[k], call) => Makes(Musing(r.out[k], w.think), call)
      BY <3>2, Zenon DEF Makes
    <3>4. x.out = [r.out EXCEPT ![k] = Musing(r.out[k], w.think)]
      BY <2>3, Zenon
    <3>. QED
      BY <2>2, <2>3, <3>2, <3>3, <3>4, Zenon DEF Places
  <2>4. CASE x = [out |-> r.out, pending |-> r.pending \o w.think]
    <3>1. x.out = r.out
      BY <2>4, Zenon
    <3>. QED
      BY <2>2, <3>1, Zenon DEF Places
  <2>. QED
    BY <1>2, <2>3, <2>4, Zenon DEF Attaches
<1>3. CASE w.think = <<>> /\ x = [out |-> Append(r.out, Message!respItemToIR(w)), pending |-> r.pending]
  <2>1. x.out = Append(r.out, ItemOf(w)) /\ ItemOf(w) \in Item
    BY <1>3, ItemOfType, Zenon DEF ItemOf
  <2>. QED
    BY <2>1, Zenon DEF Places
<1>4. CASE /\ w.think = <<>> /\ r.pending # <<>> /\ w.role = "assistant"
           /\ x = [out |-> Append(r.out, Musing(Message!respItemToIR(w), r.pending)), pending |-> <<>>]
  <2>1. x.out = Append(r.out, Musing(ItemOf(w), r.pending)) /\ ItemOf(w) \in Item /\ ItemOf(w).role = "assistant"
    BY <1>4, ItemOfType, Zenon DEF ItemOf
  <2>2. /\ Musing(ItemOf(w), r.pending) \in Item /\ Musing(ItemOf(w), r.pending).calls = ItemOf(w).calls
        /\ Sounds(Musing(ItemOf(w), r.pending), ItemOf(w))
    BY <1>1, <1>4, <2>1, MusingType, Zenon
  <2>. QED
    BY <2>1, <2>2, Zenon DEF Places, Sounds
<1>. QED
  BY <1>2, <1>3, <1>4, Zenon DEF DecodesTo

LEMMA JoinPlaces ==
    ASSUME NEW o \in Seq(Item), NEW m \in Item, NEW x, Joins(o, m, x), NEW call
    PROVE  Places(o, m, call, x)
<1>1. CASE x = Append(o, m)
  BY <1>1, Zenon DEF Places
<1>2. CASE /\ o # <<>> /\ OnlyCalls(o[Len(o)]) /\ OnlyCalls(m)
           /\ x = [o EXCEPT ![Len(o)] = Joined(o[Len(o)], m)]
  <2>1. Len(o) \in 1..Len(o) /\ o[Len(o)] \in Item
    BY <1>2
  <2>2. ASSUME NEW n \in Item, OnlyCalls(n)
        PROVE  n.role = "assistant" /\ n.calls \in Seq(Calls)
    <3>1. n \in IRSet /\ ItemForm(n)
      BY ItemFacts, Zenon
    <3>. QED
      BY <2>2, <3>1, Zenon DEF IRSet, ItemForm, OnlyCalls
  <2> DEFINE l == o[Len(o)]
             y == Joined(l, m)
  <2> HIDE DEF y, l
  <2>3. l \in Item /\ OnlyCalls(l) /\ l.role = "assistant" /\ l.calls \in Seq(Calls)
        /\ m.role = "assistant" /\ m.calls \in Seq(Calls)
    BY <1>2, <2>1, <2>2, Zenon DEF l
  <2>4. y \in Item /\ y.calls = l.calls \o m.calls /\ y.role = "assistant"
    BY <1>2, <2>3, JoinedType, Zenon DEF y, Sounds
  <2>5. Makes(l, call) \/ Makes(m, call) => Makes(y, call)
    <3> DEFINE p == l.calls
               q == m.calls
               z == y.calls
    <3>1. p \in Seq(Calls) /\ q \in Seq(Calls) /\ z = p \o q
      BY <2>3, <2>4, Zenon
    <3> HIDE DEF p, q, z
    <3>2. /\ \A k \in 1..Len(p) : k \in 1..Len(z) /\ z[k] = p[k]
          /\ \A k \in 1..Len(q) : k + Len(p) \in 1..Len(z) /\ z[k + Len(p)] = q[k]
      BY <3>1
    <3>3. (\E k \in 1..Len(p) : p[k] = call) \/ (\E k \in 1..Len(q) : q[k] = call)
             => \E k \in 1..Len(z) : z[k] = call
      BY <3>2, Zenon
    <3>. QED
      BY <3>3, Zenon DEF Makes, p, q, z
  <2>6. ~Brings(m, call)
    BY <2>3, AssistantBrings, Zenon
  <2>7. x = [o EXCEPT ![Len(o)] = y] /\ o[Len(o)].role = "assistant" /\ (Makes(o[Len(o)], call) \/ Makes(m, call) => Makes(y, call))
    BY <1>2, <2>3, <2>5, Zenon DEF l, y
  <2>. QED
    BY <2>1, <2>4, <2>6, <2>7, Zenon DEF Places
<1>. QED
  BY <1>1, <1>2, Zenon DEF Joins

\* The messages that the items of the history are.
AllItems == [j \in 1..Len(history) |-> ItemOf(history[j])]

LEMMA AllItemsType ==
    ASSUME Sendable, from = "responses"
    PROVE  /\ AllItems \in Seq(Item) /\ Len(AllItems) = Len(history) /\ Len(history) \in Nat
           /\ \A j \in 1..Len(history) :
                 /\ history[j] \in WireSet /\ Shaped(history[j]) /\ (history[j].think # <<>> => ~Thoughtless)
                 /\ AllItems[j] = ItemOf(history[j]) /\ AllItems[j] \in Item
<1>1. Len(history) \in Nat /\ \A j \in 1..Len(history) : history[j] \in WireSet
  BY DEF Sendable
<1>2. ASSUME NEW j \in 1..Len(history)
      PROVE  /\ history[j] \in WireSet /\ Shaped(history[j]) /\ (history[j].think # <<>> => ~Thoughtless)
             /\ AllItems[j] = ItemOf(history[j])
  BY <1>1, <1>2, Zenon DEF Sendable, Thoughtless, AllItems
<1>3. \A j \in 1..Len(history) : AllItems[j] \in Item
  BY <1>2, ItemOfType, Zenon
<1>4. AllItems \in [1..Len(history) -> Item]
  BY <1>2, ItemOfType, Zenon DEF AllItems
<1>5. AllItems \in Seq(Item) /\ Len(AllItems) = Len(history)
  BY <1>1, <1>4, FunctionSeq, Zenon
<1>. QED
  BY <1>1, <1>2, <1>3, <1>5, Zenon

\* A call that the items serve, the messages decoded from them do.
LEMMA DecodedServes ==
    ASSUME Sendable, from = "responses", NEW call, NEW text, Served(AllItems, call, text)
    PROVE  /\ Message!decodeRequest(history) \in Seq(Item)
           /\ Served(Message!decodeRequest(history), call, text)
<1>1. PICK f, ms, c : Decoding(f, ms, c)
  BY ResponsesDecoded, Zenon
<1> DEFINE n == Len(history)
           F == [j \in 0..n |-> f[j].out]
<1>2. /\ DecodingSteps(f) /\ ms \in Seq(Item) /\ JoiningSteps(c, ms)
      /\ \/ f[n].pending = <<>> /\ ms = f[n].out
         \/ /\ f[n].pending # <<>> /\ ~Thoughtless
            /\ ms = Append(f[n].out, Late(f[n].pending))
      /\ Message!decodeRequest(history) = c[Len(ms)]
  BY <1>1, Zenon DEF Decoding
<1>3. /\ f[0].out = <<>> /\ (\A j \in 0..n : f[j] \in Decodings)
      /\ \A j \in 1..n : DecodesTo(f[j - 1], history[j], f[j])
  BY <1>2, Zenon DEF DecodingSteps
<1>4. n \in Nat /\ 0 \in 0..n /\ n \in 0..n /\ (\A j \in 1..n : j \in 0..n /\ j - 1 \in 0..n)
  BY AllItemsType
<1>5. \A j \in 0..n : f[j].out \in Seq(Item) /\ f[j].pending \in Phrase
  BY <1>3, Zenon DEF Decodings
<1>6. PlacingSteps(F, AllItems, call)
  <2>1. Len(AllItems) = n
    BY AllItemsType, Zenon
  <2>2. F[0] = <<>>
    BY <1>3, <1>4, Zenon
  <2>3. \A j \in 0..n : F[j] = f[j].out /\ F[j] \in Seq(Item)
    BY <1>5, Zenon
  <2>4. ASSUME NEW j \in 1..n PROVE Places(F[j - 1], AllItems[j], call, F[j])
    <3>1. /\ history[j] \in WireSet /\ Shaped(history[j]) /\ (history[j].think # <<>> => ~Thoughtless)
          /\ AllItems[j] = ItemOf(history[j])
      BY AllItemsType, Zenon
    <3>2. f[j - 1] \in Decodings /\ DecodesTo(f[j - 1], history[j], f[j])
          /\ F[j - 1] = f[j - 1].out /\ F[j] = f[j].out
      BY <1>3, <1>4, <2>3, Zenon
    <3> HIDE DEF F
    <3>. QED
      BY <3>1, <3>2, ItemPlaces, Zenon
  <2> HIDE DEF F
  <2>. QED
    BY <2>1, <2>2, <2>3, <2>4, Zenon DEF PlacingSteps
<1>7. Served(f[n].out, call, text)
  <2>1. AllItems \in Seq(Item) /\ Len(AllItems) = n
    BY AllItemsType, Zenon
  <2>2. F[n] = f[n].out
    BY <1>4, Zenon
  <2> HIDE DEF F
  <2>. QED
    BY <1>6, <2>1, <2>2, PlacingServes, Zenon
<1>8. Served(ms, call, text)
  <2>1. CASE f[n].pending # <<>> /\ ~Thoughtless /\ ms = Append(f[n].out, Late(f[n].pending))
    <3>1. Late(f[n].pending) \in Item
      BY <1>4, <1>5, <2>1, LateType, Zenon
    <3>2. Places(f[n].out, Late(f[n].pending), call, ms)
      BY <2>1, <3>1, Zenon DEF Places
    <3>. QED
      BY <1>4, <1>5, <1>7, <3>1, <3>2, PlacesServed, Zenon
  <2>. QED
    BY <1>2, <1>7, <2>1, Zenon
<1>9. PlacingSteps(c, ms, call)
  <2>1. c[0] = <<>> /\ (\A j \in 0..Len(ms) : c[j] \in Seq(Item))
        /\ \A j \in 1..Len(ms) : Joins(c[j - 1], ms[j], c[j])
    BY <1>2, Zenon DEF JoiningSteps
  <2>2. \A j \in 1..Len(ms) : ms[j] \in Item /\ j - 1 \in 0..Len(ms)
    BY <1>2
  <2>3. \A j \in 1..Len(ms) : Places(c[j - 1], ms[j], call, c[j])
    BY <2>1, <2>2, JoinPlaces, Zenon
  <2>. QED
    BY <2>1, <2>3, Zenon DEF PlacingSteps
<1>10. Served(c[Len(ms)], call, text)
  BY <1>2, <1>8, <1>9, PlacingServes, Zenon
<1>11. Message!decodeRequest(history) \in Seq(Item)
  <2>1. "tool" \notin {}
    OBVIOUS
  <2>. QED
    BY <2>1, ResponsesTexts, Zenon
<1>. QED
  BY <1>2, <1>10, <1>11, Zenon

\* Leaving instructions out leaves calls and outputs.
LEMMA RestServes ==
    ASSUME NEW ms \in Seq(Item), NEW call, NEW text, Served(ms, call, text)
    PROVE  Message!Rest(ms) \in Seq(Item) /\ Served(Message!Rest(ms), call, text)
<1> DEFINE u == Mapped(Unless("system", Item), ms)
<1>1. Message!Rest(ms) \in Seq(Item)
  BY WithoutType, Zenon DEF Message!Rest
<1>2. Message!Rest(ms) = Message!FlattenSeq(u)
  BY WithoutIsSum, Zenon DEF Message!Rest, Sum
<1>3. Maps(Unless("system", Item), ms, Item)
  BY UnlessMeasure, MapType, Zenon
<1>4. /\ u \in Seq(Seq(Item)) /\ Len(u) = Len(ms)
      /\ \A j \in 1..Len(ms) : u[j] = Unless("system", Item)[ms[j]]
  BY <1>3, Zenon DEF Maps
<1> HIDE DEF u
<1>5. PICK F : /\ F[0] = <<>>
               /\ \A j \in 1..Len(u) : F[j] = F[j - 1] \o u[j]
               /\ \A j \in 0..Len(u) : F[j] \in Seq(Item)
               /\ Message!FlattenSeq(u) = F[Len(u)]
  BY <1>4, FlattenIsFold, Zenon
<1>6. \A j \in 1..Len(ms) : ms[j] \in Item /\ j - 1 \in 0..Len(ms) /\ j \in 0..Len(ms)
  OBVIOUS
<1>7. ASSUME NEW j \in 1..Len(ms) PROVE Places(F[j - 1], ms[j], call, F[j])
  <2>1. /\ F[j - 1] \in Seq(Item) /\ ms[j] \in Item /\ F[j] = F[j - 1] \o u[j]
        /\ u[j] = IF ms[j].role = "system" THEN <<>> ELSE <<ms[j]>>
    BY <1>4, <1>5, <1>6, Zenon DEF Unless
  <2>2. CASE ms[j].role = "system"
    <3>1. F[j] = F[j - 1] \o <<>>
      BY <2>1, <2>2, Zenon
    <3>2. F[j] = F[j - 1]
      BY <2>1, <3>1, NoneLeft, Zenon
    <3>3. ms[j].calls = <<>> /\ ~Message!IsTool(ms[j])
      <4>1. "system" # "assistant" /\ "system" # "tool"
        OBVIOUS
      <4>. QED
        BY <2>1, <2>2, <4>1, ItemFacts, Zenon DEF ItemForm
    <3>4. ~Makes(ms[j], call) /\ ~Brings(ms[j], call)
      BY <3>3, NoCallsMade, Zenon DEF Brings
    <3>. QED
      BY <3>2, <3>4, Zenon DEF Places
  <2>3. CASE ms[j].role # "system"
    <3>1. F[j] = F[j - 1] \o <<ms[j]>>
      BY <2>1, <2>3, Zenon
    <3>2. F[j] = Append(F[j - 1], ms[j])
      <4> DEFINE a == F[j - 1]
                 b == ms[j]
      <4>1. a \in Seq(Item) /\ b \in Item
        BY <2>1, Zenon
      <4> HIDE DEF a, b
      <4>2. a \o <<b>> = Append(a, b)
        BY <4>1
      <4>. QED
        BY <3>1, <4>2, Zenon DEF a, b
    <3>. QED
      BY <2>1, <3>2, Zenon DEF Places
  <2>. QED
    BY <2>2, <2>3, Zenon
<1>8. PlacingSteps(F, ms, call)
  BY <1>4, <1>5, <1>7, Zenon DEF PlacingSteps
<1>9. Served(F[Len(ms)], call, text)
  BY <1>8, PlacingServes, Zenon
<1>. QED
  BY <1>1, <1>2, <1>4, <1>5, <1>9, Zenon

\* Has(o, x): x is among o.
Has(o, x) == \E k \in 1..Len(o) : o[k] = x

LEMMA HasConcat ==
    ASSUME NEW T, NEW o \in Seq(T), NEW s \in Seq(T), NEW x, Has(o, x) \/ Has(s, x)
    PROVE  Has(o \o s, x)
<1>1. /\ \A k \in 1..Len(o) : k \in 1..Len(o \o s) /\ (o \o s)[k] = o[k]
      /\ \A k \in 1..Len(s) : k + Len(o) \in 1..Len(o \o s) /\ (o \o s)[k + Len(o)] = s[k]
  OBVIOUS
<1>. QED
  BY <1>1, Zenon DEF Has

LEMMA HasAppend ==
    ASSUME NEW T, NEW o \in Seq(T), NEW y \in T, NEW x, Has(o, x) \/ x = y
    PROVE  Has(Append(o, y), x)
<1>1. /\ \A k \in 1..Len(o) : k \in 1..Len(Append(o, y)) /\ Append(o, y)[k] = o[k]
      /\ Len(o) + 1 \in 1..Len(Append(o, y)) /\ Append(o, y)[Len(o) + 1] = y
  OBVIOUS
<1>. QED
  BY <1>1, Zenon DEF Has

\* A valid call stays among the calls.
LEMMA ValidHas ==
    ASSUME NEW q \in Seq(Calls), NEW call \in Valid, Has(q, call)
    PROVE  Has(Message!ValidCalls(q), call)
<1>1. PICK k \in 1..Len(q) : q[k] = call
  BY Zenon DEF Has
<1>2. call \in Calls
  BY DEF Valid
<1> DEFINE a == SubSeq(q, 1, k - 1)
           b == SubSeq(q, k + 1, Len(q))
<1>3. a \in Seq(Calls) /\ b \in Seq(Calls) /\ [q EXCEPT ![k] = call] = (a \o <<call>>) \o b
  BY <1>2, SplitAt, Zenon
<1>4. [q EXCEPT ![k] = call] = q
  BY <1>1
<1> HIDE DEF a, b
<1>5. <<call>> \in Seq(Calls) /\ a \o <<call>> \in Seq(Calls)
  BY <1>2, <1>3
<1>6. Adds(ValidOf, a \o <<call>>, b) /\ Adds(ValidOf, a, <<call>>) /\ Single(ValidOf, call)
  BY <1>2, <1>3, <1>5, ValidMeasure, SumConcat, SumOne, Zenon
<1>7. Sum(ValidOf, q) = (Sum(ValidOf, a) \o ValidOf[call]) \o Sum(ValidOf, b)
  BY <1>3, <1>4, <1>6, Zenon DEF Adds, Single
<1>8. ValidOf[call] = <<call>>
  BY <1>2 DEF ValidOf, Valid
<1>9. Sum(ValidOf, a) \in Seq(Valid) /\ Sum(ValidOf, b) \in Seq(Valid)
  BY <1>3, ValidMeasure, SumType, Zenon
<1> DEFINE sa == Sum(ValidOf, a)
           sb == Sum(ValidOf, b)
<1> HIDE DEF sa, sb
<1>10. sa \in Seq(Valid) /\ sb \in Seq(Valid) /\ <<call>> \in Seq(Valid) /\ sa \o <<call>> \in Seq(Valid)
  <2>1. sa \in Seq(Valid) /\ sb \in Seq(Valid)
    BY <1>9, Zenon DEF sa, sb
  <2>. QED
    BY <2>1
<1>11. Has(<<call>>, call)
  BY DEF Has
<1>12. Has((sa \o <<call>>) \o sb, call)
  BY <1>10, <1>11, HasConcat, Zenon
<1>. QED
  BY <1>7, <1>8, <1>12, ValidIsSum, Zenon DEF sa, sb

\* What findToolOutput takes answers the call.
Finds(messages, used, start, call, b) == b = Message!findToolOutput(messages, used, start, call)

FirstFound(messages, used, start, call, b) ==
    /\ messages[b].callId = call /\ b \notin used
    /\ \A j : Answering(messages, used, start, call, j) => b <= j

LEMMA FoundAnswers ==
    ASSUME NEW messages \in Seq(IRSet), NEW used, NEW i \in 1..Len(messages), NEW call,
           NEW b \in OutputsOf(messages), Finds(messages, used, i + 1, call, b)
    PROVE  FirstFound(messages, used, i + 1, call, b)
<1>1. Len(messages) \in Nat /\ i + 1 \in Nat /\ i + 1 > 0 /\ b # 0
  BY DEF OutputsOf
<1>2. b = Message!findToolOutput(messages, used, i + 1, call)
  BY Zenon DEF Finds
<1>3. Answering(messages, used, i + 1, call, b) /\ \A j : Answering(messages, used, i + 1, call, j) => b <= j
  BY <1>1, <1>2, FindFirst, Zenon
<1>. QED
  BY <1>3, Zenon DEF Answering, FirstFound

\* An output that pairCalls takes is returned under the call it names.
PairHas(messages, a, used, p) ==
    /\ used \subseteq p.used
    /\ a \in p.used => a \in used \/ Has(p.outs, Result(messages[a], messages[a].callId))

LEMMA PairKeeps ==
    ASSUME NEW messages \in Seq(IRSet), NEW used \in SUBSET OutputsOf(messages),
           NEW i \in 1..Len(messages), NEW a
    PROVE  PairHas(messages, a, used, Message!pairCalls(messages, used, i))
<1> DEFINE q == Message!ValidCalls(messages[i].calls)
           n == Len(q)
<1>1. PICK f : PairSteps(f, messages, used, i, q)
  BY PairCallsSteps, Zenon
<1>2. q \in Seq(Valid)
  <2>1. messages[i] \in IRSet
    OBVIOUS
  <2>2. messages[i].calls \in Seq(Calls)
    BY <2>1, Zenon DEF IRSet
  <2>. QED
    BY <2>2, ValidType, Zenon
<1> HIDE DEF q
<1>3. /\ f[0].outs = <<>> /\ f[0].used = used /\ Message!pairCalls(messages, used, i) = f[n]
      /\ \A j \in 0..n : f[j] \in Pairs(messages)
      /\ \A j \in 1..n :
            \/ f[j] = f[j - 1]
            \/ \E b \in OutputsOf(messages) :
                  /\ b = Message!findToolOutput(messages, f[j - 1].used, i + 1, q[j])
                  /\ f[j].used = f[j - 1].used \cup {b}
                  /\ f[j].outs = Append(f[j - 1].outs, Result(messages[b], q[j]))
  BY <1>1, Zenon DEF PairSteps
<1>4. n \in Nat /\ 0 \in 0..n /\ \A j \in 1..n : j \in 0..n /\ j - 1 \in 0..n /\ q[j] \in Valid
  BY <1>2
<1> DEFINE S == {p \in Pairs(messages) : PairHas(messages, a, used, p)}
<1>5. f[0] \in S
  BY <1>3, <1>4, Zenon DEF PairHas
<1>6. ASSUME NEW j \in 1..n, f[j - 1] \in S PROVE f[j] \in S
  <2>1. f[j] \in Pairs(messages) /\ f[j - 1] \in Pairs(messages) /\ PairHas(messages, a, used, f[j - 1])
    BY <1>3, <1>4, <1>6, Zenon
  <2>2. ASSUME NEW b \in OutputsOf(messages),
               b = Message!findToolOutput(messages, f[j - 1].used, i + 1, q[j]),
               f[j].used = f[j - 1].used \cup {b},
               f[j].outs = Append(f[j - 1].outs, Result(messages[b], q[j]))
        PROVE  PairHas(messages, a, used, f[j])
    <3>1. messages[b].callId = q[j]
      <4> DEFINE u == f[j - 1].used
                 c == q[j]
      <4>1. Finds(messages, u, i + 1, c, b)
        BY <2>2, Zenon DEF Finds
      <4> HIDE DEF u, c
      <4>2. FirstFound(messages, u, i + 1, c, b)
        BY <4>1, FoundAnswers, Zenon
      <4>. QED
        BY <4>2, Zenon DEF c, FirstFound
    <3>2. f[j - 1].outs \in Seq(IRSet)
      BY <2>1, Zenon DEF Pairs
    <3>3. Result(messages[b], q[j]) \in IRSet
      <4>1. messages[b] \in IRSet /\ q[j] \in Calls
        BY <1>4 DEF OutputsOf, Valid
      <4>. QED
        BY <4>1, ResultType, Zenon
    <3>4. ASSUME NEW x, Has(f[j - 1].outs, x) \/ x = Result(messages[b], q[j])
          PROVE  Has(f[j].outs, x)
      <4> DEFINE o == f[j - 1].outs
                 y == Result(messages[b], q[j])
      <4>1. o \in Seq(IRSet) /\ y \in IRSet /\ (Has(o, x) \/ x = y) /\ f[j].outs = Append(o, y)
        BY <2>2, <3>2, <3>3, <3>4, Zenon
      <4> HIDE DEF o, y
      <4>2. Has(Append(o, y), x)
        BY <4>1, HasAppend
      <4>. QED
        BY <4>1, <4>2, Zenon
    <3>5. used \subseteq f[j].used
      BY <2>1, <2>2, Zenon DEF PairHas
    <3>6. a \in f[j].used => a \in f[j - 1].used \/ a = b
      BY <2>2, Zenon
    <3>. QED
      BY <2>1, <3>1, <3>4, <3>5, <3>6, Zenon DEF PairHas
  <2>. QED
    BY <1>3, <2>1, <2>2, Zenon
<1>7. f[n] \in S
  <2>1. \A j \in 1..n : f[j - 1] \in S => f[j] \in S
    BY <1>6, Zenon
  <2>2. n \in 0..n
    BY <1>4
  <2>3. \A j \in 0..n : f[j] \in S
    <3> HIDE DEF S, n
    <3>. QED
      BY <1>4, <1>5, <2>1, RecursionHolds
  <2>. QED
    BY <2>2, <2>3, Zenon
<1>. QED
  BY <1>3, <1>7, Zenon

\* An output that is the first of a call after the message that makes it is
\* taken by then.
LEMMA PairTakes ==
    ASSUME NEW messages \in Seq(IRSet), NEW used \in SUBSET OutputsOf(messages),
           NEW i \in 1..Len(messages), NEW call \in Valid, Makes(messages[i], call),
           NEW text, NEW a, Serves(messages, call, text, a), i < a
    PROVE  a \in Message!pairCalls(messages, used, i).used
<1> DEFINE q == Message!ValidCalls(messages[i].calls)
           n == Len(q)
           g == [j \in 0..n |-> j]
<1>1. messages[i].calls \in Seq(Calls)
  <2>1. messages[i] \in IRSet
    OBVIOUS
  <2>. QED
    BY <2>1, Zenon DEF IRSet
<1>2. q \in Seq(Valid) /\ Has(q, call)
  <2>1. Has(messages[i].calls, call)
    BY Zenon DEF Makes, Has
  <2>. QED
    BY <1>1, <2>1, ValidType, ValidHas, Zenon
<1>3. PICK f : PairSteps(f, messages, used, i, q)
  BY PairCallsSteps, Zenon
<1> HIDE DEF q
<1>4. /\ Message!pairCalls(messages, used, i) = f[n]
      /\ \A j \in 1..n :
            \/ f[j] = f[j - 1] /\ 0 = Message!findToolOutput(messages, f[j - 1].used, i + 1, q[j])
            \/ \E b \in OutputsOf(messages) :
                  /\ b = Message!findToolOutput(messages, f[j - 1].used, i + 1, q[j])
                  /\ f[j].used = f[j - 1].used \cup {b}
  BY <1>3, Zenon DEF PairSteps
<1>5. n \in Nat /\ 0 \in 0..n /\ n \in 0..n /\ \A j \in 1..n : j \in 0..n /\ j - 1 \in 0..n
  BY <1>2
<1>6. PICK k \in 1..n : q[k] = call
  BY <1>2, Zenon DEF Has
<1>7. /\ a \in 1..Len(messages) /\ Message!IsTool(messages[a]) /\ messages[a].callId = call
      /\ \A j \in 1..(a - 1) : ~Brings(messages[j], call)
  BY Zenon DEF Serves, Brings
<1>8. a \in (i + 1)..Len(messages) /\ i + 1 \in Nat /\ i + 1 > 0 /\ Len(messages) \in Nat
  BY <1>7
<1>9. a \in f[k].used
  <2> DEFINE u == f[k - 1].used
  <2>1. CASE a \in u
    BY <1>4, <2>1, Zenon
  <2>2. CASE a \notin u
    <3>1. Answering(messages, u, i + 1, call, a)
      BY <1>7, <1>8, <2>2, Zenon DEF Answering
    <3>2. ASSUME 0 = Message!findToolOutput(messages, u, i + 1, call) PROVE FALSE
      <4> HIDE DEF u
      <4>1. 0 \notin OutputsOf(messages)
        BY DEF OutputsOf
      <4>2. \/ \A j : ~Answering(messages, u, i + 1, call, j)
            \/ 0 \in OutputsOf(messages)
        BY <1>8, <3>2, FindFirst
      <4>. QED
        BY <3>1, <4>1, <4>2, Zenon
    <3>3. ASSUME NEW b \in OutputsOf(messages), Finds(messages, u, i + 1, call, b),
                 f[k].used = u \cup {b}
          PROVE  a \in f[k].used
      <4> HIDE DEF u
      <4>1. FirstFound(messages, u, i + 1, call, b)
        BY <3>3, FoundAnswers, Zenon
      <4>2. messages[b].callId = call /\ b <= a
        BY <3>1, <4>1, Zenon DEF FirstFound
      <4>3. Message!IsTool(messages[b]) /\ b \in 1..Len(messages)
        BY Zenon DEF OutputsOf
      <4>4. b = a \/ b \in 1..(a - 1)
        BY <1>8, <4>2, <4>3
      <4>5. b = a
        BY <1>7, <4>2, <4>3, <4>4, Zenon DEF Brings
      <4>. QED
        BY <3>3, <4>5, Zenon
    <3>. QED
      BY <1>4, <1>6, <3>2, <3>3, Zenon DEF Finds
  <2>. QED
    BY <2>1, <2>2, Zenon
<1> DEFINE S == {j \in 0..n : k <= j => a \in f[j].used}
<1>10. g[0] \in S
  BY <1>5
<1>11. ASSUME NEW j \in 1..n, g[j - 1] \in S PROVE g[j] \in S
  <2>1. g[j] = j /\ g[j - 1] = j - 1
    BY <1>5, Zenon
  <2>2. ASSUME k <= j PROVE a \in f[j].used
    <3>1. k = j \/ k <= j - 1
      BY <2>2
    <3>2. CASE k <= j - 1
      <4>1. a \in f[j - 1].used
        BY <1>11, <2>1, <3>2, Zenon
      <4>. QED
        BY <1>4, <4>1, Zenon
    <3>. QED
      BY <1>9, <3>1, <3>2, Zenon
  <2>. QED
    BY <1>5, <2>1, <2>2, Zenon
<1>12. \A j \in 0..n : g[j] \in S
  <2>1. \A j \in 1..n : g[j - 1] \in S => g[j] \in S
    BY <1>11, Zenon
  <2> HIDE DEF g, S, n
  <2>. QED
    BY <1>5, <1>10, <2>1, RecursionHolds
<1>13. a \in f[n].used
  <2>1. g[n] = n /\ k <= n
    BY <1>5
  <2>. QED
    BY <1>5, <1>12, <2>1, Zenon
<1>. QED
  BY <1>4, <1>13, Zenon

\* What was taken is in the history, and what serves a call made in the first j
\* messages was taken.
Keeps(messages, r, j, b, a, call) ==
    /\ a \in r.used => Has(r.out, Result(messages[a], call))
    /\ b <= j => a \in r.used

LEMMA NormalizeKeeps ==
    ASSUME NEW messages \in Seq(Item), NEW call \in Valid, NEW text, NEW a,
           Serves(messages, call, text, a), NEW b \in 1..(a - 1), Makes(messages[b], call),
           NEW r \in Normal(messages), NEW j \in 1..Len(messages), Keeps(messages, r, j - 1, b, a, call)
    PROVE  Keeps(messages, Message!normalizeMessage(messages, r, j), j, b, a, call)
<1> DEFINE x == Message!normalizeMessage(messages, r, j)
           m == messages[j]
           p == Message!pairCalls(messages, r.used, j)
           y == Result(messages[a], call)
<1>1. messages \in Seq(IRSet) /\ m \in Item /\ Len(messages) \in Nat /\ messages[b] \in Item
  <2>1. a \in 1..Len(messages)
    BY Zenon DEF Serves
  <2>. QED
    BY <2>1 DEF Item
<1>2. r.out \in Seq(IRSet) /\ r.used \in SUBSET OutputsOf(messages)
  BY Zenon DEF Normal
<1>3. p \in Pairs(messages) /\ PairHas(messages, a, r.used, p)
  BY <1>1, <1>2, PairCallsType, PairKeeps, Zenon
<1>4. p.outs \in Seq(IRSet) /\ Len(p.outs) = Len(p.calls)
  BY <1>3, Zenon DEF Pairs
<1>5. messages[a].callId = call
  BY Zenon DEF Serves, Brings
<1>6. Becomes(messages, r, j, x)
  BY <1>1, NormalizeMessageCases, Zenon
<1> HIDE DEF x
<1>7. r.used \subseteq p.used /\ (a \in p.used => a \in r.used \/ Has(p.outs, y))
  BY <1>3, <1>5, Zenon DEF PairHas
<1>8. (a \in r.used => Has(r.out, y)) /\ (b <= j - 1 => a \in r.used)
  BY Zenon DEF Keeps
<1>9. b = j => m.calls # <<>> /\ Message!ValidCalls(m.calls) # <<>> /\ ~Message!IsTool(m) /\ a \in p.used
  <2>1. SUFFICES ASSUME b = j
                 PROVE  /\ m.calls # <<>> /\ Message!ValidCalls(m.calls) # <<>>
                        /\ ~Message!IsTool(m) /\ a \in p.used
    OBVIOUS
  <2>2. Makes(m, call) /\ j < a
    <3>1. a \in 1..Len(messages)
      BY Zenon DEF Serves
    <3>2. j < a
      BY <2>1, <3>1
    <3>. QED
      BY <2>1, <3>2, Zenon
  <2>3. m \in IRSet /\ ItemForm(m) /\ (Message!IsTool(m) <=> m.role = "tool")
    BY <1>1, ItemFacts, Zenon
  <2>4. m.calls \in Seq(Calls) /\ Has(m.calls, call)
    BY <2>2, <2>3, Zenon DEF IRSet, Makes, Has
  <2>5. Has(Message!ValidCalls(m.calls), call)
    BY <2>4, ValidHas, Zenon
  <2>6. \A q : Has(q, call) => q # <<>>
    BY DEF Has
  <2>7. m.role = "assistant"
    BY <2>3, <2>4, <2>6, Zenon DEF ItemForm
  <2>8. ~Message!IsTool(m)
    BY <2>3, <2>7
  <2>9. a \in p.used
    BY <1>1, <1>2, <2>2, PairTakes, Zenon
  <2>. QED
    BY <2>4, <2>5, <2>6, <2>8, <2>9, Zenon
<1> HIDE DEF m, p, y
<1>10. b <= j => b = j \/ b <= j - 1
  OBVIOUS
<1>11. \A s : s # <<>> \/ Len(s) = 0
  OBVIOUS
<1>12. p.calls = <<>> => ~Has(p.outs, y)
  <2>1. SUFFICES ASSUME p.calls = <<>> PROVE ~Has(p.outs, y)
    OBVIOUS
  <2>2. Len(p.outs) = 0
    BY <1>4, <2>1
  <2>. QED
    BY <2>2 DEF Has
<1>13. (a \in x.used => Has(x.out, y)) /\ (b <= j => a \in x.used)
  <2>1. CASE x = r /\ Message!IsTool(m)
    BY <1>8, <1>9, <1>10, <2>1, Zenon
  <2>2. CASE x = r /\ p.calls = <<>>
    BY <1>7, <1>8, <1>9, <1>10, <1>12, <2>2, Zenon
  <2>3. CASE /\ x = [out |-> Append(r.out, Plain(m)), used |-> r.used]
             /\ Message!ValidCalls(m.calls) = <<>> \/ p.calls = <<>>
    <3>1. x.out = Append(r.out, Plain(m)) /\ x.used = r.used
      BY <2>3, Zenon
    <3>2. Plain(m) \in IRSet
      <4>1. m \in IRSet
        BY <1>1, ItemFacts, Zenon DEF m
      <4>. QED
        BY <4>1, PlainType, Zenon
    <3>3. Has(r.out, y) => Has(x.out, y)
      BY <1>2, <3>1, <3>2, HasAppend, Zenon
    <3>. QED
      BY <1>7, <1>8, <1>9, <1>10, <1>12, <2>3, <3>1, <3>3, Zenon
  <2>4. CASE x = [out |-> Append(r.out, Leading(m, p)) \o p.outs, used |-> p.used]
    <3>1. x.out = Append(r.out, Leading(m, p)) \o p.outs /\ x.used = p.used
      BY <2>4, Zenon
    <3>2. Leading(m, p) \in IRSet
      <4>1. m \in IRSet
        BY <1>1, ItemFacts, Zenon DEF m
      <4>. QED
        BY <1>1, <1>3, <4>1, LeadingType, Zenon DEF p
    <3>3. Append(r.out, Leading(m, p)) \in Seq(IRSet)
      <4> DEFINE l == Leading(m, p)
                 o == r.out
      <4>1. l \in IRSet /\ o \in Seq(IRSet)
        BY <1>2, <3>2, Zenon
      <4> HIDE DEF l, o
      <4>2. Append(o, l) \in Seq(IRSet)
        BY <4>1
      <4>. QED
        BY <4>2, Zenon DEF l, o
    <3>4. Has(r.out, y) => Has(Append(r.out, Leading(m, p)), y)
      BY <1>2, <3>2, HasAppend, Zenon
    <3>5. Has(Append(r.out, Leading(m, p)), y) \/ Has(p.outs, y) => Has(x.out, y)
      <4> DEFINE o == Append(r.out, Leading(m, p))
                 s == p.outs
      <4>1. o \in Seq(IRSet) /\ s \in Seq(IRSet) /\ x.out = o \o s
        BY <1>4, <3>1, <3>3, Zenon
      <4> HIDE DEF o, s
      <4>2. Has(o, y) \/ Has(s, y) => Has(o \o s, y)
        BY <4>1, HasConcat, Zenon
      <4>. QED
        BY <4>1, <4>2, Zenon DEF o, s
    <3>. QED
      BY <1>7, <1>8, <1>9, <1>10, <3>1, <3>4, <3>5, Zenon
  <2>. QED
    BY <1>6, <2>1, <2>2, <2>3, <2>4, Zenon DEF Becomes, m, p
<1>. QED
  BY <1>13, Zenon DEF Keeps, x, y

\* The first output of a call is in the normalized history, under the call.
LEMMA NormalServes ==
    ASSUME NEW messages \in Seq(Item), NEW call \in Valid, NEW text, NEW a,
           Serves(messages, call, text, a)
    PROVE  Has(Message!normalizeChatHistory(messages), Result(messages[a], call))
<1> DEFINE n == Len(messages)
           g == [j \in 0..n |-> j]
<1>1. messages \in Seq(IRSet) /\ n \in Nat /\ 0 \in 0..n /\ n \in 0..n
      /\ \A j \in 1..n : j \in 0..n /\ j - 1 \in 0..n
  BY DEF Item
<1>2. PICK f : NormalSteps(f, messages)
  BY <1>1, NormalizeSteps, Zenon
<1>3. /\ f[0].out = <<>> /\ f[0].used = {}
      /\ \A j \in 0..n : f[j] \in Normal(messages)
      /\ \A j \in 1..n : f[j] = Message!normalizeMessage(messages, f[j - 1], j)
      /\ Message!normalizeChatHistory(messages) = f[n].out
  BY <1>2, Zenon DEF NormalSteps
<1>4. PICK b \in 1..(a - 1) : Makes(messages[b], call)
  BY Zenon DEF Serves
<1>5. a \in 1..n
  BY Zenon DEF Serves
<1> DEFINE S == {j \in 0..n : Keeps(messages, f[j], j, b, a, call)}
<1>6. g[0] \in S
  <2>1. ~(b <= 0)
    BY <1>4, <1>5
  <2>2. Keeps(messages, f[0], 0, b, a, call)
    BY <1>3, <2>1, Zenon DEF Keeps
  <2>. QED
    BY <1>1, <2>2
<1>7. ASSUME NEW j \in 1..n, g[j - 1] \in S PROVE g[j] \in S
  <2>1. f[j - 1] \in Normal(messages) /\ f[j] = Message!normalizeMessage(messages, f[j - 1], j)
    BY <1>1, <1>3, Zenon
  <2>2. Keeps(messages, f[j - 1], j - 1, b, a, call)
    BY <1>1, <1>7
  <2>3. Keeps(messages, Message!normalizeMessage(messages, f[j - 1], j), j, b, a, call)
    BY <1>4, <2>1, <2>2, NormalizeKeeps, Zenon
  <2>. QED
    BY <1>1, <2>1, <2>3
<1>8. \A j \in 0..n : g[j] \in S
  <2>1. \A j \in 1..n : g[j - 1] \in S => g[j] \in S
    BY <1>7, Zenon
  <2> HIDE DEF g, S, n
  <2>. QED
    BY <1>1, <1>6, <2>1, RecursionHolds
<1>9. Keeps(messages, f[n], n, b, a, call) /\ b <= n
  BY <1>1, <1>4, <1>5, <1>8
<1>. QED
  BY <1>3, <1>9, Zenon DEF Keeps

\* The outputs in a Responses history say where they stand, and answer calls made
\* before them.
Answered(h, j, o) ==
    /\ o.text = <<<<j, o.id>>>>
    /\ \E i \in 1..(j - 1) : Has(h[i].calls, o.id)
Timely(h) ==
    \A j \in 1..Len(h) : \A k \in 1..Len(h[j].outs) : Answered(h, j, h[j].outs[k])
OutputInv == from = "responses" => Timely(history)

LEMMA MadeBefore ==
    ASSUME history \in Seq(WireSet), NEW call \in Message!Made
    PROVE  \E i \in 1..Len(history) : Has(history[i].calls, call)
<1>1. PICK i \in DOMAIN history : call \in Message!Range(history[i].calls)
  BY DEF Message!Made
<1>2. i \in 1..Len(history) /\ history[i] \in WireSet
  BY <1>1
<1>3. history[i].calls \in Seq(Calls)
  BY <1>2, Zenon DEF WireSet
<1>4. PICK k \in DOMAIN history[i].calls : history[i].calls[k] = call
  BY <1>1 DEF Message!Range
<1>5. DOMAIN history[i].calls = 1..Len(history[i].calls)
  BY <1>3
<1>. QED
  BY <1>2, <1>4, <1>5, Zenon DEF Has

\* What a Responses client adds: no output, or one of a call made before.
LEMMA AddedAnswers ==
    ASSUME history \in Seq(WireSet), NEW w, ResponsesForm(w)
    PROVE  \/ Len(w.outs) = 0
           \/ \E call \in Message!Made : w.outs = <<[id |-> call, text |-> <<<<Len(history) + 1, call>>>>]>>
<1>2. CASE w \in {Message!User, Message!System, Message!Wire("assistant", <<>>, Message!Say("text"), <<>>, <<>>),
                  Message!Wire("assistant", Message!Say("think"), <<>>, <<>>, <<>>)}
  <2>1. w.outs = <<>>
    BY <1>2 DEF Message!Wire, Message!User, Message!System
  <2>. QED
    BY <2>1
<1>3. CASE \E c \in Calls \ Message!Made : w = Message!Wire("assistant", <<>>, <<>>, <<c>>, <<>>)
  <2>1. w.outs = <<>>
    BY <1>3 DEF Message!Wire
  <2>. QED
    BY <2>1
<1>4. CASE \E c \in Message!Made : w = Message!Wire("tool", <<>>, <<>>, <<>>, <<Message!Out(c)>>)
  <2>1. PICK c \in Message!Made : w = Message!Wire("tool", <<>>, <<>>, <<>>, <<Message!Out(c)>>)
    BY <1>4, Zenon
  <2>2. w.outs = <<Message!Out(c)>>
    BY <2>1 DEF Message!Wire
  <2>. QED
    BY <2>2, Zenon DEF Message!Out, Message!Say
<1>. QED
  BY <1>2, <1>3, <1>4, Zenon DEF ResponsesForm

LEMMA TimelyMore ==
    ASSUME history \in Seq(WireSet), Timely(history), NEW w \in WireSet, ResponsesForm(w)
    PROVE  Timely(Append(history, w))
<1> DEFINE h == Append(history, w)
           n == Len(history)
<1>1. /\ n \in Nat /\ Len(h) = n + 1 /\ (\A j \in 1..n : h[j] = history[j]) /\ h[n + 1] = w
      /\ \A j \in 1..Len(h) : j \in 1..n \/ j = n + 1
      /\ \A j \in 1..n : \A i \in 1..(j - 1) : i \in 1..n
      /\ \A i \in 1..n : i \in 1..((n + 1) - 1)
  OBVIOUS
<1> HIDE DEF h, n
<1>2. ASSUME NEW j \in 1..n, NEW k \in 1..Len(h[j].outs) PROVE Answered(h, j, h[j].outs[k])
  <2>1. h[j] = history[j]
    BY <1>1, Zenon
  <2>2. Answered(history, j, history[j].outs[k])
    BY <2>1, Zenon DEF Timely, n
  <2>3. \A i \in 1..(j - 1) : h[i] = history[i]
    BY <1>1, Zenon
  <2>. QED
    BY <2>1, <2>2, <2>3, Zenon DEF Answered
<1>3. ASSUME NEW k \in 1..Len(w.outs) PROVE Answered(h, n + 1, w.outs[k])
  <2>1. Len(w.outs) # 0
    BY <1>3
  <2>2. PICK call \in Message!Made : w.outs = <<[id |-> call, text |-> <<<<n + 1, call>>>>]>>
    BY <2>1, AddedAnswers, Zenon DEF n
  <2> DEFINE t == <<<<n + 1, call>>>>
             o == [id |-> call, text |-> t]
  <2>3. w.outs[k] = o
    BY <1>3, <2>2
  <2>4. o.id = call /\ o.text = t
    OBVIOUS
  <2> HIDE DEF o
  <2>5. PICK i \in 1..n : Has(history[i].calls, call)
    BY MadeBefore, Zenon DEF n
  <2>6. i \in 1..((n + 1) - 1) /\ h[i] = history[i]
    BY <1>1, Zenon
  <2>. QED
    BY <2>3, <2>4, <2>5, <2>6, Zenon DEF Answered
<1>4. ASSUME NEW j \in 1..Len(h), NEW k \in 1..Len(h[j].outs) PROVE Answered(h, j, h[j].outs[k])
  BY <1>1, <1>2, <1>3, <1>4, Zenon
<1>. QED
  BY <1>4, Zenon DEF Timely, h

LEMMA OutputInvNext ==
    ASSUME MessageInv, OutputInv, Message!Next \/ UNCHANGED messageVars
    PROVE  OutputInv'
<1>1. CASE UNCHANGED messageVars
  BY <1>1, Zenon DEF messageVars, OutputInv
<1>2. CASE Message!Next
  <2>1. from' = from
    BY <1>2 DEF Message!Next
  <2>2. PICK w \in Added : history' = Append(history, w)
    BY <1>2, Zenon DEF Message!Next, Added
  <2>3. ASSUME from = "responses" PROVE Timely(history')
    <3>1. w \in Message!ResponsesWire
      <4> DEFINE a == Message!ChatWire
                 b == Message!MessagesWire
                 c == Message!ResponsesWire
      <4> HIDE DEF a, b, c
      <4>1. w \in CASE from = "chat" -> a [] from = "messages" -> b [] from = "responses" -> c
        BY <2>2, Zenon DEF Added, a, b, c
      <4>2. w \in c
        BY <2>3, <4>1
      <4>. QED
        BY <4>2, Zenon DEF c
    <3>2. ResponsesForm(w)
      BY <3>1, ResponsesForms, Zenon
    <3>3. history \in Seq(WireSet)
      BY Zenon DEF MessageInv
    <3>4. w \in WireSet
      <4>1. w \in Message!ChatWire \cup Message!MessagesWire \cup Message!ResponsesWire
        BY <3>1, Zenon
      <4>. QED
        BY <3>3, <4>1, ClientTypes, Zenon
    <3>5. Timely(history)
      BY <2>3, Zenon DEF OutputInv
    <3>6. Timely(Append(history, w))
      BY <3>2, <3>3, <3>4, <3>5, TimelyMore, Zenon
    <3>. QED
      BY <2>2, <3>6, Zenon
  <2>. QED
    BY <2>1, <2>3, Zenon DEF OutputInv
<1>. QED
  BY <1>1, <1>2

LEMMA OutputInvAlways == ConversionSpec => []OutputInv
<1>1. ConversionInit => OutputInv
  <2>1. ConversionInit => history = <<>>
    BY DEF ConversionInit, MessageIdle, Message!Init
  <2>2. 1..Len(<<>>) = {}
    OBVIOUS
  <2>3. history = <<>> => Timely(history)
    BY <2>2, Zenon DEF Timely
  <2>. QED
    BY <2>1, <2>3, Zenon DEF OutputInv
<1>2. MessageInv /\ OutputInv /\ [ConversionNext]_<<vars, liveVars, messageVars, route>> => OutputInv'
  BY OutputInvNext, Zenon DEF ConversionNext
<1>. QED
  BY <1>1, <1>2, MessageInvAlways, PTL DEF ConversionSpec

\* What a message of the items makes and brings, by the item.
LEMMA ItemOutput ==
    ASSUME Sendable, from = "responses", NEW j \in 1..Len(history), NEW call \in Valid
    PROVE  /\ Brings(AllItems[j], call) <=> history[j].outs # <<>> /\ history[j].outs[1].id = call
           /\ Brings(AllItems[j], call) => AllItems[j].text = history[j].outs[1].text
           /\ Has(history[j].calls, call) => Makes(AllItems[j], call)
           /\ Len(history[j].outs) \in Nat /\ Len(history[j].outs) <= 1
<1> DEFINE w == history[j]
           m == AllItems[j]
<1>1. /\ w \in WireSet /\ Shaped(w) /\ (w.think # <<>> => ~Thoughtless)
      /\ m = ItemOf(w) /\ m \in Item
  BY AllItemsType, Zenon
<1> HIDE DEF w, m
<1>2. call \in Calls /\ call # ""
  BY CallsAssumption DEF Valid
<1>3. /\ w.think = <<>> => /\ m.role = w.role /\ m.text = ChatSaid(w)
                           /\ m.calls = Message!ValidCalls(w.calls)
                           /\ m.callId = IF w.outs = <<>> THEN "" ELSE w.outs[1].id
      /\ w.think # <<>> => m.role = "assistant" /\ m.calls = <<>>
  BY <1>1, ItemOfType, Zenon
<1>4. w.calls \in Seq(Calls) /\ w.outs \in Seq(OutSet)
  BY <1>1, Zenon DEF WireSet
<1>5. /\ w.role # "assistant" => w.think = <<>>
      /\ w.role = "tool" <=> w.outs # <<>>
      /\ w.outs # <<>> => Len(w.outs) = 1
      /\ w.calls # <<>> => w.think = <<>>
  <2>1. from # "messages"
    OBVIOUS
  <2>. QED
    BY <1>1, <2>1, Zenon DEF Shaped
<1>6. Len(w.outs) \in Nat /\ Len(w.outs) <= 1
  <2>1. w.outs = <<>> => Len(w.outs) = 0
    OBVIOUS
  <2>2. w.outs # <<>> => Len(w.outs) = 1
    BY <1>5, Zenon
  <2> DEFINE l == Len(w.outs)
  <2>3. l = 0 \/ l = 1
    BY <2>1, <2>2, Zenon
  <2> HIDE DEF l
  <2>4. l \in Nat /\ l <= 1
    BY <2>3
  <2>. QED
    BY <2>4, Zenon DEF l
<1>7. Message!IsTool(m) <=> m.role = "tool"
  BY <1>1, ItemFacts, Zenon
<1>8. "assistant" # "tool"
  OBVIOUS
<1>9. w.outs # <<>> => w.think = <<>>
  BY <1>5, <1>8, Zenon
<1>10. Brings(m, call) <=> w.outs # <<>> /\ w.outs[1].id = call
  <2>1. CASE w.think # <<>>
    BY <1>3, <1>7, <1>8, <1>9, <2>1, Zenon DEF Brings
  <2>2. CASE w.think = <<>> /\ w.outs = <<>>
    BY <1>3, <1>5, <1>7, <2>2, Zenon DEF Brings
  <2>3. CASE w.think = <<>> /\ w.outs # <<>>
    <3>1. m.role = "tool" /\ m.callId = w.outs[1].id
      BY <1>3, <1>5, <2>3, Zenon
    <3>. QED
      BY <1>7, <2>3, <3>1, Zenon DEF Brings
  <2>. QED
    BY <2>1, <2>2, <2>3, Zenon
<1>11. Brings(m, call) => m.text = w.outs[1].text
  BY <1>3, <1>9, <1>10, Zenon DEF ChatSaid
<1>12. Has(w.calls, call) => Makes(m, call)
  <2>1. SUFFICES ASSUME Has(w.calls, call) PROVE Makes(m, call)
    OBVIOUS
  <2>2. w.calls # <<>>
    BY <2>1 DEF Has
  <2>3. Has(Message!ValidCalls(w.calls), call)
    BY <1>4, <2>1, ValidHas, Zenon
  <2>4. m.calls = Message!ValidCalls(w.calls)
    BY <1>3, <1>5, <2>2, Zenon
  <2>. QED
    BY <2>3, <2>4, Zenon DEF Has, Makes
<1>. QED
  BY <1>6, <1>10, <1>11, <1>12, Zenon DEF w, m

\* The first outputs of a Responses history.
LEMMA FirstServed ==
    ASSUME MessageInv, OutputInv, from = "responses", NEW o \in Message!FirstOutputs
    PROVE  o.id \in Valid /\ Served(AllItems, o.id, o.text)
<1>1. Sendable
  BY Zenon DEF MessageInv, Sendable
<1>2. PICK p \in DOMAIN history : o \in Message!Range(history[p].outs)
  BY DEF Message!FirstOutputs
<1>3. /\ o.id \notin invalid
      /\ \A j \in DOMAIN history, k \in 1..2 :
            k <= Len(history[j].outs) /\ history[j].outs[k].id = o.id => o.text[1][1] <= j
  BY DEF Message!FirstOutputs
<1>4. DOMAIN history = 1..Len(history) /\ Len(history) \in Nat /\ \A j \in 1..Len(history) : history[j] \in WireSet
  BY DEF MessageInv
<1>5. \A j \in 1..Len(history) : history[j].outs \in Seq(OutSet)
  BY <1>4, Zenon DEF WireSet
<1>6. PICK k \in 1..Len(history[p].outs) : history[p].outs[k] = o
  <2>1. DOMAIN history[p].outs = 1..Len(history[p].outs)
    BY <1>4, <1>5
  <2>. QED
    BY <1>2, <2>1 DEF Message!Range
<1>7. p \in 1..Len(history) /\ o \in OutSet /\ o.id \in Valid
  <2>1. p \in 1..Len(history)
    BY <1>2, <1>4, Zenon
  <2>2. o \in OutSet
    BY <1>5, <1>6, <2>1
  <2>3. o.id \in Calls
    BY <2>2, Zenon DEF OutSet
  <2>. QED
    BY <1>3, <2>1, <2>2, <2>3 DEF Valid
<1>8. o.text = <<<<p, o.id>>>> /\ \E i \in 1..(p - 1) : Has(history[i].calls, o.id)
  <2>1. Answered(history, p, history[p].outs[k])
    BY <1>7, Zenon DEF OutputInv, Timely
  <2>. QED
    BY <1>6, <2>1, Zenon DEF Answered
<1>9. o.text[1][1] = p
  <2> DEFINE x == <<p, o.id>>
  <2>1. o.text = <<x>> /\ x[1] = p
    BY <1>8
  <2> HIDE DEF x
  <2>2. o.text[1] = x
    BY <2>1
  <2>. QED
    BY <2>1, <2>2, Zenon
<1>10. k = 1 /\ history[p].outs # <<>>
  <2>1. Len(history[p].outs) \in Nat /\ Len(history[p].outs) <= 1
    BY <1>1, <1>7, ItemOutput, Zenon
  <2>. QED
    BY <2>1
<1>11. Brings(AllItems[p], o.id) /\ AllItems[p].text = o.text
  BY <1>1, <1>6, <1>7, <1>10, ItemOutput, Zenon
<1>12. PICK i \in 1..(p - 1) : Has(history[i].calls, o.id)
  BY <1>8, Zenon
<1>13. Makes(AllItems[i], o.id)
  <2>1. i \in 1..Len(history)
    BY <1>7
  <2>. QED
    BY <1>1, <1>7, <1>12, <2>1, ItemOutput, Zenon
<1>14. ASSUME NEW j \in 1..(p - 1) PROVE ~Brings(AllItems[j], o.id)
  <2>1. j \in 1..Len(history) /\ ~(p <= j) /\ 1 \in 1..2
    BY <1>7
  <2>2. SUFFICES ASSUME history[j].outs # <<>>, history[j].outs[1].id = o.id PROVE FALSE
    BY <1>1, <1>7, <2>1, ItemOutput, Zenon
  <2>3. 1 <= Len(history[j].outs)
    <3>1. history[j].outs \in Seq(OutSet)
      BY <1>5, <2>1, Zenon
    <3>. QED
      BY <2>2, <3>1
  <2>. QED
    BY <1>3, <1>4, <1>9, <2>1, <2>2, <2>3, Zenon
<1>15. p \in 1..Len(AllItems)
  BY <1>1, <1>7, AllItemsType, Zenon
<1>16. Serves(AllItems, o.id, o.text, p)
  BY <1>11, <1>13, <1>14, <1>15, Zenon DEF Serves
<1>. QED
  BY <1>7, <1>16, Zenon DEF Served

LEMMA OutputsAreKept ==
    ASSUME MessageInv, OutputInv PROVE Message!OutputsKept
<1>1. SUFFICES ASSUME from = "responses", NEW o \in Message!FirstOutputs
               PROVE  Message!Delivered(o)
  BY Zenon DEF Message!OutputsKept
<1> DEFINE M == Message!decodeRequest(history)
           ms == Message!Rest(M)
           h == Message!normalizeChatHistory(ms)
           c == Message!ChatRequest
           call == o.id
           text == o.text
<1>2. Sendable
  BY Zenon DEF MessageInv, Sendable
<1>3. call \in Valid /\ Served(AllItems, call, text)
  BY <1>1, FirstServed, Zenon
<1>4. M \in Seq(Item) /\ Served(M, call, text)
  BY <1>1, <1>2, <1>3, DecodedServes, Zenon
<1>5. c = [j \in DOMAIN h |-> Message!irMsgToChat(h[j])]
  BY Zenon DEF Message!ChatRequest, Message!EncodeChatRequest
<1> HIDE DEF M
<1>6. ms \in Seq(Item) /\ Served(ms, call, text)
  BY <1>4, RestServes, Zenon
<1> HIDE DEF ms
<1>7. ms \in Seq(IRSet)
  BY <1>6 DEF Item
<1>8. PICK a : Serves(ms, call, text, a)
  BY <1>6, Zenon DEF Served
<1>9. a \in 1..Len(ms) /\ Message!IsTool(ms[a]) /\ ms[a].text = text
  BY <1>8, Zenon DEF Serves, Brings
<1>10. ms[a] \in Item
  BY <1>6, <1>9
<1>11. ms[a] \in IRSet /\ ms[a].content = <<>>
  BY <1>9, <1>10, ItemFacts, Zenon DEF ItemForm
<1> DEFINE y == Result(ms[a], call)
<1>12. call \in Calls
  BY <1>3 DEF Valid
<1>13. y.callId = call /\ y.text = text /\ y.content = <<>> /\ y \in IRSet
  BY <1>9, <1>11, <1>12, ResultType, Zenon
<1>14. Has(h, y)
  BY <1>3, <1>6, <1>8, NormalServes, Zenon
<1>15. /\ h \in Seq(IRSet) /\ c \in Seq(EncodedSet) /\ Len(c) = Len(h)
       /\ \A j \in 1..Len(c) : h[j] \in IRSet /\ c[j] = Message!irMsgToChat(h[j])
  BY <1>5, <1>7, ChatRequestIs, Zenon
<1> HIDE DEF h, c, y
<1>16. PICK k \in 1..Len(h) : h[k] = y
  BY <1>14, Zenon DEF Has
<1>17. c[k] = Message!irMsgToChat(y)
  BY <1>15, <1>16, Zenon
<1>18. c[k].outs = <<call>>
  BY <1>12, <1>13, <1>17, ChatOuts, Zenon
<1>19. c[k].text = text
  <2>1. Shown(y) = text
    BY <1>13, Zenon DEF Shown
  <2>. QED
    BY <1>13, <1>17, <2>1, ChatEncoded, Zenon
<1>20. k \in DOMAIN c
  BY <1>15
<1>. QED
  BY <1>18, <1>19, <1>20, Zenon DEF Message!Delivered, c

\* What the assistant thought reaches a Chat upstream once, however it stood
\* among the calls, and so does the first output of every valid call of a
\* Responses client, however late it came and whatever stood between
\* (attachReasoningToLastPendingToolCall and coalesceResponsesFunctionCalls of
\* responses.go, normalizeChatHistory of types.go).
THEOREM ReasoningIsKept == ConversionSpec => []ReasoningKept
<1>1. MessageInv /\ OutputInv => ReasoningKept
  BY ThinkingIsKept, OutputsAreKept, Zenon DEF ReasoningKept
<1>. QED
  BY <1>1, MessageInvAlways, OutputInvAlways, PTL
=============================================================================
