------------------------ MODULE StreamConvertProofs ------------------------
(***************************************************************************)
(* Proofs about StreamConvert, as Conversion composes it, for streams of   *)
(* any length and any tool calls between any two protocols.                *)
(***************************************************************************)
EXTENDS Conversion, RecursionLemmas

----------------------------------------------------------------------------
(* What Content returns                                                    *)

\* What one event says.
PieceOf(e) == IF Kind(e) = "" THEN <<>> ELSE <<[k |-> Kind(e), n |-> e.n]>>

\* The recursive function of Content, up to the event m.
Said(h, m, f) ==
    f = [j \in 0..m |-> IF j = 0 THEN <<>>
                        ELSE IF Kind(h[j]) = "" THEN f[j - 1]
                        ELSE Append(f[j - 1], [k |-> Kind(h[j]), n |-> h[j].n])]

LEMMA SaidExists == ASSUME NEW h, NEW m \in Nat PROVE \E f : Said(h, m, f)
<1> DEFINE A == {n \in Nat : \E f : Said(h, n, f)}
<1>1. 0 \in A
  <2> DEFINE f == [j \in 0..0 |-> <<>>]
  <2>1. Said(h, 0, f)
    BY DEF Said
  <2>. QED
    BY <2>1
<1>2. ASSUME NEW n \in Nat, n \in A PROVE n + 1 \in A
  <2>1. PICK f : Said(h, n, f)
    BY <1>2
  <2> DEFINE x == IF Kind(h[n + 1]) = "" THEN f[n]
                  ELSE Append(f[n], [k |-> Kind(h[n + 1]), n |-> h[n + 1].n])
             g == [j \in 0..(n + 1) |-> IF j = n + 1 THEN x ELSE f[j]]
  <2>2. \A j \in 0..n : f[j] = IF j = 0 THEN <<>>
                        ELSE IF Kind(h[j]) = "" THEN f[j - 1]
                        ELSE Append(f[j - 1], [k |-> Kind(h[j]), n |-> h[j].n])
    BY <2>1, Zenon DEF Said
  <2>3. ASSUME NEW j \in 0..(n + 1)
        PROVE  g[j] = IF j = 0 THEN <<>>
                      ELSE IF Kind(h[j]) = "" THEN g[j - 1]
                      ELSE Append(g[j - 1], [k |-> Kind(h[j]), n |-> h[j].n])
    <3>1. CASE j = n + 1
      <4>1. j - 1 = n /\ n \in 0..(n + 1) /\ n # n + 1 /\ j # 0
        BY <3>1
      <4>2. g[j - 1] = f[n] /\ g[j] = x
        BY <4>1, <3>1
      <4> HIDE DEF g
      <4>. QED
        BY <4>1, <4>2, <3>1, Zenon
    <3>2. CASE j \in 0..n
      <4>1. j # n + 1 /\ (j # 0 => j - 1 # n + 1 /\ j - 1 \in 0..(n + 1))
        BY <3>2
      <4>2. g[j] = f[j] /\ (j # 0 => g[j - 1] = f[j - 1])
        BY <4>1, Zenon
      <4> HIDE DEF g
      <4>. QED
        BY <4>2, <3>2, <2>2, Zenon
    <3>3. j = n + 1 \/ j \in 0..n
      OBVIOUS
    <3> HIDE DEF g
    <3>. QED
      BY <3>1, <3>2, <3>3, Zenon
  <2>4. Said(h, n + 1, g)
    <3>1. g = [j \in 0..(n + 1) |-> g[j]]
      OBVIOUS
    <3> HIDE DEF g
    <3>. QED
      BY <3>1, <2>3, Zenon DEF Said
  <2>. QED
    <3> HIDE DEF g
    <3>1. \E f2 : Said(h, n + 1, f2)
      BY <2>4
    <3>. QED
      BY <3>1
<1>. QED
  <2> HIDE DEF A
  <2>1. m \in A
    BY <1>1, <1>2, Induction
  <2>. QED
    BY <2>1 DEF A

LEMMA SaidAgree ==
    ASSUME NEW h, NEW g, NEW m \in Nat, NEW n \in Nat, m <= n,
           \A j \in 1..m : h[j] = g[j],
           NEW f1, Said(h, m, f1), NEW f2, Said(g, n, f2)
    PROVE  f1[m] = f2[m]
<1> DEFINE A == {j \in Nat : j <= m => f1[j] = f2[j]}
<1>0. /\ \A j \in 0..m : f1[j] = IF j = 0 THEN <<>>
                        ELSE IF Kind(h[j]) = "" THEN f1[j - 1]
                        ELSE Append(f1[j - 1], [k |-> Kind(h[j]), n |-> h[j].n])
      /\ \A j \in 0..n : f2[j] = IF j = 0 THEN <<>>
                        ELSE IF Kind(g[j]) = "" THEN f2[j - 1]
                        ELSE Append(f2[j - 1], [k |-> Kind(g[j]), n |-> g[j].n])
  BY Zenon DEF Said
<1>1. 0 \in A
  <2>1. 0 \in 0..m /\ 0 \in 0..n
    OBVIOUS
  <2>2. f1[0] = <<>> /\ f2[0] = <<>>
    BY <2>1, <1>0, Zenon
  <2>. QED
    BY <2>2
<1>2. ASSUME NEW j \in Nat, j \in A PROVE j + 1 \in A
  <2>1. SUFFICES ASSUME j + 1 <= m PROVE f1[j + 1] = f2[j + 1]
    OBVIOUS
  <2>2. j + 1 \in 0..m /\ j + 1 \in 0..n /\ (j + 1) - 1 = j /\ j + 1 # 0 /\ j + 1 \in 1..m
    BY <2>1
  <2>3. f1[j] = f2[j]
    BY <1>2, <2>1
  <2>. QED
    BY <2>2, <2>3, <1>0, Zenon
<1>. QED
  <2> HIDE DEF A
  <2>1. m \in A
    BY <1>1, <1>2, Induction
  <2>. QED
    BY <2>1 DEF A

\* Content is what its recursive function says of the last event.
LEMMA ContentIsSaid ==
    ASSUME NEW h, Len(h) \in Nat
    PROVE  \E f : Said(h, Len(h), f) /\ Content(h) = f[Len(h)]
<1> DEFINE f == CHOOSE x : Said(h, Len(h), x)
<1>1. Said(h, Len(h), f)
  BY SaidExists
<1>2. Content(h) = f[Len(h)]
  BY Zenon DEF Content, Said
<1>. QED
  BY <1>1, <1>2

LEMMA ContentEmpty == Content(<<>>) = <<>>
<1>1. Len(<<>>) = 0
  OBVIOUS
<1>2. PICK f : Said(<<>>, 0, f) /\ Content(<<>>) = f[0]
  BY <1>1, ContentIsSaid
<1>. QED
  BY <1>2 DEF Said

LEMMA ContentAppend ==
    ASSUME NEW S, NEW h \in Seq(S), NEW e \in S
    PROVE  Content(Append(h, e)) =
               IF Kind(e) = "" THEN Content(h)
               ELSE Append(Content(h), [k |-> Kind(e), n |-> e.n])
<1> DEFINE g == Append(h, e)
           m == Len(h)
<1>1. /\ m \in Nat /\ Len(g) = m + 1 /\ Len(g) \in Nat /\ g[m + 1] = e
      /\ \A j \in 1..m : h[j] = g[j]
  OBVIOUS
<1>2. PICK f1 : Said(h, m, f1) /\ Content(h) = f1[m]
  BY <1>1, ContentIsSaid
<1>3. PICK f2 : Said(g, m + 1, f2) /\ Content(g) = f2[m + 1]
  <2> HIDE DEF g, m
  <2>. QED
    BY <1>1, ContentIsSaid
<1> HIDE DEF g, m
<1>4. f1[m] = f2[m]
  <2>1. m <= m + 1 /\ m + 1 \in Nat
    BY <1>1
  <2>. QED
    BY <2>1, <1>1, <1>2, <1>3, SaidAgree
<1>5. f2[m + 1] = IF Kind(g[m + 1]) = "" THEN f2[m]
                  ELSE Append(f2[m], [k |-> Kind(g[m + 1]), n |-> g[m + 1].n])
  <2>1. m + 1 \in 0..(m + 1) /\ m + 1 # 0 /\ (m + 1) - 1 = m
    BY <1>1
  <2>. QED
    BY <1>3, <2>1, Zenon DEF Said
<1>6. Content(g) = IF Kind(e) = "" THEN Content(h)
               ELSE Append(Content(h), [k |-> Kind(e), n |-> e.n])
  BY <1>1, <1>2, <1>3, <1>4, <1>5, Zenon
<1>. QED
  BY <1>6, Zenon DEF g

Speech == [k : {"text", "think", "args"}, n : Nat]

\* The events of S say pieces of Speech.
Speak(S) == \A e \in S : Kind(e) # "" => [k |-> Kind(e), n |-> e.n] \in Speech

LEMMA ContentType ==
    ASSUME NEW S, Speak(S), NEW h \in Seq(S)
    PROVE  Content(h) \in Seq(Speech)
<1> DEFINE A == {n \in Nat : \A x \in Seq(S) : Len(x) = n => Content(x) \in Seq(Speech)}
<1>1. 0 \in A
  <2>1. ASSUME NEW x \in Seq(S), Len(x) = 0 PROVE x = <<>>
    BY <2>1
  <2>. QED
    BY <2>1, ContentEmpty
<1>2. ASSUME NEW n \in Nat, n \in A PROVE n + 1 \in A
  <2>1. SUFFICES ASSUME NEW x \in Seq(S), Len(x) = n + 1 PROVE Content(x) \in Seq(Speech)
    OBVIOUS
  <2> HIDE DEF A
  <2>2. x # <<>>
    BY <2>1
  <2>3. PICK y \in Seq(S), e \in S : x = Append(y, e)
    BY <2>2, SequenceEmptyOrAppend
  <2>4. Content(y) \in Seq(Speech)
    BY <1>2, <2>1, <2>3 DEF A
  <2>5. Content(x) = IF Kind(e) = "" THEN Content(y)
                     ELSE Append(Content(y), [k |-> Kind(e), n |-> e.n])
    BY <2>3, ContentAppend, Zenon
  <2>6. Kind(e) # "" => Append(Content(y), [k |-> Kind(e), n |-> e.n]) \in Seq(Speech)
    BY <2>4, AppendProperties, Zenon DEF Speak
  <2>. QED
    BY <2>4, <2>5, <2>6, Zenon
<1>. QED
  <2> HIDE DEF A
  <2>1. Len(h) \in A
    BY <1>1, <1>2, Induction
  <2>. QED
    BY <2>1 DEF A

LastAssociates(a, b, e) == Append(a \o b, e) = a \o Append(b, e)

LEMMA AppendAssociates ==
    ASSUME NEW S, NEW a \in Seq(S), NEW b \in Seq(S), NEW e \in S
    PROVE  LastAssociates(a, b, e)
BY DEF LastAssociates

LEMMA ContentConcat ==
    ASSUME NEW S, Speak(S), NEW h \in Seq(S), NEW w \in Seq(S)
    PROVE  Content(h \o w) = Content(h) \o Content(w)
<1> DEFINE A == {n \in Nat : \A x \in Seq(S) : Len(x) = n =>
                                Content(h \o x) = Content(h) \o Content(x)}
<1>0. Content(h) \in Seq(Speech)
  BY ContentType
<1>1. 0 \in A
  <2>1. ASSUME NEW x \in Seq(S), Len(x) = 0 PROVE x = <<>> /\ h \o x = h
    BY <2>1
  <2>2. Content(h) \o <<>> = Content(h)
    BY <1>0
  <2>. QED
    BY <2>1, <2>2, ContentEmpty
<1>2. ASSUME NEW n \in Nat, n \in A PROVE n + 1 \in A
  <2>1. SUFFICES ASSUME NEW x \in Seq(S), Len(x) = n + 1
                 PROVE  Content(h \o x) = Content(h) \o Content(x)
    OBVIOUS
  <2>2. PICK y \in Seq(S), e \in S : x = Append(y, e)
    BY <2>1, SequenceEmptyOrAppend, SMTT(30)
  <2>3. Content(h \o y) = Content(h) \o Content(y)
    BY <1>2, <2>1, <2>2
  <2>4. h \o x = Append(h \o y, e) /\ h \o y \in Seq(S)
    BY <2>2
  <2>5. Content(y) \in Seq(Speech)
    BY ContentType
  <2>6. CASE Kind(e) = ""
    BY <2>2, <2>3, <2>4, <2>6, ContentAppend, Zenon
  <2>7. CASE Kind(e) # ""
    <3> DEFINE p == [k |-> Kind(e), n |-> e.n]
    <3>1. p \in Speech
      BY <2>7, Zenon DEF Speak
    <3>2. Content(x) = Append(Content(y), p) /\ Content(h \o x) = Append(Content(h \o y), p)
      BY <2>2, <2>4, <2>7, ContentAppend, Zenon
    <3> HIDE DEF p
    <3>3. Append(Content(h) \o Content(y), p) = Content(h) \o Append(Content(y), p)
      <4>1. LastAssociates(Content(h), Content(y), p)
        BY <3>1, <2>5, <1>0, AppendAssociates, Zenon
      <4>. QED
        BY <4>1, Zenon DEF LastAssociates
    <3>. QED
      BY <3>2, <3>3, <2>3
  <2>. QED
    BY <2>6, <2>7, Zenon
<1>. QED
  <2> HIDE DEF A
  <2>1. Len(w) \in A
    BY <1>1, <1>2, Induction
  <2>. QED
    BY <2>1 DEF A

LEMMA ContentPrefix ==
    ASSUME NEW S, Speak(S), NEW h \in Seq(S), NEW j \in 0..Len(h)
    PROVE  /\ SubSeq(h, 1, j) \in Seq(S)
           /\ IsPrefix(Content(SubSeq(h, 1, j)), Content(h))
<1> DEFINE a == SubSeq(h, 1, j)
           b == SubSeq(h, j + 1, Len(h))
<1>1. a \in Seq(S) /\ b \in Seq(S)
  OBVIOUS
<1>2. a \o b = SubSeq(h, 1, Len(h)) /\ SubSeq(h, 1, Len(h)) = h
  <2>1. 1 \in 1..(Len(h) + 1) /\ j \in (1 - 1)..Len(h) /\ Len(h) \in j..Len(h)
    OBVIOUS
  <2>. QED
    BY <2>1, ConcatAdjacentSubSeq, SubSeqFull, Zenon
<1> HIDE DEF a, b
<1>3. Content(h) = Content(a) \o Content(b)
  BY <1>1, <1>2, ContentConcat, Zenon
<1>4. Content(a) \in Seq(Speech) /\ Content(b) \in Seq(Speech)
  BY <1>1, ContentType
<1>5. IsPrefix(Content(a), Content(a) \o Content(b))
  BY <1>4 DEF IsPrefix
<1>. QED
  BY <1>1, <1>3, <1>5 DEF a

----------------------------------------------------------------------------
(* The emitters: their types, and what their methods may write             *)

Fields == {"prompt", "completion"}
Endings == {"DONE", "message_stop", "completed", "incomplete"}
CutReasons == {"length", "max_tokens"}

OutTypes ==
    Endings \cup
    {"role", "text", "think", "call", "args", "finish", "usage",
     "message_start", "block_start", "block_delta", "block_stop", "message_delta",
     "created", "item_added", "part_added", "text_delta", "think_delta", "args_delta",
     "text_done", "part_done", "args_done", "item_done", "failed"}
Kinds == {"", "text", "think", "tool", "message", "call", "stop", "tool_calls",
          "length", "end_turn", "tool_use", "max_tokens"}
OutEvents == {e \in [t : OutTypes, i : Nat, n : Nat, k : Kinds, u : SUBSET Fields] :
                e.t = "block_delta" => e.k \in {"text", "think", "tool"}}
\* Events in the middle of an answer.
Middle == {e \in OutEvents : e.t \notin Endings /\ e.k \notin CutReasons}

ToolParts == [at : Nat, id : Nat, open : BOOLEAN]
Tooling == UNION {[D -> ToolParts] : D \in {X \in SUBSET Nat : IsFiniteSet(X)}}
Emitters ==
    {e \in [roleSent : BOOLEAN, finished : BOOLEAN, usage : SUBSET Fields,
            current : {"", "text", "think"}, block : Nat, next : Nat,
            tools : Tooling, order : Seq(Nat), added : BOOLEAN, item : Nat,
            part : BOOLEAN] :
        \A j \in 1..Len(e.order) : e.order[j] \in DOMAIN e.tools}
States == [e : Emitters, w : Seq(OutEvents)]

\* From s to t nothing but p is said, in the middle of the answer.
Says(s, t, p) ==
    /\ t \in States
    /\ t.e.usage = s.e.usage /\ t.e.finished = s.e.finished
    /\ \E x \in Seq(Middle) : t.w = s.w \o x /\ Content(x) = p

LEMMA OutSpeak == Speak(OutEvents) /\ Speak(Middle)
<1>1. ASSUME NEW e \in OutEvents, Kind(e) # "" PROVE [k |-> Kind(e), n |-> e.n] \in Speech
  <2>1. Kind(e) \in {"text", "think", "args"}
    BY <1>1, Zenon DEF Kind, OutEvents
  <2>. QED
    BY <2>1 DEF Speech, OutEvents
<1>2. Middle \subseteq OutEvents
  BY DEF Middle
<1>. QED
  BY <1>1, <1>2, Zenon DEF Speak

LEMMA NothingSaid ==
    ASSUME NEW s \in States, NEW t \in States, t.w = s.w,
           t.e.usage = s.e.usage, t.e.finished = s.e.finished
    PROVE  Says(s, t, <<>>)
<1>1. <<>> \in Seq(Middle) /\ s.w \o <<>> = s.w
  BY DEF States
<1>. QED
  BY <1>1, ContentEmpty DEF Says

LEMMA SingleContent ==
    ASSUME NEW S, NEW o \in S
    PROVE  Content(<<o>>) = PieceOf(o)
<1>1. <<>> \in Seq(S) /\ <<o>> = Append(<<>>, o)
  OBVIOUS
<1>2. Content(<<o>>) = IF Kind(o) = "" THEN <<>>
                       ELSE Append(<<>>, [k |-> Kind(o), n |-> o.n])
  BY <1>1, ContentAppend, ContentEmpty, Zenon
<1>3. Append(<<>>, [k |-> Kind(o), n |-> o.n]) = <<[k |-> Kind(o), n |-> o.n]>>
  OBVIOUS
<1>. QED
  BY <1>2, <1>3, Zenon DEF PieceOf

LEMMA OneSaid ==
    ASSUME NEW s \in States, NEW t \in States, NEW o \in Middle, t.w = Append(s.w, o),
           t.e.usage = s.e.usage, t.e.finished = s.e.finished
    PROVE  Says(s, t, PieceOf(o))
<1>1. <<o>> \in Seq(Middle)
  OBVIOUS
<1>2. Content(<<o>>) = PieceOf(o)
  BY SingleContent
<1>3. s.w \in Seq(OutEvents) /\ o \in OutEvents
  BY DEF States, Middle
<1>4. t.w = s.w \o <<o>>
  BY <1>3, AppendIsConcat
<1>. QED
  BY <1>1, <1>2, <1>4 DEF Says

Associates(a, b, c) == (a \o b) \o c = a \o (b \o c)

LEMMA ConcatsAssociate ==
    ASSUME NEW S, NEW a \in Seq(S), NEW b \in Seq(S), NEW c \in Seq(S)
    PROVE  Associates(a, b, c)
BY ConcatAssociative DEF Associates

LEMMA SaysThen ==
    ASSUME NEW s \in States, NEW t, NEW u, NEW p, NEW q, Says(s, t, p), Says(t, u, q)
    PROVE  Says(s, u, p \o q)
<1>1. PICK x \in Seq(Middle) : t.w = s.w \o x /\ Content(x) = p
  BY DEF Says
<1>2. PICK y \in Seq(Middle) : u.w = t.w \o y /\ Content(y) = q
  BY DEF Says
<1>3. x \o y \in Seq(Middle) /\ Content(x \o y) = p \o q
  BY <1>1, <1>2, OutSpeak, ContentConcat, ConcatProperties
<1>4. u.w = s.w \o (x \o y)
  <2>1. s.w \in Seq(OutEvents) /\ x \in Seq(OutEvents) /\ y \in Seq(OutEvents)
    <3>1. Middle \subseteq OutEvents
      BY DEF Middle
    <3>. QED
      BY <3>1, SeqMonotonic DEF States
  <2>2. (s.w \o x) \o y = s.w \o (x \o y)
    <3>1. Associates(s.w, x, y)
      BY <2>1, ConcatsAssociate, Zenon
    <3>. QED
      BY <3>1, Zenon DEF Associates
  <2>. QED
    BY <2>2, <1>1, <1>2, Zenon
<1>. QED
  BY <1>3, <1>4 DEF Says

\* A step that says nothing before or after one that says p.
LEMMA QuietThen ==
    ASSUME NEW s \in States, NEW t, NEW u, NEW p \in Seq(Speech)
    PROVE  /\ Says(s, t, <<>>) /\ Says(t, u, p) => Says(s, u, p)
           /\ Says(s, t, p) /\ Says(t, u, <<>>) => Says(s, u, p)
<1>1. <<>> \o p = p /\ p \o <<>> = p
  OBVIOUS
<1>. QED
  BY <1>1, SaysThen

LEMMA AfterQuiet ==
    ASSUME NEW s \in States, NEW t, NEW u, NEW p \in Seq(Speech),
           Says(s, t, <<>>), Says(t, u, p)
    PROVE  Says(s, u, p)
BY QuietThen

LEMMA QuietQuiet ==
    ASSUME NEW s \in States, NEW t, NEW u, Says(s, t, <<>>), Says(t, u, <<>>)
    PROVE  Says(s, u, <<>>)
<1>1. <<>> \in Seq(Speech)
  OBVIOUS
<1>. QED
  BY <1>1, QuietThen

----------------------------------------------------------------------------
(* The methods of the emitters one by one                                  *)

LEMMA EmitterNumbers ==
    ASSUME NEW s \in States
    PROVE  /\ s.e.next \in Nat /\ s.e.next + 1 \in Nat
           /\ s.e.block \in Nat /\ s.e.item \in Nat
<1>1. s.e.next \in Nat /\ s.e.block \in Nat /\ s.e.item \in Nat
  BY Zenon DEF States, Emitters
<1>. QED
  BY <1>1

LEMMA NewEmitterType == NewEmitter \in Emitters
<1>1. <<>> \in Tooling
  <2>1. <<>> \in [{} -> ToolParts]
    OBVIOUS
  <2>. QED
    BY <2>1, FS_EmptySet DEF Tooling
<1>2. <<>> \in Seq(Nat) /\ Len(<<>>) = 0
  OBVIOUS
<1>3. NewEmitter.order = <<>> /\ {} \in SUBSET Fields
  BY DEF NewEmitter
<1>4. NewEmitter \in [roleSent : BOOLEAN, finished : BOOLEAN, usage : SUBSET Fields,
            current : {"", "text", "think"}, block : Nat, next : Nat,
            tools : Tooling, order : Seq(Nat), added : BOOLEAN, item : Nat,
            part : BOOLEAN]
  BY <1>1, <1>2, <1>3 DEF NewEmitter
<1>5. 1..Len(NewEmitter.order) = {}
  BY <1>2, <1>3
<1>. QED
  BY <1>4, <1>5, Zenon DEF Emitters

LEMMA WriteSays ==
    ASSUME NEW s \in States, NEW o \in Middle
    PROVE  /\ Write(s, o) \in States
           /\ Write(s, o).e = s.e /\ Write(s, o).w = Append(s.w, o)
           /\ Says(s, Write(s, o), PieceOf(o))
<1>1. o \in OutEvents
  BY DEF Middle
<1>2. Append(s.w, o) \in Seq(OutEvents)
  BY <1>1 DEF States
<1>3. Write(s, o) = [e |-> s.e, w |-> Append(s.w, o)]
  BY SMTT(30) DEF Write, States
<1>4. Write(s, o) \in States
  BY <1>2, <1>3 DEF States
<1>. QED
  BY <1>3, <1>4, OneSaid

\* The events the emitters write, field by field.
Ev(t, i, n, k) == [t |-> t, i |-> i, n |-> n, k |-> k, u |-> {}]
ContentTypes == {"text", "text_delta", "think", "think_delta",
                 "args", "args_delta", "block_delta"}

One(t, i, n, k) == [t : {t}, i : {i}, n : {n}, k : {k}, u : {{}}]

LEMMA EvOnly ==
    ASSUME NEW t, NEW i, NEW n, NEW k, NEW e \in One(t, i, n, k)
    PROVE  e = Ev(t, i, n, k)
BY DEF One, Ev

LEMMA OutEv == ASSUME NEW t PROVE Out(t) = Ev(t, 0, 0, "")
<1>1. Out(t) \in One(t, 0, 0, "")
  BY DEF Out, One
<1>. QED
  BY <1>1, EvOnly, Zenon

LEMMA AtEv == ASSUME NEW t, NEW i PROVE At(t, i) = Ev(t, i, 0, "")
<1>1. At(t, i) \in One(t, i, 0, "")
  BY Zenon DEF Out, At, One
<1>. QED
  BY <1>1, EvOnly, Zenon

LEMMA OutPayload == ASSUME NEW t, NEW n PROVE [Out(t) EXCEPT !.n = n] = Ev(t, 0, n, "")
<1>1. [Out(t) EXCEPT !.n = n] \in One(t, 0, n, "")
  BY Zenon DEF Out, One
<1>. QED
  BY <1>1, EvOnly, Zenon

LEMMA AtPayload == ASSUME NEW t, NEW i, NEW n PROVE [At(t, i) EXCEPT !.n = n] = Ev(t, i, n, "")
<1>1. [At(t, i) EXCEPT !.n = n] \in One(t, i, n, "")
  BY Zenon DEF Out, At, One
<1>. QED
  BY <1>1, EvOnly, Zenon

LEMMA AtKind == ASSUME NEW t, NEW i, NEW k PROVE [At(t, i) EXCEPT !.k = k] = Ev(t, i, 0, k)
<1>1. [At(t, i) EXCEPT !.k = k] \in One(t, i, 0, k)
  BY DEF Out, At, One
<1>. QED
  BY <1>1, EvOnly, Zenon

LEMMA AtPayloadKind ==
    ASSUME NEW t, NEW i, NEW n, NEW k
    PROVE  [At(t, i) EXCEPT !.n = n, !.k = k] = Ev(t, i, n, k)
<1>1. [At(t, i) EXCEPT !.n = n, !.k = k] \in One(t, i, n, k)
  BY DEF Out, At, One
<1>. QED
  BY <1>1, EvOnly, Zenon

LEMMA AtKindPayload ==
    ASSUME NEW t, NEW i, NEW n, NEW k
    PROVE  [At(t, i) EXCEPT !.k = k, !.n = n] = Ev(t, i, n, k)
<1>1. [At(t, i) EXCEPT !.k = k, !.n = n] \in One(t, i, n, k)
  BY DEF Out, At, One
<1>. QED
  BY <1>1, EvOnly, Zenon

LEMMA OutKind == ASSUME NEW t, NEW k PROVE [Out(t) EXCEPT !.k = k] = Ev(t, 0, 0, k)
<1>1. [Out(t) EXCEPT !.k = k] \in One(t, 0, 0, k)
  BY Zenon DEF Out, One
<1>. QED
  BY <1>1, EvOnly, Zenon

LEMMA OutKindUsage ==
    ASSUME NEW t, NEW k, NEW u
    PROVE  [Out(t) EXCEPT !.k = k, !.u = u] = [t |-> t, i |-> 0, n |-> 0, k |-> k, u |-> u]
<1>1. [Out(t) EXCEPT !.k = k, !.u = u] \in [t : {t}, i : {0}, n : {0}, k : {k}, u : {u}]
  BY DEF Out
<1>2. ASSUME NEW e \in [t : {t}, i : {0}, n : {0}, k : {k}, u : {u}]
      PROVE  e = [t |-> t, i |-> 0, n |-> 0, k |-> k, u |-> u]
  OBVIOUS
<1>. QED
  BY <1>1, <1>2, Zenon

LEMMA EvMiddle ==
    ASSUME NEW t \in OutTypes, t \notin Endings, NEW i \in Nat, NEW n \in Nat,
           NEW k \in Kinds, k \notin CutReasons,
           t = "block_delta" => k \in {"text", "think", "tool"}
    PROVE  /\ Ev(t, i, n, k) \in Middle
           /\ Ev(t, i, n, k).n = n /\ Ev(t, i, n, k).t = t
           /\ t \notin ContentTypes => PieceOf(Ev(t, i, n, k)) = <<>>
<1>1. {} \in SUBSET Fields
  OBVIOUS
<1>0. Ev(t, i, n, k).k = k /\ Ev(t, i, n, k).t = t
  BY DEF Ev
<1>2. Ev(t, i, n, k) \in Middle
  BY <1>1 DEF Middle, OutEvents, Ev
<1>3. ASSUME t \notin ContentTypes PROVE Kind(Ev(t, i, n, k)) = ""
  BY <1>3, Zenon DEF ContentTypes, Kind, Ev, OutTypes, Endings
<1>. QED
  BY <1>2, <1>3, Zenon DEF PieceOf, Ev

\* Events without content in the middle of an answer.
Quiet == {"role", "call", "usage", "finish", "message_start", "block_start", "block_stop",
          "message_delta", "created", "item_added", "part_added", "text_done", "part_done",
          "args_done", "item_done", "failed"}
QuietKinds == {"", "text", "think", "tool", "message", "call"}

LEMMA QuietNames ==
    /\ "role" \in Quiet /\ "call" \in Quiet /\ "usage" \in Quiet
    /\ "finish" \in Quiet /\ "message_start" \in Quiet /\ "block_start" \in Quiet
    /\ "block_stop" \in Quiet /\ "message_delta" \in Quiet /\ "created" \in Quiet
    /\ "item_added" \in Quiet /\ "part_added" \in Quiet /\ "text_done" \in Quiet
    /\ "part_done" \in Quiet /\ "args_done" \in Quiet /\ "item_done" \in Quiet
    /\ "failed" \in Quiet
    /\ "" \in QuietKinds /\ "text" \in QuietKinds /\ "think" \in QuietKinds
    /\ "tool" \in QuietKinds /\ "message" \in QuietKinds /\ "call" \in QuietKinds
    /\ 0 \in Nat
BY Zenon DEF Quiet, QuietKinds

LEMMA EvQuiet ==
    ASSUME NEW t \in Quiet, NEW i \in Nat, NEW n \in Nat, NEW k \in QuietKinds
    PROVE  Ev(t, i, n, k) \in Middle /\ PieceOf(Ev(t, i, n, k)) = <<>>
<1>1. t \in OutTypes /\ t \notin Endings /\ t \notin ContentTypes /\ t # "block_delta"
  BY DEF Quiet, OutTypes, Endings, ContentTypes
<1>2. k \in Kinds /\ k \notin CutReasons
  BY Zenon DEF QuietKinds, Kinds, CutReasons
<1>. QED
  BY <1>1, <1>2, EvMiddle

LEMMA Blank == "" \in Kinds /\ "" \notin CutReasons
BY DEF Kinds, CutReasons

\* One event is written and the emitter changes, but for usage and finished.
LEMMA WriteChange ==
    ASSUME NEW s \in States, NEW o \in Middle, NEW t \in States,
           t.w = Write(s, o).w, t.e.usage = Write(s, o).e.usage,
           t.e.finished = Write(s, o).e.finished
    PROVE  Says(s, t, PieceOf(o))
BY WriteSays, OneSaid

LEMMA ChatRoleSays ==
    ASSUME NEW s \in States
    PROVE  Says(s, ChatRole(s), <<>>)
<1>1. CASE s.e.roleSent
  BY <1>1, NothingSaid DEF ChatRole
<1>2. CASE ~s.e.roleSent
  <2> DEFINE o == Ev("role", 0, 0, "")
             w == Write(s, o)
             t == [w EXCEPT !.e.roleSent = TRUE]
  <2>1. o \in Middle /\ PieceOf(o) = <<>>
    BY EvQuiet, QuietNames, Zenon
  <2>2. ChatRole(s) = t
    BY <1>2, OutEv, Zenon DEF ChatRole
  <2> HIDE DEF o
  <2>3. w \in States
    BY <2>1, WriteSays
  <2>4. t \in States /\ t.w = w.w /\ t.e.usage = w.e.usage /\ t.e.finished = w.e.finished
    <3> HIDE DEF w
    <3>. QED
      BY <2>3, Zenon DEF States, Emitters
  <2> HIDE DEF t
  <2>. QED
    BY <2>1, <2>2, <2>4, WriteChange
<1>. QED
  BY <1>1, <1>2

LEMMA ChatSays ==
    ASSUME NEW s \in States, NEW i \in Nat, NEW n \in Nat, NEW k \in {"text", "think"}
    PROVE  /\ Says(s, ChatDelta(s, k, n), <<[k |-> k, n |-> n]>>)
           /\ Says(s, ChatToolStart(s, i, n), <<>>)
           /\ Says(s, ChatToolDelta(s, i, n), <<[k |-> "args", n |-> n]>>)
<1>1. ChatRole(s) \in States /\ Says(s, ChatRole(s), <<>>)
  BY ChatRoleSays DEF Says
<1>2. Ev(k, 0, n, "") \in Middle /\ PieceOf(Ev(k, 0, n, "")) = <<[k |-> k, n |-> n]>>
  <2>1. k \in OutTypes /\ k \notin Endings /\ k # "block_delta" /\ "" \in Kinds
        /\ "" \notin CutReasons
    BY DEF OutTypes, Endings, Kinds, CutReasons
  <2>2. Kind(Ev(k, 0, n, "")) = k /\ k # "" /\ Ev(k, 0, n, "").n = n
    BY Zenon DEF Kind, Ev
  <2>. QED
    BY <2>1, <2>2, EvMiddle, Zenon DEF PieceOf
<1>3. Ev("args", i, n, "") \in Middle
      /\ PieceOf(Ev("args", i, n, "")) = <<[k |-> "args", n |-> n]>>
  <2>1. "args" \in OutTypes /\ "args" \notin Endings /\ "args" # "block_delta" /\ "" \in Kinds
        /\ "" \notin CutReasons
    BY DEF OutTypes, Endings, Kinds, CutReasons
  <2>2. Kind(Ev("args", i, n, "")) = "args" /\ Ev("args", i, n, "").n = n
    BY DEF Kind, Ev
  <2>. QED
    BY <2>1, <2>2, EvMiddle, Zenon DEF PieceOf
<1>4. Ev("call", i, n, "") \in Middle /\ PieceOf(Ev("call", i, n, "")) = <<>>
  BY EvQuiet, QuietNames, Zenon
<1>5. Says(s, ChatDelta(s, k, n), <<[k |-> k, n |-> n]>>)
  <2>1. Says(ChatRole(s), ChatDelta(s, k, n), <<[k |-> k, n |-> n]>>)
    <3>1. ChatDelta(s, k, n) = Write(ChatRole(s), Ev(k, 0, n, ""))
      BY OutPayload, Zenon DEF ChatDelta
    <3>. QED
      BY <3>1, <1>1, <1>2, WriteSays, Zenon
  <2>2. <<[k |-> k, n |-> n]>> \in Seq(Speech)
    BY DEF Speech
  <2>. QED
    BY <1>1, <2>1, <2>2, QuietThen
<1>6. Says(s, ChatToolStart(s, i, n), <<>>)
  <2>1. Says(ChatRole(s), ChatToolStart(s, i, n), <<>>)
    <3>1. ChatToolStart(s, i, n) = Write(ChatRole(s), Ev("call", i, n, ""))
      BY AtPayload, Zenon DEF ChatToolStart
    <3>. QED
      BY <3>1, <1>1, <1>4, WriteSays, Zenon
  <2>. QED
    BY <1>1, <2>1, QuietQuiet
<1>7. Says(s, ChatToolDelta(s, i, n), <<[k |-> "args", n |-> n]>>)
  <2>1. ChatToolDelta(s, i, n) = Write(s, Ev("args", i, n, ""))
    BY AtPayload, Zenon DEF ChatToolDelta
  <2>. QED
    BY <2>1, <1>3, WriteSays, Zenon
<1>. QED
  BY <1>5, <1>6, <1>7

LEMMA StartSays ==
    ASSUME NEW s \in States, NEW p \in Protocols
    PROVE  Says(s, OnStart(p, s), <<>>)
<1>1. Says(s, s, <<>>)
  BY NothingSaid
<1>2. Says(s, MessagesStart(s), <<>>)
  <2>1. MessagesStart(s) = Write(s, Ev("message_start", 0, 0, ""))
    BY OutEv, Zenon DEF MessagesStart
  <2>2. Ev("message_start", 0, 0, "") \in Middle /\ PieceOf(Ev("message_start", 0, 0, "")) = <<>>
    BY EvQuiet, QuietNames, Zenon
  <2>. QED
    BY <2>1, <2>2, WriteSays, Zenon
<1>3. Says(s, ResponsesStart(s), <<>>)
  <2>1. ResponsesStart(s) = Write(s, Ev("created", 0, 0, ""))
    BY OutEv, Zenon DEF ResponsesStart
  <2>2. Ev("created", 0, 0, "") \in Middle /\ PieceOf(Ev("created", 0, 0, "")) = <<>>
    BY EvQuiet, QuietNames, Zenon
  <2>. QED
    BY <2>1, <2>2, WriteSays, Zenon
<1>. QED
  BY <1>1, <1>2, <1>3, Zenon DEF OnStart, Protocols

LEMMA CloseSays ==
    ASSUME NEW s \in States
    PROVE  Says(s, CloseCurrentBlock(s), <<>>)
<1>1. CASE s.e.current = ""
  BY <1>1, NothingSaid, Zenon DEF CloseCurrentBlock
<1>2. CASE s.e.current # ""
  <2> DEFINE o == Ev("block_stop", s.e.block, 0, "")
             w == Write(s, o)
             t == [w EXCEPT !.e.current = "", !.e.next = @ + 1]
  <2>1. o \in Middle /\ PieceOf(o) = <<>>
    <3>1. s.e.block \in Nat
      BY Zenon DEF States, Emitters
    <3>. QED
      BY <3>1, EvQuiet, QuietNames, Zenon
  <2>2. CloseCurrentBlock(s) = t
    BY <1>2, AtEv, Zenon DEF CloseCurrentBlock
  <2> HIDE DEF o
  <2>3. w \in States
    BY <2>1, WriteSays
  <2>4. t \in States /\ t.w = w.w /\ t.e.usage = w.e.usage /\ t.e.finished = w.e.finished
    <3> HIDE DEF w
    <3>1. w.e.next + 1 \in Nat
      BY <2>3, EmitterNumbers
    <3>. QED
      BY <2>3, <3>1, Zenon DEF States, Emitters
  <2> HIDE DEF t
  <2>. QED
    BY <2>1, <2>2, <2>4, WriteChange
<1>. QED
  BY <1>1, <1>2, Zenon

LEMMA OpenSays ==
    ASSUME NEW s \in States, NEW k \in {"text", "think"}
    PROVE  Says(s, OpenBlock(s, k), <<>>)
<1> DEFINE o == Ev("block_start", s.e.next, 0, k)
           w == Write(s, o)
           t == [w EXCEPT !.e.block = s.e.next, !.e.current = k]
<1>0. s.e.next \in Nat
  BY Zenon DEF States, Emitters
<1>1. o \in Middle /\ PieceOf(o) = <<>>
  <2>1. k \in QuietKinds
    BY Zenon DEF QuietKinds
  <2>. QED
    BY <1>0, <2>1, EvQuiet DEF Quiet
<1>2. OpenBlock(s, k) = t
  <2>1. [At("block_start", s.e.next) EXCEPT !.k = k] = o
    BY AtKind, Zenon
  <2>. QED
    BY <2>1 DEF OpenBlock
<1> HIDE DEF o
<1>3. w \in States
  BY <1>1, WriteSays
<1>4. t \in States /\ t.w = w.w /\ t.e.usage = w.e.usage /\ t.e.finished = w.e.finished
  <2> HIDE DEF w
  <2>. QED
    BY <1>0, <1>3, Zenon DEF States, Emitters
<1> HIDE DEF t
<1>. QED
  BY <1>1, <1>2, <1>4, WriteChange

LEMMA MessagesDeltaSays ==
    ASSUME NEW s \in States, NEW n \in Nat, NEW k \in {"text", "think"}
    PROVE  Says(s, MessagesDelta(s, k, n), <<[k |-> k, n |-> n]>>)
<1> DEFINE c == IF s.e.current = k THEN s ELSE CloseCurrentBlock(s)
           o == IF c.e.current = "" THEN OpenBlock(c, k) ELSE c
           e == Ev("block_delta", o.e.block, n, k)
<1>1. Says(s, c, <<>>) /\ c \in States
  <2>1. Says(s, c, <<>>)
    BY CloseSays, NothingSaid, Zenon
  <2>. QED
    BY <2>1, Zenon DEF Says
<1> HIDE DEF c
<1>2. Says(c, o, <<>>) /\ o \in States
  <2>1. Says(c, OpenBlock(c, k), <<>>) /\ Says(c, c, <<>>)
    BY <1>1, OpenSays, NothingSaid, Zenon
  <2>2. Says(c, o, <<>>)
    BY <2>1, Zenon
  <2>. QED
    BY <2>2, Zenon DEF Says
<1>3. MessagesDelta(s, k, n) = Write(o, e)
  BY AtPayloadKind, Zenon DEF MessagesDelta, c
<1> HIDE DEF o
<1>4. e \in Middle /\ PieceOf(e) = <<[k |-> k, n |-> n]>>
  <2>1. /\ "block_delta" \in OutTypes /\ "block_delta" \notin Endings
        /\ k \in Kinds /\ k \notin CutReasons
    BY Zenon DEF OutTypes, Endings, Kinds, CutReasons
  <2>2. Kind(e) = k /\ k # ""
    BY Zenon DEF Kind, Ev
  <2>3. o.e.block \in Nat
    BY <1>2, Zenon DEF States, Emitters
  <2>4. e \in Middle /\ e.n = n
    BY <2>1, <2>3, EvMiddle
  <2>. QED
    BY <2>2, <2>4, Zenon DEF PieceOf
<1> HIDE DEF e
<1>5. Says(s, o, <<>>)
  BY <1>1, <1>2, QuietQuiet
<1>6. Says(o, Write(o, e), <<[k |-> k, n |-> n]>>)
  BY <1>2, <1>4, WriteSays
<1> DEFINE p == <<[k |-> k, n |-> n]>>
<1>7. p \in Seq(Speech)
  BY DEF Speech
<1>8. Says(o, Write(o, e), p)
  BY <1>6, Zenon
<1>9. Says(s, Write(o, e), p)
  <2> HIDE DEF p
  <2>. QED
    BY <1>5, <1>7, <1>8, AfterQuiet, Zenon
<1>. QED
  BY <1>3, <1>9, Zenon

LEMMA ToolsType ==
    ASSUME NEW f \in Tooling
    PROVE  /\ DOMAIN f \subseteq Nat /\ IsFiniteSet(DOMAIN f)
           /\ f \in [DOMAIN f -> ToolParts]
BY DEF Tooling

LEMMA ToolAdded ==
    ASSUME NEW f \in Tooling, NEW i \in Nat, NEW part \in ToolParts
    PROVE  LET g == [j \in DOMAIN f \cup {i} |-> IF j = i THEN part ELSE f[j]]
           IN  g \in Tooling /\ DOMAIN g = DOMAIN f \cup {i}
<1> DEFINE g == [j \in DOMAIN f \cup {i} |-> IF j = i THEN part ELSE f[j]]
<1>1. DOMAIN f \subseteq Nat /\ IsFiniteSet(DOMAIN f) /\ f \in [DOMAIN f -> ToolParts]
  BY ToolsType
<1>2. g \in [DOMAIN f \cup {i} -> ToolParts] /\ DOMAIN f \cup {i} \in SUBSET Nat
      /\ IsFiniteSet(DOMAIN f \cup {i})
  BY <1>1, FS_AddElement
<1>. QED
  BY <1>2 DEF Tooling

LEMMA ToolNamed ==
    ASSUME NEW f \in Tooling, NEW i \in DOMAIN f, NEW id \in Nat
    PROVE  LET g == [f EXCEPT ![i].id = IF id = 0 THEN @ ELSE id]
           IN  g \in Tooling /\ DOMAIN g = DOMAIN f
<1> DEFINE x == IF id = 0 THEN f[i].id ELSE id
           g == [f EXCEPT ![i].id = x]
<1>1. DOMAIN f \subseteq Nat /\ IsFiniteSet(DOMAIN f) /\ f \in [DOMAIN f -> ToolParts]
  BY ToolsType
<1>2. x \in Nat
  BY <1>1 DEF ToolParts
<1>3. [f[i] EXCEPT !.id = x] \in ToolParts
  <2> HIDE DEF x
  <2>. QED
    BY <1>1, <1>2 DEF ToolParts
<1>4. g \in [DOMAIN f -> ToolParts]
  <2> HIDE DEF x
  <2>. QED
    BY <1>1, <1>3
<1>. QED
  BY <1>1, <1>4 DEF Tooling

LEMMA ToolsClosed ==
    ASSUME NEW f \in Tooling
    PROVE  LET g == [j \in DOMAIN f |-> [f[j] EXCEPT !.open = FALSE]]
           IN  g \in Tooling /\ DOMAIN g = DOMAIN f
<1> DEFINE g == [j \in DOMAIN f |-> [f[j] EXCEPT !.open = FALSE]]
<1>1. DOMAIN f \subseteq Nat /\ IsFiniteSet(DOMAIN f) /\ f \in [DOMAIN f -> ToolParts]
  BY ToolsType
<1>2. g \in [DOMAIN f -> ToolParts]
  BY <1>1 DEF ToolParts
<1>. QED
  BY <1>1, <1>2 DEF Tooling

LEMMA MessagesToolStartSays ==
    ASSUME NEW s \in States, NEW i \in Nat, NEW id \in Nat
    PROVE  /\ Says(s, MessagesToolStart(s, i, id), <<>>)
           /\ i \in DOMAIN MessagesToolStart(s, i, id).e.tools
<1>0. s.e.tools \in Tooling
  BY Zenon DEF States, Emitters
<1>1. CASE OpenTool(s, i)
  <2> DEFINE g == [s.e.tools EXCEPT ![i].id = IF id = 0 THEN @ ELSE id]
             t == [s EXCEPT !.e.tools = g]
  <2>1. g \in Tooling /\ DOMAIN g = DOMAIN s.e.tools /\ i \in DOMAIN g
    BY <1>0, <1>1, ToolNamed DEF OpenTool
  <2>2. MessagesToolStart(s, i, id) = t
    BY <1>1 DEF MessagesToolStart
  <2> HIDE DEF g
  <2>3. t \in States /\ t.w = s.w /\ t.e.usage = s.e.usage /\ t.e.finished = s.e.finished
        /\ t.e.tools = g
    BY <2>1, Zenon DEF States, Emitters
  <2> HIDE DEF t
  <2>. QED
    BY <2>1, <2>2, <2>3, NothingSaid
<1>2. CASE ~OpenTool(s, i)
  <2> DEFINE c == CloseCurrentBlock(s)
             part == [at |-> c.e.next, id |-> id, open |-> TRUE]
             o == Ev("block_start", c.e.next, id, "tool")
             w == Write(c, o)
             g == [j \in DOMAIN c.e.tools \cup {i} |-> IF j = i THEN part ELSE c.e.tools[j]]
             t == [w EXCEPT !.e.next = @ + 1, !.e.tools = g]
  <2>1. Says(s, c, <<>>) /\ c \in States
    BY CloseSays DEF Says
  <2> HIDE DEF c
  <2>2. c.e.next \in Nat /\ c.e.next + 1 \in Nat /\ c.e.tools \in Tooling
    BY <2>1, EmitterNumbers, Zenon DEF States, Emitters
  <2>3. o \in Middle /\ PieceOf(o) = <<>>
    BY <2>2, EvQuiet, QuietNames, Zenon
  <2>4. part \in ToolParts
    BY <2>2 DEF ToolParts
  <2>5. g \in Tooling /\ DOMAIN g = DOMAIN c.e.tools \cup {i}
    <3> HIDE DEF part
    <3>. QED
      BY <2>2, <2>4, ToolAdded
  <2>6. MessagesToolStart(s, i, id) = t
    <3>1. [At("block_start", c.e.next) EXCEPT !.n = id, !.k = "tool"] = o
      BY AtPayloadKind, Zenon
    <3>2. w.e = c.e
      BY <2>1, <2>3, WriteSays
    <3> DEFINE h == [j \in DOMAIN w.e.tools \cup {i} |-> IF j = i THEN part ELSE w.e.tools[j]]
               r == [w EXCEPT !.e.next = @ + 1, !.e.tools = h]
    <3>3. MessagesToolStart(s, i, id) = r
      BY <1>2, <3>1, Zenon DEF MessagesToolStart, c
    <3> HIDE DEF part, w
    <3>4. h = g
      BY <3>2, Zenon
    <3> HIDE DEF h, g
    <3>. QED
      BY <3>3, <3>4, Zenon
  <2>7. w \in States /\ w.e = c.e
    BY <2>1, <2>3, WriteSays
  <2> HIDE DEF o, g, w
  <2>8. t \in States /\ t.w = w.w /\ t.e.usage = w.e.usage /\ t.e.finished = w.e.finished
        /\ t.e.tools = g
    BY <2>2, <2>5, <2>7, Zenon DEF States, Emitters
  <2> HIDE DEF t
  <2>9. Says(c, t, <<>>)
    BY <2>1, <2>3, <2>8, WriteChange DEF w
  <2>. QED
    BY <2>1, <2>5, <2>6, <2>8, <2>9, QuietQuiet
<1>. QED
  BY <1>1, <1>2

LEMMA MessagesToolDeltaSays ==
    ASSUME NEW s \in States, NEW i \in Nat, NEW n \in Nat
    PROVE  Says(s, MessagesToolDelta(s, i, n), <<[k |-> "args", n |-> n]>>)
<1> DEFINE o == IF OpenTool(s, i) THEN s ELSE MessagesToolStart(s, i, 0)
           e == Ev("block_delta", o.e.tools[i].at, n, "tool")
<1>1. Says(s, o, <<>>) /\ i \in DOMAIN o.e.tools
  BY NothingSaid, MessagesToolStartSays DEF OpenTool
<1>2. MessagesToolDelta(s, i, n) = Write(o, e)
  BY AtPayloadKind, Zenon DEF MessagesToolDelta
<1> HIDE DEF o
<1>3. o \in States /\ o.e.tools \in Tooling
  BY <1>1, Zenon DEF Says, States, Emitters
<1>4. o.e.tools[i].at \in Nat
  BY <1>1, <1>3, ToolsType DEF ToolParts
<1>5. e \in Middle /\ PieceOf(e) = <<[k |-> "args", n |-> n]>>
  <2>1. /\ "block_delta" \in OutTypes /\ "block_delta" \notin Endings
        /\ "tool" \in Kinds /\ "tool" \notin CutReasons
    BY DEF OutTypes, Endings, Kinds, CutReasons
  <2>2. Kind(e) = "args" /\ e.n = n
    BY DEF Kind, Ev
  <2>3. e \in Middle
    BY <1>4, <2>1, EvMiddle, Zenon
  <2>. QED
    BY <2>2, <2>3, Zenon DEF PieceOf
<1> HIDE DEF e
<1>6. Says(o, Write(o, e), <<[k |-> "args", n |-> n]>>)
  BY <1>3, <1>5, WriteSays
<1> DEFINE p == <<[k |-> "args", n |-> n]>>
<1>7. p \in Seq(Speech)
  BY DEF Speech
<1>8. Says(o, Write(o, e), p)
  BY <1>6, Zenon
<1>9. Says(s, Write(o, e), p)
  <2> HIDE DEF p
  <2>. QED
    BY <1>1, <1>7, <1>8, AfterQuiet, Zenon
<1>. QED
  BY <1>2, <1>9, Zenon

LEMMA EnsureSays ==
    ASSUME NEW s \in States
    PROVE  Says(s, EnsureMessageItem(s), <<>>)
<1>1. CASE s.e.added
  BY <1>1, NothingSaid DEF EnsureMessageItem
<1>2. CASE ~s.e.added
  <2> DEFINE o == Ev("item_added", s.e.next, 0, "message")
             w == Write(s, o)
             t == [w EXCEPT !.e.added = TRUE, !.e.item = s.e.next, !.e.next = @ + 1]
  <2>1. s.e.next \in Nat /\ s.e.next + 1 \in Nat
    BY EmitterNumbers
  <2>2. o \in Middle /\ PieceOf(o) = <<>>
    BY <2>1, EvQuiet, QuietNames, Zenon
  <2>3. EnsureMessageItem(s) = t
    <3>1. [At("item_added", s.e.next) EXCEPT !.k = "message"] = o
      BY AtKind, Zenon
    <3>. QED
      BY <1>2, <3>1 DEF EnsureMessageItem
  <2>4. w \in States /\ w.e = s.e
    BY <2>2, WriteSays
  <2> HIDE DEF o, w
  <2>5. t \in States /\ t.w = w.w /\ t.e.usage = w.e.usage /\ t.e.finished = w.e.finished
    BY <2>1, <2>4, Zenon DEF States, Emitters
  <2> HIDE DEF t
  <2>. QED
    BY <2>2, <2>3, <2>5, WriteChange DEF w
<1>. QED
  BY <1>1, <1>2

\* A delta of the message item or of a tool item.
LEMMA ItemDelta ==
    ASSUME NEW i \in Nat, NEW n \in Nat
    PROVE  /\ Ev("text_delta", i, n, "") \in Middle
           /\ PieceOf(Ev("text_delta", i, n, "")) = <<[k |-> "text", n |-> n]>>
           /\ Ev("think_delta", i, n, "") \in Middle
           /\ PieceOf(Ev("think_delta", i, n, "")) = <<[k |-> "think", n |-> n]>>
           /\ Ev("args_delta", i, n, "") \in Middle
           /\ PieceOf(Ev("args_delta", i, n, "")) = <<[k |-> "args", n |-> n]>>
<1>1. ASSUME NEW t \in {"text_delta", "think_delta", "args_delta"}
      PROVE  Ev(t, i, n, "") \in Middle /\ Ev(t, i, n, "").n = n
  <2>1. t \in OutTypes /\ t \notin Endings /\ t # "block_delta"
    BY DEF OutTypes, Endings
  <2> DEFINE k == ""
  <2>2. k \in Kinds /\ k \notin CutReasons
    BY Blank, Zenon
  <2> HIDE DEF k
  <2>3. Ev(t, i, n, k) \in Middle /\ Ev(t, i, n, k).n = n
    BY <2>1, <2>2, EvMiddle
  <2>. QED
    BY <2>3, Zenon DEF k
<1>2. /\ Kind(Ev("text_delta", i, n, "")) = "text"
      /\ Kind(Ev("think_delta", i, n, "")) = "think"
      /\ Kind(Ev("args_delta", i, n, "")) = "args"
  BY DEF Kind, Ev
<1>. QED
  BY <1>1, <1>2, Zenon DEF PieceOf

LEMMA ResponsesDeltaSays ==
    ASSUME NEW s \in States, NEW n \in Nat
    PROVE  /\ Says(s, ResponsesText(s, n), <<[k |-> "text", n |-> n]>>)
           /\ Says(s, ResponsesThinking(s, n), <<[k |-> "think", n |-> n]>>)
<1> DEFINE m == EnsureMessageItem(s)
           a == Ev("part_added", m.e.item, 0, "")
           w == Write(m, a)
           t == [w EXCEPT !.e.part = TRUE]
           p == IF m.e.part THEN m ELSE t
           e == Ev("text_delta", p.e.item, n, "")
           d == Ev("think_delta", m.e.item, n, "")
<1>0. <<[k |-> "text", n |-> n]>> \in Seq(Speech) /\ <<[k |-> "think", n |-> n]>> \in Seq(Speech)
  BY DEF Speech
<1>1. m \in States /\ Says(s, m, <<>>)
  BY EnsureSays DEF Says
<1>2. ResponsesText(s, n) = Write(p, e)
  <2>1. At("part_added", m.e.item) = a
    BY AtEv, Zenon
  <2>2. p = IF m.e.part THEN m
            ELSE [Write(m, At("part_added", m.e.item)) EXCEPT !.e.part = TRUE]
    BY <2>1, Zenon
  <2>3. [At("text_delta", p.e.item) EXCEPT !.n = n] = e
    BY AtPayload, Zenon
  <2> HIDE DEF e, a, w, t
  <2>. QED
    BY <2>2, <2>3, Zenon DEF ResponsesText
<1>3. ResponsesThinking(s, n) = Write(m, d)
  BY AtPayload, Zenon DEF ResponsesThinking
<1> HIDE DEF m
<1>4. m.e.item \in Nat
  BY <1>1, EmitterNumbers
<1>5. a \in Middle /\ PieceOf(a) = <<>>
  BY <1>4, EvQuiet, QuietNames, Zenon
<1>6. w \in States
  BY <1>1, <1>5, WriteSays, Zenon
<1>7. t \in States /\ t.w = w.w /\ t.e.usage = w.e.usage /\ t.e.finished = w.e.finished
  <2> HIDE DEF w
  <2>. QED
    BY <1>6, Zenon DEF States, Emitters
<1>8. Says(m, t, <<>>)
  <2> HIDE DEF t, a
  <2>. QED
    BY <1>1, <1>5, <1>7, WriteChange
<1>9. p \in States /\ Says(m, p, <<>>)
  <2> HIDE DEF t
  <2>. QED
    BY <1>1, <1>7, <1>8, NothingSaid, Zenon
<1> HIDE DEF p
<1>10. e \in Middle /\ PieceOf(e) = <<[k |-> "text", n |-> n]>>
  BY <1>9, EmitterNumbers, ItemDelta, Zenon
<1>11. d \in Middle /\ PieceOf(d) = <<[k |-> "think", n |-> n]>>
  BY <1>4, ItemDelta, Zenon
<1> HIDE DEF e, d
<1>12. Says(s, p, <<>>)
  BY <1>1, <1>9, QuietQuiet
<1>13. Says(p, Write(p, e), <<[k |-> "text", n |-> n]>>)
       /\ Says(m, Write(m, d), <<[k |-> "think", n |-> n]>>)
  BY <1>1, <1>9, <1>10, <1>11, WriteSays
<1> DEFINE text == <<[k |-> "text", n |-> n]>>
           think == <<[k |-> "think", n |-> n]>>
<1>14. Says(s, Write(p, e), text)
  <2>1. text \in Seq(Speech) /\ Says(p, Write(p, e), text)
    BY <1>0, <1>13, Zenon
  <2> HIDE DEF text
  <2>. QED
    BY <1>12, <2>1, AfterQuiet, Zenon
<1>15. Says(s, Write(m, d), think)
  <2>1. think \in Seq(Speech) /\ Says(m, Write(m, d), think)
    BY <1>0, <1>13, Zenon
  <2> HIDE DEF think
  <2>. QED
    BY <1>1, <2>1, AfterQuiet, Zenon
<1>. QED
  BY <1>2, <1>3, <1>14, <1>15

LEMMA ResponsesToolStartSays ==
    ASSUME NEW s \in States, NEW i \in Nat, NEW id \in Nat
    PROVE  /\ Says(s, ResponsesToolStart(s, i, id), <<>>)
           /\ i \in DOMAIN ResponsesToolStart(s, i, id).e.tools
<1>0. s.e.tools \in Tooling
  BY Zenon DEF States, Emitters
<1>1. CASE i \in DOMAIN s.e.tools
  <2> DEFINE g == [s.e.tools EXCEPT ![i].id = IF id = 0 THEN @ ELSE id]
             t == [s EXCEPT !.e.tools = g]
  <2>1. g \in Tooling /\ DOMAIN g = DOMAIN s.e.tools /\ i \in DOMAIN g
    BY <1>0, <1>1, ToolNamed
  <2>2. ResponsesToolStart(s, i, id) = t
    BY <1>1 DEF ResponsesToolStart
  <2> HIDE DEF g
  <2>3. t \in States /\ t.w = s.w /\ t.e.usage = s.e.usage /\ t.e.finished = s.e.finished
        /\ t.e.tools = g
    BY <2>1, Zenon DEF States, Emitters
  <2> HIDE DEF t
  <2>. QED
    BY <2>1, <2>2, <2>3, NothingSaid
<1>2. CASE i \notin DOMAIN s.e.tools
  <2> DEFINE part == [at |-> s.e.next, id |-> id, open |-> TRUE]
             o == Ev("item_added", s.e.next, id, "call")
             w == Write(s, o)
             g == [j \in DOMAIN s.e.tools \cup {i} |-> IF j = i THEN part ELSE s.e.tools[j]]
             q == Append(s.e.order, i)
             t == [w EXCEPT !.e.next = @ + 1, !.e.order = q, !.e.tools = g]
  <2>2. s.e.next \in Nat /\ s.e.next + 1 \in Nat /\ s.e.order \in Seq(Nat)
        /\ \A j \in 1..Len(s.e.order) : s.e.order[j] \in DOMAIN s.e.tools
    BY EmitterNumbers, Zenon DEF States, Emitters
  <2>3. o \in Middle /\ PieceOf(o) = <<>>
    BY <2>2, EvQuiet, QuietNames, Zenon
  <2>4. part \in ToolParts
    BY <2>2 DEF ToolParts
  <2>5. g \in Tooling /\ DOMAIN g = DOMAIN s.e.tools \cup {i}
    <3> HIDE DEF part
    <3>. QED
      BY <1>0, <2>4, ToolAdded
  <2>6. ResponsesToolStart(s, i, id) = t
    <3>1. [At("item_added", s.e.next) EXCEPT !.n = id, !.k = "call"] = o
      BY AtPayloadKind, Zenon
    <3>2. w.e = s.e
      BY <2>3, WriteSays
    <3> DEFINE h == [j \in DOMAIN w.e.tools \cup {i} |-> IF j = i THEN part ELSE w.e.tools[j]]
               r == [w EXCEPT !.e.next = @ + 1, !.e.order = Append(@, i), !.e.tools = h]
    <3>3. ResponsesToolStart(s, i, id) = r
      BY <1>2, <3>1, Zenon DEF ResponsesToolStart
    <3> HIDE DEF part, w
    <3>4. h = g
      BY <3>2
    <3> HIDE DEF h, g
    <3>. QED
      BY <3>2, <3>3, <3>4
  <2>7. w \in States /\ w.e = s.e
    BY <2>3, WriteSays
  <2>8. q \in Seq(Nat) /\ \A j \in 1..Len(q) : q[j] \in DOMAIN g
    <3> HIDE DEF g
    <3>. QED
      BY <2>2, <2>5, SMTT(30)
  <2> HIDE DEF o, g, w, q
  <2>9. t \in States /\ t.w = w.w /\ t.e.usage = w.e.usage /\ t.e.finished = w.e.finished
        /\ t.e.tools = g
    BY <2>2, <2>5, <2>7, <2>8, Zenon DEF States, Emitters
  <2> HIDE DEF t
  <2>10. Says(s, t, <<>>)
    BY <2>3, <2>9, WriteChange DEF w
  <2>. QED
    BY <2>5, <2>6, <2>9, <2>10
<1>. QED
  BY <1>1, <1>2

LEMMA ResponsesToolDeltaSays ==
    ASSUME NEW s \in States, NEW i \in Nat, NEW n \in Nat
    PROVE  Says(s, ResponsesToolDelta(s, i, n), <<[k |-> "args", n |-> n]>>)
<1> DEFINE o == IF i \in DOMAIN s.e.tools THEN s ELSE ResponsesToolStart(s, i, 0)
           e == Ev("args_delta", o.e.tools[i].at, n, "")
<1>1. Says(s, o, <<>>) /\ i \in DOMAIN o.e.tools
  BY NothingSaid, ResponsesToolStartSays
<1>2. ResponsesToolDelta(s, i, n) = Write(o, e)
  BY AtPayload, Zenon DEF ResponsesToolDelta
<1> HIDE DEF o
<1>3. o \in States /\ o.e.tools \in Tooling
  BY <1>1, Zenon DEF Says, States, Emitters
<1>4. o.e.tools[i].at \in Nat
  BY <1>1, <1>3, ToolsType DEF ToolParts
<1>5. e \in Middle /\ PieceOf(e) = <<[k |-> "args", n |-> n]>>
  BY <1>4, ItemDelta, Zenon
<1> HIDE DEF e
<1>6. Says(o, Write(o, e), <<[k |-> "args", n |-> n]>>)
  BY <1>3, <1>5, WriteSays
<1> DEFINE p == <<[k |-> "args", n |-> n]>>
<1>7. p \in Seq(Speech)
  BY DEF Speech
<1>8. Says(o, Write(o, e), p)
  BY <1>6, Zenon
<1>9. Says(s, Write(o, e), p)
  <2> HIDE DEF p
  <2>. QED
    BY <1>1, <1>7, <1>8, AfterQuiet, Zenon
<1>. QED
  BY <1>2, <1>9, Zenon

----------------------------------------------------------------------------
(* The end of an answer                                                    *)

LEMMA NthExists ==
    ASSUME NEW S, S \subseteq Nat, IsFiniteSet(S), NEW j \in 1..Cardinality(S)
    PROVE  Nth(S, j) \in S
<1> DEFINE Has(X, i) == \E x \in X : Cardinality({y \in X : y <= x}) = i
           A == {n \in Nat : \A X \in SUBSET S : Cardinality(X) = n =>
                                \A i \in 1..n : Has(X, i)}
<1>0. \A X \in SUBSET S : IsFiniteSet(X) /\ Cardinality(X) \in Nat
  BY FS_Subset, FS_CardinalityType
<1>1. 0 \in A
  OBVIOUS
<1>2. ASSUME NEW n \in Nat, n \in A PROVE n + 1 \in A
  <2>1. SUFFICES ASSUME NEW X \in SUBSET S, Cardinality(X) = n + 1, NEW i \in 1..(n + 1)
                 PROVE  Has(X, i)
    OBVIOUS
  <2>2. X \subseteq Nat /\ IsFiniteSet(X) /\ X # {}
    BY <1>0, <2>1, FS_EmptySet
  <2>3. PICK m \in X : \A y \in X : y <= m
    <3>1. PICK x0 \in X : TRUE
      BY <2>2
    <3>. QED
      BY <2>2, LargestFinite
  <2>4. CASE i = n + 1
    <3>1. {y \in X : y <= m} = X
      BY <2>3
    <3>. QED
      BY <3>1, <2>1, <2>4
  <2>5. CASE i \in 1..n
    <3> DEFINE Y == X \ {m}
    <3>1. Y \in SUBSET S /\ Cardinality(Y) = n
      <4>1. Cardinality(Y) = Cardinality(X) - 1
        BY <2>2, <2>3, FS_RemoveElement
      <4>. QED
        BY <2>1, <4>1
    <3>2. PICK x \in Y : Cardinality({y \in Y : y <= x}) = i
      BY <1>2, <2>5, <3>1
    <3>3. {y \in Y : y <= x} = {y \in X : y <= x}
      <4>1. x \in Nat /\ m \in Nat /\ x # m /\ x <= m
        BY <2>2, <2>3
      <4>2. ~ (m <= x)
        BY <4>1
      <4>. QED
        BY <4>2
    <3>. QED
      BY <3>2, <3>3
  <2>6. i = n + 1 \/ i \in 1..n
    OBVIOUS
  <2> HIDE DEF Has
  <2>. QED
    BY <2>4, <2>5, <2>6
<1>3. Has(S, j)
  <2> HIDE DEF A, Has
  <2>1. Cardinality(S) \in A
    BY <1>0, <1>1, <1>2, Induction
  <2>. QED
    BY <2>1 DEF A
<1>. QED
  BY <1>3 DEF Nth

\* A sequence of events without content has none.
Silent(w) == \A j \in 1..Len(w) : Kind(w[j]) = ""

LEMMA SilentContent ==
    ASSUME NEW S, NEW w \in Seq(S), Silent(w)
    PROVE  Content(w) = <<>>
<1> DEFINE A == {n \in Nat : \A x \in Seq(S) : Len(x) = n /\ Silent(x) => Content(x) = <<>>}
<1>1. 0 \in A
  <2>1. ASSUME NEW x \in Seq(S), Len(x) = 0 PROVE x = <<>>
    BY <2>1
  <2>. QED
    BY <2>1, ContentEmpty
<1>2. ASSUME NEW n \in Nat, n \in A PROVE n + 1 \in A
  <2>1. SUFFICES ASSUME NEW x \in Seq(S), Len(x) = n + 1, Silent(x)
                 PROVE  Content(x) = <<>>
    OBVIOUS
  <2> HIDE DEF A
  <2>2. x # <<>>
    BY <2>1
  <2>3. PICK y \in Seq(S), e \in S : x = Append(y, e)
    BY <2>2, SequenceEmptyOrAppend
  <2>4. Len(y) = n /\ x[n + 1] = e /\ \A j \in 1..n : x[j] = y[j]
    BY <2>1, <2>3
  <2>5. Kind(e) = "" /\ Silent(y)
    <3>1. n + 1 \in 1..Len(x) /\ \A j \in 1..n : j \in 1..Len(x)
      BY <2>1
    <3>. QED
      BY <2>1, <2>4, <3>1, Zenon DEF Silent
  <2>6. Content(y) = <<>>
    BY <1>2, <2>4, <2>5, Zenon DEF A
  <2>. QED
    BY <2>3, <2>5, <2>6, ContentAppend, Zenon
<1>. QED
  <2> HIDE DEF A
  <2>0. Len(w) \in Nat
    OBVIOUS
  <2>1. Len(w) \in A
    BY <1>1, <1>2, <2>0, Induction
  <2>. QED
    BY <2>1 DEF A

\* Whether a sequence of events tells that the answer was cut at the limit.
Cut(e) == e.t = "incomplete" \/ e.k \in CutReasons

LEMMA CutOne == ASSUME NEW e PROVE CutShort(<<e>>) <=> Cut(e)
BY DEF CutShort, Cut, CutReasons

LEMMA CutNone == ~CutShort(<<>>)
BY DEF CutShort

LEMMA CutConcat ==
    ASSUME NEW S, NEW a \in Seq(S), NEW b \in Seq(S)
    PROVE  CutShort(a \o b) <=> CutShort(a) \/ CutShort(b)
<1>3. /\ DOMAIN (a \o b) = 1..(Len(a) + Len(b)) /\ DOMAIN a = 1..Len(a) /\ DOMAIN b = 1..Len(b)
      /\ Len(a) \in Nat /\ Len(b) \in Nat
      /\ \A j \in 1..Len(a) : (a \o b)[j] = a[j]
      /\ \A j \in 1..Len(b) : (a \o b)[j + Len(a)] = b[j]
  OBVIOUS
<1>4. ASSUME CutShort(a \o b) PROVE CutShort(a) \/ CutShort(b)
  <2>1. PICK j \in 1..(Len(a) + Len(b)) : Cut((a \o b)[j])
    BY <1>3, <1>4 DEF CutShort, Cut, CutReasons
  <2>2. CASE j <= Len(a)
    <3>1. j \in 1..Len(a) /\ Cut(a[j])
      BY <1>3, <2>1, <2>2
    <3>. QED
      BY <1>3, <3>1 DEF CutShort, Cut, CutReasons
  <2>3. CASE j > Len(a)
    <3>1. j - Len(a) \in 1..Len(b) /\ (j - Len(a)) + Len(a) = j
      BY <1>3, <2>1, <2>3
    <3>2. Cut(b[j - Len(a)])
      BY <1>3, <2>1, <3>1
    <3>. QED
      BY <1>3, <3>1, <3>2 DEF CutShort, Cut, CutReasons
  <2>. QED
    BY <1>3, <2>2, <2>3
<1>5. ASSUME CutShort(a) PROVE CutShort(a \o b)
  <2>1. PICK j \in 1..Len(a) : Cut(a[j])
    BY <1>3, <1>5 DEF CutShort, Cut, CutReasons
  <2>2. j \in 1..(Len(a) + Len(b)) /\ Cut((a \o b)[j])
    BY <1>3, <2>1
  <2>. QED
    BY <1>3, <2>2 DEF CutShort, Cut, CutReasons
<1>6. ASSUME CutShort(b) PROVE CutShort(a \o b)
  <2>1. PICK j \in 1..Len(b) : Cut(b[j])
    BY <1>3, <1>6 DEF CutShort, Cut, CutReasons
  <2>2. j + Len(a) \in 1..(Len(a) + Len(b)) /\ Cut((a \o b)[j + Len(a)])
    BY <1>3, <2>1
  <2>. QED
    BY <1>3, <2>2 DEF CutShort, Cut, CutReasons
<1>. QED
  BY <1>4, <1>5, <1>6

LEMMA MiddleUncut ==
    ASSUME NEW x \in Seq(Middle)
    PROVE  ~CutShort(x)
BY DEF CutShort, Middle, CutReasons, Endings

LEMMA ToolStopsQuiet ==
    ASSUME NEW e \in Emitters
    PROVE  ToolStops(e) \in Seq(Middle) /\ Content(ToolStops(e)) = <<>>
<1> DEFINE on == {j \in DOMAIN e.tools : e.tools[j].open}
           at == {e.tools[i].at : i \in on}
           n == Cardinality(at)
           w == [j \in 1..n |-> At("block_stop", Nth(at, j))]
<1>1. e.tools \in Tooling
  BY Zenon DEF Emitters
<1>2. IsFiniteSet(DOMAIN e.tools) /\ e.tools \in [DOMAIN e.tools -> ToolParts]
  BY <1>1, ToolsType
<1>3. IsFiniteSet(on)
  BY <1>2, FS_Subset
<1>4. IsFiniteSet(at) /\ at \subseteq Nat
  <2>1. IsFiniteSet(at)
    <3> DEFINE f == [i \in on |-> e.tools[i].at]
    <3>1. f \in Surjection(on, at)
      <4> HIDE DEF on
      <4>. QED
        BY DEF Surjection
    <3> HIDE DEF on, at, f
    <3>. QED
      BY <1>3, <3>1, FS_Surjection
  <2>2. at \subseteq Nat
    BY <1>2 DEF ToolParts
  <2>. QED
    BY <2>1, <2>2
<1>5. ToolStops(e) = w
  BY Zenon DEF ToolStops
<1> HIDE DEF on, at
<1>6. n \in Nat
  BY <1>4, FS_CardinalityType
<1>7. ASSUME NEW j \in 1..n
      PROVE  w[j] \in Middle /\ Kind(w[j]) = ""
  <2>1. Nth(at, j) \in Nat
    BY <1>4, NthExists
  <2> DEFINE i == Nth(at, j)
  <2>2. w[j] = Ev("block_stop", i, 0, "")
    BY AtEv, Zenon
  <2> HIDE DEF i
  <2>3. Ev("block_stop", i, 0, "") \in Middle
    BY <2>1, EvQuiet, QuietNames, Zenon DEF i
  <2>4. Kind(Ev("block_stop", i, 0, "")) = ""
    BY DEF Kind, Ev
  <2>. QED
    BY <2>2, <2>3, <2>4, Zenon
<1>8. w \in Seq(Middle) /\ Len(w) = n
  <2>1. w \in [1..n -> Middle]
    BY <1>7, Zenon
  <2> HIDE DEF w
  <2>. QED
    BY <1>6, <2>1
<1>9. Silent(w)
  <2> HIDE DEF w
  <2>. QED
    BY <1>7, <1>8, Zenon DEF Silent
<1>. QED
  <2> HIDE DEF w
  <2>. QED
    BY <1>5, <1>8, <1>9, SilentContent

FinishReasons == {"", "stop", "tool_calls", "length", "end_turn", "tool_use", "max_tokens"}
Endless == {e \in OutEvents : e.t \notin Endings}

\* From s to t the answer is finished, but not ended, and nothing is said.
\* cut tells whether the client hears that it was cut at the limit.
Ends(s, t, cut) ==
    /\ t \in States
    /\ t.e.usage = s.e.usage /\ t.e.finished
    /\ \E x \in Seq(Endless) : /\ t.w = s.w \o x /\ Content(x) = <<>>
                               /\ CutShort(x) <=> cut

LEMMA EndlessSpeak == Middle \subseteq Endless /\ Endless \subseteq OutEvents /\ Speak(Endless)
<1>1. Middle \subseteq Endless /\ Endless \subseteq OutEvents
  BY DEF Middle, Endless
<1>. QED
  BY <1>1, OutSpeak, Zenon DEF Speak

LEMMA EndsAfter ==
    ASSUME NEW s \in States, NEW c, Says(s, c, <<>>), NEW t, NEW cut \in BOOLEAN, Ends(c, t, cut)
    PROVE  Ends(s, t, cut)
<1>1. PICK x \in Seq(Middle) : c.w = s.w \o x /\ Content(x) = <<>>
  BY DEF Says
<1>2. PICK y \in Seq(Endless) : /\ t.w = c.w \o y /\ Content(y) = <<>>
                                /\ CutShort(y) <=> cut
  BY DEF Ends
<1>3. x \in Seq(Endless) /\ x \in Seq(OutEvents) /\ y \in Seq(OutEvents) /\ s.w \in Seq(OutEvents)
  BY EndlessSpeak, SeqMonotonic DEF States
<1>4. x \o y \in Seq(Endless)
  BY <1>3, ConcatProperties
<1>5. Content(x \o y) = Content(x) \o Content(y)
  BY <1>3, EndlessSpeak, ContentConcat
<1>6. <<>> \o <<>> = <<>>
  OBVIOUS
<1>7. CutShort(x \o y) <=> cut
  <2>1. ~CutShort(x)
    BY MiddleUncut
  <2>2. CutShort(x \o y) <=> CutShort(x) \/ CutShort(y)
    BY <1>3, CutConcat
  <2>. QED
    BY <1>2, <2>1, <2>2
<1>8. t.w = s.w \o (x \o y)
  <2>1. Associates(s.w, x, y)
    BY <1>3, ConcatsAssociate, Zenon
  <2>. QED
    BY <1>1, <1>2, <2>1, Zenon DEF Associates
<1>9. t \in States /\ t.e.usage = s.e.usage /\ t.e.finished
  BY DEF Says, Ends
<1> DEFINE z == x \o y
<1>10. z \in Seq(Endless) /\ Content(z) = <<>> /\ (CutShort(z) <=> cut) /\ t.w = s.w \o z
  BY <1>1, <1>2, <1>4, <1>5, <1>6, <1>7, <1>8
<1> HIDE DEF z
<1>. QED
  BY <1>9, <1>10 DEF Ends

\* One event more.
LEMMA OneMore ==
    ASSUME NEW S, NEW T, S \subseteq T, NEW w \in Seq(T), NEW o \in S
    PROVE  /\ <<o>> \in Seq(S) /\ <<o>> \in Seq(T)
           /\ Append(w, o) \in Seq(T)
           /\ Append(w, o) = w \o <<o>>
<1>1. <<o>> \in Seq(S) /\ <<o>> \in Seq(T) /\ Append(w, o) \in Seq(T)
  OBVIOUS
<1>2. Append(w, o) = w \o <<o>>
  <2>1. o \in T
    OBVIOUS
  <2>. QED
    BY <2>1, AppendIsConcat, Zenon
<1>. QED
  BY <1>1, <1>2

\* A finish event of a Chat or Messages client.
LEMMA FinishEvent ==
    ASSUME NEW t \in {"finish", "message_delta"}, NEW k \in Kinds, NEW u \in SUBSET Fields
    PROVE  LET e == [t |-> t, i |-> 0, n |-> 0, k |-> k, u |-> u]
           IN  e \in Endless /\ Kind(e) = "" /\ (Cut(e) <=> k \in CutReasons)
<1> DEFINE e == [t |-> t, i |-> 0, n |-> 0, k |-> k, u |-> u]
<1>1. t \in OutTypes /\ t \notin Endings /\ t # "block_delta" /\ t # "incomplete"
  BY DEF OutTypes, Endings
<1>2. e \in Endless
  BY <1>1 DEF Endless, OutEvents
<1>3. Kind(e) = ""
  BY Zenon DEF Kind
<1>4. Cut(e) <=> k \in CutReasons
  BY <1>1 DEF Cut
<1>. QED
  BY <1>2, <1>3, <1>4, Zenon

LEMMA ChatFinishEnds ==
    ASSUME NEW s \in States, NEW r \in FinishReasons
    PROVE  Ends(s, ChatFinish(s, r), ~s.e.finished /\ r \in CutReasons)
<1>1. CASE s.e.finished
  <2>1. <<>> \in Seq(Endless) /\ s.w = s.w \o <<>> /\ ~CutShort(<<>>)
    BY DEF States, CutShort
  <2>. QED
    BY <1>1, <2>1, ContentEmpty DEF ChatFinish, Ends
<1>2. CASE ~s.e.finished
  <2> DEFINE k == ToChat(r)
             o == [t |-> "finish", i |-> 0, n |-> 0, k |-> k, u |-> {}]
             w == Write(s, o)
             t == [w EXCEPT !.e.finished = TRUE]
  <2>1. k \in Kinds /\ (k \in CutReasons <=> r \in CutReasons)
    BY Zenon DEF ToChat, FinishReasons, Kinds, CutReasons
  <2>2. o \in Endless /\ Kind(o) = "" /\ (Cut(o) <=> r \in CutReasons)
    <3> HIDE DEF k
    <3>1. {} \in SUBSET Fields
      OBVIOUS
    <3>. QED
      BY <2>1, <3>1, FinishEvent, Zenon
  <2>3. ChatFinish(s, r) = t
    <3>1. [Out("finish") EXCEPT !.k = ToChat(r)] = o
      BY OutKind, Zenon DEF Ev
    <3>. QED
      BY <1>2, <3>1 DEF ChatFinish
  <2> HIDE DEF k, o
  <2>4. o \in OutEvents
    BY <2>2, Zenon DEF Endless
  <2>5. w = [e |-> s.e, w |-> Append(s.w, o)]
    BY SMTT(30) DEF Write, States
  <2>6. t \in States /\ t.e.usage = s.e.usage /\ t.e.finished /\ t.w = Append(s.w, o)
    <3>1. Append(s.w, o) \in Seq(OutEvents)
      BY <2>4 DEF States
    <3>2. w \in States /\ w.e = s.e /\ w.w = Append(s.w, o)
      BY <2>5, <3>1 DEF States
    <3> HIDE DEF w
    <3>. QED
      BY <3>2, Zenon DEF States, Emitters
  <2> HIDE DEF w, t
  <2>7. <<o>> \in Seq(Endless) /\ t.w = s.w \o <<o>>
    <3>1. s.w \in Seq(OutEvents)
      BY DEF States
    <3>2. <<o>> \in Seq(Endless) /\ Append(s.w, o) = s.w \o <<o>>
      BY <2>2, <3>1, EndlessSpeak, OneMore, Zenon
    <3>. QED
      BY <2>6, <3>2
  <2>8. Content(<<o>>) = <<>> /\ (CutShort(<<o>>) <=> r \in CutReasons)
    <3>1. Content(<<o>>) = PieceOf(o)
      BY <2>2, SingleContent, Zenon
    <3>2. CutShort(<<o>>) <=> Cut(o)
      BY CutOne, Zenon
    <3>. QED
      BY <2>2, <3>1, <3>2, Zenon DEF PieceOf
  <2>. QED
    BY <1>2, <2>3, <2>6, <2>7, <2>8 DEF Ends
<1>. QED
  BY <1>1, <1>2

LEMMA MessagesFinishEnds ==
    ASSUME NEW s \in States, NEW r \in FinishReasons
    PROVE  Ends(s, MessagesFinish(s, r), ~s.e.finished /\ r \in CutReasons)
<1>1. CASE s.e.finished
  <2>1. <<>> \in Seq(Endless) /\ s.w = s.w \o <<>> /\ ~CutShort(<<>>)
    BY DEF States, CutShort
  <2>. QED
    BY <1>1, <2>1, ContentEmpty DEF MessagesFinish, Ends
<1>2. CASE ~s.e.finished
  <2> DEFINE c == CloseCurrentBlock(s)
             k == OrElse(ToMessages(r), "end_turn")
             u == c.e.usage \cap {"completion"}
             o == [t |-> "message_delta", i |-> 0, n |-> 0, k |-> k, u |-> u]
             x == ToolStops(c.e)
             y == Append(x, o)
             v == c.w \o y
             g == [j \in DOMAIN c.e.tools |-> [c.e.tools[j] EXCEPT !.open = FALSE]]
             t == [c EXCEPT !.w = v, !.e.finished = TRUE, !.e.tools = g]
  <2>1. k \in Kinds /\ (k \in CutReasons <=> r \in CutReasons)
    BY Zenon DEF ToMessages, OrElse, FinishReasons, Kinds, CutReasons
  <2>2. c \in States /\ Says(s, c, <<>>)
    BY CloseSays DEF Says
  <2>3. MessagesFinish(s, r) = t
    <3>1. [Out("message_delta") EXCEPT !.k = k, !.u = u] = o
      BY OutKindUsage, Zenon
    <3> HIDE DEF k, u, o, x, y, v, g
    <3>. QED
      BY <1>2, <3>1, Zenon DEF MessagesFinish, k, u, c, x, y, v, g
  <2> HIDE DEF c
  <2>4. u \in SUBSET Fields /\ c.e \in Emitters /\ c.e.tools \in Tooling
    BY <2>2, Zenon DEF States, Emitters
  <2>5. o \in Endless /\ Kind(o) = "" /\ (Cut(o) <=> r \in CutReasons)
    <3> HIDE DEF k, u
    <3>. QED
      BY <2>1, <2>4, FinishEvent, Zenon
  <2> HIDE DEF k, u, o
  <2>6. x \in Seq(Middle) /\ Content(x) = <<>> /\ ~CutShort(x)
    BY <2>4, ToolStopsQuiet, MiddleUncut
  <2> HIDE DEF x
  <2>7. x \in Seq(Endless) /\ y \in Seq(Endless) /\ y = x \o <<o>> /\ <<o>> \in Seq(Endless)
    <3>1. x \in Seq(Endless)
      BY <2>6, EndlessSpeak
    <3>2. <<o>> \in Seq(Endless) /\ Append(x, o) \in Seq(Endless) /\ Append(x, o) = x \o <<o>>
      BY <2>5, <3>1, OneMore, Zenon
    <3>. QED
      BY <3>1, <3>2
  <2>8. Content(y) = <<>>
    BY <2>5, <2>6, <2>7, ContentAppend, Zenon
  <2>9. CutShort(y) <=> r \in CutReasons
    <3>1. CutShort(y) <=> CutShort(x) \/ CutShort(<<o>>)
      BY <2>7, CutConcat, Zenon
    <3>2. CutShort(<<o>>) <=> Cut(o)
      BY CutOne, Zenon
    <3>. QED
      BY <2>5, <2>6, <3>1, <3>2, Zenon
  <2> HIDE DEF y
  <2>10. v \in Seq(OutEvents)
    <3>1. y \in Seq(OutEvents) /\ c.w \in Seq(OutEvents)
      BY <2>2, <2>7, EndlessSpeak, SeqMonotonic DEF States
    <3>. QED
      BY <3>1, ConcatProperties
  <2>11. g \in Tooling /\ DOMAIN g = DOMAIN c.e.tools
    BY <2>4, ToolsClosed
  <2>12. t \in States /\ t.e.usage = c.e.usage /\ t.e.finished /\ t.w = v
    <3> HIDE DEF v, g
    <3>. QED
      BY <2>2, <2>10, <2>11, Zenon DEF States, Emitters
  <2> HIDE DEF t
  <2> DEFINE cut == r \in CutReasons
  <2>13. cut \in BOOLEAN
    OBVIOUS
  <2>14. CutShort(y) <=> cut
    BY <2>9
  <2>15. (~s.e.finished /\ r \in CutReasons) <=> cut
    BY <1>2
  <2> HIDE DEF cut
  <2>16. Ends(c, t, cut)
    BY <2>7, <2>8, <2>12, <2>14 DEF Ends
  <2>17. Ends(s, t, cut)
    BY <2>2, <2>13, <2>16, EndsAfter
  <2>. QED
    BY <2>3, <2>15, <2>17 DEF Ends
<1>. QED
  BY <1>1, <1>2

LEMMA EvKind ==
    ASSUME NEW t \in Quiet, NEW i \in Nat, NEW n \in Nat, NEW k \in QuietKinds
    PROVE  Ev(t, i, n, k) \in Middle /\ Kind(Ev(t, i, n, k)) = ""
<1>1. Ev(t, i, n, k) \in Middle
  BY EvQuiet
<1>2. Kind(Ev(t, i, n, k)) = ""
  BY Zenon DEF Kind, Ev, Quiet
<1>. QED
  BY <1>1, <1>2, Zenon

LEMMA QuietConcat ==
    ASSUME NEW a \in Seq(Middle), Content(a) = <<>>, NEW b \in Seq(Middle), Content(b) = <<>>
    PROVE  a \o b \in Seq(Middle) /\ Content(a \o b) = <<>>
<1>1. Content(a \o b) = Content(a) \o Content(b)
  BY OutSpeak, ContentConcat, Zenon
<1>2. <<>> \o <<>> = <<>>
  OBVIOUS
<1>. QED
  BY <1>1, <1>2, ConcatProperties

LEMMA ToolsDoneQuiet ==
    ASSUME NEW e \in Emitters
    PROVE  ToolsDone(e) \in Seq(Middle) /\ Content(ToolsDone(e)) = <<>>
<1> DEFINE n == 2 * Len(e.order)
           tool(j) == e.tools[e.order[(j + 1) \div 2]]
           ev(j) == IF j % 2 = 1 THEN At("args_done", tool(j).at)
                    ELSE [At("item_done", tool(j).at) EXCEPT !.k = "call", !.n = tool(j).id]
           w == [j \in 1..n |-> ev(j)]
<1>1. ToolsDone(e) = w
  BY Zenon DEF ToolsDone
<1>2. /\ e.order \in Seq(Nat) /\ Len(e.order) \in Nat /\ n \in Nat
      /\ e.tools \in Tooling
      /\ \A j \in 1..Len(e.order) : e.order[j] \in DOMAIN e.tools
  <2>1. /\ e.order \in Seq(Nat) /\ e.tools \in Tooling
        /\ \A j \in 1..Len(e.order) : e.order[j] \in DOMAIN e.tools
    BY Zenon DEF Emitters
  <2>2. Len(e.order) \in Nat
    BY <2>1
  <2>. QED
    BY <2>1, <2>2
<1>3. e.tools \in [DOMAIN e.tools -> ToolParts]
  BY <1>2, ToolsType
<1>4. ASSUME NEW j \in 1..n PROVE w[j] \in Middle /\ Kind(w[j]) = ""
  <2>1. (j + 1) \div 2 \in 1..Len(e.order)
    BY <1>2
  <2>2. tool(j) \in ToolParts
    BY <1>2, <1>3, <2>1
  <2> DEFINE a == tool(j).at
             d == tool(j).id
  <2>3. a \in Nat /\ d \in Nat
    <3> HIDE DEF tool
    <3>. QED
      BY <2>2 DEF ToolParts
  <2>4. w[j] = ev(j)
    BY Zenon
  <2>5. At("args_done", a) = Ev("args_done", a, 0, "")
    BY AtEv, Zenon
  <2>6. [At("item_done", a) EXCEPT !.k = "call", !.n = d] = Ev("item_done", a, d, "call")
    BY AtKindPayload, Zenon
  <2>7. \/ w[j] = Ev("args_done", a, 0, "")
        \/ w[j] = Ev("item_done", a, d, "call")
    <3> HIDE DEF tool, a, d
    <3>1. ev(j) = IF j % 2 = 1 THEN At("args_done", a)
                  ELSE [At("item_done", a) EXCEPT !.k = "call", !.n = d]
      BY Zenon DEF a, d
    <3> HIDE DEF w, ev
    <3>. QED
      BY <2>4, <2>5, <2>6, <3>1, Zenon
  <2> HIDE DEF a, d, w, tool
  <2>8. Ev("args_done", a, 0, "") \in Middle /\ Kind(Ev("args_done", a, 0, "")) = ""
    <3>1. "args_done" \in Quiet /\ "" \in QuietKinds /\ 0 \in Nat
      BY QuietNames, Zenon
    <3>. QED
      BY <2>3, <3>1, EvKind, Zenon
  <2>9. Ev("item_done", a, d, "call") \in Middle /\ Kind(Ev("item_done", a, d, "call")) = ""
    <3>1. "item_done" \in Quiet /\ "call" \in QuietKinds
      BY QuietNames, Zenon
    <3>. QED
      BY <2>3, <3>1, EvKind, Zenon
  <2>. QED
    BY <2>7, <2>8, <2>9, Zenon
<1>5. w \in Seq(Middle) /\ Len(w) = n
  <2>1. w \in [1..n -> Middle]
    BY <1>4, Zenon
  <2> HIDE DEF w
  <2>. QED
    BY <1>2, <2>1
<1>6. Silent(w)
  <2> HIDE DEF w
  <2>. QED
    BY <1>4, <1>5, Zenon DEF Silent
<1>. QED
  <2> HIDE DEF w
  <2>. QED
    BY <1>1, <1>5, <1>6, SilentContent

LEMMA OneOrTwo ==
    ASSUME NEW S, NEW a \in S, NEW b \in S
    PROVE  /\ <<a>> \in Seq(S) /\ <<a, b>> \in Seq(S)
           /\ Len(<<a>>) = 1 /\ Len(<<a, b>>) = 2
OBVIOUS

LEMMA ItemsDoneQuiet ==
    ASSUME NEW e \in Emitters
    PROVE  ItemsDone(e) \in Seq(Middle) /\ Content(ItemsDone(e)) = <<>>
<1> DEFINE i == e.item
           te == At("text_done", i)
           pe == At("part_done", i)
           ie == [At("item_done", i) EXCEPT !.k = "message"]
           x == IF e.part THEN <<te, pe>> ELSE <<>>
           y == IF e.added THEN <<ie>> ELSE <<>>
           z == ToolsDone(e)
<1>1. ItemsDone(e) = (x \o y) \o z
  BY Zenon DEF ItemsDone
<1>2. i \in Nat
  BY Zenon DEF Emitters
<1>3. te \in Middle /\ Kind(te) = "" /\ pe \in Middle /\ Kind(pe) = ""
  <2>1. te = Ev("text_done", i, 0, "") /\ pe = Ev("part_done", i, 0, "")
    BY AtEv, Zenon
  <2> HIDE DEF i, te, pe
  <2>. QED
    <3>0. /\ "text_done" \in Quiet /\ "part_done" \in Quiet
          /\ "" \in QuietKinds /\ 0 \in Nat
      BY QuietNames, Zenon
    <3>1. te \in Middle /\ Kind(te) = ""
      BY <1>2, <2>1, <3>0, EvKind, Zenon
    <3>2. pe \in Middle /\ Kind(pe) = ""
      BY <1>2, <2>1, <3>0, EvKind, Zenon
    <3>. QED
      BY <3>1, <3>2, Zenon
<1>4. ie \in Middle /\ Kind(ie) = ""
  <2>1. ie = Ev("item_done", i, 0, "message")
    BY AtKind, Zenon
  <2>2. "item_done" \in Quiet /\ "message" \in QuietKinds /\ 0 \in Nat
    BY QuietNames, Zenon
  <2> HIDE DEF i, ie
  <2>. QED
    BY <1>2, <2>1, <2>2, EvKind, Zenon
<1> HIDE DEF te, pe, ie
<1>5. <<te, pe>> \in Seq(Middle) /\ Content(<<te, pe>>) = <<>>
  <2>1. <<te, pe>> \in Seq(Middle) /\ Silent(<<te, pe>>)
    <3> DEFINE two == <<te, pe>>
    <3>1. Len(two) = 2 /\ two[1] = te /\ two[2] = pe
      OBVIOUS
    <3>2. \A j \in 1..2 : j = 1 \/ j = 2
      OBVIOUS
    <3>3. two \in Seq(Middle)
      BY <1>3, OneOrTwo, Zenon
    <3> HIDE DEF two
    <3>4. \A j \in 1..Len(two) : Kind(two[j]) = ""
      BY <1>3, <3>1, <3>2, Zenon
    <3>. QED
      BY <3>3, <3>4, Zenon DEF Silent, two
  <2>. QED
    BY <2>1, SilentContent
<1>6. <<ie>> \in Seq(Middle) /\ Content(<<ie>>) = <<>>
  <2>1. <<ie>> \in Seq(Middle) /\ Silent(<<ie>>)
    <3>1. Len(<<ie>>) = 1 /\ <<ie>>[1] = ie /\ <<ie>> \in Seq(Middle)
      <4>1. <<ie>> \in Seq(Middle) /\ Len(<<ie>>) = 1
        BY <1>4, OneOrTwo, Zenon
      <4>2. <<ie>>[1] = ie
        OBVIOUS
      <4>. QED
        BY <4>1, <4>2
    <3>2. \A j \in 1..1 : j = 1
      OBVIOUS
    <3>. QED
      BY <1>4, <3>1, <3>2, Zenon DEF Silent
  <2>. QED
    BY <2>1, SilentContent
<1>7. <<>> \in Seq(Middle) /\ Content(<<>>) = <<>>
  BY ContentEmpty
<1>8. x \in Seq(Middle) /\ Content(x) = <<>> /\ y \in Seq(Middle) /\ Content(y) = <<>>
  BY <1>5, <1>6, <1>7, Zenon
<1>9. z \in Seq(Middle) /\ Content(z) = <<>>
  BY ToolsDoneQuiet
<1> HIDE DEF x, y, z
<1>10. x \o y \in Seq(Middle) /\ Content(x \o y) = <<>>
  BY <1>8, QuietConcat
<1>. QED
  BY <1>1, <1>9, <1>10, QuietConcat, Zenon

LEMMA ResponsesFinishEnds ==
    ASSUME NEW s \in States, NEW r \in FinishReasons
    PROVE  Ends(s, ResponsesFinish(s, r), FALSE)
<1>1. CASE s.e.finished
  <2>1. <<>> \in Seq(Endless) /\ s.w = s.w \o <<>> /\ ~CutShort(<<>>)
    BY DEF States, CutShort
  <2>. QED
    BY <1>1, <2>1, ContentEmpty DEF ResponsesFinish, Ends
<1>2. CASE ~s.e.finished
  <2> DEFINE y == ItemsDone(s.e)
             v == s.w \o y
             g == [j \in DOMAIN s.e.tools |-> [s.e.tools[j] EXCEPT !.open = FALSE]]
             t == [s EXCEPT !.w = v, !.e.finished = TRUE, !.e.tools = g]
  <2>1. ResponsesFinish(s, r) = t
    <3> HIDE DEF y
    <3>. QED
      BY <1>2, Zenon DEF ResponsesFinish, y
  <2>2. s.e \in Emitters /\ s.e.tools \in Tooling /\ s.w \in Seq(OutEvents)
    BY Zenon DEF States, Emitters
  <2>3. y \in Seq(Middle) /\ Content(y) = <<>> /\ ~CutShort(y)
    BY <2>2, ItemsDoneQuiet, MiddleUncut
  <2> HIDE DEF y
  <2>4. y \in Seq(Endless) /\ v \in Seq(OutEvents)
    <3>1. y \in Seq(Endless) /\ y \in Seq(OutEvents)
      BY <2>3, EndlessSpeak
    <3>. QED
      BY <2>2, <3>1, ConcatProperties
  <2>5. g \in Tooling /\ DOMAIN g = DOMAIN s.e.tools
    BY <2>2, ToolsClosed
  <2>6. t \in States /\ t.e.usage = s.e.usage /\ t.e.finished /\ t.w = v
    <3> HIDE DEF v, g
    <3>. QED
      BY <2>4, <2>5, Zenon DEF States, Emitters
  <2> HIDE DEF t
  <2>. QED
    BY <2>1, <2>3, <2>4, <2>6 DEF Ends
<1>. QED
  BY <1>1, <1>2

----------------------------------------------------------------------------
(* One upstream event                                                      *)

LEMMA MaxOne == Max({1}) = 1
<1>1. 1 \in {1} /\ \A y \in {1} : 1 >= y
  OBVIOUS
<1>. QED
  BY <1>1 DEF Max

\* The folds of Emit and Receive, over at most one or two elements.
Texts(s, seq) == FoldLeft(PassText, s, seq)

LEMMA TextsFacts ==
    ASSUME NEW s, NEW c
    PROVE  Texts(s, <<>>) = s /\ Texts(s, <<c>>) = PassText(s, c)
<1> DEFINE It(h, f) == f = [S \in SUBSET (DOMAIN h) |->
                             IF S = {} THEN s
                             ELSE LET x == Max(S) IN PassText(f[S \ {x}], h[x])]
           f0 == [S \in {{}} |-> s]
           f1 == [S \in {{}, {1}} |-> IF S = {} THEN s ELSE PassText(s, c)]
<1>1. It(<<>>, f0)
  <2>1. SUBSET (DOMAIN <<>>) = {{}}
    OBVIOUS
  <2>. QED
    BY <2>1
<1>2. It(<<c>>, f1)
  <2>1. SUBSET (DOMAIN <<c>>) = {{}, {1}} /\ <<c>>[1] = c /\ {1} # {} /\ {1} \ {1} = {}
    OBVIOUS
  <2>2. f1[{}] = s
    OBVIOUS
  <2>3. ASSUME NEW S \in {{}, {1}}
        PROVE  f1[S] = IF S = {} THEN s
                       ELSE LET x == Max(S) IN PassText(f1[S \ {x}], <<c>>[x])
    <3>1. CASE S = {}
      BY <2>2, <3>1
    <3>2. CASE S = {1}
      <4>1. f1[S] = PassText(s, c)
        BY <2>1, <3>2
      <4> HIDE DEF f1
      <4>. QED
        BY <2>1, <2>2, <3>2, <4>1, MaxOne
    <3>. QED
      BY <3>1, <3>2
  <2>. QED
    BY <2>1, <2>3, Zenon
<1>3. \A h : Texts(s, h) = (CHOOSE f : It(h, f))[DOMAIN h]
  BY DEF Texts, FoldLeft, MapThenFoldSet
<1>4. It(<<>>, CHOOSE f : It(<<>>, f)) /\ It(<<c>>, CHOOSE f : It(<<c>>, f))
  <2> HIDE DEF It, f0, f1
  <2>. QED
    BY <1>1, <1>2, Zenon
<1>5. ASSUME NEW f, It(<<>>, f) PROVE f[DOMAIN <<>>] = s
  BY <1>5
<1>6. ASSUME NEW f, It(<<c>>, f) PROVE f[DOMAIN <<c>>] = PassText(s, c)
  <2>1. SUBSET (DOMAIN <<c>>) = {{}, {1}} /\ DOMAIN <<c>> = {1} /\ <<c>>[1] = c
        /\ {1} # {} /\ {1} \ {1} = {}
    OBVIOUS
  <2>2. f[{}] = s
    BY <1>6, <2>1
  <2>3. f[{1}] = PassText(f[{1} \ {Max({1})}], <<c>>[Max({1})])
    <3>1. \A S \in SUBSET (DOMAIN <<c>>) :
             f[S] = IF S = {} THEN s ELSE LET x == Max(S) IN PassText(f[S \ {x}], <<c>>[x])
      <4> DEFINE D == SUBSET (DOMAIN <<c>>)
                 v(S) == IF S = {} THEN s ELSE LET x == Max(S) IN PassText(f[S \ {x}], <<c>>[x])
      <4>1. f = [S \in D |-> v(S)]
        BY <1>6, Zenon
      <4> HIDE DEF D, v
      <4>2. \A S \in D : f[S] = v(S)
        BY <4>1
      <4>. QED
        BY <4>2, Zenon DEF D, v
    <3>2. {1} \in SUBSET (DOMAIN <<c>>)
      BY <2>1
    <3>. QED
      BY <2>1, <3>1, <3>2, Zenon
  <2> HIDE DEF It
  <2>. QED
    BY <2>1, <2>2, <2>3, MaxOne
<1> HIDE DEF It, f0, f1
<1>. QED
  BY <1>3, <1>4, <1>5, <1>6


CallsOf(s, seq) == FoldLeft(PassCall, s, seq)

LEMMA CallsOfFacts ==
    ASSUME NEW s, NEW c
    PROVE  CallsOf(s, <<>>) = s /\ CallsOf(s, <<c>>) = PassCall(s, c)
<1> DEFINE It(h, f) == f = [S \in SUBSET (DOMAIN h) |->
                             IF S = {} THEN s
                             ELSE LET x == Max(S) IN PassCall(f[S \ {x}], h[x])]
           f0 == [S \in {{}} |-> s]
           f1 == [S \in {{}, {1}} |-> IF S = {} THEN s ELSE PassCall(s, c)]
<1>1. It(<<>>, f0)
  <2>1. SUBSET (DOMAIN <<>>) = {{}}
    OBVIOUS
  <2>. QED
    BY <2>1
<1>2. It(<<c>>, f1)
  <2>1. SUBSET (DOMAIN <<c>>) = {{}, {1}} /\ <<c>>[1] = c /\ {1} # {} /\ {1} \ {1} = {}
    OBVIOUS
  <2>2. f1[{}] = s
    OBVIOUS
  <2>3. ASSUME NEW S \in {{}, {1}}
        PROVE  f1[S] = IF S = {} THEN s
                       ELSE LET x == Max(S) IN PassCall(f1[S \ {x}], <<c>>[x])
    <3>1. CASE S = {}
      BY <2>2, <3>1
    <3>2. CASE S = {1}
      <4>1. f1[S] = PassCall(s, c)
        BY <2>1, <3>2
      <4> HIDE DEF f1
      <4>. QED
        BY <2>1, <2>2, <3>2, <4>1, MaxOne
    <3>. QED
      BY <3>1, <3>2
  <2>. QED
    BY <2>1, <2>3, Zenon
<1>3. \A h : CallsOf(s, h) = (CHOOSE f : It(h, f))[DOMAIN h]
  BY DEF CallsOf, FoldLeft, MapThenFoldSet
<1>4. It(<<>>, CHOOSE f : It(<<>>, f)) /\ It(<<c>>, CHOOSE f : It(<<c>>, f))
  <2> HIDE DEF It, f0, f1
  <2>. QED
    BY <1>1, <1>2, Zenon
<1>5. ASSUME NEW f, It(<<>>, f) PROVE f[DOMAIN <<>>] = s
  BY <1>5
<1>6. ASSUME NEW f, It(<<c>>, f) PROVE f[DOMAIN <<c>>] = PassCall(s, c)
  <2>1. SUBSET (DOMAIN <<c>>) = {{}, {1}} /\ DOMAIN <<c>> = {1} /\ <<c>>[1] = c
        /\ {1} # {} /\ {1} \ {1} = {}
    OBVIOUS
  <2>2. f[{}] = s
    BY <1>6, <2>1
  <2>3. f[{1}] = PassCall(f[{1} \ {Max({1})}], <<c>>[Max({1})])
    <3>1. \A S \in SUBSET (DOMAIN <<c>>) :
             f[S] = IF S = {} THEN s ELSE LET x == Max(S) IN PassCall(f[S \ {x}], <<c>>[x])
      <4> DEFINE D == SUBSET (DOMAIN <<c>>)
                 v(S) == IF S = {} THEN s ELSE LET x == Max(S) IN PassCall(f[S \ {x}], <<c>>[x])
      <4>1. f = [S \in D |-> v(S)]
        BY <1>6, Zenon
      <4> HIDE DEF D, v
      <4>2. \A S \in D : f[S] = v(S)
        BY <4>1
      <4>. QED
        BY <4>2, Zenon DEF D, v
    <3>2. {1} \in SUBSET (DOMAIN <<c>>)
      BY <2>1
    <3>. QED
      BY <2>1, <3>1, <3>2, Zenon
  <2> HIDE DEF It
  <2>. QED
    BY <2>1, <2>2, <2>3, MaxOne
<1> HIDE DEF It, f0, f1
<1>. QED
  BY <1>3, <1>4, <1>5, <1>6


ArgsOf(s, seq) == FoldLeft(PassArgs, s, seq)

LEMMA ArgsOfFacts ==
    ASSUME NEW s, NEW c
    PROVE  ArgsOf(s, <<>>) = s /\ ArgsOf(s, <<c>>) = PassArgs(s, c)
<1> DEFINE It(h, f) == f = [S \in SUBSET (DOMAIN h) |->
                             IF S = {} THEN s
                             ELSE LET x == Max(S) IN PassArgs(f[S \ {x}], h[x])]
           f0 == [S \in {{}} |-> s]
           f1 == [S \in {{}, {1}} |-> IF S = {} THEN s ELSE PassArgs(s, c)]
<1>1. It(<<>>, f0)
  <2>1. SUBSET (DOMAIN <<>>) = {{}}
    OBVIOUS
  <2>. QED
    BY <2>1
<1>2. It(<<c>>, f1)
  <2>1. SUBSET (DOMAIN <<c>>) = {{}, {1}} /\ <<c>>[1] = c /\ {1} # {} /\ {1} \ {1} = {}
    OBVIOUS
  <2>2. f1[{}] = s
    OBVIOUS
  <2>3. ASSUME NEW S \in {{}, {1}}
        PROVE  f1[S] = IF S = {} THEN s
                       ELSE LET x == Max(S) IN PassArgs(f1[S \ {x}], <<c>>[x])
    <3>1. CASE S = {}
      BY <2>2, <3>1
    <3>2. CASE S = {1}
      <4>1. f1[S] = PassArgs(s, c)
        BY <2>1, <3>2
      <4> HIDE DEF f1
      <4>. QED
        BY <2>1, <2>2, <3>2, <4>1, MaxOne
    <3>. QED
      BY <3>1, <3>2
  <2>. QED
    BY <2>1, <2>3, Zenon
<1>3. \A h : ArgsOf(s, h) = (CHOOSE f : It(h, f))[DOMAIN h]
  BY DEF ArgsOf, FoldLeft, MapThenFoldSet
<1>4. It(<<>>, CHOOSE f : It(<<>>, f)) /\ It(<<c>>, CHOOSE f : It(<<c>>, f))
  <2> HIDE DEF It, f0, f1
  <2>. QED
    BY <1>1, <1>2, Zenon
<1>5. ASSUME NEW f, It(<<>>, f) PROVE f[DOMAIN <<>>] = s
  BY <1>5
<1>6. ASSUME NEW f, It(<<c>>, f) PROVE f[DOMAIN <<c>>] = PassArgs(s, c)
  <2>1. SUBSET (DOMAIN <<c>>) = {{}, {1}} /\ DOMAIN <<c>> = {1} /\ <<c>>[1] = c
        /\ {1} # {} /\ {1} \ {1} = {}
    OBVIOUS
  <2>2. f[{}] = s
    BY <1>6, <2>1
  <2>3. f[{1}] = PassArgs(f[{1} \ {Max({1})}], <<c>>[Max({1})])
    <3>1. \A S \in SUBSET (DOMAIN <<c>>) :
             f[S] = IF S = {} THEN s ELSE LET x == Max(S) IN PassArgs(f[S \ {x}], <<c>>[x])
      <4> DEFINE D == SUBSET (DOMAIN <<c>>)
                 v(S) == IF S = {} THEN s ELSE LET x == Max(S) IN PassArgs(f[S \ {x}], <<c>>[x])
      <4>1. f = [S \in D |-> v(S)]
        BY <1>6, Zenon
      <4> HIDE DEF D, v
      <4>2. \A S \in D : f[S] = v(S)
        BY <4>1
      <4>. QED
        BY <4>2, Zenon DEF D, v
    <3>2. {1} \in SUBSET (DOMAIN <<c>>)
      BY <2>1
    <3>. QED
      BY <2>1, <3>1, <3>2, Zenon
  <2> HIDE DEF It
  <2>. QED
    BY <2>1, <2>2, <2>3, MaxOne
<1> HIDE DEF It, f0, f1
<1>. QED
  BY <1>3, <1>4, <1>5, <1>6

LEMMA MaxTwo == Max({1, 2}) = 2
<1>1. 2 \in {1, 2} /\ \A y \in {1, 2} : 2 >= y
  OBVIOUS
<1>2. \A x \in {1, 2} : (\A y \in {1, 2} : x >= y) => x = 2
  OBVIOUS
<1>. QED
  BY <1>1, <1>2 DEF Max

\* The fold of Receive.
Turns(s, seq) == FoldLeft(Normalize, s, seq)

OneTurn(s, c) == Turns(s, <<c>>) = Normalize(s, c)
TwoTurns(s, c, d) == Turns(s, <<c, d>>) = Normalize(Normalize(s, c), d)

LEMMA TurnsFacts == ASSUME NEW s, NEW c, NEW d PROVE OneTurn(s, c) /\ TwoTurns(s, c, d)
<1> DEFINE It(h, f) == f = [S \in SUBSET (DOMAIN h) |->
                             IF S = {} THEN s
                             ELSE LET x == Max(S) IN Normalize(f[S \ {x}], h[x])]
           at(h, S, f) == IF S = {} THEN s ELSE LET x == Max(S) IN Normalize(f[S \ {x}], h[x])
           v(S) == IF S = {} THEN s ELSE IF 2 \notin S THEN Normalize(s, c)
                   ELSE IF 1 \in S THEN Normalize(Normalize(s, c), d) ELSE Normalize(s, d)
           f1 == [S \in {{}, {1}} |-> v(S)]
           f2 == [S \in {{}, {1}, {2}, {1, 2}} |-> v(S)]
<1>1. /\ DOMAIN <<c>> = {1} /\ <<c>>[1] = c
      /\ DOMAIN <<c, d>> = {1, 2} /\ <<c, d>>[1] = c /\ <<c, d>>[2] = d
      /\ SUBSET {1} = {{}, {1}} /\ SUBSET {1, 2} = {{}, {1}, {2}, {1, 2}}
      /\ {1} # {} /\ {2} # {} /\ {1, 2} # {}
      /\ {1} \ {1} = {} /\ {2} \ {2} = {} /\ {1, 2} \ {2} = {1}
  <2>1. SUBSET {1} = {{}, {1}}
    OBVIOUS
  <2>2. SUBSET {1, 2} = {{}, {1}, {2}, {1, 2}}
    <3>1. ASSUME NEW S \in SUBSET {1, 2} PROVE S \in {{}, {1}, {2}, {1, 2}}
      <4>1. CASE 1 \in S /\ 2 \in S
        <5>1. S = {1, 2}
          BY <4>1
        <5>. QED
          BY <5>1
      <4>2. CASE 1 \in S /\ 2 \notin S
        <5>1. S = {1}
          BY <4>2
        <5>. QED
          BY <5>1
      <4>3. CASE 1 \notin S /\ 2 \in S
        <5>1. S = {2}
          BY <4>3
        <5>. QED
          BY <5>1
      <4>4. CASE 1 \notin S /\ 2 \notin S
        <5>1. S = {}
          BY <4>4
        <5>. QED
          BY <5>1
      <4>. QED
        BY <4>1, <4>2, <4>3, <4>4
    <3>2. ASSUME NEW S \in {{}, {1}, {2}, {1, 2}} PROVE S \in SUBSET {1, 2}
      OBVIOUS
    <3>. QED
      BY <3>1, <3>2
  <2>3. DOMAIN <<c>> = {1} /\ <<c>>[1] = c /\ {1} # {} /\ {2} # {} /\ {1, 2} # {}
    OBVIOUS
  <2>4. DOMAIN <<c, d>> = {1, 2} /\ <<c, d>>[1] = c /\ <<c, d>>[2] = d
    OBVIOUS
  <2>5. {1} \ {1} = {} /\ {2} \ {2} = {} /\ {1, 2} \ {2} = {1}
    OBVIOUS
  <2>. QED
    BY <2>1, <2>2, <2>3, <2>4, <2>5
<1>2. Max({1}) = 1 /\ Max({1, 2}) = 2 /\ Max({2}) = 2
  <2>1. 2 \in {2} /\ \A y \in {2} : 2 >= y
    OBVIOUS
  <2>2. Max({2}) = 2
    BY <2>1 DEF Max
  <2>. QED
    BY <2>2, MaxOne, MaxTwo
<1>3. /\ v({}) = s /\ v({1}) = Normalize(s, c) /\ v({2}) = Normalize(s, d)
      /\ v({1, 2}) = Normalize(Normalize(s, c), d)
  BY <1>1
<1> HIDE DEF v
<1>4. ASSUME NEW f, NEW h, NEW S, S \in SUBSET (DOMAIN h), It(h, f) PROVE f[S] = at(h, S, f)
  <2> DEFINE D == SUBSET (DOMAIN h)
             w(X) == at(h, X, f)
  <2>1. f = [X \in D |-> w(X)]
    BY <1>4, Zenon
  <2> HIDE DEF D, w
  <2>2. \A X \in D : f[X] = w(X)
    BY <2>1
  <2>. QED
    BY <1>4, <2>2, Zenon DEF D, w
<1>11. ASSUME NEW h, NEW f
       PROVE  /\ at(h, {}, f) = s
              /\ at(h, {1}, f) = Normalize(f[{}], h[1])
              /\ at(h, {2}, f) = Normalize(f[{}], h[2])
              /\ at(h, {1, 2}, f) = Normalize(f[{1}], h[2])
  <2>1. at(h, {}, f) = s
    OBVIOUS
  <2>2. at(h, {1}, f) = Normalize(f[{1} \ {Max({1})}], h[Max({1})])
    BY <1>1, Zenon
  <2>3. at(h, {2}, f) = Normalize(f[{2} \ {Max({2})}], h[Max({2})])
    BY <1>1, Zenon
  <2>4. at(h, {1, 2}, f) = Normalize(f[{1, 2} \ {Max({1, 2})}], h[Max({1, 2})])
    BY <1>1, Zenon
  <2> HIDE DEF at
  <2>. QED
    BY <1>1, <1>2, <2>1, <2>2, <2>3, <2>4
<1>5. It(<<c>>, f1)
  <2>1. ASSUME NEW S \in {{}, {1}} PROVE f1[S] = at(<<c>>, S, f1)
    <3>1. f1[{}] = s /\ f1[{1}] = Normalize(s, c)
      BY <1>3
    <3> HIDE DEF f1, at
    <3>2. f1[{}] = at(<<c>>, {}, f1) /\ f1[{1}] = at(<<c>>, {1}, f1)
      BY <1>1, <1>11, <3>1
    <3>3. S = {} \/ S = {1}
      OBVIOUS
    <3>. QED
      BY <3>2, <3>3
  <2> DEFINE w(S) == at(<<c>>, S, f1)
  <2>2. f1 = [S \in {{}, {1}} |-> f1[S]]
    OBVIOUS
  <2>3. \A S \in {{}, {1}} : f1[S] = w(S)
    BY <2>1, Zenon
  <2> HIDE DEF f1, w
  <2>4. f1 = [S \in {{}, {1}} |-> w(S)]
    BY <2>2, <2>3
  <2>. QED
    BY <1>1, <2>4, Zenon DEF w
<1>6. It(<<c, d>>, f2)
  <2>1. ASSUME NEW S \in {{}, {1}, {2}, {1, 2}} PROVE f2[S] = at(<<c, d>>, S, f2)
    <3>1. /\ f2[{}] = s /\ f2[{1}] = Normalize(s, c) /\ f2[{2}] = Normalize(s, d)
          /\ f2[{1, 2}] = Normalize(Normalize(s, c), d)
      BY <1>3
    <3> HIDE DEF f2, at
    <3>2. /\ f2[{}] = at(<<c, d>>, {}, f2) /\ f2[{1}] = at(<<c, d>>, {1}, f2)
          /\ f2[{2}] = at(<<c, d>>, {2}, f2) /\ f2[{1, 2}] = at(<<c, d>>, {1, 2}, f2)
      BY <1>1, <1>11, <3>1
    <3>3. S = {} \/ S = {1} \/ S = {2} \/ S = {1, 2}
      OBVIOUS
    <3>. QED
      BY <3>2, <3>3
  <2> DEFINE w(S) == at(<<c, d>>, S, f2)
  <2>2. f2 = [S \in {{}, {1}, {2}, {1, 2}} |-> f2[S]]
    OBVIOUS
  <2>3. \A S \in {{}, {1}, {2}, {1, 2}} : f2[S] = w(S)
    BY <2>1, Zenon
  <2> HIDE DEF f2, w
  <2>4. f2 = [S \in {{}, {1}, {2}, {1, 2}} |-> w(S)]
    BY <2>2, <2>3
  <2>. QED
    BY <1>1, <2>4, Zenon DEF w
<1>7. \A h : Turns(s, h) = (CHOOSE f : It(h, f))[DOMAIN h]
  BY DEF Turns, FoldLeft, MapThenFoldSet
<1>8. It(<<c>>, CHOOSE f : It(<<c>>, f)) /\ It(<<c, d>>, CHOOSE f : It(<<c, d>>, f))
  <2> HIDE DEF It, f1, f2
  <2>. QED
    BY <1>5, <1>6, Zenon
<1> DEFINE g1 == CHOOSE f : It(<<c>>, f)
           g2 == CHOOSE f : It(<<c, d>>, f)
<1>9. Turns(s, <<c>>) = Normalize(s, c)
  <2>1. It(<<c>>, g1) /\ Turns(s, <<c>>) = g1[{1}]
    BY <1>1, <1>7, <1>8, Zenon
  <2> HIDE DEF g1, It, at
  <2>2. {} \in SUBSET (DOMAIN <<c>>) /\ {1} \in SUBSET (DOMAIN <<c>>)
    BY <1>1
  <2>3. g1[{}] = at(<<c>>, {}, g1) /\ g1[{1}] = at(<<c>>, {1}, g1)
    BY <1>4, <2>1, <2>2, Zenon
  <2>. QED
    BY <1>1, <1>11, <2>1, <2>3
<1>10. Turns(s, <<c, d>>) = Normalize(Normalize(s, c), d)
  <2>1. It(<<c, d>>, g2) /\ Turns(s, <<c, d>>) = g2[{1, 2}]
    BY <1>1, <1>7, <1>8, Zenon
  <2> HIDE DEF g2, It, at
  <2>2. /\ {} \in SUBSET (DOMAIN <<c, d>>) /\ {1} \in SUBSET (DOMAIN <<c, d>>)
        /\ {1, 2} \in SUBSET (DOMAIN <<c, d>>)
    BY <1>1
  <2>3. /\ g2[{}] = at(<<c, d>>, {}, g2) /\ g2[{1}] = at(<<c, d>>, {1}, g2)
        /\ g2[{1, 2}] = at(<<c, d>>, {1, 2}, g2)
    BY <1>4, <2>1, <2>2, Zenon
  <2>. QED
    BY <1>1, <1>11, <2>1, <2>3
<1>. QED
  BY <1>9, <1>10 DEF OneTurn, TwoTurns

\* The events of the three upstreams.
ChatTypes == {"role", "text", "think", "call", "args", "whole", "finish", "usage"}
MessagesTypes == {"message_start", "ping", "block_start", "block_delta", "block_stop",
                  "message_delta", "message_stop"}
ResponsesTypes == {"created", "failed", "text_delta", "think_delta", "args_delta",
                   "item_done", "item_added", "completed", "incomplete"}
Blocks == {"text", "think", "tool"}
Stops == {"end_turn", "tool_use", "max_tokens"}
Items == {"message", "reasoning", "call"}

ChatEvents ==
    {e \in [t : ChatTypes, i : Nat, k : {""} \cup Reasons, n : Nat \ {0}] :
        e.k \in Reasons <=> e.t = "finish"}
MessagesEvents ==
    {e \in [t : MessagesTypes, i : Nat, k : {""} \cup Blocks \cup Stops, n : Nat \ {0}] :
        /\ e.k \in Blocks <=> e.t \in {"block_start", "block_delta"}
        /\ e.k \in Stops <=> e.t = "message_delta"}
ResponsesEvents ==
    {e \in [t : ResponsesTypes, i : Nat, k : {""} \cup Items, n : Nat \ {0}] :
        e.k \in Items <=> e.t \in {"item_added", "item_done"}}
UpEvents(p) == CASE p = "chat" -> ChatEvents
                 [] p = "messages" -> MessagesEvents
                 [] p = "responses" -> ResponsesEvents

\* What the decoders make of an event: at most one piece of content, in one of
\* the fields, and then the finish reason is empty.
NoTools(ev) == ev.calls = <<>> /\ ev.args = <<>>
Shape(e, ev) ==
    \/ /\ ev.content = <<>> /\ ev.text = 0 /\ ev.delta = 0 /\ NoTools(ev)
       /\ PieceOf(e) = <<>>
    \/ /\ ev.content = <<>> /\ NoTools(ev) /\ ev.finish = ""
       /\ (ev.text = e.n /\ ev.delta = 0) \/ (ev.text = 0 /\ ev.delta = e.n)
       /\ PieceOf(e) = <<Piece("text", e.n)>>
    \/ /\ \E k \in {"text", "think"} :
              \/ ev.content = <<Piece(k, 0)>> /\ PieceOf(e) = <<>>
              \/ ev.content = <<Piece(k, e.n)>> /\ PieceOf(e) = <<Piece(k, e.n)>>
       /\ NoTools(ev) /\ ev.finish = ""
    \/ /\ ev.content = <<>> /\ ev.text = 0 /\ ev.delta = 0 /\ ev.finish = "" /\ ev.args = <<>>
       /\ \E i \in Nat, id \in Nat :
              \/ ev.calls = <<ToolCall(i, id, 0)>> /\ PieceOf(e) = <<>>
              \/ ev.calls = <<ToolCall(i, id, e.n)>> /\ PieceOf(e) = <<Piece("args", e.n)>>
    \/ /\ ev.content = <<>> /\ ev.text = 0 /\ ev.delta = 0 /\ ev.finish = "" /\ ev.calls = <<>>
       /\ \E i \in Nat : ev.args = <<[i |-> i, n |-> e.n]>>
       /\ PieceOf(e) = <<Piece("args", e.n)>>

LEMMA ChatShape ==
    ASSUME NEW e \in ChatEvents
    PROVE  Shape(e, DecodeChatStreamChunk(e))
<1> DEFINE ev == DecodeChatStreamChunk(e)
<1>1. e.i \in Nat /\ e.i + 1 \in Nat /\ e.n \in Nat /\ 0 \in Nat /\ e.t \in ChatTypes
  <2>1. e.i \in Nat /\ e.n \in Nat /\ e.t \in ChatTypes
    BY Zenon DEF ChatEvents
  <2>. QED
    BY <2>1
<1>2. CASE e.t \in {"role", "usage", "finish"}
  <2>1. PieceOf(e) = <<>>
    BY <1>2, Zenon DEF PieceOf, Kind
  <2>2. /\ ev.content = <<>> /\ ev.text = 0 /\ ev.delta = 0 /\ ev.calls = <<>> /\ ev.args = <<>>
    BY <1>2 DEF DecodeChatStreamChunk, NoEvent
  <2>. QED
    BY <2>1, <2>2 DEF Shape, NoTools
<1>3. CASE e.t = "text"
  <2>1. PieceOf(e) = <<Piece("text", e.n)>>
    BY <1>3 DEF PieceOf, Kind, Piece
  <2>2. /\ ev.content = <<>> /\ ev.text = e.n /\ ev.delta = 0 /\ ev.calls = <<>> /\ ev.args = <<>>
        /\ ev.finish = ""
    BY <1>3, Zenon DEF DecodeChatStreamChunk, NoEvent
  <2>. QED
    BY <2>1, <2>2, Zenon DEF Shape, NoTools
<1>4. CASE e.t = "think"
  <2>1. PieceOf(e) = <<Piece("think", e.n)>>
    BY <1>4 DEF PieceOf, Kind, Piece
  <2>2. /\ ev.content = <<Piece("think", e.n)>> /\ ev.calls = <<>> /\ ev.args = <<>>
        /\ ev.finish = ""
    BY <1>4, Zenon DEF DecodeChatStreamChunk, NoEvent
  <2>. QED
    BY <2>1, <2>2, Zenon DEF Shape, NoTools
<1>5. CASE e.t = "call"
  <2>1. PieceOf(e) = <<>>
    BY <1>5 DEF PieceOf, Kind
  <2>2. /\ ev.content = <<>> /\ ev.text = 0 /\ ev.delta = 0 /\ ev.args = <<>>
        /\ ev.finish = "" /\ ev.calls = <<ToolCall(e.i, e.i + 1, 0)>>
    BY <1>5, Zenon DEF DecodeChatStreamChunk, NoEvent
  <2>. QED
    BY <1>1, <2>1, <2>2, Zenon DEF Shape
<1>6. CASE e.t \in {"args", "whole"}
  <2>1. PieceOf(e) = <<Piece("args", e.n)>>
    BY <1>6, Zenon DEF PieceOf, Kind, Piece
  <2>2. /\ ev.content = <<>> /\ ev.text = 0 /\ ev.delta = 0 /\ ev.args = <<>> /\ ev.finish = ""
        /\ \/ ev.calls = <<ToolCall(e.i, 0, e.n)>>
           \/ ev.calls = <<ToolCall(e.i, e.i + 1, e.n)>>
    BY <1>6, Zenon DEF DecodeChatStreamChunk, NoEvent
  <2>. QED
    BY <1>1, <2>1, <2>2, Zenon DEF Shape
<1>. QED
  BY <1>1, <1>2, <1>3, <1>4, <1>5, <1>6 DEF ChatTypes

LEMMA MessagesShape ==
    ASSUME NEW e \in MessagesEvents
    PROVE  Shape(e, DecodeMessagesStreamEvent(e))
<1> DEFINE ev == DecodeMessagesStreamEvent(e)
<1>1. /\ e.i \in Nat /\ e.i + 1 \in Nat /\ e.n \in Nat /\ e.t \in MessagesTypes
      /\ e.t \in {"block_start", "block_delta"} => e.k \in Blocks
  <2>1. /\ e.i \in Nat /\ e.n \in Nat /\ e.t \in MessagesTypes
        /\ e.t \in {"block_start", "block_delta"} => e.k \in Blocks
    BY Zenon DEF MessagesEvents
  <2>. QED
    BY <2>1
<1>2. CASE e.t \in {"message_start", "ping", "block_stop", "message_delta", "message_stop"}
  <2>1. PieceOf(e) = <<>>
    BY <1>2, Zenon DEF PieceOf, Kind
  <2>2. /\ ev.content = <<>> /\ ev.text = 0 /\ ev.delta = 0 /\ ev.calls = <<>> /\ ev.args = <<>>
    BY <1>2 DEF DecodeMessagesStreamEvent, NoEvent
  <2>. QED
    BY <2>1, <2>2 DEF Shape, NoTools
<1>3. CASE e.t = "block_start" /\ e.k = "tool"
  <2>1. PieceOf(e) = <<>>
    BY <1>3 DEF PieceOf, Kind
  <2>2. /\ ev.content = <<>> /\ ev.text = 0 /\ ev.delta = 0 /\ ev.args = <<>>
        /\ ev.finish = "" /\ ev.calls = <<ToolCall(e.i, e.i + 1, 0)>>
    BY <1>3, Zenon DEF DecodeMessagesStreamEvent, NoEvent
  <2>. QED
    BY <1>1, <2>1, <2>2, Zenon DEF Shape
<1>4. CASE e.t = "block_start" /\ e.k # "tool"
  <2>1. PieceOf(e) = <<>>
    BY <1>4 DEF PieceOf, Kind
  <2>2. /\ ev.content = <<Piece(e.k, 0)>> /\ ev.calls = <<>> /\ ev.args = <<>> /\ ev.finish = ""
    BY <1>4, Zenon DEF DecodeMessagesStreamEvent, NoEvent
  <2>3. e.k \in {"text", "think"}
    BY <1>1, <1>4 DEF Blocks
  <2>. QED
    BY <2>1, <2>2, <2>3, Zenon DEF Shape, NoTools
<1>5. CASE e.t = "block_delta" /\ e.k = "tool"
  <2>1. PieceOf(e) = <<Piece("args", e.n)>>
    BY <1>5 DEF PieceOf, Kind, Piece
  <2>2. /\ ev.content = <<>> /\ ev.text = 0 /\ ev.delta = 0 /\ ev.calls = <<>>
        /\ ev.finish = "" /\ ev.args = <<[i |-> e.i, n |-> e.n]>>
    BY <1>5, Zenon DEF DecodeMessagesStreamEvent, NoEvent
  <2>. QED
    BY <1>1, <2>1, <2>2, Zenon DEF Shape
<1>6. CASE e.t = "block_delta" /\ e.k # "tool"
  <2>1. e.k \in {"text", "think"}
    BY <1>1, <1>6 DEF Blocks
  <2>2. PieceOf(e) = <<Piece(e.k, e.n)>>
    BY <1>6, <2>1, Zenon DEF PieceOf, Kind, Piece
  <2>3. /\ ev.content = <<Piece(e.k, e.n)>> /\ ev.calls = <<>> /\ ev.args = <<>>
        /\ ev.finish = ""
    BY <1>6, Zenon DEF DecodeMessagesStreamEvent, NoEvent
  <2>. QED
    BY <2>1, <2>2, <2>3, Zenon DEF Shape, NoTools
<1>. QED
  BY <1>1, <1>2, <1>3, <1>4, <1>5, <1>6 DEF MessagesTypes

LEMMA ResponsesShape ==
    ASSUME NEW e \in ResponsesEvents
    PROVE  Shape(e, DecodeResponsesStreamEvent(e))
<1> DEFINE ev == DecodeResponsesStreamEvent(e)
<1>1. e.i \in Nat /\ e.i + 1 \in Nat /\ e.n \in Nat /\ e.t \in ResponsesTypes
  <2>1. e.i \in Nat /\ e.n \in Nat /\ e.t \in ResponsesTypes
    BY Zenon DEF ResponsesEvents
  <2>. QED
    BY <2>1
<1>2. CASE e.t \in {"created", "failed", "item_done", "completed", "incomplete"}
           \/ (e.t = "item_added" /\ e.k # "call")
  <2>1. PieceOf(e) = <<>>
    BY <1>2, Zenon DEF PieceOf, Kind
  <2>2. /\ ev.content = <<>> /\ ev.text = 0 /\ ev.delta = 0 /\ ev.calls = <<>> /\ ev.args = <<>>
    BY <1>2 DEF DecodeResponsesStreamEvent, NoEvent
  <2>. QED
    BY <2>1, <2>2 DEF Shape, NoTools
<1>3. CASE e.t = "text_delta"
  <2>1. PieceOf(e) = <<Piece("text", e.n)>>
    BY <1>3 DEF PieceOf, Kind, Piece
  <2>2. /\ ev.content = <<>> /\ ev.text = 0 /\ ev.delta = e.n /\ ev.calls = <<>> /\ ev.args = <<>>
        /\ ev.finish = ""
    BY <1>3, Zenon DEF DecodeResponsesStreamEvent, NoEvent
  <2>. QED
    BY <2>1, <2>2, Zenon DEF Shape, NoTools
<1>4. CASE e.t = "think_delta"
  <2>1. PieceOf(e) = <<Piece("think", e.n)>>
    BY <1>4 DEF PieceOf, Kind, Piece
  <2>2. /\ ev.content = <<Piece("think", e.n)>> /\ ev.calls = <<>> /\ ev.args = <<>>
        /\ ev.finish = ""
    BY <1>4, Zenon DEF DecodeResponsesStreamEvent, NoEvent
  <2>. QED
    BY <2>1, <2>2, Zenon DEF Shape, NoTools
<1>5. CASE e.t = "item_added" /\ e.k = "call"
  <2>1. PieceOf(e) = <<>>
    BY <1>5 DEF PieceOf, Kind
  <2>2. /\ ev.content = <<>> /\ ev.text = 0 /\ ev.delta = 0 /\ ev.args = <<>>
        /\ ev.finish = "" /\ ev.calls = <<ToolCall(e.i, e.i + 1, 0)>>
    BY <1>5, Zenon DEF DecodeResponsesStreamEvent, NoEvent
  <2>. QED
    BY <1>1, <2>1, <2>2, Zenon DEF Shape
<1>6. CASE e.t = "args_delta"
  <2>1. PieceOf(e) = <<Piece("args", e.n)>>
    BY <1>6 DEF PieceOf, Kind, Piece
  <2>2. /\ ev.content = <<>> /\ ev.text = 0 /\ ev.delta = 0 /\ ev.calls = <<>>
        /\ ev.finish = "" /\ ev.args = <<[i |-> e.i, n |-> e.n]>>
    BY <1>6, Zenon DEF DecodeResponsesStreamEvent, NoEvent
  <2>. QED
    BY <1>1, <2>1, <2>2, Zenon DEF Shape
<1>. QED
  BY <1>1, <1>2, <1>3, <1>4, <1>5, <1>6 DEF ResponsesTypes

LEMMA DecodeShape ==
    ASSUME NEW p \in Protocols, NEW e \in UpEvents(p)
    PROVE  Shape(e, Decode(p, e))
<1>1. CASE p = "chat"
  BY <1>1, ChatShape DEF UpEvents, Decode
<1>2. CASE p = "messages"
  BY <1>2, MessagesShape DEF UpEvents, Decode
<1>3. CASE p = "responses"
  BY <1>3, ResponsesShape DEF UpEvents, Decode
<1>. QED
  BY <1>1, <1>2, <1>3 DEF Protocols

LEMMA NoChange == ASSUME NEW s \in States PROVE Says(s, s, <<>>)
BY NothingSaid

LEMMA PassTextSays ==
    ASSUME dst \in Protocols, NEW s \in States, NEW k \in {"text", "think"}, NEW n \in Nat
    PROVE  Says(s, PassText(s, Piece(k, n)), IF n = 0 THEN <<>> ELSE <<Piece(k, n)>>)
<1>1. Piece(k, n).k = k /\ Piece(k, n).n = n /\ Piece(k, n) = [k |-> k, n |-> n]
  BY DEF Piece
<1>2. CASE n = 0
  <2>1. PassText(s, Piece(k, n)) = s
    BY <1>1, <1>2 DEF PassText
  <2>. QED
    BY <1>2, <2>1, NoChange
<1>3. CASE n # 0
  <2>1. PassText(s, Piece(k, n)) = OnDelta(dst, s, k, n)
    BY <1>1, <1>3 DEF PassText
  <2>2. Says(s, OnDelta(dst, s, k, n), <<[k |-> k, n |-> n]>>)
    <3>1. CASE dst = "chat"
      BY <3>1, ChatSays DEF OnDelta
    <3>2. CASE dst = "messages"
      BY <3>2, MessagesDeltaSays DEF OnDelta
    <3>3. CASE dst = "responses" /\ k = "text"
      BY <3>3, ResponsesDeltaSays DEF OnDelta
    <3>4. CASE dst = "responses" /\ k = "think"
      BY <3>4, ResponsesDeltaSays DEF OnDelta
    <3>. QED
      BY <3>1, <3>2, <3>3, <3>4 DEF Protocols
  <2>. QED
    BY <1>1, <1>3, <2>1, <2>2
<1>. QED
  BY <1>2, <1>3

LEMMA PassArgsSays ==
    ASSUME dst \in Protocols, NEW s \in States, NEW c, c.i \in Nat, c.n \in Nat
    PROVE  Says(s, PassArgs(s, c), IF c.n = 0 THEN <<>> ELSE <<Piece("args", c.n)>>)
<1> DEFINE i == c.i
           n == c.n
<1>1. i \in Nat /\ n \in Nat
  OBVIOUS
<1>2. PassArgs(s, c) = IF n = 0 THEN s ELSE OnToolCallDelta(dst, s, i, n)
  BY Zenon DEF PassArgs
<1> HIDE DEF i, n
<1>3. CASE n = 0
  BY <1>2, <1>3, NoChange DEF n
<1>4. CASE n # 0
  <2>1. Says(s, OnToolCallDelta(dst, s, i, n), <<Piece("args", n)>>)
    <3>1. CASE dst = "chat"
      BY <1>1, <3>1, ChatSays DEF OnToolCallDelta, Piece
    <3>2. CASE dst = "messages"
      BY <1>1, <3>2, MessagesToolDeltaSays DEF OnToolCallDelta, Piece
    <3>3. CASE dst = "responses"
      BY <1>1, <3>3, ResponsesToolDeltaSays DEF OnToolCallDelta, Piece
    <3>. QED
      BY <3>1, <3>2, <3>3 DEF Protocols
  <2>. QED
    BY <1>2, <1>4, <2>1 DEF n
<1>. QED
  BY <1>3, <1>4

LEMMA PassCallSays ==
    ASSUME dst \in Protocols, NEW s \in States, NEW c, c.i \in Nat, c.id \in Nat, c.n \in Nat
    PROVE  Says(s, PassCall(s, c), IF c.n = 0 THEN <<>> ELSE <<Piece("args", c.n)>>)
<1> DEFINE i == c.i
           id == c.id
           b == IF id = 0 THEN s ELSE OnToolCallStart(dst, s, i, id)
           t == PassArgs(b, c)
           p == IF c.n = 0 THEN <<>> ELSE <<Piece("args", c.n)>>
<1>1. i \in Nat /\ id \in Nat
  OBVIOUS
<1>2. PassCall(s, c) = t
  BY Zenon DEF PassCall
<1>3. Says(s, b, <<>>)
  <2> HIDE DEF i, id
  <2>1. CASE id = 0
    BY <2>1, NoChange
  <2>2. CASE id # 0
    <3>1. Says(s, OnToolCallStart(dst, s, i, id), <<>>)
      <4>1. CASE dst = "chat"
        BY <1>1, <4>1, ChatSays DEF OnToolCallStart
      <4>2. CASE dst = "messages"
        BY <1>1, <4>2, MessagesToolStartSays DEF OnToolCallStart
      <4>3. CASE dst = "responses"
        BY <1>1, <4>3, ResponsesToolStartSays DEF OnToolCallStart
      <4>. QED
        BY <4>1, <4>2, <4>3 DEF Protocols
    <3>. QED
      BY <2>2, <3>1
  <2>. QED
    BY <2>1, <2>2
<1> HIDE DEF b
<1>4. b \in States
  BY <1>3 DEF Says
<1>5. Says(b, t, p)
  BY <1>4, PassArgsSays
<1>6. p \in Seq(Speech)
  <2>1. Piece("args", c.n) \in Speech
    BY DEF Speech, Piece
  <2>2. <<>> \in Seq(Speech) /\ <<Piece("args", c.n)>> \in Seq(Speech)
    BY <2>1, OneOrTwo
  <2>. QED
    BY <2>2, Zenon
<1> HIDE DEF t, p
<1>7. Says(s, t, p)
  BY <1>3, <1>5, <1>6, QuietThen
<1>. QED
  BY <1>2, <1>7 DEF p

\* Emit, but for usage and the finish reason.
Body(s, ev) ==
    LET s1 == Texts(s, ev.content)
        s2 == IF ev.content = <<>> THEN PassText(s1, Piece("text", ev.text)) ELSE s1
        s3 == ArgsOf(CallsOf(s2, ev.calls), ev.args)
    IN  IF ev.content = <<>> THEN PassText(s3, Piece("text", ev.delta)) ELSE s3

LEMMA EmitBody ==
    ASSUME NEW s, NEW ev
    PROVE  Emit(s, ev) = LET b == OnUsage(dst, Body(s, ev), ev.usage)
                         IN  IF ev.finish \in {"", "failed"} THEN b ELSE OnFinish(dst, b, ev.finish)
BY Zenon DEF Emit, Body, Texts, CallsOf, ArgsOf

LEMMA PassNoText == ASSUME NEW s PROVE PassText(s, Piece("text", 0)) = s
BY DEF PassText, Piece

\* The body of Emit says what the event says.
LEMMA BodySays ==
    ASSUME dst \in Protocols, NEW s \in States, NEW e, e.n \in Nat \ {0},
           NEW ev, Shape(e, ev)
    PROVE  Says(s, Body(s, ev), PieceOf(e))
<1> DEFINE n == e.n
           p == PieceOf(e)
<1>1. n \in Nat /\ n # 0
  OBVIOUS
<1>2. Texts(s, <<>>) = s /\ CallsOf(s, <<>>) = s /\ \A x : ArgsOf(x, <<>>) = x
  BY TextsFacts, CallsOfFacts, ArgsOfFacts
<1>3. CASE /\ ev.content = <<>> /\ ev.text = 0 /\ ev.delta = 0 /\ NoTools(ev)
           /\ p = <<>>
  <2>1. Body(s, ev) = s
    BY <1>2, <1>3, PassNoText DEF Body, NoTools
  <2>. QED
    BY <1>3, <2>1, NoChange
<1>4. CASE /\ ev.content = <<>> /\ NoTools(ev)
           /\ (ev.text = n /\ ev.delta = 0) \/ (ev.text = 0 /\ ev.delta = n)
           /\ p = <<Piece("text", n)>>
  <2> DEFINE t == PassText(s, Piece("text", n))
  <2>1. Body(s, ev) = t
    <3> HIDE DEF n
    <3>1. \A x : CallsOf(x, <<>>) = x
      BY CallsOfFacts
    <3>. QED
      BY <1>2, <1>4, <3>1, PassNoText DEF Body, NoTools
  <2>2. Says(s, t, <<Piece("text", n)>>)
    BY <1>1, PassTextSays
  <2>. QED
    BY <1>4, <2>1, <2>2
<1>5. CASE /\ NoTools(ev)
           /\ \E k \in {"text", "think"} :
                 \/ ev.content = <<Piece(k, 0)>> /\ p = <<>>
                 \/ ev.content = <<Piece(k, n)>> /\ p = <<Piece(k, n)>>
  <2>1. PICK k \in {"text", "think"} :
                 \/ ev.content = <<Piece(k, 0)>> /\ p = <<>>
                 \/ ev.content = <<Piece(k, n)>> /\ p = <<Piece(k, n)>>
    BY <1>5, Zenon
  <2>2. PICK m \in {0, n} : /\ ev.content = <<Piece(k, m)>>
                            /\ p = IF m = 0 THEN <<>> ELSE <<Piece(k, m)>>
    BY <1>1, <2>1
  <2>3. m \in Nat
    BY <1>1, <2>2
  <2> DEFINE t == PassText(s, Piece(k, m))
  <2>4. Body(s, ev) = t
    <3>1. \A x : CallsOf(x, <<>>) = x
      BY CallsOfFacts
    <3>2. Texts(s, ev.content) = t /\ ev.content # <<>>
      BY <2>2, TextsFacts
    <3>. QED
      BY <1>2, <1>5, <3>1, <3>2, Zenon DEF Body, NoTools
  <2>5. Says(s, t, IF m = 0 THEN <<>> ELSE <<Piece(k, m)>>)
    BY <2>3, PassTextSays
  <2>. QED
    BY <2>2, <2>4, <2>5
<1>6. CASE /\ ev.content = <<>> /\ ev.text = 0 /\ ev.delta = 0 /\ ev.args = <<>>
           /\ \E i \in Nat, id \in Nat :
                 \/ ev.calls = <<ToolCall(i, id, 0)>> /\ p = <<>>
                 \/ ev.calls = <<ToolCall(i, id, n)>> /\ p = <<Piece("args", n)>>
  <2>1. PICK i \in Nat, id \in Nat : 
                 \/ ev.calls = <<ToolCall(i, id, 0)>> /\ p = <<>>
                 \/ ev.calls = <<ToolCall(i, id, n)>> /\ p = <<Piece("args", n)>>
    BY <1>6
  <2>2. PICK m \in {0, n} : /\ ev.calls = <<ToolCall(i, id, m)>>
                            /\ p = IF m = 0 THEN <<>> ELSE <<Piece("args", m)>>
    BY <1>1, <2>1
  <2>3. m \in Nat
    BY <1>1, <2>2
  <2> DEFINE c == ToolCall(i, id, m)
             t == PassCall(s, c)
  <2>4. c.i = i /\ c.id = id /\ c.n = m
    BY DEF ToolCall
  <2> HIDE DEF c
  <2>5. Body(s, ev) = t
    <3>1. CallsOf(s, ev.calls) = t
      BY <2>2, CallsOfFacts DEF c
    <3> HIDE DEF t
    <3>. QED
      BY <1>2, <1>6, <3>1, PassNoText DEF Body
  <2>6. Says(s, t, IF c.n = 0 THEN <<>> ELSE <<Piece("args", c.n)>>)
    BY <2>3, <2>4, PassCallSays
  <2>. QED
    BY <2>2, <2>4, <2>5, <2>6
<1>7. CASE /\ ev.content = <<>> /\ ev.text = 0 /\ ev.delta = 0 /\ ev.calls = <<>>
           /\ \E i \in Nat : ev.args = <<[i |-> i, n |-> n]>>
           /\ p = <<Piece("args", n)>>
  <2>1. PICK i \in Nat : ev.args = <<[i |-> i, n |-> n]>>
    BY <1>7
  <2> DEFINE c == [i |-> i, n |-> n]
             t == PassArgs(s, c)
  <2>2. c.i = i /\ c.n = n
    OBVIOUS
  <2> HIDE DEF c
  <2>3. Body(s, ev) = t
    <3>1. ArgsOf(s, ev.args) = t
      BY <2>1, ArgsOfFacts DEF c
    <3> HIDE DEF t
    <3>. QED
      BY <1>2, <1>7, <3>1, PassNoText DEF Body
  <2>4. Says(s, t, IF c.n = 0 THEN <<>> ELSE <<Piece("args", c.n)>>)
    BY <1>1, <2>2, PassArgsSays
  <2>. QED
    BY <1>1, <1>7, <2>2, <2>3, <2>4
<1>. QED
  BY <1>3, <1>4, <1>5, <1>6, <1>7, Zenon DEF Shape

LEMMA FinishEnds ==
    ASSUME NEW s \in States, NEW p \in Protocols, NEW r \in FinishReasons
    PROVE  Ends(s, OnFinish(p, s, r), p # "responses" /\ ~s.e.finished /\ r \in CutReasons)
<1>1. CASE p = "chat"
  <2>1. OnFinish(p, s, r) = ChatFinish(s, r)
    BY <1>1 DEF OnFinish
  <2> DEFINE t == OnFinish(p, s, r)
             cut == ~s.e.finished /\ r \in CutReasons
  <2>2. Ends(s, t, cut)
    BY <2>1, ChatFinishEnds
  <2>3. (p # "responses" /\ ~s.e.finished /\ r \in CutReasons) <=> cut
    BY <1>1
  <2> HIDE DEF t, cut
  <2>4. Ends(s, t, p # "responses" /\ ~s.e.finished /\ r \in CutReasons)
    BY <2>2, <2>3 DEF Ends
  <2>. QED
    BY <2>4 DEF t
<1>2. CASE p = "messages"
  <2>1. OnFinish(p, s, r) = MessagesFinish(s, r)
    BY <1>2 DEF OnFinish
  <2> DEFINE t == OnFinish(p, s, r)
             cut == ~s.e.finished /\ r \in CutReasons
  <2>2. Ends(s, t, cut)
    BY <2>1, MessagesFinishEnds
  <2>3. (p # "responses" /\ ~s.e.finished /\ r \in CutReasons) <=> cut
    BY <1>2
  <2> HIDE DEF t, cut
  <2>4. Ends(s, t, p # "responses" /\ ~s.e.finished /\ r \in CutReasons)
    BY <2>2, <2>3 DEF Ends
  <2>. QED
    BY <2>4 DEF t
<1>3. CASE p = "responses"
  <2>1. OnFinish(p, s, r) = ResponsesFinish(s, r)
    BY <1>3 DEF OnFinish
  <2>. QED
    BY <1>3, <2>1, ResponsesFinishEnds DEF Ends
<1>. QED
  BY <1>1, <1>2, <1>3 DEF Protocols

\* What the decoders make of the usage and the finish reason of an event.
LEMMA DecodeTypes ==
    ASSUME NEW p \in Protocols, NEW e \in UpEvents(p)
    PROVE  /\ Decode(p, e).usage \in SUBSET Fields
           /\ Decode(p, e).finish \in FinishReasons \cup {"failed"}
<1> USE DEF NoEvent, Fields, FinishReasons
<1>1. CASE p = "chat"
  <2>1. e.t \in ChatTypes /\ (e.t = "finish" => e.k \in Reasons)
    BY <1>1, Zenon DEF UpEvents, ChatEvents
  <2>. QED
    BY <1>1, <2>1, ZenonT(30) DEF Decode, DecodeChatStreamChunk, ChatTypes, Reasons
<1>2. CASE p = "messages"
  <2>1. /\ e.t \in MessagesTypes /\ (e.t = "message_delta" => e.k \in Stops)
        /\ e.t \in {"block_start", "block_delta"} => e.k = "tool" \/ e.k # "tool"
    BY <1>2, Zenon DEF UpEvents, MessagesEvents
  <2>2. Decode(p, e) = DecodeMessagesStreamEvent(e)
    BY <1>2 DEF Decode
  <2>3. CASE e.t = "message_delta"
    BY <2>1, <2>2, <2>3, Zenon DEF DecodeMessagesStreamEvent, Stops
  <2>4. CASE e.t # "message_delta"
    <3>1. CASE e.t = "block_start" /\ e.k = "tool"
      BY <2>2, <3>1, Zenon DEF DecodeMessagesStreamEvent
    <3>2. CASE e.t = "block_start" /\ e.k # "tool"
      BY <2>2, <3>2, Zenon DEF DecodeMessagesStreamEvent
    <3>3. CASE e.t = "block_delta" /\ e.k = "tool"
      BY <2>2, <3>3, Zenon DEF DecodeMessagesStreamEvent
    <3>4. CASE e.t = "block_delta" /\ e.k # "tool"
      BY <2>2, <3>4, Zenon DEF DecodeMessagesStreamEvent
    <3>5. CASE e.t = "message_start"
      BY <2>2, <3>5, Zenon DEF DecodeMessagesStreamEvent
    <3>6. CASE e.t = "message_stop"
      BY <2>2, <3>6, Zenon DEF DecodeMessagesStreamEvent
    <3>7. CASE e.t = "ping" \/ e.t = "block_stop"
      <4>1. DecodeMessagesStreamEvent(e) = NoEvent
        BY <3>7, Zenon DEF DecodeMessagesStreamEvent
      <4>2. NoEvent.usage = {} /\ NoEvent.finish = ""
        OBVIOUS
      <4>3. Decode(p, e).usage = {} /\ Decode(p, e).finish = ""
        BY <2>2, <4>1, <4>2, Zenon
      <4>. QED
        BY <4>3, Zenon
    <3>. QED
      BY <2>1, <2>4, <3>1, <3>2, <3>3, <3>4, <3>5, <3>6, <3>7, Zenon DEF MessagesTypes
  <2>. QED
    BY <2>3, <2>4, Zenon
<1>3. CASE p = "responses"
  <2>1. e.t \in ResponsesTypes
    BY <1>3, Zenon DEF UpEvents, ResponsesEvents
  <2>. QED
    BY <1>3, <2>1 DEF Decode, DecodeResponsesStreamEvent, ResponsesTypes
<1>. QED
  BY <1>1, <1>2, <1>3, Zenon DEF Protocols

\* From s to t the client hears p, and usage u is added; the answer is finished
\* if fin, and the client hears that it was cut if cut.
Puts(s, t, p, u, fin, cut) ==
    /\ t \in States
    /\ t.e.usage = s.e.usage \cup u
    /\ t.e.finished <=> s.e.finished \/ fin
    /\ \E x \in Seq(Endless) : /\ t.w = s.w \o x /\ Content(x) = p
                               /\ CutShort(x) <=> cut

LEMMA UsageAdded ==
    ASSUME NEW s \in States, NEW u \in SUBSET Fields
    PROVE  /\ OnUsage(dst, s, u) \in States
           /\ OnUsage(dst, s, u).w = s.w
           /\ OnUsage(dst, s, u).e.usage = s.e.usage \cup u
           /\ OnUsage(dst, s, u).e.finished = s.e.finished
<1> DEFINE v == s.e.usage \cup u
           t == [s EXCEPT !.e.usage = v]
<1>1. OnUsage(dst, s, u) = t
  BY DEF OnUsage
<1>2. v \in SUBSET Fields
  BY Zenon DEF States, Emitters
<1> HIDE DEF v
<1>3. t \in States /\ t.w = s.w /\ t.e.usage = v /\ t.e.finished = s.e.finished
  BY <1>2, Zenon DEF States, Emitters
<1>. QED
  BY <1>1, <1>3 DEF v

LEMMA EmitPuts ==
    ASSUME dst \in Protocols, NEW p \in Protocols, NEW s \in States, NEW e \in UpEvents(p),
           NEW ev, ev = Decode(p, e)
    PROVE  Puts(s, Emit(s, ev), PieceOf(e), ev.usage, ev.finish \notin {"", "failed"},
                dst # "responses" /\ ~s.e.finished /\ ev.finish \in CutReasons)
<1> DEFINE b == Body(s, ev)
           c == OnUsage(dst, b, ev.usage)
           t == Emit(s, ev)
           q == PieceOf(e)
           r == ev.finish
           u == ev.usage
           fin == r \notin {"", "failed"}
           cut == dst # "responses" /\ ~s.e.finished /\ r \in CutReasons
<1>1. Shape(e, ev) /\ u \in SUBSET Fields /\ r \in FinishReasons \cup {"failed"}
  BY DecodeShape, DecodeTypes
<1>2. e.n \in Nat \ {0}
  BY Zenon DEF UpEvents, ChatEvents, MessagesEvents, ResponsesEvents, Protocols
<1>3. Says(s, b, q)
  BY <1>1, <1>2, BodySays
<1>4. t = IF r \in {"", "failed"} THEN c ELSE OnFinish(dst, c, r)
  BY EmitBody, Zenon
<1>5. fin => q = <<>>
  BY <1>1, Zenon DEF Shape
<1>6. fin \in BOOLEAN /\ cut \in BOOLEAN /\ (cut => fin)
  BY Zenon DEF CutReasons
<1>7. ~fin => t = c
  BY <1>4, Zenon
<1>8. fin => t = OnFinish(dst, c, r) /\ r \in FinishReasons
  BY <1>1, <1>4, Zenon
<1>9. cut <=> dst # "responses" /\ ~s.e.finished /\ r \in CutReasons
  OBVIOUS
<1> HIDE DEF b, c, t, q, r, u, fin, cut
<1>10. b \in States /\ b.e.usage = s.e.usage /\ b.e.finished = s.e.finished
  BY <1>3 DEF Says
<1>11. /\ c \in States /\ c.w = b.w
       /\ c.e.usage = s.e.usage \cup u /\ c.e.finished = s.e.finished
  BY <1>1, <1>10, UsageAdded DEF c, u
<1>12. PICK x \in Seq(Middle) : b.w = s.w \o x /\ Content(x) = q
  BY <1>3 DEF Says
<1>13. x \in Seq(Endless) /\ ~CutShort(x)
  BY EndlessSpeak, MiddleUncut
<1>14. CASE ~fin
  <2>1. t.w = s.w \o x
    BY <1>7, <1>11, <1>12, <1>14
  <2>2. ~cut
    BY <1>6, <1>14
  <2>. QED
    BY <1>7, <1>11, <1>12, <1>13, <1>14, <2>1, <2>2, Zenon DEF Puts, t, q, u, fin, cut, r
<1>15. CASE fin
  <2>1. Says(s, c, <<>>) \/ TRUE
    OBVIOUS
  <2>2. Ends(c, t, dst # "responses" /\ ~c.e.finished /\ r \in CutReasons)
    BY <1>8, <1>11, <1>15, FinishEnds
  <2>3. PICK y \in Seq(Endless) : /\ t.w = c.w \o y /\ Content(y) = <<>>
                                  /\ CutShort(y) <=> cut
    BY <1>9, <1>11, <2>2 DEF Ends
  <2>4. t \in States /\ t.e.usage = c.e.usage /\ t.e.finished
    BY <2>2 DEF Ends
  <2> DEFINE z == x \o y
  <2>5. z \in Seq(Endless)
    BY <1>13, <2>3, ConcatProperties
  <2>6. t.w = s.w \o z
    <3>1. s.w \in Seq(OutEvents) /\ x \in Seq(OutEvents) /\ y \in Seq(OutEvents)
      BY <1>13, <2>3, EndlessSpeak DEF States
    <3>2. Associates(s.w, x, y)
      BY <3>1, ConcatsAssociate, Zenon
    <3>. QED
      BY <1>11, <1>12, <2>3, <3>2, Zenon DEF Associates
  <2>7. Content(z) = q
    <3>1. Content(z) = Content(x) \o Content(y)
      BY <1>13, <2>3, EndlessSpeak, ContentConcat, Zenon
    <3>2. <<>> \o <<>> = <<>>
      OBVIOUS
    <3>. QED
      BY <1>5, <1>12, <1>15, <2>3, <3>1, <3>2
  <2>8. CutShort(z) <=> cut
    <3>1. CutShort(z) <=> CutShort(x) \/ CutShort(y)
      BY <1>13, <2>3, CutConcat, Zenon
    <3>. QED
      BY <1>13, <2>3, <3>1
  <2> HIDE DEF z
  <2>9. Puts(s, t, q, u, fin, cut)
    BY <1>11, <1>15, <2>4, <2>5, <2>6, <2>7, <2>8 DEF Puts
  <2>. QED
    BY <2>9, Zenon DEF t, q, u, fin, cut, r
<1>. QED
  BY <1>14, <1>15, Zenon

\* w continues v by the end of an answer, which reports the usage U.
Closing(v, w, cut, U) ==
    \E x \in Seq(OutEvents) :
        /\ w = v \o x /\ Content(x) = <<>>
        /\ CutShort(x) <=> cut
        /\ \A u \in U : \E j \in 1..Len(x) : u \in x[j].u

LEMMA UsageMore ==
    ASSUME NEW S, NEW x \in Seq(S), NEW o \in S, NEW U,
           \A u \in U : \E j \in 1..Len(x) : u \in x[j].u
    PROVE  \A u \in U \cup o.u : \E j \in 1..Len(Append(x, o)) : u \in Append(x, o)[j].u
<1> DEFINE y == Append(x, o)
<1>1. Len(x) \in Nat
  OBVIOUS
<1>2. Len(y) = Len(x) + 1 /\ y[Len(x) + 1] = o /\ \A j \in 1..Len(x) : y[j] = x[j]
  BY AppendProperties
<1> HIDE DEF y
<1> SUFFICES ASSUME NEW u \in U \cup o.u PROVE \E j \in 1..Len(y) : u \in y[j].u
  BY Zenon DEF y
<1>3. CASE u \in U
  <2>1. PICK j \in 1..Len(x) : u \in x[j].u
    BY <1>3
  <2>2. j \in 1..Len(y) /\ y[j] = x[j]
    BY <1>1, <1>2
  <2>. QED
    BY <2>1, <2>2
<1>4. CASE u \in o.u
  <2>1. Len(x) + 1 \in 1..Len(y)
    BY <1>1, <1>2
  <2>. QED
    BY <1>2, <1>4, <2>1
<1>. QED
  BY <1>3, <1>4

LEMMA TailMore ==
    ASSUME NEW v \in Seq(OutEvents), NEW w, NEW cut \in BOOLEAN, NEW U, Closing(v, w, cut, U),
           NEW o \in OutEvents, Kind(o) = ""
    PROVE  /\ Append(w, o) \in Seq(OutEvents)
           /\ Closing(v, Append(w, o), cut \/ Cut(o), U \cup o.u)
<1>1. PICK x \in Seq(OutEvents) :
         /\ w = v \o x /\ Content(x) = <<>>
         /\ CutShort(x) <=> cut
         /\ \A u \in U : \E j \in 1..Len(x) : u \in x[j].u
  BY Zenon DEF Closing
<1> DEFINE y == Append(x, o)
           cut2 == cut \/ Cut(o)
<1>2. y \in Seq(OutEvents) /\ y = x \o <<o>> /\ <<o>> \in Seq(OutEvents)
  BY OneMore, Zenon
<1>3. Append(w, o) = v \o y
  <2>1. LastAssociates(v, x, o)
    BY AppendAssociates, Zenon
  <2>. QED
    BY <1>1, <2>1, Zenon DEF LastAssociates
<1>4. Content(y) = <<>>
  BY <1>1, ContentAppend, Zenon
<1>5. CutShort(y) <=> cut2
  <2>1. CutShort(y) <=> CutShort(x) \/ CutShort(<<o>>)
    BY <1>2, CutConcat, Zenon
  <2>. QED
    BY <1>1, <2>1, CutOne, Zenon
<1>6. \A u \in U \cup o.u : \E j \in 1..Len(y) : u \in y[j].u
  BY <1>1, UsageMore, Zenon
<1>7. Append(w, o) \in Seq(OutEvents)
  <2>1. v \o y \in Seq(OutEvents)
    BY <1>2, ConcatProperties, Zenon
  <2>. QED
    BY <1>3, <2>1, Zenon
<1> HIDE DEF y, cut2
<1>8. Closing(v, Append(w, o), cut2, U \cup o.u)
  BY <1>2, <1>3, <1>4, <1>5, <1>6, Zenon DEF Closing
<1>. QED
  BY <1>7, <1>8, Zenon DEF cut2

LEMMA EndsTail ==
    ASSUME NEW s \in States, NEW t, NEW cut, Ends(s, t, cut)
    PROVE  t \in States /\ t.e.usage = s.e.usage /\ Closing(s.w, t.w, cut, {})
<1>1. PICK x \in Seq(Endless) : t.w = s.w \o x /\ Content(x) = <<>> /\ (CutShort(x) <=> cut)
  BY DEF Ends
<1>2. x \in Seq(OutEvents)
  BY EndlessSpeak
<1>. QED
  BY <1>1, <1>2 DEF Ends, Closing

LEMMA OutUsage ==
    ASSUME NEW t, NEW u
    PROVE  [Out(t) EXCEPT !.u = u] = [t |-> t, i |-> 0, n |-> 0, k |-> "", u |-> u]
<1>1. [Out(t) EXCEPT !.u = u] \in [t : {t}, i : {0}, n : {0}, k : {""}, u : {u}]
  BY Zenon DEF Out
<1>2. ASSUME NEW e \in [t : {t}, i : {0}, n : {0}, k : {""}, u : {u}]
      PROVE  e = [t |-> t, i |-> 0, n |-> 0, k |-> "", u |-> u]
  BY Zenon
<1>. QED
  BY <1>1, <1>2, Zenon

\* An event at the end of an answer.
LEMMA EndEvent ==
    ASSUME NEW t \in Endings \cup {"usage"}, NEW u \in SUBSET Fields
    PROVE  LET o == [t |-> t, i |-> 0, n |-> 0, k |-> "", u |-> u]
           IN  o \in OutEvents /\ Kind(o) = "" /\ (Cut(o) <=> t = "incomplete") /\ o.u = u
<1> DEFINE o == [t |-> t, i |-> 0, n |-> 0, k |-> "", u |-> u]
<1>1. t \in OutTypes /\ t # "block_delta"
  BY DEF OutTypes, Endings
<1>2. o \in OutEvents
  BY <1>1, Blank, Zenon DEF OutEvents
<1>3. Kind(o) = ""
  BY DEF Kind, Endings
<1>4. Cut(o) <=> t = "incomplete"
  BY Blank, Zenon DEF Cut
<1>. QED
  BY <1>2, <1>3, <1>4, Zenon

\* What OnComplete writes.
CompletesAs(s, v, cut) ==
    /\ v \in Seq(OutEvents)
    /\ Closing(s.w, v, cut, IF dst = "messages" THEN {} ELSE s.e.usage)

LEMMA ChatCompletes ==
    ASSUME dst = "chat", NEW s \in States, NEW r \in FinishReasons
    PROVE  CompletesAs(s, ChatComplete(s, r).w, ~s.e.finished /\ r \in CutReasons)
<1> DEFINE q == OrElse(r, "stop")
           f == ChatFinish(s, q)
           o == [t |-> "usage", i |-> 0, n |-> 0, k |-> "", u |-> f.e.usage]
           d == [t |-> "DONE", i |-> 0, n |-> 0, k |-> "", u |-> {}]
           u == IF f.e.usage = {} THEN f ELSE Write(f, o)
           cut == ~s.e.finished /\ r \in CutReasons
<1>1. ChatComplete(s, r) = Write(u, d)
  <2>1. [Out("usage") EXCEPT !.u = f.e.usage] = o
    BY OutUsage, Zenon
  <2>2. Out("DONE") = d
    BY OutEv, Zenon DEF Ev
  <2> HIDE DEF o, d, f
  <2>. QED
    BY <2>1, <2>2, Zenon DEF ChatComplete, f
<1>2. q \in FinishReasons /\ (q \in CutReasons <=> r \in CutReasons)
  BY Zenon DEF OrElse, FinishReasons, CutReasons
<1>3. cut \in BOOLEAN /\ (cut <=> ~s.e.finished /\ q \in CutReasons)
  BY <1>2
<1> HIDE DEF q, cut
<1>4. Ends(s, f, ~s.e.finished /\ q \in CutReasons)
  BY <1>2, ChatFinishEnds
<1>5. Ends(s, f, cut)
  BY <1>3, <1>4 DEF Ends
<1>6. f \in States /\ f.e.usage = s.e.usage /\ Closing(s.w, f.w, cut, {})
  BY <1>5, EndsTail
<1> HIDE DEF f
<1>7. s.w \in Seq(OutEvents) /\ s.e.usage \in SUBSET Fields
  BY Zenon DEF States, Emitters
<1>8. o \in OutEvents /\ Kind(o) = "" /\ ~Cut(o) /\ o.u = s.e.usage
  <2> DEFINE w == f.e.usage
  <2>1. w \in SUBSET Fields /\ w = s.e.usage
    BY <1>6, <1>7
  <2>2. "usage" \in Endings \cup {"usage"} /\ "usage" # "incomplete"
    OBVIOUS
  <2> HIDE DEF w
  <2>3. LET x == [t |-> "usage", i |-> 0, n |-> 0, k |-> "", u |-> w]
        IN  x \in OutEvents /\ Kind(x) = "" /\ (Cut(x) <=> "usage" = "incomplete") /\ x.u = w
    BY <2>1, <2>2, EndEvent, ZenonT(30)
  <2>. QED
    BY <2>1, <2>2, <2>3, Zenon DEF w
<1>9. d \in OutEvents /\ Kind(d) = "" /\ ~Cut(d) /\ d.u = {}
  <2>1. {} \in SUBSET Fields
    OBVIOUS
  <2>2. "DONE" \in Endings \cup {"usage"} /\ "DONE" # "incomplete"
    BY DEF Endings
  <2>3. LET x == [t |-> "DONE", i |-> 0, n |-> 0, k |-> "", u |-> {}]
        IN  x \in OutEvents /\ Kind(x) = "" /\ (Cut(x) <=> "DONE" = "incomplete") /\ x.u = {}
    BY <2>1, <2>2, EndEvent, Zenon
  <2>. QED
    BY <2>2, <2>3, Zenon
<1> HIDE DEF o, d
<1>10. Write(u, d).w = Append(u.w, d)
  <2>1. \E a, b : u = [e |-> a, w |-> b]
    <3>1. f = [e |-> f.e, w |-> f.w]
      BY <1>6 DEF States
    <3>2. CASE f.e.usage = {}
      BY <3>1, <3>2
    <3>3. CASE f.e.usage # {}
      BY <3>1, <3>3 DEF Write
    <3>. QED
      BY <3>2, <3>3
  <2> HIDE DEF u
  <2>. QED
    BY <2>1 DEF Write
<1>11. Closing(s.w, u.w, cut, s.e.usage)
  <2>1. CASE f.e.usage = {}
    BY <1>6, <2>1
  <2>2. CASE f.e.usage # {}
    <3>1. u.w = Append(f.w, o)
      <4>1. f = [e |-> f.e, w |-> f.w]
        BY <1>6 DEF States
      <4>. QED
        BY <2>2, <4>1 DEF Write
    <3>2. Closing(s.w, Append(f.w, o), cut \/ Cut(o), {} \cup o.u)
      BY <1>3, <1>6, <1>7, <1>8, TailMore, Zenon
    <3>3. {} \cup o.u = s.e.usage
      BY <1>8, Zenon
    <3>. QED
      BY <1>3, <1>8, <3>1, <3>2, <3>3, Zenon DEF Closing
  <2>. QED
    BY <2>1, <2>2
<1> HIDE DEF u
<1>12. /\ Append(u.w, d) \in Seq(OutEvents)
       /\ Closing(s.w, Append(u.w, d), cut \/ Cut(d), s.e.usage \cup d.u)
  BY <1>3, <1>7, <1>9, <1>11, TailMore, Zenon
<1>13. s.e.usage \cup d.u = s.e.usage
  BY <1>9, Zenon
<1>14. Closing(s.w, Append(u.w, d), cut, s.e.usage)
  BY <1>3, <1>9, <1>12, <1>13, Zenon DEF Closing
<1>15. CompletesAs(s, ChatComplete(s, r).w, cut)
  BY <1>1, <1>10, <1>12, <1>14 DEF CompletesAs
<1>. QED
  BY <1>15 DEF cut

LEMMA WriteAppends ==
    ASSUME NEW f, NEW o, \E a, b : f = [e |-> a, w |-> b]
    PROVE  /\ Write(f, o).w = Append(f.w, o)
           /\ Write(f, o) = [e |-> f.e, w |-> Append(f.w, o)]
BY DEF Write

LEMMA StateFields ==
    ASSUME NEW f \in States
    PROVE  \E a, b : f = [e |-> a, w |-> b]
<1>1. f = [e |-> f.e, w |-> f.w]
  BY DEF States
<1>. QED
  BY <1>1

LEMMA MessagesCompletes ==
    ASSUME dst = "messages", NEW s \in States, NEW r \in FinishReasons
    PROVE  CompletesAs(s, MessagesComplete(s, r).w, ~s.e.finished /\ r \in CutReasons)
<1> DEFINE f == MessagesFinish(s, r)
           d == [t |-> "message_stop", i |-> 0, n |-> 0, k |-> "", u |-> {}]
           cut == ~s.e.finished /\ r \in CutReasons
<1>1. MessagesComplete(s, r) = Write(f, d)
  <2>1. Out("message_stop") = d
    BY OutEv, Zenon DEF Ev
  <2> HIDE DEF d, f
  <2>. QED
    BY <2>1, Zenon DEF MessagesComplete, f
<1>2. cut \in BOOLEAN
  OBVIOUS
<1>3. Ends(s, f, cut)
  BY MessagesFinishEnds
<1> HIDE DEF cut
<1>4. f \in States /\ Closing(s.w, f.w, cut, {})
  BY <1>3, EndsTail
<1> HIDE DEF f
<1>5. s.w \in Seq(OutEvents)
  BY DEF States
<1>6. d \in OutEvents /\ Kind(d) = "" /\ ~Cut(d) /\ d.u = {}
  <2>1. {} \in SUBSET Fields
    OBVIOUS
  <2>2. "message_stop" \in Endings \cup {"usage"} /\ "message_stop" # "incomplete"
    BY DEF Endings
  <2>3. LET x == [t |-> "message_stop", i |-> 0, n |-> 0, k |-> "", u |-> {}]
        IN  /\ x \in OutEvents /\ Kind(x) = "" /\ (Cut(x) <=> "message_stop" = "incomplete")
            /\ x.u = {}
    BY <2>1, <2>2, EndEvent, Zenon
  <2>. QED
    BY <2>2, <2>3, Zenon
<1> HIDE DEF d
<1>7. Write(f, d).w = Append(f.w, d)
  BY <1>4, WriteAppends, StateFields
<1>8. /\ Append(f.w, d) \in Seq(OutEvents)
      /\ Closing(s.w, Append(f.w, d), cut \/ Cut(d), {} \cup d.u)
  BY <1>2, <1>4, <1>5, <1>6, TailMore, Zenon
<1>9. {} \cup d.u = {}
  BY <1>6, Zenon
<1>10. Closing(s.w, Append(f.w, d), cut, {})
  BY <1>2, <1>6, <1>8, <1>9, Zenon DEF Closing
<1>11. CompletesAs(s, MessagesComplete(s, r).w, cut)
  BY <1>1, <1>7, <1>8, <1>10 DEF CompletesAs
<1>. QED
  BY <1>11 DEF cut

LEMMA ResponsesCompletes ==
    ASSUME dst = "responses", NEW s \in States, NEW r \in FinishReasons
    PROVE  CompletesAs(s, ResponsesComplete(s, r).w, r = "length")
<1> DEFINE f == ResponsesFinish(s, r)
           type == IF ToResponses(r) \in {"incomplete", "failed"} THEN ToResponses(r) ELSE "completed"
           o == [t |-> type, i |-> 0, n |-> 0, k |-> "", u |-> f.e.usage]
           d == [t |-> "DONE", i |-> 0, n |-> 0, k |-> "", u |-> {}]
           end == Write(f, o)
           cut == r = "length"
<1>1. ResponsesComplete(s, r) = IF type = "completed" THEN Write(end, d) ELSE end
  <2>1. [Out(type) EXCEPT !.u = f.e.usage] = o
    BY OutUsage, Zenon
  <2>2. Out("DONE") = d
    BY OutEv, Zenon DEF Ev
  <2> HIDE DEF d, f, type, o
  <2>. QED
    BY <2>1, <2>2, Zenon DEF ResponsesComplete, f, type
<1>2. type \in {"completed", "incomplete"} /\ (type = "incomplete" <=> r = "length")
  BY Zenon DEF ToResponses, FinishReasons
<1>3. cut \in BOOLEAN /\ (cut <=> type = "incomplete")
  BY <1>2
<1>4. Ends(s, f, FALSE)
  BY ResponsesFinishEnds
<1> HIDE DEF cut, f, type
<1>5. f \in States /\ f.e.usage = s.e.usage /\ Closing(s.w, f.w, FALSE, {})
  BY <1>4, EndsTail
<1>6. s.w \in Seq(OutEvents) /\ s.e.usage \in SUBSET Fields
  BY Zenon DEF States, Emitters
<1>7. o \in OutEvents /\ Kind(o) = "" /\ (Cut(o) <=> type = "incomplete") /\ o.u = s.e.usage
  <2> DEFINE w == f.e.usage
  <2>1. w \in SUBSET Fields /\ w = s.e.usage
    BY <1>5, <1>6
  <2>2. type \in Endings \cup {"usage"}
    BY <1>2 DEF Endings
  <2> HIDE DEF w
  <2>3. LET x == [t |-> type, i |-> 0, n |-> 0, k |-> "", u |-> w]
        IN  x \in OutEvents /\ Kind(x) = "" /\ (Cut(x) <=> type = "incomplete") /\ x.u = w
    BY <2>1, <2>2, EndEvent, Zenon
  <2>. QED
    BY <2>1, <2>3, Zenon DEF w
<1>8. d \in OutEvents /\ Kind(d) = "" /\ ~Cut(d) /\ d.u = {}
  <2>1. {} \in SUBSET Fields
    OBVIOUS
  <2>2. "DONE" \in Endings \cup {"usage"} /\ "DONE" # "incomplete"
    BY DEF Endings
  <2>3. LET x == [t |-> "DONE", i |-> 0, n |-> 0, k |-> "", u |-> {}]
        IN  x \in OutEvents /\ Kind(x) = "" /\ (Cut(x) <=> "DONE" = "incomplete") /\ x.u = {}
    BY <2>1, <2>2, EndEvent, Zenon
  <2>. QED
    BY <2>2, <2>3, Zenon
<1> HIDE DEF o, d
<1>9. end.w = Append(f.w, o) /\ \E a, b : end = [e |-> a, w |-> b]
  BY <1>5, WriteAppends, StateFields
<1>10. Write(end, d).w = Append(end.w, d)
  BY <1>9, WriteAppends
<1> HIDE DEF end
<1>11. /\ Append(f.w, o) \in Seq(OutEvents)
       /\ Closing(s.w, Append(f.w, o), FALSE \/ Cut(o), {} \cup o.u)
  BY <1>5, <1>6, <1>7, TailMore, Zenon
<1>12. {} \cup o.u = s.e.usage
  BY <1>7, Zenon
<1>13. end.w \in Seq(OutEvents) /\ Closing(s.w, end.w, cut, s.e.usage)
  BY <1>3, <1>7, <1>9, <1>11, <1>12, Zenon DEF Closing
<1>14. /\ Append(end.w, d) \in Seq(OutEvents)
       /\ Closing(s.w, Append(end.w, d), cut \/ Cut(d), s.e.usage \cup d.u)
  BY <1>3, <1>6, <1>8, <1>13, TailMore, Zenon
<1>15. s.e.usage \cup d.u = s.e.usage
  BY <1>8, Zenon
<1>16. Closing(s.w, Append(end.w, d), cut, s.e.usage)
  BY <1>3, <1>8, <1>14, <1>15, Zenon DEF Closing
<1>17. CompletesAs(s, ResponsesComplete(s, r).w, cut)
  <2>1. (IF dst = "messages" THEN {} ELSE s.e.usage) = s.e.usage
    OBVIOUS
  <2>2. CASE type = "completed"
    BY <1>1, <1>10, <1>14, <1>16, <2>1, <2>2 DEF CompletesAs
  <2>3. CASE type # "completed"
    BY <1>1, <1>13, <2>1, <2>3 DEF CompletesAs
  <2>. QED
    BY <2>2, <2>3
<1>. QED
  BY <1>17 DEF cut

LEMMA Completes ==
    ASSUME dst \in Protocols, NEW s \in States, NEW r \in FinishReasons
    PROVE  CompletesAs(s, OnComplete(dst, s, r).w,
                       IF dst = "responses" THEN r = "length"
                       ELSE ~s.e.finished /\ r \in CutReasons)
<1>1. CASE dst = "chat"
  BY <1>1, ChatCompletes DEF OnComplete
<1>2. CASE dst = "messages"
  BY <1>2, MessagesCompletes DEF OnComplete
<1>3. CASE dst = "responses"
  BY <1>3, ResponsesCompletes DEF OnComplete
<1>. QED
  BY <1>1, <1>2, <1>3 DEF Protocols

----------------------------------------------------------------------------
(* One step of the converter                                               *)

LEMMA PutsThen ==
    ASSUME NEW s \in States, NEW t, Puts(s, t, <<>>, {}, FALSE, FALSE),
           NEW v, NEW p, p \in Seq(Speech), NEW u,
           NEW fin, NEW cut \in BOOLEAN, Puts(t, v, p, u, fin, cut)
    PROVE  Puts(s, v, p, u, fin, cut)
<1>1. PICK x \in Seq(Endless) : t.w = s.w \o x /\ Content(x) = <<>> /\ ~CutShort(x)
  BY DEF Puts
<1>2. PICK y \in Seq(Endless) : /\ v.w = t.w \o y /\ Content(y) = p
                                /\ CutShort(y) <=> cut
  BY DEF Puts
<1> DEFINE z == x \o y
<1>4. z \in Seq(Endless)
  BY <1>1, <1>2, ConcatProperties
<1>5. v.w = s.w \o z
  <2>1. s.w \in Seq(OutEvents) /\ x \in Seq(OutEvents) /\ y \in Seq(OutEvents)
    BY <1>1, <1>2, EndlessSpeak DEF States
  <2>2. Associates(s.w, x, y)
    BY <2>1, ConcatsAssociate, Zenon
  <2>. QED
    BY <1>1, <1>2, <2>2, Zenon DEF Associates
<1>6. Content(z) = p
  <2>1. Content(z) = Content(x) \o Content(y)
    BY <1>1, <1>2, EndlessSpeak, ContentConcat, Zenon
  <2>2. <<>> \o p = p
    OBVIOUS
  <2>. QED
    BY <1>1, <1>2, <2>1, <2>2
<1>7. CutShort(z) <=> cut
  <2>1. CutShort(z) <=> CutShort(x) \/ CutShort(y)
    BY <1>1, <1>2, CutConcat, Zenon
  <2>. QED
    BY <1>1, <1>2, <2>1
<1> HIDE DEF z
<1>8. /\ v \in States /\ v.e.usage = t.e.usage \cup u
      /\ v.e.finished <=> t.e.finished \/ fin
      /\ t.e.usage = s.e.usage /\ (t.e.finished <=> s.e.finished)
  BY DEF Puts
<1>. QED
  BY <1>4, <1>5, <1>6, <1>7, <1>8 DEF Puts

LEMMA SaysPuts ==
    ASSUME NEW s \in States, NEW t, Says(s, t, <<>>), NEW v, NEW p, p \in Seq(Speech), NEW u,
           NEW fin, NEW cut \in BOOLEAN, Puts(t, v, p, u, fin, cut)
    PROVE  Puts(s, v, p, u, fin, cut)
<1>1. PICK x \in Seq(Middle) : t.w = s.w \o x /\ Content(x) = <<>>
  BY DEF Says
<1>2. x \in Seq(Endless) /\ ~CutShort(x)
  BY EndlessSpeak, MiddleUncut
<1>3. Puts(s, t, <<>>, {}, FALSE, FALSE)
  BY <1>1, <1>2 DEF Says, Puts
<1>. QED
  BY <1>3, PutsThen

Reasonings == FinishReasons \cup {"failed"}
Converters == [em : Emitters, started : BOOLEAN, seen : BOOLEAN, reason : Reasonings,
               failed : BOOLEAN, read : Nat]

LEMMA PieceType ==
    ASSUME NEW p \in Protocols, NEW e \in UpEvents(p)
    PROVE  PieceOf(e) \in Seq(Speech)
<1>1. e.n \in Nat
  BY Zenon DEF UpEvents, ChatEvents, MessagesEvents, ResponsesEvents, Protocols
<1>2. Kind(e) \in {"", "text", "think", "args"}
  <2>1. CASE e.t = "block_delta"
    <3>1. e.k \in Blocks
      <4>1. p = "messages"
        BY <2>1, Zenon DEF UpEvents, ChatEvents, ResponsesEvents, Protocols, ChatTypes, ResponsesTypes
      <4>. QED
        BY <2>1, <4>1, Zenon DEF UpEvents, MessagesEvents
    <3>. QED
      BY <2>1, <3>1, Zenon DEF Kind, Blocks
  <2>2. CASE e.t # "block_delta"
    BY <2>2 DEF Kind
  <2>. QED
    BY <2>1, <2>2, Zenon
<1>3. CASE Kind(e) = ""
  <2>1. <<>> \in Seq(Speech)
    OBVIOUS
  <2>. QED
    BY <1>3, <2>1, Zenon DEF PieceOf
<1>4. CASE Kind(e) # ""
  <2> DEFINE q == [k |-> Kind(e), n |-> e.n]
  <2>1. q \in Speech
    BY <1>1, <1>2, <1>4, Zenon DEF Speech
  <2>2. PieceOf(e) = <<q>>
    BY <1>4, Zenon DEF PieceOf
  <2> HIDE DEF q
  <2>. QED
    BY <2>1, <2>2, OneOrTwo
<1>. QED
  BY <1>3, <1>4, Zenon

\* An event that does not start the answer has nothing to say.
LEMMA MeaninglessSaysNothing ==
    ASSUME NEW p \in Protocols, NEW e \in UpEvents(p), NEW ev, ev = Decode(p, e), ~IsMeaningful(ev)
    PROVE  ev.usage = {} /\ ev.finish = "" /\ PieceOf(e) = <<>>
<1>1. Shape(e, ev)
  BY DecodeShape
<1>2. e.n # 0
  BY Zenon DEF UpEvents, ChatEvents, MessagesEvents, ResponsesEvents, Protocols
<1>3. /\ ev.usage = {} /\ ev.finish = "" /\ ev.text = 0 /\ ev.delta = 0
      /\ \A j \in DOMAIN ev.content : ev.content[j].n = 0
      /\ \A j \in DOMAIN ev.calls : ev.calls[j].n = 0
      /\ \A j \in DOMAIN ev.args : ev.args[j].n = 0
  BY Zenon DEF IsMeaningful
<1>4. ASSUME NEW c PROVE 1 \in DOMAIN <<c>> /\ <<c>>[1] = c
  OBVIOUS
<1>5. PieceOf(e) = <<>>
  <2>1. ASSUME NEW k PROVE ev.content # <<Piece(k, e.n)>>
    <3> DEFINE c == Piece(k, e.n)
    <3>1. c.n = e.n
      BY DEF Piece
    <3> HIDE DEF c
    <3>2. 1 \in DOMAIN <<c>> /\ <<c>>[1] = c
      BY <1>4
    <3>3. ASSUME ev.content = <<c>> PROVE FALSE
      <4>1. 1 \in DOMAIN ev.content /\ ev.content[1] = c
        BY <3>2, <3>3, Zenon
      <4>2. ev.content[1].n = 0
        BY <1>3, <4>1, Zenon
      <4>. QED
        BY <1>2, <3>1, <4>1, <4>2, Zenon
    <3>. QED
      BY <3>3 DEF c
  <2>2. ASSUME NEW i, NEW id PROVE ev.calls # <<ToolCall(i, id, e.n)>>
    <3> DEFINE c == ToolCall(i, id, e.n)
    <3>1. c.n = e.n
      BY DEF ToolCall
    <3> HIDE DEF c
    <3>2. 1 \in DOMAIN <<c>> /\ <<c>>[1] = c
      BY <1>4
    <3>3. ASSUME ev.calls = <<c>> PROVE FALSE
      <4>1. 1 \in DOMAIN ev.calls /\ ev.calls[1] = c
        BY <3>2, <3>3, Zenon
      <4>2. ev.calls[1].n = 0
        BY <1>3, <4>1, Zenon
      <4>. QED
        BY <1>2, <3>1, <4>1, <4>2, Zenon
    <3>. QED
      BY <3>3 DEF c
  <2>3. ASSUME NEW i PROVE ev.args # <<[i |-> i, n |-> e.n]>>
    <3> DEFINE c == [i |-> i, n |-> e.n]
    <3>1. c.n = e.n
      BY <1>2
    <3> HIDE DEF c
    <3>2. 1 \in DOMAIN <<c>> /\ <<c>>[1] = c
      BY <1>4
    <3>3. ASSUME ev.args = <<c>> PROVE FALSE
      <4>1. 1 \in DOMAIN ev.args /\ ev.args[1] = c
        BY <3>2, <3>3, Zenon
      <4>2. ev.args[1].n = 0
        BY <1>3, <4>1, Zenon
      <4>. QED
        BY <1>2, <3>1, <4>1, <4>2, Zenon
    <3>. QED
      BY <3>3 DEF c
  <2>. QED
    BY <1>1, <1>2, <1>3, <2>1, <2>2, <2>3, Zenon DEF Shape
<1>. QED
  BY <1>3, <1>5, Zenon

\* What Normalize does, field by field.
NormalizesTo(r, e, q) ==
    LET ev == Decode(up, e)
    IN  /\ q.c \in Converters
        /\ Puts([e |-> r.c.em, w |-> r.w], [e |-> q.c.em, w |-> q.w], PieceOf(e), ev.usage,
                ev.finish \notin {"", "failed"},
                dst # "responses" /\ ~r.c.em.finished /\ ev.finish \in CutReasons)
        /\ q.c.seen <=> r.c.seen \/ Terminal(up, e)
        /\ q.c.reason = OrElse(ev.finish, r.c.reason)
        /\ q.c.failed <=> ev.finish = "failed"
        /\ q.c.read = r.c.read + 1

LEMMA Normalizes ==
    ASSUME up \in Protocols, dst \in Protocols, NEW r, r.c \in Converters, r.w \in Seq(OutEvents),
           NEW e \in UpEvents(up)
    PROVE  NormalizesTo(r, e, Normalize(r, e))
<1> DEFINE ev == Decode(up, e)
           started == r.c.started \/ IsMeaningful(ev)
           s0 == [e |-> r.c.em, w |-> r.w]
           s1 == IF started /\ ~r.c.started THEN OnStart(dst, s0) ELSE s0
           s2 == IF started THEN Emit(s1, ev) ELSE s1
           reason == OrElse(ev.finish, r.c.reason)
           seen == r.c.seen \/ Terminal(up, e)
           failed == ev.finish = "failed"
           read == r.c.read + 1
           q == [c |-> [em |-> s2.e, started |-> started, seen |-> seen, reason |-> reason,
                        failed |-> failed, read |-> read],
                 w |-> s2.w]
           p == PieceOf(e)
           u == ev.usage
           fin == ev.finish \notin {"", "failed"}
           cut == dst # "responses" /\ ~r.c.em.finished /\ ev.finish \in CutReasons
<1>1. Normalize(r, e) = q
  BY Zenon DEF Normalize
<1>2. s0 \in States /\ s0.e = r.c.em /\ s0.w = r.w
  BY DEF States, Converters
<1>3. p \in Seq(Speech)
  BY PieceType
<1>4. /\ started \in BOOLEAN /\ seen \in BOOLEAN /\ failed \in BOOLEAN /\ read \in Nat
      /\ reason \in Reasonings
  <2>1. r.c.started \in BOOLEAN /\ r.c.seen \in BOOLEAN /\ r.c.reason \in Reasonings
        /\ r.c.read \in Nat
    BY DEF Converters
  <2>2. IsMeaningful(ev) \in BOOLEAN /\ Terminal(up, e) \in BOOLEAN
    <3> HIDE DEF ev
    <3>1. IsMeaningful(ev) \in BOOLEAN
      BY DEF IsMeaningful
    <3>2. Terminal(up, e) \in BOOLEAN
      <4>1. CASE up = "chat"
        BY <4>1 DEF Terminal, ChatTerminal
      <4>2. CASE up = "messages"
        BY <4>2 DEF Terminal, MessagesTerminal
      <4>3. CASE up = "responses"
        BY <4>3 DEF Terminal, ResponsesTerminal
      <4>. QED
        BY <4>1, <4>2, <4>3 DEF Protocols
    <3>. QED
      BY <3>1, <3>2
  <2>3. ev.finish \in Reasonings
    BY DecodeTypes DEF Reasonings
  <2>4. reason \in Reasonings
    <3> HIDE DEF ev
    <3>. QED
      BY <2>1, <2>3, Zenon DEF OrElse
  <2>5. started \in BOOLEAN /\ seen \in BOOLEAN
    <3> HIDE DEF ev
    <3>. QED
      BY <2>1, <2>2
  <2>6. failed \in BOOLEAN
    OBVIOUS
  <2>7. read \in Nat
    BY <2>1
  <2>. QED
    BY <2>4, <2>5, <2>6, <2>7, Zenon
<1>5. cut \in BOOLEAN
  OBVIOUS
<1>6. Says(s0, s1, <<>>)
  <2>1. Says(s0, OnStart(dst, s0), <<>>)
    BY <1>2, StartSays
  <2>2. Says(s0, s0, <<>>)
    BY <1>2, NoChange
  <2> HIDE DEF started, s0
  <2>. QED
    BY <2>1, <2>2
<1>7. s1 \in States /\ s1.e.finished = s0.e.finished
  BY <1>6 DEF Says
<1>8. Puts(s0, s2, p, u, fin, cut)
  <2>1. CASE started
    <3>1. Puts(s1, Emit(s1, ev), p, u, fin, dst # "responses" /\ ~s1.e.finished
                                              /\ ev.finish \in CutReasons)
      <4> HIDE DEF s1
      <4>. QED
        BY <1>7, EmitPuts, Zenon
    <3>2. (dst # "responses" /\ ~s1.e.finished /\ ev.finish \in CutReasons) <=> cut
      BY <1>2, <1>7
    <3> HIDE DEF p, u, fin, cut, s1
    <3>3. Puts(s1, Emit(s1, ev), p, u, fin, cut)
      BY <3>1, <3>2 DEF Puts
    <3>4. s2 = Emit(s1, ev)
      BY <2>1
    <3> HIDE DEF s2, started, s0
    <3>. QED
      BY <1>2, <1>3, <1>5, <1>6, <3>3, <3>4, SaysPuts
  <2>2. CASE ~started
    <3>1. u = {} /\ ev.finish = "" /\ p = <<>>
      BY <2>2, MeaninglessSaysNothing, Zenon
    <3>2. s2 = s0
      BY <2>2
    <3>3. ~fin /\ ~cut
      BY <3>1, Zenon DEF CutReasons
    <3> HIDE DEF p, u, fin, cut, s0, s2
    <3>4. s0.w = s0.w \o <<>> /\ <<>> \in Seq(Endless)
      BY <1>2 DEF States
    <3>. QED
      BY <1>2, <3>1, <3>2, <3>3, <3>4, ContentEmpty, CutNone, Zenon DEF Puts
  <2>. QED
    BY <2>1, <2>2, Zenon
<1>9. s2 \in States
  BY <1>8, Zenon DEF Puts
<1>10. s2 = [e |-> s2.e, w |-> s2.w] /\ s2.e \in Emitters
  <2> HIDE DEF s2
  <2>. QED
    BY <1>9 DEF States
<1> HIDE DEF started, s0, s1, s2, reason, seen, failed, read, p, u, fin, cut
<1>11. /\ q.c \in Converters /\ q.c.em = s2.e /\ q.w = s2.w /\ q.c.seen = seen
       /\ q.c.reason = reason /\ q.c.failed = failed /\ q.c.read = read
  BY <1>4, <1>10 DEF Converters
<1>12. s2 = [e |-> q.c.em, w |-> q.w]
  BY <1>10, <1>11
<1> HIDE DEF q
<1>13. Puts(s0, [e |-> q.c.em, w |-> q.w], p, u, fin, cut)
  BY <1>8, <1>12
<1>14. NormalizesTo(r, e, q)
  BY <1>11, <1>13, Zenon DEF NormalizesTo, s0, p, u, fin, cut, seen, reason, failed, read, ev
<1>. QED
  BY <1>1, <1>14

----------------------------------------------------------------------------
(* What the upstreams send                                                 *)

\* An event as it is built, before it gets its number.
Unnumbered(T, K) == [t : T, i : Nat, k : K, n : {0}]

LEMMA EventType ==
    ASSUME NEW T, NEW K, NEW t \in T, NEW i \in Nat, NEW k \in K
    PROVE  Event(t, i, k) \in Unnumbered(T, K) /\ Event(t, i, k).t = t /\ Event(t, i, k).k = k
BY DEF Event, Unnumbered

LEMMA Numbered ==
    ASSUME NEW T, NEW K, NEW e \in Unnumbered(T, K), NEW n \in Nat
    PROVE  LET f == [e EXCEPT !.n = n + 1]
           IN  f \in [t : T, i : Nat, k : K, n : Nat \ {0}] /\ f.t = e.t /\ f.k = e.k
<1>1. n + 1 \in Nat \ {0}
  OBVIOUS
<1> DEFINE m == n + 1
<1> HIDE DEF m
<1>2. m \in Nat \ {0}
  BY <1>1 DEF m
<1>3. [e EXCEPT !.n = m] \in [t : T, i : Nat, k : K, n : Nat \ {0}]
      /\ [e EXCEPT !.n = m].t = e.t /\ [e EXCEPT !.n = m].k = e.k
  BY <1>2 DEF Unnumbered
<1>. QED
  BY <1>3 DEF m

LEMMA ChatSendsType ==
    ASSUME NEW h, NEW e \in ChatSends(h, Tools)
    PROVE  /\ e \in Unnumbered(ChatTypes, {""} \cup Reasons)
           /\ e.k \in Reasons <=> e.t = "finish"
           /\ Sent(h, "finish") => e.t = "usage"
<1> DEFINE named(i) == SentAt(h, "call", i) \/ SentAt(h, "whole", i)
           fresh == {i \in Tools : /\ ~named(i) /\ ~SentAt(h, "args", i)
                                   /\ \A j \in Tools : j < i => named(j)}
           G(t, i, k) == t \in ChatTypes /\ i \in Nat /\ k \in {""} \cup Reasons
                         /\ (k \in Reasons <=> t = "finish")
<1>1. fresh \subseteq Nat /\ Tools \subseteq Nat
  BY ToolsAssumption
<1>2. ASSUME NEW t, NEW i, NEW k, G(t, i, k), e = Event(t, i, k)
      PROVE  /\ e \in Unnumbered(ChatTypes, {""} \cup Reasons)
             /\ e.k \in Reasons <=> e.t = "finish"
  <2>1. t \in ChatTypes /\ i \in Nat /\ k \in {""} \cup Reasons
    BY <1>2, Zenon
  <2>2. /\ Event(t, i, k) \in Unnumbered(ChatTypes, {""} \cup Reasons)
        /\ Event(t, i, k).t = t /\ Event(t, i, k).k = k
    BY <2>1, Zenon DEF Event, Unnumbered
  <2>. QED
    BY <1>2, <2>2, Zenon
<1>3. CASE Sent(h, "finish")
  <2>1. e = Event("usage", 0, "")
    <3>1. e \in IF Sent(h, "usage") THEN {} ELSE {Event("usage", 0, "")}
      BY <1>3, Zenon DEF ChatSends
    <3>. QED
      BY <3>1, Zenon
  <2>2. G("usage", 0, "")
    BY DEF ChatTypes, Reasons
  <2>3. e.t = "usage"
    BY <2>1, Zenon DEF Event
  <2>. QED
    BY <1>2, <2>1, <2>2, <2>3, Zenon
<1>4. CASE ~Sent(h, "finish")
  <2>1. e \in (IF h = <<>> THEN {Event("role", 0, "")} ELSE {})
                 \cup {Event(t, 0, "") : t \in {"text", "think"}}
                 \cup {Event("call", i, "") : i \in fresh}
                 \cup {Event("whole", i, "") : i \in fresh}
                 \cup {Event("args", i, "") : i \in Tools}
                 \cup {Event("finish", 0, r) : r \in Reasons}
    BY <1>4, Zenon DEF ChatSends
  <2>2. \/ e = Event("role", 0, "")
        \/ \E t \in {"text", "think"} : e = Event(t, 0, "")
        \/ \E t \in {"call", "whole"}, i \in fresh : e = Event(t, i, "")
        \/ \E i \in Tools : e = Event("args", i, "")
        \/ \E r \in Reasons : e = Event("finish", 0, r)
    <3> HIDE DEF fresh
    <3>1. \/ e \in IF h = <<>> THEN {Event("role", 0, "")} ELSE {}
          \/ e \in {Event(t, 0, "") : t \in {"text", "think"}}
          \/ e \in {Event("call", i, "") : i \in fresh}
          \/ e \in {Event("whole", i, "") : i \in fresh}
          \/ e \in {Event("args", i, "") : i \in Tools}
          \/ e \in {Event("finish", 0, r) : r \in Reasons}
      BY <2>1, Zenon
    <3>. QED
      BY <3>1, Zenon
  <2> HIDE DEF fresh
  <2>3. \E t, i, k : G(t, i, k) /\ e = Event(t, i, k)
    <3>1. G("role", 0, "")
      BY DEF ChatTypes, Reasons
    <3>2. \A t \in {"text", "think"} : G(t, 0, "")
      BY DEF ChatTypes, Reasons
    <3>3. \A t \in {"call", "whole"}, i \in fresh : G(t, i, "")
      BY <1>1 DEF ChatTypes, Reasons
    <3>4. \A i \in Tools : G("args", i, "")
      BY <1>1 DEF ChatTypes, Reasons
    <3>5. \A r \in Reasons : G("finish", 0, r)
      BY Zenon DEF ChatTypes
    <3> HIDE DEF G
    <3>. QED
      BY <2>2, <3>1, <3>2, <3>3, <3>4, <3>5, Zenon
  <2> HIDE DEF G
  <2>. QED
    BY <1>2, <1>4, <2>3, Zenon
<1>. QED
  BY <1>3, <1>4, Zenon

\* The last of the events in a set, as CHOOSE picks it.
LEMMA LastOf ==
    ASSUME NEW n \in Nat, NEW S, S \subseteq 1..n, S # {}
    PROVE  (CHOOSE j \in S : \A b \in S : b <= j) \in S
<1>1. \E x \in S : \A y \in S : y <= x
  <2>1. S \subseteq 0..n
    OBVIOUS
  <2>. QED
    BY <2>1, LargestExists
<1>. QED
  BY <1>1, Zenon

\* A set of more events than another one is not empty.
LEMMA MoreIsSome ==
    ASSUME NEW n \in Nat, NEW S, NEW T, S \subseteq 1..n, T \subseteq 1..n,
           Cardinality(S) > Cardinality(T)
    PROVE  S # {}
<1>1. IsFiniteSet(T)
  <2>1. IsFiniteSet(1..n)
    BY FS_Interval
  <2>. QED
    BY <2>1, FS_Subset
<1>2. Cardinality(T) \in Nat
  BY <1>1, FS_CardinalityType
<1>. QED
  BY <1>2, FS_EmptySet

LEMMA SomeNumber ==
    ASSUME NEW n \in Nat, NEW S, S \subseteq 1..n
    PROVE  Cardinality(S) \in Nat
<1>1. IsFiniteSet(S)
  <2>1. IsFiniteSet(1..n)
    BY FS_Interval
  <2>. QED
    BY <2>1, FS_Subset
<1>. QED
  BY <1>1, FS_CardinalityType

LEMMA MessagesSendsType ==
    ASSUME NEW h \in Seq(MessagesEvents), NEW e \in MessagesSends(h)
    PROVE  /\ e \in Unnumbered(MessagesTypes, {""} \cup Blocks \cup Stops)
           /\ e.k \in Blocks <=> e.t \in {"block_start", "block_delta"}
           /\ e.k \in Stops <=> e.t = "message_delta"
           /\ Sent(h, "message_delta") => e.t = "message_stop"
           /\ ~Sent(h, "message_stop")
<1> DEFINE K == {""} \cup Blocks \cup Stops
           G(t, i, k) == /\ t \in MessagesTypes /\ i \in Nat /\ k \in K
                         /\ (k \in Blocks <=> t \in {"block_start", "block_delta"})
                         /\ (k \in Stops <=> t = "message_delta")
           blocks == {j \in 1..Len(h) : h[j].t = "block_start"}
           stops == {j \in 1..Len(h) : h[j].t = "block_stop"}
           last == CHOOSE j \in blocks : \A b \in blocks : b <= j
           nblocks == Cardinality(blocks)
           early == h = <<>> \/ (h[1].t = "ping" /\ Len(h) = 1)
           busy == nblocks > Cardinality(stops)
<1>1. ASSUME NEW t, NEW i, NEW k, G(t, i, k), e = Event(t, i, k)
      PROVE  /\ e \in Unnumbered(MessagesTypes, K)
             /\ e.k \in Blocks <=> e.t \in {"block_start", "block_delta"}
             /\ e.k \in Stops <=> e.t = "message_delta"
             /\ e.t = t
  <2>1. t \in MessagesTypes /\ i \in Nat /\ k \in K
    BY <1>1, Zenon
  <2>2. /\ Event(t, i, k) \in Unnumbered(MessagesTypes, K)
        /\ Event(t, i, k).t = t /\ Event(t, i, k).k = k
    BY <2>1, Zenon DEF Event, Unnumbered
  <2>. QED
    BY <1>1, <2>2, Zenon
<1>2. Len(h) \in Nat /\ \A j \in 1..Len(h) : h[j] \in MessagesEvents
  OBVIOUS
<1>3. /\ "" \in K /\ "" \notin Blocks /\ "" \notin Stops
      /\ \A k \in Blocks : k \in K /\ k \notin Stops
      /\ \A k \in Stops : k \in K /\ k \notin Blocks
  BY DEF Blocks, Stops
<1>4. CASE early
  <2>1. e \in {Event("message_start", 0, ""), Event("ping", 0, "")}
    BY <1>4, Zenon DEF MessagesSends
  <2>2. PICK t \in {"message_start", "ping"} : e = Event(t, 0, "")
    BY <2>1, Zenon
  <2>3. G(t, 0, "")
    BY <1>3, Zenon DEF MessagesTypes
  <2>4. ~Sent(h, "message_delta") /\ ~Sent(h, "message_stop")
    <3>1. \A j \in 1..Len(h) : h[j].t = "ping"
      BY <1>2, <1>4
    <3>. QED
      BY <3>1 DEF Sent
  <2>. QED
    BY <1>1, <2>2, <2>3, <2>4, Zenon
<1>5. CASE ~early
  <2>1. ~Sent(h, "message_stop")
    BY <1>5, Zenon DEF MessagesSends
  <2>2. CASE Sent(h, "message_delta")
    <3>1. e = Event("message_stop", 0, "")
      BY <1>5, <2>1, <2>2, Zenon DEF MessagesSends
    <3>2. G("message_stop", 0, "")
      BY <1>3, Zenon DEF MessagesTypes
    <3>. QED
      BY <1>1, <2>1, <3>1, <3>2, Zenon
  <2>3. CASE ~Sent(h, "message_delta") /\ busy
    <3>1. e \in {Event("block_delta", h[last].i, h[last].k), Event("block_stop", h[last].i, "")}
      BY <1>5, <2>1, <2>3, Zenon DEF MessagesSends
    <3>2. last \in blocks
      <4>1. blocks \subseteq 1..Len(h) /\ stops \subseteq 1..Len(h)
        OBVIOUS
      <4> HIDE DEF blocks, stops
      <4>. QED
        BY <1>2, <2>3, <4>1, MoreIsSome, LastOf
    <3> HIDE DEF last
    <3>3. h[last] \in MessagesEvents /\ h[last].t = "block_start"
      BY <1>2, <3>2
    <3>4. h[last].i \in Nat /\ h[last].k \in Blocks
      BY <3>3, Zenon DEF MessagesEvents
    <3>5. G("block_delta", h[last].i, h[last].k) /\ G("block_stop", h[last].i, "")
      BY <1>3, <3>4, Zenon DEF MessagesTypes
    <3>. QED
      BY <1>1, <2>1, <2>3, <3>1, <3>5, Zenon
  <2>4. CASE ~Sent(h, "message_delta") /\ ~busy
    <3>1. e \in {Event("block_start", nblocks, k) : k \in {"text", "think", "tool"}}
                \cup {Event("message_delta", 0, r) : r \in {"end_turn", "tool_use", "max_tokens"}}
      BY <1>5, <2>1, <2>4, Zenon DEF MessagesSends
    <3>2. nblocks \in Nat
      <4>1. blocks \subseteq 1..Len(h)
        OBVIOUS
      <4> HIDE DEF blocks
      <4>. QED
        BY <1>2, <4>1, SomeNumber
    <3> HIDE DEF nblocks
    <3>3. \/ \E k \in Blocks : e = Event("block_start", nblocks, k)
          \/ \E r \in Stops : e = Event("message_delta", 0, r)
      BY <3>1 DEF Blocks, Stops
    <3>4. \A k \in Blocks : G("block_start", nblocks, k)
      BY <1>3, <3>2, Zenon DEF MessagesTypes
    <3>5. \A r \in Stops : G("message_delta", 0, r)
      BY <1>3, Zenon DEF MessagesTypes
    <3> HIDE DEF G
    <3>. QED
      BY <1>1, <2>1, <2>4, <3>3, <3>4, <3>5, Zenon
  <2>. QED
    BY <2>2, <2>3, <2>4, Zenon
<1>. QED
  BY <1>4, <1>5, Zenon

LEMMA ResponsesSendsType ==
    ASSUME NEW h \in Seq(ResponsesEvents), NEW e \in ResponsesSends(h)
    PROVE  /\ e \in Unnumbered(ResponsesTypes, {""} \cup Items)
           /\ e.k \in Items <=> e.t \in {"item_added", "item_done"}
           /\ ~\E j \in 1..Len(h) : ResponsesTerminal(h[j])
           /\ e.t = "created" => h = <<>>
<1> DEFINE K == {""} \cup Items
           G(t, i, k) == /\ t \in ResponsesTypes /\ i \in Nat /\ k \in K
                         /\ (k \in Items <=> t \in {"item_added", "item_done"})
           added == {j \in 1..Len(h) : h[j].t = "item_added"}
           done == {j \in 1..Len(h) : h[j].t = "item_done"}
           last == CHOOSE j \in added : \A b \in added : b <= j
           nadded == Cardinality(added)
           busy == nadded > Cardinality(done)
           delta == CASE h[last].k = "message" -> "text_delta"
                      [] h[last].k = "reasoning" -> "think_delta"
                      [] h[last].k = "call" -> "args_delta"
           A == IF h = <<>> THEN {Event("created", 0, "")} ELSE {Event("failed", 0, "")}
           B == IF busy THEN {Event(delta, h[last].i, ""), Event("item_done", h[last].i, h[last].k)}
                ELSE {Event("item_added", nadded, k) : k \in {"message", "reasoning", "call"}}
                     \cup {Event("completed", 0, "")}
           C == IF h = <<>> THEN {} ELSE {Event("incomplete", 0, "")}
<1>1. ASSUME NEW t, NEW i, NEW k, G(t, i, k), e = Event(t, i, k)
      PROVE  /\ e \in Unnumbered(ResponsesTypes, K)
             /\ e.k \in Items <=> e.t \in {"item_added", "item_done"}
             /\ e.t = t
  <2>1. t \in ResponsesTypes /\ i \in Nat /\ k \in K
    BY <1>1, Zenon
  <2>2. /\ Event(t, i, k) \in Unnumbered(ResponsesTypes, K)
        /\ Event(t, i, k).t = t /\ Event(t, i, k).k = k
    BY <2>1, Zenon DEF Event, Unnumbered
  <2>. QED
    BY <1>1, <2>2, Zenon
<1>11. ASSUME NEW t, NEW i, NEW k, G(t, i, k), e = Event(t, i, k), t = "created" => h = <<>>
       PROVE  /\ e \in Unnumbered(ResponsesTypes, K)
              /\ e.k \in Items <=> e.t \in {"item_added", "item_done"}
              /\ e.t = "created" => h = <<>>
  BY <1>1, <1>11, Zenon
<1> DEFINE good == /\ e \in Unnumbered(ResponsesTypes, K)
                   /\ e.k \in Items <=> e.t \in {"item_added", "item_done"}
                   /\ e.t = "created" => h = <<>>
<1>2. Len(h) \in Nat /\ \A j \in 1..Len(h) : h[j] \in ResponsesEvents
  OBVIOUS
<1>3. "" \in K /\ "" \notin Items /\ \A k \in Items : k \in K
  BY DEF Items
<1>4. ~\E j \in 1..Len(h) : ResponsesTerminal(h[j])
  BY Zenon DEF ResponsesSends
<1>5. e \in A \cup B \cup C
  BY <1>4, Zenon DEF ResponsesSends
<1> HIDE DEF A, B, C
<1>6. ASSUME e \in A PROVE good
  <2>1. (e = Event("created", 0, "") /\ h = <<>>) \/ e = Event("failed", 0, "")
    BY <1>6, Zenon DEF A
  <2>2. G("created", 0, "") /\ G("failed", 0, "")
    BY <1>3, Zenon DEF ResponsesTypes
  <2>3. "failed" # "created"
    OBVIOUS
  <2> HIDE DEF G
  <2>. QED
    BY <1>11, <2>1, <2>2, <2>3, Zenon
<1>7. ASSUME e \in C PROVE good
  <2>1. e = Event("incomplete", 0, "")
    BY <1>7, Zenon DEF C
  <2>2. G("incomplete", 0, "")
    BY <1>3, Zenon DEF ResponsesTypes
  <2>3. "incomplete" # "created"
    OBVIOUS
  <2> HIDE DEF G
  <2>. QED
    BY <1>11, <2>1, <2>2, <2>3, Zenon
<1>8. ASSUME e \in B /\ busy PROVE good
  <2>1. e = Event(delta, h[last].i, "") \/ e = Event("item_done", h[last].i, h[last].k)
    <3> HIDE DEF delta, last
    <3>. QED
      BY <1>8, Zenon DEF B
  <2>2. last \in added
    <3>1. added \subseteq 1..Len(h) /\ done \subseteq 1..Len(h)
      OBVIOUS
    <3> HIDE DEF added, done
    <3>. QED
      BY <1>2, <1>8, <3>1, MoreIsSome, LastOf
  <2> HIDE DEF last
  <2>3. h[last] \in ResponsesEvents /\ h[last].t = "item_added"
    BY <1>2, <2>2
  <2>4. h[last].i \in Nat /\ h[last].k \in Items
    BY <2>3, Zenon DEF ResponsesEvents
  <2>5. delta \in {"text_delta", "think_delta", "args_delta"}
    BY <2>4 DEF Items
  <2> HIDE DEF delta
  <2>6. G(delta, h[last].i, "") /\ G("item_done", h[last].i, h[last].k)
    BY <1>3, <2>4, <2>5, Zenon DEF ResponsesTypes
  <2>7. delta # "created" /\ "item_done" # "created"
    BY <2>5
  <2> HIDE DEF G
  <2>. QED
    BY <1>11, <2>1, <2>6, <2>7, Zenon
<1>9. ASSUME e \in B /\ ~busy PROVE good
  <2>1. nadded \in Nat
    <3>1. added \subseteq 1..Len(h)
      OBVIOUS
    <3> HIDE DEF added
    <3>. QED
      BY <1>2, <3>1, SomeNumber
  <2>2. \/ \E k \in Items : e = Event("item_added", nadded, k)
        \/ e = Event("completed", 0, "")
    <3> HIDE DEF nadded
    <3>. QED
      BY <1>9, Zenon DEF B, Items
  <2> HIDE DEF nadded, busy
  <2>3. \A k \in Items : G("item_added", nadded, k)
    BY <1>3, <2>1, Zenon DEF ResponsesTypes
  <2>4. G("completed", 0, "")
    BY <1>3, Zenon DEF ResponsesTypes
  <2>5. "item_added" # "created" /\ "completed" # "created"
    OBVIOUS
  <2> HIDE DEF G
  <2>. QED
    BY <1>11, <2>2, <2>3, <2>4, <2>5, Zenon
<1>10. good
  <2> HIDE DEF good, busy
  <2>. QED
    BY <1>5, <1>6, <1>7, <1>8, <1>9, Zenon
<1>. QED
  BY <1>4, <1>10, Zenon

----------------------------------------------------------------------------
(* The events one Receive converts                                         *)

LEMMA JustOne ==
    ASSUME NEW S, NEW h \in Seq(S), NEW e \in S
    PROVE  SubSeq(Append(h, e), Len(h) + 1, Len(Append(h, e))) = <<e>>
<1> DEFINE n == Len(h)
           b == SubSeq(Append(h, e), n + 1, n + 1)
<1>1. n \in Nat /\ Len(Append(h, e)) = n + 1 /\ Append(h, e)[n + 1] = e
  OBVIOUS
<1>2. b \in Seq(S) /\ Len(b) = 1 /\ b[1] = e
  <2>1. n + 1 \in Int /\ \A i \in (n + 1)..(n + 1) : Append(h, e)[i] \in S
    BY <1>1
  <2> DEFINE m == n + 1
             g == Append(h, e)
  <2>2. m \in Int /\ (\A i \in m..m : g[i] \in S) /\ g[m] = e
    BY <1>1, <2>1
  <2>3. m + 1 - 1 = m
    BY <2>2
  <2> HIDE DEF m, g
  <2>4. SubSeq(g, m, m) \in Seq(S)
    BY <2>2, SubSeqProperties
  <2>5. Len(SubSeq(g, m, m)) = 1 /\ SubSeq(g, m, m)[1] = g[m]
    BY <2>2, <2>3, SubSeqProperties
  <2>. QED
    BY <2>2, <2>4, <2>5 DEF m, g
<1> HIDE DEF b
<1>3. b = <<e>>
  BY <1>2
<1>. QED
  BY <1>1, <1>3 DEF b

Before(h, e) == \A i \in 1..Len(h) : Append(h, e)[i] = h[i]

LEMMA Appended ==
    ASSUME NEW S, NEW h \in Seq(S), NEW e \in S
    PROVE  /\ Append(h, e) \in Seq(S) /\ Len(Append(h, e)) = Len(h) + 1
           /\ Before(h, e)
           /\ Append(h, e)[Len(h) + 1] = e
<1>1. Append(h, e) \in Seq(S)
  OBVIOUS
<1>2. /\ Len(Append(h, e)) = Len(h) + 1
      /\ \A i \in 1..Len(h) : Append(h, e)[i] = h[i]
      /\ Append(h, e)[Len(h) + 1] = e
  BY AppendProperties
<1>. QED
  BY <1>1, <1>2 DEF Before

LEMMA AllTwo ==
    ASSUME NEW S, NEW h \in Seq(S), Len(h) = 1, NEW e \in S
    PROVE  SubSeq(Append(h, e), 0 + 1, Len(Append(h, e))) = <<h[1], e>>
<1>1. Append(h, e) \in Seq(S) /\ Len(Append(h, e)) = 2
      /\ Append(h, e)[1] = h[1] /\ Append(h, e)[2] = e
  <2> DEFINE g == Append(h, e)
             n == Len(h)
  <2>1. /\ g \in Seq(S) /\ Len(g) = n + 1 /\ (\A i \in 1..n : g[i] = h[i]) /\ g[n + 1] = e
    <3> HIDE DEF n
    <3>1. g \in Seq(S)
      BY Appended, Zenon
    <3>2. Len(g) = n + 1
      BY Appended, Zenon DEF n
    <3>5. Before(h, e)
      BY Appended, Zenon
    <3>3. \A i \in 1..n : g[i] = h[i]
      BY <3>5, Zenon DEF Before, g, n
    <3>4. g[n + 1] = e
      BY Appended, ZenonT(30) DEF n
    <3>. QED
      BY <3>1, <3>2, <3>3, <3>4, Zenon
  <2>2. n = 1
    OBVIOUS
  <2> HIDE DEF g, n
  <2>3. n + 1 = 2 /\ 1 \in 1..n
    BY <2>2
  <2>4. g \in Seq(S) /\ Len(g) = 2 /\ g[1] = h[1] /\ g[2] = e
    BY <2>1, <2>3
  <2>. QED
    BY <2>4 DEF g
<1>2. h[1] \in S
  <2>1. 1 \in 1..Len(h) /\ h \in [1..Len(h) -> S]
    BY LenProperties, SMTT(30)
  <2>. QED
    BY <2>1
<1> DEFINE g == Append(h, e)
<1> HIDE DEF g
<1>3. g \in Seq(S) /\ Len(g) = 2 /\ g[1] = h[1] /\ g[2] = e
  BY <1>1 DEF g
<1>4. SubSeq(g, 1, 2) = g
  BY <1>3, SubSeqFull
<1>5. g = <<h[1], e>>
  <2>1. <<h[1], e>> \in Seq(S) /\ Len(<<h[1], e>>) = 2
    BY <1>2, OneOrTwo
  <2>2. <<h[1], e>>[1] = h[1] /\ <<h[1], e>>[2] = e
    OBVIOUS
  <2> DEFINE b == <<h[1], e>>
  <2> HIDE DEF b
  <2>3. b \in Seq(S) /\ Len(b) = 2 /\ b[1] = g[1] /\ b[2] = g[2]
    BY <1>3, <2>1, <2>2 DEF b
  <2>4. \A i \in 1..2 : g[i] = b[i]
    BY <2>3
  <2>5. g = b
    BY <1>3, <2>3, <2>4, SeqEqual
  <2>. QED
    BY <2>5 DEF b
<1>6. 0 + 1 = 1
  OBVIOUS
<1>. QED
  BY <1>1, <1>4, <1>5, <1>6 DEF g

\* Only the event that opens a Responses stream has been held back.
Held == dst = "responses" /\ Len(given) <= 1 /\ \A j \in 1..Len(given) : given[j].t = "created"
Unread == conv = NewConverter /\ out = <<>> /\ Held

Typed ==
    /\ up \in Protocols /\ dst \in Protocols
    /\ given \in Seq(UpEvents(up)) /\ out \in Seq(OutEvents) /\ conv \in Converters

\* What a Receive that converts makes of the event e.
Burst(e) == Turns([c |-> conv, w |-> <<>>],
                  SubSeq(Append(given, e), conv.read + 1, Len(Append(given, e))))

\* r is what the conversion of the event e makes of the converter conv.
Converts(e, r) ==
    LET ev == Decode(up, e)
    IN  /\ r.c \in Converters
        /\ r.w \in Seq(Endless)
        /\ Content(r.w) = PieceOf(e)
        /\ CutShort(r.w) <=> /\ dst # "responses" /\ ~conv.em.finished
                             /\ ev.finish \in CutReasons
        /\ r.c.em.usage = conv.em.usage \cup ev.usage
        /\ r.c.em.finished <=> conv.em.finished \/ ev.finish \notin {"", "failed"}
        /\ r.c.seen <=> conv.seen \/ Terminal(up, e)
        /\ r.c.reason = OrElse(ev.finish, conv.reason)
        /\ r.c.failed <=> ev.finish = "failed"
        /\ r.c.read = Len(given) + 1

LEMMA NewConverterType ==
    /\ NewConverter \in Converters /\ NewConverter.em = NewEmitter
    /\ NewConverter.reason = "" /\ NewConverter.read = 0 /\ ~NewConverter.seen
    /\ ~NewEmitter.finished /\ NewEmitter.usage = {}
<1>1. NewConverter \in Converters
  BY NewEmitterType DEF NewConverter, Converters, Reasonings, FinishReasons
<1>2. ~NewEmitter.finished /\ NewEmitter.usage = {}
  BY DEF NewEmitter
<1>. QED
  BY <1>1, <1>2, Zenon DEF NewConverter

LEMMA BurstConverts ==
    ASSUME Typed, NEW e \in UpEvents(up), conv.read = Len(given) \/ (conv.read = 0 /\ Unread)
    PROVE  Converts(e, Burst(e))
<1> DEFINE start == [c |-> conv, w |-> <<>>]
           r == Burst(e)
           ev == Decode(up, e)
           p == PieceOf(e)
           u == ev.usage
           fin == ev.finish \notin {"", "failed"}
           cut == dst # "responses" /\ ~conv.em.finished /\ ev.finish \in CutReasons
           s0 == [e |-> conv.em, w |-> <<>>]
           Good(q) == /\ q.c \in Converters
                      /\ Puts(s0, [e |-> q.c.em, w |-> q.w], p, u, fin, cut)
                      /\ q.c.seen <=> conv.seen \/ Terminal(up, e)
                      /\ q.c.reason = OrElse(ev.finish, conv.reason)
                      /\ q.c.failed <=> ev.finish = "failed"
                      /\ q.c.read = Len(given) + 1
<1>1. /\ up \in Protocols /\ dst \in Protocols /\ given \in Seq(UpEvents(up))
      /\ conv \in Converters /\ Len(given) \in Nat
  BY DEF Typed
<1>2. start.c = conv /\ start.w = <<>> /\ <<>> \in Seq(OutEvents)
  OBVIOUS
<1>3. s0 \in States
  BY <1>1 DEF States, Converters
<1>4. ASSUME conv.read = Len(given) PROVE Good(r)
  <2>1. r = Normalize(start, e)
    <3>1. SubSeq(Append(given, e), conv.read + 1, Len(Append(given, e))) = <<e>>
      BY <1>1, <1>4, JustOne
    <3>2. r = Turns(start, <<e>>)
      BY <3>1, Zenon DEF Burst
    <3> HIDE DEF r, start
    <3>3. OneTurn(start, e) /\ TwoTurns(start, e, e)
      BY TurnsFacts, Zenon
    <3>. QED
      BY <3>2, <3>3 DEF OneTurn
  <2>2. NormalizesTo(start, e, r)
    <3> HIDE DEF start, r
    <3>. QED
      BY <1>1, <1>2, <2>1, Normalizes
  <2> HIDE DEF r
  <2>3. Good(r)
    BY <1>4, <2>2, Zenon DEF NormalizesTo
  <2>. QED
    BY <2>3, Zenon
<1>5. ASSUME conv.read # Len(given) PROVE Good(r)
  <2>1. Unread /\ conv.read = 0 /\ Len(given) = 1 /\ given[1].t = "created"
    <3>1. Unread /\ conv.read = 0
      BY <1>5
    <3>2. Len(given) <= 1 /\ \A j \in 1..Len(given) : given[j].t = "created"
      BY <3>1 DEF Unread, Held
    <3>3. Len(given) = 1
      <4>1. Len(given) # 0 /\ Len(given) \in Nat
        BY <1>1, <1>5, <3>1
      <4> DEFINE n == Len(given)
      <4>2. n # 0 /\ n \in Nat /\ n <= 1
        BY <3>2, <4>1
      <4> HIDE DEF n
      <4>3. n = 1
        BY <4>2
      <4>. QED
        BY <4>3 DEF n
    <3>4. 1 \in 1..Len(given)
      BY <3>3
    <3>. QED
      BY <3>1, <3>2, <3>3, <3>4
  <2> DEFINE c == given[1]
             m == Normalize(start, c)
             t == [e |-> m.c.em, w |-> m.w]
  <2>2. c \in UpEvents(up)
    <3>1. given \in [1..Len(given) -> UpEvents(up)]
      BY <1>1, LenProperties, Zenon
    <3>2. 1 \in 1..Len(given)
      BY <2>1
    <3>. QED
      BY <3>1, <3>2
  <2>3. r = Normalize(m, e)
    <3>1. SubSeq(Append(given, e), conv.read + 1, Len(Append(given, e))) = <<c, e>>
      BY <1>1, <2>1, AllTwo
    <3>2. r = Turns(start, <<c, e>>)
      BY <3>1, Zenon DEF Burst
    <3>3. Turns(start, <<c, e>>) = Normalize(Normalize(start, c), e)
      <4> HIDE DEF start, c
      <4>1. OneTurn(start, c) /\ TwoTurns(start, c, e)
        BY TurnsFacts, Zenon
      <4>. QED
        BY <4>1 DEF TwoTurns
    <3>. QED
      BY <3>2, <3>3, Zenon
  <2>4. NormalizesTo(start, c, m)
    <3> HIDE DEF start, c, m
    <3>. QED
      BY <1>1, <1>2, <2>2, Normalizes DEF m
  <2>5. up = "responses"
    BY <1>1, <2>1, <2>2, Zenon DEF UpEvents, ChatEvents, MessagesEvents, ChatTypes, MessagesTypes, Protocols
  <2>6. /\ Decode(up, c).usage = {} /\ Decode(up, c).finish = "" /\ PieceOf(c) = <<>>
        /\ ~Terminal(up, c)
    <3>1. Decode(up, c) = [NoEvent EXCEPT !.meta = TRUE]
      BY <2>1, <2>5 DEF Decode, DecodeResponsesStreamEvent
    <3>2. PieceOf(c) = <<>>
      BY <2>1 DEF PieceOf, Kind
    <3>3. ~Terminal(up, c)
      BY <2>1, <2>5 DEF Terminal, ResponsesTerminal
    <3>. QED
      BY <3>1, <3>2, <3>3, Zenon DEF NoEvent
  <2> HIDE DEF m, r, c
  <2>7. /\ m.c \in Converters /\ (m.c.seen <=> conv.seen) /\ m.c.reason = conv.reason
        /\ m.c.read = 1
        /\ Puts(s0, t, <<>>, {}, FALSE, FALSE)
    <3>1. /\ m.c \in Converters /\ (m.c.seen <=> conv.seen)
          /\ m.c.reason = OrElse("", conv.reason) /\ m.c.read = 0 + 1
      BY <2>1, <2>4, <2>6, Zenon DEF NormalizesTo
    <3>2. Puts(s0, t, <<>>, {}, "" \notin {"", "failed"},
               dst # "responses" /\ ~conv.em.finished /\ "" \in CutReasons)
      BY <2>4, <2>6, Zenon DEF NormalizesTo
    <3>3. Puts(s0, t, <<>>, {}, FALSE, FALSE)
      BY <3>2, Blank, Zenon DEF Puts
    <3>4. OrElse("", conv.reason) = conv.reason /\ 0 + 1 = 1
      BY DEF OrElse
    <3>. QED
      BY <3>1, <3>3, <3>4, Zenon
  <2>8. t \in States /\ (m.c.em.finished <=> conv.em.finished)
    BY <2>7 DEF Puts
  <2>9. m.w \in Seq(OutEvents)
    BY <2>8 DEF States
  <2>10. NormalizesTo(m, e, r)
    BY <1>1, <2>3, <2>7, <2>9, Normalizes
  <2> DEFINE v == [e |-> r.c.em, w |-> r.w]
  <2>11. Puts(t, v, p, u, fin, dst # "responses" /\ ~m.c.em.finished /\ ev.finish \in CutReasons)
    BY <2>10, Zenon DEF NormalizesTo
  <2>12. (dst # "responses" /\ ~m.c.em.finished /\ ev.finish \in CutReasons) <=> cut
    BY <2>8
  <2>13. cut \in BOOLEAN
    OBVIOUS
  <2>14. p \in Seq(Speech)
    BY <1>1, PieceType
  <2>15. Puts(s0, v, p, u, fin, cut)
    <3> HIDE DEF p, u, fin, cut, s0, v, t
    <3>1. Puts(t, v, p, u, fin, cut)
      BY <2>11, <2>12 DEF Puts
    <3>. QED
      BY <1>3, <2>7, <2>13, <2>14, <3>1, PutsThen
  <2>16. Good(r)
    <3>1. /\ r.c \in Converters
          /\ r.c.seen <=> m.c.seen \/ Terminal(up, e)
          /\ r.c.reason = OrElse(ev.finish, m.c.reason)
          /\ r.c.failed <=> ev.finish = "failed"
          /\ r.c.read = m.c.read + 1
      BY <2>10, Zenon DEF NormalizesTo
    <3> HIDE DEF p, u, fin, cut, s0, v, ev
    <3>2. r.c.read = Len(given) + 1
      BY <2>1, <2>7, <3>1
    <3>. QED
      BY <2>7, <2>15, <3>1, <3>2 DEF v
  <2>. QED
    BY <2>16, Zenon
<1>6. Good(r)
  BY <1>4, <1>5, Zenon
<1> HIDE DEF r, p, u, fin, cut
<1>7. PICK x \in Seq(Endless) : r.w = <<>> \o x /\ Content(x) = p /\ (CutShort(x) <=> cut)
  BY <1>6 DEF Puts
<1>8. r.w = x
  BY <1>7
<1>9. /\ r.c.em.usage = conv.em.usage \cup u
      /\ r.c.em.finished <=> conv.em.finished \/ fin
  BY <1>6 DEF Puts
<1>10. /\ r.w \in Seq(Endless) /\ Content(r.w) = p /\ (CutShort(r.w) <=> cut)
  BY <1>7, <1>8
<1>. QED
  BY <1>6, <1>9, <1>10, Zenon DEF Converts, r, p, u, fin, cut

----------------------------------------------------------------------------
(* How the upstream's answer finishes                                      *)

\* The finish reason the decoders report for an event.
FinishOf(e) == CASE e.t \in {"finish", "message_delta"} -> e.k
                 [] e.t = "message_stop" -> "stop"
                 [] e.t = "item_done" -> IF e.k = "call" THEN "tool_calls" ELSE "stop"
                 [] e.t = "incomplete" -> "length"
                 [] e.t = "failed" -> "failed"
                 [] OTHER -> ""

LEMMA Finishes ==
    ASSUME NEW p \in Protocols, NEW e \in UpEvents(p)
    PROVE  Decode(p, e).finish = FinishOf(e)
<1> USE DEF NoEvent, FinishOf
<1>1. CASE p = "chat"
  <2>1. e.t \in ChatTypes
    BY <1>1, Zenon DEF UpEvents, ChatEvents
  <2>. QED
    BY <1>1, <2>1, Zenon DEF Decode, DecodeChatStreamChunk, ChatTypes
<1>2. CASE p = "messages"
  <2>1. e.t \in MessagesTypes
    BY <1>2, Zenon DEF UpEvents, MessagesEvents
  <2>2. Decode(p, e) = DecodeMessagesStreamEvent(e)
    BY <1>2 DEF Decode
  <2>3. CASE e.t = "block_start" /\ e.k = "tool"
    BY <2>2, <2>3, Zenon DEF DecodeMessagesStreamEvent
  <2>4. CASE e.t = "block_start" /\ e.k # "tool"
    BY <2>2, <2>4, Zenon DEF DecodeMessagesStreamEvent
  <2>5. CASE e.t = "block_delta" /\ e.k = "tool"
    BY <2>2, <2>5, Zenon DEF DecodeMessagesStreamEvent
  <2>6. CASE e.t = "block_delta" /\ e.k # "tool"
    BY <2>2, <2>6, Zenon DEF DecodeMessagesStreamEvent
  <2>7. CASE e.t \in {"message_start", "message_delta", "message_stop"}
    BY <2>2, <2>7, Zenon DEF DecodeMessagesStreamEvent
  <2>8. CASE e.t \in {"ping", "block_stop"}
    <3>1. DecodeMessagesStreamEvent(e) = NoEvent
      BY <2>8, Zenon DEF DecodeMessagesStreamEvent
    <3>2. NoEvent.finish = ""
      OBVIOUS
    <3>3. FinishOf(e) = ""
      BY <2>8, Zenon
    <3>. QED
      BY <2>2, <3>1, <3>2, <3>3, Zenon
  <2>. QED
    BY <2>1, <2>3, <2>4, <2>5, <2>6, <2>7, <2>8, Zenon DEF MessagesTypes
<1>3. CASE p = "responses"
  <2>1. e.t \in ResponsesTypes
    BY <1>3, Zenon DEF UpEvents, ResponsesEvents
  <2>. QED
    BY <1>3, <2>1, Zenon DEF Decode, DecodeResponsesStreamEvent, ResponsesTypes
<1>. QED
  BY <1>1, <1>2, <1>3, Zenon DEF Protocols

\* The types and reasons an event of the upstream p can have.
LEMMA UpTypes ==
    ASSUME NEW p \in Protocols, NEW e \in UpEvents(p)
    PROVE  /\ p = "chat" => /\ e.t \in ChatTypes /\ e.k \in {""} \cup Reasons
                            /\ e.k \in Reasons <=> e.t = "finish"
           /\ p = "messages" => /\ e.t \in MessagesTypes /\ e.k \in {""} \cup Blocks \cup Stops
                                /\ e.k \in Stops <=> e.t = "message_delta"
           /\ p = "responses" => /\ e.t \in ResponsesTypes /\ e.k \in {""} \cup Items
BY Zenon DEF UpEvents, ChatEvents, MessagesEvents, ResponsesEvents, Protocols

\* An event says that the answer was cut exactly when that is its finish reason.
LEMMA CutFinish ==
    ASSUME NEW p \in Protocols, NEW e \in UpEvents(p)
    PROVE  /\ Cut(e) <=> FinishOf(e) \in CutReasons
           /\ p # "messages" => (Cut(e) <=> FinishOf(e) = "length")
           /\ Cut(e) => e.t \in {"finish", "message_delta", "incomplete"}
<1> USE DEF Cut, FinishOf, CutReasons
<1>1. CASE p = "chat"
  BY <1>1, UpTypes, Zenon DEF ChatTypes, Reasons
<1>2. CASE p = "messages"
  BY <1>2, UpTypes, Zenon DEF MessagesTypes, Blocks, Stops
<1>3. CASE p = "responses"
  BY <1>3, UpTypes, Zenon DEF ResponsesTypes, Items
<1>. QED
  BY <1>1, <1>2, <1>3 DEF Protocols

\* A numbered event of the upstream.
LEMMA SendsUp ==
    ASSUME up \in Protocols, NEW h, h \in Seq(UpEvents(up)), NEW e \in Sends(up, h, Tools),
           NEW n \in Nat
    PROVE  LET f == [e EXCEPT !.n = n + 1]
           IN  f \in UpEvents(up) /\ f.t = e.t /\ f.k = e.k
<1>1. CASE up = "chat"
  <2>1. e \in ChatSends(h, Tools)
    BY <1>1 DEF Sends
  <2>2. e \in Unnumbered(ChatTypes, {""} \cup Reasons) /\ (e.k \in Reasons <=> e.t = "finish")
    BY <2>1, ChatSendsType, Zenon
  <2> DEFINE f == [e EXCEPT !.n = n + 1]
  <2>3. /\ f \in [t : ChatTypes, i : Nat, k : {""} \cup Reasons, n : Nat \ {0}]
        /\ f.t = e.t /\ f.k = e.k
    BY <2>2, Numbered, Zenon
  <2> HIDE DEF f
  <2>4. f \in UpEvents(up)
    BY <1>1, <2>2, <2>3, Zenon DEF UpEvents, ChatEvents
  <2>. QED
    BY <2>3, <2>4, Zenon DEF f
<1>2. CASE up = "messages"
  <2> DEFINE K == {""} \cup Blocks \cup Stops
  <2>1. e \in MessagesSends(h) /\ h \in Seq(MessagesEvents)
    BY <1>2 DEF Sends, UpEvents
  <2>2. /\ e \in Unnumbered(MessagesTypes, K)
        /\ e.k \in Blocks <=> e.t \in {"block_start", "block_delta"}
        /\ e.k \in Stops <=> e.t = "message_delta"
    BY <2>1, MessagesSendsType, Zenon
  <2> DEFINE f == [e EXCEPT !.n = n + 1]
  <2> HIDE DEF K
  <2>3. f \in [t : MessagesTypes, i : Nat, k : K, n : Nat \ {0}] /\ f.t = e.t /\ f.k = e.k
    BY <2>2, Numbered
  <2> HIDE DEF f
  <2>4. f \in UpEvents(up)
    BY <1>2, <2>2, <2>3, Zenon DEF UpEvents, MessagesEvents, K
  <2>. QED
    BY <2>3, <2>4 DEF f
<1>3. CASE up = "responses"
  <2>1. e \in ResponsesSends(h) /\ h \in Seq(ResponsesEvents)
    BY <1>3 DEF Sends, UpEvents
  <2>2. /\ e \in Unnumbered(ResponsesTypes, {""} \cup Items)
        /\ e.k \in Items <=> e.t \in {"item_added", "item_done"}
    BY <2>1, ResponsesSendsType, Zenon
  <2> DEFINE f == [e EXCEPT !.n = n + 1]
  <2>3. /\ f \in [t : ResponsesTypes, i : Nat, k : {""} \cup Items, n : Nat \ {0}]
        /\ f.t = e.t /\ f.k = e.k
    BY <2>2, Numbered, ZenonT(30)
  <2> HIDE DEF f
  <2>4. f \in UpEvents(up)
    BY <1>3, <2>2, <2>3, Zenon DEF UpEvents, ResponsesEvents
  <2>. QED
    BY <2>3, <2>4, Zenon DEF f
<1>. QED
  BY <1>1, <1>2, <1>3 DEF Protocols

\* An event that says the answer was cut is the first one to finish it, but
\* after a Responses item; a Chat or Responses answer finished is not cut later.
LEMMA FirstFinish ==
    ASSUME up \in Protocols, NEW h, h \in Seq(UpEvents(up)), NEW e \in Sends(up, h, Tools),
           NEW f \in UpEvents(up), f.t = e.t, f.k = e.k
    PROVE  /\ Cut(f) /\ ~(up = "responses" /\ Sent(h, "item_done"))
                => \A j \in 1..Len(h) : FinishOf(h[j]) = ""
           /\ up # "messages" /\ FinishOf(f) # "" => \A j \in 1..Len(h) : ~Cut(h[j])
           /\ f.t = "created" => h = <<>>
<1>1. \A j \in 1..Len(h) : h[j] \in UpEvents(up)
  OBVIOUS
<1>2. CASE up = "chat"
  <2>1. e \in ChatSends(h, Tools)
    BY <1>2 DEF Sends
  <2>2. Sent(h, "finish") => e.t = "usage"
    BY <2>1, ChatSendsType, Zenon
  <2>3. \A j \in 1..Len(h) : h[j].t \in ChatTypes
    BY <1>1, <1>2, UpTypes, Zenon
  <2>4. f.t \in ChatTypes
    BY <1>2, UpTypes, Zenon
  <2>5. ASSUME Sent(h, "finish") PROVE FinishOf(f) = "" /\ ~Cut(f)
    <3>1. f.t = "usage"
      BY <2>2, <2>5
    <3>2. FinishOf(f) = ""
      BY <3>1 DEF FinishOf
    <3>. QED
      BY <3>2, CutFinish, Zenon DEF CutReasons
  <2>6. ASSUME NEW j \in 1..Len(h), h[j].t # "finish" PROVE FinishOf(h[j]) = "" /\ ~Cut(h[j])
    <3>1. FinishOf(h[j]) = ""
      BY <2>3, <2>6, Zenon DEF FinishOf, ChatTypes
    <3>. QED
      BY <1>1, <3>1, CutFinish, Zenon DEF CutReasons
  <2>. QED
    BY <1>2, <2>4, <2>5, <2>6, Zenon DEF Sent, ChatTypes
<1>3. CASE up = "messages"
  <2>1. e \in MessagesSends(h) /\ h \in Seq(MessagesEvents)
    BY <1>3 DEF Sends, UpEvents
  <2>2. (Sent(h, "message_delta") => e.t = "message_stop") /\ ~Sent(h, "message_stop")
    BY <2>1, MessagesSendsType, Zenon
  <2>3. \A j \in 1..Len(h) : h[j].t \in MessagesTypes
    BY <1>1, <1>3, UpTypes, Zenon
  <2>4. f.t \in MessagesTypes
    BY <1>3, UpTypes, Zenon
  <2>5. ASSUME Cut(f), NEW j \in 1..Len(h) PROVE FinishOf(h[j]) = ""
    <3>1. f.t = "message_delta"
      BY <2>4, <2>5, CutFinish DEF MessagesTypes
    <3>2. ~Sent(h, "message_delta")
      BY <2>2, <3>1
    <3>. QED
      BY <2>2, <2>3, <3>2, Zenon DEF Sent, FinishOf, MessagesTypes
  <2>. QED
    BY <1>3, <2>4, <2>5, Zenon DEF MessagesTypes
<1>4. CASE up = "responses"
  <2>1. e \in ResponsesSends(h) /\ h \in Seq(ResponsesEvents)
    BY <1>4 DEF Sends, UpEvents
  <2>2. (~\E j \in 1..Len(h) : ResponsesTerminal(h[j])) /\ (e.t = "created" => h = <<>>)
    BY <2>1, ResponsesSendsType, Zenon
  <2>3. \A j \in 1..Len(h) : h[j].t \in ResponsesTypes
    BY <1>1, <1>4, UpTypes, Zenon
  <2>4. ASSUME NEW j \in 1..Len(h) PROVE ~Cut(h[j])
    <3>1. h[j].t # "incomplete" /\ h[j].t \in ResponsesTypes
      BY <2>2, <2>3 DEF ResponsesTerminal
    <3>. QED
      BY <1>1, <3>1, CutFinish DEF ResponsesTypes
  <2>5. ASSUME NEW j \in 1..Len(h), ~Sent(h, "item_done") PROVE FinishOf(h[j]) = ""
    BY <2>2, <2>3, <2>5, Zenon DEF ResponsesTerminal, Sent, FinishOf, ResponsesTypes
  <2>. QED
    BY <1>4, <2>2, <2>4, <2>5, Zenon
<1>. QED
  BY <1>2, <1>3, <1>4, Zenon DEF Protocols

\* The stream g is h and then e.
Grows(g, h, e) ==
    /\ Len(g) = Len(h) + 1
    /\ \A j \in 1..Len(g) : (j \in 1..Len(h) /\ g[j] = h[j]) \/ g[j] = e
    /\ \A j \in 1..Len(h) : j \in 1..Len(g) /\ g[j] = h[j]
    /\ \E j \in 1..Len(g) : g[j] = e

LEMMA AppendGrows ==
    ASSUME NEW S, NEW h \in Seq(S), NEW e \in S
    PROVE  Append(h, e) \in Seq(S) /\ Grows(Append(h, e), h, e)
<1> DEFINE g == Append(h, e)
           n == Len(h)
<1>1. g \in Seq(S) /\ Len(g) = n + 1 /\ Before(h, e) /\ g[n + 1] = e /\ n \in Nat
  <2>1. Append(h, e) \in Seq(S)
    BY Appended, Zenon
  <2>2. Len(Append(h, e)) = Len(h) + 1
    BY Appended, Zenon
  <2>3. Append(h, e)[Len(h) + 1] = e
    BY Appended, Zenon
  <2>4. Before(h, e)
    BY Appended, Zenon
  <2>5. Len(h) \in Nat
    OBVIOUS
  <2>. QED
    BY <2>1, <2>2, <2>3, <2>4, <2>5, Zenon DEF g, n
<1>2. \A j \in 1..n : g[j] = h[j]
  BY <1>1, Zenon DEF Before
<1> HIDE DEF g, n
<1>3. /\ Len(g) = n + 1
      /\ \A j \in 1..Len(g) : (j \in 1..n /\ g[j] = h[j]) \/ g[j] = e
      /\ \A j \in 1..n : j \in 1..Len(g) /\ g[j] = h[j]
      /\ \E j \in 1..Len(g) : g[j] = e
  BY <1>1, <1>2
<1>. QED
  BY <1>1, <1>3 DEF Grows, g, n

----------------------------------------------------------------------------
(* One event received: held, a failure before anything was said, or        *)
(* converted                                                               *)

Holds(e) == /\ dst = "responses" /\ conv.read = 0 /\ e.t = "created"
            /\ UNCHANGED <<conv, out, mark>>
Fails(e) == /\ dst = "responses" /\ conv.read = 0 /\ e.t \in {"failed", "incomplete"}
            /\ mark' = "failure" /\ UNCHANGED <<conv, out>>
Passes(e) == /\ ~(dst = "responses" /\ conv.read = 0 /\ e.t \in {"created", "failed", "incomplete"})
             /\ Deliver(Burst(e).w, Burst(e).c, IF Burst(e).c.failed THEN "failure" ELSE "")

\* e is a numbered event of the upstream, and the step is one of the three.
Takes(e) ==
    /\ e \in UpEvents(up) /\ mark = "" /\ closed = ""
    /\ given' = Append(given, e) /\ UNCHANGED <<up, dst, closed>>
    /\ Holds(e) \/ Fails(e) \/ Passes(e)

\* The order in which the upstream sends its events.
InOrder(h, f) ==
    /\ Cut(f) /\ ~(up = "responses" /\ Sent(h, "item_done"))
         => \A j \in 1..Len(h) : FinishOf(h[j]) = ""
    /\ up # "messages" /\ FinishOf(f) # "" => \A j \in 1..Len(h) : ~Cut(h[j])
    /\ f.t = "created" => h = <<>>

LEMMA Received ==
    ASSUME Typed, NEW e \in Sends(up, given, Tools), Receive([e EXCEPT !.n = Len(given) + 1])
    PROVE  \E f : Takes(f) /\ InOrder(given, f)
<1> DEFINE f == [e EXCEPT !.n = Len(given) + 1]
<1>1. up \in Protocols /\ given \in Seq(UpEvents(up)) /\ Len(given) \in Nat
  BY DEF Typed
<1>2. f \in UpEvents(up) /\ f.t = e.t /\ f.k = e.k
  BY <1>1, SendsUp
<1>3. Receive(f)
  OBVIOUS
<1> HIDE DEF f
<1>4. InOrder(given, f)
  BY <1>1, <1>2, FirstFinish, Zenon DEF InOrder
<1>5. /\ mark = "" /\ closed = "" /\ given' = Append(given, f) /\ UNCHANGED <<up, dst, closed>>
      /\ \/ PreReading /\ Lifecycle(f) /\ UNCHANGED <<conv, out, mark>>
         \/ PreReading /\ EarlyFailure(f) /\ mark' = "failure" /\ UNCHANGED <<conv, out>>
         \/ /\ ~(PreReading /\ (Lifecycle(f) \/ EarlyFailure(f)))
            /\ Deliver(Burst(f).w, Burst(f).c, IF Burst(f).c.failed THEN "failure" ELSE "")
  BY <1>3, Zenon DEF Receive, Burst, Turns
<1>6. Holds(f) \/ Fails(f) \/ Passes(f)
  <2>1. CASE PreReading /\ Lifecycle(f) /\ UNCHANGED <<conv, out, mark>>
    BY <2>1 DEF Holds, PreReading, Lifecycle
  <2>2. CASE PreReading /\ EarlyFailure(f) /\ mark' = "failure" /\ UNCHANGED <<conv, out>>
    BY <2>2 DEF Fails, PreReading, EarlyFailure
  <2>3. ASSUME ~(PreReading /\ (Lifecycle(f) \/ EarlyFailure(f))),
               Deliver(Burst(f).w, Burst(f).c, IF Burst(f).c.failed THEN "failure" ELSE "")
        PROVE  Passes(f)
    <3>1. ~(dst = "responses" /\ conv.read = 0 /\ f.t \in {"created", "failed", "incomplete"})
      BY <2>3, Zenon DEF PreReading, Lifecycle, EarlyFailure
    <3>. QED
      BY <2>3, <3>1, Zenon DEF Passes
  <2>. QED
    BY <1>5, <2>1, <2>2, <2>3, Zenon
<1>. QED
  BY <1>2, <1>4, <1>5, <1>6, Zenon DEF Takes

----------------------------------------------------------------------------
(* The invariant: what the converter knows of an open stream               *)

\* The converter has read every event, or holds what opens a Responses answer.
ReadsOn ==
    /\ conv.read \in {0, Len(given)}
    /\ conv.read = 0 => conv = NewConverter /\ out = <<>> /\ (given = <<>> \/ Held)
\* What the converter remembers of the events it has seen.
KnowsEnd ==
    /\ conv.seen => \E j \in 1..Len(given) : Terminal(up, given[j])
    /\ conv.reason \in FinishReasons
    /\ conv.em.finished <=> conv.reason # ""
    /\ conv.reason # "" => \E j \in 1..Len(given) : FinishOf(given[j]) # ""
KnowsUsage == \A j \in 1..Len(given) : Decode(up, given[j]).usage \subseteq conv.em.usage
\* Where the truncation is, before the answer ends: in the client's stream, or,
\* for a Responses client, whose stream tells it only at the end, in the reason.
KnowsCut ==
    LET known == ~(up = "responses" /\ Sent(given, "item_done"))
    IN  IF dst = "responses"
          THEN /\ ~CutShort(out)
               /\ known /\ up # "messages" => (conv.reason = "length" <=> CutShort(given))
          ELSE known => (CutShort(out) <=> CutShort(given))
\* The events that say nothing and finish nothing.
Opening == {"role", "ping", "message_start", "created", "failed"}
\* A client that may still be given another upstream's answer has heard nothing.
Uncommitted ==
    /\ (dst = "chat" \/ up = dst) /\ (\A j \in 1..Len(given) : given[j].t \in Opening)
         => out = <<>>
    /\ dst = "responses" /\ conv.read # 0
         => \E j \in 1..Len(given) : given[j].t \notin {"created", "failed"}

Ready == /\ closed = "" /\ out \in Seq(Endless) /\ ~Sent(given, "failed")
         /\ Content(out) = Content(given)
         /\ ReadsOn /\ KnowsEnd /\ KnowsUsage /\ KnowsCut /\ Uncommitted

Unmarked == mark = ""

\* Only a Responses client's stream is rebuilt in its own protocol.
Rebuilt == up = dst => dst = "responses"

\* The event e becomes known, and the client hears x of it.
Learns(e, x) ==
    /\ e \in UpEvents(up) /\ given' \in Seq(UpEvents(up)) /\ Grows(given', given, e)
    /\ given' = Append(given, e)
    /\ x \in Seq(Endless) /\ out' = out \o x /\ Content(x) = PieceOf(e)
    /\ CutShort(x) <=> /\ dst # "responses" /\ ~conv.em.finished
                       /\ FinishOf(e) \in CutReasons
    /\ conv' \in Converters
    /\ conv'.em.usage = conv.em.usage \cup Decode(up, e).usage
    /\ conv'.em.finished <=> conv.em.finished \/ FinishOf(e) # ""
    /\ conv'.seen <=> conv.seen \/ Terminal(up, e)
    /\ conv'.reason = OrElse(FinishOf(e), conv.reason)
    /\ FinishOf(e) # "failed"
    /\ UNCHANGED <<up, dst, closed>>

LEMMA DeliveredIs ==
    ASSUME NEW S, Speak(S), NEW w \in Seq(S), NEW c, NEW v, Deliver(w, c, v)
    PROVE  /\ conv' = c
           /\ \E x \in Seq(S) : /\ out' = out \o x /\ IsPrefix(Content(x), Content(w))
                                /\ (x = w /\ mark' = v) \/ mark' \in {"none", "failure"}
                                /\ w = <<>> => x = <<>>
<1>1. CASE out' = out \o w /\ conv' = c /\ mark' = v
  <2>1. IsPrefix(Content(w), Content(w))
    <3>1. Content(w) \in Seq(Speech)
      BY ContentType
    <3> DEFINE d == Content(w)
    <3> HIDE DEF d
    <3>2. d \in Seq(Speech)
      BY <3>1 DEF d
    <3>3. IsPrefix(d, d)
      BY <3>2 DEF IsPrefix
    <3>. QED
      BY <3>3 DEF d
  <2>. QED
    BY <1>1, <2>1
<1>2. ASSUME NEW j \in 0..(Len(w) - 1), out' = out \o SubSeq(w, 1, j), conv' = c,
             mark' = IF out = <<>> /\ j = 0 THEN "none" ELSE "failure"
      PROVE  /\ conv' = c
             /\ \E x \in Seq(S) : /\ out' = out \o x /\ IsPrefix(Content(x), Content(w))
                                  /\ (x = w /\ mark' = v) \/ mark' \in {"none", "failure"}
                                  /\ w = <<>> => x = <<>>
  <2>5. w # <<>>
    BY <1>2
  <2>1. j \in 0..Len(w)
    OBVIOUS
  <2> DEFINE x == SubSeq(w, 1, j)
  <2>2. x \in Seq(S) /\ IsPrefix(Content(x), Content(w))
    BY <2>1, ContentPrefix
  <2>3. mark' \in {"none", "failure"}
    BY <1>2
  <2> HIDE DEF x
  <2>4. out' = out \o x
    BY <1>2 DEF x
  <2>. QED
    BY <1>2, <2>2, <2>3, <2>4, <2>5
<1>. QED
  BY <1>1, <1>2 DEF Deliver

LEMMA BurstOf ==
    ASSUME Typed, ReadsOn, NEW e \in UpEvents(up)
    PROVE  Converts(e, Burst(e))
<1>1. conv.read = Len(given) \/ (conv.read = 0 /\ Unread)
  <2>1. CASE conv.read = 0 /\ given = <<>>
    BY <2>1
  <2>2. CASE conv.read = 0 /\ given # <<>>
    BY <2>2 DEF ReadsOn, Unread
  <2>. QED
    BY <2>1, <2>2 DEF ReadsOn
<1>. QED
  BY <1>1, BurstConverts

LEMMA HeldLearns ==
    ASSUME Typed, Ready, NEW e, Takes(e), Holds(e)
    PROVE  Learns(e, <<>>)
<1>1. e \in UpEvents(up) /\ given' = Append(given, e) /\ UNCHANGED <<up, dst, closed, conv, out>>
      /\ e.t = "created"
  BY Zenon DEF Takes, Holds
<1>2. given' \in Seq(UpEvents(up)) /\ Grows(given', given, e)
  BY <1>1, AppendGrows DEF Typed
<1>3. FinishOf(e) = "" /\ PieceOf(e) = <<>>
  BY <1>1 DEF FinishOf, PieceOf, Kind
<1>4. up = "responses"
  BY <1>1, UpTypes, Zenon DEF Typed, Protocols, ChatTypes, MessagesTypes
<1>5. ~Terminal(up, e) /\ Decode(up, e).usage = {}
  BY <1>1, <1>4, Zenon DEF Terminal, ResponsesTerminal, Decode, DecodeResponsesStreamEvent, NoEvent
<1>6. <<>> \in Seq(Endless) /\ Content(<<>>) = <<>> /\ ~CutShort(<<>>)
  BY ContentEmpty, CutNone
<1>7. out = out \o <<>>
  BY DEF Typed
<1>8. OrElse("", conv.reason) = conv.reason /\ "" \notin CutReasons
  BY DEF OrElse, CutReasons
<1>9. conv' \in Converters /\ conv.em.usage = conv.em.usage \cup {}
  BY <1>1 DEF Typed
<1>. QED
  BY <1>1, <1>2, <1>3, <1>5, <1>6, <1>7, <1>8, <1>9, Zenon DEF Learns

LEMMA PassedLearns ==
    ASSUME Typed, Ready, NEW e, Takes(e), Passes(e), mark' = ""
    PROVE  Learns(e, Burst(e).w) /\ conv' = Burst(e).c /\ conv'.read = Len(given) + 1
<1> DEFINE r == Burst(e)
<1>1. e \in UpEvents(up) /\ given' = Append(given, e) /\ UNCHANGED <<up, dst, closed>>
  BY Zenon DEF Takes
<1>2. given' \in Seq(UpEvents(up)) /\ Grows(given', given, e)
  BY <1>1, AppendGrows, Zenon DEF Typed
<1>3. Converts(e, r)
  BY <1>1, BurstOf, Zenon DEF Ready
<1>4. Deliver(r.w, r.c, IF r.c.failed THEN "failure" ELSE "")
  BY Zenon DEF Passes
<1> HIDE DEF r
<1>5. r.w \in Seq(Endless) /\ r.c \in Converters
  BY <1>3, Zenon DEF Converts
<1> DEFINE v == IF r.c.failed THEN "failure" ELSE ""
<1>6. Deliver(r.w, r.c, v)
  BY <1>4, Zenon
<1>7. v = "" => ~r.c.failed
  BY Zenon
<1> HIDE DEF v
<1>8. /\ conv' = r.c
      /\ \E x \in Seq(Endless) : /\ out' = out \o x
                                 /\ (x = r.w /\ mark' = v) \/ mark' \in {"none", "failure"}
  BY <1>5, <1>6, EndlessSpeak, DeliveredIs, Zenon
<1>9. out' = out \o r.w /\ ~r.c.failed
  BY <1>7, <1>8, Zenon
<1>10. Decode(up, e).finish = FinishOf(e)
  BY <1>1, Finishes, Zenon DEF Typed
<1>11. /\ Content(r.w) = PieceOf(e)
       /\ CutShort(r.w) <=> /\ dst # "responses" /\ ~conv.em.finished
                            /\ FinishOf(e) \in CutReasons
       /\ r.c.em.usage = conv.em.usage \cup Decode(up, e).usage
       /\ r.c.em.finished <=> conv.em.finished \/ FinishOf(e) \notin {"", "failed"}
       /\ r.c.seen <=> conv.seen \/ Terminal(up, e)
       /\ r.c.reason = OrElse(FinishOf(e), conv.reason)
       /\ r.c.failed <=> FinishOf(e) = "failed"
       /\ r.c.read = Len(given) + 1
  BY <1>3, <1>10, Zenon DEF Converts
<1>12. Learns(e, r.w)
  BY <1>1, <1>2, <1>5, <1>8, <1>9, <1>11, Zenon DEF Learns
<1>. QED
  BY <1>8, <1>11, <1>12, Zenon DEF r

\* A finish reason is one of FinishReasons, or "failed".
LEMMA FinishRange ==
    ASSUME NEW p \in Protocols, NEW e \in UpEvents(p)
    PROVE  FinishOf(e) \in FinishReasons \cup {"failed"}
BY Finishes, DecodeTypes

LEMMA KeepsKnowsEnd ==
    ASSUME Typed, KnowsEnd, NEW e, NEW x, Learns(e, x)
    PROVE  KnowsEnd'
<1>1. /\ up' = up /\ Grows(given', given, e)
      /\ conv'.em.finished <=> conv.em.finished \/ FinishOf(e) # ""
      /\ conv'.seen <=> conv.seen \/ Terminal(up, e)
      /\ conv'.reason = OrElse(FinishOf(e), conv.reason)
  BY Zenon DEF Learns
<1>2. FinishOf(e) \in FinishReasons
  BY FinishRange, Zenon DEF Learns, Typed
<1>3. conv'.seen => \E j \in 1..Len(given') : Terminal(up', given'[j])
  BY <1>1, Zenon DEF KnowsEnd, Grows
<1>4. conv'.reason \in FinishReasons /\ (conv'.em.finished <=> conv'.reason # "")
  BY <1>1, <1>2, Zenon DEF KnowsEnd, OrElse
<1>5. conv'.reason # "" => \E j \in 1..Len(given') : FinishOf(given'[j]) # ""
  BY <1>1, Zenon DEF KnowsEnd, OrElse, Grows
<1>. QED
  BY <1>3, <1>4, <1>5, Zenon DEF KnowsEnd

LEMMA KeepsKnowsUsage ==
    ASSUME Typed, KnowsUsage, NEW e, NEW x, Learns(e, x)
    PROVE  KnowsUsage'
<1>1. /\ up' = up /\ Grows(given', given, e)
      /\ conv'.em.usage = conv.em.usage \cup Decode(up, e).usage
  BY Zenon DEF Learns
<1> DEFINE U(f) == Decode(up, f).usage
<1>2. /\ \A j \in 1..Len(given) : U(given[j]) \subseteq conv.em.usage
      /\ conv'.em.usage = conv.em.usage \cup U(e)
  BY <1>1 DEF KnowsUsage
<1> HIDE DEF U
<1>3. \A j \in 1..Len(given') : U(given'[j]) \subseteq conv'.em.usage
  BY <1>1, <1>2 DEF Grows
<1>. QED
  BY <1>1, <1>3 DEF KnowsUsage, U

LEMMA KeepsUnfailed ==
    ASSUME Typed, ~Sent(given, "failed"), NEW e, NEW x, Learns(e, x)
    PROVE  ~Sent(given', "failed")
<1>1. Grows(given', given, e) /\ FinishOf(e) # "failed"
  BY Zenon DEF Learns
<1>2. e.t # "failed"
  BY <1>1 DEF FinishOf
<1>. QED
  BY <1>1, <1>2 DEF Sent, Grows

\* What the client has heard is what the upstream has said.
LEMMA UpSpeak ==
    ASSUME NEW p \in Protocols
    PROVE  Speak(UpEvents(p))
<1>1. ASSUME NEW e \in UpEvents(p), Kind(e) # ""
      PROVE  [k |-> Kind(e), n |-> e.n] \in Speech
  <2> DEFINE q == [k |-> Kind(e), n |-> e.n]
  <2>1. PieceOf(e) \in Seq(Speech) /\ PieceOf(e) = <<q>>
    BY <1>1, PieceType, Zenon DEF PieceOf
  <2> HIDE DEF q
  <2>2. <<q>>[1] = q /\ 1 \in 1..Len(<<q>>)
    OBVIOUS
  <2>3. q \in Speech
    BY <2>1, <2>2
  <2>. QED
    BY <2>3 DEF q
<1>. QED
  BY <1>1, Zenon DEF Speak

LEMMA ContentGrows ==
    ASSUME NEW S, Speak(S), NEW h \in Seq(S), NEW e \in S
    PROVE  Content(Append(h, e)) = Content(h) \o PieceOf(e)
<1> DEFINE c == Content(h)
<1>1. c \in Seq(Speech)
  BY ContentType
<1>2. Content(Append(h, e)) = IF Kind(e) = "" THEN c ELSE Append(c, [k |-> Kind(e), n |-> e.n])
  BY ContentAppend, Zenon
<1> HIDE DEF c
<1>3. CASE Kind(e) = ""
  <2>1. c = c \o <<>>
    BY <1>1
  <2>. QED
    BY <1>2, <1>3, <2>1, Zenon DEF PieceOf, c
<1>4. CASE Kind(e) # ""
  <2> DEFINE q == [k |-> Kind(e), n |-> e.n]
  <2>1. q \in Speech
    BY <1>4, Zenon DEF Speak
  <2>2. PieceOf(e) = <<q>> /\ Content(Append(h, e)) = Append(c, q)
    BY <1>2, <1>4, Zenon DEF PieceOf
  <2> HIDE DEF q
  <2>3. Append(c, q) = c \o <<q>>
    BY <1>1, <2>1, AppendIsConcat
  <2>. QED
    BY <2>2, <2>3 DEF c
<1>. QED
  BY <1>3, <1>4, Zenon

LEMMA KeepsContent ==
    ASSUME Typed, out \in Seq(Endless), Content(out) = Content(given), NEW e, NEW x, Learns(e, x)
    PROVE  out' \in Seq(Endless) /\ Content(out') = Content(given')
<1>1. /\ e \in UpEvents(up) /\ given' = Append(given, e) /\ x \in Seq(Endless)
      /\ out' = out \o x /\ Content(x) = PieceOf(e) /\ given \in Seq(UpEvents(up))
      /\ up \in Protocols
  BY Zenon DEF Learns, Typed
<1>2. out' \in Seq(Endless)
  BY <1>1
<1>3. Content(out \o x) = Content(out) \o Content(x)
  BY <1>1, EndlessSpeak, ContentConcat, Zenon
<1>4. Content(Append(given, e)) = Content(given) \o PieceOf(e)
  <2>1. Speak(UpEvents(up))
    BY <1>1, UpSpeak
  <2>. QED
    BY <1>1, <2>1, ContentGrows, Zenon
<1>5. Content(out') = Content(given')
  BY <1>1, <1>3, <1>4, Zenon
<1>. QED
  BY <1>2, <1>5

LEMMA CutIs == ASSUME NEW S, NEW h \in Seq(S)
               PROVE  CutShort(h) <=> \E j \in 1..Len(h) : Cut(h[j])
<1>1. DOMAIN h = 1..Len(h)
  OBVIOUS
<1>. QED
  BY <1>1 DEF CutShort, Cut, CutReasons

LEMMA KeepsKnowsCut ==
    ASSUME Typed, KnowsEnd, KnowsCut, out \in Seq(Endless), NEW e, NEW x, Learns(e, x),
           InOrder(given, e)
    PROVE  KnowsCut'
<1>1. /\ e \in UpEvents(up) /\ Grows(given', given, e) /\ x \in Seq(Endless) /\ out' = out \o x
      /\ CutShort(x) <=> /\ dst # "responses" /\ ~conv.em.finished
                         /\ FinishOf(e) \in CutReasons
      /\ conv'.reason = OrElse(FinishOf(e), conv.reason)
      /\ up' = up /\ dst' = dst /\ up \in Protocols
      /\ given \in Seq(UpEvents(up)) /\ given' \in Seq(UpEvents(up))
  BY Zenon DEF Learns, Typed
<1> DEFINE known == ~(up = "responses" /\ Sent(given, "item_done"))
<1>2. ~(up = "responses" /\ Sent(given', "item_done")) => known
  BY <1>1 DEF Grows, Sent
<1>3. CutShort(out') <=> CutShort(out) \/ CutShort(x)
  BY <1>1, CutConcat
<1>4. CutShort(given') <=> CutShort(given) \/ Cut(e)
  <2>1. CutShort(given') <=> \E j \in 1..Len(given') : Cut(given'[j])
    BY <1>1, CutIs
  <2>2. CutShort(given) <=> \E j \in 1..Len(given) : Cut(given[j])
    BY <1>1, CutIs
  <2>. QED
    BY <1>1, <2>1, <2>2 DEF Grows
<1>5. /\ Cut(e) <=> FinishOf(e) \in CutReasons
      /\ up # "messages" => (Cut(e) <=> FinishOf(e) = "length")
  BY <1>1, CutFinish
<1>6. Cut(e) /\ known => ~conv.em.finished
  BY Zenon DEF InOrder, KnowsEnd
<1>7. up # "messages" /\ FinishOf(e) # "" => ~CutShort(given)
  <2>1. CutShort(given) <=> \E j \in 1..Len(given) : Cut(given[j])
    BY <1>1, CutIs
  <2>. QED
    BY <2>1, Zenon DEF InOrder
<1>8. CASE dst = "responses"
  <2>1. ~CutShort(out')
    BY <1>1, <1>3, <1>8 DEF KnowsCut
  <2>2. ASSUME known, up # "messages" PROVE conv'.reason = "length" <=> CutShort(given')
    <3>1. conv.reason = "length" <=> CutShort(given)
      BY <1>8, <2>2 DEF KnowsCut
    <3>2. CASE FinishOf(e) = ""
      <4>1. ~Cut(e) /\ conv'.reason = conv.reason
        BY <1>1, <1>5, <2>2, <3>2, Zenon DEF OrElse
      <4>. QED
        BY <1>4, <3>1, <4>1
    <3>3. CASE FinishOf(e) # ""
      <4>1. conv'.reason = FinishOf(e)
        BY <1>1, <3>3, Zenon DEF OrElse
      <4>. QED
        BY <1>4, <1>5, <1>7, <2>2, <3>3, <4>1, Zenon
    <3>. QED
      BY <3>2, <3>3, Zenon
  <2>. QED
    BY <1>1, <1>2, <1>8, <2>1, <2>2 DEF KnowsCut
<1>9. CASE dst # "responses"
  <2>1. known => (CutShort(out) <=> CutShort(given))
    BY <1>9 DEF KnowsCut
  <2>2. known => (CutShort(x) <=> Cut(e))
    BY <1>1, <1>5, <1>6, <1>9
  <2>3. known => (CutShort(out') <=> CutShort(given'))
    BY <1>3, <1>4, <2>1, <2>2
  <2>. QED
    BY <1>1, <1>2, <1>9, <2>3 DEF KnowsCut
<1>. QED
  BY <1>8, <1>9

\* The events that open an answer carry nothing for a Chat client.
LEMMA OpeningDecodes ==
    ASSUME NEW p \in Protocols, NEW e \in UpEvents(p), e.t \in Opening, NEW ev, ev = Decode(p, e)
    PROVE  /\ ev.content = <<>> /\ ev.text = 0 /\ ev.delta = 0 /\ NoTools(ev)
           /\ ev.finish \in {"", "failed"}
<1> USE DEF NoEvent, NoTools, Opening
<1>1. CASE p = "chat"
  <2>1. e.t = "role"
    BY <1>1, UpTypes, Zenon DEF ChatTypes
  <2>. QED
    BY <1>1, <2>1, Zenon DEF Decode, DecodeChatStreamChunk
<1>2. CASE p = "messages"
  <2>1. e.t \in {"ping", "message_start"}
    BY <1>2, UpTypes, Zenon DEF MessagesTypes
  <2>2. ev = DecodeMessagesStreamEvent(e)
    BY <1>2 DEF Decode
  <2>3. CASE e.t = "message_start"
    BY <2>2, <2>3, Zenon DEF DecodeMessagesStreamEvent
  <2>4. CASE e.t = "ping"
    <3>1. ev = NoEvent
      BY <2>2, <2>4, Zenon DEF DecodeMessagesStreamEvent
    <3>2. /\ NoEvent.content = <<>> /\ NoEvent.text = 0 /\ NoEvent.delta = 0
          /\ NoEvent.calls = <<>> /\ NoEvent.args = <<>> /\ NoEvent.finish \in {"", "failed"}
      OBVIOUS
    <3>. QED
      BY <3>1, <3>2, Zenon
  <2>. QED
    BY <2>1, <2>3, <2>4, Zenon
<1>3. CASE p = "responses"
  <2>1. e.t \in {"created", "failed"}
    BY <1>3, UpTypes, Zenon DEF ResponsesTypes
  <2>. QED
    BY <1>3, <2>1, Zenon DEF Decode, DecodeResponsesStreamEvent
<1>. QED
  BY <1>1, <1>2, <1>3, Zenon DEF Protocols

LEMMA OpeningSilent ==
    ASSUME dst = "chat", up \in Protocols, NEW e \in UpEvents(up), e.t \in Opening, NEW r
    PROVE  Normalize(r, e).w = r.w
<1> DEFINE ev == Decode(up, e)
           started == r.c.started \/ IsMeaningful(ev)
           s0 == [e |-> r.c.em, w |-> r.w]
           s1 == IF started /\ ~r.c.started THEN OnStart(dst, s0) ELSE s0
           s2 == IF started THEN Emit(s1, ev) ELSE s1
<1>1. Normalize(r, e).w = s2.w
  BY DEF Normalize
<1>2. s1 = s0
  BY DEF OnStart
<1>3. /\ ev.content = <<>> /\ ev.text = 0 /\ ev.delta = 0 /\ NoTools(ev)
      /\ ev.finish \in {"", "failed"}
  BY OpeningDecodes, Zenon
<1>4. Emit(s0, ev) = OnUsage(dst, s0, ev.usage)
  <2> DEFINE s == s0
  <2> HIDE DEF ev, s0
  <2>1. /\ Texts(s, <<>>) = s /\ CallsOf(s, <<>>) = s /\ ArgsOf(s, <<>>) = s
        /\ PassText(s, Piece("text", 0)) = s
    BY TextsFacts, CallsOfFacts, ArgsOfFacts, PassNoText
  <2> HIDE DEF s
  <2>2. Body(s, ev) = s
    BY <1>3, <2>1, Zenon DEF Body, NoTools
  <2>3. Emit(s, ev) = LET b == OnUsage(dst, Body(s, ev), ev.usage)
                      IN  IF ev.finish \in {"", "failed"} THEN b ELSE OnFinish(dst, b, ev.finish)
    BY EmitBody, Zenon
  <2>4. Emit(s, ev) = OnUsage(dst, s, ev.usage)
    BY <1>3, <2>2, <2>3, Zenon
  <2>. QED
    BY <2>4 DEF s
<1>5. OnUsage(dst, s0, ev.usage).w = r.w /\ s0.w = r.w
  BY DEF OnUsage
<1>. QED
  <2> HIDE DEF ev, s0, started, s1
  <2>. QED
    BY <1>1, <1>2, <1>4, <1>5

\* Until an event that is not of the opening, a client that may still be given
\* another upstream's answer hears nothing.
LEMMA OpeningUnheard ==
    ASSUME Typed, Ready, Rebuilt, NEW e, Takes(e), dst = "chat" \/ up = dst,
           \A j \in 1..Len(given') : given'[j].t \in Opening
    PROVE  out' = <<>>
<1>1. /\ e \in UpEvents(up) /\ given' = Append(given, e) /\ up \in Protocols
      /\ given \in Seq(UpEvents(up))
  BY Zenon DEF Takes, Typed
<1>2. Grows(given', given, e)
  BY <1>1, AppendGrows
<1>3. e.t \in Opening /\ \A j \in 1..Len(given) : given[j].t \in Opening
  BY <1>2 DEF Grows
<1>4. out = <<>>
  BY <1>3, Zenon DEF Ready, Uncommitted
<1>5. CASE Passes(e) /\ dst = "chat"
  <2> DEFINE start == [c |-> conv, w |-> <<>>]
             r == Burst(e)
  <2>1. conv.read = Len(given)
    <3>1. ReadsOn
      BY Zenon DEF Ready
    <3>. QED
      BY <1>5, <3>1 DEF ReadsOn, Held
  <2>2. SubSeq(Append(given, e), conv.read + 1, Len(Append(given, e))) = <<e>>
    BY <1>1, <2>1, JustOne
  <2>3. r = Turns(start, <<e>>)
    BY <2>2, Zenon DEF Burst
  <2>4. start.w = <<>>
    OBVIOUS
  <2> HIDE DEF r, start
  <2>5. OneTurn(start, e) /\ TwoTurns(start, e, e)
    BY TurnsFacts, Zenon
  <2>6. r = Normalize(start, e)
    BY <2>3, <2>5 DEF OneTurn
  <2>7. r.w = <<>>
    BY <1>1, <1>3, <1>5, <2>4, <2>6, OpeningSilent
  <2> DEFINE v == IF r.c.failed THEN "failure" ELSE ""
  <2>8. Deliver(r.w, r.c, v)
    BY <1>5, Zenon DEF Passes, r
  <2> HIDE DEF v
  <2>9. r.w \in Seq(Endless)
    BY <2>7
  <2>10. \E x \in Seq(Endless) : out' = out \o x /\ (r.w = <<>> => x = <<>>)
    BY <2>8, <2>9, EndlessSpeak, DeliveredIs
  <2>. QED
    BY <1>4, <2>7, <2>10
<1>6. CASE Passes(e) /\ dst # "chat"
  <2>1. up = "responses" /\ dst = "responses"
    BY <1>6 DEF Rebuilt
  <2>2. e.t \in {"created", "failed"}
    BY <1>1, <1>3, <2>1, UpTypes, Zenon DEF Opening, ResponsesTypes
  <2>3. conv.read # 0
    BY <1>6, <2>1, <2>2, Zenon DEF Passes
  <2>4. PICK j \in 1..Len(given) : given[j].t \notin {"created", "failed"}
    BY <2>1, <2>3, Zenon DEF Ready, Uncommitted
  <2>5. given[j] \in UpEvents(up)
    BY <1>1
  <2>6. given[j].t \in {"created", "failed"}
    BY <1>1, <1>3, <2>1, <2>5, UpTypes, Zenon DEF Opening, ResponsesTypes
  <2>. QED
    BY <2>4, <2>6
<1>7. CASE Holds(e) \/ Fails(e)
  BY <1>4, <1>7 DEF Holds, Fails
<1>. QED
  BY <1>5, <1>6, <1>7, Zenon DEF Takes

LEMMA KeepsUncommitted ==
    ASSUME Typed, Ready, Rebuilt, NEW e, Takes(e), mark' = ""
    PROVE  Uncommitted'
<1>1. e \in UpEvents(up) /\ given' = Append(given, e) /\ given \in Seq(UpEvents(up))
      /\ up' = up /\ dst' = dst
  BY Zenon DEF Takes, Typed
<1>2. Grows(given', given, e)
  BY <1>1, AppendGrows, Zenon
<1>3. (dst' = "chat" \/ up' = dst') /\ (\A j \in 1..Len(given') : given'[j].t \in Opening)
         => out' = <<>>
  BY <1>1, OpeningUnheard, Zenon
<1>4. ASSUME dst' = "responses", conv'.read # 0
      PROVE  \E j \in 1..Len(given') : given'[j].t \notin {"created", "failed"}
  <2>1. CASE conv.read # 0
    <3>1. \E j \in 1..Len(given) : given[j].t \notin {"created", "failed"}
      BY <1>1, <1>4, <2>1, Zenon DEF Ready, Uncommitted
    <3>. QED
      BY <1>2, <3>1, Zenon DEF Grows
  <2>2. CASE conv.read = 0
    <3>1. Passes(e)
      <4>1. ~Holds(e)
        BY <1>4, <2>2, Zenon DEF Holds
      <4>2. ~Fails(e)
        BY Zenon DEF Fails
      <4>. QED
        BY <4>1, <4>2, Zenon DEF Takes
    <3>2. e.t \notin {"created", "failed"}
      BY <1>1, <1>4, <2>2, <3>1, Zenon DEF Passes
    <3>. QED
      BY <1>2, <3>2, Zenon DEF Grows
  <2>. QED
    BY <2>1, <2>2, Zenon
<1>. QED
  BY <1>3, <1>4, Zenon DEF Uncommitted

LEMMA KeepsReadsOn ==
    ASSUME Typed, Ready, NEW e, Takes(e), InOrder(given, e), Unmarked'
    PROVE  ReadsOn'
<1>1. e \in UpEvents(up) /\ given' = Append(given, e) /\ given \in Seq(UpEvents(up))
      /\ dst' = dst
  BY Zenon DEF Takes, Typed
<1>2. Grows(given', given, e)
  BY <1>1, AppendGrows
<1>3. CASE Passes(e)
  <2>1. conv'.read = Len(given) + 1
    BY <1>3, PassedLearns, Zenon DEF Unmarked
  <2>2. Len(given') = Len(given) + 1
    BY <1>2 DEF Grows
  <2> DEFINE n == Len(given)
             m == Len(given')
             c == conv'.read
  <2>3. n \in Nat /\ m = n + 1 /\ c = n + 1
    BY <1>1, LenProperties, <2>1, <2>2
  <2> HIDE DEF n, m, c
  <2>4. c = m /\ c # 0
    BY <2>3
  <2>. QED
    BY <2>4 DEF ReadsOn, m, c
<1>4. CASE Holds(e)
  <2>1. conv.read = 0 /\ conv' = conv /\ out' = out /\ dst = "responses" /\ e.t = "created"
    BY <1>4 DEF Holds
  <2>2. conv = NewConverter /\ out = <<>>
    BY <2>1, Zenon DEF Ready, ReadsOn
  <2>3. given = <<>>
    BY <2>1, Zenon DEF InOrder
  <2>4. Len(given) = 0 /\ Len(given') = 1
    <3>1. Len(given) = 0
      BY <2>3
    <3>. QED
      BY <1>2, <3>1 DEF Grows
  <2>5. Held'
    BY <1>1, <1>2, <2>1, <2>4 DEF Held, Grows
  <2>. QED
    BY <2>1, <2>2, <2>5, Zenon DEF ReadsOn, NewConverter, NewEmitter
<1>5. CASE Fails(e)
  BY <1>5, Zenon DEF Fails, Unmarked
<1>. QED
  BY <1>3, <1>4, <1>5, Zenon DEF Takes

\* An event that leaves the stream open keeps what the converter knows of it.
LEMMA KeepsReady ==
    ASSUME Typed, Ready, Rebuilt, NEW e, Takes(e), InOrder(given, e), Unmarked'
    PROVE  Ready'
<1>1. PICK x : Learns(e, x)
  <2>1. CASE Holds(e)
    BY <2>1, HeldLearns
  <2>2. CASE Passes(e)
    BY <2>2, PassedLearns, Zenon DEF Unmarked
  <2>3. CASE Fails(e)
    BY <2>3, Zenon DEF Fails, Unmarked
  <2>. QED
    BY <2>1, <2>2, <2>3, Zenon DEF Takes
<1>2. /\ closed = "" /\ out \in Seq(Endless) /\ ~Sent(given, "failed")
      /\ Content(out) = Content(given) /\ KnowsEnd /\ KnowsUsage /\ KnowsCut
  BY Zenon DEF Ready
<1>3. closed' = ""
  BY <1>1, <1>2, Zenon DEF Learns
<1>4. ~Sent(given', "failed")
  BY <1>1, <1>2, KeepsUnfailed, Zenon
<1>5. out' \in Seq(Endless) /\ Content(out') = Content(given')
  BY <1>1, <1>2, KeepsContent, Zenon
<1>6. KnowsEnd'
  BY <1>1, <1>2, KeepsKnowsEnd, Zenon
<1>7. KnowsUsage'
  BY <1>1, <1>2, KeepsKnowsUsage, Zenon
<1>8. KnowsCut'
  BY <1>1, <1>2, KeepsKnowsCut, Zenon
<1>9. ReadsOn'
  BY KeepsReadsOn, Zenon
<1>10. Uncommitted'
  <2>1. mark' = ""
    BY Zenon DEF Unmarked
  <2>. QED
    BY <2>1, KeepsUncommitted, Zenon
<1>. QED
  BY <1>3, <1>4, <1>5, <1>6, <1>7, <1>8, <1>9, <1>10, Zenon DEF Ready

----------------------------------------------------------------------------
(* The steps that end a stream                                             *)

LEMMA EndlessSeq == ASSUME NEW h \in Seq(Endless) PROVE h \in Seq(OutEvents)
<1>1. Endless \subseteq OutEvents
  BY EndlessSpeak
<1>. QED
  BY <1>1

\* A client that has not been told of an end.
LEMMA ReceiveTyped ==
    ASSUME Typed, Ready, NEW e, Takes(e)
    PROVE  Typed' /\ out' \in Seq(Endless) /\ mark' \in {"", "none", "failure"}
<1>1. /\ e \in UpEvents(up) /\ given' = Append(given, e) /\ given \in Seq(UpEvents(up))
      /\ up' = up /\ dst' = dst /\ up \in Protocols /\ dst \in Protocols
      /\ conv \in Converters /\ out \in Seq(Endless) /\ Endless \subseteq OutEvents
  BY EndlessSpeak, Zenon DEF Takes, Typed, Ready
<1>2. given' \in Seq(UpEvents(up'))
  BY <1>1, AppendGrows
<1>3. conv' \in Converters /\ out' \in Seq(Endless) /\ mark' \in {"", "none", "failure"}
  <2>1. CASE Holds(e)
    BY <1>1, <2>1, Zenon DEF Holds, Takes
  <2>2. CASE Fails(e)
    BY <1>1, <2>2 DEF Fails
  <2>3. CASE Passes(e)
    <3> DEFINE r == Burst(e)
               v == IF r.c.failed THEN "failure" ELSE ""
    <3>1. Converts(e, r)
      BY <1>1, BurstOf, Zenon DEF Ready
    <3>2. Deliver(r.w, r.c, v)
      BY <2>3, Zenon DEF Passes
    <3>3. v \in {"", "failure"}
      OBVIOUS
    <3> HIDE DEF r, v
    <3>4. r.w \in Seq(Endless) /\ r.c \in Converters
      BY <3>1, Zenon DEF Converts
    <3>5. /\ conv' = r.c
          /\ \E x \in Seq(Endless) : /\ out' = out \o x
                                     /\ mark' = v \/ mark' \in {"none", "failure"}
      BY <3>2, <3>4, EndlessSpeak, DeliveredIs
    <3>. QED
      <4>1. PICK x \in Seq(Endless) : out' = out \o x /\ (mark' = v \/ mark' \in {"none", "failure"})
        BY <3>5
      <4>2. out' \in Seq(Endless)
        BY <1>1, <4>1
      <4>3. mark' \in {"", "none", "failure"}
        BY <3>3, <4>1, Zenon
      <4>. QED
        BY <3>4, <3>5, <4>2, <4>3, Zenon
  <2>. QED
    BY <2>1, <2>2, <2>3, Zenon DEF Takes
<1>4. out' \in Seq(OutEvents)
  BY <1>3, EndlessSeq, Zenon
<1>. QED
  BY <1>1, <1>2, <1>3, <1>4, Zenon DEF Typed

\* What the emitter writes when a stream it was told is whole ends.
Farewell == OnComplete(dst, [e |-> conv.em, w |-> <<>>], conv.reason).w
Farewells(w) ==
    /\ w \in Seq(OutEvents) /\ Content(w) = <<>>
    /\ CutShort(w) <=> IF dst = "responses" THEN conv.reason = "length"
                       ELSE ~conv.em.finished /\ conv.reason \in CutReasons
    /\ dst # "messages" => \A u \in conv.em.usage : \E j \in 1..Len(w) : u \in w[j].u

LEMMA FarewellIs ==
    ASSUME Typed, Ready
    PROVE  Farewells(Farewell)
<1> DEFINE s0 == [e |-> conv.em, w |-> <<>>]
           w == Farewell
           cut == IF dst = "responses" THEN conv.reason = "length"
                  ELSE ~conv.em.finished /\ conv.reason \in CutReasons
           U == IF dst = "messages" THEN {} ELSE conv.em.usage
<1>1. s0 \in States /\ dst \in Protocols
  BY DEF Typed, States, Converters
<1>2. conv.reason \in FinishReasons
  BY Zenon DEF Ready, KnowsEnd
<1>3. CompletesAs(s0, w, IF dst = "responses" THEN conv.reason = "length"
                         ELSE ~s0.e.finished /\ conv.reason \in CutReasons)
  BY <1>1, <1>2, Completes DEF Farewell
<1> HIDE DEF w
<1>4. w \in Seq(OutEvents) /\ Closing(<<>>, w, cut, U)
  BY <1>3 DEF CompletesAs
<1> HIDE DEF cut, U
<1>5. PICK x \in Seq(OutEvents) : /\ w = <<>> \o x /\ Content(x) = <<>>
                                  /\ CutShort(x) <=> cut
                                  /\ \A u \in U : \E j \in 1..Len(x) : u \in x[j].u
  BY <1>4, Zenon DEF Closing
<1>6. w = x
  BY <1>5
<1>7. /\ Content(w) = <<>> /\ (CutShort(w) <=> cut)
      /\ \A u \in U : \E j \in 1..Len(w) : u \in w[j].u
  BY <1>5, <1>6, Zenon
<1>8. dst # "messages" => U = conv.em.usage
  BY DEF U
<1>9. Farewells(w)
  BY <1>4, <1>7, <1>8, Zenon DEF Farewells, cut
<1>. QED
  BY <1>9 DEF w

\* How the end of the body is taken: as a failure, or as the end of the answer,
\* whose last events the client may only hear in part.
LEMMA EndedIs ==
    ASSUME Typed, Ready, NEW how, SourceEnds(how)
    PROVE  /\ closed' = how /\ UNCHANGED <<up, dst, given>>
           /\ \/ mark' = "failure" /\ UNCHANGED <<conv, out>>
              \/ /\ conv.read # 0 /\ DecodesWhole(up, conv.seen, how)
                 /\ \E x \in Seq(OutEvents) :
                       /\ out' = out \o x /\ Content(x) = <<>>
                       /\ (x = Farewell /\ mark' = "success") \/ mark' \in {"none", "failure"}
<1> DEFINE whole == conv.read > 0 /\ DecodesWhole(up, conv.seen, how)
           c == [conv EXCEPT !.em = OnComplete(dst, [e |-> conv.em, w |-> <<>>], conv.reason).e]
           w == Farewell
<1>1. /\ closed' = how /\ UNCHANGED <<up, dst, given>>
      /\ IF whole THEN Deliver(w, c, "success")
         ELSE mark' = "failure" /\ UNCHANGED <<conv, out>>
  BY Zenon DEF SourceEnds, Farewell
<1>2. whole => conv.read # 0 /\ DecodesWhole(up, conv.seen, how)
  BY DEF Typed, Converters
<1>3. Farewells(w)
  BY FarewellIs
<1> HIDE DEF whole, c, w
<1>4. w \in Seq(OutEvents) /\ Content(w) = <<>>
  BY <1>3 DEF Farewells
<1>5. ASSUME Deliver(w, c, "success")
      PROVE  \E x \in Seq(OutEvents) :
                /\ out' = out \o x /\ Content(x) = <<>>
                /\ (x = w /\ mark' = "success") \/ mark' \in {"none", "failure"}
  <2>1. PICK x \in Seq(OutEvents) :
                /\ out' = out \o x /\ IsPrefix(Content(x), Content(w))
                /\ (x = w /\ mark' = "success") \/ mark' \in {"none", "failure"}
    BY <1>4, <1>5, OutSpeak, DeliveredIs
  <2> DEFINE d == Content(x)
  <2>2. d \in Seq(Speech) /\ IsPrefix(d, <<>>)
    BY <1>4, <2>1, OutSpeak, ContentType
  <2> HIDE DEF d
  <2>3. d = <<>>
    BY <2>2 DEF IsPrefix
  <2>. QED
    BY <2>1, <2>3 DEF d
<1>. QED
  BY <1>1, <1>2, <1>5, Zenon DEF w

LEMMA EndsTold ==
    ASSUME Typed, Ready, NEW how, SourceEnds(how)
    PROVE  EndingTold'
<1>1. SUFFICES ASSUME mark' = "success" PROVE EndingTold'
  BY DEF EndingTold, TruncationTold, UsageTold
<1> DEFINE w == Farewell
<1>2. /\ UNCHANGED <<up, dst, given>> /\ conv.read # 0
      /\ out' = out \o w
  BY <1>1, EndedIs
<1>3. Farewells(w)
  BY FarewellIs
<1> HIDE DEF w
<1>4. /\ w \in Seq(OutEvents)
      /\ CutShort(w) <=> IF dst = "responses" THEN conv.reason = "length"
                         ELSE ~conv.em.finished /\ conv.reason \in CutReasons
      /\ dst # "messages" => \A u \in conv.em.usage : \E j \in 1..Len(w) : u \in w[j].u
  BY <1>3 DEF Farewells
<1>5. out \in Seq(OutEvents) /\ dst \in Protocols /\ given \in Seq(UpEvents(up))
  BY DEF Typed
<1>6. CutShort(out') <=> CutShort(out) \/ CutShort(w)
  BY <1>2, <1>4, <1>5, CutConcat
<1>7. TruncationTold'
  <2>1. SUFFICES ASSUME ~(up = "messages" /\ dst = "responses"),
                        ~(up = "responses" /\ Sent(given, "item_done"))
                 PROVE  CutShort(out') <=> CutShort(given)
    BY <1>2 DEF TruncationTold
  <2>2. KnowsCut /\ KnowsEnd
    BY Zenon DEF Ready
  <2>3. CASE dst = "responses"
    <3>1. ~CutShort(out) /\ (conv.reason = "length" <=> CutShort(given))
      BY <2>1, <2>2, <2>3 DEF KnowsCut
    <3>. QED
      BY <1>4, <1>6, <2>3, <3>1
  <2>4. CASE dst # "responses"
    <3>1. CutShort(out) <=> CutShort(given)
      BY <2>1, <2>2, <2>4 DEF KnowsCut
    <3>2. conv.em.finished <=> conv.reason # ""
      BY <2>2, Zenon DEF KnowsEnd
    <3>3. "" \notin CutReasons
      BY Blank, Zenon
    <3>4. ~CutShort(w)
      BY <1>4, <2>4, <3>2, <3>3, Zenon
    <3>. QED
      BY <1>6, <3>1, <3>4
  <2>. QED
    BY <2>3, <2>4
<1>8. UsageTold'
  <2>1. ASSUME dst # "messages", NEW h \in DOMAIN given, NEW u \in Decode(up, given[h]).usage
        PROVE  \E j \in DOMAIN out' : u \in out'[j].u
    <3>1. h \in 1..Len(given)
      BY <1>5
    <3>2. u \in conv.em.usage
      BY <2>1, <3>1, Zenon DEF Ready, KnowsUsage
    <3>3. PICK j \in 1..Len(w) : u \in w[j].u
      BY <1>4, <2>1, <3>2
    <3>4. Len(out) + j \in DOMAIN (out \o w) /\ (out \o w)[Len(out) + j] = w[j]
      BY <1>4, <1>5
    <3> DEFINE i == Len(out) + j
    <3> HIDE DEF i
    <3>5. i \in DOMAIN out' /\ out'[i] = w[j]
      BY <1>2, <3>4 DEF i
    <3>. QED
      BY <3>3, <3>5
  <2>. QED
    BY <1>2, <2>1 DEF UsageTold
<1>. QED
  BY <1>7, <1>8 DEF EndingTold

LEMMA EndsUnheard ==
    ASSUME Typed, Ready, Rebuilt, NEW how, SourceEnds(how), dst = "chat" \/ up = dst,
           \A j \in 1..Len(given) : given[j].t \in Opening
    PROVE  out' = <<>>
<1>1. up \in Protocols /\ dst \in Protocols /\ given \in Seq(UpEvents(up))
  BY DEF Typed
<1>2. out = <<>>
  BY Zenon DEF Ready, Uncommitted
<1>3. up # "chat"
  BY <1>1 DEF Rebuilt, Protocols
<1>4. ASSUME DecodesWhole(up, conv.seen, how) PROVE FALSE
  <2>1. conv.seen
    BY <1>1, <1>3, <1>4
       DEF DecodesWhole, MessagesStreamDecoder, ResponsesStreamDecoder, Protocols
  <2>2. PICK j \in 1..Len(given) : Terminal(up, given[j])
    BY <2>1, Zenon DEF Ready, KnowsEnd
  <2>3. given[j].t # "failed"
    BY Zenon DEF Ready, Sent
  <2>4. given[j].t \in {"message_stop", "completed", "incomplete"}
    BY <1>1, <1>3, <2>2, <2>3
       DEF Terminal, MessagesTerminal, ResponsesTerminal, Protocols
  <2>. QED
    BY <2>4 DEF Opening
<1>5. UNCHANGED out
  BY <1>4, EndedIs, Zenon
<1>. QED
  BY <1>2, <1>5

----------------------------------------------------------------------------
(* The invariant of the composed specification                             *)

Inv == /\ route = "converted" => Rebuilt
       /\ Unmarked => Typed /\ Ready
       /\ EndingTold
       /\ FailsOverBeforeContent

LEMMA NoneBefore == 1..0 = {}
OBVIOUS

LEMMA StartReady ==
    ASSUME up \in Protocols, dst \in Protocols, given = <<>>, closed = "",
           conv = NewConverter, out = <<>>, mark = ""
    PROVE  Typed /\ Ready /\ EndingTold /\ FailsOverBeforeContent
<1>1. given \in Seq(UpEvents(up)) /\ out \in Seq(OutEvents) /\ out \in Seq(Endless)
  BY Zenon, EmptySeq
<1>2. /\ conv \in Converters /\ conv.reason = "" /\ conv.read = 0 /\ ~conv.seen
      /\ ~conv.em.finished /\ conv.em.usage = {}
  BY NewConverterType, Zenon
<1>3. Typed
  BY <1>1, <1>2, Zenon DEF Typed
<1>4. Len(given) = 0 /\ Len(out) = 0 /\ ~CutShort(given) /\ ~CutShort(out)
  BY CutNone, EmptySeq, Zenon
<1>5. 1..Len(given) = {}
  BY <1>4, NoneBefore, Zenon
<1>6. ReadsOn
  BY <1>2, <1>4, Zenon DEF ReadsOn
<1>7. KnowsEnd
  <2>1. "" \in FinishReasons
    BY Zenon DEF FinishReasons
  <2>. QED
    BY <1>2, <2>1, Zenon DEF KnowsEnd
<1>8. KnowsUsage
  BY <1>5, Zenon DEF KnowsUsage
<1>9. KnowsCut
  <2>1. "" # "length"
    BY Zenon
  <2>. QED
    BY <1>2, <1>4, <2>1, Zenon DEF KnowsCut
<1>10. Uncommitted
  BY <1>2, <1>5, Zenon DEF Uncommitted
<1>11. ~Sent(given, "failed") /\ Content(out) = Content(given)
  BY <1>5, Zenon DEF Sent
<1>12. Ready
  BY <1>1, <1>6, <1>7, <1>8, <1>9, <1>10, <1>11, Zenon DEF Ready
<1>13. "" # "success" /\ "" # "failure"
  BY Zenon
<1>14. EndingTold /\ FailsOverBeforeContent
  BY <1>13, Zenon DEF EndingTold, TruncationTold, UsageTold, FailsOverBeforeContent
<1>. QED
  BY <1>3, <1>12, <1>14, Zenon

LEMMA InitInv == ConversionInit => Inv
<1>1. ASSUME route = "converted", Init PROVE Inv
  <2>1. /\ up \in Protocols /\ dst \in Protocols /\ (up = dst => dst = "responses")
        /\ given = <<>> /\ closed = "" /\ conv = NewConverter /\ out = <<>> /\ mark = ""
    BY <1>1, Zenon DEF Init
  <2>2. Typed /\ Ready /\ EndingTold /\ FailsOverBeforeContent
    BY <2>1, StartReady, Zenon
  <2>. QED
    BY <2>1, <2>2, Zenon DEF Inv, Rebuilt
<1>2. ASSUME route # "converted", StreamIdle PROVE Inv
  <2>1. /\ up = "chat" /\ dst = "chat"
        /\ given = <<>> /\ closed = "" /\ conv = NewConverter /\ out = <<>> /\ mark = ""
    BY <1>2, Zenon DEF StreamIdle
  <2>2. "chat" \in Protocols
    BY Zenon DEF Protocols
  <2>3. Typed /\ Ready /\ EndingTold /\ FailsOverBeforeContent
    BY <2>1, <2>2, StartReady, Zenon
  <2>. QED
    BY <1>2, <2>3, Zenon DEF Inv
<1>3. "live" # "converted" /\ "messages" # "converted"
  OBVIOUS
<1>. QED
  BY <1>1, <1>2, <1>3, Zenon DEF ConversionInit

\* A step of the converter; the hypotheses hold of an open stream.
LEMMA NextInv ==
    ASSUME Typed, Ready, Rebuilt, Next
    PROVE  /\ Unmarked' => Typed' /\ Ready'
           /\ EndingTold' /\ FailsOverBeforeContent'
           /\ Rebuilt'
<1>1. ASSUME NEW e \in Sends(up, given, Tools), Receive([e EXCEPT !.n = Len(given) + 1])
      PROVE  /\ Unmarked' => Typed' /\ Ready'
             /\ EndingTold' /\ FailsOverBeforeContent'
             /\ Rebuilt'
  <2>1. PICK f : Takes(f) /\ InOrder(given, f)
    BY <1>1, Received, Zenon
  <2>2. Typed' /\ mark' \in {"", "none", "failure"}
    BY <2>1, ReceiveTyped, Zenon
  <2>3. Unmarked' => Ready'
    BY <2>1, KeepsReady, Zenon
  <2>4. EndingTold'
    BY <2>2, Zenon DEF EndingTold, TruncationTold, UsageTold
  <2>5. up' = up /\ dst' = dst
    BY <2>1, Zenon DEF Takes
  <2>6. FailsOverBeforeContent'
    <3>1. DOMAIN given' = 1..Len(given')
      <4>1. given' \in Seq(UpEvents(up'))
        BY <2>2, Zenon DEF Typed
      <4>. QED
        BY <4>1
    <3>2. (dst = "chat" \/ up = dst) /\ (\A j \in 1..Len(given') : given'[j].t \in Opening)
            => out' = <<>>
      BY <2>1, OpeningUnheard, Zenon
    <3>. QED
      BY <2>5, <3>1, <3>2, Zenon DEF FailsOverBeforeContent, Opening
  <2>. QED
    BY <2>2, <2>3, <2>4, <2>5, <2>6, Zenon DEF Rebuilt
<1>2. ASSUME NEW how \in {"done", "eof"}, SourceEnds(how)
      PROVE  /\ Unmarked' => Typed' /\ Ready'
             /\ EndingTold' /\ FailsOverBeforeContent'
             /\ Rebuilt'
  <2>1. UNCHANGED <<up, dst, given>> /\ mark' \in {"success", "none", "failure"}
    BY <1>2, EndedIs
  <2>2. ~Unmarked'
    BY <2>1, Zenon DEF Unmarked
  <2>3. EndingTold'
    BY <1>2, EndsTold, Zenon
  <2>4. FailsOverBeforeContent'
    <3>1. DOMAIN given = 1..Len(given)
      BY DEF Typed
    <3>2. (dst = "chat" \/ up = dst) /\ (\A j \in 1..Len(given) : given[j].t \in Opening)
            => out' = <<>>
      BY <1>2, EndsUnheard, Zenon
    <3>. QED
      BY <2>1, <3>1, <3>2 DEF FailsOverBeforeContent, Opening
  <2>. QED
    BY <2>1, <2>2, <2>3, <2>4 DEF Rebuilt
<1>3. ASSUME SourceBreaks \/ ClientCancels
      PROVE  /\ Unmarked' => Typed' /\ Ready'
             /\ EndingTold' /\ FailsOverBeforeContent'
             /\ Rebuilt'
  <2>1. UNCHANGED <<up, dst, given, conv, out>> /\ mark' \in {"none", "failure"}
    BY <1>3, Zenon DEF SourceBreaks, ClientCancels
  <2>2. ~Unmarked'
    BY <2>1, Zenon DEF Unmarked
  <2>3. EndingTold'
    BY <2>1, Zenon DEF EndingTold, TruncationTold, UsageTold
  <2>4. FailsOverBeforeContent'
    <3>1. DOMAIN given = 1..Len(given)
      BY DEF Typed
    <3>2. (dst = "chat" \/ up = dst) /\ (\A j \in 1..Len(given) : given[j].t \in Opening)
            => out = <<>>
      BY Zenon DEF Ready, Uncommitted
    <3>. QED
      BY <2>1, <3>1, <3>2 DEF FailsOverBeforeContent, Opening
  <2>. QED
    BY <2>1, <2>2, <2>3, <2>4 DEF Rebuilt
<1>. QED
  BY <1>1, <1>2, <1>3, Zenon DEF Next

LEMMA StepInv ==
    Inv /\ [ConversionNext]_<<vars, liveVars, messageVars, route>> => Inv'
<1> SUFFICES ASSUME Inv, [ConversionNext]_<<vars, liveVars, messageVars, route>>
             PROVE  Inv'
  OBVIOUS
<1>1. ASSUME UNCHANGED vars, UNCHANGED route PROVE Inv'
  <2>1. UNCHANGED <<up, dst, given, closed, conv, out, mark, route>>
    BY <1>1 DEF vars
  <2>2. Typed' = Typed /\ Ready' = Ready /\ Unmarked' = Unmarked
    <3>1. Typed' = Typed /\ Unmarked' = Unmarked
      BY <2>1, Zenon DEF Typed, Unmarked
    <3>2. Ready' = Ready
      BY <2>1, Zenon DEF Ready, ReadsOn, Held, KnowsEnd, KnowsUsage, KnowsCut, Uncommitted
    <3>. QED
      BY <3>1, <3>2
  <2>3. EndingTold' = EndingTold
    BY <2>1, Zenon DEF EndingTold, TruncationTold, UsageTold
  <2>4. FailsOverBeforeContent' = FailsOverBeforeContent
    BY <2>1, Zenon DEF FailsOverBeforeContent
  <2>5. (route = "converted" => Rebuilt)'
    BY <2>1, Zenon DEF Inv, Rebuilt
  <2>. QED
    BY <2>2, <2>3, <2>4, <2>5, Zenon DEF Inv
<1>2. ASSUME route = "converted", Next, UNCHANGED route PROVE Inv'
  <2>1. Unmarked
    BY <1>2, Zenon DEF Unmarked, Next, Receive, SourceEnds, SourceBreaks, ClientCancels
  <2>2. Typed /\ Ready /\ Rebuilt
    BY <1>2, <2>1, Zenon DEF Inv
  <2>. QED
    BY <1>2, <2>2, NextInv, Zenon DEF Inv
<1>3. CASE ConversionNext
  BY <1>1, <1>2, <1>3, Zenon DEF ConversionNext
<1>4. CASE UNCHANGED <<vars, liveVars, messageVars, route>>
  BY <1>1, <1>4, Zenon
<1>. QED
  BY <1>3, <1>4

\* A stream that fails before it said anything is not committed, so that the
\* caller can still fail over (stream_convert.go P0-2, firstEventWriter).
THEOREM FailsOver == ConversionSpec => []FailsOverBeforeContent
<1>1. Inv => FailsOverBeforeContent
  BY DEF Inv
<1>. QED
  BY <1>1, InitInv, StepInv, PTL DEF ConversionSpec

\* An answer that ends well tells the client whether it was cut at the token
\* limit, and what the upstream counted (the emitters' onFinish and onComplete).
THEOREM EndsAsTold == ConversionSpec => []EndingTold
<1>1. Inv => EndingTold
  BY DEF Inv
<1>. QED
  BY <1>1, InitInv, StepInv, PTL DEF ConversionSpec

----------------------------------------------------------------------------
(* The refinement of AnswerRelay                                           *)

LEMMA PrefixElements ==
    ASSUME NEW S, NEW b \in Seq(S), NEW c \in Seq(S)
    PROVE  IsPrefix(b, c) <=> /\ Len(b) <= Len(c)
                              /\ \A j \in 1..Len(b) : b[j] = c[j]
<1> DEFINE n == Len(b)
           m == Len(c)
           d == SubSeq(c, 1, n)
<1>1. n \in Nat /\ m \in Nat /\ \A j \in 1..m : c[j] \in S
  OBVIOUS
<1>2. SubSeq(b, 1, n) = b
  BY SubSeqFull
<1>3. ASSUME n <= m PROVE d \in Seq(S) /\ Len(d) = n /\ \A j \in 1..n : d[j] = c[j]
  BY <1>1, <1>3
<1>4. IsPrefix(b, c) <=> n <= m /\ b = d
  BY <1>2 DEF IsPrefix
<1> HIDE DEF d
<1>5. ASSUME n <= m, \A j \in 1..n : b[j] = c[j] PROVE b = d
  <2>1. d \in Seq(S) /\ Len(d) = n /\ \A j \in 1..n : b[j] = d[j]
    BY <1>3, <1>5
  <2>. QED
    BY <2>1, SeqEqual
<1>6. ASSUME n <= m, b = d PROVE \A j \in 1..n : b[j] = c[j]
  BY <1>3, <1>6
<1>. QED
  BY <1>4, <1>5, <1>6

LEMMA PrefixConcat ==
    ASSUME NEW S, NEW a \in Seq(S), NEW b \in Seq(S)
    PROVE  IsPrefix(a, a \o b)
BY DEF IsPrefix

LEMMA PrefixMore ==
    ASSUME NEW S, NEW a \in Seq(S), NEW b \in Seq(S), NEW c \in Seq(S), IsPrefix(b, c)
    PROVE  IsPrefix(a \o b, a \o c)
<1> DEFINE p == a \o b
           q == a \o c
<1>1. Len(b) <= Len(c) /\ \A j \in 1..Len(b) : b[j] = c[j]
  BY PrefixElements
<1>2. /\ p \in Seq(S) /\ q \in Seq(S) /\ Len(p) = Len(a) + Len(b) /\ Len(q) = Len(a) + Len(c)
      /\ \A j \in 1..Len(p) : p[j] = IF j <= Len(a) THEN a[j] ELSE b[j - Len(a)]
      /\ \A j \in 1..Len(q) : q[j] = IF j <= Len(a) THEN a[j] ELSE c[j - Len(a)]
  BY ConcatProperties
<1>3. Len(p) <= Len(q)
  BY <1>1, <1>2
<1>4. ASSUME NEW j \in 1..Len(p) PROVE p[j] = q[j]
  <2>1. j \in 1..Len(q)
    BY <1>3, <1>2
  <2>2. CASE j <= Len(a)
    BY <1>2, <2>1, <2>2
  <2>3. CASE ~(j <= Len(a))
    <3>1. j - Len(a) \in 1..Len(b)
      BY <1>2, <2>3
    <3>. QED
      BY <1>1, <1>2, <2>1, <2>3, <3>1
  <2>. QED
    BY <2>2, <2>3
<1> HIDE DEF p, q
<1>5. IsPrefix(p, q)
  BY <1>2, <1>3, <1>4, PrefixElements
<1>. QED
  BY <1>5 DEF p, q

Source == IF SourceWhole THEN "whole"
          ELSE IF closed = "" /\ ~Sent(given, "failed") THEN "open" ELSE "cut"
Told == IF \E j \in DOMAIN out : EndMarker(out[j]) THEN "whole"
        ELSE IF mark = "" THEN "open" ELSE "cut"

LEMMA NoMarker ==
    ASSUME dst \in Protocols, out \in Seq(Endless)
    PROVE  ~\E j \in DOMAIN out : EndMarker(out[j])
<1>1. \A j \in DOMAIN out : out[j].t \notin Endings
  BY DEF Endless
<1>. QED
  BY <1>1 DEF EndMarker, Endings, Protocols

\* Relay and End of AnswerRelay, under the refinement mapping.
Relays ==
    /\ Told = "open"
    /\ IsPrefix(Content(given), Content(given'))
    /\ \/ Told' = "open" /\ Content(out') = Content(given')
       \/ /\ Told' = "cut"
          /\ IsPrefix(Content(out), Content(out')) /\ IsPrefix(Content(out'), Content(given'))
    /\ Source' \in {Source, "whole", "cut"}
EndsAnswer ==
    /\ Told = "open"
    /\ Told' \in {"whole", "cut"} /\ Source' \in {Source, "whole", "cut"}
    /\ Told' = "whole" => Source' = "whole" /\ Content(out) = Content(given)
    /\ Content(given') = Content(given) /\ Content(out') = Content(out)

LEMMA OpenTold ==
    ASSUME dst \in Protocols, out \in Seq(Endless)
    PROVE  Told = IF mark = "" THEN "open" ELSE "cut"
BY NoMarker, Zenon DEF Told

LEMMA OpenToldNext ==
    ASSUME dst' \in Protocols, out' \in Seq(Endless)
    PROVE  Told' = IF mark' = "" THEN "open" ELSE "cut"
<1>1. \A j \in DOMAIN out' : out'[j].t \notin Endings
  BY DEF Endless
<1>2. (~\E j \in DOMAIN out : EndMarker(out[j]))'
  BY <1>1 DEF EndMarker, Endings, Protocols
<1>. QED
  BY <1>2, Zenon DEF Told

LEMMA SourceMoves ==
    ASSUME Typed, Ready, NEW f, Takes(f)
    PROVE  Source' \in {Source, "whole", "cut"}
<1>1. /\ f \in UpEvents(up) /\ given' = Append(given, f) /\ given \in Seq(UpEvents(up))
      /\ up' = up /\ closed' = closed /\ closed = ""
  BY Zenon DEF Takes, Typed
<1>2. Grows(given', given, f)
  BY <1>1, AppendGrows, Zenon
<1>3. Source \in {"open", "whole", "cut"} /\ Source' \in {"open", "whole", "cut"}
  BY Zenon DEF Source
<1>4. ASSUME Source = "whole" PROVE Source' # "open"
  <2>1. SourceWhole
    <3>1. "whole" # "open" /\ "whole" # "cut"
      BY ONLY TRUE
    <3>. QED
      BY <1>4, <3>1, Zenon DEF Source
  <2>2. "" # "done"
    BY ONLY TRUE
  <2>3. PICK j \in DOMAIN given : Terminal(up, given[j])
    BY <1>1, <2>1, <2>2, Zenon DEF SourceWhole
  <2>4. DOMAIN given = 1..Len(given) /\ DOMAIN given' = 1..Len(given')
    <3>1. given' \in Seq(UpEvents(up))
      BY <1>1, AppendGrows, Zenon
    <3>. QED
      BY <3>1, <1>1, LenProperties, Zenon
  <2>5. j \in DOMAIN given' /\ given'[j] = given[j]
    BY <1>2, <2>3, <2>4, Zenon DEF Grows
  <2>6. \E i \in DOMAIN given' : Terminal(up', given'[i])
    BY <1>1, <2>3, <2>5, Zenon
  <2>7. "whole" # "open" /\ "cut" # "open"
    BY ONLY TRUE
  <2>. QED
    BY <2>6, <2>7, Zenon DEF Source, SourceWhole
<1>5. Source \in {"open", "whole"}
  BY <1>1, Zenon DEF Source, Ready
<1>. QED
  BY <1>3, <1>4, <1>5, Zenon

LEMMA TakesRelays ==
    ASSUME Typed, Ready, Rebuilt, NEW f, Takes(f), InOrder(given, f)
    PROVE  Relays
<1>1. /\ f \in UpEvents(up) /\ given' = Append(given, f) /\ given \in Seq(UpEvents(up))
      /\ up \in Protocols /\ dst \in Protocols /\ dst' = dst /\ mark = ""
      /\ out \in Seq(Endless) /\ Content(out) = Content(given)
  BY Zenon DEF Takes, Typed, Ready
<1>2. out' \in Seq(Endless) /\ mark' \in {"", "none", "failure"}
  BY ReceiveTyped, Zenon
<1>3. Told = "open" /\ Told' = IF mark' = "" THEN "open" ELSE "cut"
  <2>1. Told = "open"
    BY <1>1, OpenTold, Zenon
  <2>2. dst' \in Protocols
    BY <1>1, Zenon
  <2>. QED
    BY <1>2, <2>1, <2>2, OpenToldNext, Zenon
<1>4. Source' \in {Source, "whole", "cut"}
  BY SourceMoves, Zenon
<1> DEFINE a == Content(given)
           p == PieceOf(f)
<1>5. a \in Seq(Speech) /\ p \in Seq(Speech) /\ Content(given') = a \o p
  <2>1. Speak(UpEvents(up))
    BY <1>1, UpSpeak, Zenon
  <2>2. Content(given') = a \o p
    BY <1>1, <2>1, ContentGrows, Zenon
  <2>3. a \in Seq(Speech)
    BY <1>1, <2>1, ContentType, Zenon
  <2>4. p \in Seq(Speech)
    BY <1>1, PieceType, Zenon
  <2>. QED
    BY <2>2, <2>3, <2>4, Zenon
<1>6. IsPrefix(Content(given), Content(given'))
  <2> HIDE DEF a, p
  <2>1. IsPrefix(a, a \o p)
    BY <1>5, PrefixConcat, Zenon
  <2>. QED
    BY <1>5, <2>1, Zenon DEF a
<1>7. CASE mark' = ""
  <2>1. Content(out') = Content(given')
    <3>1. Ready'
      BY <1>7, KeepsReady, Zenon DEF Unmarked
    <3>. QED
      BY <3>1, Zenon DEF Ready
  <2>. QED
    BY <1>3, <1>4, <1>6, <1>7, <2>1, Zenon DEF Relays
<1>8. CASE mark' # ""
  <2>1. \E x \in Seq(Endless) : out' = out \o x /\ IsPrefix(Content(x), p)
    <3>1. ASSUME out' = out PROVE \E x \in Seq(Endless) : out' = out \o x /\ IsPrefix(Content(x), p)
      <4>1. <<>> \in Seq(Endless)
        BY EmptySeq, Zenon
      <4>2. out' = out \o <<>>
        BY <1>1, <3>1, ConcatEmptySeq, Zenon
      <4>3. IsPrefix(<<>>, p)
        <5> HIDE DEF p
        <5>1. <<>> \in Seq(Speech) /\ <<>> \o p = p
          BY <1>5, EmptySeq, ConcatEmptySeq, Zenon
        <5>2. IsPrefix(<<>>, <<>> \o p)
          BY <1>5, <5>1, PrefixConcat, Zenon
        <5>. QED
          BY <5>1, <5>2, Zenon
      <4>. QED
        BY <4>1, <4>2, <4>3, ContentEmpty, Zenon
    <3>2. ASSUME Passes(f) PROVE \E x \in Seq(Endless) : out' = out \o x /\ IsPrefix(Content(x), p)
      <4> DEFINE r == Burst(f)
                 v == IF r.c.failed THEN "failure" ELSE ""
      <4>1. Converts(f, r)
        <5>1. ReadsOn
          BY Zenon DEF Ready
        <5>. QED
          BY <1>1, <5>1, BurstOf, Zenon
      <4>2. Deliver(r.w, r.c, v)
        BY <3>2, Zenon DEF Passes
      <4> HIDE DEF r, v
      <4>3. r.w \in Seq(Endless) /\ Content(r.w) = p
        BY <4>1, Zenon DEF Converts
      <4>4. \E x \in Seq(Endless) : out' = out \o x /\ IsPrefix(Content(x), Content(r.w))
        <5>1. Speak(Endless)
          BY EndlessSpeak, Zenon
        <5>. QED
          BY <4>2, <4>3, <5>1, DeliveredIs, Zenon
      <4>. QED
        BY <4>3, <4>4, Zenon
    <3>3. out' = out \/ Passes(f)
      BY Zenon DEF Takes, Holds, Fails
    <3>. QED
      BY <3>1, <3>2, <3>3, Zenon
  <2>2. PICK x \in Seq(Endless) : out' = out \o x /\ IsPrefix(Content(x), p)
    BY <2>1, Zenon
  <2> DEFINE c == Content(x)
  <2>3. c \in Seq(Speech) /\ Content(out') = a \o c
    <3>1. Speak(Endless)
      BY EndlessSpeak, Zenon
    <3>2. Content(out \o x) = Content(out) \o c
      BY <1>1, <2>2, <3>1, ContentConcat, Zenon
    <3>3. c \in Seq(Speech)
      BY <2>2, <3>1, ContentType, Zenon
    <3>. QED
      BY <1>1, <2>2, <3>2, <3>3, Zenon
  <2>4. IsPrefix(Content(out), Content(out')) /\ IsPrefix(Content(out'), Content(given'))
    <3> HIDE DEF a, p, c
    <3>1. IsPrefix(a, a \o c)
      BY <1>5, <2>3, PrefixConcat, Zenon
    <3>2. IsPrefix(c, p)
      BY <2>2, Zenon DEF c
    <3>3. IsPrefix(a \o c, a \o p)
      BY <1>5, <2>3, <3>2, PrefixMore, Zenon
    <3>. QED
      BY <1>1, <1>5, <2>3, <3>1, <3>3, Zenon DEF a
  <2>. QED
    BY <1>3, <1>4, <1>6, <1>8, <2>4, Zenon DEF Relays
<1>. QED
  BY <1>7, <1>8, Zenon

\* A stream the decoder finds whole is one the upstream ended.
LEMMA WholeSource ==
    ASSUME Typed, Ready, NEW how, DecodesWhole(up, conv.seen, how),
           closed' = how, UNCHANGED <<up, dst, given>>
    PROVE  Source' = "whole"
<1>1. up \in Protocols /\ given \in Seq(UpEvents(up)) /\ ~Sent(given, "failed")
  BY Zenon DEF Typed, Ready
<1>2. conv.seen => \E j \in DOMAIN given : Terminal(up, given[j])
  <2>1. DOMAIN given = 1..Len(given)
    BY <1>1, LenProperties, Zenon
  <2>. QED
    BY <2>1, Zenon DEF Ready, KnowsEnd
<1>3. conv.seen \/ (up = "chat" /\ how = "done")
  BY <1>1, Zenon DEF DecodesWhole, ChatStreamDecoder, MessagesStreamDecoder,
                     ResponsesStreamDecoder, Protocols
<1>4. SourceWhole'
  BY <1>1, <1>2, <1>3, Zenon DEF SourceWhole
<1>. QED
  BY <1>4, Zenon DEF Source

LEMMA EndsRelay ==
    ASSUME Typed, Ready,
           (\E how \in {"done", "eof"} : SourceEnds(how)) \/ SourceBreaks \/ ClientCancels
    PROVE  EndsAnswer
<1>1. /\ up \in Protocols /\ dst \in Protocols /\ out \in Seq(Endless)
      /\ Content(out) = Content(given)
  BY Zenon DEF Typed, Ready
<1>2. Told = "open"
  <2>1. mark = ""
    BY Zenon DEF SourceEnds, SourceBreaks, ClientCancels
  <2>. QED
    BY <1>1, <2>1, OpenTold, Zenon
<1>3. /\ UNCHANGED <<up, dst, given>>
      /\ mark' \in {"success", "none", "failure"}
      /\ closed' \in {"done", "eof", "broken", "canceled"}
      /\ \/ UNCHANGED out
         \/ /\ Source' = "whole"
            /\ \E x \in Seq(OutEvents) : out' = out \o x /\ Content(x) = <<>>
  <2>1. ASSUME NEW how \in {"done", "eof"}, SourceEnds(how)
        PROVE  /\ UNCHANGED <<up, dst, given>>
               /\ mark' \in {"success", "none", "failure"}
               /\ closed' \in {"done", "eof", "broken", "canceled"}
               /\ \/ UNCHANGED out
                  \/ /\ Source' = "whole"
                     /\ \E x \in Seq(OutEvents) : out' = out \o x /\ Content(x) = <<>>
    <3>1. /\ closed' = how /\ UNCHANGED <<up, dst, given>>
          /\ \/ mark' = "failure" /\ UNCHANGED <<conv, out>>
             \/ /\ conv.read # 0 /\ DecodesWhole(up, conv.seen, how)
                /\ \E x \in Seq(OutEvents) :
                      /\ out' = out \o x /\ Content(x) = <<>>
                      /\ (x = Farewell /\ mark' = "success") \/ mark' \in {"none", "failure"}
      BY <2>1, EndedIs, Zenon
    <3>2. DecodesWhole(up, conv.seen, how) => Source' = "whole"
      BY <3>1, WholeSource, Zenon
    <3>. QED
      BY <3>1, <3>2, Zenon
  <2>2. ASSUME SourceBreaks \/ ClientCancels
        PROVE  /\ UNCHANGED <<up, dst, given, out>>
               /\ mark' \in {"success", "none", "failure"}
               /\ closed' \in {"done", "eof", "broken", "canceled"}
    BY <2>2, Zenon DEF SourceBreaks, ClientCancels
  <2>. QED
    BY <2>1, <2>2, Zenon
<1>4. "" \notin {"success", "none", "failure"} /\ "" \notin {"done", "eof", "broken", "canceled"}
  BY ONLY TRUE
<1>5. Told' \in {"whole", "cut"}
  BY <1>3, <1>4, Zenon DEF Told
<1>6. Source' \in {"whole", "cut"}
  BY <1>3, <1>4, Zenon DEF Source
<1>7. Told' = "whole" => Source' = "whole"
  <2>1. CASE UNCHANGED out
    <3>1. dst' \in Protocols /\ out' \in Seq(Endless)
      BY <1>1, <1>3, <2>1, Zenon
    <3>2. Told' = IF mark' = "" THEN "open" ELSE "cut"
      BY <3>1, OpenToldNext, Zenon
    <3>3. "cut" # "whole"
      BY ONLY TRUE
    <3>. QED
      BY <1>3, <1>4, <3>2, <3>3, Zenon
  <2>2. CASE Source' = "whole"
    BY <2>2
  <2>. QED
    BY <1>3, <2>1, <2>2, Zenon
<1>8. Content(out') = Content(out)
  <2>1. ASSUME NEW x \in Seq(OutEvents), out' = out \o x, Content(x) = <<>>
        PROVE  Content(out') = Content(out)
    <3>1. out \in Seq(OutEvents) /\ Speak(OutEvents)
      BY <1>1, EndlessSeq, OutSpeak, Zenon
    <3>2. Content(out') = Content(out) \o <<>>
      BY <2>1, <3>1, ContentConcat, Zenon
    <3>3. Content(out) \in Seq(Speech)
      BY <3>1, ContentType, Zenon
    <3>. QED
      BY <3>2, <3>3, ConcatEmptySeq, Zenon
  <2>. QED
    BY <1>3, <2>1, Zenon
<1>9. Content(given') = Content(given)
  BY <1>3, Zenon
<1>. QED
  BY <1>1, <1>2, <1>5, <1>6, <1>7, <1>8, <1>9, Zenon DEF EndsAnswer

LEMMA StepRelays ==
    Inv /\ [ConversionNext]_<<vars, liveVars, messageVars, route>>
      => Relays \/ EndsAnswer
         \/ UNCHANGED <<Content(given), Content(out), Source, Told>>
<1> SUFFICES ASSUME Inv, [ConversionNext]_<<vars, liveVars, messageVars, route>>
             PROVE  Relays \/ EndsAnswer
                    \/ UNCHANGED <<Content(given), Content(out), Source, Told>>
  OBVIOUS
<1>1. ASSUME UNCHANGED vars PROVE UNCHANGED <<Content(given), Content(out), Source, Told>>
  <2>1. UNCHANGED <<up, dst, given, closed, conv, out, mark>>
    BY <1>1 DEF vars
  <2>2. Source' = Source
    BY <2>1, Zenon DEF Source, SourceWhole
  <2>3. Told' = Told
    BY <2>1, Zenon DEF Told, EndMarker
  <2>. QED
    BY <2>1, <2>2, <2>3, Zenon
<1>2. ASSUME route = "converted", Next PROVE Relays \/ EndsAnswer
  <2>1. Unmarked
    BY <1>2, Zenon DEF Unmarked, Next, Receive, SourceEnds, SourceBreaks, ClientCancels
  <2>2. Typed /\ Ready /\ Rebuilt
    BY <1>2, <2>1, Zenon DEF Inv
  <2>3. ASSUME NEW e \in Sends(up, given, Tools), Receive([e EXCEPT !.n = Len(given) + 1])
        PROVE  Relays
    <3>1. PICK f : Takes(f) /\ InOrder(given, f)
      BY <2>2, <2>3, Received, Zenon
    <3>. QED
      BY <2>2, <3>1, TakesRelays, Zenon
  <2>. QED
    BY <1>2, <2>2, <2>3, EndsRelay, Zenon DEF Next
<1>. QED
  BY <1>1, <1>2, Zenon DEF ConversionNext

LEMMA InitRelays ==
    ASSUME given = <<>>, out = <<>>, closed = "", mark = ""
    PROVE  Content(given) = <<>> /\ Content(out) = <<>> /\ Source = "open" /\ Told = "open"
<1>1. DOMAIN given = {} /\ 1..Len(given) = {} /\ DOMAIN out = {}
  <2>1. Len(<<>>) = 0 /\ <<>> \in Seq({})
    BY EmptySeq, Zenon
  <2>2. DOMAIN <<>> = 1..Len(<<>>)
    BY <2>1, LenProperties, Zenon
  <2>. QED
    BY <2>1, <2>2, NoneBefore, Zenon
<1>2. "" # "done"
  BY ONLY TRUE
<1>3. ~SourceWhole /\ ~Sent(given, "failed")
  BY <1>1, <1>2, Zenon DEF SourceWhole, Sent
<1>. QED
  BY <1>1, <1>3, ContentEmpty, Zenon DEF Source, Told

LEMMA SamePrefix == ASSUME NEW a, NEW b PROVE Answer!IsPrefix(a, b) <=> IsPrefix(a, b)
BY DEF Answer!IsPrefix, IsPrefix

\* The converter implements AnswerRelay: whatever the two protocols, the client
\* hears exactly what the upstream says, in its order, and hears that the answer
\* is whole only after an upstream that ended it (stream_convert.go P0-1, P0-3).
THEOREM Relayed == ConversionSpec => RelaysAnswer
<1>1. ConversionInit => Answer!AnswerInit
  <2>1. ConversionInit => given = <<>> /\ out = <<>> /\ closed = "" /\ mark = ""
    BY Zenon DEF ConversionInit, Init, StreamIdle
  <2>. QED
    BY <2>1, InitRelays, Zenon DEF Answer!AnswerInit, Source, Told
<1>2. Relays => Answer!Relay
  BY SamePrefix, Zenon DEF Relays, Answer!Relay, Source, Told
<1>3. EndsAnswer => Answer!End
  BY Zenon DEF EndsAnswer, Answer!End, Source, Told
<1>4. Inv /\ [ConversionNext]_<<vars, liveVars, messageVars, route>>
        => [Answer!Relay \/ Answer!End]_<<Content(given), Content(out), Source, Told>>
  BY <1>2, <1>3, StepRelays, Zenon
<1>. QED
  BY <1>1, <1>4, InitInv, StepInv, PTL
     DEF ConversionSpec, RelaysAnswer, Answer!AnswerSpec, Source, Told
=============================================================================
