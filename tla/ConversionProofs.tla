-------------------------- MODULE ConversionProofs --------------------------
(***************************************************************************)
(* Proofs about the other two routes of Conversion. A live relay judges a  *)
(* key by the lines and not by the chunks they come in. A Chat upstream    *)
(* gets a history in which tool calls and outputs pair up.                 *)
(***************************************************************************)
EXTENDS Conversion, RecursionLemmas

----------------------------------------------------------------------------
(* Sequences put end to end                                                *)

LEMMA NoneLeft ==
    ASSUME NEW T
    PROVE  /\ <<>> \in Seq(T) /\ Len(<<>>) = 0
           /\ \A a \in Seq(T) : <<>> \o a = a /\ a \o <<>> = a
OBVIOUS

LEMMA FlattenIsFold ==
    ASSUME NEW T, NEW s \in Seq(Seq(T))
    PROVE  \E f : /\ f[0] = <<>>
                  /\ \A j \in 1..Len(s) : f[j] = f[j - 1] \o s[j]
                  /\ \A j \in 0..Len(s) : f[j] \in Seq(T)
                  /\ Message!FlattenSeq(s) = f[Len(s)]
<1> DEFINE m == Len(s)
           S == Seq(T)
           z == <<>>
           R(f) == f = [i \in 1..m |-> IF i = 1 THEN s[i] ELSE f[i - 1] \o s[i]]
           t == [x \in (1..m) \X S |-> x[2] \o s[x[1]]]
           h == CHOOSE f : R(f)
           g == [j \in 0..m |-> IF j = 0 THEN z ELSE h[j]]
<1>1. m \in Nat /\ z \in S /\ \A j \in 1..m : s[j] \in S
  OBVIOUS
<1>2. \A a \in S, b \in S : a \o b \in S
  OBVIOUS
<1>3. \A a \in S : z \o a = a
  OBVIOUS
<1>4. Message!FlattenSeq(s) = IF m = 0 THEN s ELSE h[m]
  BY Zenon DEF Message!FlattenSeq
<1>5. m = 0 => s = z
  OBVIOUS
<1> HIDE DEF m, S, z, h
<1>6. \E f : R(f)
  <2>1. t \in Steps(S, m)
    BY <1>1, <1>2 DEF Steps
  <2>2. PICK f : Recursive(f, S, z, m, t)
    <3> HIDE DEF t
    <3>. QED
      BY <1>1, <2>1, RecursionExists
  <2>3. f \in [0..m -> S] /\ \A j \in 0..m : f[j] = IF j = 0 THEN z ELSE t[<<j, f[j - 1]>>]
    BY <2>2, Zenon DEF Recursive
  <2>4. ASSUME NEW j \in 1..m PROVE f[j] = f[j - 1] \o s[j] /\ f[j - 1] \in S
    <3>1. j \in 0..m /\ j # 0 /\ j - 1 \in 0..m
      BY <1>1
    <3>2. f[j - 1] \in S
      BY <2>3, <3>1
    <3>3. t[<<j, f[j - 1]>>] = f[j - 1] \o s[j]
      BY <3>2
    <3>. QED
      BY <2>3, <3>1, <3>2, <3>3, Zenon
  <2>5. f[0] = z
    <3>1. 0 \in 0..m
      BY <1>1
    <3>. QED
      BY <2>3, <3>1, Zenon
  <2> DEFINE e == [i \in 1..m |-> f[i]]
  <2>6. ASSUME NEW i \in 1..m PROVE e[i] = IF i = 1 THEN s[i] ELSE e[i - 1] \o s[i]
    <3>1. e[i] = f[i]
      OBVIOUS
    <3>2. CASE i = 1
      <4>0. i - 1 = 0
        BY <3>2
      <4>1. f[i] = f[0] \o s[i]
        BY <2>4, <4>0, Zenon
      <4>. QED
        BY <1>1, <1>3, <2>5, <3>1, <3>2, <4>1
    <3>3. CASE i # 1
      <4>1. i - 1 \in 1..m
        BY <1>1, <3>3
      <4>2. e[i - 1] = f[i - 1]
        BY <4>1
      <4> HIDE DEF e
      <4>. QED
        BY <2>4, <3>1, <3>3, <4>2, Zenon
    <3>. QED
      BY <3>2, <3>3
  <2>7. e = [i \in 1..m |-> e[i]]
    OBVIOUS
  <2> HIDE DEF e
  <2>8. R(e)
    BY <2>6, <2>7, Zenon
  <2>. QED
    BY <2>8, Zenon
<1>7. R(h)
  BY <1>6, Zenon DEF h
<1>8. \A i \in 1..m : h[i] = IF i = 1 THEN s[i] ELSE h[i - 1] \o s[i]
  BY <1>7, Zenon
<1>9. g[0] = z
  BY <1>1
<1>10. ASSUME NEW j \in 1..m PROVE g[j] = g[j - 1] \o s[j]
  <2>1. j \in 0..m /\ j # 0 /\ j - 1 \in 0..m /\ (j = 1 => j - 1 = 0) /\ (j # 1 => j - 1 # 0)
    BY <1>1
  <2>2. g[j] = h[j]
    BY <2>1
  <2>3. g[j - 1] = IF j = 1 THEN z ELSE h[j - 1]
    BY <2>1
  <2> HIDE DEF g
  <2>4. CASE j = 1
    BY <1>1, <1>3, <1>8, <2>2, <2>3, <2>4
  <2>5. CASE j # 1
    BY <1>8, <2>2, <2>3, <2>5, Zenon
  <2>. QED
    BY <2>4, <2>5
<1>11. m # 0 => g[m] = h[m]
  BY <1>1
<1> HIDE DEF g
<1>12. ASSUME NEW n \in 0..m PROVE g[n] \in S
  <2>1. n \in Nat
    BY <1>1
  <2>2. ASSUME NEW j \in 1..n, g[j - 1] \in S PROVE g[j] \in S
    <3>1. j \in 1..m
      BY <1>1
    <3>. QED
      BY <1>1, <1>2, <1>10, <2>2, <3>1
  <2>. QED
    BY <1>1, <1>9, <2>1, <2>2, RecursionStays
<1>13. Message!FlattenSeq(s) = g[m]
  BY <1>4, <1>5, <1>9, <1>11, Zenon
<1>. QED
  BY <1>9, <1>10, <1>12, <1>13 DEF m, S, z

LEMMA FlattenUnique ==
    ASSUME NEW T, NEW s \in Seq(Seq(T)), NEW g, g[0] = <<>>,
           \A j \in 1..Len(s) : g[j] = g[j - 1] \o s[j]
    PROVE  Message!FlattenSeq(s) = g[Len(s)]
<1> DEFINE m == Len(s)
<1>1. PICK f : /\ f[0] = <<>>
               /\ \A j \in 1..m : f[j] = f[j - 1] \o s[j]
               /\ Message!FlattenSeq(s) = f[m]
  BY FlattenIsFold
<1> DEFINE A == {j \in Nat : j <= m => f[j] = g[j]}
<1>2. m \in Nat
  OBVIOUS
<1> HIDE DEF m
<1>3. 0 \in A
  BY <1>1
<1>4. ASSUME NEW n \in Nat, n \in A PROVE n + 1 \in A
  <2>1. SUFFICES ASSUME n + 1 <= m PROVE f[n + 1] = g[n + 1]
    OBVIOUS
  <2>2. n + 1 \in 1..m /\ (n + 1) - 1 = n /\ f[n] = g[n]
    BY <1>2, <1>4, <2>1
  <2>3. f[n + 1] = f[n] \o s[n + 1] /\ g[n + 1] = g[n] \o s[n + 1]
    BY <1>1, <2>2 DEF m
  <2>. QED
    BY <2>2, <2>3
<1> HIDE DEF A
<1>5. m \in A
  BY <1>2, <1>3, <1>4, Induction
<1>. QED
  BY <1>1, <1>2, <1>5 DEF A, m

LEMMA FlattenType ==
    ASSUME NEW T, NEW s \in Seq(Seq(T))
    PROVE  Message!FlattenSeq(s) \in Seq(T)
<1>1. PICK f : (\A j \in 0..Len(s) : f[j] \in Seq(T)) /\ Message!FlattenSeq(s) = f[Len(s)]
  BY FlattenIsFold
<1>2. Len(s) \in 0..Len(s)
  OBVIOUS
<1>. QED
  BY <1>1, <1>2

LEMMA FlattenNone ==
    ASSUME NEW s, Len(s) = 0 PROVE Message!FlattenSeq(s) = s
BY Zenon DEF Message!FlattenSeq

LEMMA FlattenConcat ==
    ASSUME NEW T, NEW a \in Seq(Seq(T)), NEW b \in Seq(Seq(T))
    PROVE  Message!FlattenSeq(a \o b) = Message!FlattenSeq(a) \o Message!FlattenSeq(b)
<1> DEFINE n == Len(a)
           m == Len(b)
           z == <<>>
<1>1. PICK f : /\ f[0] = z
               /\ \A j \in 1..n : f[j] = f[j - 1] \o a[j]
               /\ \A j \in 0..n : f[j] \in Seq(T)
               /\ Message!FlattenSeq(a) = f[n]
  BY FlattenIsFold
<1>2. PICK g : /\ g[0] = z
               /\ \A j \in 1..m : g[j] = g[j - 1] \o b[j]
               /\ \A j \in 0..m : g[j] \in Seq(T)
               /\ Message!FlattenSeq(b) = g[m]
  BY FlattenIsFold
<1> DEFINE c == a \o b
           h == [j \in 0..(n + m) |-> IF j <= n THEN f[j] ELSE f[n] \o g[j - n]]
<1>3. n \in Nat /\ m \in Nat /\ c \in Seq(Seq(T)) /\ Len(c) = n + m
      /\ (\A j \in 1..n : c[j] = a[j]) /\ (\A j \in 1..m : c[n + j] = b[j])
  OBVIOUS
<1>4. \A j \in 1..m : b[j] \in Seq(T)
  OBVIOUS
<1>5. \A x \in Seq(T), y \in Seq(T), w \in Seq(T) : (x \o y) \o w = x \o (y \o w)
  OBVIOUS
<1>6. \A x \in Seq(T) : x \o z = x
  OBVIOUS
<1> HIDE DEF n, m, c, z
<1>7. \A j \in 0..n : h[j] = f[j]
  BY <1>3
<1>8. ASSUME NEW k \in 0..m PROVE h[n + k] = f[n] \o g[k]
  <2>1. n + k \in 0..(n + m) /\ (n + k) - n = k /\ (n + k <= n => k = 0) /\ n \in 0..n
    BY <1>3
  <2>2. h[n + k] = IF n + k <= n THEN f[n + k] ELSE f[n] \o g[(n + k) - n]
    BY <2>1, Zenon
  <2>3. f[n] \o z = f[n]
    BY <1>1, <1>6, <2>1
  <2> HIDE DEF h
  <2>4. CASE n + k <= n
    <3>1. k = 0 /\ n + k = n
      BY <1>3, <2>1, <2>4
    <3>. QED
      BY <1>2, <2>2, <2>3, <2>4, <3>1, Zenon
  <2>5. CASE ~(n + k <= n)
    BY <2>1, <2>2, <2>5, Zenon
  <2>. QED
    BY <2>4, <2>5, Zenon
<1> HIDE DEF h
<1>11. h[0] = z
  <2>1. 0 \in 0..n
    BY <1>3
  <2>. QED
    BY <1>1, <1>7, <2>1, Zenon
<1>12. ASSUME NEW j \in 1..(n + m) PROVE h[j] = h[j - 1] \o c[j]
  <2>1. CASE j <= n
    <3>1. j \in 1..n /\ j \in 0..n /\ j - 1 \in 0..n
      BY <1>3, <2>1
    <3>. QED
      BY <1>1, <1>3, <1>7, <3>1, Zenon
  <2>2. CASE j > n
    <3>1. PICK k \in 1..m : j = n + k
      <4>1. j - n \in 1..m /\ j = n + (j - n)
        BY <1>3, <2>2
      <4>. QED
        BY <4>1
    <3>2. k \in 0..m /\ k - 1 \in 0..m /\ j - 1 = n + (k - 1) /\ n \in 0..n
      BY <1>3, <3>1
    <3>3. h[j] = f[n] \o g[k] /\ h[j - 1] = f[n] \o g[k - 1]
      BY <1>8, <3>1, <3>2, Zenon
    <3>4. g[k] = g[k - 1] \o b[k] /\ c[j] = b[k]
      BY <1>2, <1>3, <3>1, Zenon
    <3>5. g[k - 1] \in Seq(T) /\ b[k] \in Seq(T) /\ f[n] \in Seq(T)
      BY <1>1, <1>2, <1>4, <3>2, Zenon
    <3>6. (f[n] \o g[k - 1]) \o b[k] = f[n] \o (g[k - 1] \o b[k])
      BY <1>5, <3>5, Zenon
    <3>. QED
      BY <3>3, <3>4, <3>6, Zenon
  <2>. QED
    BY <1>3, <2>1, <2>2
<1>9. Message!FlattenSeq(c) = h[n + m]
  BY <1>3, <1>11, <1>12, FlattenUnique DEF z
<1>10. h[n + m] = f[n] \o g[m]
  <2>1. m \in 0..m
    BY <1>3
  <2>. QED
    BY <1>8, <2>1, Zenon
<1>. QED
  BY <1>1, <1>2, <1>9, <1>10 DEF c

LEMMA FlattenOne ==
    ASSUME NEW T, NEW a \in Seq(T)
    PROVE  Message!FlattenSeq(<<a>>) = a
<1> DEFINE s == <<a>>
           g == [j \in 0..1 |-> IF j = 0 THEN <<>> ELSE a]
<1>1. s \in Seq(Seq(T)) /\ Len(s) = 1 /\ s[1] = a /\ <<>> \o a = a
  OBVIOUS
<1>2. g[0] = <<>> /\ g[1] = a
  OBVIOUS
<1> HIDE DEF g, s
<1>3. ASSUME NEW j \in 1..Len(s) PROVE g[j] = g[j - 1] \o s[j]
  <2>1. j = 1 /\ j - 1 = 0
    BY <1>1
  <2>. QED
    BY <1>1, <1>2, <2>1, Zenon
<1>4. Message!FlattenSeq(s) = g[Len(s)]
  BY <1>1, <1>2, <1>3, FlattenUnique
<1>. QED
  BY <1>1, <1>2, <1>4 DEF s

\* The values of g on the elements of a list, put end to end.
Measure(g, S, T) == g \in [S -> Seq(T)]
Mapped(g, ws) == [j \in DOMAIN ws |-> g[ws[j]]]
Sum(g, ws) == Message!FlattenSeq(Mapped(g, ws))

\* Equations of Sum, each under a name.
Maps(g, ws, T) ==
    /\ Mapped(g, ws) \in Seq(Seq(T)) /\ Len(Mapped(g, ws)) = Len(ws)
    /\ \A j \in 1..Len(ws) : Mapped(g, ws)[j] = g[ws[j]]
Adds(g, a, b) == Sum(g, a \o b) = Sum(g, a) \o Sum(g, b)
Single(g, x) == Sum(g, <<x>>) = g[x]
AddsOne(g, a, x) == Sum(g, Append(a, x)) = Sum(g, a) \o g[x]

LEMMA FunctionSeq ==
    ASSUME NEW S, NEW n \in Nat, NEW f \in [1..n -> S]
    PROVE  f \in Seq(S) /\ Len(f) = n
OBVIOUS

LEMMA MapType ==
    ASSUME NEW S, NEW T, NEW g, Measure(g, S, T), NEW ws \in Seq(S)
    PROVE  Maps(g, ws, T)
<1> DEFINE m == Mapped(g, ws)
           U == Seq(T)
<1>1. DOMAIN ws = 1..Len(ws) /\ Len(ws) \in Nat /\ \A j \in 1..Len(ws) : ws[j] \in S
  OBVIOUS
<1>2. m \in [1..Len(ws) -> U] /\ \A j \in 1..Len(ws) : m[j] = g[ws[j]]
  BY <1>1 DEF Measure, Mapped
<1> HIDE DEF m, U
<1>3. m \in Seq(U) /\ Len(m) = Len(ws)
  BY <1>1, <1>2, FunctionSeq, Zenon
<1>. QED
  BY <1>2, <1>3 DEF Maps, m, U

LEMMA SumType ==
    ASSUME NEW S, NEW T, NEW g, Measure(g, S, T), NEW ws \in Seq(S)
    PROVE  Sum(g, ws) \in Seq(T)
BY MapType, FlattenType, Zenon DEF Sum, Maps

LEMMA SumNone == ASSUME NEW g PROVE Sum(g, <<>>) = <<>>
<1>1. Mapped(g, <<>>) = <<>> /\ Len(<<>>) = 0
  BY DEF Mapped
<1>. QED
  BY <1>1, FlattenNone, Zenon DEF Sum

LEMMA SumConcat ==
    ASSUME NEW S, NEW T, NEW g, Measure(g, S, T), NEW a \in Seq(S), NEW b \in Seq(S)
    PROVE  Adds(g, a, b)
<1> DEFINE x == Mapped(g, a)
           y == Mapped(g, b)
           c == a \o b
           w == Mapped(g, c)
           U == Seq(T)
           v == x \o y
<1>1. /\ x \in Seq(U) /\ Len(x) = Len(a) /\ \A j \in 1..Len(a) : x[j] = g[a[j]]
      /\ y \in Seq(U) /\ Len(y) = Len(b) /\ \A j \in 1..Len(b) : y[j] = g[b[j]]
  <2>1. Maps(g, a, T) /\ Maps(g, b, T)
    BY MapType, Zenon
  <2>. QED
    BY <2>1, Zenon DEF Maps
<1>2. c \in Seq(S) /\ Len(c) = Len(a) + Len(b)
      /\ \A j \in 1..(Len(a) + Len(b)) : c[j] = IF j <= Len(a) THEN a[j] ELSE b[j - Len(a)]
  BY ConcatProperties, Zenon
<1>3. Len(a) \in Nat /\ Len(b) \in Nat
  OBVIOUS
<1> HIDE DEF c
<1>4. w \in Seq(U) /\ Len(w) = Len(c) /\ \A j \in 1..Len(c) : w[j] = g[c[j]]
  <2>1. Maps(g, c, T)
    BY <1>2, MapType, Zenon
  <2>. QED
    BY <2>1, Zenon DEF Maps, U
<1> HIDE DEF x, y, w, U
<1>5. v \in Seq(U) /\ Len(v) = Len(x) + Len(y)
      /\ \A i \in 1..(Len(x) + Len(y)) : v[i] = IF i <= Len(x) THEN x[i] ELSE y[i - Len(x)]
  BY <1>1, ConcatProperties, Zenon
<1> HIDE DEF v
<1>6. ASSUME NEW j \in 1..Len(w) PROVE w[j] = v[j]
  <2>1. w[j] = g[c[j]] /\ c[j] = (IF j <= Len(a) THEN a[j] ELSE b[j - Len(a)])
        /\ v[j] = IF j <= Len(a) THEN x[j] ELSE y[j - Len(a)]
    BY <1>1, <1>2, <1>4, <1>5
  <2>2. IF j <= Len(a) THEN j \in 1..Len(a) ELSE j - Len(a) \in 1..Len(b)
    BY <1>2, <1>3, <1>4
  <2>. QED
    BY <1>1, <2>1, <2>2, Zenon
<1>7. w = v
  <2>1. Len(w) = Len(v)
    BY <1>1, <1>2, <1>4, <1>5
  <2>. QED
    BY <1>4, <1>5, <1>6, <2>1, SeqEqual, Zenon
<1>8. Message!FlattenSeq(v) = Message!FlattenSeq(x) \o Message!FlattenSeq(y)
  BY <1>1, FlattenConcat DEF v, U
<1>. QED
  BY <1>7, <1>8 DEF Adds, Sum, x, y, w, c

LEMMA SumOne ==
    ASSUME NEW S, NEW T, NEW g, Measure(g, S, T), NEW x \in S
    PROVE  Single(g, x)
<1>1. Mapped(g, <<x>>) = <<g[x]>>
  BY DEF Mapped
<1>2. g[x] \in Seq(T)
  BY DEF Measure
<1>. QED
  BY <1>1, <1>2, FlattenOne, Zenon DEF Single, Sum

LEMMA SumAppend ==
    ASSUME NEW S, NEW T, NEW g, Measure(g, S, T), NEW a \in Seq(S), NEW x \in S
    PROVE  AddsOne(g, a, x)
<1>1. Append(a, x) = a \o <<x>> /\ <<x>> \in Seq(S)
  OBVIOUS
<1>2. Adds(g, a, <<x>>)
  BY <1>1, SumConcat, Zenon
<1>3. Single(g, x)
  BY SumOne, Zenon
<1>. QED
  BY <1>1, <1>2, <1>3, Zenon DEF Adds, Single, AddsOne

\* Lists that measure alike, element by element, have the same sum.
Matches(g, ws, h, vs) == \A j \in 1..Len(ws) : g[ws[j]] = h[vs[j]]
SameSum(g, ws, h, vs) == Sum(g, ws) = Sum(h, vs)

LEMMA SumMatches ==
    ASSUME NEW S, NEW R, NEW g, NEW h, NEW ws \in Seq(S), NEW vs \in Seq(R), Len(ws) = Len(vs),
           Matches(g, ws, h, vs)
    PROVE  SameSum(g, ws, h, vs)
<1> DEFINE x == Mapped(g, ws)
           y == Mapped(h, vs)
<1>1. DOMAIN ws = 1..Len(ws) /\ DOMAIN vs = 1..Len(ws)
  OBVIOUS
<1>2. x = y
  BY <1>1 DEF Mapped, Matches
<1>. QED
  BY <1>2, Zenon DEF Sum, SameSum

LEMMA SumSame ==
    ASSUME NEW S, NEW R, NEW g, NEW h, NEW ws \in Seq(S), NEW vs \in Seq(R), Len(ws) = Len(vs),
           \A j \in 1..Len(ws) : g[ws[j]] = h[vs[j]]
    PROVE  Sum(g, ws) = Sum(h, vs)
<1>1. Matches(g, ws, h, vs)
  BY Zenon DEF Matches
<1>2. SameSum(g, ws, h, vs)
  BY <1>1, SumMatches, Zenon
<1>. QED
  BY <1>2, Zenon DEF SameSum

\* What is summed over a concatenation of lists is summed list by list.
LEMMA SumFlatten ==
    ASSUME NEW S, NEW T, NEW g, Measure(g, S, T), NEW s \in Seq(Seq(S))
    PROVE  Sum(g, Message!FlattenSeq(s)) = Message!FlattenSeq([j \in DOMAIN s |-> Sum(g, s[j])])
<1> DEFINE m == Len(s)
           t == [j \in DOMAIN s |-> Sum(g, s[j])]
<1>1. PICK f : /\ f[0] = <<>>
               /\ \A j \in 1..m : f[j] = f[j - 1] \o s[j]
               /\ \A j \in 0..m : f[j] \in Seq(S)
               /\ Message!FlattenSeq(s) = f[m]
  BY FlattenIsFold
<1>2. m \in Nat /\ DOMAIN s = 1..m /\ \A j \in 1..m : s[j] \in Seq(S)
  OBVIOUS
<1>3. t \in [1..m -> Seq(T)]
  <2>1. \A j \in 1..m : Sum(g, s[j]) \in Seq(T)
    BY <1>2, SumType, Zenon
  <2>. QED
    BY <1>2, <2>1
<1>4. \A j \in 1..m : t[j] = Sum(g, s[j])
  BY <1>2
<1> HIDE DEF t, m
<1>5. t \in Seq(Seq(T)) /\ Len(t) = m
  BY <1>2, <1>3
<1> DEFINE h == [j \in 0..m |-> Sum(g, f[j])]
<1>6. \A j \in 0..m : h[j] = Sum(g, f[j])
  OBVIOUS
<1> HIDE DEF h
<1>7. h[0] = <<>>
  BY <1>1, <1>2, <1>6, SumNone
<1>8. ASSUME NEW j \in 1..m PROVE h[j] = h[j - 1] \o t[j]
  <2>1. j \in 0..m /\ j - 1 \in 0..m
    BY <1>2
  <2>2. f[j - 1] \in Seq(S) /\ s[j] \in Seq(S) /\ f[j] = f[j - 1] \o s[j]
    BY <1>1, <1>2, <2>1, Zenon
  <2>3. Sum(g, f[j - 1] \o s[j]) = Sum(g, f[j - 1]) \o Sum(g, s[j])
    <3>1. Adds(g, f[j - 1], s[j])
      BY <2>2, SumConcat, Zenon
    <3>. QED
      BY <3>1, Zenon DEF Adds
  <2>. QED
    BY <1>4, <1>6, <2>1, <2>2, <2>3, Zenon
<1>9. Message!FlattenSeq(t) = h[m]
  BY <1>5, <1>7, <1>8, FlattenUnique
<1>10. h[m] = Sum(g, f[m])
  BY <1>2, <1>6
<1>. QED
  BY <1>1, <1>9, <1>10 DEF t

----------------------------------------------------------------------------
(* Lists with the same elements, in another order perhaps                  *)

Alike(a, b) == Len(a) = Len(b) /\ Message!Range(a) = Message!Range(b)

Unites(a, b) ==
    /\ Message!Range(a \o b) = Message!Range(a) \cup Message!Range(b)
    /\ Len(a \o b) = Len(a) + Len(b) /\ Len(a) \in Nat /\ Len(b) \in Nat

LEMMA RangeConcat ==
    ASSUME NEW T, NEW a \in Seq(T), NEW b \in Seq(T)
    PROVE  Unites(a, b)
<1> DEFINE c == a \o b
<1>1. Len(c) = Len(a) + Len(b) /\ Len(a) \in Nat /\ Len(b) \in Nat
      /\ DOMAIN a = 1..Len(a) /\ DOMAIN b = 1..Len(b) /\ DOMAIN c = 1..(Len(a) + Len(b))
      /\ (\A j \in 1..Len(a) : c[j] = a[j])
      /\ (\A j \in 1..Len(b) : c[Len(a) + j] = b[j])
  OBVIOUS
<1> HIDE DEF c
<1>2. ASSUME NEW v \in Message!Range(c) PROVE v \in Message!Range(a) \cup Message!Range(b)
  <2>1. PICK j \in 1..(Len(a) + Len(b)) : v = c[j]
    BY <1>1 DEF Message!Range
  <2>2. CASE j <= Len(a)
    <3>1. j \in 1..Len(a)
      BY <1>1, <2>2
    <3>. QED
      BY <1>1, <2>1, <3>1 DEF Message!Range
  <2>3. CASE j > Len(a)
    <3>1. j - Len(a) \in 1..Len(b) /\ Len(a) + (j - Len(a)) = j
      BY <1>1, <2>3
    <3>2. v = b[j - Len(a)]
      BY <1>1, <2>1, <3>1
    <3>. QED
      BY <1>1, <3>1, <3>2 DEF Message!Range
  <2>. QED
    BY <1>1, <2>2, <2>3
<1>3. ASSUME NEW v \in Message!Range(a) PROVE v \in Message!Range(c)
  <2>1. PICK j \in 1..Len(a) : v = a[j]
    BY <1>1 DEF Message!Range
  <2>2. j \in 1..(Len(a) + Len(b)) /\ v = c[j]
    BY <1>1, <2>1
  <2>. QED
    BY <1>1, <2>2 DEF Message!Range
<1>4. ASSUME NEW v \in Message!Range(b) PROVE v \in Message!Range(c)
  <2>1. PICK j \in 1..Len(b) : v = b[j]
    BY <1>1 DEF Message!Range
  <2>2. Len(a) + j \in 1..(Len(a) + Len(b)) /\ v = c[Len(a) + j]
    BY <1>1, <2>1
  <2>. QED
    BY <1>1, <2>2 DEF Message!Range
<1>. QED
  BY <1>1, <1>2, <1>3, <1>4 DEF Unites, c

LEMMA AlikeConcat ==
    ASSUME NEW T, NEW a \in Seq(T), NEW b \in Seq(T), NEW c \in Seq(T), NEW d \in Seq(T),
           Alike(a, b), Alike(c, d)
    PROVE  Alike(a \o c, b \o d) /\ Alike(a \o c, d \o b)
<1>1. Unites(a, c) /\ Unites(b, d) /\ Unites(d, b)
  BY RangeConcat, Zenon
<1>. QED
  BY <1>1 DEF Alike, Unites

LEMMA SplitAt ==
    ASSUME NEW S, NEW s \in Seq(S), NEW k \in 1..Len(s), NEW y \in S
    PROVE  /\ SubSeq(s, 1, k - 1) \in Seq(S) /\ SubSeq(s, k + 1, Len(s)) \in Seq(S) /\ s[k] \in S
           /\ [s EXCEPT ![k] = y] = (SubSeq(s, 1, k - 1) \o <<y>>) \o SubSeq(s, k + 1, Len(s))
<1> DEFINE p == SubSeq(s, 1, k - 1)
           q == SubSeq(s, k + 1, Len(s))
           w == [s EXCEPT ![k] = y]
           c == p \o <<y>>
           d == c \o q
<1>0. k \in Nat /\ Len(s) \in Nat /\ k >= 1 /\ k <= Len(s) /\ s[k] \in S
  OBVIOUS
<1>1. p \in Seq(S) /\ Len(p) = k - 1 /\ \A j \in 1..(k - 1) : p[j] = s[j]
  OBVIOUS
<1>2. q \in Seq(S) /\ Len(q) = Len(s) - k /\ \A j \in 1..(Len(s) - k) : q[j] = s[k + j]
  OBVIOUS
<1>3. w \in Seq(S) /\ Len(w) = Len(s) /\ \A j \in 1..Len(s) : w[j] = IF j = k THEN y ELSE s[j]
  BY ExceptSeq
<1> HIDE DEF p, q, w
<1>4. c \in Seq(S) /\ Len(c) = k /\ \A j \in 1..k : c[j] = IF j <= k - 1 THEN p[j] ELSE y
  <2> DEFINE o == <<y>>
  <2>1. o \in Seq(S) /\ Len(o) = 1 /\ o[1] = y
    OBVIOUS
  <2> HIDE DEF o
  <2>2. p \o o \in Seq(S) /\ Len(p \o o) = Len(p) + Len(o)
        /\ \A i \in 1..(Len(p) + Len(o)) : (p \o o)[i] = IF i <= Len(p) THEN p[i] ELSE o[i - Len(p)]
    BY <1>1, <2>1, ConcatProperties, Zenon
  <2>3. Len(p) + Len(o) = k
    BY <1>0, <1>1, <2>1
  <2>4. ASSUME NEW j \in 1..k PROVE (p \o o)[j] = IF j <= k - 1 THEN p[j] ELSE y
    <3>1. ~(j <= k - 1) => j - Len(p) = 1
      BY <1>0, <1>1
    <3>2. (p \o o)[j] = IF j <= Len(p) THEN p[j] ELSE o[j - Len(p)]
      BY <2>2, <2>3
    <3>. QED
      BY <1>1, <2>1, <3>1, <3>2, Zenon
  <2>. QED
    BY <2>2, <2>3, <2>4 DEF o
<1> HIDE DEF c
<1>5. d \in Seq(S) /\ Len(d) = Len(c) + Len(q)
      /\ \A i \in 1..(Len(c) + Len(q)) : d[i] = IF i <= Len(c) THEN c[i] ELSE q[i - Len(c)]
  BY <1>2, <1>4, ConcatProperties, Zenon
<1> HIDE DEF d
<1>6. Len(d) = Len(s)
  BY <1>0, <1>2, <1>4, <1>5
<1>7. ASSUME NEW j \in 1..Len(s) PROVE w[j] = d[j]
  <2>1. d[j] = IF j <= k THEN c[j] ELSE q[j - k]
    BY <1>4, <1>5, <1>6
  <2>2. CASE j < k
    <3>1. j \in 1..(k - 1) /\ j \in 1..k /\ j <= k /\ j <= k - 1 /\ j # k
      BY <1>0, <2>2
    <3>. QED
      BY <1>1, <1>3, <1>4, <2>1, <3>1, Zenon
  <2>3. CASE j = k
    <3>1. j \in 1..k /\ j <= k /\ ~(j <= k - 1)
      BY <1>0, <2>3
    <3>. QED
      BY <1>3, <1>4, <2>1, <2>3, <3>1, Zenon
  <2>4. CASE j > k
    <3>1. j - k \in 1..(Len(s) - k) /\ k + (j - k) = j /\ ~(j <= k) /\ j # k
      BY <1>0, <2>4
    <3>2. q[j - k] = s[j]
      BY <1>2, <3>1
    <3>. QED
      BY <1>3, <2>1, <3>1, <3>2
  <2>. QED
    BY <1>0, <2>2, <2>3, <2>4
<1>8. w = d
  BY <1>3, <1>5, <1>6, <1>7, SeqEqual
<1>. QED
  BY <1>0, <1>1, <1>2, <1>8 DEF p, q, w, c, d

\* Adding to one of the lists adds to what they are put together.
LEMMA FlattenMore ==
    ASSUME NEW T, NEW s \in Seq(Seq(T)), NEW k \in 1..Len(s), NEW v \in Seq(T), NEW u \in Seq(T),
           Alike(u, s[k] \o v)
    PROVE  Alike(Message!FlattenSeq([s EXCEPT ![k] = u]), Message!FlattenSeq(s) \o v)
<1> DEFINE a == SubSeq(s, 1, k - 1)
           b == SubSeq(s, k + 1, Len(s))
           x == s[k]
           t == [s EXCEPT ![k] = u]
           A == Message!FlattenSeq(a)
           B == Message!FlattenSeq(b)
<1>1. a \in Seq(Seq(T)) /\ b \in Seq(Seq(T)) /\ x \in Seq(T)
  BY SplitAt, Zenon
<1>2. s = (a \o <<x>>) \o b
  <2>1. [s EXCEPT ![k] = s[k]] = (a \o <<x>>) \o b
    BY <1>1, SplitAt, Zenon
  <2>2. [s EXCEPT ![k] = s[k]] = s
    OBVIOUS
  <2>. QED
    BY <2>1, <2>2, Zenon
<1>3. t = (a \o <<u>>) \o b
  <2> DEFINE U == Seq(T)
  <2>1. s \in Seq(U) /\ u \in U
    OBVIOUS
  <2> HIDE DEF U
  <2>. QED
    BY <2>1, SplitAt
<1>4. A \in Seq(T) /\ B \in Seq(T)
  BY <1>1, FlattenType
<1> HIDE DEF a, b, x, t, A, B
<1>5. ASSUME NEW w \in Seq(T)
      PROVE  Message!FlattenSeq((a \o <<w>>) \o b) = (A \o w) \o B
  <2>1. <<w>> \in Seq(Seq(T)) /\ a \o <<w>> \in Seq(Seq(T))
    BY <1>1
  <2>2. Message!FlattenSeq(a \o <<w>>) = A \o w
    <3>1. Message!FlattenSeq(<<w>>) = w
      BY FlattenOne, Zenon
    <3>. QED
      BY <1>1, <2>1, <3>1, FlattenConcat, Zenon DEF A
  <2>. QED
    BY <1>1, <2>1, <2>2, FlattenConcat, Zenon DEF B
<1>6. Message!FlattenSeq(s) = (A \o x) \o B /\ Message!FlattenSeq(t) = (A \o u) \o B
  BY <1>1, <1>2, <1>3, <1>5
<1>7. Alike((A \o u) \o B, ((A \o x) \o B) \o v)
  <2>1. A \o u \in Seq(T) /\ A \o x \in Seq(T) /\ x \o v \in Seq(T) /\ (A \o x) \o B \in Seq(T)
    BY <1>1, <1>4
  <2> DEFINE C == (A \o x) \o B
  <2>2. Unites(A \o u, B) /\ Unites(A, u)
    BY <1>4, <2>1, RangeConcat, Zenon
  <2>3. Unites(C, v) /\ Unites(A \o x, B) /\ Unites(A, x)
    <3>1. C \in Seq(T)
      BY <2>1
    <3> HIDE DEF C
    <3>. QED
      BY <1>1, <1>4, <2>1, <3>1, RangeConcat, Zenon
  <2>4. Unites(x, v) /\ Alike(u, x \o v)
    BY <1>1, RangeConcat, Zenon DEF x
  <2>5. Len(A) \in Nat /\ Len(B) \in Nat /\ Len(x) \in Nat /\ Len(v) \in Nat
    BY <1>1, <1>4
  <2>. QED
    BY <2>2, <2>3, <2>4, <2>5 DEF Alike, Unites
<1>. QED
  BY <1>6, <1>7 DEF t

LEMMA FlattenSingles ==
    ASSUME NEW T, NEW q \in Seq(T)
    PROVE  Message!FlattenSeq([j \in DOMAIN q |-> <<q[j]>>]) = q
<1> DEFINE m == Len(q)
           U == Seq(T)
           s == [j \in DOMAIN q |-> <<q[j]>>]
           g == [j \in 0..m |-> SubSeq(q, 1, j)]
<1>1. m \in Nat /\ DOMAIN q = 1..m /\ \A j \in 1..m : <<q[j]>> \in U
  OBVIOUS
<1>2. s \in [1..m -> U] /\ \A j \in 1..m : s[j] = <<q[j]>>
  BY <1>1
<1> HIDE DEF s, U
<1>3. s \in Seq(U) /\ Len(s) = m
  BY <1>1, <1>2, FunctionSeq, Zenon
<1>4. g[0] = <<>> /\ g[m] = SubSeq(q, 1, m)
  BY <1>1
<1>5. ASSUME NEW j \in 1..m PROVE g[j] = g[j - 1] \o s[j]
  <2>1. j \in 0..m /\ j - 1 \in 0..m
    BY <1>1
  <2>2. g[j] = SubSeq(q, 1, j) /\ g[j - 1] = SubSeq(q, 1, j - 1)
    BY <2>1
  <2>3. SubSeq(q, 1, j) = SubSeq(q, 1, j - 1) \o <<q[j]>>
    <3>1. 1 \in 1..Len(q) /\ j \in 1..Len(q)
      BY <1>1
    <3>. QED
      BY <3>1, SubSeqRecursiveSecond
  <2>. QED
    BY <1>2, <2>2, <2>3
<1> HIDE DEF g
<1>6. Message!FlattenSeq(s) = g[Len(s)]
  BY <1>3, <1>4, <1>5, FlattenUnique DEF U
<1>7. SubSeq(q, 1, m) = q
  BY SubSeqFull
<1>. QED
  BY <1>3, <1>4, <1>6, <1>7 DEF s

\* The elements of other roles.
Unless(role, S) == [w \in S |-> IF w.role = role THEN <<>> ELSE <<w>>]

LEMMA UnlessMeasure == ASSUME NEW role, NEW S PROVE Measure(Unless(role, S), S, S)
<1>1. \A w \in S : (IF w.role = role THEN <<>> ELSE <<w>>) \in Seq(S)
  OBVIOUS
<1>. QED
  BY <1>1 DEF Measure, Unless

LEMMA WithoutIsSum ==
    ASSUME NEW role, NEW S, NEW ws \in Seq(S)
    PROVE  Message!Without(role, ws) = Sum(Unless(role, S), ws)
<1>1. \A j \in DOMAIN ws : ws[j] \in S
  OBVIOUS
<1>2. Mapped(Unless(role, S), ws) = [j \in DOMAIN ws |-> IF ws[j].role = role THEN <<>> ELSE <<ws[j]>>]
  BY <1>1 DEF Mapped, Unless
<1>. QED
  BY <1>2, Zenon DEF Message!Without, Sum

LEMMA WithoutType ==
    ASSUME NEW role, NEW S, NEW ws \in Seq(S)
    PROVE  Message!Without(role, ws) \in Seq(S)
<1>1. Message!Without(role, ws) = Sum(Unless(role, S), ws)
  BY WithoutIsSum, Zenon
<1>. QED
  BY <1>1, UnlessMeasure, SumType, Zenon

\* What is summed over the elements of other roles.
LEMMA SumWithout ==
    ASSUME NEW role, NEW S, NEW T, NEW g, Measure(g, S, T), NEW ws \in Seq(S), NEW h,
           \A w \in S : h[w] = IF w.role = role THEN <<>> ELSE g[w]
    PROVE  Sum(g, Message!Without(role, ws)) = Sum(h, ws)
<1> DEFINE u == Unless(role, S)
           s == Mapped(u, ws)
           t == [j \in DOMAIN s |-> Sum(g, s[j])]
<1>1. Message!Without(role, ws) = Message!FlattenSeq(s)
  BY WithoutIsSum, Zenon DEF Sum
<1>2. Maps(u, ws, S)
  BY UnlessMeasure, MapType, Zenon
<1>3. s \in Seq(Seq(S)) /\ Len(s) = Len(ws) /\ \A j \in 1..Len(ws) : s[j] = u[ws[j]]
  BY <1>2, Zenon DEF Maps
<1>4. Sum(g, Message!FlattenSeq(s)) = Message!FlattenSeq(t)
  <2> HIDE DEF s
  <2>. QED
    BY <1>3, SumFlatten
<1>5. DOMAIN s = 1..Len(ws) /\ DOMAIN ws = 1..Len(ws) /\ \A j \in 1..Len(ws) : ws[j] \in S
  <2> HIDE DEF s
  <2>. QED
    BY <1>3
<1>6. ASSUME NEW j \in 1..Len(ws) PROVE Sum(g, s[j]) = h[ws[j]]
  <2>1. s[j] = IF ws[j].role = role THEN <<>> ELSE <<ws[j]>>
    BY <1>3, <1>5 DEF Unless
  <2>2. Sum(g, <<>>) = <<>> /\ Sum(g, <<ws[j]>>) = g[ws[j]]
    <3>1. Single(g, ws[j])
      BY <1>5, SumOne, Zenon
    <3>. QED
      BY <3>1, SumNone, Zenon DEF Single
  <2> HIDE DEF s
  <2>. QED
    BY <1>5, <2>1, <2>2, Zenon
<1> HIDE DEF s
<1>7. t = Mapped(h, ws)
  BY <1>5, <1>6 DEF Mapped
<1>. QED
  BY <1>1, <1>4, <1>7, Zenon DEF Sum

----------------------------------------------------------------------------
(* The bytes of a live stream: line after line, part after part            *)

\* Lines, and pieces of them.
LineSet == [type : Live!Types, long : BOOLEAN]
LinePiece == Nat \X Nat

LEMMA BytesType ==
    ASSUME lines \in Seq(LineSet), MaxPending \in Nat, NEW j \in 1..Len(lines)
    PROVE  /\ Live!Bytes(j) \in Seq(LinePiece)
           /\ Len(Live!Bytes(j)) = Live!Parts(j) + 1
           /\ Live!Parts(j) \in Nat
           /\ \A p \in 1..(Live!Parts(j) + 1) :
                 Live!Bytes(j)[p] = <<j, IF p > Live!Parts(j) THEN 0 ELSE p>>
<1>1. Live!Parts(j) \in Nat
  BY DEF Live!Parts
<1> DEFINE n == Live!Parts(j)
           b == [p \in 1..(n + 1) |-> <<j, IF p > n THEN 0 ELSE p>>]
<1>2. Live!Bytes(j) = b
  BY Zenon DEF Live!Bytes
<1> HIDE DEF n
<1>3. n \in Nat
  BY <1>1 DEF n
<1>4. \A p \in 1..(n + 1) : <<j, IF p > n THEN 0 ELSE p>> \in LinePiece
  BY <1>3 DEF LinePiece
<1>5. b \in [1..(n + 1) -> LinePiece]
  BY <1>4
<1>6. b \in Seq(LinePiece) /\ Len(b) = n + 1
  BY <1>3, <1>5
<1>. QED
  <2>1. \A p \in 1..(n + 1) : b[p] = <<j, IF p > n THEN 0 ELSE p>>
    OBVIOUS
  <2> HIDE DEF b
  <2>. QED
    BY <1>2, <1>3, <1>6, <2>1 DEF n

\* What comes after the piece x.
After(x) == IF x[2] = 0 THEN <<x[1] + 1, 1>>
            ELSE IF x[2] = Live!Parts(x[1]) THEN <<x[1], 0>> ELSE <<x[1], x[2] + 1>>

\* The pieces of the first n lines.
Ordered(w, n) ==
    /\ w \in Seq(LinePiece)
    /\ \A x \in 1..Len(w) : w[x][1] \in 1..n /\ w[x][2] \in 0..Live!Parts(w[x][1])
    /\ n = 0 => w = <<>>
    /\ n > 0 => Len(w) > 0 /\ w[1] = <<1, 1>> /\ w[Len(w)] = <<n, 0>>
    /\ \A x \in 1..(Len(w) - 1) : w[x + 1] = After(w[x])

LEMMA OrderedEmpty == Ordered(<<>>, 0)
<1>1. <<>> \in Seq(LinePiece) /\ Len(<<>>) = 0
  OBVIOUS
<1>. QED
  BY <1>1 DEF Ordered

LEMMA OrderedStep ==
    ASSUME lines \in Seq(LineSet), MaxPending \in Nat, MaxPending >= 2,
           NEW n \in Nat, n + 1 <= Len(lines), NEW w, Ordered(w, n)
    PROVE  Ordered(w \o Live!Bytes(n + 1), n + 1)
<1> DEFINE b == Live!Bytes(n + 1)
           v == w \o b
           p == Live!Parts(n + 1)
<1>1. /\ w \in Seq(LinePiece) /\ b \in Seq(LinePiece) /\ Len(b) = p + 1 /\ p \in Nat
      /\ \A x \in 1..(p + 1) : b[x] = <<n + 1, IF x > p THEN 0 ELSE x>>
  BY BytesType DEF Ordered
<1>2. p >= 2
  BY DEF Live!Parts
<1> HIDE DEF b, p
<1>3. /\ v \in Seq(LinePiece) /\ Len(v) = Len(w) + p + 1
      /\ \A x \in 1..Len(w) : v[x] = w[x]
      /\ \A x \in (Len(w) + 1)..Len(v) :
            v[x] = <<n + 1, IF x - Len(w) > p THEN 0 ELSE x - Len(w)>>
  <2>0. w \in Seq(LinePiece) /\ b \in Seq(LinePiece)
    BY <1>1
  <2>1. v \in Seq(LinePiece) /\ Len(v) = Len(w) + p + 1 /\ \A x \in 1..Len(w) : v[x] = w[x]
    <3>1. v \in Seq(LinePiece)
      BY <2>0
    <3>2. Len(v) = Len(w) + Len(b) /\ Len(w) \in Nat
      BY <2>0
    <3>3. \A x \in 1..Len(w) : v[x] = w[x]
      BY <2>0
    <3>. QED
      BY <3>1, <3>2, <3>3, <1>1
  <2>2. ASSUME NEW x \in (Len(w) + 1)..Len(v) PROVE v[x] = b[x - Len(w)] /\ x - Len(w) \in 1..(p + 1)
    BY <1>1, <2>1
  <2>. QED
    BY <1>1, <2>1, <2>2
<1> HIDE DEF v
<1>4. Len(w) \in Nat /\ Len(v) \in Nat
  BY <1>1, <1>3
<1>5. ASSUME NEW x \in 1..Len(v) PROVE v[x][1] \in 1..(n + 1) /\ v[x][2] \in 0..Live!Parts(v[x][1])
  <2>1. CASE x \in 1..Len(w)
    BY <1>3, <2>1 DEF Ordered
  <2>2. CASE x \in (Len(w) + 1)..Len(v)
    <3>1. x - Len(w) \in Nat
      BY <1>4, <2>2
    <3>2. v[x][1] = n + 1 /\ v[x][2] \in 0..p
      BY <1>1, <1>3, <2>2, <3>1
    <3>. QED
      BY <3>2 DEF p
  <2>. QED
    BY <1>4, <2>1, <2>2
<1>6. Len(v) > 0 /\ v[Len(v)] = <<n + 1, 0>>
  <2>1. Len(v) \in (Len(w) + 1)..Len(v) /\ Len(v) - Len(w) > p /\ Len(v) > 0
    BY <1>1, <1>3, <1>4
  <2>. QED
    BY <1>3, <2>1
<1>7. v[1] = <<1, 1>>
  <2>1. CASE n = 0
    <3>1. Len(w) = 0
      BY <2>1 DEF Ordered
    <3>2. 1 \in (Len(w) + 1)..Len(v) /\ 1 - Len(w) = 1 /\ ~ (1 > p)
      BY <1>1, <1>2, <1>3, <3>1
    <3>. QED
      BY <1>3, <3>2, <2>1
  <2>2. CASE n > 0
    <3>1. 1 \in 1..Len(w) /\ w[1] = <<1, 1>>
      BY <1>4, <2>2 DEF Ordered
    <3>. QED
      BY <1>3, <3>1
  <2>. QED
    BY <2>1, <2>2
<1>8. ASSUME NEW x \in 1..(Len(v) - 1) PROVE v[x + 1] = After(v[x])
  <2>1. CASE x < Len(w)
    <3>1. x \in 1..Len(w) /\ x + 1 \in 1..Len(w) /\ x \in 1..(Len(w) - 1)
      BY <1>4, <2>1
    <3>2. w[x + 1] = After(w[x])
      BY <3>1 DEF Ordered
    <3>. QED
      BY <1>3, <3>1, <3>2
  <2>2. CASE x = Len(w)
    <3>1. n > 0 /\ w[x] = <<n, 0>> /\ x \in 1..Len(w)
      <4>1. n # 0
        BY <2>2 DEF Ordered
      <4>. QED
        BY <4>1, <2>2, <1>4 DEF Ordered
    <3>2. x + 1 \in (Len(w) + 1)..Len(v) /\ x + 1 - Len(w) = 1
      BY <1>3, <1>4, <2>2
    <3>3. v[x + 1] = <<n + 1, 1>>
      BY <1>2, <1>3, <1>1, <3>2
    <3>. QED
      BY <1>3, <3>1, <3>3 DEF After
  <2>3. CASE x > Len(w)
    <3>1. /\ x \in (Len(w) + 1)..Len(v) /\ x + 1 \in (Len(w) + 1)..Len(v)
          /\ x - Len(w) \in 1..p /\ x + 1 - Len(w) = (x - Len(w)) + 1
      BY <1>1, <1>3, <1>4, <2>3
    <3>2. v[x] = <<n + 1, x - Len(w)>>
      BY <1>1, <1>3, <3>1
    <3>3. v[x + 1] = IF x - Len(w) = p THEN <<n + 1, 0>> ELSE <<n + 1, x - Len(w) + 1>>
      <4> DEFINE d == x - Len(w)
      <4>1. v[x + 1] = <<n + 1, IF x + 1 - Len(w) > p THEN 0 ELSE x + 1 - Len(w)>>
        BY <1>3, <3>1
      <4>2. d \in 1..p /\ x + 1 - Len(w) = d + 1
        BY <3>1
      <4> HIDE DEF d
      <4>3. v[x + 1] = <<n + 1, IF d + 1 > p THEN 0 ELSE d + 1>>
        BY <4>1, <4>2
      <4>4. d + 1 > p <=> d = p
        BY <1>1, <4>2
      <4>5. v[x + 1] = IF d = p THEN <<n + 1, 0>> ELSE <<n + 1, d + 1>>
        BY <4>3, <4>4, Zenon
      <4>. QED
        BY <4>5 DEF d
    <3>4. v[x][1] = n + 1 /\ v[x][2] = x - Len(w) /\ v[x][2] # 0
      BY <3>1, <3>2
    <3>. QED
      BY <3>3, <3>4 DEF After, p
  <2>. QED
    BY <1>4, <2>1, <2>2, <2>3
<1>. QED
  <2>1. Ordered(v, n + 1)
    BY <1>3, <1>5, <1>6, <1>7, <1>8 DEF Ordered
  <2>. QED
    BY <2>1 DEF v, b

LEMMA StreamOrdered ==
    ASSUME lines \in Seq(LineSet), MaxPending \in Nat, MaxPending >= 2
    PROVE  Ordered(Live!Stream, Len(lines))
<1> DEFINE m == Len(lines)
           R(f) == f = [j \in 0..m |-> IF j = 0 THEN <<>> ELSE f[j - 1] \o Live!Bytes(j)]
           s == [x \in (1..m) \X Seq(LinePiece) |-> x[2] \o Live!Bytes(x[1])]
<1>1. m \in Nat /\ <<>> \in Seq(LinePiece)
  OBVIOUS
<1>2. s \in [(1..m) \X Seq(LinePiece) -> Seq(LinePiece)]
  <2>1. ASSUME NEW x \in (1..m) \X Seq(LinePiece) PROVE x[2] \o Live!Bytes(x[1]) \in Seq(LinePiece)
    <3>1. Live!Bytes(x[1]) \in Seq(LinePiece)
      BY BytesType
    <3>. QED
      BY <3>1
  <2>. QED
    BY <2>1
<1>3. \E f : R(f)
  <2> HIDE DEF m
  <2>1. PICK f \in [0..m -> Seq(LinePiece)] :
           \A j \in 0..m : f[j] = IF j = 0 THEN <<>> ELSE s[<<j, f[j - 1]>>]
    <3> DEFINE T == Seq(LinePiece)
               z == <<>>
    <3>1. s \in Steps(T, m) /\ m \in Nat /\ z \in T
      BY <1>1, <1>2 DEF Steps
    <3> HIDE DEF s, T, z
    <3>2. \E f : Recursive(f, T, z, m, s)
      BY <3>1, RecursionExists
    <3>. QED
      BY <3>2 DEF T, z, Recursive
  <2>2. ASSUME NEW j \in 0..m PROVE f[j] = IF j = 0 THEN <<>> ELSE f[j - 1] \o Live!Bytes(j)
    <3>1. j # 0 => j \in 1..m /\ j - 1 \in 0..m
      BY <1>1
    <3>2. j # 0 => s[<<j, f[j - 1]>>] = f[j - 1] \o Live!Bytes(j)
      BY <3>1
    <3>. QED
      BY <2>1, <3>2, Zenon
  <2>3. R(f)
    <3>1. f = [j \in 0..m |-> f[j]]
      BY <2>1
    <3>. QED
      BY <2>2, <3>1, Zenon
  <2>. QED
    BY <2>3
<1> DEFINE f == CHOOSE x : R(x)
<1>4. R(f)
  BY <1>3
<1>5. Live!Stream = f[m]
  BY Zenon DEF Live!Stream
<1> HIDE DEF f
<1>6. \A j \in 0..m : f[j] = IF j = 0 THEN <<>> ELSE f[j - 1] \o Live!Bytes(j)
  BY <1>4, Zenon
<1> DEFINE A == {n \in Nat : n <= m => Ordered(f[n], n)}
<1>7. 0 \in A
  <2>1. f[0] = <<>>
    BY <1>6, <1>1
  <2>. QED
    BY <2>1, OrderedEmpty
<1>8. ASSUME NEW n \in Nat, n \in A PROVE n + 1 \in A
  <2>1. SUFFICES ASSUME n + 1 <= m PROVE Ordered(f[n + 1], n + 1)
    OBVIOUS
  <2>2. n + 1 \in 0..m /\ n + 1 # 0 /\ (n + 1) - 1 = n
    BY <2>1
  <2>3. f[n + 1] = f[n] \o Live!Bytes(n + 1)
    BY <1>6, <2>2, Zenon
  <2>. QED
    BY <1>8, <2>1, <2>3, OrderedStep
<1>. QED
  <2> HIDE DEF A
  <2>1. m \in A
    BY <1>1, <1>7, <1>8, Induction
  <2>. QED
    BY <1>5, <2>1 DEF A

----------------------------------------------------------------------------
(* What the tracker knows of a stream s of which it has seen i pieces      *)

\* A whole line of the type is among them, and how line j starts.
SentType(s, i, type) ==
    \E j \in DOMAIN lines : lines[j].type = type /\ \E x \in 1..i : s[x] = <<j, Live!Parts(j)>>
StartOf(j, l) == [q \in 1..l |-> <<j, q>>]

Trackers == [pending : Seq(LinePiece), terminal : {"none", "completed", "incomplete", "failed"},
             parseErr : BOOLEAN]

\* The start of the line the stream is in, all of it but for a line that was cut.
HoldsRest(t, s, i) ==
    IF i = 0 \/ s[i][2] = 0 THEN t.pending = <<>>
    ELSE \E l \in 1..s[i][2] :
            /\ t.pending = StartOf(s[i][1], l)
            /\ l # s[i][2] => s[i][2] = Live!Parts(s[i][1]) /\ t.parseErr

\* It believes nothing that was not sent, and unless a line was cut, it knows
\* what every complete line of the first i pieces says.
Believes(t, s, i) == t.terminal # "none" => SentType(s, i, t.terminal)
Knows(t, s, i) ==
    ~t.parseErr =>
        /\ SentType(s, i, "failed") => t.terminal = "failed"
        /\ SentType(s, i, "completed") \/ SentType(s, i, "incomplete") => t.terminal # "none"
Cuts(t) == t.parseErr => \E j \in DOMAIN lines : lines[j].long

\* All of it. What the last piece says is known once its line is processed.
Tracks(t, s, i) ==
    /\ t \in Trackers
    /\ HoldsRest(t, s, i)
    /\ Believes(t, s, i)
    /\ Knows(t, s, i - 1)
    /\ Cuts(t)

IsStream(s) == Ordered(s, Len(lines))

LEMMA HeadParses ==
    ASSUME lines \in Seq(LineSet), MaxPending \in Nat,
           NEW j \in 1..Len(lines), NEW l \in Nat, l > 0, l <= Live!Parts(j)
    PROVE  /\ Live!Parses(StartOf(j, l)) <=> l = Live!Parts(j)
           /\ StartOf(j, l)[1][1] = j
           /\ StartOf(j, l) \in Seq(LinePiece) /\ Len(StartOf(j, l)) = l
<1>1. StartOf(j, l) \in Seq(LinePiece) /\ Len(StartOf(j, l)) = l /\ StartOf(j, l)[1] = <<j, 1>>
      /\ DOMAIN StartOf(j, l) = 1..l /\ \A q \in 1..l : StartOf(j, l)[q] = <<j, q>>
  <2>1. StartOf(j, l) \in [1..l -> LinePiece]
    BY DEF StartOf, LinePiece
  <2>. QED
    BY <2>1 DEF StartOf
<1>2. StartOf(j, l) # <<>> /\ StartOf(j, l)[1][1] = j
  BY <1>1
<1> DEFINE b == Live!Bytes(j)
           n == Live!Parts(j)
<1>3. b \in Seq(LinePiece) /\ Len(b) = n + 1 /\ n \in Nat
      /\ \A p \in 1..(n + 1) : b[p] = <<j, IF p > n THEN 0 ELSE p>>
  BY BytesType
<1> HIDE DEF b, n
<1>4. Live!Front(b) = StartOf(j, n)
  <2>1. Live!Front(b) = [i \in 1..(Len(b) - 1) |-> b[i]]
    BY DEF Live!Front
  <2>2. Len(b) - 1 = n
    BY <1>3
  <2>3. \A q \in 1..n : b[q] = <<j, q>>
    BY <1>3
  <2>. QED
    BY <2>1, <2>2, <2>3 DEF StartOf
<1>5. StartOf(j, l) = StartOf(j, n) <=> l = n
  <2>1. StartOf(j, l) = StartOf(j, n) => 1..l = 1..n
    BY DEF StartOf
  <2>2. 1..l = 1..n => l = n
    BY <1>3
  <2>. QED
    BY <2>1, <2>2
<1>6. Live!Parses(StartOf(j, l)) <=> StartOf(j, l) = Live!Front(b)
  BY <1>2, Zenon DEF Live!Parses, b
<1>. QED
  BY <1>1, <1>2, <1>4, <1>5, <1>6 DEF n

LEMMA EmptyParses == ~Live!Parses(<<>>)
  BY DEF Live!Parses

LEMMA NotAType == "" # "failed" /\ "" \notin {"completed", "incomplete"}
  OBVIOUS

LEMMA ProcessOther ==
    ASSUME NEW t, NEW line, ~Live!Parses(line)
    PROVE  Live!processLine(t, line) = t
  BY NotAType, Zenon DEF Live!processLine

LEMMA ProcessLine ==
    ASSUME NEW t, NEW line, Live!Parses(line)
    PROVE  LET type == lines[line[1][1]].type IN
           /\ type = "failed" => Live!processLine(t, line) = [t EXCEPT !.terminal = "failed"]
           /\ type \in {"completed", "incomplete"} /\ t.terminal # "failed"
                => Live!processLine(t, line) = [t EXCEPT !.terminal = type]
           /\ type \notin {"completed", "incomplete", "failed"} \/ (type # "failed" /\ t.terminal = "failed")
                => Live!processLine(t, line) = t
<1> DEFINE type == lines[line[1][1]].type
<1>1. Live!processLine(t, line) =
        CASE type = "failed" -> [t EXCEPT !.terminal = "failed"]
          [] type \in {"completed", "incomplete"} /\ t.terminal # "failed" ->
                [t EXCEPT !.terminal = type]
          [] OTHER -> t
  BY Zenon DEF Live!processLine
<1> HIDE DEF type
<1>2. type \in {"completed", "incomplete"} => type # "failed"
  OBVIOUS
<1>3. type = "failed" => Live!processLine(t, line) = [t EXCEPT !.terminal = "failed"]
  BY <1>1, <1>2
<1>4. type \in {"completed", "incomplete"} /\ t.terminal # "failed"
        => Live!processLine(t, line) = [t EXCEPT !.terminal = type]
  BY <1>1, <1>2
<1>5. type \notin {"completed", "incomplete", "failed"} \/ (type # "failed" /\ t.terminal = "failed")
        => Live!processLine(t, line) = t
  BY <1>1, <1>2
<1>. QED
  BY <1>3, <1>4, <1>5, Zenon DEF type

LEMMA SentMore ==
    ASSUME NEW s, NEW i \in Nat, NEW type, SentType(s, i, type)
    PROVE  SentType(s, i + 1, type)
BY DEF SentType

LEMMA SentLast ==
    ASSUME NEW s, NEW i \in Nat, i > 0, NEW type
    PROVE  SentType(s, i, type) <=>
              \/ SentType(s, i - 1, type)
              \/ \E j \in DOMAIN lines : lines[j].type = type /\ s[i] = <<j, Live!Parts(j)>>
<1>1. 1..i = 1..(i - 1) \cup {i}
  OBVIOUS
<1>. QED
  BY <1>1, Zenon DEF SentType

\* A tracker after processLine of what it holds, which the stream's end and a
\* line break have in common.
LEMMA Processed ==
    ASSUME lines \in Seq(LineSet), MaxPending \in Nat, MaxPending >= 2,
           NEW s, IsStream(s), NEW i \in 0..Len(s), NEW t, Tracks(t, s, i)
    PROVE  LET u == Live!processLine(t, t.pending) IN
           /\ u \in Trackers /\ u.parseErr = t.parseErr /\ u.pending = t.pending
           /\ Believes(u, s, i) /\ Knows(u, s, i)
<1> DEFINE u == Live!processLine(t, t.pending)
<1>0. /\ t \in Trackers /\ HoldsRest(t, s, i) /\ Believes(t, s, i) /\ Knows(t, s, i - 1)
      /\ i \in Nat
      /\ \A x \in 1..Len(s) : s[x] \in LinePiece /\ s[x][1] \in 1..Len(lines)
                            /\ s[x][2] \in 0..Live!Parts(s[x][1])
  BY DEF Tracks, IsStream, Ordered
<1>1. \A j \in 1..Len(lines) : Live!Parts(j) \in Nat /\ Live!Parts(j) >= 2
  BY DEF Live!Parts
<1>2. DOMAIN lines = 1..Len(lines) /\ \A j \in DOMAIN lines : lines[j].type \in Live!Types
  <2>1. DOMAIN lines = 1..Len(lines) /\ \A j \in 1..Len(lines) : lines[j] \in LineSet
    OBVIOUS
  <2>. QED
    BY <2>1 DEF LineSet
<1>3. ASSUME u = t, ~t.parseErr => \A type : SentType(s, i, type) => SentType(s, i - 1, type)
      PROVE  /\ u \in Trackers /\ u.parseErr = t.parseErr /\ u.pending = t.pending
             /\ Believes(u, s, i) /\ Knows(u, s, i)
  <2> HIDE DEF u
  <2>. QED
    BY <1>0, <1>3 DEF Knows
<1>4. CASE i = 0 \/ s[i][2] = 0
  <2>1. t.pending = <<>>
    BY <1>0, <1>4 DEF HoldsRest
  <2>2. u = t
    BY <2>1, EmptyParses, ProcessOther
  <2>3. ASSUME NEW type, SentType(s, i, type) PROVE SentType(s, i - 1, type)
    <3>1. CASE i = 0
      BY <2>3, <3>1 DEF SentType
    <3>2. CASE i > 0 /\ s[i][2] = 0
      <4>1. ASSUME NEW j \in DOMAIN lines PROVE s[i] # <<j, Live!Parts(j)>>
        BY <1>1, <1>2, <3>2
      <4>. QED
        BY <1>0, <2>3, <3>2, <4>1, SentLast
    <3>. QED
      BY <1>0, <1>4, <3>1, <3>2
  <2>. QED
    BY <1>3, <2>2, <2>3
<1>5. CASE i > 0 /\ s[i][2] # 0
  <2> DEFINE j == s[i][1]
             p == s[i][2]
  <2>1. PICK l \in 1..p : t.pending = StartOf(j, l) /\ (l # p => p = Live!Parts(j) /\ t.parseErr)
    <3>1. ~(i = 0 \/ s[i][2] = 0) /\ HoldsRest(t, s, i)
      BY <1>0, <1>5 DEF Tracks
    <3>. QED
      BY <3>1, Zenon DEF HoldsRest
  <2>2. /\ j \in 1..Len(lines) /\ p \in 1..Live!Parts(j) /\ l \in Nat /\ l > 0 /\ l <= Live!Parts(j)
        /\ s[i] = <<j, p>>
    <3>1. i \in 1..Len(s)
      BY <1>5
    <3>2. j \in 1..Len(lines) /\ p \in 0..Live!Parts(j) /\ s[i] \in LinePiece
      BY <1>0, <3>1
    <3>. QED
      BY <1>1, <1>5, <2>1, <3>2 DEF LinePiece
  <2> HIDE DEF j, p
  <2>3. Live!Parses(t.pending) <=> l = Live!Parts(j)
    BY <2>1, <2>2, HeadParses
  <2>4. t.pending[1][1] = j
    BY <2>1, <2>2, HeadParses
  <2>5. ASSUME NEW type PROVE SentType(s, i, type) => SentType(s, i - 1, type) \/ (lines[j].type = type /\ p = Live!Parts(j))
    <3>1. ASSUME NEW k \in DOMAIN lines, s[i] = <<k, Live!Parts(k)>> PROVE k = j /\ p = Live!Parts(j)
      BY <2>2, <3>1
    <3>. QED
      BY <1>0, <1>5, <3>1, SentLast
  <2>6. CASE l # Live!Parts(j)
    <3>1. u = t
      BY <2>3, <2>6, ProcessOther
    <3>2. ~t.parseErr => p # Live!Parts(j)
      BY <2>1, <2>6
    <3>. QED
      BY <1>3, <2>5, <3>1, <3>2
  <2>7. CASE l = Live!Parts(j)
    <3> DEFINE T == lines[j].type
    <3>1. p = Live!Parts(j) /\ Live!Parses(t.pending)
      BY <2>2, <2>1, <2>3, <2>7
    <3>2. SentType(s, i, T)
      BY <1>2, <2>2, <3>1, <1>5, <1>0, SentLast
    <3>3. T \in Live!Types
      BY <1>2, <2>2
    <3>4. \A type : type # T /\ SentType(s, i, type) => SentType(s, i - 1, type)
      BY <2>5
    <3>5. /\ T = "failed" => u = [t EXCEPT !.terminal = "failed"]
          /\ T \in {"completed", "incomplete"} /\ t.terminal # "failed" => u = [t EXCEPT !.terminal = T]
          /\ T \notin {"completed", "incomplete", "failed"} \/ (T # "failed" /\ t.terminal = "failed")
               => u = t
      BY <2>4, <3>1, ProcessLine
    <3> HIDE DEF T, u
    <3>6. CASE T = "failed"
      <4>1. u.terminal = "failed" /\ u.parseErr = t.parseErr /\ u.pending = t.pending /\ u \in Trackers
        BY <1>0, <3>5, <3>6 DEF Trackers
      <4>2. Believes(u, s, i) /\ Knows(u, s, i)
        BY <3>2, <3>6, <4>1 DEF Believes, Knows
      <4>. QED
        BY <4>1, <4>2 DEF u
    <3>7. CASE T \in {"completed", "incomplete"} /\ t.terminal # "failed"
      <4>1. u.terminal = T /\ u.parseErr = t.parseErr /\ u.pending = t.pending /\ u \in Trackers
        BY <1>0, <3>5, <3>7 DEF Trackers
      <4>2. Believes(u, s, i)
        BY <3>2, <4>1 DEF Believes
      <4>3. ~u.parseErr => ~SentType(s, i, "failed")
        BY <1>0, <3>4, <3>7, <4>1 DEF Knows
      <4>4. Knows(u, s, i)
        BY <4>3, <4>1, <3>7 DEF Knows
      <4>. QED
        BY <4>1, <4>2, <4>4 DEF u
    <3>8. CASE T # "failed" /\ t.terminal = "failed"
      <4>1. u = t
        BY <3>5, <3>8
      <4>2. Believes(u, s, i) /\ Knows(u, s, i)
        <5>1. SentType(s, i - 1, "failed") => SentType(s, i, "failed")
          BY <1>0, <1>5, SentLast
        <5>2. t.terminal # "none" /\ SentType(s, i, t.terminal)
          BY <1>0, <3>8 DEF Believes
        <5>. QED
          BY <4>1, <5>2, <3>8 DEF Believes, Knows
      <4>. QED
        BY <1>0, <4>1, <4>2 DEF u
    <3>9. CASE T \notin {"completed", "incomplete", "failed"}
      <4>1. u = t
        BY <3>5, <3>9
      <4>2. Believes(u, s, i) /\ Knows(u, s, i)
        <5>1. \A type \in {"completed", "incomplete", "failed"} : SentType(s, i, type) => SentType(s, i - 1, type)
          BY <3>4, <3>9
        <5>. QED
          BY <1>0, <4>1, <5>1 DEF Knows
      <4>. QED
        BY <1>0, <4>1, <4>2 DEF u
    <3>. QED
      BY <3>6, <3>7, <3>8, <3>9
  <2>. QED
    BY <2>6, <2>7
<1>. QED
  BY <1>0, <1>4, <1>5

LEMMA TracksTyped ==
    ASSUME NEW s, IsStream(s), NEW i \in 0..Len(s), NEW t, Tracks(t, s, i)
    PROVE  /\ t \in Trackers /\ i \in Nat /\ Len(s) \in Nat
           /\ t.pending \in Seq(LinePiece) /\ Len(t.pending) \in Nat /\ t.parseErr \in BOOLEAN
<1>1. t \in Trackers /\ s \in Seq(LinePiece)
  BY DEF Tracks, IsStream, Ordered
<1>. QED
  BY <1>1 DEF Trackers

\* Neither a line break nor a piece of a line makes it lose track.
LEMMA BreakTracked ==
    ASSUME lines \in Seq(LineSet), MaxPending \in Nat, MaxPending >= 2,
           NEW s, IsStream(s), NEW i \in 0..(Len(s) - 1), NEW t, Tracks(t, s, i), s[i + 1][2] = 0
    PROVE  Tracks([Live!processLine(t, t.pending) EXCEPT !.pending = <<>>], s, i + 1)
<1> DEFINE u == Live!processLine(t, t.pending)
           v == [u EXCEPT !.pending = <<>>]
<1>0. i \in 0..Len(s) /\ i \in Nat /\ (i + 1) - 1 = i
  BY DEF IsStream, Ordered
<1>1. u \in Trackers /\ u.parseErr = t.parseErr /\ Believes(u, s, i) /\ Knows(u, s, i)
  BY <1>0, Processed
<1> HIDE DEF u
<1>2. v \in Trackers /\ v.pending = <<>> /\ v.parseErr = t.parseErr /\ v.terminal = u.terminal
  <2> DEFINE z == <<>>
  <2>1. z \in Seq(LinePiece)
    OBVIOUS
  <2> HIDE DEF z
  <2>2. [u EXCEPT !.pending = z] \in Trackers /\ [u EXCEPT !.pending = z].pending = z
        /\ [u EXCEPT !.pending = z].parseErr = u.parseErr
        /\ [u EXCEPT !.pending = z].terminal = u.terminal
    BY <1>1, <2>1 DEF Trackers
  <2>. QED
    BY <1>1, <2>2 DEF z
<1> HIDE DEF v
<1>3. HoldsRest(v, s, i + 1)
  BY <1>2 DEF HoldsRest
<1>4. Believes(v, s, i + 1)
  BY <1>0, <1>1, <1>2, SentMore DEF Believes
<1>5. Knows(v, s, (i + 1) - 1)
  BY <1>0, <1>1, <1>2 DEF Knows
<1>6. Cuts(v)
  BY <1>2 DEF Tracks, Cuts
<1>. QED
  BY <1>2, <1>3, <1>4, <1>5, <1>6 DEF Tracks, v, u

LEMMA StartGrows ==
    ASSUME NEW j \in Nat, NEW l \in Nat
    PROVE  Append(StartOf(j, l), <<j, l + 1>>) = StartOf(j, l + 1)
<1>1. StartOf(j, l) \in Seq(LinePiece) /\ Len(StartOf(j, l)) = l
  <2>1. StartOf(j, l) \in [1..l -> LinePiece]
    BY DEF StartOf, LinePiece
  <2>. QED
    BY <2>1 DEF StartOf
<1> DEFINE a == Append(StartOf(j, l), <<j, l + 1>>)
<1>2. a \in Seq(LinePiece) /\ Len(a) = l + 1
  BY <1>1 DEF LinePiece
<1>3. ASSUME NEW q \in 1..(l + 1) PROVE a[q] = <<j, q>>
  <2>1. CASE q = l + 1
    BY <1>1, <2>1
  <2>2. CASE q \in 1..l
    <3>1. a[q] = StartOf(j, l)[q]
      BY <1>1, <2>2
    <3>. QED
      BY <2>2, <3>1 DEF StartOf
  <2>3. q = l + 1 \/ q \in 1..l
    OBVIOUS
  <2> HIDE DEF a
  <2>. QED
    BY <2>1, <2>2, <2>3
<1> HIDE DEF a
<1>4. a = [q \in 1..(l + 1) |-> a[q]]
  BY <1>2
<1>. QED
  BY <1>3, <1>4, Zenon DEF a, StartOf

LEMMA PieceTracked ==
    ASSUME lines \in Seq(LineSet), MaxPending \in Nat, MaxPending >= 2,
           NEW s, IsStream(s), NEW i \in 0..(Len(s) - 1), NEW t, Tracks(t, s, i), s[i + 1][2] # 0
    PROVE  Tracks([t EXCEPT !.pending = Append(@, s[i + 1])], s, i + 1)
<1> DEFINE v == [t EXCEPT !.pending = Append(@, s[i + 1])]
<1>0. /\ i \in 0..Len(s) /\ i \in Nat /\ (i + 1) - 1 = i /\ i + 1 \in 1..Len(s)
      /\ s[i + 1] \in LinePiece /\ Len(s) \in Nat
      /\ i > 0 => i \in 1..Len(s) /\ s[i + 1] = After(s[i]) /\ s[i] \in LinePiece
      /\ i = 0 => s[i + 1] = <<1, 1>>
  <2>1. s \in Seq(LinePiece) /\ (Len(s) > 0 => s[1] = <<1, 1>>)
    BY DEF IsStream, Ordered
  <2>2. \A x \in 1..(Len(s) - 1) : s[x + 1] = After(s[x])
    BY DEF IsStream, Ordered
  <2>3. Len(s) \in Nat /\ i \in Int /\ 0 <= i /\ i <= Len(s) - 1
    BY <2>1
  <2>4. i \in 0..Len(s) /\ i \in Nat /\ (i + 1) - 1 = i /\ i + 1 \in 1..Len(s)
    BY <2>3
  <2>5. i > 0 => i \in 1..Len(s) /\ i \in 1..(Len(s) - 1)
    BY <2>3
  <2>6. \A x \in 1..Len(s) : s[x] \in LinePiece
    BY <2>1
  <2>7. i = 0 => i + 1 = 1 /\ Len(s) > 0
    BY <2>3
  <2>. QED
    BY <2>1, <2>2, <2>3, <2>4, <2>5, <2>6, <2>7
<1>1. t \in Trackers /\ t.pending \in Seq(LinePiece)
  BY <1>0, TracksTyped
<1>2. v \in Trackers /\ v.pending = Append(t.pending, s[i + 1]) /\ v.parseErr = t.parseErr
      /\ v.terminal = t.terminal
  <2> DEFINE z == Append(t.pending, s[i + 1])
  <2>1. z \in Seq(LinePiece)
    BY <1>0, <1>1
  <2>2. v = [t EXCEPT !.pending = z]
    BY Zenon
  <2> HIDE DEF z, v
  <2>3. v \in Trackers /\ v.pending = z /\ v.parseErr = t.parseErr /\ v.terminal = t.terminal
    BY <1>1, <2>1, <2>2 DEF Trackers
  <2>. QED
    BY <2>3 DEF z
<1> HIDE DEF v
<1>3. CASE i = 0 \/ s[i][2] = 0
  <2>1. t.pending = <<>>
    BY <1>3 DEF Tracks, HoldsRest
  <2> DEFINE j == s[i + 1][1]
  <2>2. s[i + 1] = <<j, 1>> /\ j \in Nat
    BY <1>0, <1>3 DEF After, LinePiece
  <2> HIDE DEF j
  <2>3. v.pending = StartOf(j, 1)
    <3>1. StartOf(j, 1) = <<<<j, 1>>>>
      BY DEF StartOf
    <3>. QED
      BY <1>2, <2>1, <2>2, <3>1
  <2>4. s[i + 1][1] = j /\ s[i + 1][2] = 1 /\ 1 \in 1..1
    BY <2>2
  <2>5. HoldsRest(v, s, i + 1)
    BY <1>0, <2>3, <2>4 DEF HoldsRest
  <2>6. ASSUME NEW type, SentType(s, i, type) PROVE SentType(s, i - 1, type)
    <3>1. CASE i = 0
      BY <2>6, <3>1 DEF SentType
    <3>2. CASE i > 0 /\ s[i][2] = 0
      <4>1. ASSUME NEW k \in DOMAIN lines PROVE s[i] # <<k, Live!Parts(k)>>
        <5>1. Live!Parts(k) # 0
          BY DEF Live!Parts
        <5>. QED
          BY <3>2, <5>1
      <4>. QED
        BY <1>0, <2>6, <3>2, <4>1, SentLast
    <3>. QED
      BY <1>0, <1>3, <3>1, <3>2
  <2>. QED
    <3>1. Knows(v, s, i)
      BY <1>2, <2>6 DEF Tracks, Knows
    <3>2. Believes(v, s, i + 1) /\ Cuts(v)
      BY <1>0, <1>2, SentMore DEF Tracks, Believes, Cuts
    <3>. QED
      BY <1>0, <1>2, <2>5, <3>1, <3>2 DEF Tracks, v
<1>4. CASE i > 0 /\ s[i][2] # 0
  <2> DEFINE j == s[i][1]
             p == s[i][2]
  <2>1. PICK l \in 1..p : t.pending = StartOf(j, l) /\ (l # p => p = Live!Parts(j) /\ t.parseErr)
    BY <1>4 DEF Tracks, HoldsRest
  <2>2. j \in Nat /\ p \in Nat /\ s[i + 1] = After(s[i]) /\ s[i][2] # 0 /\ s[i][1] = j /\ s[i][2] = p
    BY <1>0, <1>4 DEF LinePiece
  <2>3. p # Live!Parts(j) /\ s[i + 1] = <<j, p + 1>>
    <3> HIDE DEF j, p
    <3>. QED
      BY <2>2 DEF After
  <2>4. l = p /\ v.pending = StartOf(j, p + 1)
    BY <1>2, <2>1, <2>2, <2>3, StartGrows
  <2>5. p + 1 \in 1..(p + 1) /\ s[i + 1][1] = j /\ s[i + 1][2] = p + 1 /\ p + 1 # 0
    BY <2>2, <2>3
  <2>6. HoldsRest(v, s, i + 1)
    <3> HIDE DEF j, p
    <3>. QED
      BY <2>4, <2>5 DEF HoldsRest
  <2>7. ASSUME NEW type, SentType(s, i, type) PROVE SentType(s, i - 1, type)
    <3>1. ASSUME NEW k \in DOMAIN lines PROVE s[i] # <<k, Live!Parts(k)>>
      BY <2>2, <2>3
    <3>. QED
      BY <1>0, <1>4, <2>7, <3>1, SentLast
  <2>. QED
    <3>1. Knows(v, s, i)
      BY <1>2, <2>7 DEF Tracks, Knows
    <3>2. Believes(v, s, i + 1) /\ Cuts(v)
      BY <1>0, <1>2, SentMore DEF Tracks, Believes, Cuts
    <3>. QED
      BY <1>0, <1>2, <2>6, <3>1, <3>2 DEF Tracks, v
<1>. QED
  BY <1>0, <1>3, <1>4

\* Only the last part of a long line is ever cut off.
LEMMA CutTracked ==
    ASSUME lines \in Seq(LineSet), MaxPending \in Nat, MaxPending >= 2,
           NEW s, IsStream(s), NEW i \in 0..Len(s), NEW t, Tracks(t, s, i)
    PROVE  Tracks([t EXCEPT !.pending = Live!First(@, MaxPending),
                            !.parseErr = @ \/ Len(t.pending) > MaxPending], s, i)
<1> DEFINE v == [t EXCEPT !.pending = Live!First(@, MaxPending),
                          !.parseErr = @ \/ Len(t.pending) > MaxPending]
           w == Live!First(t.pending, MaxPending)
           e == t.parseErr \/ Len(t.pending) > MaxPending
<1>0. /\ t \in Trackers /\ t.pending \in Seq(LinePiece) /\ Len(t.pending) \in Nat /\ i \in Nat
      /\ t.parseErr \in BOOLEAN
  BY TracksTyped
<1>1. v = [t EXCEPT !.pending = w, !.parseErr = e]
  BY Zenon
<1>2. CASE ~(Len(t.pending) > MaxPending)
  <2>1. w = t.pending
    <3> DEFINE x == t.pending
               n == IF MaxPending < Len(x) THEN MaxPending ELSE Len(x)
    <3>1. w = SubSeq(x, 1, n)
      BY Zenon DEF Live!First
    <3>2. n = Len(x)
      BY <1>0, <1>2
    <3>3. SubSeq(x, 1, Len(x)) = x
      <4>1. x \in Seq(LinePiece)
        BY <1>0
      <4> HIDE DEF x
      <4>. QED
        BY <4>1
    <3>. QED
      BY <3>1, <3>2, <3>3
  <2>2. e = t.parseErr
    BY <1>0, <1>2
  <2>3. v = t
    <3> HIDE DEF w, e, v
    <3>. QED
      BY <1>0, <1>1, <2>1, <2>2 DEF Trackers
  <2>. QED
    BY <2>3
<1>3. CASE Len(t.pending) > MaxPending
  <2> DEFINE j == s[i][1]
             p == s[i][2]
  <2>1. i > 0 /\ p # 0
    <3>1. Len(<<>>) = 0
      OBVIOUS
    <3>2. t.pending # <<>>
      BY <1>3, <3>1
    <3>. QED
      BY <1>0, <3>2 DEF Tracks, HoldsRest
  <2>2. PICK l \in 1..p : t.pending = StartOf(j, l) /\ (l # p => p = Live!Parts(j) /\ t.parseErr)
    BY <2>1 DEF Tracks, HoldsRest
  <2>3. i \in 1..Len(s) /\ j \in 1..Len(lines) /\ p \in 0..Live!Parts(j)
    <3>1. i \in 1..Len(s)
      BY <1>0, <2>1
    <3>. QED
      BY <3>1 DEF IsStream, Ordered
  <2> HIDE DEF j, p
  <2>4. Live!Parts(j) \in Nat /\ (Live!Parts(j) > MaxPending => lines[j].long /\ Live!Parts(j) = MaxPending + 1)
    BY DEF Live!Parts
  <2>5. l \in Nat /\ l <= p /\ Len(t.pending) = l
    BY <2>2, <2>3, <2>4, HeadParses
  <2>6. lines[j].long /\ Live!Parts(j) = MaxPending + 1 /\ p = Live!Parts(j) /\ l = p
    BY <1>3, <2>3, <2>4, <2>5
  <2>7. w = StartOf(j, MaxPending)
    <3>1. w = SubSeq(StartOf(j, l), 1, MaxPending)
      <4>1. MaxPending < Len(t.pending)
        BY <1>0, <1>3
      <4>. QED
        BY <2>2, <4>1 DEF Live!First
    <3>2. StartOf(j, l) \in Seq(LinePiece) /\ Len(StartOf(j, l)) = l
      BY <2>3, <2>5, <2>6, <2>2, HeadParses
    <3>3. SubSeq(StartOf(j, l), 1, MaxPending) = [q \in 1..MaxPending |-> StartOf(j, l)[q]]
      BY <3>2, <2>6
    <3>4. \A q \in 1..MaxPending : StartOf(j, l)[q] = <<j, q>>
      BY <2>6, <2>5 DEF StartOf
    <3>. QED
      BY <3>1, <3>3, <3>4 DEF StartOf
  <2>8. w \in Seq(LinePiece) /\ e = TRUE
    <3>1. StartOf(j, MaxPending) \in Seq(LinePiece)
      BY <2>3, <2>6, HeadParses
    <3>. QED
      BY <1>3, <2>7, <3>1
  <2> HIDE DEF w, e, v
  <2>9. v \in Trackers /\ v.pending = w /\ v.parseErr = TRUE /\ v.terminal = t.terminal
    BY <1>0, <1>1, <2>8 DEF Trackers
  <2>10. HoldsRest(v, s, i)
    <3>1. MaxPending \in 1..p
      BY <2>6
    <3>. QED
      BY <2>1, <2>6, <2>7, <2>9, <3>1 DEF HoldsRest, j, p
  <2>11. Knows(v, s, i - 1) /\ Believes(v, s, i)
    BY <2>9 DEF Knows, Believes, Tracks
  <2>12. Cuts(v)
    <3>1. DOMAIN lines = 1..Len(lines)
      OBVIOUS
    <3>. QED
      BY <2>3, <2>6, <3>1 DEF Cuts
  <2>. QED
    BY <2>9, <2>10, <2>11, <2>12 DEF Tracks, v
<1>. QED
  BY <1>2, <1>3

\* What feed does with one piece, and once the chunk is read.
Taken(u, piece) ==
    IF piece[2] = 0 THEN [Live!processLine(u, u.pending) EXCEPT !.pending = <<>>]
    ELSE [u EXCEPT !.pending = Append(@, piece)]
CutOff(u) == [u EXCEPT !.pending = Live!First(@, MaxPending),
                    !.parseErr = @ \/ Len(u.pending) > MaxPending]

\* The recursive function of feed.
Read(f, t, chunk) ==
    f = [x \in 0..Len(chunk) |-> IF x = 0 THEN t ELSE Taken(f[x - 1], chunk[x])]

LEMMA FeedReads ==
    ASSUME NEW t, NEW chunk, \E f : Read(f, t, chunk)
    PROVE  \E f : Read(f, t, chunk) /\ Live!feed(t, chunk) = CutOff(f[Len(chunk)])
<1> DEFINE f == CHOOSE x : Read(x, t, chunk)
<1>1. Read(f, t, chunk)
  BY Zenon
<1>2. Live!feed(t, chunk) = CutOff(f[Len(chunk)])
  BY Zenon DEF Live!feed, Read, Taken, CutOff
<1>. QED
  BY <1>1, <1>2

LEMMA TakenType ==
    ASSUME NEW u \in Trackers, NEW piece \in LinePiece
    PROVE  Taken(u, piece) \in Trackers
<1>1. CASE piece[2] = 0
  <2> DEFINE line == u.pending
             v == Live!processLine(u, line)
             z == <<>>
  <2>1. v \in Trackers
    <3>1. CASE ~Live!Parses(line)
      BY <3>1, ProcessOther
    <3>2. CASE Live!Parses(line)
      <4> DEFINE T == lines[line[1][1]].type
      <4>1. /\ T = "failed" => v = [u EXCEPT !.terminal = "failed"]
            /\ T \in {"completed", "incomplete"} /\ u.terminal # "failed" => v = [u EXCEPT !.terminal = T]
            /\ T \notin {"completed", "incomplete", "failed"} \/ (T # "failed" /\ u.terminal = "failed")
                 => v = u
        BY <3>2, ProcessLine
      <4> HIDE DEF T, v
      <4>. QED
        BY <4>1 DEF Trackers
    <3>. QED
      BY <3>1, <3>2
  <2>2. z \in Seq(LinePiece)
    OBVIOUS
  <2>3. Taken(u, piece) = [v EXCEPT !.pending = z]
    BY <1>1, Zenon DEF Taken
  <2> HIDE DEF v, z
  <2>. QED
    BY <2>1, <2>2, <2>3 DEF Trackers
<1>2. CASE piece[2] # 0
  <2> DEFINE z == Append(u.pending, piece)
  <2>1. u.pending \in Seq(LinePiece)
    BY DEF Trackers
  <2>2. z \in Seq(LinePiece)
    BY <2>1
  <2>3. Taken(u, piece) = [u EXCEPT !.pending = z]
    BY <1>2, Zenon DEF Taken
  <2> HIDE DEF z
  <2>. QED
    BY <2>2, <2>3 DEF Trackers
<1>. QED
  BY <1>1, <1>2

LEMMA ReadExists ==
    ASSUME NEW t \in Trackers, NEW chunk \in Seq(LinePiece)
    PROVE  \E f : Read(f, t, chunk)
<1> DEFINE n == Len(chunk)
           s == [x \in (1..n) \X Trackers |-> Taken(x[2], chunk[x[1]])]
<1>1. n \in Nat /\ \A x \in 1..n : chunk[x] \in LinePiece
  OBVIOUS
<1> HIDE DEF n
<1>2. s \in Steps(Trackers, n)
  <2>1. ASSUME NEW x \in (1..n) \X Trackers PROVE Taken(x[2], chunk[x[1]]) \in Trackers
    <3>1. x[1] \in 1..n /\ x[2] \in Trackers
      OBVIOUS
    <3>2. chunk[x[1]] \in LinePiece
      BY <1>1, <3>1
    <3>. QED
      BY <3>1, <3>2, TakenType
  <2>. QED
    BY <2>1 DEF Steps
<1>3. PICK f : Recursive(f, Trackers, t, n, s)
  <2> HIDE DEF s
  <2>. QED
    BY <1>1, <1>2, RecursionExists
<1>4. f \in [0..n -> Trackers] /\ \A x \in 0..n : f[x] = IF x = 0 THEN t ELSE s[<<x, f[x - 1]>>]
  BY <1>3, Zenon DEF Recursive
<1>5. ASSUME NEW x \in 0..n PROVE f[x] = IF x = 0 THEN t ELSE Taken(f[x - 1], chunk[x])
  <2>1. x # 0 => x \in 1..n /\ x - 1 \in 0..n
    BY <1>1
  <2>2. x # 0 => f[x - 1] \in Trackers
    BY <2>1, <1>4
  <2>3. x # 0 => s[<<x, f[x - 1]>>] = Taken(f[x - 1], chunk[x])
    BY <2>1, <2>2
  <2>. QED
    BY <1>4, <2>3, Zenon
<1>6. f = [x \in 0..n |-> IF x = 0 THEN t ELSE Taken(f[x - 1], chunk[x])]
  <2>1. f = [x \in 0..n |-> f[x]]
    BY <1>4
  <2>. QED
    BY <1>5, <2>1, Zenon
<1>7. Read(f, t, chunk)
  BY <1>6, Zenon DEF Read, n
<1>. QED
  BY <1>7

\* However a stream is cut, the tracker keeps track of it.
LEMMA FeedTracked ==
    ASSUME lines \in Seq(LineSet), MaxPending \in Nat, MaxPending >= 2,
           NEW s, IsStream(s), NEW i \in Nat, NEW t, Tracks(t, s, i),
           NEW chunk \in Seq(LinePiece), i + Len(chunk) <= Len(s),
           \A x \in 1..Len(chunk) : chunk[x] = s[i + x]
    PROVE  Tracks(Live!feed(t, chunk), s, i + Len(chunk))
<1> DEFINE n == Len(chunk)
<1>1. n \in Nat /\ Len(s) \in Nat /\ i + n <= Len(s) /\ t \in Trackers
  BY DEF IsStream, Ordered, Tracks
<1>2. PICK f : Read(f, t, chunk) /\ Live!feed(t, chunk) = CutOff(f[n])
  BY <1>1, ReadExists, FeedReads
<1>3. \A x \in 0..n : f[x] = IF x = 0 THEN t ELSE Taken(f[x - 1], chunk[x])
  BY <1>2, Zenon DEF Read
<1> DEFINE A == {x \in Nat : x <= n => Tracks(f[x], s, i + x)}
<1>4. 0 \in A
  <2>1. f[0] = t /\ i + 0 = i
    BY <1>1, <1>3
  <2>. QED
    BY <2>1
<1>5. ASSUME NEW x \in Nat, x \in A PROVE x + 1 \in A
  <2>1. SUFFICES ASSUME x + 1 <= n PROVE Tracks(f[x + 1], s, i + (x + 1))
    OBVIOUS
  <2>2. /\ x + 1 \in 0..n /\ x + 1 # 0 /\ (x + 1) - 1 = x /\ x + 1 \in 1..n
        /\ i + (x + 1) = (i + x) + 1 /\ i + x \in 0..(Len(s) - 1)
    BY <1>1, <2>1
  <2>3. Tracks(f[x], s, i + x)
    BY <1>5, <2>2
  <2>4. chunk[x + 1] = s[(i + x) + 1]
    BY <2>2
  <2>5. f[x + 1] = Taken(f[x], s[(i + x) + 1])
    BY <1>3, <2>2, <2>4, Zenon
  <2>6. CASE s[(i + x) + 1][2] = 0
    <3>1. f[x + 1] = [Live!processLine(f[x], f[x].pending) EXCEPT !.pending = <<>>]
      BY <2>5, <2>6, Zenon DEF Taken
    <3>2. Tracks([Live!processLine(f[x], f[x].pending) EXCEPT !.pending = <<>>], s, (i + x) + 1)
      BY <2>2, <2>3, <2>6, BreakTracked
    <3>. QED
      BY <2>2, <3>1, <3>2, Zenon
  <2>7. CASE s[(i + x) + 1][2] # 0
    <3>1. f[x + 1] = [f[x] EXCEPT !.pending = Append(@, s[(i + x) + 1])]
      BY <2>5, <2>7, Zenon DEF Taken
    <3>2. Tracks([f[x] EXCEPT !.pending = Append(@, s[(i + x) + 1])], s, (i + x) + 1)
      BY <2>2, <2>3, <2>7, PieceTracked
    <3>. QED
      BY <2>2, <3>1, <3>2, Zenon
  <2>. QED
    BY <2>6, <2>7
<1>6. Tracks(f[n], s, i + n)
  <2> HIDE DEF A
  <2>1. n \in A
    BY <1>1, <1>4, <1>5, Induction
  <2>. QED
    BY <1>1, <2>1 DEF A
<1>7. Tracks(CutOff(f[n]), s, i + n)
  <2>1. i + n \in 0..Len(s)
    BY <1>1
  <2>. QED
    BY <1>6, <2>1, CutTracked, Zenon DEF CutOff
<1>. QED
  BY <1>2, <1>7, Zenon

\* What holds of a stream that is passed on live.
Tracked == inbound = "responses" /\ fate \in {"reading", "copying"}
              => Tracks(tracker, Live!Stream, pos)
LiveInv ==
    /\ lines \in Seq(LineSet)
    /\ size \in 0..Len(Live!Stream) /\ pos \in 0..size
    /\ fate = "reading" => tracker = Live!NewTracker /\ pos = 0
    /\ Tracked
    /\ VerdictIgnoresCuts

LEMMA StreamFacts ==
    ASSUME lines \in Seq(LineSet)
    PROVE  IsStream(Live!Stream) /\ Live!Stream \in Seq(LinePiece) /\ Len(Live!Stream) \in Nat
<1>1. IsStream(Live!Stream)
  BY MaxPendingAssumption, StreamOrdered DEF IsStream
<1>. QED
  BY <1>1 DEF IsStream, Ordered

LEMMA StartTracked ==
    ASSUME NEW s PROVE Tracks(Live!NewTracker, s, 0)
<1> DEFINE t == Live!NewTracker
<1>1. t.pending = <<>> /\ t.terminal = "none" /\ t.parseErr = FALSE /\ t \in Trackers
  BY DEF Live!NewTracker, Trackers
<1> HIDE DEF t
<1>2. ASSUME NEW type PROVE ~SentType(s, 0 - 1, type)
  BY DEF SentType
<1>3. Knows(t, s, 0 - 1)
  BY <1>2 DEF Knows
<1>4. HoldsRest(t, s, 0)
  BY <1>1, Zenon DEF HoldsRest
<1>. QED
  BY <1>1, <1>3, <1>4 DEF Tracks, Believes, Cuts, t

LEMMA StreamStays ==
    lines' = lines => /\ Live!Stream' = Live!Stream
                      /\ \A j : Live!Parts(j)' = Live!Parts(j)
<1> SUFFICES ASSUME lines' = lines
    PROVE Live!Stream' = Live!Stream /\ \A j : Live!Parts(j)' = Live!Parts(j)
  OBVIOUS
<1>1. \A j : Live!Parts(j)' = Live!Parts(j)
  BY Zenon DEF Live!Parts
<1>2. \A j : Live!Bytes(j)' = Live!Bytes(j)
  BY Zenon DEF Live!Bytes, Live!Parts
<1>3. Live!Stream' = Live!Stream
  BY <1>1, <1>2 DEF Live!Stream
<1>. QED
  BY <1>1, <1>3

LEMMA LiveInvInit == Live!Init => LiveInv
<1> SUFFICES ASSUME Live!Init PROVE LiveInv
  OBVIOUS
<1>1. lines \in Seq(LineSet)
  <2>1. lines \in UNION {[1..m -> LineSet] : m \in 0..MaxLines}
    BY Zenon DEF Live!Init, Live!BoundedSeq, Live!SeqOf, LineSet
  <2>2. PICK m \in 0..MaxLines : lines \in [1..m -> LineSet]
    BY <2>1
  <2>. QED
    BY <2>2
<1>2. size \in 0..Len(Live!Stream) /\ pos = 0 /\ tracker = Live!NewTracker /\ fate = "reading"
  BY DEF Live!Init
<1>3. pos \in 0..size
  BY <1>1, <1>2, StreamFacts
<1>4. VerdictIgnoresCuts
  BY <1>2 DEF VerdictIgnoresCuts, Live!VerdictIgnoresCuts
<1>. QED
  BY <1>1, <1>2, <1>3, <1>4, StartTracked DEF LiveInv, Tracked

LEMMA IdleLiveInv == LiveIdle => LiveInv
<1> SUFFICES ASSUME LiveIdle PROVE LiveInv
  OBVIOUS
<1>1. lines = <<>> /\ size = 0 /\ pos = 0 /\ tracker = Live!NewTracker /\ fate = "reading"
  BY DEF LiveIdle
<1>2. lines \in Seq(LineSet)
  BY <1>1
<1>3. VerdictIgnoresCuts
  BY <1>1 DEF VerdictIgnoresCuts, Live!VerdictIgnoresCuts
<1>4. size \in 0..Len(Live!Stream) /\ pos \in 0..size
  BY <1>1, <1>2, StreamFacts
<1>. QED
  BY <1>1, <1>2, <1>3, <1>4, StartTracked DEF LiveInv, Tracked

\* What a tracker at the end of i pieces makes of the key is what they say.
LEMMA FinalFacts ==
    ASSUME lines \in Seq(LineSet), NEW i \in 0..Len(Live!Stream), NEW t, Tracks(t, Live!Stream, i)
    PROVE  LET u == Live!Final(t) s == Live!Stream IN
           /\ u.terminal = "failed" => SentType(s, i, "failed")
           /\ Live!Healthy(u) => /\ SentType(s, i, "completed") \/ SentType(s, i, "incomplete")
                                /\ ~SentType(s, i, "failed")
           /\ ~Live!Healthy(u) /\ (\A j \in DOMAIN lines : ~lines[j].long)
                => SentType(s, i, "failed") \/ ~(SentType(s, i, "completed") \/ SentType(s, i, "incomplete"))
<1> DEFINE u == Live!Final(t)
           s == Live!Stream
<1>1. u = Live!processLine(t, t.pending)
  BY DEF Live!Final
<1>2. u \in Trackers /\ u.parseErr = t.parseErr /\ Believes(u, s, i) /\ Knows(u, s, i)
  BY <1>1, StreamFacts, MaxPendingAssumption, Processed
<1>3. Cuts(t)
  BY DEF Tracks
<1> HIDE DEF u, s
<1>4. u.terminal = "failed" => SentType(s, i, "failed")
  BY <1>2 DEF Believes
<1>5. Live!Healthy(u) => (SentType(s, i, "completed") \/ SentType(s, i, "incomplete")) /\ ~SentType(s, i, "failed")
  BY <1>2 DEF Believes, Knows, Live!Healthy
<1>6. ~Live!Healthy(u) /\ (\A j \in DOMAIN lines : ~lines[j].long)
       => SentType(s, i, "failed") \/ ~(SentType(s, i, "completed") \/ SentType(s, i, "incomplete"))
  BY <1>2, <1>3, <1>4 DEF Knows, Cuts, Live!Healthy, Trackers
<1>. QED
  BY <1>4, <1>5, <1>6 DEF u, s

LEMMA ReceivedIsSent == ASSUME NEW type PROVE Live!Received(type) <=> SentType(Live!Stream, pos, type)
  BY DEF Live!Received, SentType

LEMMA FirstContentType ==
    ASSUME NEW n \in Nat PROVE Live!FirstContent(n) \in 0..n
<1> DEFINE whole == {j \in DOMAIN lines : \E x \in 1..n : Live!Stream[x] = <<j, 0>>}
           begun == {j \in DOMAIN lines : \E x \in 1..n : Live!Stream[x][1] = j}
           skipped(j) == inbound = "responses" /\ j \in whole /\ lines[j].type = "created"
           found == {j \in begun : ~skipped(j) /\ \A i \in 1..(j - 1) : skipped(i)}
           over == {j \in begun : lines[j].long}
           refused == {j \in whole : inbound = "responses" /\ lines[j].type \in {"failed", "incomplete"}}
           read == {x \in 1..n : \E j \in found \ refused :
                                 Live!Stream[x][1] <= j /\ \A i \in over : j < i}
           P(k) == \A x \in read : x <= k
<1>1. Live!FirstContent(n) = CHOOSE k \in {0} \cup read : P(k)
  BY Zenon DEF Live!FirstContent
<1>2. read \subseteq 1..n
  OBVIOUS
<1> HIDE DEF read
<1>3. \E k \in {0} \cup read : P(k)
  <2> DEFINE S == {0} \cup read
  <2>1. S \subseteq 0..n /\ S # {}
    BY <1>2
  <2> HIDE DEF S
  <2>2. \E k \in S : \A x \in S : x <= k
    BY <2>1, LargestExists
  <2>. QED
    BY <2>2 DEF S
<1>4. Live!FirstContent(n) \in {0} \cup read
  <2> HIDE DEF P
  <2>. QED
    BY <1>1, <1>3, Zenon
<1> HIDE DEF P
<1>5. Live!FirstContent(n) = 0 \/ Live!FirstContent(n) \in 1..n
  BY <1>2, <1>4, Zenon
<1>. QED
  BY <1>5

LEMMA TracksNext ==
    ASSUME lines' = lines, Tracks(tracker', Live!Stream, pos')
    PROVE  Tracks(tracker, Live!Stream, pos)'
<1> DEFINE t == tracker'
           s == Live!Stream
           i == pos'
<1>1. Live!Stream' = s /\ \A j : Live!Parts(j)' = Live!Parts(j)
  BY StreamStays
<1>2. Tracks(t, s, i)
  OBVIOUS
<1>3. t \in Trackers /\ HoldsRest(t, s, i) /\ Believes(t, s, i) /\ Knows(t, s, i - 1) /\ Cuts(t)
  BY <1>2 DEF Tracks
<1> HIDE DEF s
<1>4. HoldsRest(tracker, Live!Stream, pos)'
  BY <1>1, <1>3, Zenon DEF HoldsRest
<1>5. \A k, type : SentType(s, k, type) <=>
        \E j \in DOMAIN lines' : lines'[j].type = type /\ \E x \in 1..k : s[x] = <<j, Live!Parts(j)'>>
  BY <1>1, Zenon DEF SentType
<1>6. Believes(tracker, Live!Stream, pos)'
  BY <1>1, <1>3, <1>5, Zenon DEF Believes, SentType
<1>7. Knows(tracker, Live!Stream, pos - 1)'
  BY <1>1, <1>3, <1>5, Zenon DEF Knows, SentType
<1>8. Cuts(tracker)'
  BY <1>3, Zenon DEF Cuts
<1>9. Trackers' = Trackers
  BY DEF Trackers
<1>. QED
  BY <1>3, <1>4, <1>6, <1>7, <1>8, <1>9, Zenon DEF Tracks

LEMMA ReceivedNext ==
    ASSUME lines' = lines, NEW type
    PROVE  Live!Received(type)' <=> SentType(Live!Stream, pos', type)
<1>1. Live!Stream' = Live!Stream /\ \A j : Live!Parts(j)' = Live!Parts(j)
  BY StreamStays
<1>. QED
  BY <1>1, Zenon DEF Live!Received, SentType

LEMMA VerdictStays ==
    ASSUME fate' \notin {"success", "failure"} PROVE VerdictIgnoresCuts'
BY DEF VerdictIgnoresCuts, Live!VerdictIgnoresCuts

LEMMA ReadFirstTracked ==
    ASSUME LiveInv, Live!ReadFirst PROVE LiveInv'
<1> USE DEF LiveInv
<1> DEFINE first == Live!FirstContent(size)
           s == Live!Stream
<1>0. /\ lines' = lines /\ size' = size /\ inbound' = inbound /\ lines \in Seq(LineSet)
      /\ fate = "reading" /\ tracker = Live!NewTracker /\ pos = 0 /\ size \in Nat
      /\ s \in Seq(LinePiece) /\ Len(s) \in Nat /\ size <= Len(s) /\ IsStream(s) /\ s' = s
  <2>1. s \in Seq(LinePiece) /\ Len(s) \in Nat /\ IsStream(s)
    BY StreamFacts
  <2>2. lines' = lines /\ size' = size /\ inbound' = inbound /\ fate = "reading"
    BY DEF Live!ReadFirst
  <2> HIDE DEF s
  <2>3. size \in Nat /\ size <= Len(s)
    BY <2>1 DEF s
  <2>. QED
    BY <2>1, <2>2, <2>3, StreamStays DEF s
<1>1. first \in 0..size
  BY <1>0, FirstContentType
<1> HIDE DEF first, s
<1>2. CASE fate' \in {"failover", "none"} /\ UNCHANGED <<pos, tracker>>
  <2>1. pos' \in 0..size'
    BY <1>0, <1>2
  <2>2. size' \in 0..Len(Live!Stream')
    BY <1>0 DEF s
  <2>. QED
    BY <1>0, <1>2, <2>1, <2>2, VerdictStays DEF Tracked
<1>3. CASE /\ fate' = "copying" /\ pos' = first
           /\ tracker' = IF inbound = "responses" THEN Live!feed(tracker, SubSeq(s, 1, first)) ELSE tracker
  <2>1. pos' \in 0..size' /\ size' \in 0..Len(Live!Stream')
    BY <1>0, <1>1, <1>3 DEF s
  <2>2. ASSUME inbound = "responses" PROVE Tracks(tracker', s, pos')
    <3> DEFINE chunk == SubSeq(s, 1, first)
    <3>1. chunk \in Seq(LinePiece) /\ Len(chunk) = first /\ \A x \in 1..Len(chunk) : chunk[x] = s[0 + x]
      BY <1>0, <1>1
    <3>2. Tracks(tracker, s, 0)
      BY <1>0, StartTracked
    <3> HIDE DEF chunk
    <3>3. 0 + Len(chunk) <= Len(s) /\ 0 + Len(chunk) = first /\ 0 \in Nat
      BY <1>0, <1>1, <3>1
    <3>4. Tracks(Live!feed(tracker, chunk), s, 0 + Len(chunk))
      BY <1>0, <3>1, <3>2, <3>3, MaxPendingAssumption, FeedTracked
    <3>. QED
      BY <1>3, <2>2, <3>3, <3>4 DEF chunk
  <2>3. Tracked'
    BY <1>0, <2>2, TracksNext DEF Tracked, s
  <2>. QED
    BY <1>0, <1>3, <2>1, <2>3, VerdictStays
<1>. QED
  BY <1>2, <1>3, Zenon DEF Live!ReadFirst, first, s

LEMMA CopyChunkTracked ==
    ASSUME LiveInv, NEW n \in 1..(size - pos), Live!CopyChunk(n) PROVE LiveInv'
<1> USE DEF LiveInv
<1> DEFINE s == Live!Stream
           chunk == SubSeq(s, pos + 1, pos + n)
<1>0. /\ lines' = lines /\ size' = size /\ inbound' = inbound /\ fate = "copying"
      /\ pos' = pos + n
      /\ tracker' = IF inbound = "responses" THEN Live!feed(tracker, chunk) ELSE tracker
      /\ \/ fate' = "copying"
         \/ fate' = IF inbound = "responses" /\ Live!Final(tracker').terminal = "failed"
                       THEN "failure" ELSE "none"
  BY Zenon DEF Live!CopyChunk
<1>1. s \in Seq(LinePiece) /\ Len(s) \in Nat /\ IsStream(s) /\ s' = s /\ lines \in Seq(LineSet)
  BY <1>0, StreamFacts, StreamStays
<1>2. size \in 0..Len(s) /\ pos \in 0..size
  OBVIOUS
<1> HIDE DEF s
<1>3. pos \in Nat /\ n \in Nat /\ pos + n <= size /\ pos + n \in 0..Len(s) /\ pos' \in 0..size'
      /\ size' \in 0..Len(s)
  BY <1>0, <1>1, <1>2
<1>4. ASSUME inbound = "responses" PROVE Tracks(tracker', s, pos')
  <2>1. chunk \in Seq(LinePiece) /\ Len(chunk) = n /\ \A x \in 1..Len(chunk) : chunk[x] = s[pos + x]
    BY <1>1, <1>3
  <2>2. Tracks(tracker, s, pos)
    BY <1>0, <1>4 DEF Tracked, s
  <2> HIDE DEF chunk
  <2>3. pos + Len(chunk) <= Len(s) /\ pos + Len(chunk) = pos'
    BY <1>0, <1>1, <1>3, <2>1
  <2>4. Tracks(Live!feed(tracker, chunk), s, pos + Len(chunk))
    BY <1>1, <1>3, <2>1, <2>2, <2>3, MaxPendingAssumption, FeedTracked
  <2>. QED
    BY <1>0, <1>4, <2>3, <2>4
<1>5. Tracked'
  BY <1>0, <1>4, TracksNext DEF Tracked, s
<1>6. VerdictIgnoresCuts'
  <2>1. CASE fate' \notin {"success", "failure"}
    BY <2>1, VerdictStays
  <2>2. CASE inbound = "responses" /\ Live!Final(tracker').terminal = "failed" /\ fate' = "failure"
    <3>1. pos' \in 0..Len(s)
      BY <1>0, <1>3
    <3>2. SentType(s, pos', "failed")
      BY <1>1, <1>4, <2>2, <3>1, FinalFacts DEF s
    <3>3. Live!Received("failed")'
      BY <1>0, <3>2, ReceivedNext DEF s
    <3>. QED
      BY <2>2, <3>3, Zenon DEF VerdictIgnoresCuts, Live!VerdictIgnoresCuts
  <2>. QED
    BY <1>0, <2>1, <2>2
<1>. QED
  BY <1>0, <1>1, <1>3, <1>5, <1>6 DEF s

LEMMA BodyEndsTracked ==
    ASSUME LiveInv, NEW broken, Live!BodyEnds(broken) PROVE LiveInv'
<1> USE DEF LiveInv
<1> DEFINE s == Live!Stream
           u == Live!Final(tracker)
<1>0. /\ lines' = lines /\ size' = size /\ inbound' = inbound /\ fate = "copying" /\ pos' = pos
      /\ fate' = CASE inbound = "responses" /\ u.terminal = "failed" -> "failure"
                   [] broken -> "none"
                   [] inbound = "responses" /\ ~Live!Healthy(u) -> "failure"
                   [] OTHER -> "success"
  BY Zenon DEF Live!BodyEnds
<1>1. Len(s) \in Nat /\ s' = s /\ size \in 0..Len(s) /\ pos \in 0..size
  BY <1>0, StreamFacts, StreamStays
<1> HIDE DEF s
<1>2. pos \in 0..Len(s)
  BY <1>1
<1>3. ASSUME inbound = "responses"
      PROVE  /\ u.terminal = "failed" => SentType(s, pos, "failed")
             /\ Live!Healthy(u) => /\ SentType(s, pos, "completed") \/ SentType(s, pos, "incomplete")
                                  /\ ~SentType(s, pos, "failed")
             /\ ~Live!Healthy(u) /\ (\A j \in DOMAIN lines : ~lines[j].long)
                => SentType(s, pos, "failed") \/ ~(SentType(s, pos, "completed") \/ SentType(s, pos, "incomplete"))
  <2>1. Tracks(tracker, s, pos)
    BY <1>0, <1>3 DEF Tracked, s
  <2>. QED
    BY <1>2, <2>1, FinalFacts DEF s
<1> HIDE DEF u
<1>4. \A type : Live!Received(type)' <=> SentType(s, pos, type)
  BY <1>0, ReceivedNext DEF s
<1>5. /\ fate' \in {"failure", "none", "success"}
      /\ inbound = "responses" /\ fate' = "success" => Live!Healthy(u)
      /\ inbound = "responses" /\ fate' = "failure" => u.terminal = "failed" \/ ~Live!Healthy(u)
  BY <1>0
<1>6. VerdictIgnoresCuts'
  BY <1>0, <1>3, <1>4, <1>5, Zenon DEF VerdictIgnoresCuts, Live!VerdictIgnoresCuts, Live!TerminalReceived
<1>7. Tracked' /\ fate' # "reading"
  BY <1>5 DEF Tracked
<1>. QED
  BY <1>0, <1>1, <1>6, <1>7 DEF s

LEMMA LiveInvNext ==
    ASSUME LiveInv, Live!Next \/ UNCHANGED liveVars PROVE LiveInv'
<1>1. CASE UNCHANGED liveVars
  <2>1. lines' = lines /\ size' = size /\ pos' = pos /\ tracker' = tracker /\ fate' = fate /\ inbound' = inbound
    BY <1>1 DEF liveVars
  <2>2. Live!Stream' = Live!Stream
    BY <2>1, StreamStays
  <2>3. Tracked'
    BY <2>1, TracksNext DEF LiveInv, Tracked
  <2>4. \A type : Live!Received(type)' <=> Live!Received(type)
    BY <2>1, ReceivedNext, ReceivedIsSent
  <2>5. VerdictIgnoresCuts'
    BY <2>1, <2>4, Zenon DEF LiveInv, VerdictIgnoresCuts, Live!VerdictIgnoresCuts, Live!TerminalReceived
  <2>. QED
    BY <2>1, <2>2, <2>3, <2>5 DEF LiveInv
<1>. QED
  BY <1>1, ReadFirstTracked, CopyChunkTracked, BodyEndsTracked DEF Live!Next

\* A key is marked by what the complete lines its client received say, however
\* io.Copy cut the stream, for streams of any length, lines of any size and any
\* limit on what the tracker holds (responsesSSETracker.feed and Finalize, and
\* the marks of proxySameProtocolSSELive).
THEOREM VerdictsIgnoreCuts == ConversionSpec => []VerdictIgnoresCuts
<1>1. ConversionInit => LiveInv
  BY LiveInvInit, IdleLiveInv DEF ConversionInit
<1>2. LiveInv /\ [ConversionNext]_<<vars, liveVars, messageVars, route>> => LiveInv'
  BY LiveInvNext, Zenon DEF ConversionNext
<1>3. LiveInv => VerdictIgnoresCuts
  BY DEF LiveInv
<1>. QED
  BY <1>1, <1>2, <1>3, PTL DEF ConversionSpec

----------------------------------------------------------------------------
(* The calls of a message                                                  *)

\* Calls with valid names.
Valid == Calls \ invalid

\* What ValidCalls keeps of a call.
ValidOf == [c \in Calls |-> IF c \in invalid THEN <<>> ELSE <<c>>]

LEMMA ValidMeasure == Measure(ValidOf, Calls, Valid)
<1>1. ASSUME NEW c \in Calls PROVE (IF c \in invalid THEN <<>> ELSE <<c>>) \in Seq(Valid)
  <2>1. c \notin invalid => c \in Valid
    BY DEF Valid
  <2>. QED
    BY <2>1
<1>. QED
  BY <1>1 DEF Measure, ValidOf

LEMMA ValidIsSum ==
    ASSUME NEW q \in Seq(Calls) PROVE Message!ValidCalls(q) = Sum(ValidOf, q)
<1>1. \A j \in DOMAIN q : q[j] \in Calls
  OBVIOUS
<1>2. Mapped(ValidOf, q) = [j \in DOMAIN q |-> IF q[j] \in invalid THEN <<>> ELSE <<q[j]>>]
  BY <1>1 DEF Mapped, ValidOf
<1>. QED
  BY <1>2, Zenon DEF Message!ValidCalls, Sum

LEMMA ValidType ==
    ASSUME NEW q \in Seq(Calls) PROVE Message!ValidCalls(q) \in Seq(Valid)
BY ValidMeasure, ValidIsSum, SumType, Zenon

LEMMA ValidTwice ==
    ASSUME NEW q \in Seq(Valid) PROVE Message!ValidCalls(q) = q
<1>1. DOMAIN q = 1..Len(q) /\ \A j \in 1..Len(q) : q[j] \notin invalid
  <2>1. \A j \in 1..Len(q) : q[j] \in Valid
    OBVIOUS
  <2>. QED
    BY <2>1 DEF Valid
<1>2. [j \in DOMAIN q |-> IF q[j] \in invalid THEN <<>> ELSE <<q[j]>>] = [j \in DOMAIN q |-> <<q[j]>>]
  BY <1>1
<1>. QED
  BY <1>2, FlattenSingles, Zenon DEF Message!ValidCalls

----------------------------------------------------------------------------
(* The types of messages                                                   *)

\* Texts, ids and roles; content blocks, outputs, wire messages and IRMessages.
Payload == Nat \X (Calls \cup {"think", "text"})
Phrase == Seq(Payload)
Ids == Calls \cup {""}
Roles == {"user", "system", "assistant", "tool"}
BlockSet == [t : {"thinking", "text", "tool_result", "tool_use"}, text : Phrase, id : Ids]
OutSet == [id : Calls, text : Phrase]
WireSet == [role : Roles, think : Phrase, text : Phrase, calls : Seq(Calls), outs : Seq(OutSet)]
IRSet == [role : Roles, text : Phrase, content : Seq(BlockSet), calls : Seq(Calls), callId : Ids]

\* What a message may hold, by its role and protocol.
Shaped(w) ==
    /\ w.role # "assistant" => w.think = <<>> /\ w.calls = <<>>
    /\ w.role \in {"system", "assistant"} => w.outs = <<>>
    /\ from = "messages" => w.role \in {"user", "assistant"}
    /\ from # "messages" =>
          /\ w.role = "tool" <=> w.outs # <<>>
          /\ w.outs # <<>> => w.text = <<>> /\ Len(w.outs) = 1
    /\ from = "responses" =>
          /\ Len(w.calls) <= 1
          /\ w.calls # <<>> => w.think = <<>> /\ w.text = <<>>
          /\ w.think # <<>> => w.text = <<>>

LEMMA IdTypes == Calls \subseteq Ids /\ "" \in Ids
BY Zenon DEF Ids

\* The outputs among messages; one of them under its call.
OutputsOf(messages) == {j \in 1..Len(messages) : Message!IsTool(messages[j])}
Result(m, call) == [m EXCEPT !.role = "tool", !.callId = call, !.calls = <<>>]

\* Calls with their outputs, as pairCalls collects them.
Pairs(messages) ==
    {p \in [calls : Seq(Valid), outs : Seq(IRSet), used : SUBSET OutputsOf(messages)] :
        /\ Len(p.outs) = Len(p.calls)
        /\ \A k \in 1..Len(p.calls) : \E a \in OutputsOf(messages) : p.outs[k] = Result(messages[a], p.calls[k])}

LEMMA ResultType ==
    ASSUME NEW m \in IRSet, NEW call \in Calls
    PROVE  /\ Result(m, call) \in IRSet
           /\ Result(m, call).role = "tool" /\ Result(m, call).callId = call /\ Result(m, call).calls = <<>>
           /\ Result(m, call).text = m.text /\ Result(m, call).content = m.content
<1> DEFINE z == <<>>
<1>1. z \in Seq(Calls) /\ call \in Ids /\ "tool" \in Roles
  <2>1. call \in Ids
    BY IdTypes
  <2>. QED
    BY <2>1 DEF Roles
<1> HIDE DEF z
<1>. QED
  BY <1>1 DEF IRSet, Result, z

LEMMA PairOuts ==
    ASSUME NEW messages \in Seq(IRSet), NEW p \in Pairs(messages), NEW k \in 1..Len(p.calls)
    PROVE  /\ p.calls[k] \in Calls
           /\ p.outs[k].role = "tool" /\ p.outs[k].callId = p.calls[k] /\ p.outs[k].calls = <<>>
<1>1. p.calls \in Seq(Valid)
  BY DEF Pairs
<1>2. p.calls[k] \in Calls
  BY <1>1 DEF Valid
<1>3. PICK a \in OutputsOf(messages) : p.outs[k] = Result(messages[a], p.calls[k])
  BY DEF Pairs
<1>4. messages[a] \in IRSet
  BY DEF OutputsOf
<1>. QED
  BY <1>2, <1>3, <1>4, ResultType

\* What findToolOutput looks for.
Answering(messages, used, start, call, j) ==
    /\ j \in start..Len(messages) /\ j \notin used
    /\ Message!IsTool(messages[j]) /\ messages[j].callId = call

LEMMA FindFirst ==
    ASSUME NEW messages, Len(messages) \in Nat, NEW used, NEW start \in Nat, start > 0, NEW call,
           NEW a, a = Message!findToolOutput(messages, used, start, call)
    PROVE  \/ a = 0 /\ \A j : ~Answering(messages, used, start, call, j)
           \/ /\ a # 0 /\ a \in OutputsOf(messages) /\ Answering(messages, used, start, call, a)
              /\ \A j : Answering(messages, used, start, call, j) => a <= j
<1> DEFINE found == {j \in start..Len(messages) :
                        j \notin used /\ Message!IsTool(messages[j]) /\ messages[j].callId = call}
           P(j) == \A k \in found : j <= k
<1>1. Message!findToolOutput(messages, used, start, call) = IF found = {} THEN 0 ELSE CHOOSE j \in found : P(j)
  BY Zenon DEF Message!findToolOutput
<1>2. found \subseteq start..Len(messages) /\ found \subseteq Nat
  OBVIOUS
<1> HIDE DEF found
<1>3. found # {} => \E j \in found : P(j)
  <2>1. IsFiniteSet(found)
    <3>1. IsFiniteSet(start..Len(messages))
      BY FS_Interval
    <3>. QED
      BY <1>2, <3>1, FS_Subset
  <2>. QED
    BY <1>2, <2>1, LeastExists
<1> HIDE DEF P
<1>4. found # {} => a \in found /\ P(a)
  BY <1>1, <1>3, Zenon
<1>5. found = {} => a = 0
  BY <1>1, Zenon
<1>6. \A j : j \in found <=> Answering(messages, used, start, call, j)
  BY DEF Answering, found
<1>7. CASE found = {}
  BY <1>5, <1>6, <1>7
<1>8. CASE found # {}
  <2>1. a \in found /\ P(a)
    BY <1>4, <1>8
  <2>2. a # 0 /\ a \in 1..Len(messages)
    BY <1>2, <2>1
  <2>3. a \in OutputsOf(messages)
    BY <1>6, <2>1, <2>2, Zenon DEF Answering, OutputsOf
  <2>. QED
    BY <1>6, <2>1, <2>2, <2>3, Zenon DEF P
<1>. QED
  BY <1>7, <1>8

LEMMA PairsGrow ==
    ASSUME NEW messages \in Seq(IRSet), NEW p \in Pairs(messages), NEW call \in Valid, NEW at \in OutputsOf(messages)
    PROVE  [calls |-> Append(p.calls, call), used |-> p.used \cup {at},
            outs |-> Append(p.outs, Result(messages[at], call))] \in Pairs(messages)
<1> DEFINE x == Result(messages[at], call)
           cs == Append(p.calls, call)
           os == Append(p.outs, x)
           us == p.used \cup {at}
           T == OutputsOf(messages)
           is(k, c, o) == \E a \in T : o = Result(messages[a], c)
<1>1. p.calls \in Seq(Valid) /\ p.outs \in Seq(IRSet) /\ p.used \in SUBSET T
      /\ Len(p.outs) = Len(p.calls) /\ \A k \in 1..Len(p.calls) : is(k, p.calls[k], p.outs[k])
  BY DEF Pairs
<1>2. x \in IRSet
  <2>1. messages[at] \in IRSet /\ call \in Calls
    BY DEF OutputsOf, Valid
  <2>. QED
    BY <2>1, ResultType, Zenon
<1>0. is(0, call, x)
  BY Zenon
<1> HIDE DEF x, T, is
<1>3. cs \in Seq(Valid) /\ Len(cs) = Len(p.calls) + 1 /\ Len(p.calls) \in Nat
      /\ cs[Len(p.calls) + 1] = call /\ \A k \in 1..Len(p.calls) : cs[k] = p.calls[k]
  BY <1>1
<1>4. os \in Seq(IRSet) /\ Len(os) = Len(p.calls) + 1
      /\ os[Len(p.calls) + 1] = x /\ \A k \in 1..Len(p.calls) : os[k] = p.outs[k]
  BY <1>1, <1>2
<1>5. us \in SUBSET T
  BY <1>1 DEF T
<1> HIDE DEF cs, os, us
<1>6. ASSUME NEW k \in 1..Len(cs) PROVE is(k, cs[k], os[k])
  <2>1. k = Len(p.calls) + 1 \/ k \in 1..Len(p.calls)
    BY <1>3
  <2>2. CASE k = Len(p.calls) + 1
    BY <1>0, <1>3, <1>4, <2>2 DEF is
  <2>3. CASE k \in 1..Len(p.calls)
    BY <1>1, <1>3, <1>4, <2>3
  <2>. QED
    BY <2>1, <2>2, <2>3
<1>7. [calls |-> cs, used |-> us, outs |-> os] \in Pairs(messages)
  <2>1. Len(os) = Len(cs) /\ [calls |-> cs, used |-> us, outs |-> os] \in [calls : Seq(Valid), outs : Seq(IRSet), used : SUBSET T]
    BY <1>3, <1>4, <1>5
  <2>2. \A k \in 1..Len(cs) : \E a \in T : os[k] = Result(messages[a], cs[k])
    BY <1>6, Zenon DEF is
  <2>. QED
    BY <2>1, <2>2 DEF Pairs, T
<1>. QED
  BY <1>7 DEF cs, us, os, x

\* f is what pairCalls has after each of the calls.
PairSteps(f, messages, used, i, q) ==
    /\ f[0].calls = <<>> /\ f[0].outs = <<>> /\ f[0].used = used
    /\ \A j \in 0..Len(q) : f[j] \in Pairs(messages)
    /\ \A j \in 1..Len(q) :
          \/ f[j] = f[j - 1] /\ 0 = Message!findToolOutput(messages, f[j - 1].used, i + 1, q[j])
          \/ \E a \in OutputsOf(messages) :
                /\ a = Message!findToolOutput(messages, f[j - 1].used, i + 1, q[j])
                /\ f[j].calls = Append(f[j - 1].calls, q[j]) /\ f[j].used = f[j - 1].used \cup {a}
                /\ f[j].outs = Append(f[j - 1].outs, Result(messages[a], q[j]))
    /\ Message!pairCalls(messages, used, i) = f[Len(q)]

LEMMA PairCallsSteps ==
    ASSUME NEW messages \in Seq(IRSet), NEW used \in SUBSET OutputsOf(messages), NEW i \in 1..Len(messages)
    PROVE  \E f : PairSteps(f, messages, used, i, Message!ValidCalls(messages[i].calls))
<1> DEFINE q == Message!ValidCalls(messages[i].calls)
           m == Len(q)
           e == <<>>
           z == [calls |-> e, outs |-> e, used |-> used]
           at(p, call) == Message!findToolOutput(messages, p.used, i + 1, call)
           G(p, call, a) == [calls |-> Append(p.calls, call), used |-> p.used \cup {a},
                             outs |-> Append(p.outs, [messages[a] EXCEPT !.role = "tool",
                                                        !.callId = call, !.calls = <<>>])]
           B(j, p) == IF at(p, q[j]) = 0 THEN p ELSE G(p, q[j], at(p, q[j]))
           P == Pairs(messages)
           s == [x \in (1..m) \X P |-> B(x[1], x[2])]
           R(f) == f = [j \in 0..m |-> IF j = 0 THEN z ELSE B(j, f[j - 1])]
<1>0. messages[i] \in IRSet /\ Len(messages) \in Nat
  OBVIOUS
<1>1. q \in Seq(Valid)
  BY <1>0, ValidType DEF IRSet
<1>2. m \in Nat /\ \A j \in 1..m : q[j] \in Valid
  <2> HIDE DEF q
  <2>. QED
    BY <1>1
<1>3. z \in P
  <2>1. e \in Seq(Valid) /\ e \in Seq(IRSet) /\ Len(e) = 0
    OBVIOUS
  <2> HIDE DEF e
  <2>. QED
    BY <2>1 DEF Pairs
<1>4. ASSUME NEW j \in 1..m, NEW p \in P
      PROVE  \/ B(j, p) = p /\ 0 = at(p, q[j])
             \/ \E a \in OutputsOf(messages) : a = at(p, q[j]) /\ B(j, p) = G(p, q[j], a)
  <2> DEFINE a == at(p, q[j])
  <2>2. a = 0 \/ a \in OutputsOf(messages)
    <3>1. i + 1 \in Nat /\ i + 1 > 0
      OBVIOUS
    <3> HIDE DEF q
    <3>. QED
      BY <1>0, <3>1, FindFirst, Zenon
  <2> HIDE DEF q
  <2>3. CASE a = 0
    BY <2>3, Zenon
  <2>4. CASE a # 0
    BY <2>2, <2>4, Zenon
  <2>. QED
    BY <2>3, <2>4
<1>12. ASSUME NEW j \in 1..m, NEW p \in P PROVE B(j, p) \in P
  <2>1. q[j] \in Valid
    BY <1>2
  <2>2. ASSUME NEW a \in OutputsOf(messages) PROVE G(p, q[j], a) \in P
    <3> HIDE DEF q
    <3>1. [calls |-> Append(p.calls, q[j]), used |-> p.used \cup {a},
           outs |-> Append(p.outs, Result(messages[a], q[j]))] \in P
      BY <2>1, PairsGrow, Zenon
    <3>. QED
      BY <3>1, Zenon DEF Result
  <2> HIDE DEF B, G, P, at, q
  <2>. QED
    BY <1>4, <2>2, Zenon
<1>5. Message!pairCalls(messages, used, i) = (CHOOSE x : R(x))[m]
  BY Zenon DEF Message!pairCalls, Message!Fold
<1> HIDE DEF B, q, z, m, P
<1>6. \E f : R(f)
  <2>1. s \in Steps(P, m)
    BY <1>12 DEF Steps
  <2>2. PICK f : Recursive(f, P, z, m, s)
    <3> HIDE DEF s
    <3>. QED
      BY <1>2, <1>3, <2>1, RecursionExists
  <2>3. f \in [0..m -> P] /\ \A j \in 0..m : f[j] = IF j = 0 THEN z ELSE s[<<j, f[j - 1]>>]
    BY <2>2, Zenon DEF Recursive
  <2>4. ASSUME NEW j \in 0..m PROVE f[j] = IF j = 0 THEN z ELSE B(j, f[j - 1])
    <3>1. j # 0 => j \in 1..m /\ f[j - 1] \in P
      BY <1>2, <2>3
    <3>2. j # 0 => s[<<j, f[j - 1]>>] = B(j, f[j - 1])
      BY <3>1
    <3>. QED
      BY <2>3, <3>2, Zenon
  <2>5. f = [j \in 0..m |-> f[j]]
    BY <2>3
  <2>. QED
    BY <2>4, <2>5, Zenon
<1> DEFINE f == CHOOSE x : R(x)
<1>7. R(f)
  BY <1>6, Zenon
<1> HIDE DEF f
<1>8. \A j \in 0..m : f[j] = IF j = 0 THEN z ELSE B(j, f[j - 1])
  BY <1>7, Zenon
<1>9. ASSUME NEW j \in 1..m PROVE f[j] = B(j, f[j - 1])
  <2>1. j \in 0..m /\ j # 0
    BY <1>2
  <2>. QED
    BY <1>8, <2>1, Zenon
<1>10. f[0] = z
  BY <1>2, <1>8
<1>11. \A j \in 0..m : f[j] \in P
  BY <1>2, <1>3, <1>9, <1>10, <1>12, RecursionHolds
<1>13. f[0].calls = e /\ f[0].outs = e /\ f[0].used = used
  <2> HIDE DEF e
  <2>. QED
    BY <1>10 DEF z
<1>14. ASSUME NEW j \in 1..m
       PROVE  \/ f[j] = f[j - 1] /\ 0 = at(f[j - 1], q[j])
              \/ \E a \in OutputsOf(messages) :
                    /\ a = at(f[j - 1], q[j])
                    /\ f[j].calls = Append(f[j - 1].calls, q[j]) /\ f[j].used = f[j - 1].used \cup {a}
                    /\ f[j].outs = Append(f[j - 1].outs, Result(messages[a], q[j]))
  <2> DEFINE p == f[j - 1]
  <2>1. p \in P /\ f[j] = B(j, p)
    <3>1. j - 1 \in 0..m
      BY <1>2
    <3>. QED
      BY <1>9, <1>11, <3>1
  <2> HIDE DEF p, at
  <2>2. CASE f[j] = p /\ 0 = at(p, q[j])
    BY <2>2 DEF p
  <2>3. ASSUME NEW a \in OutputsOf(messages), a = at(p, q[j]), f[j] = G(p, q[j], a)
        PROVE  /\ a = at(f[j - 1], q[j])
               /\ f[j].calls = Append(f[j - 1].calls, q[j]) /\ f[j].used = f[j - 1].used \cup {a}
               /\ f[j].outs = Append(f[j - 1].outs, Result(messages[a], q[j]))
    <3> DEFINE x == Result(messages[a], q[j])
    <3>1. f[j] = [calls |-> Append(p.calls, q[j]), used |-> p.used \cup {a}, outs |-> Append(p.outs, x)]
      BY <2>3, Zenon DEF Result
    <3> HIDE DEF x
    <3>2. f[j].calls = Append(p.calls, q[j]) /\ f[j].used = p.used \cup {a} /\ f[j].outs = Append(p.outs, x)
      BY <3>1
    <3>. QED
      BY <2>3, <3>2 DEF p, x
  <2> HIDE DEF G
  <2>. QED
    BY <1>4, <2>1, <2>2, <2>3, Zenon
<1>15. Message!pairCalls(messages, used, i) = f[m]
  BY <1>5, Zenon DEF f
<1> HIDE DEF R, s, G
<1>. QED
  BY <1>11, <1>13, <1>14, <1>15, Zenon DEF PairSteps, P, q, m

\* Every output that pairCalls returns answers the call at its place.
LEMMA PairCallsType ==
    ASSUME NEW messages \in Seq(IRSet), NEW used \in SUBSET OutputsOf(messages), NEW i \in 1..Len(messages)
    PROVE  Message!pairCalls(messages, used, i) \in Pairs(messages)
<1> DEFINE q == Message!ValidCalls(messages[i].calls)
<1>1. PICK f : PairSteps(f, messages, used, i, q)
  BY PairCallsSteps
<1>2. Len(q) \in 0..Len(q)
  <2>1. messages[i].calls \in Seq(Calls)
    <3>1. messages[i] \in IRSet
      OBVIOUS
    <3>. QED
      BY <3>1 DEF IRSet
  <2>2. q \in Seq(Valid)
    BY <2>1, ValidType
  <2> HIDE DEF q
  <2>. QED
    BY <2>2
<1>. QED
  BY <1>1, <1>2, Zenon DEF PairSteps

----------------------------------------------------------------------------
(* Pairing tool calls and outputs                                          *)

\* A Chat history in which calls and outputs stand as an upstream wants them.
Paired(o) ==
    \A j \in 1..Len(o) :
        /\ o[j].role = "tool" =>
              /\ o[j].calls = <<>>
              /\ \E i \in 1..(j - 1) : j - i <= Len(o[i].calls) /\ o[j].callId = o[i].calls[j - i]
        /\ \A k \in 1..Len(o[j].calls) :
              /\ j + k <= Len(o) /\ o[j + k].role = "tool"
              /\ o[j + k].callId = o[j].calls[k]
Chats == {o \in Seq(IRSet) : Paired(o) /\ \A j \in 1..Len(o) : o[j].calls \in Seq(Valid)}

LEMMA PlainPaired ==
    ASSUME NEW o \in Chats, NEW m \in IRSet, m.calls = <<>>, m.role # "tool"
    PROVE  Append(o, m) \in Chats
<1> DEFINE a == Append(o, m)
           z == <<>>
<1>1. o \in Seq(IRSet) /\ Paired(o) /\ \A j \in 1..Len(o) : o[j].calls \in Seq(Valid)
  BY DEF Chats
<1>2. a \in Seq(IRSet) /\ Len(a) = Len(o) + 1 /\ Len(o) \in Nat /\ a[Len(o) + 1] = m
      /\ \A j \in 1..Len(o) : a[j] = o[j]
  BY <1>1
<1>3. z \in Seq(Valid) /\ Len(z) = 0 /\ m.calls = z
  OBVIOUS
<1> HIDE DEF a, z
<1>4. ASSUME NEW j \in 1..Len(a)
      PROVE  /\ a[j].role = "tool" =>
                 /\ a[j].calls = z
                 /\ \E i \in 1..(j - 1) : j - i <= Len(a[i].calls) /\ a[j].callId = a[i].calls[j - i]
             /\ \A k \in 1..Len(a[j].calls) :
                   /\ j + k <= Len(a) /\ a[j + k].role = "tool"
                   /\ a[j + k].callId = a[j].calls[k]
             /\ a[j].calls \in Seq(Valid)
  <2>1. CASE j = Len(o) + 1
    <3>1. a[j].role # "tool" /\ a[j].calls = z
      BY <1>2, <1>3, <2>1
    <3>2. \A k \in 1..Len(a[j].calls) : FALSE
      BY <1>3, <3>1
    <3>. QED
      BY <1>3, <3>1, <3>2
  <2>2. CASE j \in 1..Len(o)
    <3>1. a[j] = o[j] /\ o[j].calls \in Seq(Valid)
      BY <1>1, <1>2, <2>2
    <3>2. ASSUME o[j].role = "tool"
          PROVE  /\ o[j].calls = z
                 /\ \E i \in 1..(j - 1) : j - i <= Len(a[i].calls) /\ o[j].callId = a[i].calls[j - i]
      <4>1. PICK i \in 1..(j - 1) : j - i <= Len(o[i].calls) /\ o[j].callId = o[i].calls[j - i]
        BY <1>1, <2>2, <3>2 DEF Paired
      <4>2. a[i] = o[i]
        BY <1>2, <2>2
      <4>3. o[j].calls = z
        BY <1>1, <2>2, <3>2 DEF Paired, z
      <4>. QED
        BY <4>1, <4>2, <4>3
    <3>3. ASSUME NEW k \in 1..Len(o[j].calls)
          PROVE  j + k <= Len(a) /\ a[j + k].role = "tool" /\ a[j + k].callId = o[j].calls[k]
      <4>1. j + k <= Len(o) /\ o[j + k].role = "tool" /\ o[j + k].callId = o[j].calls[k]
        BY <1>1, <2>2 DEF Paired
      <4>2. j + k \in 1..Len(o)
        <5>1. Len(o[j].calls) \in Nat
          BY <3>1
        <5>. QED
          BY <1>2, <2>2, <4>1, <5>1
      <4>. QED
        BY <1>2, <4>1, <4>2
    <3>. QED
      BY <3>1, <3>2, <3>3
  <2>. QED
    BY <1>2, <2>1, <2>2
<1>5. Paired(a)
  BY <1>4, Zenon DEF Paired, z
<1>. QED
  BY <1>2, <1>4, <1>5 DEF Chats, a

\* A message with calls and, right after it, their outputs.
LEMMA GroupPaired ==
    ASSUME NEW o \in Chats, NEW messages \in Seq(IRSet), NEW p \in Pairs(messages), NEW m \in IRSet,
           m.calls = p.calls, m.role = "assistant"
    PROVE  Append(o, m) \o p.outs \in Chats
<1> DEFINE b == Append(o, m)
           a == b \o p.outs
           n == Len(o) + 1
           z == <<>>
<1>1. o \in Seq(IRSet) /\ Paired(o) /\ \A j \in 1..Len(o) : o[j].calls \in Seq(Valid)
  BY DEF Chats
<1>2. /\ p.calls \in Seq(Valid) /\ p.outs \in Seq(IRSet) /\ Len(p.outs) = Len(p.calls)
      /\ \A k \in 1..Len(p.calls) :
            p.outs[k].role = "tool" /\ p.outs[k].callId = p.calls[k] /\ p.outs[k].calls = z
  <2>1. p.calls \in Seq(Valid) /\ p.outs \in Seq(IRSet) /\ Len(p.outs) = Len(p.calls)
    BY DEF Pairs
  <2>. QED
    BY <2>1, PairOuts
<1> DEFINE c == Len(p.calls)
<1>3. b \in Seq(IRSet) /\ Len(b) = n /\ Len(o) \in Nat /\ b[n] = m /\ \A j \in 1..Len(o) : b[j] = o[j]
  BY <1>1
<1>4. c \in Nat
  BY <1>2
<1>5. z \in Seq(Valid) /\ Len(z) = 0
  OBVIOUS
<1> HIDE DEF b, z
<1>6. a \in Seq(IRSet) /\ Len(a) = n + c /\ (\A j \in 1..n : a[j] = b[j])
      /\ \A k \in 1..c : a[n + k] = p.outs[k]
  <2>1. a \in Seq(IRSet) /\ Len(a) = n + c
    <3>1. a \in Seq(IRSet)
      BY <1>2, <1>3
    <3>2. Len(a) = Len(b) + Len(p.outs)
      <4> DEFINE w == p.outs
      <4>1. b \in Seq(IRSet) /\ w \in Seq(IRSet)
        BY <1>2, <1>3
      <4> HIDE DEF w
      <4>2. Len(b \o w) = Len(b) + Len(w)
        BY <4>1
      <4>. QED
        BY <4>2 DEF w
    <3>. QED
      BY <1>2, <1>3, <3>1, <3>2
  <2>2. \A j \in 1..n : a[j] = b[j]
    BY <1>2, <1>3
  <2>3. \A k \in 1..c : a[n + k] = p.outs[k]
    BY <1>2, <1>3, <1>4
  <2>. QED
    BY <2>1, <2>2, <2>3
<1> HIDE DEF a, c
<1>7. n \in Nat /\ n = Len(o) + 1 /\ (\A j \in 1..Len(o) : a[j] = o[j]) /\ a[n] = m
  BY <1>3, <1>6
<1> HIDE DEF n
<1>8. ASSUME NEW j \in 1..Len(a)
      PROVE  /\ a[j].role = "tool" =>
                 /\ a[j].calls = z
                 /\ \E i \in 1..(j - 1) : j - i <= Len(a[i].calls) /\ a[j].callId = a[i].calls[j - i]
             /\ \A k \in 1..Len(a[j].calls) :
                   /\ j + k <= Len(a) /\ a[j + k].role = "tool"
                   /\ a[j + k].callId = a[j].calls[k]
             /\ a[j].calls \in Seq(Valid)
  <2>1. CASE j = n
    <3>1. a[j].role # "tool" /\ a[j].calls = p.calls
      BY <1>7, <2>1
    <3>2. ASSUME NEW k \in 1..Len(p.calls)
          PROVE j + k <= Len(a) /\ a[j + k].role = "tool" /\ a[j + k].callId = p.calls[k]
      <4>1. k \in 1..c /\ c = Len(p.calls)
        BY DEF c
      <4>2. a[j + k] = p.outs[k] /\ j + k <= Len(a)
        BY <1>4, <1>6, <1>7, <2>1, <4>1
      <4>. QED
        BY <1>2, <4>2
    <3>. QED
      BY <1>2, <3>1, <3>2
  <2>2. CASE j \in 1..Len(o)
    <3>1. a[j] = o[j] /\ o[j].calls \in Seq(Valid)
      BY <1>1, <1>7, <2>2
    <3>2. ASSUME o[j].role = "tool"
          PROVE  /\ o[j].calls = z
                 /\ \E i \in 1..(j - 1) : j - i <= Len(a[i].calls) /\ o[j].callId = a[i].calls[j - i]
      <4>1. PICK i \in 1..(j - 1) : j - i <= Len(o[i].calls) /\ o[j].callId = o[i].calls[j - i]
        BY <1>1, <2>2, <3>2 DEF Paired
      <4>2. a[i] = o[i]
        BY <1>7, <1>3, <2>2
      <4>3. o[j].calls = z
        BY <1>1, <2>2, <3>2 DEF Paired, z
      <4>. QED
        BY <4>1, <4>2, <4>3
    <3>3. ASSUME NEW k \in 1..Len(o[j].calls)
          PROVE  j + k <= Len(a) /\ a[j + k].role = "tool" /\ a[j + k].callId = o[j].calls[k]
      <4>1. j + k <= Len(o) /\ o[j + k].role = "tool" /\ o[j + k].callId = o[j].calls[k]
        BY <1>1, <2>2 DEF Paired
      <4>2. j + k \in 1..Len(o)
        <5>1. Len(o[j].calls) \in Nat
          BY <3>1
        <5>. QED
          BY <1>3, <2>2, <4>1, <5>1
      <4>3. Len(o) <= Len(a)
        BY <1>3, <1>4, <1>6, <1>7
      <4>. QED
        BY <1>3, <1>7, <4>1, <4>2, <4>3, <1>6, <1>4
    <3>. QED
      BY <3>1, <3>2, <3>3
  <2>3. CASE j \in (n + 1)..(n + c)
    <3> DEFINE k == j - n
    <3>1. k \in 1..c /\ n + k = j /\ n \in 1..(j - 1) /\ c = Len(p.calls)
      <4>1. j \in Int /\ n + 1 <= j /\ j <= n + c /\ n \in Nat /\ n >= 1 /\ c \in Nat
        BY <1>3, <1>4, <1>7, <2>3
      <4>2. k \in 1..c /\ n + k = j
        BY <4>1
      <4>3. n \in 1..(j - 1)
        BY <4>1
      <4>. QED
        BY <4>2, <4>3 DEF c
    <3> HIDE DEF k
    <3>2. a[j] = p.outs[k]
      BY <1>6, <3>1
    <3>3. a[j].calls = z /\ a[j].callId = p.calls[k]
      BY <1>2, <3>1, <3>2
    <3>4. a[n].calls = p.calls /\ j - n = k
      BY <1>7 DEF k
    <3>5. j - n <= Len(a[n].calls) /\ a[j].callId = a[n].calls[j - n]
      BY <3>1, <3>3, <3>4
    <3>6. \A l \in 1..Len(a[j].calls) : FALSE
      BY <1>5, <3>3
    <3>. QED
      BY <1>5, <3>1, <3>3, <3>5, <3>6
  <2>4. j = n \/ j \in 1..Len(o) \/ j \in (n + 1)..(n + c)
    BY <1>3, <1>4, <1>6, <1>7
  <2>. QED
    BY <2>1, <2>2, <2>3, <2>4
<1>9. Paired(a)
  BY <1>8, Zenon DEF Paired, z
<1>. QED
  BY <1>6, <1>8, <1>9 DEF Chats, a, b

\* The state of normalizeChatHistory.
Normal(messages) == {r \in [out : Seq(IRSet), used : SUBSET OutputsOf(messages)] : r.out \in Chats}

LEMMA EmptyChats == <<>> \in Chats
<1> DEFINE z == <<>>
<1>1. z \in Seq(IRSet) /\ Len(z) = 0
  OBVIOUS
<1> HIDE DEF z
<1>2. z \in Chats
  BY <1>1 DEF Chats, Paired
<1>. QED
  BY <1>2 DEF z

\* A message without its calls, and at the head of its calls' outputs.
Plain(m) == [m EXCEPT !.calls = <<>>]
Leading(m, p) == [m EXCEPT !.role = "assistant", !.calls = p.calls]

LEMMA PlainType ==
    ASSUME NEW m \in IRSet
    PROVE  /\ Plain(m) \in IRSet /\ Plain(m).calls = <<>> /\ Plain(m).role = m.role
           /\ Plain(m).text = m.text /\ Plain(m).content = m.content /\ Plain(m).callId = m.callId
<1> DEFINE z == <<>>
<1>1. z \in Seq(Calls)
  OBVIOUS
<1> HIDE DEF z
<1>. QED
  BY <1>1 DEF IRSet, Plain, z

LEMMA LeadingType ==
    ASSUME NEW messages \in Seq(IRSet), NEW p \in Pairs(messages), NEW m \in IRSet
    PROVE  /\ Leading(m, p) \in IRSet /\ Leading(m, p).calls = p.calls /\ Leading(m, p).role = "assistant"
           /\ Leading(m, p).text = m.text /\ Leading(m, p).content = m.content
           /\ Leading(m, p).callId = m.callId
<1> DEFINE q == p.calls
<1>1. q \in Seq(Calls) /\ "assistant" \in Roles
  <2>1. q \in Seq(Valid)
    BY DEF Pairs
  <2> HIDE DEF q
  <2>. QED
    BY <2>1 DEF Valid, Roles
<1> HIDE DEF q
<1>. QED
  BY <1>1 DEF IRSet, Leading, q

\* What a message adds to the history: nothing if it is an output or has nothing
\* but unanswered calls; else itself, with its answered calls and their outputs.
Becomes(messages, r, i, x) ==
    LET m == messages[i]
        p == Message!pairCalls(messages, r.used, i)
    IN  \/ x = r /\ Message!IsTool(m)
        \/ x = r /\ ~Message!IsTool(m) /\ Message!visibleText(m) = <<>> /\ Message!thinkingText(m) = <<>>
           /\ p.calls = <<>>
        \/ ~Message!IsTool(m) /\ x = [out |-> Append(r.out, Plain(m)), used |-> r.used]
           /\ (Message!ValidCalls(m.calls) = <<>> \/ p.calls = <<>>)
        \/ ~Message!IsTool(m) /\ x = [out |-> Append(r.out, Leading(m, p)) \o p.outs, used |-> p.used]

LEMMA NormalizeMessageCases ==
    ASSUME NEW messages \in Seq(IRSet), NEW r \in Normal(messages), NEW i \in 1..Len(messages)
    PROVE  Becomes(messages, r, i, Message!normalizeMessage(messages, r, i))
<1> DEFINE m == messages[i]
           p == Message!pairCalls(messages, r.used, i)
           x == Message!normalizeMessage(messages, r, i)
           tool == Message!IsTool(m)
           busy == i \in r.used \/ tool
           none == Message!ValidCalls(m.calls) = <<>>
           called == p.calls # <<>>
           payload == Message!visibleText(m) # <<>> \/ Message!thinkingText(m) # <<>>
           a == [r EXCEPT !.out = Append(@, Plain(m))]
           b == [out |-> Append(r.out, Leading(m, p)) \o p.outs, used |-> p.used]
           c == [r EXCEPT !.out = IF payload THEN Append(@, Plain(m)) ELSE @]
           g == [out |-> Append(r.out, Plain(m)), used |-> r.used]
<1>1. r \in [out : Seq(IRSet), used : SUBSET OutputsOf(messages)]
  BY DEF Normal
<1>2. x = CASE busy -> r
           [] ~busy /\ none -> a
           [] ~busy /\ called -> b
           [] OTHER -> c
  BY Zenon DEF Message!normalizeMessage, Plain, Leading
<1>3. busy <=> tool
  BY <1>1 DEF OutputsOf
<1> DEFINE o == Append(r.out, Plain(m))
<1>4. a = g /\ (payload => c = g) /\ (~payload => c = r)
  <2> HIDE DEF o, payload
  <2>1. [r EXCEPT !.out = o] = [out |-> o, used |-> r.used] /\ [r EXCEPT !.out = r.out] = r
    BY <1>1
  <2>2. a = [r EXCEPT !.out = o] /\ g = [out |-> o, used |-> r.used]
    BY Zenon DEF o
  <2>3. payload => c = [r EXCEPT !.out = o]
    BY Zenon DEF o
  <2>4. ~payload => c = [r EXCEPT !.out = r.out]
    BY Zenon
  <2>. QED
    BY <2>1, <2>2, <2>3, <2>4, Zenon
<1>5. \/ busy /\ x = r
      \/ ~busy /\ none /\ x = a
      \/ ~busy /\ called /\ x = b
      \/ ~busy /\ ~called /\ x = c
  <2> HIDE DEF busy, none, called, a, b, c, x
  <2>. QED
    BY <1>2
<1>6. Becomes(messages, r, i, x) <=>
        \/ x = r /\ tool
        \/ x = r /\ ~tool /\ Message!visibleText(m) = <<>> /\ Message!thinkingText(m) = <<>> /\ ~called
        \/ ~tool /\ x = g /\ (none \/ ~called)
        \/ ~tool /\ x = b
  BY Zenon DEF Becomes
<1>7. ~payload => Message!visibleText(m) = <<>> /\ Message!thinkingText(m) = <<>>
  BY Zenon
<1> HIDE DEF busy, tool, none, called, a, b, c, g, x, payload
<1>. QED
  BY <1>3, <1>4, <1>5, <1>6, <1>7, Zenon DEF x

LEMMA NormalizeMessageType ==
    ASSUME NEW messages \in Seq(IRSet), NEW r \in Normal(messages), NEW i \in 1..Len(messages)
    PROVE  Message!normalizeMessage(messages, r, i) \in Normal(messages)
<1> DEFINE m == messages[i]
           z == <<>>
           p == Message!pairCalls(messages, r.used, i)
           plain == Plain(m)
           head == Leading(m, p)
           x == Message!normalizeMessage(messages, r, i)
<1>1. m \in IRSet /\ r.out \in Chats /\ r.used \in SUBSET OutputsOf(messages)
  BY DEF Normal
<1>2. p \in Pairs(messages)
  BY <1>1, PairCallsType
<1>3. p.used \in SUBSET OutputsOf(messages)
  BY <1>2 DEF Pairs
<1>4. \/ x = r
      \/ ~Message!IsTool(m) /\ x = [out |-> Append(r.out, plain), used |-> r.used]
      \/ ~Message!IsTool(m) /\ x = [out |-> Append(r.out, head) \o p.outs, used |-> p.used]
  <2>1. Becomes(messages, r, i, x)
    BY NormalizeMessageCases, Zenon
  <2>. QED
    BY <2>1, Zenon DEF Becomes
<1>5. ASSUME NEW o \in Chats, NEW us \in SUBSET OutputsOf(messages), NEW y, y = [out |-> o, used |-> us]
      PROVE  y \in Normal(messages)
  BY <1>5 DEF Normal, Chats
<1>6. ASSUME ~Message!IsTool(m) PROVE Append(r.out, plain) \in Chats
  <2>1. m.role # "tool"
    BY <1>6, Zenon DEF Message!IsTool
  <2>2. plain \in IRSet /\ plain.calls = <<>> /\ plain.role = m.role
    BY <1>1, PlainType
  <2> HIDE DEF plain
  <2>. QED
    BY <1>1, <2>1, <2>2, PlainPaired
<1>7. Append(r.out, head) \o p.outs \in Chats
  <2>1. head \in IRSet /\ head.calls = p.calls /\ head.role = "assistant"
    BY <1>1, <1>2, LeadingType
  <2> HIDE DEF head, p
  <2>. QED
    BY <1>1, <1>2, <2>1, GroupPaired
<1> HIDE DEF x, plain, head, p
<1>. QED
  BY <1>1, <1>3, <1>4, <1>5, <1>6, <1>7, Zenon DEF x

\* f is what normalizeChatHistory has after each of the messages.
NormalSteps(f, messages) ==
    /\ f[0].out = <<>> /\ f[0].used = {}
    /\ \A j \in 0..Len(messages) : f[j] \in Normal(messages)
    /\ \A j \in 1..Len(messages) : f[j] = Message!normalizeMessage(messages, f[j - 1], j)
    /\ Message!normalizeChatHistory(messages) = f[Len(messages)].out

LEMMA NormalizeSteps ==
    ASSUME NEW messages \in Seq(IRSet)
    PROVE  \E f : NormalSteps(f, messages)
<1> DEFINE q == [i \in DOMAIN messages |-> i]
           N == Normal(messages)
           m == Len(q)
           e == <<>>
           z == [out |-> e, used |-> {}]
           B(j, r) == Message!normalizeMessage(messages, r, q[j])
           s == [x \in (1..m) \X N |-> B(x[1], x[2])]
           R(f) == f = [j \in 0..m |-> IF j = 0 THEN z ELSE B(j, f[j - 1])]
<1>1. m \in Nat /\ m = Len(messages) /\ \A j \in 1..m : q[j] = j /\ q[j] \in 1..Len(messages)
  <2>1. DOMAIN messages = 1..Len(messages) /\ Len(messages) \in Nat
    OBVIOUS
  <2>2. q \in [1..Len(messages) -> 1..Len(messages)]
    BY <2>1
  <2>3. m = Len(messages)
    BY <2>1, <2>2
  <2>. QED
    BY <2>1, <2>2, <2>3
<1>2. z \in N
  BY EmptyChats DEF Normal, Chats
<1>3. ASSUME NEW j \in 1..m, NEW r \in N PROVE B(j, r) \in N
  <2>1. q[j] \in 1..Len(messages)
    BY <1>1
  <2> HIDE DEF q
  <2>. QED
    BY <2>1, NormalizeMessageType
<1>4. Message!normalizeChatHistory(messages) = (CHOOSE x : R(x))[m].out
  BY Zenon DEF Message!normalizeChatHistory, Message!Fold
<1> HIDE DEF B, q, z, m, N
<1>5. \E f : R(f)
  <2>1. s \in Steps(N, m)
    BY <1>3 DEF Steps
  <2>2. PICK f : Recursive(f, N, z, m, s)
    <3> HIDE DEF s
    <3>. QED
      BY <1>1, <1>2, <2>1, RecursionExists
  <2>3. f \in [0..m -> N] /\ \A j \in 0..m : f[j] = IF j = 0 THEN z ELSE s[<<j, f[j - 1]>>]
    BY <2>2, Zenon DEF Recursive
  <2>4. ASSUME NEW j \in 0..m PROVE f[j] = IF j = 0 THEN z ELSE B(j, f[j - 1])
    <3>1. j # 0 => j \in 1..m /\ f[j - 1] \in N
      BY <1>1, <2>3
    <3>2. j # 0 => s[<<j, f[j - 1]>>] = B(j, f[j - 1])
      BY <3>1
    <3>. QED
      BY <2>3, <3>2, Zenon
  <2>5. f = [j \in 0..m |-> f[j]]
    BY <2>3
  <2>. QED
    BY <2>4, <2>5, Zenon
<1> DEFINE f == CHOOSE x : R(x)
<1>6. R(f)
  BY <1>5, Zenon
<1> HIDE DEF f
<1>7. \A j \in 0..m : f[j] = IF j = 0 THEN z ELSE B(j, f[j - 1])
  BY <1>6, Zenon
<1>8. ASSUME NEW j \in 1..m PROVE f[j] = B(j, f[j - 1])
  <2>1. j \in 0..m /\ j # 0
    BY <1>1
  <2>. QED
    BY <1>7, <2>1, Zenon
<1>9. f[0] = z
  BY <1>1, <1>7
<1>10. \A j \in 0..m : f[j] \in N
  <2>1. f[0] \in N
    BY <1>2, <1>9, Zenon
  <2>2. \A j \in 1..m : f[j - 1] \in N => f[j] \in N
    BY <1>3, <1>8, Zenon
  <2>. QED
    BY <1>1, <2>1, <2>2, RecursionHolds, Zenon
<1>11. f[0].out = <<>> /\ f[0].used = {}
  <2> HIDE DEF e
  <2>1. f[0].out = e /\ f[0].used = {}
    BY <1>9 DEF z
  <2>. QED
    BY <2>1 DEF e
<1>12. ASSUME NEW j \in 1..m PROVE f[j] = Message!normalizeMessage(messages, f[j - 1], j)
  BY <1>1, <1>8, Zenon DEF B
<1>13. Message!normalizeChatHistory(messages) = f[m].out
  BY <1>4, Zenon DEF f
<1> HIDE DEF R, s
<1>. QED
  BY <1>1, <1>10, <1>11, <1>12, <1>13, Zenon DEF NormalSteps, N

\* The history a Chat upstream gets pairs calls and outputs.
LEMMA NormalizeType ==
    ASSUME NEW messages \in Seq(IRSet)
    PROVE  Message!normalizeChatHistory(messages) \in Chats
<1>1. PICK f : NormalSteps(f, messages)
  BY NormalizeSteps
<1>2. Len(messages) \in 0..Len(messages)
  OBVIOUS
<1>3. f[Len(messages)] \in Normal(messages)
  BY <1>1, <1>2, Zenon DEF NormalSteps
<1>. QED
  BY <1>1, <1>3, Zenon DEF NormalSteps, Normal

----------------------------------------------------------------------------
(* Content blocks                                                          *)

\* What a block says.
TextIn(t) == [c \in BlockSet |-> IF c.t = t THEN c.text ELSE <<>>]

LEMMA TextMeasure == ASSUME NEW t PROVE Measure(TextIn(t), BlockSet, Payload)
<1>1. ASSUME NEW c \in BlockSet PROVE (IF c.t = t THEN c.text ELSE <<>>) \in Seq(Payload)
  <2>1. c.text \in Seq(Payload)
    BY DEF BlockSet, Phrase
  <2>. QED
    BY <2>1
<1>. QED
  BY <1>1 DEF Measure, TextIn

LEMMA TextIsSum ==
    ASSUME NEW content \in Seq(BlockSet), NEW t
    PROVE  Message!TextOf(content, t) = Sum(TextIn(t), content)
<1>1. \A j \in DOMAIN content : content[j] \in BlockSet
  OBVIOUS
<1>2. Mapped(TextIn(t), content) = [j \in DOMAIN content |-> IF content[j].t = t THEN content[j].text ELSE <<>>]
  BY <1>1 DEF Mapped, TextIn
<1>. QED
  BY <1>2, Zenon DEF Message!TextOf, Sum

LEMMA TextOfType ==
    ASSUME NEW content \in Seq(BlockSet), NEW t
    PROVE  Message!TextOf(content, t) \in Phrase
<1>1. Measure(TextIn(t), BlockSet, Payload)
  BY TextMeasure
<1>2. Sum(TextIn(t), content) \in Seq(Payload)
  BY <1>1, SumType, Zenon
<1>. QED
  BY <1>2, TextIsSum DEF Phrase

LEMMA BlockTypes ==
    ASSUME NEW t \in {"thinking", "text", "tool_result", "tool_use"}, NEW text \in Phrase, NEW id \in Ids
    PROVE  Message!Block(t, text, id) \in BlockSet
BY DEF Message!Block, BlockSet

LEMMA BlocksType ==
    ASSUME NEW t \in {"thinking", "text"}, NEW text \in Phrase
    PROVE  Message!Blocks(t, text) \in Seq(BlockSet)
<1> DEFINE b == Message!Block(t, text, "")
<1>1. b \in BlockSet
  BY IdTypes, BlockTypes, Zenon
<1>2. Message!Blocks(t, text) = IF text = <<>> THEN <<>> ELSE <<b>>
  BY Zenon DEF Message!Blocks
<1> HIDE DEF b
<1>. QED
  BY <1>1, <1>2

LEMMA AppendToType ==
    ASSUME NEW content \in Seq(BlockSet), NEW t \in {"thinking", "text"}, NEW text \in Phrase
    PROVE  Message!AppendTo(content, t, text) \in Seq(BlockSet)
<1> DEFINE first == Message!SelectInSeq(content, LAMBDA c : c.t = t)
           b == Message!Block(t, text, "")
<1>1. b \in BlockSet
  BY IdTypes, BlockTypes, Zenon
<1>2. Message!AppendTo(content, t, text) =
        IF Message!HasType(content, t) THEN [content EXCEPT ![first].text = @ \o text]
        ELSE Append(content, b)
  BY Zenon DEF Message!AppendTo
<1> HIDE DEF first, b
<1>3. [content EXCEPT ![first].text = @ \o text] \in Seq(BlockSet)
  <2> DEFINE x == [content[first] EXCEPT !.text = @ \o text]
             y == [content EXCEPT ![first] = x]
  <2>1. first \in 1..Len(content) => x \in BlockSet
    <3>1. ASSUME NEW a \in Phrase PROVE a \o text \in Phrase
      BY DEF Phrase
    <3>2. first \in 1..Len(content) => content[first] \in BlockSet
      OBVIOUS
    <3>. QED
      BY <3>1, <3>2 DEF BlockSet
  <2> HIDE DEF x
  <2>2. y \in [1..Len(content) -> BlockSet]
    <3>1. content \in [1..Len(content) -> BlockSet]
      OBVIOUS
    <3>. QED
      BY <2>1, <3>1
  <2>3. y \in Seq(BlockSet)
    <3> HIDE DEF y
    <3>. QED
      BY <2>2
  <2>. QED
    BY <2>3 DEF x
<1>4. Append(content, b) \in Seq(BlockSet)
  BY <1>1
<1>. QED
  BY <1>2, <1>3, <1>4, Zenon

LEMMA IRType ==
    ASSUME NEW role \in Roles, NEW text \in Phrase, NEW content \in Seq(BlockSet),
           NEW calls \in Seq(Calls), NEW id \in Ids
    PROVE  Message!IR(role, text, content, calls, id) \in IRSet
BY DEF Message!IR, IRSet

LEMMA ValidCallsType ==
    ASSUME NEW q \in Seq(Calls) PROVE Message!ValidCalls(q) \in Seq(Calls)
BY ValidType DEF Valid

----------------------------------------------------------------------------
(* What messages say                                                       *)

LEMMA SumEmpty ==
    ASSUME NEW S, NEW T, NEW g, Measure(g, S, T), NEW ws \in Seq(S),
           \A j \in 1..Len(ws) : g[ws[j]] = <<>>
    PROVE  Sum(g, ws) = <<>>
<1> DEFINE m == Mapped(g, ws)
           f == [j \in 0..Len(ws) |-> <<>>]
<1>1. m \in Seq(Seq(T)) /\ Len(m) = Len(ws) /\ \A j \in 1..Len(ws) : m[j] = g[ws[j]]
  <2>1. Maps(g, ws, T)
    BY MapType, Zenon
  <2>. QED
    BY <2>1, Zenon DEF Maps
<1>2. Len(ws) \in Nat
  OBVIOUS
<1>3. f[0] = <<>> /\ f[Len(ws)] = <<>> /\ \A j \in 1..Len(ws) : f[j] = f[j - 1] \o <<>>
  BY <1>2
<1> HIDE DEF m, f
<1>4. \A j \in 1..Len(m) : f[j] = f[j - 1] \o m[j]
  BY <1>1, <1>3
<1>5. Message!FlattenSeq(m) = f[Len(m)]
  BY <1>1, <1>3, <1>4, FlattenUnique
<1>. QED
  BY <1>1, <1>3, <1>5, Zenon DEF Sum, m

\* An equation of TextOf, under a name.
Reads(a, b, t) == Message!TextOf(a \o b, t) = Message!TextOf(a, t) \o Message!TextOf(b, t)

LEMMA TextConcat ==
    ASSUME NEW a \in Seq(BlockSet), NEW b \in Seq(BlockSet), NEW t
    PROVE  Reads(a, b, t)
<1>1. Adds(TextIn(t), a, b)
  BY TextMeasure, SumConcat, Zenon
<1>2. a \o b \in Seq(BlockSet)
  OBVIOUS
<1>. QED
  BY <1>1, <1>2, TextIsSum, Zenon DEF Adds, Reads

\* Blocks of other types say nothing.
LEMMA OtherText ==
    ASSUME NEW content \in Seq(BlockSet), NEW t, ~Message!HasType(content, t)
    PROVE  Message!TextOf(content, t) = <<>>
<1>1. ASSUME NEW j \in 1..Len(content) PROVE TextIn(t)[content[j]] = <<>>
  <2>1. j \in DOMAIN content /\ content[j] \in BlockSet
    OBVIOUS
  <2>2. content[j].t # t
    BY <2>1, Zenon DEF Message!HasType
  <2>. QED
    BY <2>1, <2>2 DEF TextIn
<1>2. Sum(TextIn(t), content) = <<>>
  BY <1>1, TextMeasure, SumEmpty, Zenon
<1>. QED
  BY <1>2, TextIsSum, Zenon

LEMMA BlockText ==
    ASSUME NEW b \in BlockSet, NEW t
    PROVE  Message!TextOf(<<b>>, t) = IF b.t = t THEN b.text ELSE <<>>
<1>1. <<b>> \in Seq(BlockSet)
  OBVIOUS
<1>2. Single(TextIn(t), b)
  BY TextMeasure, SumOne, Zenon
<1>3. TextIn(t)[b] = IF b.t = t THEN b.text ELSE <<>>
  BY DEF TextIn
<1>. QED
  BY <1>1, <1>2, <1>3, TextIsSum, Zenon DEF Single

LEMMA NoText == ASSUME NEW t PROVE Message!TextOf(<<>>, t) = <<>>
<1>1. <<>> \in Seq(BlockSet) /\ DOMAIN <<>> = {}
  OBVIOUS
<1>2. ~Message!HasType(<<>>, t)
  BY <1>1 DEF Message!HasType
<1>. QED
  BY <1>1, <1>2, OtherText

LEMMA BlocksText ==
    ASSUME NEW t \in {"thinking", "text"}, NEW text \in Phrase, NEW u
    PROVE  Message!TextOf(Message!Blocks(t, text), u) = IF u = t THEN text ELSE <<>>
<1> DEFINE b == Message!Block(t, text, "")
<1>1. b \in BlockSet
  BY IdTypes, BlockTypes, Zenon
<1>2. Message!Blocks(t, text) = IF text = <<>> THEN <<>> ELSE <<b>>
  BY Zenon DEF Message!Blocks
<1>3. b.t = t /\ b.text = text
  BY DEF Message!Block
<1> HIDE DEF b
<1>4. Message!TextOf(<<b>>, u) = IF t = u THEN text ELSE <<>>
  BY <1>1, <1>3, BlockText, Zenon
<1>. QED
  BY <1>2, <1>4, NoText, Zenon

\* A text and the blocks it became.
Heard(m, think, text) ==
    /\ Message!TextOf(m.content, "thinking") = think
    /\ Message!TextOf(m.content, "text") = text

LEMMA MsgMsgSays ==
    ASSUME NEW w \in WireSet
    PROVE  /\ Message!msgMsgToIR(w).role = w.role
           /\ Message!msgMsgToIR(w).calls = Message!ValidCalls(w.calls)
           /\ Message!msgMsgToIR(w).text \in {w.text, <<>>}
           /\ Message!msgMsgToIR(w).callId = IF w.outs = <<>> THEN "" ELSE Message!Last(w.outs).id
           /\ Heard(Message!msgMsgToIR(w), w.think, w.text)
<1> DEFINE e == <<>>
           a == Message!Blocks("thinking", w.think)
           results == [j \in DOMAIN w.outs |-> Message!Block("tool_result", w.outs[j].text, w.outs[j].id)]
           b == Message!Blocks("text", w.text)
           uses == [j \in DOMAIN w.calls |-> Message!Block("tool_use", e, w.calls[j])]
           content == a \o results \o b \o uses
           plain == Len(content) = 1 /\ Message!HasType(content, "text")
           text == IF plain THEN w.text ELSE e
           id == IF w.outs = <<>> THEN "" ELSE Message!Last(w.outs).id
           m == Message!msgMsgToIR(w)
<1>1. /\ w.think \in Phrase /\ w.text \in Phrase /\ w.calls \in Seq(Calls)
      /\ w.outs \in Seq(OutSet)
  BY DEF WireSet
<1>2. m = Message!IR(w.role, text, content, Message!ValidCalls(w.calls), id)
  BY Zenon DEF Message!msgMsgToIR
<1>3. results \in Seq(BlockSet) /\ \A j \in DOMAIN results : results[j].t = "tool_result"
  <2>1. DOMAIN w.outs = 1..Len(w.outs) /\ Len(w.outs) \in Nat /\ \A j \in 1..Len(w.outs) : w.outs[j] \in OutSet
    BY <1>1
  <2>2. ASSUME NEW j \in 1..Len(w.outs)
        PROVE  /\ Message!Block("tool_result", w.outs[j].text, w.outs[j].id) \in BlockSet
               /\ Message!Block("tool_result", w.outs[j].text, w.outs[j].id).t = "tool_result"
    <3>1. w.outs[j].text \in Phrase /\ w.outs[j].id \in Ids
      BY <2>1, IdTypes DEF OutSet
    <3>. QED
      BY <3>1, BlockTypes DEF Message!Block
  <2>3. results \in [1..Len(w.outs) -> BlockSet] /\ \A j \in 1..Len(w.outs) : results[j].t = "tool_result"
    BY <2>1, <2>2
  <2> HIDE DEF results
  <2>. QED
    BY <2>1, <2>3
<1>4. uses \in Seq(BlockSet) /\ \A j \in DOMAIN uses : uses[j].t = "tool_use"
  <2>1. DOMAIN w.calls = 1..Len(w.calls) /\ Len(w.calls) \in Nat /\ \A j \in 1..Len(w.calls) : w.calls[j] \in Calls
    BY <1>1
  <2>0. e \in Phrase
    BY DEF Phrase
  <2> HIDE DEF e
  <2>2. ASSUME NEW j \in 1..Len(w.calls)
        PROVE  /\ Message!Block("tool_use", e, w.calls[j]) \in BlockSet
               /\ Message!Block("tool_use", e, w.calls[j]).t = "tool_use"
    BY <2>0, <2>1, IdTypes, BlockTypes DEF Message!Block
  <2>3. uses \in [1..Len(w.calls) -> BlockSet] /\ \A j \in 1..Len(w.calls) : uses[j].t = "tool_use"
    BY <2>1, <2>2
  <2> HIDE DEF uses
  <2>. QED
    BY <2>1, <2>3
<1>5. a \in Seq(BlockSet) /\ b \in Seq(BlockSet)
  BY <1>1, BlocksType
<1>6. m.role = w.role /\ m.calls = Message!ValidCalls(w.calls) /\ m.content = content /\ m.text = text
      /\ m.callId = id
  <2> HIDE DEF content, text, id, m
  <2>. QED
    BY <1>2 DEF Message!IR
<1>7. ASSUME NEW t \in {"thinking", "text"}
      PROVE  Message!TextOf(content, t) = IF t = "thinking" THEN w.think ELSE w.text
  <2>1. Message!TextOf(results, t) = e /\ Message!TextOf(uses, t) = e
    <3>1. ~Message!HasType(results, t) /\ ~Message!HasType(uses, t)
      <4> HIDE DEF results, uses
      <4>. QED
        BY <1>3, <1>4 DEF Message!HasType
    <3>. QED
      BY <1>3, <1>4, <3>1, OtherText, Zenon
  <2>2. /\ Message!TextOf(a, t) = IF t = "thinking" THEN w.think ELSE e
        /\ Message!TextOf(b, t) = IF t = "text" THEN w.text ELSE e
    BY <1>1, BlocksText
  <2> HIDE DEF a, b, results, uses, e
  <2>3. a \o results \in Seq(BlockSet) /\ (a \o results) \o b \in Seq(BlockSet)
    BY <1>3, <1>5
  <2>4. Reads(a, results, t) /\ Reads(a \o results, b, t) /\ Reads((a \o results) \o b, uses, t)
    BY <1>3, <1>4, <1>5, <2>3, TextConcat, Zenon
  <2>5. Message!TextOf(content, t) = ((Message!TextOf(a, t) \o Message!TextOf(results, t))
                                        \o Message!TextOf(b, t)) \o Message!TextOf(uses, t)
    BY <2>4, Zenon DEF Reads
  <2>6. e \o w.text = w.text /\ w.text \o e = w.text /\ w.think \o e = w.think /\ e \o e = e
    BY <1>1 DEF e, Phrase
  <2> HIDE DEF content
  <2>7. CASE t = "thinking"
    BY <2>1, <2>2, <2>5, <2>6, <2>7, Zenon
  <2>8. CASE t = "text"
    BY <2>1, <2>2, <2>5, <2>6, <2>8, Zenon
  <2>. QED
    BY <2>7, <2>8
<1>8. text \in {w.text, <<>>}
  <2> HIDE DEF plain
  <2>. QED
    OBVIOUS
<1> HIDE DEF content, text, id, m
<1>9. Message!TextOf(content, "thinking") = w.think /\ Message!TextOf(content, "text") = w.text
  BY <1>7
<1>. QED
  BY <1>6, <1>8, <1>9, Zenon DEF Heard, m, id

\* Blocks that are neither calls nor outputs.
Clean(content) ==
    content \in Seq(BlockSet) /\ \A j \in 1..Len(content) : content[j].t \in {"thinking", "text"}

LEMMA CleanConcat ==
    ASSUME NEW a, NEW b, Clean(a), Clean(b)
    PROVE  Clean(a \o b)
<1> DEFINE c == a \o b
<1>1. c \in Seq(BlockSet) /\ Len(c) = Len(a) + Len(b)
      /\ \A j \in 1..(Len(a) + Len(b)) : c[j] = IF j <= Len(a) THEN a[j] ELSE b[j - Len(a)]
  BY ConcatProperties DEF Clean
<1>2. Len(a) \in Nat /\ Len(b) \in Nat
  BY DEF Clean
<1> HIDE DEF c
<1>3. ASSUME NEW j \in 1..Len(c) PROVE c[j].t \in {"thinking", "text"}
  <2>1. CASE j <= Len(a)
    <3>1. j \in 1..Len(a) /\ c[j] = a[j]
      BY <1>1, <1>2, <2>1
    <3>. QED
      BY <3>1 DEF Clean
  <2>2. CASE ~(j <= Len(a))
    <3>1. j - Len(a) \in 1..Len(b) /\ c[j] = b[j - Len(a)]
      BY <1>1, <1>2, <2>2
    <3>. QED
      BY <3>1 DEF Clean
  <2>. QED
    BY <2>1, <2>2
<1>4. Clean(c)
  BY <1>1, <1>3 DEF Clean
<1>. QED
  BY <1>4 DEF c

LEMMA CleanNone == Clean(<<>>)
BY DEF Clean

LEMMA CleanBlocks ==
    ASSUME NEW t \in {"thinking", "text"}, NEW text \in Phrase
    PROVE  Clean(Message!Blocks(t, text))
<1> DEFINE b == Message!Block(t, text, "")
<1>1. b \in BlockSet /\ b.t = t
  BY IdTypes, BlockTypes, Zenon DEF Message!Block
<1>2. Message!Blocks(t, text) = IF text = <<>> THEN <<>> ELSE <<b>>
  BY Zenon DEF Message!Blocks
<1> HIDE DEF b
<1>3. Clean(<<b>>)
  BY <1>1 DEF Clean
<1>. QED
  BY <1>2, <1>3, CleanNone, Zenon

\* A text that a message carries whole, in its field or in its blocks.
Tells(m, text) ==
    /\ m.text \in {text, <<>>}
    /\ Message!TextOf(m.content, "text") = text \/ (m.text = text /\ m.content = <<>>)

\* What a Chat message says, or the output in it.
ChatSaid(w) == IF w.outs = <<>> THEN w.text ELSE w.outs[1].text

LEMMA SaidType ==
    ASSUME NEW w \in WireSet PROVE ChatSaid(w) \in Phrase
<1>1. w.text \in Phrase /\ w.outs \in Seq(OutSet)
  BY DEF WireSet
<1>2. w.outs # <<>> => w.outs[1] \in OutSet
  BY <1>1
<1>3. \A o \in OutSet : o.text \in Phrase
  BY DEF OutSet
<1>. QED
  BY <1>1, <1>2, <1>3, Zenon DEF ChatSaid

\* A text after a reasoning block goes to a block of its own.
LEMMA AfterThought ==
    ASSUME NEW think \in Phrase, NEW said \in Phrase, think # <<>>, said # <<>>
    PROVE  Message!AppendTo(Message!Blocks("thinking", think), "text", said)
              = Message!Blocks("thinking", think) \o Message!Blocks("text", said)
<1> DEFINE x == Message!Block("thinking", think, "")
           y == Message!Block("text", said, "")
           a == <<x>>
<1>1. Message!Blocks("thinking", think) = a /\ Message!Blocks("text", said) = <<y>>
  BY Zenon DEF Message!Blocks
<1>2. x.t # "text"
  BY DEF Message!Block
<1> HIDE DEF x, y
<1>3. ~Message!HasType(a, "text") /\ Append(a, y) = a \o <<y>>
  <2>1. DOMAIN a = {1} /\ a[1] = x /\ Append(a, y) = a \o <<y>>
    OBVIOUS
  <2> HIDE DEF a
  <2>. QED
    BY <1>2, <2>1 DEF Message!HasType
<1> HIDE DEF a
<1>4. Message!AppendTo(a, "text", said) = Append(a, y)
  BY <1>3, Zenon DEF Message!AppendTo, y
<1>. QED
  BY <1>1, <1>3, <1>4, Zenon

\* Reasoning and text in blocks.
LEMMA BothHeard ==
    ASSUME NEW think \in Phrase, NEW text \in Phrase
    PROVE  /\ Message!TextOf(Message!Blocks("thinking", think) \o Message!Blocks("text", text), "thinking") = think
           /\ Message!TextOf(Message!Blocks("thinking", think) \o Message!Blocks("text", text), "text") = text
<1> DEFINE a == Message!Blocks("thinking", think)
           b == Message!Blocks("text", text)
<1>1. a \in Seq(BlockSet) /\ b \in Seq(BlockSet)
  BY BlocksType
<1>2. /\ Message!TextOf(a, "thinking") = think /\ Message!TextOf(a, "text") = <<>>
      /\ Message!TextOf(b, "thinking") = <<>> /\ Message!TextOf(b, "text") = text
  BY BlocksText
<1>3. think \o <<>> = think /\ <<>> \o text = text
  BY DEF Phrase
<1> HIDE DEF a, b
<1>4. Reads(a, b, "thinking") /\ Reads(a, b, "text")
  BY <1>1, TextConcat, Zenon
<1>. QED
  BY <1>2, <1>3, <1>4, Zenon DEF Reads, a, b

LEMMA ChatMsgSays ==
    ASSUME NEW w \in WireSet
    PROVE  /\ Message!chatMsgToIR(w) \in IRSet
           /\ Message!chatMsgToIR(w).role = w.role
           /\ Message!chatMsgToIR(w).calls = w.calls
           /\ Message!chatMsgToIR(w).callId = IF w.outs = <<>> THEN "" ELSE w.outs[1].id
           /\ Message!thinkingText(Message!chatMsgToIR(w)) = w.think
           /\ Clean(Message!chatMsgToIR(w).content)
           /\ Tells(Message!chatMsgToIR(w), ChatSaid(w))
           /\ form = "string" => Message!chatMsgToIR(w).text = ChatSaid(w)
<1> DEFINE e == <<>>
           said == ChatSaid(w)
           a == Message!Blocks("thinking", w.think)
           b == Message!Blocks("text", said)
           string == IF a = e \/ said = e THEN a ELSE Message!AppendTo(a, "text", said)
           text == IF form = "string" THEN said ELSE e
           content == IF form = "string" THEN string ELSE a \o b
           id == IF w.outs = <<>> THEN "" ELSE w.outs[1].id
           m == Message!chatMsgToIR(w)
<1>1. /\ w.role \in Roles /\ w.think \in Phrase /\ w.calls \in Seq(Calls) /\ w.outs \in Seq(OutSet)
      /\ said \in Phrase
  BY SaidType DEF WireSet
<1>2. m = Message!IR(w.role, text, content, w.calls, id)
  BY Zenon DEF Message!chatMsgToIR, ChatSaid
<1>3. m.role = w.role /\ m.calls = w.calls /\ m.content = content /\ m.text = text /\ m.callId = id
  <2> HIDE DEF text, content, id, m
  <2>. QED
    BY <1>2 DEF Message!IR
<1>4. Clean(a) /\ Clean(b) /\ Clean(a \o b)
  BY <1>1, CleanBlocks, CleanConcat, Zenon
<1>5. a = e <=> w.think = e
  <2> DEFINE x == Message!Block("thinking", w.think, "")
  <2> HIDE DEF x
  <2>1. a = IF w.think = e THEN e ELSE <<x>>
    BY Zenon DEF Message!Blocks, x
  <2>2. <<x>> # e
    OBVIOUS
  <2>. QED
    BY <2>1, <2>2, Zenon
<1>6. \/ /\ content = a /\ text = said
         /\ a = e \/ said = e
      \/ content = a \o b
  <2>1. a # e /\ said # e => Message!AppendTo(a, "text", said) = a \o b
    BY <1>1, <1>5, AfterThought, Zenon
  <2> HIDE DEF a, b, said, e
  <2>. QED
    BY <2>1, Zenon
<1>7. /\ Message!TextOf(a, "thinking") = w.think /\ Message!TextOf(a, "text") = e
      /\ Message!TextOf(a \o b, "thinking") = w.think /\ Message!TextOf(a \o b, "text") = said
  BY <1>1, BlocksText, BothHeard
<1>8. id \in Ids
  <2>1. w.outs # <<>> => w.outs[1] \in OutSet
    BY <1>1
  <2>2. w.outs # <<>> => w.outs[1].id \in Ids
    BY <2>1, IdTypes DEF OutSet
  <2>. QED
    BY <2>2, IdTypes, Zenon
<1>9. text \in Phrase /\ text \in {said, e}
  <2>1. e \in Phrase
    BY DEF Phrase
  <2> HIDE DEF e, said
  <2>. QED
    BY <1>1, <2>1
<1>0. form = "string" => text = said
  BY Zenon
<1> HIDE DEF content, text, id, m, a, b, said
<1>10. Clean(content) /\ Message!TextOf(content, "thinking") = w.think
  BY <1>4, <1>6, <1>7, Zenon
<1>11. Message!TextOf(content, "text") = said \/ (text = said /\ content = e)
  <2>1. CASE content = a /\ text = said /\ said = e
    BY <1>7, <2>1
  <2>2. CASE content = a /\ text = said /\ a = e
    BY <2>2, Zenon
  <2>3. CASE content = a \o b
    BY <1>7, <2>3
  <2>. QED
    BY <1>6, <2>1, <2>2, <2>3, Zenon
<1>12. m \in IRSet
  <2>1. content \in Seq(BlockSet)
    BY <1>10 DEF Clean
  <2>. QED
    BY <1>1, <1>2, <1>8, <1>9, <2>1, IRType, Zenon
<1>13. Tells(m, said)
  BY <1>3, <1>9, <1>11, Zenon DEF Tells
<1>14. Message!thinkingText(m) = w.think /\ Clean(m.content)
  BY <1>3, <1>10, Zenon DEF Message!thinkingText
<1>. QED
  BY <1>0, <1>3, <1>12, <1>13, <1>14, Zenon DEF m, id, said

LEMMA TellsVisible ==
    ASSUME NEW m, NEW text, Tells(m, text)
    PROVE  Message!visibleText(m) = text
<1>1. Message!visibleText(m) = IF m.text # <<>> THEN m.text ELSE Message!TextOf(m.content, "text")
  BY Zenon DEF Message!visibleText
<1>2. m.text = text \/ m.text = <<>>
  BY DEF Tells
<1>3. CASE Message!TextOf(m.content, "text") = text
  BY <1>1, <1>2, <1>3, Zenon
<1>4. CASE m.text = text /\ m.content = <<>>
  <2>1. Message!TextOf(m.content, "text") = <<>>
    BY <1>4, NoText, Zenon
  <2>. QED
    BY <1>1, <1>4, <2>1, Zenon
<1>. QED
  BY <1>3, <1>4, Zenon DEF Tells

LEMMA TellsInChat ==
    ASSUME NEW m, NEW text, Tells(m, text)
    PROVE  Message!irMsgToChat(m).text = text
<1> DEFINE o == IF m.callId = "" THEN <<>> ELSE <<m.callId>>
           t == IF m.content = <<>> THEN m.text ELSE Message!TextOf(m.content, "text")
<1>1. Message!irMsgToChat(m) = Message!Wire(m.role, Message!thinkingText(m), t, Message!ValidCalls(m.calls), o)
  BY Zenon DEF Message!irMsgToChat
<1>2. t = text
  <2>1. CASE m.content = <<>>
    <3>1. Message!TextOf(m.content, "text") = <<>>
      BY <2>1, NoText, Zenon
    <3>2. m.text = text
      BY <3>1, Zenon DEF Tells
    <3>. QED
      BY <2>1, <3>2, Zenon
  <2>2. CASE m.content # <<>>
    BY <2>2, Zenon DEF Tells
  <2>. QED
    BY <2>1, <2>2, Zenon
<1> HIDE DEF o, t
<1>. QED
  BY <1>1, <1>2 DEF Message!Wire

LEMMA ValidAgain ==
    ASSUME NEW q \in Seq(Calls)
    PROVE  Message!ValidCalls(Message!ValidCalls(q)) = Message!ValidCalls(q)
BY ValidType, ValidTwice, Zenon

LEMMA ValidNone == Message!ValidCalls(<<>>) = <<>>
<1>1. <<>> \in Seq(Valid)
  OBVIOUS
<1>. QED
  BY <1>1, ValidTwice, Zenon

\* An equation of ValidCalls, under a name.
Filters(s) ==
    Message!ValidCalls(Message!FlattenSeq(s))
       = Message!FlattenSeq([j \in DOMAIN s |-> Message!ValidCalls(s[j])])

LEMMA ValidFlatten ==
    ASSUME NEW s \in Seq(Seq(Calls)) PROVE Filters(s)
<1> DEFINE U == Seq(Calls)
           t == [j \in DOMAIN s |-> Sum(ValidOf, s[j])]
<1>1. Sum(ValidOf, Message!FlattenSeq(s)) = Message!FlattenSeq(t)
  BY ValidMeasure, SumFlatten
<1>2. \A j \in DOMAIN s : s[j] \in U
  <2> HIDE DEF U
  <2>. QED
    BY DEF U
<1>3. \A j \in DOMAIN s : Message!ValidCalls(s[j]) = Sum(ValidOf, s[j])
  BY <1>2, ValidIsSum, Zenon
<1>4. t = [j \in DOMAIN s |-> Message!ValidCalls(s[j])]
  BY <1>3
<1>5. Message!ValidCalls(Message!FlattenSeq(s)) = Sum(ValidOf, Message!FlattenSeq(s))
  BY FlattenType, ValidIsSum, Zenon
<1> HIDE DEF t
<1>. QED
  BY <1>1, <1>4, <1>5, Zenon DEF Filters

----------------------------------------------------------------------------
(* Reasoning added to a message                                            *)

LEMMA GreatestExists ==
    ASSUME NEW n \in Nat, NEW S \in SUBSET (1..n), S # {}
    PROVE  \E j \in S : \A k \in S : k <= j
<1> DEFINE T == {i \in 0..n : n - i \in S}
<1>1. IsFiniteSet(T) /\ T \subseteq Nat
  <2>1. IsFiniteSet(0..n) /\ T \subseteq 0..n
    BY FS_Interval
  <2>. QED
    BY <2>1, FS_Subset
<1>2. T # {}
  <2>1. PICK j \in S : TRUE
    OBVIOUS
  <2>2. n - j \in 0..n /\ n - (n - j) = j
    OBVIOUS
  <2>. QED
    BY <2>2
<1>3. PICK i \in T : \A k \in T : i <= k
  <2> HIDE DEF T
  <2>. QED
    BY <1>1, <1>2, LeastExists
<1>4. ASSUME NEW k \in S PROVE k <= n - i
  <2>1. n - k \in T /\ k \in 1..n
    OBVIOUS
  <2>2. i <= n - k
    BY <1>3, <2>1
  <2>. QED
    BY <2>1, <2>2
<1>. QED
  BY <1>4

\* Where the first block of a type is.
LEMMA FirstBlock ==
    ASSUME NEW content \in Seq(BlockSet), NEW t, Message!HasType(content, t)
    PROVE  /\ Message!SelectInSeq(content, LAMBDA c : c.t = t) \in 1..Len(content)
           /\ content[Message!SelectInSeq(content, LAMBDA c : c.t = t)].t = t
<1> DEFINE I == {j \in 1..Len(content) : content[j].t = t}
           first == Message!SelectInSeq(content, LAMBDA c : c.t = t)
           P(x) == \A y \in I : x <= y
<1>1. DOMAIN content = 1..Len(content) /\ Len(content) \in Nat
  OBVIOUS
<1>2. I # {}
  BY <1>1 DEF Message!HasType
<1>3. first = CHOOSE x \in I : P(x)
  <2>1. first = IF I # {} THEN Message!Min(I) ELSE 0
    BY Zenon DEF Message!SelectInSeq
  <2>2. Message!Min(I) = CHOOSE x \in I : P(x)
    BY Zenon DEF Message!Min
  <2>. QED
    BY <1>2, <2>1, <2>2, Zenon
<1>4. \E x \in I : P(x)
  <2>1. I \subseteq Nat /\ IsFiniteSet(I)
    <3>1. IsFiniteSet(1..Len(content)) /\ I \subseteq 1..Len(content)
      BY <1>1, FS_Interval
    <3>. QED
      BY <1>1, <3>1, FS_Subset
  <2> HIDE DEF I
  <2>. QED
    BY <1>2, <2>1, LeastExists
<1> HIDE DEF first, P
<1>5. first \in I
  BY <1>3, <1>4, Zenon
<1>. QED
  BY <1>5 DEF first

\* Adding to a block of a type, the first or a new one.
Grown(content, t, text, c) ==
    \/ \E k \in 1..Len(content) :
          content[k].t = t /\ c = [content EXCEPT ![k] = [content[k] EXCEPT !.text = @ \o text]]
    \/ c = Append(content, Message!Block(t, text, ""))

LEMMA AppendToGrows ==
    ASSUME NEW content \in Seq(BlockSet), NEW t, NEW text
    PROVE  Grown(content, t, text, Message!AppendTo(content, t, text))
<1> DEFINE first == Message!SelectInSeq(content, LAMBDA c : c.t = t)
           b == Message!Block(t, text, "")
           x == [content[first] EXCEPT !.text = @ \o text]
           c == Message!AppendTo(content, t, text)
<1>1. c = IF Message!HasType(content, t) THEN [content EXCEPT ![first].text = @ \o text]
          ELSE Append(content, b)
  BY Zenon DEF Message!AppendTo
<1>2. CASE Message!HasType(content, t)
  <2>1. first \in 1..Len(content) /\ content[first].t = t
    BY <1>2, FirstBlock, Zenon
  <2>2. c = [content EXCEPT ![first] = x]
    BY <1>1, <1>2, Zenon
  <2>. QED
    BY <2>1, <2>2, Zenon DEF Grown
<1>3. CASE ~Message!HasType(content, t)
  BY <1>1, <1>3, Zenon DEF Grown
<1>. QED
  BY <1>2, <1>3

\* Reasoning leaves the text alone and is heard after what was there.
LEMMA AppendToSays ==
    ASSUME NEW content, Clean(content), NEW think \in Phrase
    PROVE  /\ Clean(Message!AppendTo(content, "thinking", think))
           /\ Message!TextOf(Message!AppendTo(content, "thinking", think), "text") = Message!TextOf(content, "text")
           /\ Alike(Message!TextOf(Message!AppendTo(content, "thinking", think), "thinking"),
                    Message!TextOf(content, "thinking") \o think)
<1> DEFINE c == Message!AppendTo(content, "thinking", think)
           b == Message!Block("thinking", think, "")
           g(t) == Mapped(TextIn(t), content)
<1>1. content \in Seq(BlockSet) /\ Len(content) \in Nat /\ DOMAIN content = 1..Len(content)
      /\ \A j \in 1..Len(content) : content[j] \in BlockSet /\ content[j].t \in {"thinking", "text"}
  BY DEF Clean
<1>2. b \in BlockSet /\ b.t = "thinking" /\ b.text = think
  BY IdTypes, BlockTypes, Zenon DEF Message!Block
<1>3. Grown(content, "thinking", think, c)
  BY <1>1, AppendToGrows, Zenon
<1>4. \A t : /\ g(t) \in Seq(Phrase) /\ Len(g(t)) = Len(content)
             /\ \A j \in 1..Len(content) : g(t)[j] = TextIn(t)[content[j]]
  <2> TAKE t
  <2>1. Maps(TextIn(t), content, Payload)
    BY <1>1, TextMeasure, MapType, Zenon
  <2>. QED
    BY <2>1, Zenon DEF Maps, Phrase
<1> HIDE DEF c, b
<1>5. ASSUME NEW k \in 1..Len(content), content[k].t = "thinking",
             c = [content EXCEPT ![k] = [content[k] EXCEPT !.text = @ \o think]]
      PROVE  /\ Clean(c)
             /\ Message!TextOf(c, "text") = Message!TextOf(content, "text")
             /\ Alike(Message!TextOf(c, "thinking"), Message!TextOf(content, "thinking") \o think)
  <2> DEFINE x == [content[k] EXCEPT !.text = @ \o think]
             u == content[k].text \o think
  <2>1. content[k] \in BlockSet /\ content[k].text \in Phrase /\ u \in Phrase
    <3>1. content[k] \in BlockSet
      BY <1>1
    <3>2. content[k].text \in Phrase
      BY <3>1 DEF BlockSet
    <3>. QED
      BY <3>1, <3>2 DEF Phrase
  <2>2. x \in BlockSet /\ x.t = "thinking" /\ x.text = u
    <3>1. x = [content[k] EXCEPT !.text = u]
      OBVIOUS
    <3> HIDE DEF x, u
    <3>. QED
      BY <1>5, <2>1, <3>1 DEF BlockSet
  <2> HIDE DEF x, u
  <2>3. c = [content EXCEPT ![k] = x]
    BY <1>5, Zenon DEF x
  <2>4. c \in Seq(BlockSet) /\ Len(c) = Len(content) /\ DOMAIN c = DOMAIN content
        /\ \A j \in 1..Len(content) : c[j] = IF j = k THEN x ELSE content[j]
    <3>1. c \in Seq(BlockSet) /\ Len(c) = Len(content)
          /\ \A j \in 1..Len(content) : c[j] = IF j = k THEN x ELSE content[j]
      BY <1>1, <2>2, <2>3, ExceptSeq
    <3>. QED
      BY <1>1, <3>1
  <2>5. Clean(c)
    BY <1>1, <2>2, <2>4 DEF Clean
  <2>6. Message!TextOf(c, "text") = Message!TextOf(content, "text")
    <3>1. ASSUME NEW j \in 1..Len(c) PROVE TextIn("text")[c[j]] = TextIn("text")[content[j]]
      <4>1. TextIn("text")[x] = <<>> /\ TextIn("text")[content[k]] = <<>>
        BY <1>5, <2>1, <2>2 DEF TextIn
      <4>. QED
        BY <2>4, <4>1, Zenon
    <3>2. Sum(TextIn("text"), c) = Sum(TextIn("text"), content)
      BY <1>1, <2>4, <3>1, SumSame
    <3>. QED
      BY <1>1, <2>4, <3>2, TextIsSum, Zenon
  <2>7. Alike(Message!TextOf(c, "thinking"), Message!TextOf(content, "thinking") \o think)
    <3> DEFINE s == g("thinking")
               v == Mapped(TextIn("thinking"), c)
    <3>1. s \in Seq(Phrase) /\ Len(s) = Len(content) /\ s[k] = content[k].text
      <4>1. TextIn("thinking")[content[k]] = content[k].text
        BY <1>5, <2>1 DEF TextIn
      <4>. QED
        BY <1>4, <4>1, Zenon
    <3>2. v = [s EXCEPT ![k] = u]
      <4>1. v \in Seq(Phrase) /\ Len(v) = Len(content)
            /\ \A j \in 1..Len(content) : v[j] = TextIn("thinking")[c[j]]
        <5>1. Maps(TextIn("thinking"), c, Payload)
          BY <2>4, TextMeasure, MapType, Zenon
        <5>. QED
          BY <2>4, <5>1, Zenon DEF Maps, Phrase
      <4>2. TextIn("thinking")[x] = u
        BY <2>2 DEF TextIn
      <4>3. ASSUME NEW j \in 1..Len(content) PROVE v[j] = IF j = k THEN u ELSE s[j]
        <5>1. s[j] = TextIn("thinking")[content[j]]
          BY <1>4, Zenon
        <5> HIDE DEF s, v
        <5>. QED
          BY <2>4, <4>1, <4>2, <5>1, Zenon
      <4> DEFINE w == [s EXCEPT ![k] = u]
      <4> HIDE DEF s, v
      <4>4. w \in Seq(Phrase) /\ Len(w) = Len(s) /\ \A j \in 1..Len(s) : w[j] = IF j = k THEN u ELSE s[j]
        BY <2>1, <3>1, ExceptSeq
      <4> HIDE DEF w
      <4>5. v = w
        BY <3>1, <4>1, <4>3, <4>4, SeqEqual
      <4>. QED
        BY <4>5 DEF w
    <3> HIDE DEF s, v
    <3>3. Alike(u, s[k] \o think)
      BY <3>1 DEF Alike, u
    <3>4. Alike(Message!FlattenSeq([s EXCEPT ![k] = u]), Message!FlattenSeq(s) \o think)
      <4>1. s \in Seq(Seq(Payload)) /\ u \in Seq(Payload) /\ think \in Seq(Payload) /\ k \in 1..Len(s)
        BY <2>1, <3>1 DEF Phrase
      <4>. QED
        BY <3>3, <4>1, FlattenMore
    <3>5. Message!TextOf(c, "thinking") = Message!FlattenSeq(v)
          /\ Message!TextOf(content, "thinking") = Message!FlattenSeq(s)
      BY <1>1, <2>4, TextIsSum, Zenon DEF Sum, s, v
    <3>. QED
      BY <3>2, <3>4, <3>5, Zenon
  <2>. QED
    BY <2>5, <2>6, <2>7
<1>6. ASSUME c = Append(content, b)
      PROVE  /\ Clean(c)
             /\ Message!TextOf(c, "text") = Message!TextOf(content, "text")
             /\ Alike(Message!TextOf(c, "thinking"), Message!TextOf(content, "thinking") \o think)
  <2>1. Clean(<<b>>) /\ <<b>> \in Seq(BlockSet) /\ c = content \o <<b>>
    BY <1>1, <1>2, <1>6 DEF Clean
  <2>2. Clean(c)
    BY <2>1, CleanConcat
  <2>3. Message!TextOf(<<b>>, "text") = <<>> /\ Message!TextOf(<<b>>, "thinking") = think
    BY <1>2, BlockText
  <2>4. Reads(content, <<b>>, "text") /\ Reads(content, <<b>>, "thinking")
    BY <1>1, <2>1, TextConcat, Zenon
  <2>5. Message!TextOf(content, "text") \o <<>> = Message!TextOf(content, "text")
    <3>1. Message!TextOf(content, "text") \in Phrase
      BY <1>1, TextOfType
    <3>. QED
      BY <3>1 DEF Phrase
  <2>. QED
    BY <2>1, <2>2, <2>3, <2>4, <2>5, Zenon DEF Reads, Alike
<1>7. CASE c = Append(content, b)
  BY <1>6, <1>7, Zenon DEF c
<1>8. CASE \E k \in 1..Len(content) :
             content[k].t = "thinking" /\ c = [content EXCEPT ![k] = [content[k] EXCEPT !.text = @ \o think]]
  BY <1>5, <1>8, Zenon DEF c
<1>. QED
  BY <1>3, <1>7, <1>8, Zenon DEF Grown, b

----------------------------------------------------------------------------
(* Decoding a conversation                                                 *)

LEMMA MsgMsgType ==
    ASSUME NEW w \in WireSet PROVE Message!msgMsgToIR(w) \in IRSet
<1> DEFINE results == [j \in DOMAIN w.outs |-> Message!Block("tool_result", w.outs[j].text, w.outs[j].id)]
           e == <<>>
           uses == [j \in DOMAIN w.calls |-> Message!Block("tool_use", e, w.calls[j])]
           content == Message!Blocks("thinking", w.think) \o results \o Message!Blocks("text", w.text) \o uses
           plain == Len(content) = 1 /\ Message!HasType(content, "text")
           text == IF plain THEN w.text ELSE e
           id == IF w.outs = <<>> THEN "" ELSE Message!Last(w.outs).id
<1>1. /\ w.role \in Roles /\ w.think \in Phrase /\ w.text \in Phrase /\ w.calls \in Seq(Calls)
      /\ w.outs \in Seq(OutSet)
  BY DEF WireSet
<1>2. e \in Phrase
  BY DEF Phrase
<1>3. results \in Seq(BlockSet)
  <2>1. DOMAIN w.outs = 1..Len(w.outs) /\ Len(w.outs) \in Nat /\ \A j \in 1..Len(w.outs) : w.outs[j] \in OutSet
    BY <1>1
  <2>2. ASSUME NEW j \in 1..Len(w.outs)
        PROVE  Message!Block("tool_result", w.outs[j].text, w.outs[j].id) \in BlockSet
    <3>1. w.outs[j].text \in Phrase /\ w.outs[j].id \in Ids
      BY <2>1, IdTypes DEF OutSet
    <3>. QED
      BY <3>1, BlockTypes
  <2>3. results \in [1..Len(w.outs) -> BlockSet]
    BY <2>1, <2>2
  <2> HIDE DEF results
  <2>. QED
    BY <2>1, <2>3
<1>4. uses \in Seq(BlockSet)
  <2>1. DOMAIN w.calls = 1..Len(w.calls) /\ Len(w.calls) \in Nat /\ \A j \in 1..Len(w.calls) : w.calls[j] \in Calls
    BY <1>1
  <2> HIDE DEF e
  <2>2. ASSUME NEW j \in 1..Len(w.calls) PROVE Message!Block("tool_use", e, w.calls[j]) \in BlockSet
    BY <1>2, <2>1, IdTypes, BlockTypes
  <2>3. uses \in [1..Len(w.calls) -> BlockSet]
    BY <2>1, <2>2
  <2> HIDE DEF uses
  <2>. QED
    BY <2>1, <2>3
<1>5. content \in Seq(BlockSet)
  <2> DEFINE b1 == Message!Blocks("thinking", w.think)
             b2 == Message!Blocks("text", w.text)
  <2>1. b1 \in Seq(BlockSet) /\ b2 \in Seq(BlockSet)
    BY <1>1, BlocksType
  <2> HIDE DEF b1, b2, results, uses
  <2>2. b1 \o results \o b2 \o uses \in Seq(BlockSet)
    BY <1>3, <1>4, <2>1
  <2>. QED
    BY <2>2 DEF b1, b2
<1>6. id \in Ids
  <2>1. w.outs # <<>> => Message!Last(w.outs).id \in Ids
    <3>1. w.outs # <<>> => w.outs[Len(w.outs)] \in OutSet
      BY <1>1
    <3>. QED
      BY <3>1, IdTypes DEF OutSet, Message!Last
  <2>. QED
    BY <2>1, IdTypes, Zenon
<1>7. text \in Phrase
  <2> HIDE DEF e, plain
  <2>. QED
    BY <1>1, <1>2
<1>8. Message!ValidCalls(w.calls) \in Seq(Calls)
  BY <1>1, ValidCallsType
<1>9. Message!msgMsgToIR(w) = Message!IR(w.role, text, content, Message!ValidCalls(w.calls), id)
  BY Zenon DEF Message!msgMsgToIR
<1> HIDE DEF text, content, id
<1>. QED
  BY <1>1, <1>5, <1>6, <1>7, <1>8, <1>9, IRType, Zenon

LEMMA RespItemType ==
    ASSUME NEW w \in WireSet PROVE Message!respItemToIR(w) \in IRSet
<1> DEFINE e == <<>>
           think == Message!Blocks("thinking", w.think)
           content == IF form = "string" THEN e ELSE Message!Blocks("text", w.text)
           no == ""
<1>1. /\ w.role \in Roles /\ w.think \in Phrase /\ w.text \in Phrase /\ w.calls \in Seq(Calls)
      /\ w.outs \in Seq(OutSet)
  BY DEF WireSet
<1>2. e \in Phrase /\ e \in Seq(BlockSet) /\ e \in Seq(Calls)
  BY DEF Phrase
<1>3. Message!respItemToIR(w) =
        IF w.outs # <<>> THEN Message!IR("tool", w.outs[1].text, e, e, w.outs[1].id)
        ELSE Message!IR(w.role, w.text, think \o content, Message!ValidCalls(w.calls), no)
  BY Zenon DEF Message!respItemToIR
<1>4. no \in Ids
  BY IdTypes, Zenon
<1>5. think \o content \in Seq(BlockSet)
  <2>1. think \in Seq(BlockSet) /\ Message!Blocks("text", w.text) \in Seq(BlockSet)
    BY <1>1, BlocksType
  <2> HIDE DEF think, e
  <2>. QED
    BY <1>2, <2>1
<1>6. Message!ValidCalls(w.calls) \in Seq(Calls)
  BY <1>1, ValidCallsType
<1> HIDE DEF e, think, content, no
<1>7. w.outs # <<>> => Message!IR("tool", w.outs[1].text, e, e, w.outs[1].id) \in IRSet
  <2>1. w.outs # <<>> => w.outs[1] \in OutSet
    BY <1>1
  <2>2. w.outs # <<>> => w.outs[1].text \in Phrase /\ w.outs[1].id \in Ids
    BY <2>1, IdTypes DEF OutSet
  <2>3. "tool" \in Roles
    BY DEF Roles
  <2>. QED
    BY <1>2, <2>2, <2>3, IRType
<1>8. Message!IR(w.role, w.text, think \o content, Message!ValidCalls(w.calls), no) \in IRSet
  BY <1>1, <1>4, <1>5, <1>6, IRType
<1>. QED
  BY <1>3, <1>7, <1>8, Zenon

\* The state of the decoder of Responses items.
Decoded == [out : Seq(IRSet), pending : Phrase]

LEMMA AttachType ==
    ASSUME NEW r \in Decoded, NEW think \in Phrase
    PROVE  Message!attachReasoning(r, think) \in Decoded
<1> DEFINE said == {j \in DOMAIN r.out : r.out[j].role # "system"}
           last == CHOOSE j \in said : \A k \in said : k <= j
           x == [r.out[last] EXCEPT !.content = Message!AppendTo(@, "thinking", think)]
           o == [r.out EXCEPT ![last] = x]
           y == Message!attachReasoning(r, think)
<1>1. r.out \in Seq(IRSet) /\ r.pending \in Phrase
  BY DEF Decoded
<1>2. y = [r EXCEPT !.out = o] \/ y = [r EXCEPT !.pending = @ \o think]
  BY Zenon DEF Message!attachReasoning
<1> HIDE DEF last, y
<1>3. last \in 1..Len(r.out) => x \in IRSet
  <2> DEFINE m == r.out[last]
             c == Message!AppendTo(m.content, "thinking", think)
  <2>1. last \in 1..Len(r.out) => m \in IRSet
    BY <1>1
  <2>2. m \in IRSet => c \in Seq(BlockSet)
    BY AppendToType DEF IRSet
  <2> HIDE DEF m, c
  <2>3. m \in IRSet => [m EXCEPT !.content = c] \in IRSet
    BY <2>2 DEF IRSet
  <2>4. x = [m EXCEPT !.content = c]
    BY Zenon DEF m, c
  <2>. QED
    BY <2>1, <2>3, <2>4, Zenon
<1> HIDE DEF x
<1>4. o \in Seq(IRSet)
  <2>1. r.out \in [1..Len(r.out) -> IRSet]
    BY <1>1
  <2>2. o \in [1..Len(r.out) -> IRSet]
    BY <1>3, <2>1
  <2>3. Len(r.out) \in Nat
    BY <1>1
  <2> HIDE DEF o
  <2>. QED
    BY <2>2, <2>3
<1>5. r.pending \o think \in Phrase
  BY <1>1 DEF Phrase
<1> DEFINE z == r.pending \o think
<1> HIDE DEF o, z
<1>6. [r EXCEPT !.out = o] \in Decoded /\ [r EXCEPT !.pending = z] \in Decoded
  BY <1>4, <1>5 DEF Decoded, z
<1>. QED
  BY <1>2, <1>6, Zenon DEF y, z

LEMMA DecodeItemType ==
    ASSUME NEW r \in Decoded, NEW w \in WireSet
    PROVE  Message!decodeItem(r, w) \in Decoded
<1> DEFINE m == Message!respItemToIR(w)
           takes == r.pending # <<>> /\ (m.role = "assistant" \/ m.calls # <<>>)
           c == Message!AppendTo(m.content, "thinking", r.pending)
           t == [m EXCEPT !.content = c]
           e == <<>>
           o == Append(r.out, IF takes THEN t ELSE m)
           n == IF takes THEN e ELSE r.pending
<1>1. r.out \in Seq(IRSet) /\ r.pending \in Phrase /\ m \in IRSet /\ w.think \in Phrase /\ e \in Phrase
  <2>1. e \in Phrase
    BY DEF Phrase
  <2> HIDE DEF e
  <2>. QED
    BY <2>1, RespItemType DEF Decoded, WireSet
<1>2. Message!decodeItem(r, w) = IF w.think # <<>> THEN Message!attachReasoning(r, w.think)
                                ELSE [out |-> o, pending |-> n]
  BY Zenon DEF Message!decodeItem
<1> HIDE DEF m, takes, e
<1>3. c \in Seq(BlockSet)
  BY <1>1, AppendToType DEF IRSet
<1> HIDE DEF c
<1>4. t \in IRSet
  BY <1>1, <1>3 DEF IRSet
<1> HIDE DEF t
<1>5. o \in Seq(IRSet) /\ n \in Phrase
  BY <1>1, <1>4
<1> HIDE DEF o, n
<1>6. [out |-> o, pending |-> n] \in Decoded
  BY <1>5 DEF Decoded
<1>7. Message!attachReasoning(r, w.think) \in Decoded
  BY <1>1, AttachType
<1>. QED
  BY <1>2, <1>6, <1>7, Zenon

LEMMA DecodeItemsType ==
    ASSUME NEW items \in Seq(WireSet)
    PROVE  Message!Fold(Message!decodeItem, [out |-> <<>>, pending |-> <<>>], items) \in Decoded
<1> DEFINE m == Len(items)
           e == <<>>
           z == [out |-> e, pending |-> e]
           B(j, r) == Message!decodeItem(r, items[j])
           s == [x \in (1..m) \X Decoded |-> B(x[1], x[2])]
           R(f) == f = [j \in 0..m |-> IF j = 0 THEN z ELSE B(j, f[j - 1])]
<1>1. m \in Nat
  OBVIOUS
<1>2. z \in Decoded
  <2>1. e \in Phrase /\ e \in Seq(IRSet)
    BY DEF Phrase
  <2> HIDE DEF e
  <2>. QED
    BY <2>1 DEF Decoded
<1>3. ASSUME NEW j \in 1..m, NEW r \in Decoded PROVE B(j, r) \in Decoded
  <2>1. items[j] \in WireSet
    OBVIOUS
  <2>. QED
    BY <2>1, DecodeItemType
<1>4. Message!Fold(Message!decodeItem, [out |-> <<>>, pending |-> <<>>], items) = (CHOOSE x : R(x))[m]
  BY Zenon DEF Message!Fold
<1> HIDE DEF B, z, m
<1>5. \E f : R(f)
  <2>1. s \in Steps(Decoded, m)
    BY <1>3 DEF Steps
  <2>2. PICK f : Recursive(f, Decoded, z, m, s)
    <3> HIDE DEF s
    <3>. QED
      BY <1>1, <1>2, <2>1, RecursionExists
  <2>3. f \in [0..m -> Decoded] /\ \A j \in 0..m : f[j] = IF j = 0 THEN z ELSE s[<<j, f[j - 1]>>]
    BY <2>2, Zenon DEF Recursive
  <2>4. ASSUME NEW j \in 0..m PROVE f[j] = IF j = 0 THEN z ELSE B(j, f[j - 1])
    <3>1. j # 0 => j \in 1..m /\ f[j - 1] \in Decoded
      BY <1>1, <2>3
    <3>2. j # 0 => s[<<j, f[j - 1]>>] = B(j, f[j - 1])
      BY <3>1
    <3>. QED
      BY <2>3, <3>2, Zenon
  <2>5. f = [j \in 0..m |-> f[j]]
    BY <2>3
  <2>. QED
    BY <2>4, <2>5, Zenon
<1> DEFINE f == CHOOSE x : R(x)
<1>6. R(f)
  BY <1>5, Zenon
<1> HIDE DEF f
<1>7. \A j \in 0..m : f[j] = IF j = 0 THEN z ELSE B(j, f[j - 1])
  BY <1>6, Zenon
<1>8. ASSUME NEW j \in 1..m, f[j - 1] \in Decoded PROVE f[j] \in Decoded
  <2>1. j \in 0..m /\ j # 0
    BY <1>1
  <2>2. f[j] = B(j, f[j - 1])
    BY <1>7, <2>1, Zenon
  <2>. QED
    BY <1>3, <1>8, <2>2, Zenon
<1>9. f[0] = z
  BY <1>1, <1>7
<1>10. f[m] \in Decoded
  BY <1>1, <1>2, <1>8, <1>9, RecursionStays
<1>. QED
  BY <1>4, <1>10, Zenon DEF f

LEMMA CoalesceType ==
    ASSUME NEW messages \in Seq(IRSet)
    PROVE  Message!coalesceResponsesFunctionCalls(messages) \in Seq(IRSet)
<1> DEFINE only(a) == a.calls # <<>> /\ Message!visibleText(a) = <<>>
           think(a, b) == IF Message!HasType(b.content, "thinking")
                            THEN Message!AppendTo(a.content, "thinking", Message!thinkingText(b)) ELSE a.content
           join(a, b) == [a EXCEPT !.calls = @ \o b.calls, !.content = think(a, b)]
           m == Len(messages)
           S == Seq(IRSet)
           z == <<>>
           B(j, o) == IF o # <<>> /\ only(Message!Last(o)) /\ only(messages[j])
                        THEN Append(Message!Front(o), join(Message!Last(o), messages[j]))
                        ELSE Append(o, messages[j])
           s == [x \in (1..m) \X S |-> B(x[1], x[2])]
           R(f) == f = [j \in 0..m |-> IF j = 0 THEN z ELSE B(j, f[j - 1])]
<1>1. m \in Nat
  OBVIOUS
<1>2. z \in S
  OBVIOUS
<1>0. ASSUME NEW a \in IRSet, NEW b \in IRSet PROVE join(a, b) \in IRSet
  <2> DEFINE c == think(a, b)
             d == a.calls \o b.calls
  <2>1. a.content \in Seq(BlockSet) /\ b.content \in Seq(BlockSet) /\ a.calls \in Seq(Calls) /\ b.calls \in Seq(Calls)
    BY DEF IRSet
  <2>2. c \in Seq(BlockSet)
    <3>1. Message!thinkingText(b) \in Phrase
      BY <2>1, TextOfType DEF Message!thinkingText
    <3>2. Message!AppendTo(a.content, "thinking", Message!thinkingText(b)) \in Seq(BlockSet)
      BY <2>1, <3>1, AppendToType
    <3>. QED
      BY <2>1, <3>2, Zenon
  <2>3. d \in Seq(Calls)
    BY <2>1
  <2> HIDE DEF c, d
  <2>4. [a EXCEPT !.calls = d, !.content = c] \in IRSet
    BY <2>2, <2>3 DEF IRSet
  <2>. QED
    BY <2>4, Zenon DEF c, d
<1>3. ASSUME NEW j \in 1..m, NEW o \in S PROVE B(j, o) \in S
  <2>1. messages[j] \in IRSet
    OBVIOUS
  <2>2. ASSUME o # <<>> PROVE Message!Front(o) \in S /\ Message!Last(o) \in IRSet
    BY <2>2 DEF Message!Front, Message!Last
  <2> HIDE DEF S
  <2>3. ASSUME o # <<>> PROVE Append(Message!Front(o), join(Message!Last(o), messages[j])) \in S
    <3> DEFINE x == join(Message!Last(o), messages[j])
    <3>1. x \in IRSet
      BY <1>0, <2>1, <2>2, <2>3
    <3> HIDE DEF x
    <3>2. Append(Message!Front(o), x) \in S
      BY <2>2, <2>3, <3>1 DEF S
    <3>. QED
      BY <3>2 DEF x
  <2>4. Append(o, messages[j]) \in S
    BY <2>1 DEF S
  <2>. QED
    BY <2>3, <2>4, Zenon
<1>4. Message!coalesceResponsesFunctionCalls(messages) = (CHOOSE x : R(x))[m]
  BY Zenon DEF Message!coalesceResponsesFunctionCalls, Message!Fold
<1> HIDE DEF B, z, m, S
<1>5. \E f : R(f)
  <2>1. s \in Steps(S, m)
    BY <1>3 DEF Steps
  <2>2. PICK f : Recursive(f, S, z, m, s)
    <3> HIDE DEF s
    <3>. QED
      BY <1>1, <1>2, <2>1, RecursionExists
  <2>3. f \in [0..m -> S] /\ \A j \in 0..m : f[j] = IF j = 0 THEN z ELSE s[<<j, f[j - 1]>>]
    BY <2>2, Zenon DEF Recursive
  <2>4. ASSUME NEW j \in 0..m PROVE f[j] = IF j = 0 THEN z ELSE B(j, f[j - 1])
    <3>1. j # 0 => j \in 1..m /\ f[j - 1] \in S
      BY <1>1, <2>3
    <3>2. j # 0 => s[<<j, f[j - 1]>>] = B(j, f[j - 1])
      BY <3>1
    <3>. QED
      BY <2>3, <3>2, Zenon
  <2>5. f = [j \in 0..m |-> f[j]]
    BY <2>3
  <2>. QED
    BY <2>4, <2>5, Zenon
<1> DEFINE f == CHOOSE x : R(x)
<1>6. R(f)
  BY <1>5, Zenon
<1> HIDE DEF f
<1>7. \A j \in 0..m : f[j] = IF j = 0 THEN z ELSE B(j, f[j - 1])
  BY <1>6, Zenon
<1>8. ASSUME NEW j \in 1..m, f[j - 1] \in S PROVE f[j] \in S
  <2>1. j \in 0..m /\ j # 0
    BY <1>1
  <2>2. f[j] = B(j, f[j - 1])
    BY <1>7, <2>1, Zenon
  <2>. QED
    BY <1>3, <1>8, <2>2, Zenon
<1>9. f[0] = z
  BY <1>1, <1>7
<1>10. f[m] \in S
  BY <1>1, <1>2, <1>8, <1>9, RecursionStays
<1>. QED
  BY <1>4, <1>10, Zenon DEF f, S

LEMMA RestType ==
    ASSUME NEW messages \in Seq(IRSet)
    PROVE  Message!Rest(messages) \in Seq(IRSet)
BY WithoutType, Zenon DEF Message!Rest

\* What is decoded from Messages and Responses clients.
LEMMA DecodeType ==
    ASSUME NEW items \in Seq(WireSet), from \in {"messages", "responses"}
    PROVE  Message!decodeRequest(items) \in Seq(IRSet)
<1>1. CASE from = "messages"
  <2> DEFINE d == [j \in DOMAIN items |-> Message!msgMsgToIR(items[j])]
  <2>1. Message!decodeRequest(items) = d
    BY <1>1 DEF Message!decodeRequest, Message!DecodeMessagesRequest
  <2>2. DOMAIN items = 1..Len(items) /\ Len(items) \in Nat /\ \A j \in 1..Len(items) : items[j] \in WireSet
    OBVIOUS
  <2>3. d \in [1..Len(items) -> IRSet]
    BY <2>2, MsgMsgType
  <2> HIDE DEF d
  <2>. QED
    BY <2>1, <2>2, <2>3
<1>2. CASE from = "responses"
  <2> DEFINE r == Message!Fold(Message!decodeItem, [out |-> <<>>, pending |-> <<>>], items)
             e == <<>>
             no == ""
             rest == IF r.pending = <<>> THEN e
                     ELSE <<Message!IR("assistant", e, Message!Blocks("thinking", r.pending), e, no)>>
  <2>1. Message!decodeRequest(items) = Message!coalesceResponsesFunctionCalls(r.out \o rest)
    <3>1. Message!decodeRequest(items) = Message!DecodeResponsesRequest(items)
      BY <1>2 DEF Message!decodeRequest
    <3>. QED
      BY <3>1, Zenon DEF Message!DecodeResponsesRequest, Message!decodeResponsesInputItems
  <2>2. r \in Decoded
    BY DecodeItemsType
  <2>3. r.out \in Seq(IRSet) /\ r.pending \in Phrase
    <3> HIDE DEF r
    <3>. QED
      BY <2>2 DEF Decoded
  <2>4. rest \in Seq(IRSet)
    <3> DEFINE x == Message!IR("assistant", e, Message!Blocks("thinking", r.pending), e, no)
    <3>1. e \in Phrase /\ e \in Seq(Calls) /\ e \in Seq(IRSet) /\ "assistant" \in Roles
      BY DEF Phrase, Roles
    <3>2. Message!Blocks("thinking", r.pending) \in Seq(BlockSet)
      <4> HIDE DEF r
      <4>. QED
        BY <2>3, BlocksType
    <3>3. no \in Ids
      BY IdTypes, Zenon
    <3> HIDE DEF r, e, no
    <3>4. x \in IRSet
      BY <3>1, <3>2, <3>3, IRType
    <3> HIDE DEF x
    <3>5. <<x>> \in Seq(IRSet)
      BY <3>4
    <3>. QED
      BY <3>1, <3>5, Zenon DEF x
  <2> HIDE DEF r, rest
  <2>5. r.out \o rest \in Seq(IRSet)
    BY <2>3, <2>4
  <2>. QED
    BY <2>1, <2>5, CoalesceType
<1>. QED
  BY <1>1, <1>2

----------------------------------------------------------------------------
(* Decoding the items of a Responses client                                *)

\* No message carries reasoning.
Thoughtless == \A j \in 1..Len(history) : history[j].think = <<>>

\* A message decoded from items says in its text field all that it says.
ItemForm(m) ==
    /\ Clean(m.content)
    /\ m.role = "tool" <=> m.callId # ""
    /\ m.role = "tool" => m.content = <<>>
    /\ m.role # "assistant" => m.calls = <<>> /\ Message!TextOf(m.content, "thinking") = <<>>
    /\ m.calls # <<>> => m.text = <<>>
    /\ form # "string" /\ m.role # "tool" => m.text = Message!TextOf(m.content, "text")
    /\ form = "string" => Message!TextOf(m.content, "text") = <<>>
    /\ form = "string" /\ Thoughtless => m.content = <<>>
Item == {m \in IRSet : ItemForm(m)}

LEMMA ItemFacts ==
    ASSUME NEW m \in Item
    PROVE  /\ m \in IRSet /\ ItemForm(m)
           /\ Message!IsTool(m) <=> m.role = "tool"
           /\ Message!visibleText(m) = m.text
<1>1. m \in IRSet /\ ItemForm(m)
  BY DEF Item
<1>2. Message!IsTool(m) <=> m.role = "tool"
  BY <1>1, Zenon DEF ItemForm, Message!IsTool
<1>3. Message!visibleText(m) = IF m.text # <<>> THEN m.text ELSE Message!TextOf(m.content, "text")
  BY Zenon DEF Message!visibleText
<1>4. m.role = "tool" => Message!TextOf(m.content, "text") = <<>>
  BY <1>1, NoText, Zenon DEF ItemForm
<1>5. Message!TextOf(m.content, "text") = m.text \/ Message!TextOf(m.content, "text") = <<>>
  BY <1>1, <1>4, Zenon DEF ItemForm
<1>. QED
  BY <1>1, <1>2, <1>3, <1>5, Zenon

LEMMA RespItemSays ==
    ASSUME NEW w \in WireSet, Shaped(w), from = "responses", w.think = <<>>
    PROVE  /\ Message!respItemToIR(w) \in Item
           /\ Message!respItemToIR(w).role = w.role
           /\ Message!respItemToIR(w).text = ChatSaid(w)
           /\ Message!respItemToIR(w).calls = Message!ValidCalls(w.calls)
           /\ Message!respItemToIR(w).callId = IF w.outs = <<>> THEN "" ELSE w.outs[1].id
           /\ Message!thinkingText(Message!respItemToIR(w)) = <<>>
<1> DEFINE e == <<>>
           think == Message!Blocks("thinking", w.think)
           b == Message!Blocks("text", w.text)
           some == IF form = "string" THEN e ELSE b
           content == think \o some
           no == ""
           m == Message!respItemToIR(w)
<1>1. /\ w.role \in Roles /\ w.think \in Phrase /\ w.text \in Phrase /\ w.calls \in Seq(Calls)
      /\ w.outs \in Seq(OutSet)
  BY DEF WireSet
<1>2. e \in Phrase /\ e \in Seq(BlockSet) /\ e \in Seq(Calls) /\ no \in Ids
  <2>1. e \in Phrase /\ e \in Seq(BlockSet) /\ e \in Seq(Calls)
    BY DEF Phrase
  <2>. QED
    BY <2>1, IdTypes, Zenon
<1>3. m = IF w.outs # e THEN Message!IR("tool", w.outs[1].text, e, e, w.outs[1].id)
          ELSE Message!IR(w.role, w.text, content, Message!ValidCalls(w.calls), no)
  BY Zenon DEF Message!respItemToIR
<1>4. CASE w.outs # e
  <2>1. w.outs[1].text \in Phrase /\ w.outs[1].id \in Calls /\ w.outs[1].id \in Ids /\ w.outs[1].id # no
    <3>1. w.outs[1] \in OutSet
      BY <1>1, <1>4
    <3>2. w.outs[1].text \in Phrase /\ w.outs[1].id \in Calls
      BY <3>1 DEF OutSet
    <3>. QED
      BY <3>2, IdTypes, CallsAssumption, Zenon
  <2> DEFINE t == w.outs[1].text
             id == w.outs[1].id
  <2>2. w.role = "tool" /\ w.calls = e
    BY <1>4 DEF Shaped
  <2>3. m = Message!IR("tool", t, e, e, id)
    BY <1>3, <1>4, Zenon
  <2> HIDE DEF t, id, e, no, m
  <2>4. m.role = "tool" /\ m.text = t /\ m.content = e /\ m.calls = e /\ m.callId = id
    BY <2>3 DEF Message!IR
  <2>5. m \in IRSet
    <3>1. "tool" \in Roles
      BY DEF Roles
    <3>. QED
      BY <1>2, <2>1, <2>3, <3>1, IRType, Zenon DEF t, id
  <2>6. Message!TextOf(e, "text") = e /\ Message!TextOf(e, "thinking") = e /\ Clean(e)
    BY NoText, CleanNone, Zenon DEF e
  <2>7. ItemForm(m)
    BY <2>1, <2>4, <2>6, Zenon DEF ItemForm, e, id, no
  <2>8. m \in Item
    BY <2>5, <2>7 DEF Item
  <2>9. ChatSaid(w) = t /\ Message!ValidCalls(w.calls) = e
    BY <1>4, <2>2, ValidNone, Zenon DEF ChatSaid, e, t
  <2>10. Message!thinkingText(m) = e
    BY <2>4, <2>6, Zenon DEF Message!thinkingText
  <2>. QED
    BY <1>4, <2>2, <2>4, <2>8, <2>9, <2>10, Zenon DEF m, e, id
<1>5. CASE w.outs = e
  <2>1. w.role # "tool"
    BY <1>5 DEF Shaped
  <2>2. think = e
    <3> DEFINE x == Message!Block("thinking", w.think, "")
    <3>1. think = IF w.think = e THEN e ELSE <<x>>
      BY Zenon DEF Message!Blocks
    <3>. QED
      BY <3>1, Zenon
  <2>3. b \in Seq(BlockSet) /\ Clean(b) /\ Message!TextOf(b, "text") = w.text /\ Message!TextOf(b, "thinking") = e
    BY <1>1, BlocksType, CleanBlocks, BlocksText
  <2>4. Message!TextOf(e, "text") = e /\ Message!TextOf(e, "thinking") = e /\ Clean(e)
    BY NoText, CleanNone, Zenon
  <2>5. content = some
    <3> HIDE DEF b
    <3>. QED
      BY <2>2, <2>3
  <2> DEFINE v == Message!ValidCalls(w.calls)
  <2>6. m = Message!IR(w.role, w.text, content, v, no)
    BY <1>3, <1>5, Zenon
  <2>7. v \in Seq(Calls) /\ (w.calls = e => v = e)
    BY <1>1, ValidCallsType, ValidNone
  <2> HIDE DEF content, v, no, m
  <2>8. m.role = w.role /\ m.text = w.text /\ m.content = content /\ m.calls = v /\ m.callId = no
    BY <2>6 DEF Message!IR
  <2>9. content \in Seq(BlockSet) /\ Clean(content) /\ Message!TextOf(content, "thinking") = e
    BY <2>3, <2>4, <2>5, Zenon DEF Clean
  <2>10. m \in IRSet
    BY <1>1, <1>2, <2>6, <2>7, <2>9, IRType, Zenon
  <2>11. /\ form # "string" => Message!TextOf(content, "text") = w.text
         /\ form = "string" => content = e
    BY <2>3, <2>5
  <2>12. ItemForm(m)
    <3>1. (w.role # "assistant" => w.calls = e) /\ (w.calls # e => w.text = e)
      BY DEF Shaped
    <3>. QED
      BY <2>1, <2>4, <2>7, <2>8, <2>9, <2>11, <3>1, Zenon DEF ItemForm, no
  <2>13. m \in Item
    BY <2>10, <2>12 DEF Item
  <2>14. Message!thinkingText(m) = e
    BY <2>8, <2>9, Zenon DEF Message!thinkingText
  <2>15. ChatSaid(w) = w.text
    BY <1>5, Zenon DEF ChatSaid
  <2>. QED
    BY <1>5, <2>8, <2>13, <2>14, <2>15, Zenon DEF m, e, v, no
<1>. QED
  BY <1>4, <1>5

\* A message with reasoning added, and two messages of calls as one.
Musing(m, think) == [m EXCEPT !.content = Message!AppendTo(@, "thinking", think)]
OnlyCalls(m) == m.calls # <<>> /\ Message!visibleText(m) = <<>>
JoinedContent(m, n) ==
    IF Message!HasType(n.content, "thinking")
      THEN Message!AppendTo(m.content, "thinking", Message!thinkingText(n)) ELSE m.content
Joined(m, n) == [m EXCEPT !.calls = @ \o n.calls, !.content = JoinedContent(m, n)]

\* m differs from n in its calls and its reasoning only.
Sounds(m, n) ==
    /\ m.role = n.role /\ m.text = n.text /\ m.callId = n.callId
    /\ Message!TextOf(m.content, "text") = Message!TextOf(n.content, "text")

LEMMA WithContent ==
    ASSUME NEW m \in Item, m.role = "assistant", NEW content, NEW calls \in Seq(Calls), Clean(content),
           Message!TextOf(content, "text") = Message!TextOf(m.content, "text"),
           form = "string" /\ Thoughtless => content = m.content,
           calls # <<>> => m.text = <<>>
    PROVE  /\ [m EXCEPT !.calls = calls, !.content = content] \in Item
           /\ [m EXCEPT !.calls = calls, !.content = content].calls = calls
           /\ [m EXCEPT !.calls = calls, !.content = content].content = content
           /\ Sounds([m EXCEPT !.calls = calls, !.content = content], m)
<1> DEFINE x == [m EXCEPT !.calls = calls, !.content = content]
<1>1. m \in IRSet /\ ItemForm(m) /\ content \in Seq(BlockSet)
  BY ItemFacts DEF Clean
<1>2. /\ x \in IRSet /\ x.calls = calls /\ x.content = content
      /\ x.role = m.role /\ x.text = m.text /\ x.callId = m.callId
  BY <1>1 DEF IRSet
<1> HIDE DEF x
<1>3. ItemForm(x)
  <2>1. "assistant" # "tool"
    OBVIOUS
  <2>. QED
    BY <1>1, <1>2, <2>1, Zenon DEF ItemForm
<1>4. x \in Item
  BY <1>2, <1>3 DEF Item
<1>. QED
  BY <1>2, <1>4, Zenon DEF Sounds, x

LEMMA MusingType ==
    ASSUME NEW m \in Item, m.role = "assistant", NEW think \in Phrase, ~Thoughtless
    PROVE  /\ Musing(m, think) \in Item /\ Musing(m, think).calls = m.calls
           /\ Sounds(Musing(m, think), m)
           /\ Alike(Message!thinkingText(Musing(m, think)), Message!thinkingText(m) \o think)
<1> DEFINE c == Message!AppendTo(m.content, "thinking", think)
           q == m.calls
<1>1. m \in IRSet /\ ItemForm(m)
  BY ItemFacts, Zenon
<1>2. Clean(m.content) /\ (m.calls # <<>> => m.text = <<>>)
  BY <1>1, Zenon DEF ItemForm
<1>3. /\ Clean(c) /\ Message!TextOf(c, "text") = Message!TextOf(m.content, "text")
      /\ Alike(Message!TextOf(c, "thinking"), Message!TextOf(m.content, "thinking") \o think)
  BY <1>2, AppendToSays, Zenon
<1>4. m.calls \in Seq(Calls)
  BY <1>1 DEF IRSet
<1> HIDE DEF c
<1>5. [m EXCEPT !.calls = q, !.content = c] = Musing(m, think)
  <2>1. [m EXCEPT !.calls = q, !.content = c] = [m EXCEPT !.content = c]
    BY <1>1 DEF IRSet
  <2>. QED
    BY <2>1, Zenon DEF Musing, c
<1>6. /\ Musing(m, think) \in Item /\ Musing(m, think).calls = q /\ Musing(m, think).content = c
      /\ Sounds(Musing(m, think), m)
  <2>1. q \in Seq(Calls) /\ (q # <<>> => m.text = <<>>)
    BY <1>2, <1>4
  <2> HIDE DEF q
  <2>2. form = "string" /\ Thoughtless => c = m.content
    OBVIOUS
  <2>3. /\ [m EXCEPT !.calls = q, !.content = c] \in Item
        /\ [m EXCEPT !.calls = q, !.content = c].calls = q
        /\ [m EXCEPT !.calls = q, !.content = c].content = c
        /\ Sounds([m EXCEPT !.calls = q, !.content = c], m)
    BY <1>2, <1>3, <2>1, <2>2, WithContent, Zenon
  <2>. QED
    BY <1>5, <2>3, Zenon
<1>. QED
  BY <1>3, <1>6, Zenon DEF Message!thinkingText

LEMMA JoinedType ==
    ASSUME NEW m \in Item, OnlyCalls(m), NEW n \in Item, OnlyCalls(n)
    PROVE  /\ Joined(m, n) \in Item /\ Joined(m, n).calls = m.calls \o n.calls
           /\ Sounds(Joined(m, n), m)
           /\ Alike(Message!thinkingText(Joined(m, n)), Message!thinkingText(m) \o Message!thinkingText(n))
<1> DEFINE d == JoinedContent(m, n)
           q == m.calls \o n.calls
           think == Message!thinkingText(n)
           c == Message!AppendTo(m.content, "thinking", think)
           told == Message!thinkingText(m)
<1>1. m \in IRSet /\ ItemForm(m) /\ n \in IRSet /\ ItemForm(n)
  BY ItemFacts, Zenon
<1>2. /\ Clean(m.content) /\ Clean(n.content) /\ m.text = <<>> /\ m.role = "assistant"
  BY <1>1, Zenon DEF ItemForm, OnlyCalls
<1>3. q \in Seq(Calls)
  <2>1. m.calls \in Seq(Calls) /\ n.calls \in Seq(Calls)
    BY <1>1 DEF IRSet
  <2>. QED
    BY <2>1
<1>4. think \in Phrase /\ told \in Phrase
  BY <1>2, TextOfType DEF Clean, Message!thinkingText
<1>5. /\ Clean(c) /\ Message!TextOf(c, "text") = Message!TextOf(m.content, "text")
      /\ Alike(Message!TextOf(c, "thinking"), told \o think)
  <2> HIDE DEF think
  <2>. QED
    BY <1>2, <1>4, AppendToSays, Zenon DEF Message!thinkingText
<1>6. d = IF Message!HasType(n.content, "thinking") THEN c ELSE m.content
  BY Zenon DEF JoinedContent
<1>7. ~Message!HasType(n.content, "thinking") => told \o think = Message!TextOf(m.content, "thinking")
  <2>1. ASSUME ~Message!HasType(n.content, "thinking") PROVE think = <<>>
    <3>1. n.content \in Seq(BlockSet)
      BY <1>2 DEF Clean
    <3>. QED
      BY <2>1, <3>1, OtherText, Zenon DEF Message!thinkingText
  <2>2. told \o <<>> = told
    BY <1>4 DEF Phrase
  <2> HIDE DEF think
  <2>. QED
    BY <2>1, <2>2, Zenon DEF Message!thinkingText
<1>8. form = "string" /\ Thoughtless => d = m.content
  <2>1. ASSUME form = "string", Thoughtless PROVE ~Message!HasType(n.content, "thinking")
    <3>1. n.content = <<>>
      BY <1>1, <2>1, Zenon DEF ItemForm
    <3>. QED
      BY <3>1 DEF Message!HasType
  <2>. QED
    BY <1>6, <2>1, Zenon
<1> HIDE DEF c, d, q, think, told
<1>9. /\ Clean(d) /\ Message!TextOf(d, "text") = Message!TextOf(m.content, "text")
      /\ Alike(Message!TextOf(d, "thinking"), told \o think)
  BY <1>2, <1>5, <1>6, <1>7, Zenon DEF Alike
<1>10. [m EXCEPT !.calls = q, !.content = d] = Joined(m, n)
  BY Zenon DEF Joined, q, d
<1>11. /\ Joined(m, n) \in Item /\ Joined(m, n).calls = q /\ Joined(m, n).content = d
       /\ Sounds(Joined(m, n), m)
  <2>1. /\ [m EXCEPT !.calls = q, !.content = d] \in Item
        /\ [m EXCEPT !.calls = q, !.content = d].calls = q
        /\ [m EXCEPT !.calls = q, !.content = d].content = d
        /\ Sounds([m EXCEPT !.calls = q, !.content = d], m)
    BY <1>2, <1>3, <1>8, <1>9, WithContent, Zenon
  <2>. QED
    BY <1>10, <2>1, Zenon
<1>. QED
  BY <1>9, <1>11, Zenon DEF Message!thinkingText, q, think, told

\* What the decoder holds, and what it makes of an item: reasoning goes to a
\* message before it or waits, anything else is a message, which may take the
\* reasoning that waits.
Decodings == {r \in [out : Seq(Item), pending : Phrase] : Thoughtless => r.pending = <<>>}
Attaches(r, think, x) ==
    \/ \E k \in 1..Len(r.out) :
          /\ r.out[k].role = "assistant"
          /\ x = [out |-> [r.out EXCEPT ![k] = Musing(r.out[k], think)], pending |-> r.pending]
    \/ x = [out |-> r.out, pending |-> r.pending \o think]
DecodesTo(r, w, x) ==
    \/ w.think # <<>> /\ Attaches(r, w.think, x)
    \/ /\ w.think = <<>>
       /\ x = [out |-> Append(r.out, Message!respItemToIR(w)), pending |-> r.pending]
    \/ /\ w.think = <<>> /\ r.pending # <<>> /\ w.role = "assistant"
       /\ x = [out |-> Append(r.out, Musing(Message!respItemToIR(w), r.pending)), pending |-> <<>>]

LEMMA AttachCases ==
    ASSUME NEW r \in Decodings, NEW think
    PROVE  Attaches(r, think, Message!attachReasoning(r, think))
<1> DEFINE said == {j \in DOMAIN r.out : r.out[j].role # "system"}
           P(j) == \A k \in said : k <= j
           last == CHOOSE j \in said : P(j)
           meets == said # {} /\ r.out[last].role = "assistant" /\ r.out[last].calls # <<>>
           x == Musing(r.out[last], think)
           o == [r.out EXCEPT ![last] = x]
           q == r.pending \o think
           y == Message!attachReasoning(r, think)
<1>1. r \in [out : Seq(Item), pending : Phrase]
  BY DEF Decodings
<1>2. y = IF meets THEN [r EXCEPT !.out = o] ELSE [r EXCEPT !.pending = q]
  BY Zenon DEF Message!attachReasoning, Musing
<1>3. said # {} => last \in 1..Len(r.out)
  <2>1. Len(r.out) \in Nat /\ DOMAIN r.out = 1..Len(r.out)
    BY <1>1
  <2>2. ASSUME said # {} PROVE \E j \in said : P(j)
    <3>1. said \in SUBSET (1..Len(r.out))
      BY <2>1
    <3> HIDE DEF said
    <3>. QED
      BY <2>1, <2>2, <3>1, GreatestExists
  <2>3. said # {} => last \in said
    <3> HIDE DEF said, P
    <3>. QED
      BY <2>2, Zenon
  <2> HIDE DEF last, P
  <2>. QED
    BY <2>1, <2>3
<1> HIDE DEF o, q, x, said, last
<1>4. /\ [r EXCEPT !.out = o] = [out |-> o, pending |-> r.pending]
      /\ [r EXCEPT !.pending = q] = [out |-> r.out, pending |-> q]
  BY <1>1
<1>5. CASE meets
  BY <1>2, <1>3, <1>4, <1>5, Zenon DEF Attaches, o, x
<1>6. CASE ~meets
  BY <1>2, <1>4, <1>6, Zenon DEF Attaches, q
<1>. QED
  BY <1>5, <1>6

LEMMA DecodeItemCases ==
    ASSUME NEW r \in Decodings, NEW w \in WireSet, Shaped(w), from = "responses"
    PROVE  DecodesTo(r, w, Message!decodeItem(r, w))
<1> DEFINE m == Message!respItemToIR(w)
           takes == r.pending # <<>> /\ (m.role = "assistant" \/ m.calls # <<>>)
           t == Musing(m, r.pending)
           o == IF takes THEN t ELSE m
           n == IF takes THEN <<>> ELSE r.pending
           y == Message!decodeItem(r, w)
<1>1. y = IF w.think # <<>> THEN Message!attachReasoning(r, w.think)
          ELSE [out |-> Append(r.out, o), pending |-> n]
  BY Zenon DEF Message!decodeItem, Musing
<1>2. CASE w.think # <<>>
  <2>1. Attaches(r, w.think, y)
    BY <1>1, <1>2, AttachCases, Zenon
  <2>. QED
    BY <1>2, <2>1, Zenon DEF DecodesTo
<1>3. CASE w.think = <<>>
  <2>1. m \in Item /\ m.role = w.role
    BY <1>3, RespItemSays, Zenon
  <2>2. takes => w.role = "assistant"
    BY <2>1, ItemFacts, Zenon DEF ItemForm
  <2> HIDE DEF m
  <2>3. CASE takes
    <3>1. y = [out |-> Append(r.out, t), pending |-> <<>>]
      BY <1>1, <1>3, <2>3, Zenon
    <3>. QED
      BY <1>3, <2>2, <2>3, <3>1, Zenon DEF DecodesTo, m
  <2>4. CASE ~takes
    <3>1. y = [out |-> Append(r.out, m), pending |-> r.pending]
      BY <1>1, <1>3, <2>4, Zenon
    <3>. QED
      BY <1>3, <3>1, Zenon DEF DecodesTo, m
  <2>. QED
    BY <2>3, <2>4
<1>. QED
  BY <1>2, <1>3

LEMMA DecodesToType ==
    ASSUME NEW r \in Decodings, NEW w \in WireSet, Shaped(w), from = "responses",
           w.think # <<>> => ~Thoughtless, NEW x, DecodesTo(r, w, x)
    PROVE  x \in Decodings
<1> DEFINE m == Message!respItemToIR(w)
           t == Musing(m, r.pending)
           e == <<>>
<1>1. r.out \in Seq(Item) /\ r.pending \in Phrase /\ w.think \in Phrase /\ e \in Phrase
      /\ (Thoughtless => r.pending = e)
  <2>1. e \in Phrase
    BY DEF Phrase
  <2>. QED
    BY <2>1 DEF Decodings, WireSet
<1> HIDE DEF e
<1>2. ASSUME NEW o \in Seq(Item), NEW p \in Phrase, Thoughtless => p = e, x = [out |-> o, pending |-> p]
      PROVE  x \in Decodings
  BY <1>2 DEF Decodings, e
<1>3. ASSUME w.think # e, NEW k \in 1..Len(r.out), r.out[k].role = "assistant",
             x = [out |-> [r.out EXCEPT ![k] = Musing(r.out[k], w.think)], pending |-> r.pending]
      PROVE  x \in Decodings
  <2> DEFINE y == Musing(r.out[k], w.think)
             o == [r.out EXCEPT ![k] = y]
  <2>1. r.out[k] \in Item
    BY <1>1
  <2>2. y \in Item
    BY <1>1, <1>3, <2>1, MusingType, Zenon DEF e
  <2> HIDE DEF y
  <2>3. o \in Seq(Item)
    BY <1>1, <2>2, ExceptSeq
  <2> HIDE DEF o
  <2>. QED
    BY <1>1, <1>2, <1>3, <2>3, Zenon DEF o, y
<1>4. ASSUME w.think # e, x = [out |-> r.out, pending |-> r.pending \o w.think]
      PROVE  x \in Decodings
  <2> DEFINE p == r.pending \o w.think
  <2>1. p \in Phrase
    BY <1>1 DEF Phrase
  <2> HIDE DEF p
  <2>2. ~Thoughtless
    BY <1>4 DEF e
  <2>. QED
    BY <1>1, <1>2, <1>4, <2>1, <2>2, Zenon DEF p
<1>5. ASSUME w.think = e, x = [out |-> Append(r.out, m), pending |-> r.pending]
      PROVE  x \in Decodings
  <2> DEFINE o == Append(r.out, m)
  <2>1. m \in Item
    BY <1>5, RespItemSays, Zenon DEF e
  <2> HIDE DEF m
  <2>2. o \in Seq(Item)
    BY <1>1, <2>1
  <2> HIDE DEF o
  <2>. QED
    BY <1>1, <1>2, <1>5, <2>2, Zenon DEF o
<1>6. ASSUME w.think = e, r.pending # e, w.role = "assistant",
             x = [out |-> Append(r.out, t), pending |-> e]
      PROVE  x \in Decodings
  <2> DEFINE o == Append(r.out, t)
  <2>1. m \in Item /\ m.role = w.role
    BY <1>6, RespItemSays, Zenon DEF e
  <2> HIDE DEF m
  <2>2. t \in Item
    BY <1>1, <1>6, <2>1, MusingType, Zenon
  <2> HIDE DEF t
  <2>3. o \in Seq(Item)
    BY <1>1, <2>2
  <2> HIDE DEF o
  <2>. QED
    BY <1>1, <1>2, <1>6, <2>3, Zenon DEF o
<1>. QED
  BY <1>3, <1>4, <1>5, <1>6, Zenon DEF DecodesTo, Attaches, e, m, t

\* The client's conversation is typed and shaped.
Sendable == history \in Seq(WireSet) /\ \A j \in 1..Len(history) : Shaped(history[j])

\* f is what the decoder holds after each item of the history.
DecodingSteps(f) ==
    /\ f[0].out = <<>> /\ f[0].pending = <<>>
    /\ \A j \in 0..Len(history) : f[j] \in Decodings
    /\ \A j \in 1..Len(history) : DecodesTo(f[j - 1], history[j], f[j])
    /\ Message!Fold(Message!decodeItem, [out |-> <<>>, pending |-> <<>>], history) = f[Len(history)]

LEMMA DecodeSteps ==
    ASSUME Sendable, from = "responses"
    PROVE  \E f : DecodingSteps(f)
<1> DEFINE m == Len(history)
           D == Decodings
           e == <<>>
           z == [out |-> e, pending |-> e]
           B(j, r) == Message!decodeItem(r, history[j])
           s == [x \in (1..m) \X D |-> B(x[1], x[2])]
           R(f) == f = [j \in 0..m |-> IF j = 0 THEN z ELSE B(j, f[j - 1])]
<1>1. m \in Nat /\ \A j \in 1..m : history[j] \in WireSet /\ Shaped(history[j])
  BY DEF Sendable
<1>2. z \in D
  <2>1. e \in Phrase /\ e \in Seq(Item)
    BY DEF Phrase
  <2> HIDE DEF e
  <2>2. z \in [out : Seq(Item), pending : Phrase] /\ z.pending = e
    BY <2>1
  <2> HIDE DEF z
  <2>. QED
    BY <2>2 DEF Decodings, e
<1>3. ASSUME NEW j \in 1..m, NEW r \in D PROVE B(j, r) \in D /\ DecodesTo(r, history[j], B(j, r))
  <2>1. DecodesTo(r, history[j], B(j, r))
    BY <1>1, DecodeItemCases, Zenon
  <2>2. history[j].think # <<>> => ~Thoughtless
    BY DEF Thoughtless
  <2>. QED
    BY <1>1, <2>1, <2>2, DecodesToType, Zenon
<1>4. Message!Fold(Message!decodeItem, [out |-> <<>>, pending |-> <<>>], history) = (CHOOSE x : R(x))[m]
  BY Zenon DEF Message!Fold
<1> HIDE DEF B, z, m, D
<1>5. \E f : R(f)
  <2>1. s \in Steps(D, m)
    BY <1>3 DEF Steps
  <2>2. PICK f : Recursive(f, D, z, m, s)
    <3> HIDE DEF s
    <3>. QED
      BY <1>1, <1>2, <2>1, RecursionExists
  <2>3. f \in [0..m -> D] /\ \A j \in 0..m : f[j] = IF j = 0 THEN z ELSE s[<<j, f[j - 1]>>]
    BY <2>2, Zenon DEF Recursive
  <2>4. ASSUME NEW j \in 0..m PROVE f[j] = IF j = 0 THEN z ELSE B(j, f[j - 1])
    <3>1. j # 0 => j \in 1..m /\ f[j - 1] \in D
      BY <1>1, <2>3
    <3>2. j # 0 => s[<<j, f[j - 1]>>] = B(j, f[j - 1])
      BY <3>1
    <3>. QED
      BY <2>3, <3>2, Zenon
  <2>5. f = [j \in 0..m |-> f[j]]
    BY <2>3
  <2>. QED
    BY <2>4, <2>5, Zenon
<1> DEFINE f == CHOOSE x : R(x)
<1>6. R(f)
  BY <1>5, Zenon
<1> HIDE DEF f
<1>7. \A j \in 0..m : f[j] = IF j = 0 THEN z ELSE B(j, f[j - 1])
  BY <1>6, Zenon
<1>8. ASSUME NEW j \in 1..m PROVE f[j] = B(j, f[j - 1])
  <2>1. j \in 0..m /\ j # 0
    BY <1>1
  <2>. QED
    BY <1>7, <2>1, Zenon
<1>9. f[0] = z
  BY <1>1, <1>7
<1>10. \A j \in 0..m : f[j] \in D
  <2>1. f[0] \in D
    BY <1>2, <1>9, Zenon
  <2>2. \A j \in 1..m : f[j - 1] \in D => f[j] \in D
    BY <1>3, <1>8, Zenon
  <2>. QED
    BY <1>1, <2>1, <2>2, RecursionHolds, Zenon
<1>11. f[0].out = e /\ f[0].pending = e
  <2> HIDE DEF e
  <2>. QED
    BY <1>9 DEF z
<1>12. ASSUME NEW j \in 1..m PROVE DecodesTo(f[j - 1], history[j], f[j])
  <2>1. j - 1 \in 0..m
    BY <1>1
  <2>. QED
    BY <1>3, <1>8, <1>10, <2>1, Zenon
<1>13. Message!Fold(Message!decodeItem, [out |-> <<>>, pending |-> <<>>], history) = f[m]
  BY <1>4, Zenon DEF f
<1> HIDE DEF R, s
<1>14. DecodingSteps(f)
  BY <1>10, <1>11, <1>12, <1>13, Zenon DEF DecodingSteps, m, D
<1>. QED
  BY <1>14

\* What joining makes of one more message.
Joins(o, m, x) ==
    \/ x = Append(o, m)
    \/ /\ o # <<>> /\ OnlyCalls(o[Len(o)]) /\ OnlyCalls(m)
       /\ x = [o EXCEPT ![Len(o)] = Joined(o[Len(o)], m)]

\* c is what joining has after each of the messages.
JoiningSteps(c, messages) ==
    /\ c[0] = <<>>
    /\ \A j \in 0..Len(messages) : c[j] \in Seq(Item)
    /\ \A j \in 1..Len(messages) : Joins(c[j - 1], messages[j], c[j])
    /\ Message!coalesceResponsesFunctionCalls(messages) = c[Len(messages)]

LEMMA FirstPart ==
    ASSUME NEW S, NEW o \in Seq(S), NEW k \in 1..Len(o)
    PROVE  /\ SubSeq(o, 1, k - 1) \in Seq(S) /\ Len(SubSeq(o, 1, k - 1)) = k - 1
           /\ \A j \in 1..(k - 1) : SubSeq(o, 1, k - 1)[j] = o[j]
OBVIOUS

LEMMA ReplaceLast ==
    ASSUME NEW S, NEW o \in Seq(S), o # <<>>, NEW x \in S
    PROVE  /\ Append(Message!Front(o), x) = [o EXCEPT ![Len(o)] = x]
           /\ [o EXCEPT ![Len(o)] = x] \in Seq(S)
<1> DEFINE k == Len(o)
           a == Message!Front(o)
           u == Append(a, x)
           v == [o EXCEPT ![k] = x]
<1>1. k \in Nat /\ k >= 1 /\ k \in 1..k /\ a = SubSeq(o, 1, k - 1)
  BY DEF Message!Front
<1>2. a \in Seq(S) /\ Len(a) = k - 1 /\ \A j \in 1..(k - 1) : a[j] = o[j]
  BY <1>1, FirstPart
<1> HIDE DEF a
<1>3. u \in Seq(S) /\ Len(u) = k /\ \A j \in 1..k : u[j] = IF j = k THEN x ELSE o[j]
  BY <1>1, <1>2
<1>4. v \in Seq(S) /\ Len(v) = k /\ \A j \in 1..k : v[j] = IF j = k THEN x ELSE o[j]
  BY <1>1, ExceptSeq
<1> HIDE DEF u, v, k
<1>5. u = v
  BY <1>3, <1>4, SeqEqual
<1>. QED
  BY <1>4, <1>5 DEF u, v, k, a

LEMMA JoinSteps ==
    ASSUME NEW messages \in Seq(Item)
    PROVE  \E c : JoiningSteps(c, messages)
<1> DEFINE only(a) == a.calls # <<>> /\ Message!visibleText(a) = <<>>
           m == Len(messages)
           S == Seq(Item)
           z == <<>>
           B(j, o) == IF o # <<>> /\ only(Message!Last(o)) /\ only(messages[j])
                        THEN Append(Message!Front(o), Joined(Message!Last(o), messages[j]))
                        ELSE Append(o, messages[j])
           s == [x \in (1..m) \X S |-> B(x[1], x[2])]
           R(f) == f = [j \in 0..m |-> IF j = 0 THEN z ELSE B(j, f[j - 1])]
<1>1. m \in Nat /\ \A j \in 1..m : messages[j] \in Item
  OBVIOUS
<1>2. z \in S
  OBVIOUS
<1>3. ASSUME NEW j \in 1..m, NEW o \in S PROVE B(j, o) \in S /\ Joins(o, messages[j], B(j, o))
  <2> DEFINE a == o[Len(o)]
             x == Joined(a, messages[j])
  <2>1. Message!Last(o) = a
    BY Zenon DEF Message!Last
  <2>2. CASE o # <<>> /\ only(a) /\ only(messages[j])
    <3>1. B(j, o) = Append(Message!Front(o), x)
      BY <2>1, <2>2, Zenon
    <3>2. a \in Item
      BY <2>2
    <3>3. OnlyCalls(a) /\ OnlyCalls(messages[j])
      BY <2>2, Zenon DEF OnlyCalls
    <3>4. x \in Item
      BY <1>1, <3>2, <3>3, JoinedType, Zenon
    <3> HIDE DEF x, B
    <3>5. B(j, o) = [o EXCEPT ![Len(o)] = x] /\ B(j, o) \in Seq(Item)
      <4>1. o \in Seq(Item) /\ o # <<>>
        BY <2>2
      <4>2. /\ Append(Message!Front(o), x) = [o EXCEPT ![Len(o)] = x]
            /\ [o EXCEPT ![Len(o)] = x] \in Seq(Item)
        BY <3>4, <4>1, ReplaceLast, Zenon
      <4>. QED
        BY <3>1, <4>2, Zenon
    <3>. QED
      BY <2>2, <3>3, <3>5, Zenon DEF Joins, x
  <2>3. CASE ~(o # <<>> /\ only(a) /\ only(messages[j]))
    <3>1. B(j, o) = Append(o, messages[j])
      BY <2>1, <2>3, Zenon
    <3>2. Append(o, messages[j]) \in S
      BY <1>1
    <3> HIDE DEF B, S
    <3>. QED
      BY <3>1, <3>2, Zenon DEF Joins
  <2>. QED
    BY <2>2, <2>3
<1>4. Message!coalesceResponsesFunctionCalls(messages) = (CHOOSE x : R(x))[m]
  BY Zenon DEF Message!coalesceResponsesFunctionCalls, Message!Fold, Joined, JoinedContent
<1> HIDE DEF B, m, S, z
<1>5. \E f : R(f)
  <2>1. s \in Steps(S, m)
    BY <1>3 DEF Steps
  <2>2. PICK f : Recursive(f, S, z, m, s)
    <3> HIDE DEF s
    <3>. QED
      BY <1>1, <1>2, <2>1, RecursionExists
  <2>3. f \in [0..m -> S] /\ \A j \in 0..m : f[j] = IF j = 0 THEN z ELSE s[<<j, f[j - 1]>>]
    BY <2>2, Zenon DEF Recursive
  <2>4. ASSUME NEW j \in 0..m PROVE f[j] = IF j = 0 THEN z ELSE B(j, f[j - 1])
    <3>1. j # 0 => j \in 1..m /\ f[j - 1] \in S
      BY <1>1, <2>3
    <3>2. j # 0 => s[<<j, f[j - 1]>>] = B(j, f[j - 1])
      BY <3>1
    <3>. QED
      BY <2>3, <3>2, Zenon
  <2>5. f = [j \in 0..m |-> f[j]]
    BY <2>3
  <2>. QED
    BY <2>4, <2>5, Zenon
<1> DEFINE f == CHOOSE x : R(x)
<1>6. R(f)
  BY <1>5, Zenon
<1> HIDE DEF f
<1>7. \A j \in 0..m : f[j] = IF j = 0 THEN z ELSE B(j, f[j - 1])
  BY <1>6, Zenon
<1>8. ASSUME NEW j \in 1..m PROVE f[j] = B(j, f[j - 1])
  <2>1. j \in 0..m /\ j # 0
    BY <1>1
  <2>. QED
    BY <1>7, <2>1, Zenon
<1>9. f[0] = z
  BY <1>1, <1>7
<1>10. \A j \in 0..m : f[j] \in S
  <2>1. f[0] \in S
    BY <1>2, <1>9, Zenon
  <2>2. \A j \in 1..m : f[j - 1] \in S => f[j] \in S
    BY <1>3, <1>8, Zenon
  <2>. QED
    BY <1>1, <2>1, <2>2, RecursionHolds, Zenon
<1>11. ASSUME NEW j \in 1..m PROVE Joins(f[j - 1], messages[j], f[j])
  <2>1. j - 1 \in 0..m
    BY <1>1
  <2>. QED
    BY <1>3, <1>8, <1>10, <2>1, Zenon
<1>12. Message!coalesceResponsesFunctionCalls(messages) = f[m]
  BY <1>4, Zenon DEF f
<1> HIDE DEF R, s
<1>13. JoiningSteps(f, messages)
  BY <1>9, <1>10, <1>11, <1>12, Zenon DEF JoiningSteps, m, S, z
<1>. QED
  BY <1>13

\* Reasoning that was still waiting at the end.
Late(think) == Message!IR("assistant", <<>>, Message!Blocks("thinking", think), <<>>, "")

LEMMA LateType ==
    ASSUME NEW think \in Phrase, ~Thoughtless
    PROVE  /\ Late(think) \in Item /\ Late(think).role = "assistant"
           /\ Late(think).text = <<>> /\ Late(think).calls = <<>> /\ Late(think).callId = ""
           /\ Message!thinkingText(Late(think)) = think
<1> DEFINE e == <<>>
           no == ""
           c == Message!Blocks("thinking", think)
           m == Message!IR("assistant", e, c, e, no)
<1>1. e \in Phrase /\ e \in Seq(Calls) /\ "assistant" \in Roles /\ no \in Ids
  <2>1. e \in Phrase /\ e \in Seq(Calls) /\ "assistant" \in Roles
    BY DEF Phrase, Roles
  <2>. QED
    BY <2>1, IdTypes, Zenon
<1>2. Clean(c) /\ c \in Seq(BlockSet)
      /\ Message!TextOf(c, "thinking") = think /\ Message!TextOf(c, "text") = e
  BY BlocksType, CleanBlocks, BlocksText
<1>3. Late(think) = m
  BY Zenon DEF Late
<1> HIDE DEF e, no, c, m
<1>4. m.role = "assistant" /\ m.text = e /\ m.content = c /\ m.calls = e /\ m.callId = no
  BY DEF m, Message!IR
<1>5. m \in IRSet
  BY <1>1, <1>2, IRType, Zenon DEF m
<1>6. ItemForm(m)
  <2>1. "assistant" # "tool"
    OBVIOUS
  <2>. QED
    BY <1>2, <1>4, <2>1, Zenon DEF ItemForm, e, no
<1>7. m \in Item
  BY <1>5, <1>6 DEF Item
<1>. QED
  BY <1>2, <1>3, <1>4, <1>7, Zenon DEF Message!thinkingText, e, no

\* The decoder's steps, the messages it leaves, and the joining of those.
Decoding(f, ms, c) ==
    /\ DecodingSteps(f) /\ ms \in Seq(Item) /\ JoiningSteps(c, ms)
    /\ \/ f[Len(history)].pending = <<>> /\ ms = f[Len(history)].out
       \/ /\ f[Len(history)].pending # <<>> /\ ~Thoughtless
          /\ ms = Append(f[Len(history)].out, Late(f[Len(history)].pending))
    /\ Message!decodeRequest(history) = c[Len(ms)]

LEMMA ResponsesDecoded ==
    ASSUME Sendable, from = "responses"
    PROVE  \E f, ms, c : Decoding(f, ms, c)
<1>1. PICK f : DecodingSteps(f)
  BY DecodeSteps
<1> DEFINE r == f[Len(history)]
           rest == IF r.pending = <<>> THEN <<>> ELSE <<Late(r.pending)>>
           ms == r.out \o rest
<1>2. r \in Decodings
  <2>1. Len(history) \in 0..Len(history)
    BY DEF Sendable
  <2>. QED
    BY <1>1, <2>1, Zenon DEF DecodingSteps
<1>3. r.out \in Seq(Item) /\ r.pending \in Phrase /\ (Thoughtless => r.pending = <<>>)
  BY <1>2 DEF Decodings
<1>4. Message!decodeRequest(history) = Message!coalesceResponsesFunctionCalls(ms)
  <2>1. Message!decodeRequest(history) = Message!DecodeResponsesRequest(history)
    BY DEF Message!decodeRequest
  <2>2. r = Message!Fold(Message!decodeItem, [out |-> <<>>, pending |-> <<>>], history)
    BY <1>1, Zenon DEF DecodingSteps
  <2>. QED
    BY <2>1, <2>2, Zenon DEF Message!DecodeResponsesRequest, Message!decodeResponsesInputItems, Late
<1> HIDE DEF r
<1>5. CASE r.pending = <<>>
  <2>1. ms = r.out
    BY <1>3, <1>5
  <2>2. PICK c : JoiningSteps(c, ms)
    BY <1>3, <2>1, JoinSteps, Zenon
  <2>3. Decoding(f, ms, c)
    BY <1>1, <1>3, <1>4, <1>5, <2>1, <2>2, Zenon DEF Decoding, JoiningSteps, r
  <2>. QED
    BY <2>3, Zenon
<1>6. CASE r.pending # <<>>
  <2> DEFINE x == Late(r.pending)
  <2>1. ~Thoughtless
    BY <1>3, <1>6
  <2>2. x \in Item
    BY <1>3, <2>1, LateType
  <2>3. rest = <<x>>
    BY <1>6, Zenon
  <2> HIDE DEF x, rest
  <2>4. ms = Append(r.out, x) /\ ms \in Seq(Item)
    BY <1>3, <2>2, <2>3
  <2> HIDE DEF ms
  <2>5. PICK c : JoiningSteps(c, ms)
    BY <2>4, JoinSteps, Zenon
  <2>6. Decoding(f, ms, c)
    BY <1>1, <1>4, <1>6, <2>1, <2>4, <2>5, Zenon DEF Decoding, JoiningSteps, r, x
  <2>. QED
    BY <2>6, Zenon
<1>. QED
  BY <1>5, <1>6

\* What replacing an element by one of the same measure does to a sum: nothing.
Unmoved(g, o, k, x) == Sum(g, [o EXCEPT ![k] = x]) = Sum(g, o)

LEMMA SumExcept ==
    ASSUME NEW S, NEW T, NEW g, Measure(g, S, T), NEW o \in Seq(S), NEW k \in 1..Len(o), NEW x \in S,
           g[x] = g[o[k]]
    PROVE  Unmoved(g, o, k, x)
<1> DEFINE v == [o EXCEPT ![k] = x]
<1>1. v \in Seq(S) /\ Len(v) = Len(o) /\ \A j \in 1..Len(o) : v[j] = IF j = k THEN x ELSE o[j]
  BY ExceptSeq
<1> HIDE DEF v
<1>2. ASSUME NEW j \in 1..Len(v) PROVE g[v[j]] = g[o[j]]
  BY <1>1, Zenon
<1>3. Sum(g, v) = Sum(g, o)
  BY <1>1, <1>2, SumSame
<1>. QED
  BY <1>3, Zenon DEF v, Unmoved

\* The texts of messages and of items by some roles.
TextBy(R) == [m \in IRSet |-> IF m.role \in R THEN m.text ELSE <<>>]
SaidBy(R) == [w \in WireSet |-> IF w.role \in R THEN w.text ELSE <<>>]

LEMMA TextByMeasure ==
    ASSUME NEW R PROVE Measure(TextBy(R), IRSet, Payload) /\ Measure(SaidBy(R), WireSet, Payload)
<1> DEFINE e == <<>>
<1>1. e \in Seq(Payload)
  OBVIOUS
<1>2. \A m \in IRSet : m.text \in Seq(Payload)
  BY DEF IRSet, Phrase
<1>3. \A w \in WireSet : w.text \in Seq(Payload)
  BY DEF WireSet, Phrase
<1> HIDE DEF e
<1>4. \A m \in IRSet : (IF m.role \in R THEN m.text ELSE e) \in Seq(Payload)
  BY <1>1, <1>2, Zenon
<1>5. \A w \in WireSet : (IF w.role \in R THEN w.text ELSE e) \in Seq(Payload)
  BY <1>1, <1>3, Zenon
<1>. QED
  BY <1>4, <1>5 DEF Measure, TextBy, SaidBy, e

\* One more item adds its text, and none is lost with reasoning.
LEMMA ItemAddsText ==
    ASSUME NEW r \in Decodings, NEW w \in WireSet, Shaped(w), from = "responses",
           w.think # <<>> => ~Thoughtless, NEW x, DecodesTo(r, w, x),
           NEW R, "tool" \notin R
    PROVE  Sum(TextBy(R), x.out) = Sum(TextBy(R), r.out) \o SaidBy(R)[w]
<1> DEFINE g == TextBy(R)
           h == SaidBy(R)
           m == Message!respItemToIR(w)
           t == Musing(m, r.pending)
           s == Sum(g, r.out)
<1>1. r.out \in Seq(Item) /\ r.out \in Seq(IRSet) /\ r.pending \in Phrase /\ w.think \in Phrase
      /\ (Thoughtless => r.pending = <<>>)
  <2>1. Item \subseteq IRSet
    BY DEF Item
  <2>2. r.out \in Seq(Item) /\ r.pending \in Phrase /\ w.think \in Phrase /\ (Thoughtless => r.pending = <<>>)
    BY DEF Decodings, WireSet
  <2>. QED
    BY <2>1, <2>2
<1>2. Measure(g, IRSet, Payload) /\ Measure(h, WireSet, Payload)
  BY TextByMeasure, Zenon
<1>3. s \in Phrase /\ s \o <<>> = s
  <2>1. s \in Seq(Payload)
    BY <1>1, <1>2, SumType, Zenon
  <2> HIDE DEF s
  <2>. QED
    BY <2>1 DEF Phrase
<1>4. ASSUME NEW a \in Item, NEW b \in Item, Sounds(a, b) PROVE g[a] = g[b]
  <2>1. a \in IRSet /\ b \in IRSet /\ a.role = b.role /\ a.text = b.text
    BY <1>4 DEF Item, Sounds
  <2>. QED
    BY <2>1, Zenon DEF TextBy
<1>5. w.think # <<>> => h[w] = <<>>
  BY DEF SaidBy, Shaped
<1>6. ASSUME w.think = <<>> PROVE m \in Item /\ m \in IRSet /\ m.role = w.role /\ g[m] = h[w]
  <2>1. m \in Item /\ m.role = w.role /\ m.text = ChatSaid(w)
    BY <1>6, RespItemSays, Zenon
  <2>2. m \in IRSet
    BY <2>1 DEF Item
  <2>3. w.role # "tool" => w.outs = <<>>
    BY DEF Shaped
  <2> HIDE DEF m
  <2>4. g[m] = IF w.role \in R THEN ChatSaid(w) ELSE <<>>
    BY <2>1, <2>2 DEF TextBy
  <2>5. h[w] = IF w.role \in R THEN w.text ELSE <<>>
    BY DEF SaidBy
  <2>. QED
    BY <2>1, <2>2, <2>3, <2>4, <2>5, Zenon DEF ChatSaid
<1> HIDE DEF g, h, m, s
<1>7. ASSUME w.think # <<>>, NEW k \in 1..Len(r.out), r.out[k].role = "assistant",
             x = [out |-> [r.out EXCEPT ![k] = Musing(r.out[k], w.think)], pending |-> r.pending]
      PROVE  Sum(g, x.out) = s \o h[w]
  <2> DEFINE y == Musing(r.out[k], w.think)
  <2>1. r.out[k] \in Item
    BY <1>1
  <2>2. y \in Item /\ g[y] = g[r.out[k]]
    BY <1>1, <1>4, <1>7, <2>1, MusingType, Zenon
  <2>3. y \in IRSet
    BY <2>2 DEF Item
  <2>4. x.out = [r.out EXCEPT ![k] = y]
    BY <1>7
  <2> HIDE DEF y
  <2>5. Unmoved(g, r.out, k, y)
    BY <1>1, <1>2, <2>2, <2>3, SumExcept, Zenon
  <2>. QED
    BY <1>3, <1>5, <1>7, <2>4, <2>5, Zenon DEF Unmoved, s
<1>8. ASSUME w.think # <<>>, x = [out |-> r.out, pending |-> r.pending \o w.think]
      PROVE  Sum(g, x.out) = s \o h[w]
  <2>1. x.out = r.out
    BY <1>8
  <2>. QED
    BY <1>3, <1>5, <1>8, <2>1, Zenon DEF s
<1>9. ASSUME NEW a \in IRSet, g[a] = h[w], x.out = Append(r.out, a) PROVE Sum(g, x.out) = s \o h[w]
  <2>1. AddsOne(g, r.out, a)
    BY <1>1, <1>2, SumAppend, Zenon
  <2>. QED
    BY <1>9, <2>1, Zenon DEF AddsOne, s
<1>10. ASSUME w.think = <<>>, x = [out |-> Append(r.out, m), pending |-> r.pending]
       PROVE  Sum(g, x.out) = s \o h[w]
  <2>1. x.out = Append(r.out, m)
    BY <1>10
  <2>. QED
    BY <1>6, <1>9, <1>10, <2>1, Zenon
<1>11. ASSUME w.think = <<>>, r.pending # <<>>, w.role = "assistant",
              x = [out |-> Append(r.out, t), pending |-> <<>>]
       PROVE  Sum(g, x.out) = s \o h[w]
  <2>1. x.out = Append(r.out, t)
    BY <1>11
  <2>2. t \in Item /\ g[t] = g[m]
    BY <1>1, <1>4, <1>6, <1>11, MusingType, Zenon
  <2>3. t \in IRSet
    BY <2>2 DEF Item
  <2>. QED
    BY <1>6, <1>9, <1>11, <2>1, <2>2, <2>3, Zenon
<1>12. Sum(g, x.out) = s \o h[w]
  BY <1>7, <1>8, <1>10, <1>11, Zenon DEF DecodesTo, Attaches, m
<1>. QED
  BY <1>12 DEF g, h, s

\* Joining messages of calls leaves the texts alone.
LEMMA JoinAddsText ==
    ASSUME NEW o \in Seq(Item), NEW m \in Item, NEW x, Joins(o, m, x), NEW R
    PROVE  Sum(TextBy(R), x) = Sum(TextBy(R), o) \o TextBy(R)[m]
<1> DEFINE g == TextBy(R)
           s == Sum(g, o)
<1>1. o \in Seq(IRSet) /\ m \in IRSet
  <2>1. Item \subseteq IRSet
    BY DEF Item
  <2>. QED
    BY <2>1
<1>2. Measure(g, IRSet, Payload)
  BY TextByMeasure, Zenon
<1>3. s \o <<>> = s
  <2>1. s \in Seq(Payload)
    BY <1>1, <1>2, SumType, Zenon
  <2> HIDE DEF s
  <2>. QED
    BY <2>1
<1>4. ASSUME NEW a \in Item, a.text = <<>> PROVE g[a] = <<>>
  <2>1. a \in IRSet
    BY DEF Item
  <2>. QED
    BY <1>4, <2>1, Zenon DEF TextBy
<1> HIDE DEF g
<1>5. CASE x = Append(o, m)
  <2>1. AddsOne(g, o, m)
    BY <1>1, <1>2, SumAppend, Zenon
  <2>. QED
    BY <1>5, <2>1, Zenon DEF AddsOne, g
<1>6. ASSUME o # <<>>, OnlyCalls(o[Len(o)]), OnlyCalls(m),
             x = [o EXCEPT ![Len(o)] = Joined(o[Len(o)], m)]
      PROVE  Sum(g, x) = s \o g[m]
  <2> DEFINE k == Len(o)
             a == o[k]
             y == Joined(a, m)
  <2>1. k \in 1..Len(o) /\ a \in Item
    BY <1>6
  <2>2. a.text = <<>> /\ m.text = <<>>
    BY <1>6, <2>1, ItemFacts, Zenon DEF OnlyCalls
  <2>3. y \in Item /\ y.text = <<>>
    BY <1>6, <2>1, <2>2, JoinedType, Zenon DEF Sounds
  <2>4. y \in IRSet
    BY <2>3 DEF Item
  <2>5. g[y] = <<>> /\ g[a] = <<>> /\ g[m] = <<>>
    BY <1>4, <2>1, <2>2, <2>3, Zenon
  <2>6. x = [o EXCEPT ![k] = y]
    BY <1>6
  <2>7. g[y] = g[o[k]]
    BY <2>5
  <2> HIDE DEF a, k, y
  <2>8. Unmoved(g, o, k, y)
    BY <1>1, <1>2, <2>1, <2>4, <2>7, SumExcept, Zenon
  <2>. QED
    BY <1>3, <2>5, <2>6, <2>8, Zenon DEF Unmoved
<1>. QED
  BY <1>5, <1>6, Zenon DEF Joins, g

\* A sum that grows element by element.
Builds(g, ws, f) == \A j \in 1..Len(ws) : f[j] = f[j - 1] \o g[ws[j]]
Totals(g, ws, f) == Sum(g, ws) = f[Len(ws)]

LEMMA SumGrows ==
    ASSUME NEW S, NEW T, NEW g, Measure(g, S, T), NEW ws \in Seq(S), NEW f, f[0] = <<>>,
           Builds(g, ws, f)
    PROVE  Totals(g, ws, f)
<1> DEFINE s == Mapped(g, ws)
<1>1. s \in Seq(Seq(T)) /\ Len(s) = Len(ws) /\ \A j \in 1..Len(ws) : s[j] = g[ws[j]]
  <2>1. Maps(g, ws, T)
    BY MapType, Zenon
  <2>. QED
    BY <2>1, Zenon DEF Maps
<1> HIDE DEF s
<1>2. \A j \in 1..Len(s) : f[j] = f[j - 1] \o s[j]
  BY <1>1 DEF Builds
<1>3. Message!FlattenSeq(s) = f[Len(s)]
  BY <1>1, <1>2, FlattenUnique, Zenon
<1>. QED
  BY <1>1, <1>3, Zenon DEF Sum, Totals, s

\* The messages of a Responses client say what its items say.
LEMMA ResponsesTexts ==
    ASSUME Sendable, from = "responses", NEW R, "tool" \notin R
    PROVE  /\ Message!decodeRequest(history) \in Seq(Item)
           /\ Sum(TextBy(R), Message!decodeRequest(history)) = Sum(SaidBy(R), history)
<1> DEFINE g == TextBy(R)
           h == SaidBy(R)
           n == Len(history)
<1>1. PICK f, ms, c : Decoding(f, ms, c)
  BY ResponsesDecoded, Zenon
<1>2. DecodingSteps(f) /\ ms \in Seq(Item) /\ JoiningSteps(c, ms)
      /\ Message!decodeRequest(history) = c[Len(ms)]
  BY <1>1, Zenon DEF Decoding
<1>3. n \in Nat /\ Len(ms) \in Nat /\ history \in Seq(WireSet)
      /\ \A j \in 1..n : history[j] \in WireSet /\ Shaped(history[j])
  BY <1>2 DEF Sendable
<1>4. Measure(g, IRSet, Payload) /\ Measure(h, WireSet, Payload)
  BY TextByMeasure, Zenon
<1>5. ms \in Seq(IRSet) /\ \A j \in 1..Len(ms) : ms[j] \in Item
  <2>1. Item \subseteq IRSet
    BY DEF Item
  <2>. QED
    BY <1>2, <2>1
<1> HIDE DEF g, h, n
<1>6. Sum(h, history) = Sum(g, f[n].out)
  <2> DEFINE F == [j \in 0..n |-> Sum(g, f[j].out)]
  <2>1. F[0] = <<>>
    <3>1. f[0].out = <<>>
      BY <1>2, Zenon DEF DecodingSteps
    <3>. QED
      BY <1>3, <3>1, SumNone
  <2>2. ASSUME NEW j \in 1..n PROVE F[j] = F[j - 1] \o h[history[j]]
    <3>1. j \in 0..n /\ j - 1 \in 0..n
      BY <1>3
    <3>2. f[j - 1] \in Decodings /\ DecodesTo(f[j - 1], history[j], f[j])
      BY <1>2, <3>1, Zenon DEF DecodingSteps, n
    <3>3. history[j].think # <<>> => ~Thoughtless
      BY DEF Thoughtless, n
    <3>4. Sum(g, f[j].out) = Sum(g, f[j - 1].out) \o h[history[j]]
      BY <1>3, <3>2, <3>3, ItemAddsText, Zenon DEF g, h
    <3>. QED
      BY <3>1, <3>4
  <2>3. F[n] = Sum(g, f[n].out)
    BY <1>3
  <2> HIDE DEF F
  <2>4. Builds(h, history, F)
    BY <2>2, Zenon DEF Builds, n
  <2>5. Totals(h, history, F)
    BY <1>3, <1>4, <2>1, <2>4, SumGrows, Zenon
  <2>. QED
    BY <2>3, <2>5, Zenon DEF Totals, n
<1>7. Sum(g, ms) = Sum(g, f[n].out)
  <2> DEFINE r == f[n]
             y == Late(r.pending)
  <2>1. \/ ms = r.out
        \/ ~Thoughtless /\ ms = Append(r.out, y)
    BY <1>1, Zenon DEF Decoding, n
  <2>2. r \in Decodings
    <3>1. n \in 0..n
      BY <1>3
    <3>. QED
      BY <1>2, <3>1, Zenon DEF DecodingSteps, n
  <2> HIDE DEF r
  <2>3. r.out \in Seq(IRSet) /\ r.pending \in Phrase
    <3>1. Item \subseteq IRSet
      BY DEF Item
    <3>2. r.out \in Seq(Item) /\ r.pending \in Phrase
      BY <2>2 DEF Decodings
    <3>. QED
      BY <3>1, <3>2
  <2>4. ASSUME ~Thoughtless, ms = Append(r.out, y) PROVE Sum(g, ms) = Sum(g, r.out)
    <3>1. y \in Item /\ y.text = <<>>
      BY <2>3, <2>4, LateType, Zenon
    <3>2. y \in IRSet
      BY <3>1 DEF Item
    <3> HIDE DEF y
    <3>3. g[y] = <<>>
      BY <3>1, <3>2, Zenon DEF g, TextBy
    <3>4. AddsOne(g, r.out, y)
      BY <1>4, <2>3, <3>2, SumAppend, Zenon
    <3>5. Sum(g, r.out) \in Seq(Payload)
      BY <1>4, <2>3, SumType, Zenon
    <3>6. Sum(g, r.out) \o <<>> = Sum(g, r.out)
      BY <3>5
    <3>. QED
      BY <2>4, <3>3, <3>4, <3>6, Zenon DEF AddsOne
  <2>. QED
    BY <2>1, <2>4, Zenon DEF r
<1>8. Sum(g, ms) = Sum(g, c[Len(ms)])
  <2> DEFINE k == Len(ms)
             F == [j \in 0..k |-> Sum(g, c[j])]
  <2>1. F[0] = <<>>
    <3>1. c[0] = <<>>
      BY <1>2, Zenon DEF JoiningSteps
    <3>. QED
      BY <1>3, <3>1, SumNone
  <2>2. ASSUME NEW j \in 1..k PROVE F[j] = F[j - 1] \o g[ms[j]]
    <3>1. j \in 0..k /\ j - 1 \in 0..k
      BY <1>3
    <3>2. c[j - 1] \in Seq(Item) /\ Joins(c[j - 1], ms[j], c[j])
      BY <1>2, <3>1, Zenon DEF JoiningSteps
    <3>3. Sum(g, c[j]) = Sum(g, c[j - 1]) \o g[ms[j]]
      BY <1>5, <3>2, JoinAddsText, Zenon DEF g
    <3>. QED
      BY <3>1, <3>3
  <2>3. F[k] = Sum(g, c[k])
    BY <1>3
  <2> HIDE DEF F
  <2>4. Builds(g, ms, F)
    BY <2>2, Zenon DEF Builds
  <2>5. Totals(g, ms, F)
    BY <1>4, <1>5, <2>1, <2>4, SumGrows, Zenon
  <2>. QED
    BY <2>3, <2>5, Zenon DEF Totals
<1>9. c[Len(ms)] \in Seq(Item)
  <2>1. Len(ms) \in 0..Len(ms)
    BY <1>3
  <2>. QED
    BY <1>2, <2>1, Zenon DEF JoiningSteps
<1>. QED
  BY <1>2, <1>6, <1>7, <1>8, <1>9, Zenon DEF g, h

----------------------------------------------------------------------------
(* The history a Chat upstream gets                                       *)

LEMMA ChatOuts ==
    ASSUME NEW m, m.callId \in Calls
    PROVE  Message!irMsgToChat(m).outs = <<m.callId>>
<1>1. m.callId # ""
  BY CallsAssumption, Zenon
<1> DEFINE o == IF m.callId = "" THEN <<>> ELSE <<m.callId>>
<1>2. o = <<m.callId>>
  BY <1>1, Zenon
<1> HIDE DEF o
<1>3. Message!irMsgToChat(m) = Message!Wire(m.role, Message!thinkingText(m),
         IF m.content = <<>> THEN m.text ELSE Message!TextOf(m.content, "text"),
         Message!ValidCalls(m.calls), o)
  BY Zenon DEF Message!irMsgToChat, o
<1>4. Message!irMsgToChat(m).outs = o
  BY <1>3 DEF Message!Wire
<1>. QED
  BY <1>2, <1>4

LEMMA ChatFields ==
    ASSUME NEW m
    PROVE  /\ Message!irMsgToChat(m).role = m.role
           /\ Message!irMsgToChat(m).calls = Message!ValidCalls(m.calls)
<1> DEFINE o == IF m.callId = "" THEN <<>> ELSE <<m.callId>>
<1>1. Message!irMsgToChat(m) = Message!Wire(m.role, Message!thinkingText(m),
         IF m.content = <<>> THEN m.text ELSE Message!TextOf(m.content, "text"),
         Message!ValidCalls(m.calls), o)
  BY Zenon DEF Message!irMsgToChat
<1> HIDE DEF o
<1>. QED
  BY <1>1 DEF Message!Wire

\* What is typed pairs every output with a call.
LEMMA TypedPaired ==
    ASSUME history \in Seq(WireSet), from \in {"messages", "responses"}
    PROVE  ToolsPaired
<1> DEFINE n == Message!normalizeChatHistory(Message!Rest(Message!decodeRequest(history)))
           h == Message!ChatRequest
           owner(j) == {i \in 1..(j - 1) : /\ j - i <= Len(h[i].calls)
                                           /\ h[j].outs = <<h[i].calls[j - i]>>}
<1>1. n \in Chats
  BY DecodeType, RestType, NormalizeType
<1>2. h = [j \in DOMAIN n |-> Message!irMsgToChat(n[j])]
  BY Zenon DEF Message!ChatRequest, Message!EncodeChatRequest
<1>3. ToolsPaired <=> (from # "chat" => \A j \in DOMAIN h :
          /\ h[j].role = "tool" => owner(j) # {} /\ h[j].calls = <<>>
          /\ \A k \in DOMAIN h[j].calls :
                j + k <= Len(h) /\ h[j + k].role = "tool" /\ j \in owner(j + k))
  BY Zenon DEF ToolsPaired, Message!ToolsPaired
<1> HIDE DEF n, h
<1>4. n \in Seq(IRSet) /\ Paired(n) /\ Len(n) \in Nat /\ DOMAIN n = 1..Len(n)
      /\ \A j \in 1..Len(n) : n[j].calls \in Seq(Valid)
  BY <1>1 DEF Chats
<1>5. DOMAIN h = 1..Len(n) /\ Len(h) = Len(n)
  BY <1>2, <1>4
<1>6. ASSUME NEW j \in 1..Len(n)
      PROVE  /\ h[j].role = n[j].role /\ h[j].calls = n[j].calls /\ n[j].calls \in Seq(Valid)
             /\ n[j].callId \in Calls => h[j].outs = <<n[j].callId>>
  <2>1. h[j] = Message!irMsgToChat(n[j]) /\ n[j].calls \in Seq(Valid)
    BY <1>2, <1>4
  <2>. QED
    BY <2>1, ChatFields, ChatOuts, ValidTwice
<1>7. ASSUME NEW i \in 1..Len(n), NEW k \in 1..Len(n[i].calls) PROVE n[i].calls[k] \in Calls
  <2>1. n[i].calls \in Seq(Valid)
    BY <1>4
  <2>. QED
    BY <2>1 DEF Valid
<1>8. ASSUME NEW j \in 1..Len(n), h[j].role = "tool" PROVE owner(j) # {} /\ h[j].calls = <<>>
  <2>1. n[j].role = "tool"
    BY <1>6, <1>8
  <2>2. n[j].calls = <<>>
    BY <1>4, <2>1 DEF Paired
  <2>3. PICK i \in 1..(j - 1) : j - i <= Len(n[i].calls) /\ n[j].callId = n[i].calls[j - i]
    BY <1>4, <2>1 DEF Paired
  <2>4. i \in 1..Len(n) /\ j - i \in 1..Len(n[i].calls)
    <3>1. i \in 1..Len(n) /\ j - i \in Nat /\ j - i >= 1
      BY <1>4
    <3>2. Len(n[i].calls) \in Nat
      BY <1>6, <3>1
    <3>. QED
      BY <2>3, <3>1, <3>2
  <2>5. n[j].callId \in Calls
    BY <1>7, <2>3, <2>4
  <2>6. h[j].outs = <<h[i].calls[j - i]>> /\ j - i <= Len(h[i].calls)
    BY <1>6, <2>3, <2>4, <2>5
  <2>7. i \in owner(j)
    BY <2>6
  <2>. QED
    BY <1>6, <2>2, <2>7
<1>9. ASSUME NEW j \in 1..Len(n), NEW k \in DOMAIN h[j].calls
      PROVE  j + k <= Len(h) /\ h[j + k].role = "tool" /\ j \in owner(j + k)
  <2>1. h[j].calls = n[j].calls /\ n[j].calls \in Seq(Valid) /\ k \in 1..Len(n[j].calls) /\ k \in Nat /\ k >= 1
    <3>1. h[j].calls = n[j].calls /\ n[j].calls \in Seq(Valid)
      BY <1>6
    <3>. QED
      BY <3>1
  <2>2. j + k <= Len(n) /\ n[j + k].role = "tool" /\ n[j + k].callId = n[j].calls[k]
    BY <1>4, <2>1 DEF Paired
  <2>3. j + k \in 1..Len(n) /\ j \in 1..((j + k) - 1) /\ (j + k) - j = k
    BY <1>4, <2>1, <2>2
  <2>4. n[j + k].callId \in Calls
    BY <1>7, <2>1, <2>2
  <2>5. h[j + k].role = "tool" /\ h[j + k].outs = <<h[j].calls[(j + k) - j]>>
        /\ (j + k) - j <= Len(h[j].calls)
    BY <1>6, <2>1, <2>2, <2>3, <2>4
  <2>6. j \in owner(j + k)
    BY <2>3, <2>5
  <2>. QED
    BY <1>5, <2>2, <2>5, <2>6
<1> HIDE DEF owner
<1>. QED
  BY <1>3, <1>5, <1>8, <1>9, Zenon

\* The conversations clients send.
MessageInv ==
    /\ history \in Seq(WireSet) /\ from \in {"chat", "messages", "responses"}
    /\ \A j \in 1..Len(history) : Shaped(history[j])

LEMMA SayType ==
    ASSUME Len(history) \in Nat, NEW slot \in Calls \cup {"think", "text"}
    PROVE  Message!Say(slot) \in Phrase
<1> DEFINE x == <<Len(history) + 1, slot>>
<1>1. x \in Nat \X (Calls \cup {"think", "text"})
  OBVIOUS
<1> HIDE DEF x
<1>2. <<x>> \in Phrase
  BY <1>1 DEF Phrase, Payload
<1>. QED
  BY <1>2 DEF Message!Say, x

LEMMA WireType ==
    ASSUME NEW role \in Roles, NEW think \in Phrase, NEW text \in Phrase,
           NEW calls \in Seq(Calls), NEW outs \in Seq(OutSet)
    PROVE  Message!Wire(role, think, text, calls, outs) \in WireSet
BY DEF Message!Wire, WireSet

\* The forms of what each client adds to its conversation.
ChatForm(w) ==
    \/ w \in {Message!User, Message!System}
    \/ \E th \in Message!OneOf("think"), tx \in Message!OneOf("text"), q \in Message!CallSeqs :
          w = Message!Wire("assistant", th, tx, q, <<>>)
    \/ \E c \in Message!Made : w = Message!Wire("tool", <<>>, <<>>, <<>>, <<Message!Out(c)>>)
MessagesForm(w) ==
    \/ w \in {Message!User}
    \/ \E th \in Message!OneOf("think"), tx \in Message!OneOf("text"), q \in Message!CallSeqs :
          w = Message!Wire("assistant", th, tx, q, <<>>)
    \/ \E tx \in Message!OneOf("text"), q \in Message!SeqOf(Message!Made, 2) :
          /\ q # <<>>
          /\ w = Message!Wire("user", <<>>, tx, <<>>, [j \in DOMAIN q |-> Message!Out(q[j])])
ResponsesForm(w) ==
    \/ w \in {Message!User, Message!System, Message!Wire("assistant", <<>>, Message!Say("text"), <<>>, <<>>),
              Message!Wire("assistant", Message!Say("think"), <<>>, <<>>, <<>>)}
    \/ \E c \in Calls \ Message!Made : w = Message!Wire("assistant", <<>>, <<>>, <<c>>, <<>>)
    \/ \E c \in Message!Made : w = Message!Wire("tool", <<>>, <<>>, <<>>, <<Message!Out(c)>>)

LEMMA ChatForms ==
    ASSUME NEW w \in Message!ChatWire
    PROVE  ChatForm(w)
<1> DEFINE e == <<>>
           A == {Message!User, Message!System}
           B == {Message!Wire("assistant", th, tx, q, e) :
                  th \in Message!OneOf("think"), tx \in Message!OneOf("text"), q \in Message!CallSeqs}
           C == {Message!Wire("tool", e, e, e, <<Message!Out(c)>>) : c \in Message!Made}
<1>1. Message!ChatWire = A \cup B \cup C
  BY DEF Message!ChatWire
<1> HIDE DEF A, B, C
<1>2. w \in A \/ w \in B \/ w \in C
  BY <1>1
<1>3. \/ w \in {Message!User, Message!System}
      \/ \E th \in Message!OneOf("think"), tx \in Message!OneOf("text"), q \in Message!CallSeqs :
            w = Message!Wire("assistant", th, tx, q, e)
      \/ \E c \in Message!Made : w = Message!Wire("tool", e, e, e, <<Message!Out(c)>>)
  BY <1>2 DEF A, B, C
<1>. QED
  BY <1>3, Zenon DEF ChatForm

LEMMA MessagesForms ==
    ASSUME NEW w \in Message!MessagesWire
    PROVE  MessagesForm(w)
<1> DEFINE e == <<>>
           R == {r \in Message!SeqOf(Message!Made, 2) : r # <<>>}
           A == {Message!User}
           B == {Message!Wire("assistant", th, tx, q, e) :
                  th \in Message!OneOf("think"), tx \in Message!OneOf("text"), q \in Message!CallSeqs}
           C == {Message!Wire("user", e, tx, e, [j \in DOMAIN q |-> Message!Out(q[j])]) :
                  tx \in Message!OneOf("text"), q \in R}
<1>1. Message!MessagesWire = A \cup B \cup C
  BY DEF Message!MessagesWire
<1> HIDE DEF A, B, C
<1>2. w \in A \/ w \in B \/ w \in C
  BY <1>1
<1>3. \A q \in R : q \in Message!SeqOf(Message!Made, 2) /\ q # <<>>
  OBVIOUS
<1> HIDE DEF R
<1>4. \/ w \in {Message!User}
      \/ \E th \in Message!OneOf("think"), tx \in Message!OneOf("text"), q \in Message!CallSeqs :
            w = Message!Wire("assistant", th, tx, q, e)
      \/ \E tx \in Message!OneOf("text"), q \in R :
            w = Message!Wire("user", e, tx, e, [j \in DOMAIN q |-> Message!Out(q[j])])
  BY <1>2 DEF A, B, C
<1>. QED
  BY <1>3, <1>4, Zenon DEF MessagesForm

LEMMA ResponsesForms ==
    ASSUME NEW w \in Message!ResponsesWire
    PROVE  ResponsesForm(w)
BY Zenon DEF Message!ResponsesWire, ResponsesForm

LEMMA ClientTypes ==
    ASSUME history \in Seq(WireSet),
           NEW w \in Message!ChatWire \cup Message!MessagesWire \cup Message!ResponsesWire
    PROVE  w \in WireSet
<1> DEFINE e == <<>>
<1>1. e \in Phrase /\ e \in Seq(Calls) /\ e \in Seq(OutSet)
  BY DEF Phrase
<1>2. Message!Say("think") \in Phrase /\ Message!Say("text") \in Phrase
  <2>1. Len(history) \in Nat
    OBVIOUS
  <2>. QED
    BY <2>1, SayType
<1> HIDE DEF e
<1>3. ASSUME NEW slot \in {"think", "text"}, NEW x \in Message!OneOf(slot) PROVE x \in Phrase
  <2>1. x = e \/ x = Message!Say(slot)
    BY DEF Message!OneOf, e
  <2>. QED
    BY <1>1, <1>2, <2>1
<1>4. Message!Made \subseteq Calls
  <2>1. ASSUME NEW j \in DOMAIN history PROVE Message!Range(history[j].calls) \subseteq Calls
    <3>0. history[j] \in WireSet
      OBVIOUS
    <3>1. history[j].calls \in Seq(Calls)
      BY <3>0 DEF WireSet
    <3>. QED
      BY <3>1 DEF Message!Range
  <2>. QED
    BY <2>1 DEF Message!Made
<1>5. ASSUME NEW c \in Calls PROVE Message!Out(c) \in OutSet
  <2>1. Message!Say(c) \in Phrase
    BY SayType
  <2>. QED
    BY <2>1 DEF Message!Out, OutSet
<1>6. ASSUME NEW q \in Message!CallSeqs PROVE q \in Seq(Calls)
  <2>1. PICK m \in 0..2 : q \in [1..m -> Calls \ Message!Made]
    BY Zenon DEF Message!CallSeqs, Message!BoundedSeq, Message!SeqOf
  <2>. QED
    BY <2>1
<1>7. ASSUME NEW q \in Message!SeqOf(Message!Made, 2) PROVE [j \in DOMAIN q |-> Message!Out(q[j])] \in Seq(OutSet)
  <2>1. PICK m \in 0..2 : q \in [1..m -> Message!Made]
    BY Zenon DEF Message!SeqOf
  <2> DEFINE o == [j \in DOMAIN q |-> Message!Out(q[j])]
  <2>2. o \in [1..m -> OutSet]
    BY <1>4, <1>5, <2>1
  <2> HIDE DEF o
  <2>3. o \in Seq(OutSet)
    BY <2>2
  <2>. QED
    BY <2>3 DEF o
<1>8. {"user", "system", "assistant", "tool"} \subseteq Roles
  BY DEF Roles
<1>9. ASSUME NEW c \in Calls
      PROVE  Message!Wire("tool", e, e, e, <<Message!Out(c)>>) \in WireSet
  <2>1. <<Message!Out(c)>> \in Seq(OutSet)
    BY <1>5
  <2>. QED
    BY <1>1, <1>8, <2>1, WireType
<1>10. Message!User \in WireSet /\ Message!System \in WireSet
  BY <1>1, <1>2, <1>8, WireType DEF Message!User, Message!System, e
<1>11. ASSUME NEW th \in Message!OneOf("think"), NEW tx \in Message!OneOf("text"), NEW q \in Message!CallSeqs
       PROVE  Message!Wire("assistant", th, tx, q, e) \in WireSet
  BY <1>1, <1>3, <1>6, <1>8, WireType
<1>12. CASE w \in Message!ChatWire
  <2>1. ChatForm(w)
    BY <1>12, ChatForms, Zenon
  <2>. QED
    BY <1>4, <1>9, <1>10, <1>11, <2>1, Zenon DEF ChatForm, e
<1>13. CASE w \in Message!MessagesWire
  <2>1. MessagesForm(w)
    BY <1>13, MessagesForms, Zenon
  <2>2. ASSUME NEW tx \in Message!OneOf("text"), NEW q \in Message!SeqOf(Message!Made, 2)
        PROVE  Message!Wire("user", e, tx, e, [j \in DOMAIN q |-> Message!Out(q[j])]) \in WireSet
    BY <1>1, <1>3, <1>7, <1>8, WireType
  <2>. QED
    BY <1>10, <1>11, <2>1, <2>2, Zenon DEF MessagesForm, e
<1>14. CASE w \in Message!ResponsesWire
  <2>1. ResponsesForm(w)
    BY <1>14, ResponsesForms, Zenon
  <2>2. /\ Message!Wire("assistant", e, Message!Say("text"), e, e) \in WireSet
        /\ Message!Wire("assistant", Message!Say("think"), e, e, e) \in WireSet
    BY <1>1, <1>2, <1>8, WireType
  <2>3. ASSUME NEW c \in Calls PROVE Message!Wire("assistant", e, e, <<c>>, e) \in WireSet
    <3>1. <<c>> \in Seq(Calls)
      OBVIOUS
    <3>. QED
      BY <1>1, <1>8, <3>1, WireType
  <2>4. ASSUME w \in {Message!User, Message!System, Message!Wire("assistant", e, Message!Say("text"), e, e),
                  Message!Wire("assistant", Message!Say("think"), e, e, e)} PROVE w \in WireSet
    BY <1>10, <2>2, <2>4
  <2>. QED
    BY <1>4, <1>9, <2>1, <2>3, <2>4, Zenon DEF ResponsesForm, e
<1>. QED
  BY <1>12, <1>13, <1>14

Added == CASE from = "chat" -> Message!ChatWire
           [] from = "messages" -> Message!MessagesWire
           [] from = "responses" -> Message!ResponsesWire

LEMMA WireShaped ==
    ASSUME NEW role, NEW think, NEW text, NEW calls, NEW outs,
           role # "assistant" => think = <<>> /\ calls = <<>>,
           role \in {"system", "assistant"} => outs = <<>>,
           from = "messages" => role \in {"user", "assistant"},
           from # "messages" => /\ role = "tool" <=> outs # <<>>
                                /\ outs # <<>> => text = <<>> /\ Len(outs) = 1,
           from = "responses" => /\ Len(calls) <= 1
                                 /\ calls # <<>> => think = <<>> /\ text = <<>>
                                 /\ think # <<>> => text = <<>>
    PROVE  Shaped(Message!Wire(role, think, text, calls, outs))
<1> DEFINE w == Message!Wire(role, think, text, calls, outs)
<1>1. w.role = role /\ w.think = think /\ w.text = text /\ w.calls = calls /\ w.outs = outs
  BY DEF Message!Wire
<1> HIDE DEF w
<1>2. Shaped(w)
  BY <1>1, Zenon DEF Shaped
<1>. QED
  BY <1>2 DEF w

LEMMA ClientShaped ==
    ASSUME from \in {"chat", "messages", "responses"}, NEW w \in Added
    PROVE  Shaped(w)
<1> DEFINE e == <<>>
<1>1. CASE from = "chat"
  <2>1. ChatForm(w)
    BY <1>1, ChatForms, Zenon DEF Added
  <2>2. Len(e) = 0
    OBVIOUS
  <2>3. ASSUME NEW th, NEW tx, NEW q PROVE Shaped(Message!Wire("assistant", th, tx, q, e))
    BY <1>1, WireShaped
  <2>4. Shaped(Message!User) /\ Shaped(Message!System)
    BY <1>1, WireShaped DEF Message!User, Message!System
  <2>5. ASSUME NEW c PROVE Shaped(Message!Wire("tool", e, e, e, <<Message!Out(c)>>))
    <3> DEFINE o == <<Message!Out(c)>>
    <3>1. o # e /\ Len(o) = 1
      OBVIOUS
    <3> HIDE DEF o
    <3>. QED
      BY <1>1, <3>1, WireShaped
  <2>. QED
    BY <2>1, <2>3, <2>4, <2>5, Zenon DEF ChatForm, e
<1>2. CASE from = "messages"
  <2>1. MessagesForm(w)
    BY <1>2, MessagesForms DEF Added
  <2>3. ASSUME NEW th, NEW tx, NEW q PROVE Shaped(Message!Wire("assistant", th, tx, q, e))
    BY <1>2, WireShaped
  <2>4. Shaped(Message!User)
    BY <1>2, WireShaped DEF Message!User
  <2>5. ASSUME NEW tx, NEW o PROVE Shaped(Message!Wire("user", e, tx, e, o))
    BY <1>2, WireShaped
  <2>. QED
    BY <2>1, <2>3, <2>4, <2>5, Zenon DEF MessagesForm, e
<1>3. CASE from = "responses"
  <2>1. ResponsesForm(w)
    BY <1>3, ResponsesForms DEF Added
  <2>2. Len(e) = 0
    OBVIOUS
  <2>3. ASSUME NEW c PROVE Shaped(Message!Wire("assistant", e, e, <<c>>, e))
    <3> DEFINE q == <<c>>
    <3>1. q # e /\ Len(q) <= 1
      OBVIOUS
    <3> HIDE DEF q
    <3>2. from # "messages" => /\ "assistant" = "tool" <=> e # <<>>
                               /\ e # <<>> => e = <<>> /\ Len(e) = 1
      OBVIOUS
    <3>3. from = "responses" => /\ Len(q) <= 1
                                /\ q # <<>> => e = <<>> /\ e = <<>>
                                /\ e # <<>> => e = <<>>
      BY <3>1
    <3>4. from = "messages" => "assistant" \in {"user", "assistant"}
      OBVIOUS
    <3>5. Shaped(Message!Wire("assistant", e, e, q, e))
      BY <3>2, <3>3, <3>4, WireShaped, Zenon
    <3>. QED
      BY <3>5 DEF q
  <2>4. Shaped(Message!User) /\ Shaped(Message!System)
    BY <1>3, <2>2, WireShaped DEF Message!User, Message!System
  <2>5. ASSUME NEW c PROVE Shaped(Message!Wire("tool", e, e, e, <<Message!Out(c)>>))
    <3> DEFINE o == <<Message!Out(c)>>
    <3>1. o # e /\ Len(o) = 1
      OBVIOUS
    <3> HIDE DEF o
    <3>. QED
      BY <1>3, <2>2, <3>1, WireShaped
  <2>6. ASSUME NEW t PROVE Shaped(Message!Wire("assistant", e, t, e, e)) /\ Shaped(Message!Wire("assistant", t, e, e, e))
    BY <1>3, <2>2, WireShaped
  <2>7. ASSUME w \in {Message!User, Message!System, Message!Wire("assistant", e, Message!Say("text"), e, e),
                  Message!Wire("assistant", Message!Say("think"), e, e, e)} PROVE Shaped(w)
    BY <2>4, <2>6, <2>7
  <2>. QED
    BY <2>1, <2>3, <2>5, <2>7, Zenon DEF ResponsesForm, e
<1>. QED
  BY <1>1, <1>2, <1>3

LEMMA MessageInvNext ==
    ASSUME MessageInv, Message!Next \/ UNCHANGED messageVars
    PROVE  MessageInv'
<1>1. CASE UNCHANGED messageVars
  BY <1>1 DEF messageVars, MessageInv, Shaped
<1>2. CASE Message!Next
  <2>1. PICK w \in Added : history' = Append(history, w)
    BY <1>2, Zenon DEF Message!Next, Added
  <2>2. w \in WireSet
    <3>1. w \in Message!ChatWire \cup Message!MessagesWire \cup Message!ResponsesWire
      <4> DEFINE a == Message!ChatWire
                 b == Message!MessagesWire
                 c == Message!ResponsesWire
      <4> HIDE DEF a, b, c
      <4>1. w \in CASE from = "chat" -> a [] from = "messages" -> b [] from = "responses" -> c
        BY <2>1, Zenon DEF Added, a, b, c
      <4>2. w \in a \cup b \cup c
        BY <4>1 DEF MessageInv
      <4>. QED
        BY <4>2 DEF a, b, c
    <3>. QED
      BY <3>1, ClientTypes DEF MessageInv
  <2>3. Shaped(w)
    BY <2>1, ClientShaped DEF MessageInv
  <2>4. from' = from
    BY <1>2 DEF Message!Next
  <2>5. \A v : Shaped(v) <=> Shaped(v)'
    BY <2>4, Zenon DEF Shaped
  <2>6. history' \in Seq(WireSet) /\ Len(history') = Len(history) + 1
        /\ \A j \in 1..Len(history') : history'[j] = IF j <= Len(history) THEN history[j] ELSE w
    BY <2>1, <2>2 DEF MessageInv
  <2>7. ASSUME NEW j \in 1..Len(history') PROVE Shaped(history'[j])
    <3>1. CASE j <= Len(history)
      <4>1. j \in 1..Len(history) /\ history'[j] = history[j]
        BY <2>6, <3>1 DEF MessageInv
      <4>. QED
        BY <4>1 DEF MessageInv
    <3>2. CASE ~(j <= Len(history))
      BY <2>3, <2>6, <3>2, Zenon
    <3>. QED
      BY <3>1, <3>2
  <2>. QED
    BY <2>4, <2>5, <2>6, <2>7, Zenon DEF MessageInv
<1>. QED
  BY <1>1, <1>2

LEMMA MessageInvInit == ConversionInit => MessageInv
<1>1. ConversionInit => history = <<>> /\ from \in {"chat", "messages", "responses"}
  BY DEF ConversionInit, MessageIdle, Message!Init
<1>2. <<>> \in Seq(WireSet) /\ 1..Len(<<>>) = {}
  OBVIOUS
<1>3. ASSUME history = <<>>, from \in {"chat", "messages", "responses"} PROVE MessageInv
  BY <1>2, <1>3, Zenon DEF MessageInv
<1>. QED
  BY <1>1, <1>3

LEMMA MessageInvAlways == ConversionSpec => []MessageInv
<1>1. MessageInv /\ [ConversionNext]_<<vars, liveVars, messageVars, route>> => MessageInv'
  BY MessageInvNext, Zenon DEF ConversionNext
<1>. QED
  BY <1>1, MessageInvInit, PTL DEF ConversionSpec

\* Whatever conversation a client sends, of any length and with any calls, a
\* Chat upstream gets every tool output right after the call it answers, and no
\* call without one (normalizeChatHistory in protocol/types.go and the decoders
\* of both other protocols before it).
THEOREM ToolsArePaired == ConversionSpec => []ToolsPaired
<1>1. MessageInv => ToolsPaired
  <2>1. from = "chat" => ToolsPaired
    BY DEF ToolsPaired, Message!ToolsPaired
  <2>. QED
    BY <2>1, TypedPaired DEF MessageInv
<1>. QED
  BY <1>1, MessageInvAlways, PTL
=============================================================================
