-------------------------- MODULE KcpChannelProofs --------------------------
(***************************************************************************)
(* The link implements ReliableChannel in both directions: what a reader   *)
(* gets is what the writer wrote, through the cutting of messages into     *)
(* fragments, the merging of stream mode, and the reassembly.              *)
(***************************************************************************)
EXTENDS KcpWindowProofs

-----------------------------------------------------------------------------
(* Parts of a sequence and their concatenation *)

\* The elements a + 1 .. b of s.
Part(s, a, b) == [j \in 1 .. b - a |-> s[a + j]]

\* A part is a sequence.
LEMMA PartType ==
    ASSUME NEW S, NEW s \in Seq(S), NEW a \in Nat, NEW b \in Nat, a <= b, b <= Len(s)
    PROVE  /\ Part(s, a, b) \in Seq(S) /\ Len(Part(s, a, b)) = b - a
           /\ \A j \in 1 .. b - a : Part(s, a, b)[j] = s[a + j]
  <1>1. \A j \in 1 .. b - a : s[a + j] \in S OBVIOUS
  <1>2. b - a \in Nat OBVIOUS
  <1> QED BY <1>1, <1>2 DEF Part

\* Sequences with the same elements are the same.
LEMMA SameSeq ==
    ASSUME NEW S, NEW s \in Seq(S), NEW t \in Seq(S), Len(s) = Len(t),
           \A i \in 1 .. Len(s) : s[i] = t[i]
    PROVE  s = t
  OBVIOUS

\* The whole is a part.
LEMMA PartWhole == ASSUME NEW S, NEW s \in Seq(S) PROVE Part(s, 0, Len(s)) = s
  <1>1. Len(s) \in Nat /\ Len(s) - 0 = Len(s) /\ \A j \in 1 .. Len(s) : 0 + j = j OBVIOUS
  <1>2. Part(s, 0, Len(s)) = [j \in 1 .. Len(s) |-> s[j]] BY <1>1 DEF Part
  <1> QED BY <1>2

\* A part at the beginning.
LEMMA FirstPart ==
    ASSUME NEW S, NEW s \in Seq(S), NEW b \in Nat, b <= Len(s)
    PROVE  /\ Part(s, 0, b) \in Seq(S) /\ Len(Part(s, 0, b)) = b
           /\ \A j \in 1 .. b : Part(s, 0, b)[j] = s[j]
           /\ SubSeq(s, 1, b) = Part(s, 0, b)
  <1> DEFINE t == Part(s, 0, b)
             u == SubSeq(s, 1, b)
  <1>1. Len(s) \in Nat /\ b - 0 = b /\ \A j \in 1 .. b : 0 + j = j /\ s[j] \in S OBVIOUS
  <1>2. t = [j \in 1 .. b |-> s[j]] BY <1>1 DEF Part
  <1>3. t \in Seq(S) /\ Len(t) = b /\ \A j \in 1 .. b : t[j] = s[j] BY <1>1, <1>2
  <1>4. u \in Seq(S) /\ Len(u) = b /\ \A j \in 1 .. b : u[j] = s[j] OBVIOUS
  <1> HIDE DEF t, u
  <1>5. u = t BY <1>3, <1>4, SameSeq
  <1> QED BY <1>3, <1>5 DEF t, u

\* SubSeq in terms of parts.
LEMMA SubSeqPart ==
    ASSUME NEW S, NEW s \in Seq(S), NEW a \in Nat, NEW b \in Nat, a <= b, b <= Len(s)
    PROVE  SubSeq(s, a + 1, b) = Part(s, a, b)
  <1> DEFINE t == SubSeq(s, a + 1, b)
             u == Part(s, a, b)
  <1>1. u \in Seq(S) /\ Len(u) = b - a /\ \A j \in 1 .. b - a : u[j] = s[a + j] BY PartType
  <1>2. t \in Seq(S) /\ Len(t) = b - a /\ \A j \in 1 .. b - a : t[j] = s[a + j] OBVIOUS
  <1> HIDE DEF t, u
  <1>3. t = u BY <1>1, <1>2, SameSeq
  <1> QED BY <1>3 DEF t, u

\* Two parts that meet.
LEMMA JoinParts ==
    ASSUME NEW S, NEW s \in Seq(S), NEW a \in Nat, NEW b \in Nat, NEW c \in Nat,
           a <= b, b <= c, c <= Len(s)
    PROVE  Part(s, a, b) \o Part(s, b, c) = Part(s, a, c)
  <1> DEFINE t == Part(s, a, b)
             u == Part(s, b, c)
             v == Part(s, a, c)
             w == t \o u
             m == b - a
             n == c - b
  <1>1. a <= c /\ b <= Len(s) OBVIOUS
  <1>2. /\ t \in Seq(S) /\ Len(t) = m /\ \A j \in 1 .. m : t[j] = s[a + j]
        /\ u \in Seq(S) /\ Len(u) = n /\ \A j \in 1 .. n : u[j] = s[b + j]
        /\ v \in Seq(S) /\ Len(v) = c - a /\ \A j \in 1 .. c - a : v[j] = s[a + j]
    <2>1. t \in Seq(S) /\ Len(t) = m /\ \A j \in 1 .. m : t[j] = s[a + j] BY <1>1, PartType
    <2>2. u \in Seq(S) /\ Len(u) = n /\ \A j \in 1 .. n : u[j] = s[b + j] BY <1>1, PartType
    <2>3. v \in Seq(S) /\ Len(v) = c - a /\ \A j \in 1 .. c - a : v[j] = s[a + j] BY <1>1, PartType
    <2> HIDE DEF t, u, v, m, n
    <2> QED BY <2>1, <2>2, <2>3
  <1> HIDE DEF t, u, v
  <1>3. m \in Nat /\ n \in Nat /\ m + n = c - a OBVIOUS
  <1>4. /\ w \in Seq(S) /\ Len(w) = m + n
        /\ \A i \in 1 .. m + n : w[i] = IF i <= m THEN t[i] ELSE u[i - m]
    <2> HIDE DEF m, n
    <2>1. t \in Seq(S) /\ u \in Seq(S) /\ Len(t) = m /\ Len(u) = n BY <1>2
    <2> QED BY <2>1, ConcatProperties
  <1> HIDE DEF w
  <1>5. ASSUME NEW i \in 1 .. m + n PROVE w[i] = v[i]
    <2>1. i \in 1 .. c - a /\ v[i] = s[a + i] BY <1>2, <1>3
    <2>2. CASE i <= m
      <3>1. i \in 1 .. m BY <2>2, <1>3
      <3> QED BY <1>2, <1>4, <2>1, <2>2, <3>1
    <2>3. CASE ~(i <= m)
      <3>1. i - m \in 1 .. n /\ b + (i - m) = a + i BY <2>3, <1>3
      <3>2. u[i - m] = s[b + (i - m)] BY <1>2, <3>1
      <3> QED BY <1>4, <2>1, <2>3, <3>1, <3>2
    <2> QED BY <2>2, <2>3
  <1> HIDE DEF m, n
  <1>6. w = v BY <1>2, <1>3, <1>4, <1>5, SameSeq
  <1> QED BY <1>6 DEF t, u, v, w

\* t is w cut into parts at c.
CutOf(t, w, c) ==
    /\ c \in [0 .. Len(t) -> Nat] /\ c[0] = 0 /\ c[Len(t)] = Len(w)
    /\ \A i \in 1 .. Len(t) : /\ c[i - 1] <= c[i] /\ c[i] <= Len(w)
                              /\ t[i] = Part(w, c[i - 1], c[i])

\* The parts of a sequence, concatenated, are the sequence.
LEMMA FlattenCut ==
    ASSUME NEW S, NEW w \in Seq(S), NEW t \in Seq(Seq(S)), NEW c, CutOf(t, w, c)
    PROVE  FlattenSeq(t) = w
  <1> DEFINE n == Len(t)
             Body(f) == [i \in 1 .. n |-> IF i = 1 THEN t[i] ELSE f[i - 1] \o t[i]]
             R(i) == Part(w, 0, c[i])
             g == [i \in 1 .. n |-> R(i)]
  <1>1. n \in Nat /\ Len(w) \in Nat OBVIOUS
  <1>2. /\ c \in [0 .. n -> Nat] /\ c[0] = 0 /\ c[n] = Len(w)
        /\ \A i \in 1 .. n : c[i - 1] <= c[i] /\ c[i] <= Len(w) /\ t[i] = Part(w, c[i - 1], c[i])
    BY DEF CutOf
  <1>3. CASE n = 0
    <2>1. FlattenSeq(t) = t BY <1>3 DEF FlattenSeq
    <2>2. t = <<>> /\ w = <<>> BY <1>2, <1>3
    <2> QED BY <2>1, <2>2
  <1>4. CASE n # 0
    <2>1. t[1] = R(1)
      <3>1. 1 \in 1 .. n /\ 1 - 1 = 0 BY <1>1, <1>4
      <3> QED BY <1>2, <3>1
    <2>2. ASSUME NEW i \in 1 .. n, i # 1 PROVE R(i - 1) \o t[i] = R(i) /\ i - 1 \in 1 .. n
      <3>1. i - 1 \in 1 .. n /\ i - 1 \in 0 .. n /\ i \in 0 .. n BY <1>1, <2>2
      <3>2. c[i - 1] \in Nat /\ c[i] \in Nat /\ c[i - 1] <= c[i] /\ c[i] <= Len(w) BY <1>2, <3>1
      <3>3. t[i] = Part(w, c[i - 1], c[i]) BY <1>2
      <3> DEFINE a == c[i - 1]
                 b == c[i]
      <3>4. 0 \in Nat /\ 0 <= a /\ a \in Nat /\ b \in Nat /\ a <= b /\ b <= Len(w) BY <3>2
      <3> HIDE DEF a, b
      <3>5. Part(w, 0, a) \o Part(w, a, b) = Part(w, 0, b) BY <3>4, JoinParts
      <3> QED BY <3>1, <3>3, <3>5 DEF a, b
    <2> HIDE DEF R
    <2>3. g = Body(g)
      <3>1. ASSUME NEW i \in 1 .. n PROVE g[i] = IF i = 1 THEN t[i] ELSE g[i - 1] \o t[i]
        <4>1. CASE i = 1 BY <2>1, <4>1
        <4>2. CASE i # 1
          <5>1. i - 1 \in 1 .. n /\ R(i - 1) \o t[i] = R(i) BY <2>2, <4>2
          <5> QED BY <4>2, <5>1
        <4> QED BY <4>1, <4>2
      <3> QED BY <3>1
    <2>4. \E f : f = Body(f) BY <2>3
    <2> DEFINE flat == CHOOSE f : f = Body(f)
    <2>5. flat = Body(flat) BY <2>4
    <2>6. FlattenSeq(t) = flat[n] BY <1>4 DEF FlattenSeq
    <2> HIDE DEF flat
    <2>7. \A i \in 1 .. n : flat[i] = IF i = 1 THEN t[i] ELSE flat[i - 1] \o t[i] BY <2>5
    <2> DEFINE T == {i \in 1 .. n : flat[i] # R(i)}
    <2>8. T = {}
      <3> SUFFICES ASSUME T # {} PROVE FALSE OBVIOUS
      <3>1. PICK i \in T : \A j \in T : i <= j
        <4>1. T \subseteq Nat OBVIOUS
        <4> HIDE DEF T
        <4> QED BY <4>1, NatMin
      <3>2. i \in 1 .. n /\ flat[i] # R(i) BY <3>1
      <3>3. i # 1 BY <2>1, <2>7, <3>2
      <3>4. i - 1 \in 1 .. n /\ R(i - 1) \o t[i] = R(i) BY <2>2, <3>2, <3>3
      <3>5. i - 1 \notin T
        <4>1. ~(i <= i - 1) BY <3>2
        <4> HIDE DEF T
        <4> QED BY <3>1, <4>1
      <3>6. flat[i - 1] = R(i - 1) BY <3>4, <3>5
      <3>7. flat[i] = flat[i - 1] \o t[i] BY <2>7, <3>2, <3>3
      <3> QED BY <3>2, <3>4, <3>6, <3>7
    <2>9. flat[n] = R(n)
      <3>1. n \in 1 .. n BY <1>1, <1>4
      <3>2. n \notin T BY <2>8
      <3> QED BY <3>1, <3>2
    <2>10. R(n) = w BY <1>2, PartWhole DEF R
    <2> QED BY <2>6, <2>9, <2>10
  <1> QED BY <1>3, <1>4

-----------------------------------------------------------------------------
(* What send() queues *)

\* The last fragment reaches the end of the data.
LEMMA FragmentEnd ==
    ASSUME NEW L \in Nat \ {0}, NEW m \in Nat \ {0}, NEW c \in Nat,
           c = (IF L <= m THEN 1 ELSE DivCeil(L, m))
    PROVE  c >= 1 /\ c * m >= L
  <1>1. CASE L <= m BY <1>1
  <1>2. CASE ~(L <= m)
    <2> DEFINE x == L + m - 1
    <2>1. c = x \div m /\ x \in Nat BY <1>2 DEF DivCeil
    <2>2. x < (x \div m) * m + m BY <2>1
    <2>3. (x \div m) * m = c * m /\ c * m \in Nat BY <2>1
    <2>4. L <= c * m BY <2>1, <2>2, <2>3
    <2>5. c # 0
      <3>1. 0 * m = 0 OBVIOUS
      <3> QED BY <2>4, <3>1
    <2> QED BY <2>4, <2>5
  <1> QED BY <1>1, <1>2

\* Where the fragments of d end.
Ends(d) == [i \in 0 .. fragment_count(d) |-> Min2(i * mss, Len(d))]

\* The data of pieces.
Data(s) == [j \in 1 .. Len(s) |-> s[j].data]

\* The fields of a piece.
LEMMA PieceFields ==
    \A x \in Piece : /\ x.frg \in Nat /\ x.data \in Bytes /\ x.data \in Seq(Nat)
                     /\ Len(x.data) \in Nat
  BY DEF Piece, Bytes

\* The data of pieces is a sequence of payloads.
LEMMA DataType ==
    ASSUME NEW s \in Seq(Piece)
    PROVE  Data(s) \in Seq(Bytes) /\ Len(Data(s)) = Len(s) /\ \A j \in 1 .. Len(s) : Data(s)[j] = s[j].data
  <1>1. \A j \in 1 .. Len(s) : s[j] \in Piece OBVIOUS
  <1>2. \A j \in 1 .. Len(s) : s[j].data \in Bytes BY <1>1, PieceFields
  <1> QED BY <1>2 DEF Data

\* The fragments cut the data.
LEMMA FragmentsCut ==
    ASSUME NEW d \in Bytes, d # <<>>
    PROVE  /\ fragment_count(d) \in Nat \ {0} /\ Len(fragments(d)) = fragment_count(d)
           /\ fragments(d) \in Seq(Piece)
           /\ \A i \in 1 .. fragment_count(d) :
                 fragments(d)[i].frg = IF StreamMode THEN 0 ELSE fragment_count(d) - i
           /\ CutOf(Data(fragments(d)), d, Ends(d))
  <1> DEFINE n == fragment_count(d)
             f == fragments(d)
             L == Len(d)
             c == Ends(d)
  <1>1. L \in Nat \ {0} /\ n \in Nat /\ f \in Seq(Piece) /\ d \in Seq(Nat)
    BY EmptySeq, FragmentsType DEF Bytes
  <1>2. n >= 1 /\ n * mss >= L BY <1>1, MssType, FragmentEnd DEF fragment_count
  <1>3. /\ DOMAIN f = 1 .. n
        /\ \A i \in 1 .. n : /\ f[i].frg = IF StreamMode THEN 0 ELSE n - i
                             /\ f[i].data = SubSeq(d, (i - 1) * mss + 1, Min2(i * mss, L))
    BY DEF fragments
  <1>4. Len(f) = n BY <1>1, <1>3
  <1>5. Data(f) \in Seq(Bytes) /\ Len(Data(f)) = n /\ \A i \in 1 .. n : Data(f)[i] = f[i].data
    BY <1>1, <1>4, DataType
  <1>6. ASSUME NEW i \in 1 .. n PROVE (i - 1) * mss \in Nat /\ (i - 1) * mss < L
                                      /\ i * mss = (i - 1) * mss + mss
    <2>1. (i - 1) * mss \in Nat /\ (i - 1) * mss < L
      BY <1>1, MssType, FragmentStart DEF fragment_count
    <2>2. i \in Nat /\ mss \in Nat BY <1>1, MssType
    <2> HIDE DEF n, f, c, L
    <2> QED BY <2>1, <2>2
  <1>7. \A i \in 0 .. n : c[i] = Min2(i * mss, L) BY DEF Ends
  <1>8. c \in [0 .. n -> Nat]
    <2>1. ASSUME NEW i \in 0 .. n PROVE Min2(i * mss, L) \in Nat
      <3>1. i \in Nat /\ mss \in Nat BY <1>1, MssType
      <3>2. i * mss \in Nat BY <3>1
      <3> QED BY <1>1, <3>2 DEF Min2
    <2>2. c = [i \in 0 .. n |-> Min2(i * mss, L)] BY DEF Ends
    <2> QED BY <2>1, <2>2
  <1>9. c[0] = 0
    <2>1. 0 \in 0 .. n /\ 0 * mss = 0 BY <1>1, MssType
    <2> QED BY <1>1, <1>7, <2>1 DEF Min2
  <1>10. c[n] = L
    <2>1. n \in 0 .. n BY <1>1
    <2>2. n * mss \in Nat BY <1>1, MssType
    <2> QED BY <1>1, <1>2, <1>7, <2>1, <2>2 DEF Min2
  <1> HIDE DEF n, f, L, c
  <1>11. ASSUME NEW i \in 1 .. n
         PROVE  c[i - 1] <= c[i] /\ c[i] <= L /\ Data(f)[i] = Part(d, c[i - 1], c[i])
    <2> DEFINE a == (i - 1) * mss
               b == i * mss
               e == Min2(b, L)
    <2>1. a \in Nat /\ a < L /\ b = a + mss /\ mss \in Nat \ {0} BY <1>6, MssType
    <2>2. i - 1 \in 0 .. n /\ i \in 0 .. n BY <1>1
    <2>3. c[i - 1] = Min2(a, L) /\ c[i] = e BY <1>7, <2>2
    <2>4. f[i].data = SubSeq(d, a + 1, e) /\ Data(f)[i] = f[i].data BY <1>3, <1>5
    <2> HIDE DEF a, b
    <2>5. Min2(a, L) = a /\ e \in Nat /\ a <= e /\ e <= L BY <1>1, <2>1 DEF Min2
    <2> HIDE DEF e
    <2>6. SubSeq(d, a + 1, e) = Part(d, a, e) BY <1>1, <2>1, <2>5, SubSeqPart DEF L
    <2> QED BY <2>3, <2>4, <2>5, <2>6
  <1>12. CutOf(Data(f), d, c) BY <1>5, <1>8, <1>9, <1>10, <1>11 DEF CutOf, L
  <1> QED BY <1>1, <1>2, <1>3, <1>4, <1>12 DEF n, f, c

\* Fragments put together are the message.
LEMMA FragmentsPayload == ASSUME NEW d \in Bytes, d # <<>> PROVE Payload(fragments(d)) = d
  <1>1. fragments(d) \in Seq(Piece) /\ CutOf(Data(fragments(d)), d, Ends(d)) BY FragmentsCut
  <1>2. Data(fragments(d)) \in Seq(Bytes) BY <1>1, DataType
  <1>3. FlattenSeq(Data(fragments(d))) = d BY <1>1, <1>2, FlattenCut DEF Bytes
  <1> QED BY <1>3 DEF Payload, Data

\* A message of one piece.
LEMMA PiecePayload ==
    ASSUME NEW s \in Seq(Piece), NEW i \in 1 .. Len(s) PROVE Payload(Part(s, i - 1, i)) = s[i].data
  <1> DEFINE x == s[i].data
             u == Part(s, i - 1, i)
             t == Data(u)
             c == [k \in 0 .. 1 |-> IF k = 0 THEN 0 ELSE Len(x)]
  <1> DEFINE y == s[i]
  <1>0. y \in Piece OBVIOUS
  <1>1. x \in Bytes /\ x \in Seq(Nat) /\ Len(x) \in Nat BY <1>0, PieceFields
  <1> HIDE DEF y
  <1>2. i - 1 \in Nat /\ i \in Nat /\ i - 1 <= i /\ i <= Len(s) /\ i - (i - 1) = 1 /\ (i - 1) + 1 = i
    OBVIOUS
  <1>3. u \in Seq(Piece) /\ Len(u) = 1 /\ u[1] = s[i]
    <2>1. u = [j \in 1 .. 1 |-> s[(i - 1) + j]] BY <1>2 DEF Part
    <2>2. \A j \in 1 .. 1 : s[(i - 1) + j] = y BY <1>2 DEF y
    <2>3. u = [j \in 1 .. 1 |-> y] BY <2>1, <2>2
    <2> HIDE DEF u
    <2> QED BY <1>0, <2>3 DEF y
  <1> HIDE DEF u
  <1>4. t \in Seq(Bytes) /\ Len(t) = 1 /\ t[1] = x
    <2>1. 1 \in 1 .. Len(u) BY <1>3
    <2> QED BY <1>3, <2>1, DataType
  <1> HIDE DEF t, x
  <1>5. Part(x, 0, Len(x)) = x BY <1>1, PartWhole
  <1>6. c \in [0 .. 1 -> Nat] /\ c[0] = 0 /\ c[1] = Len(x) BY <1>1
  <1> HIDE DEF c
  <1>7. CutOf(t, x, c)
    <2>1. \A k \in 1 .. 1 : k = 1 /\ 1 - 1 = 0 OBVIOUS
    <2>2. 0 <= Len(x) /\ Len(x) <= Len(x) BY <1>1
    <2> QED BY <1>4, <1>5, <1>6, <2>1, <2>2 DEF CutOf
  <1>8. FlattenSeq(t) = x BY <1>1, <1>4, <1>7, FlattenCut DEF Bytes
  <1> QED BY <1>8 DEF Payload, t, Data, u, x

-----------------------------------------------------------------------------
(* The bytes of a stream *)

\* t is the first x bytes of W in parts that end at c.
Counted(t, c, x, W) ==
    /\ c \in [0 .. Len(t) -> Nat] /\ c[0] = 0 /\ c[Len(t)] = x
    /\ \A i \in 1 .. Len(t) : /\ c[i - 1] <= c[i] /\ c[i] <= x
                              /\ t[i] = Part(W, c[i - 1], c[i])

\* All the bytes in parts.
LEMMA CountedWhole == \A t, c, W : Counted(t, c, Len(W), W) <=> CutOf(t, W, c)
  BY DEF Counted, CutOf

\* A part of a part.
LEMMA PartOfPart ==
    ASSUME NEW W \in Bytes, NEW x \in Nat, NEW y \in Nat, x <= y, y <= Len(W),
           NEW a \in Nat, NEW b \in Nat, a <= b, b <= y - x
    PROVE  Part(Part(W, x, y), a, b) = Part(W, x + a, x + b)
  <1> DEFINE w == Part(W, x, y)
  <1>1. \A j \in 1 .. y - x : w[j] = W[x + j] BY DEF Part
  <1> HIDE DEF w
  <1>2. ASSUME NEW j \in 1 .. b - a PROVE w[a + j] = W[(x + a) + j]
    <2>1. a + j \in 1 .. y - x /\ x + (a + j) = (x + a) + j OBVIOUS
    <2> QED BY <1>1, <2>1
  <1>3. (x + b) - (x + a) = b - a OBVIOUS
  <1>4. Part(w, a, b) = Part(W, x + a, x + b) BY <1>2, <1>3 DEF Part
  <1> QED BY <1>4 DEF w

\* More bytes, cut in any way, are appended.
LEMMA CountedAppend ==
    ASSUME NEW t \in Seq(Bytes), NEW u \in Seq(Bytes), NEW W \in Bytes, NEW x \in Nat,
           NEW y \in Nat, x <= y, y <= Len(W),
           NEW c, Counted(t, c, x, W), NEW b, CutOf(u, Part(W, x, y), b)
    PROVE  \E e : Counted(t \o u, e, y, W)
  <1> DEFINE k == Len(t)
             l == Len(u)
             z == t \o u
             e == [i \in 0 .. k + l |-> IF i <= k THEN c[i] ELSE x + b[i - k]]
  <1>1. k \in Nat /\ l \in Nat OBVIOUS
  <1>2. z \in Seq(Bytes) /\ Len(z) = k + l /\ \A i \in 1 .. k + l : z[i] = IF i <= k THEN t[i] ELSE u[i - k]
    BY ConcatProperties
  <1>3. Len(Part(W, x, y)) = y - x BY PartType DEF Bytes
  <1>4. /\ c \in [0 .. k -> Nat] /\ c[0] = 0 /\ c[k] = x
        /\ \A i \in 1 .. k : c[i - 1] <= c[i] /\ c[i] <= x /\ t[i] = Part(W, c[i - 1], c[i])
    BY DEF Counted
  <1>5. /\ b \in [0 .. l -> Nat] /\ b[0] = 0 /\ b[l] = y - x
        /\ \A i \in 1 .. l : /\ b[i - 1] <= b[i] /\ b[i] <= y - x
                             /\ u[i] = Part(Part(W, x, y), b[i - 1], b[i])
    BY <1>3 DEF CutOf
  <1> HIDE DEF k, l, z
  <1>6. \A i \in 0 .. k : e[i] = c[i] BY <1>1
  <1>7. \A i \in 0 .. l : e[k + i] = x + b[i] /\ b[i] \in Nat
    <2> SUFFICES ASSUME NEW i \in 0 .. l PROVE e[k + i] = x + b[i] /\ b[i] \in Nat OBVIOUS
    <2>1. k + i \in 0 .. k + l /\ b[i] \in Nat BY <1>1, <1>5
    <2>2. CASE i = 0
      <3>1. k + i = k /\ k \in 0 .. k /\ x + 0 = x BY <1>1, <2>2
      <3> QED BY <1>4, <1>5, <1>6, <2>1, <2>2, <3>1
    <2>3. CASE i # 0
      <3>1. ~(k + i <= k) /\ (k + i) - k = i BY <1>1, <2>3
      <3> QED BY <2>1, <3>1
    <2> QED BY <2>2, <2>3
  <1>8. e \in [0 .. k + l -> Nat]
    <2> SUFFICES ASSUME NEW i \in 0 .. k + l PROVE e[i] \in Nat OBVIOUS
    <2>1. CASE i <= k
      <3>1. i \in 0 .. k BY <1>1, <2>1
      <3> QED BY <1>4, <1>6, <3>1
    <2>2. CASE ~(i <= k)
      <3>1. i - k \in 0 .. l /\ k + (i - k) = i BY <1>1, <2>2
      <3>2. e[k + (i - k)] = x + b[i - k] /\ b[i - k] \in Nat BY <1>7, <3>1
      <3>3. x + b[i - k] \in Nat BY <3>2
      <3> QED BY <3>1, <3>2, <3>3
    <2> QED BY <2>1, <2>2
  <1> HIDE DEF e
  <1>9. e[0] = 0 /\ e[k + l] = y
    <2>1. 0 \in 0 .. k /\ l \in 0 .. l BY <1>1
    <2>2. x + (y - x) = y OBVIOUS
    <2> QED BY <1>4, <1>5, <1>6, <1>7, <2>1, <2>2
  <1>10. ASSUME NEW i \in 1 .. k + l
         PROVE  e[i - 1] <= e[i] /\ e[i] <= y /\ z[i] = Part(W, e[i - 1], e[i])
    <2>1. CASE i <= k
      <3>1. i \in 1 .. k /\ i \in 0 .. k /\ i - 1 \in 0 .. k BY <1>1, <2>1
      <3>2. e[i] = c[i] /\ e[i - 1] = c[i - 1] /\ z[i] = t[i] /\ c[i] \in Nat
        BY <1>2, <1>4, <1>6, <2>1, <3>1
      <3>3. c[i - 1] <= c[i] /\ c[i] <= x /\ t[i] = Part(W, c[i - 1], c[i]) BY <1>4, <3>1
      <3>4. c[i] <= y BY <3>2, <3>3
      <3> QED BY <3>2, <3>3, <3>4
    <2>2. CASE ~(i <= k)
      <3> DEFINE j == i - k
                 p == b[j - 1]
                 q == b[j]
      <3>1. j \in 1 .. l /\ j \in 0 .. l /\ j - 1 \in 0 .. l /\ k + j = i /\ k + (j - 1) = i - 1
        BY <1>1, <2>2
      <3> HIDE DEF j
      <3>2. e[i] = x + q /\ e[i - 1] = x + p /\ p \in Nat /\ q \in Nat
        <4>1. e[k + j] = x + b[j] /\ b[j] \in Nat BY <1>7, <3>1
        <4>2. e[k + (j - 1)] = x + b[j - 1] /\ b[j - 1] \in Nat BY <1>7, <3>1
        <4> QED BY <3>1, <4>1, <4>2
      <3>3. z[i] = u[j] BY <1>2, <2>2 DEF j
      <3>4. p <= q /\ q <= y - x /\ u[j] = Part(Part(W, x, y), p, q) BY <1>5, <3>1
      <3> HIDE DEF p, q
      <3>5. Part(Part(W, x, y), p, q) = Part(W, x + p, x + q) BY <3>2, <3>4, PartOfPart
      <3>6. x + p <= x + q /\ x + q <= y BY <3>2, <3>4
      <3> QED BY <3>2, <3>3, <3>4, <3>5, <3>6
    <2> QED BY <2>1, <2>2
  <1>11. Counted(z, e, y, W) BY <1>2, <1>8, <1>9, <1>10 DEF Counted
  <1> QED BY <1>11 DEF z

\* More bytes are merged into the last part.
LEMMA CountedMerge ==
    ASSUME NEW t \in Seq(Bytes), NEW u \in Seq(Bytes), NEW W \in Bytes, NEW x \in Nat,
           NEW y \in Nat, x <= y, y <= Len(W),
           NEW c, Counted(t, c, x, W), Len(u) = Len(t), t # <<>>,
           \A i \in 1 .. Len(t) - 1 : u[i] = t[i],
           u[Len(t)] = t[Len(t)] \o Part(W, x, y)
    PROVE  \E e : Counted(u, e, y, W)
  <1> DEFINE n == Len(t)
             e == [c EXCEPT ![n] = y]
  <1>1. n \in Nat \ {0} BY EmptySeq
  <1>2. /\ c \in [0 .. n -> Nat] /\ c[0] = 0 /\ c[n] = x
        /\ \A i \in 1 .. n : c[i - 1] <= c[i] /\ c[i] <= x /\ t[i] = Part(W, c[i - 1], c[i])
    BY DEF Counted
  <1> HIDE DEF n
  <1>3. n \in 0 .. n /\ n - 1 \in 0 .. n /\ 0 \in 0 .. n /\ n \in 1 .. n /\ n # 0 /\ n - 1 # n
    BY <1>1
  <1>4. /\ e \in [0 .. n -> Nat] /\ e[n] = y /\ \A i \in 0 .. n : i # n => e[i] = c[i]
    BY <1>2, <1>3
  <1> HIDE DEF e
  <1>5. ASSUME NEW i \in 1 .. n
        PROVE  e[i - 1] <= e[i] /\ e[i] <= y /\ u[i] = Part(W, e[i - 1], e[i])
    <2>1. i - 1 \in 0 .. n /\ i \in 0 .. n /\ i - 1 # n BY <1>1
    <2>2. e[i - 1] = c[i - 1] /\ c[i - 1] \in Nat /\ c[i] \in Nat BY <1>2, <1>4, <2>1
    <2>3. c[i - 1] <= c[i] /\ c[i] <= x /\ t[i] = Part(W, c[i - 1], c[i]) BY <1>2
    <2>4. CASE i = n
      <3>1. e[i] = y /\ c[i] = x BY <1>2, <1>4, <2>4
      <3>2. u[i] = t[i] \o Part(W, x, y) BY <2>4 DEF n
      <3>3. Part(W, c[i - 1], x) \o Part(W, x, y) = Part(W, c[i - 1], y)
        <4> DEFINE o == c[i - 1]
        <4>1. o \in Nat /\ o <= x BY <2>2, <2>3, <3>1
        <4> HIDE DEF o
        <4>2. Part(W, o, x) \o Part(W, x, y) = Part(W, o, y) BY <4>1, JoinParts DEF Bytes
        <4> QED BY <4>2 DEF o
      <3>4. c[i - 1] <= y BY <2>2, <2>3, <3>1
      <3>5. t[i] = Part(W, c[i - 1], x) BY <2>3, <3>1
      <3>6. u[i] = Part(W, c[i - 1], y) BY <3>2, <3>3, <3>5
      <3> QED BY <2>2, <3>1, <3>4, <3>6
    <2>5. CASE i # n
      <3>1. i \in 1 .. n - 1 BY <1>1, <2>5
      <3>2. u[i] = t[i] BY <3>1 DEF n
      <3>3. e[i] = c[i] BY <1>4, <2>1, <2>5
      <3>4. c[i] <= y BY <2>2, <2>3
      <3> QED BY <2>2, <2>3, <3>2, <3>3, <3>4
    <2> QED BY <2>4, <2>5
  <1>6. Len(u) = n BY DEF n
  <1>7. e[0] = 0 BY <1>2, <1>3, <1>4
  <1>8. Counted(u, e, y, W) BY <1>4, <1>5, <1>6, <1>7 DEF Counted
  <1> QED BY <1>8

-----------------------------------------------------------------------------
(* A write, seen from the pieces that are numbered or queued *)

\* Data of so many full segments has no more fragments.
LEMMA FragmentLimit ==
    ASSUME NEW L \in Nat \ {0}, NEW m \in Nat \ {0}, NEW k \in Nat \ {0}, L <= k * m, NEW c \in Nat,
           c = (IF L <= m THEN 1 ELSE DivCeil(L, m))
    PROVE  c <= k
  <1>1. CASE L <= m BY <1>1
  <1>2. CASE ~(L <= m)
    <2> DEFINE x == L + m - 1
    <2>1. c = x \div m /\ x \in Nat BY <1>2 DEF DivCeil
    <2>2. c * m <= x BY <2>1
    <2> SUFFICES ASSUME c > k PROVE FALSE OBVIOUS
    <2>3. PICK r \in Nat : c = k + 1 + r
      <3>1. c - (k + 1) \in Nat /\ c = k + 1 + (c - (k + 1)) OBVIOUS
      <3> QED BY <3>1
    <2>4. c * m = k * m + m + r * m BY <2>3
    <2>5. r * m \in Nat /\ k * m \in Nat BY <2>3
    <2> QED BY <2>2, <2>4, <2>5
  <1> QED BY <1>1, <1>2

\* The way of a write through send(): its first x bytes are merged, the rest is cut
\* into fragments unless they are too many.
LEMMA SendQueue ==
    ASSUME NEW e, IsEngine(e), NEW d \in Bytes, d # <<>>
    PROVE  \E x \in 0 .. Len(d) :
             LET rest  == Part(d, x, Len(d))
                 queue == merge(e.snd_queue, d, x)
                 r     == send(e, d)
             IN  /\ x > 0 => StreamMode /\ e.snd_queue # <<>>
                 /\ \/ rest = <<>> /\ r.ok /\ r.eng.snd_queue = queue
                    \/ /\ rest # <<>> /\ fragment_count(rest) > max_frags
                       /\ ~r.ok /\ r.eng.snd_queue = queue
                    \/ /\ rest # <<>> /\ ~(fragment_count(rest) > max_frags)
                       /\ r.ok /\ r.eng.snd_queue = queue \o fragments(rest)
  <1> DEFINE x      == Min2(Len(d), merge_room(e))
             sub    == SubSeq(d, x + 1, Len(d))
             rest   == Part(d, x, Len(d))
             queue  == merge(e.snd_queue, d, x)
             merged == [e EXCEPT !.snd_queue = queue]
             short  == [merged EXCEPT !.bytes_sent = @ + x]
             long   == [merged EXCEPT !.snd_queue = @ \o fragments(sub),
                                      !.bytes_sent = @ + Len(sub)]
             r      == send(e, d)
  <1>1. Len(d) \in Nat /\ d \in Seq(Nat) BY DEF Bytes
  <1>2. merge_room(e) \in Nat /\ (merge_room(e) > 0 => StreamMode /\ e.snd_queue # <<>>)
    <2>1. CASE StreamMode /\ e.snd_queue # <<>>
      <3>1. e.snd_queue \in Seq(Piece) BY DEF IsEngine
      <3>2. Len(e.snd_queue) \in 1 .. Len(e.snd_queue) BY <2>1, <3>1, EmptySeq
      <3>3. e.snd_queue[Len(e.snd_queue)] \in Piece BY <3>1, <3>2
      <3>4. Len(e.snd_queue[Len(e.snd_queue)].data) \in Nat BY <3>3, PieceFields
      <3> QED BY <3>4, <2>1, MssType DEF merge_room, Max2
    <2>2. CASE ~(StreamMode /\ e.snd_queue # <<>>) BY <2>2 DEF merge_room
    <2> QED BY <2>1, <2>2
  <1>3. x \in 0 .. Len(d) /\ (x > 0 => StreamMode /\ e.snd_queue # <<>>) BY <1>1, <1>2 DEF Min2
  <1>4. \/ sub = <<>> /\ r = [eng |-> short, ok |-> TRUE]
        \/ sub # <<>> /\ fragment_count(sub) > max_frags /\ r = [eng |-> merged, ok |-> FALSE]
        \/ sub # <<>> /\ ~(fragment_count(sub) > max_frags) /\ r = [eng |-> long, ok |-> TRUE]
    BY DEF send
  <1> HIDE DEF x, r
  <1>5. sub = rest
    <2>1. x \in Nat /\ x <= Len(d) /\ Len(d) <= Len(d) BY <1>1, <1>3
    <2> QED BY <1>1, <2>1, SubSeqPart
  <1> HIDE DEF sub, rest, queue
  <1>6. /\ merged.snd_queue = queue /\ short.snd_queue = queue
        /\ long.snd_queue = queue \o fragments(sub)
    BY DEF IsEngine, EngineFields
  <1> HIDE DEF merged, short, long
  <1>7. \/ rest = <<>> /\ r.ok /\ r.eng.snd_queue = queue
        \/ rest # <<>> /\ fragment_count(rest) > max_frags /\ ~r.ok /\ r.eng.snd_queue = queue
        \/ /\ rest # <<>> /\ ~(fragment_count(rest) > max_frags)
           /\ r.ok /\ r.eng.snd_queue = queue \o fragments(rest)
    BY <1>4, <1>5, <1>6
  <1> QED BY <1>3, <1>7 DEF r, rest, queue

\* A write that fits once a byte of it is merged is refused only when nothing is merged,
\* and then it leaves the queue as it was.
LEMMA RefusedWhole ==
    ASSUME NEW e, IsEngine(e), NEW d \in Bytes, Len(d) <= max_frags * mss + 1, ~send(e, d).ok
    PROVE  send(e, d).eng.snd_queue = e.snd_queue
  <1> DEFINE r == send(e, d)
  <1>1. d # <<>> BY DEF send
  <1>2. PICK x \in 0 .. Len(d) :
           LET rest  == Part(d, x, Len(d))
               queue == merge(e.snd_queue, d, x)
               r1    == send(e, d)
           IN  /\ x > 0 => StreamMode /\ e.snd_queue # <<>>
               /\ \/ rest = <<>> /\ r1.ok /\ r1.eng.snd_queue = queue
                  \/ /\ rest # <<>> /\ fragment_count(rest) > max_frags
                     /\ ~r1.ok /\ r1.eng.snd_queue = queue
                  \/ /\ rest # <<>> /\ ~(fragment_count(rest) > max_frags)
                     /\ r1.ok /\ r1.eng.snd_queue = queue \o fragments(rest)
    BY <1>1, SendQueue
  <1> DEFINE rest == Part(d, x, Len(d))
             l    == Len(d)
             n    == Len(rest)
             c    == fragment_count(rest)
             m    == max_frags * mss
  <1>3. rest # <<>> /\ c > max_frags /\ r.eng.snd_queue = merge(e.snd_queue, d, x) BY <1>2
  <1>4. d \in Seq(Nat) /\ l \in Nat /\ x \in Nat /\ x <= l /\ l <= l BY DEF Bytes
  <1>5. rest \in Seq(Nat) /\ n = l - x BY <1>4, PartType
  <1>6. mss \in Nat \ {0} /\ max_frags \in Nat \ {0} BY MssType, MaxFragsType
  <1>7. l <= m + 1 /\ m \in Nat BY <1>6
  <1>8. c = (IF n <= mss THEN 1 ELSE DivCeil(n, mss)) BY DEF fragment_count
  <1>9. n \in Nat \ {0} /\ c \in Nat
    <2> HIDE DEF rest
    <2>1. n \in Nat /\ n # 0 BY <1>3, <1>5, EmptySeq
    <2> QED BY <1>6, <1>8, <2>1 DEF DivCeil
  <1> HIDE DEF rest, l, n, c, m
  <1>10. x = 0
    <2> SUFFICES ASSUME x # 0 PROVE FALSE OBVIOUS
    <2>1. n <= m BY <1>4, <1>5, <1>7
    <2>2. n <= max_frags * mss BY <2>1 DEF m
    <2>3. c <= max_frags BY <1>6, <1>8, <1>9, <2>2, FragmentLimit
    <2> QED BY <1>3, <1>6, <1>9, <2>3
  <1>11. merge(e.snd_queue, d, 0) = e.snd_queue BY DEF merge
  <1> QED BY <1>3, <1>10, <1>11

\* In message mode a write is queued in fragments, or refused and leaves nothing.
LEMMA MessageSend ==
    ASSUME NEW e, IsEngine(e), NEW d \in Bytes, d # <<>>, ~StreamMode
    PROVE  LET r == send(e, d) IN
           \/ r.ok /\ r.eng.snd_queue = e.snd_queue \o fragments(d)
           \/ ~r.ok /\ r.eng.snd_queue = e.snd_queue
  <1>1. PICK x \in 0 .. Len(d) :
             LET rest  == Part(d, x, Len(d))
                 queue == merge(e.snd_queue, d, x)
                 r     == send(e, d)
             IN  /\ x > 0 => StreamMode /\ e.snd_queue # <<>>
                 /\ \/ rest = <<>> /\ r.ok /\ r.eng.snd_queue = queue
                    \/ /\ rest # <<>> /\ fragment_count(rest) > max_frags
                       /\ ~r.ok /\ r.eng.snd_queue = queue
                    \/ /\ rest # <<>> /\ ~(fragment_count(rest) > max_frags)
                       /\ r.ok /\ r.eng.snd_queue = queue \o fragments(rest)
    BY SendQueue
  <1>2. Len(d) \in Nat /\ d \in Seq(Nat) BY DEF Bytes
  <1>3. x = 0 BY <1>1, <1>2
  <1>4. Part(d, 0, Len(d)) = d BY <1>2, PartWhole
  <1>5. merge(e.snd_queue, d, 0) = e.snd_queue BY DEF merge
  <1> QED BY <1>1, <1>3, <1>4, <1>5

\* Pieces after pieces after pieces.
LEMMA JoinPieces == \A s, t, u \in Seq(Piece) : (s \o t) \o u = s \o (t \o u)
  BY ConcatAssociative

\* The data of pieces after pieces.
LEMMA DataConcat ==
    ASSUME NEW s \in Seq(Piece), NEW t \in Seq(Piece) PROVE Data(s \o t) = Data(s) \o Data(t)
  <1> DEFINE u == s \o t
             v == Data(s) \o Data(t)
             m == Len(s)
             n == Len(t)
  <1>1. m \in Nat /\ n \in Nat OBVIOUS
  <1>2. u \in Seq(Piece) /\ Len(u) = m + n /\ \A i \in 1 .. m + n : u[i] = IF i <= m THEN s[i] ELSE t[i - m]
    BY ConcatProperties
  <1>3. /\ Data(s) \in Seq(Bytes) /\ Len(Data(s)) = m /\ \A i \in 1 .. m : Data(s)[i] = s[i].data
        /\ Data(t) \in Seq(Bytes) /\ Len(Data(t)) = n /\ \A i \in 1 .. n : Data(t)[i] = t[i].data
    BY DataType
  <1> HIDE DEF m, n
  <1>4. /\ v \in Seq(Bytes) /\ Len(v) = m + n
        /\ \A i \in 1 .. m + n : v[i] = IF i <= m THEN Data(s)[i] ELSE Data(t)[i - m]
    BY <1>3, ConcatProperties
  <1> HIDE DEF u, v
  <1>5. Data(u) \in Seq(Bytes) /\ Len(Data(u)) = m + n /\ \A i \in 1 .. m + n : Data(u)[i] = u[i].data
    BY <1>2, DataType
  <1>6. ASSUME NEW i \in 1 .. m + n PROVE Data(u)[i] = v[i]
    <2>1. CASE i <= m
      <3>1. i \in 1 .. m BY <1>1, <2>1
      <3>2. u[i] = s[i] /\ v[i] = Data(s)[i] BY <1>2, <1>4, <2>1
      <3>3. Data(s)[i] = s[i].data /\ Data(u)[i] = u[i].data BY <1>3, <1>5, <3>1
      <3> QED BY <3>2, <3>3
    <2>2. CASE ~(i <= m)
      <3>1. i - m \in 1 .. n BY <1>1, <2>2
      <3>2. u[i] = t[i - m] /\ v[i] = Data(t)[i - m] BY <1>2, <1>4, <2>2
      <3>3. Data(t)[i - m] = t[i - m].data /\ Data(u)[i] = u[i].data BY <1>3, <1>5, <3>1
      <3> QED BY <3>2, <3>3
    <2> QED BY <2>1, <2>2
  <1>7. Data(u) = v BY <1>4, <1>5, <1>6, SameSeq
  <1> QED BY <1>7 DEF u, v

\* z is s with the first x bytes of d merged into its last piece, one of those after the
\* first k.
Merged(s, z, k, d, x) ==
    /\ Len(z) = Len(s) /\ Len(s) \in Nat /\ Len(s) > k
    /\ \A j \in 1 .. Len(s) - 1 : z[j] = s[j]
    /\ z[Len(s)].frg = s[Len(s)].frg /\ z[Len(s)].data = s[Len(s)].data \o SubSeq(d, 1, x)

\* What merging does to the pieces.
LEMMA ChainMerge ==
    ASSUME NEW num \in Seq(Piece), NEW q \in Seq(Piece), q # <<>>, NEW d \in Bytes,
           NEW x \in Nat \ {0}, x <= Len(d),
           NEW s, s = num \o q, NEW z, z = num \o merge(q, d, x)
    PROVE  s \in Seq(Piece) /\ z \in Seq(Piece) /\ Merged(s, z, Len(num), d, x)
  <1> DEFINE g == merge(q, d, x)
             k == Len(num)
             l == Len(q)
             y == q[l]
             more == y.data \o SubSeq(d, 1, x)
  <1>1. k \in Nat /\ l \in Nat \ {0} /\ l \in 1 .. l BY EmptySeq
  <1>8. s \in Seq(Piece) /\ Len(s) = k + l /\ \A i \in 1 .. k + l : s[i] = IF i <= k THEN num[i] ELSE q[i - k]
    BY ConcatProperties
  <1>2. y \in Piece BY <1>1
  <1>3. y.frg \in Nat /\ y.data \in Seq(Nat) BY <1>2, PieceFields
  <1>4. g = [q EXCEPT ![l] = [y EXCEPT !.data = more]] BY DEF merge
  <1>5. [y EXCEPT !.data = more].frg = y.frg /\ [y EXCEPT !.data = more].data = more
    BY <1>2 DEF Piece
  <1>6. g \in Seq(Piece) BY MergeType
  <1> HIDE DEF y, more
  <1>7. Len(g) = l /\ (\A i \in 1 .. l : i # l => g[i] = q[i]) /\ g[l] = [y EXCEPT !.data = more]
    BY <1>1, <1>4
  <1> HIDE DEF g, l
  <1>9. z \in Seq(Piece) /\ Len(z) = k + l /\ \A i \in 1 .. k + l : z[i] = IF i <= k THEN num[i] ELSE g[i - k]
    <2>1. g \in Seq(Piece) /\ Len(g) = l BY <1>6, <1>7
    <2>2. z = num \o g BY DEF g
    <2> QED BY <2>1, <2>2, ConcatProperties
  <1> HIDE DEF k
  <1>10. ASSUME NEW j \in 1 .. (k + l) - 1 PROVE z[j] = s[j]
    <2>1. j \in 1 .. k + l /\ (~(j <= k) => j - k \in 1 .. l /\ j - k # l) BY <1>1
    <2> QED BY <1>7, <1>8, <1>9, <2>1
  <1>11. z[k + l] = g[l] /\ s[k + l] = y
    <2>1. k + l \in 1 .. k + l /\ ~(k + l <= k) /\ (k + l) - k = l BY <1>1
    <2> QED BY <1>8, <1>9, <2>1 DEF y
  <1>12. k + l \in Nat /\ k + l > k BY <1>1
  <1> QED BY <1>5, <1>7, <1>8, <1>9, <1>10, <1>11, <1>12 DEF k, more, Merged

\* When a write in stream mode is accepted, the pieces carry its bytes after those before
\* it.
LEMMA StreamSend ==
    ASSUME StreamMode, NEW e, IsEngine(e), NEW num \in Seq(Piece),
           NEW W \in Bytes, NEW o \in Nat, NEW size \in Nat, o + size <= Len(W),
           \A j \in 1 .. Len(num \o e.snd_queue) : (num \o e.snd_queue)[j].frg = 0,
           NEW c, Counted(Data(num \o e.snd_queue), c, o, W)
    PROVE  LET r == send(e, Part(W, o, o + size))
               z == num \o r.eng.snd_queue
           IN  r.ok => /\ z \in Seq(Piece) /\ \A j \in 1 .. Len(z) : z[j].frg = 0
                       /\ \E b : Counted(Data(z), b, o + size, W)
  <1> DEFINE d == Part(W, o, o + size)
             q == e.snd_queue
             s == num \o q
             r == send(e, d)
             z == num \o r.eng.snd_queue
  <1>1. q \in Seq(Piece) /\ s \in Seq(Piece) /\ Len(s) \in Nat BY ConcatProperties DEF IsEngine
  <1>2. o + size \in Nat /\ o <= o + size /\ (o + size) - o = size OBVIOUS
  <1>3. d \in Seq(Nat) /\ Len(d) = size
    <2> DEFINE y == o + size
    <2>1. y \in Nat /\ o <= y /\ y <= Len(W) /\ y - o = size BY <1>2
    <2> HIDE DEF y
    <2>2. Part(W, o, y) \in Seq(Nat) /\ Len(Part(W, o, y)) = y - o BY <2>1, PartType DEF Bytes
    <2> QED BY <2>1, <2>2 DEF y
  <1>4. d \in Bytes BY <1>3 DEF Bytes
  <1>5. \A j \in 1 .. Len(s) : s[j].frg = 0 OBVIOUS
  <1>6. Counted(Data(s), c, o, W) OBVIOUS
  <1> HIDE DEF d
  <1>7. CASE d = <<>>
    <2>1. r = [eng |-> e, ok |-> TRUE] BY <1>7 DEF send
    <2>2. size = 0 /\ o + size = o BY <1>3, <1>7
    <2>3. r.ok /\ z = s BY <2>1
    <2> HIDE DEF r, z, s
    <2> QED BY <1>1, <1>5, <1>6, <2>2, <2>3 DEF r, z, d
  <1>8. CASE d # <<>>
    <2>1. PICK x \in 0 .. Len(d) :
             LET rest  == Part(d, x, Len(d))
                 queue == merge(e.snd_queue, d, x)
                 r1    == send(e, d)
             IN  /\ x > 0 => StreamMode /\ e.snd_queue # <<>>
                 /\ \/ rest = <<>> /\ r1.ok /\ r1.eng.snd_queue = queue
                    \/ /\ rest # <<>> /\ fragment_count(rest) > max_frags
                       /\ ~r1.ok /\ r1.eng.snd_queue = queue
                    \/ /\ rest # <<>> /\ ~(fragment_count(rest) > max_frags)
                       /\ r1.ok /\ r1.eng.snd_queue = queue \o fragments(rest)
      BY <1>4, <1>8, SendQueue
    <2> DEFINE rest == Part(d, x, Len(d))
               g    == merge(q, d, x)
               v    == num \o g
    <2>2. x \in Nat /\ x <= size /\ (x > 0 => q # <<>>) BY <1>3, <2>1
    <2>3. \/ rest = <<>> /\ r.ok /\ r.eng.snd_queue = g
          \/ /\ rest # <<>> /\ fragment_count(rest) > max_frags
             /\ ~r.ok /\ r.eng.snd_queue = g
          \/ /\ rest # <<>> /\ ~(fragment_count(rest) > max_frags)
             /\ r.ok /\ r.eng.snd_queue = g \o fragments(rest)
      BY <2>1
    <2>4. rest = Part(W, o + x, o + size) /\ rest \in Seq(Nat) /\ Len(rest) = size - x
      <3>1. size <= (o + size) - o /\ size <= Len(d) /\ x <= size BY <1>2, <1>3, <2>2
      <3>2. Part(Part(W, o, o + size), x, size) = Part(W, o + x, o + size)
        BY <1>2, <2>2, <3>1, PartOfPart
      <3>3. Part(d, x, size) \in Seq(Nat) /\ Len(Part(d, x, size)) = size - x
        <4>1. d \in Seq(Nat) /\ x \in Nat /\ size \in Nat /\ x <= size /\ size <= Len(d)
          BY <1>3, <2>2, <3>1
        <4> QED BY <4>1, PartType
      <3> QED BY <1>3, <3>2, <3>3 DEF d
    <2>5. g \in Seq(Piece) BY <1>1, <1>3, <1>4, <2>2, MergeType
    <2>6. v \in Seq(Piece) BY <2>5, ConcatProperties
    <2>7. (\A j \in 1 .. Len(v) : v[j].frg = 0) /\ \E b : Counted(Data(v), b, o + x, W)
      <3>1. CASE x = 0
        <4>1. g = q /\ o + x = o BY <3>1 DEF merge
        <4>2. v = s BY <4>1
        <4> HIDE DEF v, s
        <4> QED BY <1>5, <1>6, <4>1, <4>2
      <3>2. CASE x # 0
        <4> DEFINE n == Len(s)
        <4>1. x \in Nat \ {0} /\ q # <<>> /\ x <= Len(d) BY <1>3, <2>2, <3>2
        <4>2. /\ Len(v) = n /\ n \in Nat /\ n > Len(num)
              /\ \A j \in 1 .. n - 1 : v[j] = s[j]
              /\ v[n].frg = s[n].frg /\ v[n].data = s[n].data \o SubSeq(d, 1, x)
          <5>1. q \in Seq(Piece) /\ s = num \o q /\ v = num \o merge(q, d, x) BY <1>1
          <5> HIDE DEF q, s, v, n
          <5>2. Merged(s, v, Len(num), d, x) BY <1>4, <4>1, <5>1, ChainMerge
          <5> QED BY <5>2 DEF n, Merged
        <4>3. Len(num) \in Nat OBVIOUS
        <4> HIDE DEF s, v, n
        <4>4. n >= 1 /\ n \in 1 .. n BY <4>2, <4>3
        <4>5. ASSUME NEW j \in 1 .. Len(v) PROVE v[j].frg = 0
          <5>1. j \in 1 .. Len(s) BY <4>2 DEF n
          <5>2. s[j].frg = 0 BY <1>5, <5>1
          <5>3. j = n \/ j \in 1 .. n - 1 BY <4>2
          <5> QED BY <4>2, <5>2, <5>3
        <4>6. SubSeq(d, 1, x) = Part(W, o, o + x)
          <5>1. 0 \in Nat /\ 0 <= x /\ x <= Len(d) /\ 0 + 1 = 1 /\ x <= (o + size) - o /\ o + 0 = o
            BY <1>3, <2>2
          <5>2. SubSeq(d, 0 + 1, x) = Part(d, 0, x) BY <1>3, <2>2, <5>1, SubSeqPart
          <5>3. Part(Part(W, o, o + size), 0, x) = Part(W, o + 0, o + x)
            BY <1>2, <2>2, <5>1, PartOfPart
          <5> QED BY <5>1, <5>2, <5>3 DEF d
        <4> DEFINE t == Data(s)
                   u == Data(v)
        <4>7. /\ t \in Seq(Bytes) /\ Len(t) = n /\ \A j \in 1 .. n : t[j] = s[j].data
              /\ u \in Seq(Bytes) /\ Len(u) = n /\ \A j \in 1 .. n : u[j] = v[j].data
          BY <1>1, <2>6, <4>2, DataType DEF n
        <4>8. t # <<>> BY <4>4, <4>7
        <4>9. \A j \in 1 .. n - 1 : u[j] = t[j]
          <5>1. \A j \in 1 .. n - 1 : j \in 1 .. n BY <4>2
          <5> QED BY <4>2, <4>7, <5>1
        <4>10. u[n] = t[n] \o Part(W, o, o + x) BY <4>2, <4>4, <4>6, <4>7
        <4>11. Counted(t, c, o, W) BY <1>6
        <4>12. o + x \in Nat /\ o <= o + x /\ o + x <= Len(W)
          <5>1. Len(W) \in Nat BY DEF Bytes
          <5> QED BY <2>2, <5>1
        <4> HIDE DEF t, u
        <4> DEFINE y == o + x
        <4>13. y \in Nat /\ o <= y /\ y <= Len(W) /\ u[n] = t[n] \o Part(W, o, y) BY <4>10, <4>12
        <4> HIDE DEF y
        <4>14. \E b : Counted(u, b, y, W) BY <4>7, <4>8, <4>9, <4>11, <4>13, CountedMerge
        <4> QED BY <4>5, <4>14 DEF u, y
      <3> QED BY <3>1, <3>2
    <2>8. CASE rest = <<>>
      <3>1. x = size BY <2>2, <2>4, <2>8
      <3>2. r.ok /\ z = v BY <2>3, <2>8
      <3> HIDE DEF v, z, r
      <3> QED BY <2>6, <2>7, <3>1, <3>2 DEF z, r, d
    <2>9. CASE rest # <<>>
      <3> DEFINE f == fragments(rest)
                 L == Len(rest)
      <3>1. rest \in Bytes /\ L \in Nat \ {0} BY <2>4, <2>9, EmptySeq DEF Bytes
      <3>2. /\ fragment_count(rest) \in Nat \ {0} /\ Len(f) = fragment_count(rest) /\ f \in Seq(Piece)
            /\ \A i \in 1 .. fragment_count(rest) : f[i].frg = 0
            /\ CutOf(Data(f), rest, Ends(rest))
        <4> HIDE DEF rest
        <4> QED BY <2>9, <3>1, FragmentsCut
      <3>3. SUFFICES ASSUME r.ok
                     PROVE  /\ z \in Seq(Piece) /\ \A j \in 1 .. Len(z) : z[j].frg = 0
                            /\ \E k : Counted(Data(z), k, o + size, W)
        BY DEF r, z, d
      <3>4. r.eng.snd_queue = g \o f BY <2>3, <2>9, <3>3
      <3>5. z = v \o f
        <4> HIDE DEF g, f
        <4>0. num \in Seq(Piece) /\ g \in Seq(Piece) /\ f \in Seq(Piece) BY <2>5, <3>2
        <4>1. (num \o g) \o f = num \o (g \o f) BY <4>0, JoinPieces, Zenon
        <4> QED BY <3>4, <4>1
      <3> HIDE DEF z, v, f, r
      <3>6. Len(v) \in Nat /\ Len(f) \in Nat BY <2>6, <3>2
      <3>7. /\ z \in Seq(Piece) /\ Len(z) = Len(v) + Len(f)
            /\ \A i \in 1 .. Len(v) + Len(f) : z[i] = IF i <= Len(v) THEN v[i] ELSE f[i - Len(v)]
        BY <2>6, <3>2, <3>5, ConcatProperties
      <3>8. ASSUME NEW j \in 1 .. Len(z) PROVE z[j].frg = 0
        <4>1. CASE j <= Len(v)
          <5>1. j \in 1 .. Len(v) BY <3>6, <3>7, <4>1
          <5> QED BY <2>7, <3>7, <4>1, <5>1
        <4>2. CASE ~(j <= Len(v))
          <5>1. j - Len(v) \in 1 .. Len(f) BY <3>6, <3>7, <4>2
          <5>2. f[j - Len(v)].frg = 0 BY <3>2, <5>1
          <5> QED BY <3>7, <4>2, <5>2
        <4> QED BY <4>1, <4>2
      <3>9. Data(z) = Data(v) \o Data(f) BY <2>6, <3>2, <3>5, DataConcat
      <3>10. PICK b : Counted(Data(v), b, o + x, W) BY <2>7
      <3>11. Data(v) \in Seq(Bytes) /\ Data(f) \in Seq(Bytes) BY <2>6, <3>2, DataType
      <3> DEFINE a == o + x
                 w == o + size
                 t == Data(v)
                 u == Data(f)
                 h == Ends(rest)
      <3>12. a \in Nat /\ w \in Nat /\ a <= w /\ w <= Len(W) BY <2>2
      <3>13. CutOf(u, Part(W, a, w), h) /\ Counted(t, b, a, W) /\ t \in Seq(Bytes) /\ u \in Seq(Bytes)
        BY <2>4, <3>2, <3>10, <3>11
      <3> HIDE DEF a, w, t, u, h
      <3>14. \E k : Counted(t \o u, k, w, W) BY <3>12, <3>13, CountedAppend
      <3>15. \E k : Counted(Data(z), k, o + size, W) BY <3>9, <3>14 DEF t, u, w
      <3> QED BY <3>7, <3>8, <3>15
    <2> QED BY <2>8, <2>9
  <1> QED BY <1>7, <1>8
-----------------------------------------------------------------------------
(* Whole messages among the pieces *)

\* Pieces that did not change.
LEMMA PartKept ==
    ASSUME NEW s, NEW z, NEW a \in Nat, NEW b \in Nat, \A j \in 1 .. b : z[j] = s[j]
    PROVE  Part(z, a, b) = Part(s, a, b)
  <1>1. \A j \in 1 .. b - a : a + j \in 1 .. b OBVIOUS
  <1> QED BY <1>1 DEF Part

\* s is the messages w: the i-th one is cut into the pieces m[i - 1] + 1 .. m[i], numbered
\* down to 0.
Carries(s, m, w) ==
    /\ m \in [0 .. Len(w) -> Nat] /\ m[0] = 0 /\ m[Len(w)] = Len(s)
    /\ \A i \in 1 .. Len(w) :
          /\ m[i - 1] < m[i] /\ m[i] <= Len(s)
          /\ \A j \in 1 .. m[i] - m[i - 1] : s[m[i - 1] + j].frg = m[i] - m[i - 1] - j
          /\ Payload(Part(s, m[i - 1], m[i])) = w[i]

\* z, cut at b, begins with the first n parts of s, cut at m.
Begins(z, b, s, m, n) ==
    /\ \A i \in 0 .. n : b[i] = m[i]
    /\ \A i \in 1 .. n : Part(z, m[i - 1], m[i]) = Part(s, m[i - 1], m[i])

\* Another message after the others.
LEMMA CarriesAppend ==
    ASSUME ~StreamMode, NEW s \in Seq(Piece), NEW w \in Seq(Bytes), NEW m, Carries(s, m, w),
           NEW d \in Bytes, d # <<>>, NEW z, z = s \o fragments(d), NEW v, v = Append(w, d)
    PROVE  \E b : Carries(z, b, v) /\ Begins(z, b, s, m, Len(w))
  <1> DEFINE f == fragments(d)
             n == fragment_count(d)
             k == Len(w)
             l == Len(s)
             b == [i \in 0 .. k + 1 |-> IF i <= k THEN m[i] ELSE l + n]
  <1>1. /\ n \in Nat \ {0} /\ Len(f) = n /\ f \in Seq(Piece)
        /\ \A i \in 1 .. n : f[i].frg = n - i
    BY FragmentsCut
  <1>2. k \in Nat /\ l \in Nat OBVIOUS
  <1>3. Payload(f) = d BY FragmentsPayload
  <1> HIDE DEF f, n
  <1>4. z \in Seq(Piece) /\ Len(z) = l + n /\ \A i \in 1 .. l + n : z[i] = IF i <= l THEN s[i] ELSE f[i - l]
    BY <1>1, ConcatProperties DEF f
  <1>5. v \in Seq(Bytes) /\ Len(v) = k + 1 /\ v[k + 1] = d /\ \A i \in 1 .. k : v[i] = w[i]
    BY AppendProperties
  <1>6. /\ m \in [0 .. k -> Nat] /\ m[0] = 0 /\ m[k] = l
        /\ \A i \in 1 .. k :
              /\ m[i - 1] < m[i] /\ m[i] <= l
              /\ \A j \in 1 .. m[i] - m[i - 1] : s[m[i - 1] + j].frg = m[i] - m[i - 1] - j
              /\ Payload(Part(s, m[i - 1], m[i])) = w[i]
    BY DEF Carries
  <1> HIDE DEF k, l
  <1>7. \A i \in 0 .. k : m[i] \in Nat /\ b[i] = m[i] BY <1>2, <1>6
  <1>8. b[k + 1] = l + n /\ b[k] = l /\ b[0] = 0 /\ (k + 1) - 1 = k /\ l + n \in Nat
    BY <1>1, <1>2, <1>6
  <1>9. b \in [0 .. k + 1 -> Nat] BY <1>2, <1>6, <1>8
  <1> HIDE DEF b
  <1>10. \A j \in 1 .. l : z[j] = s[j]
    <2>1. \A j \in 1 .. l : j \in 1 .. l + n /\ j <= l BY <1>1, <1>2
    <2> QED BY <1>4, <2>1
  <1>11. ASSUME NEW i \in 1 .. k PROVE Part(z, m[i - 1], m[i]) = Part(s, m[i - 1], m[i])
    <2> DEFINE x == m[i - 1]
               y == m[i]
    <2>1. i - 1 \in 0 .. k /\ i \in 0 .. k BY <1>2
    <2>2. x \in Nat /\ y \in Nat /\ y <= l BY <1>6, <1>7, <2>1
    <2> HIDE DEF x, y
    <2>3. \A j \in 1 .. y : z[j] = s[j]
      <3>1. \A j \in 1 .. y : j \in 1 .. l BY <1>2, <2>2
      <3> QED BY <1>10, <3>1
    <2>4. Part(z, x, y) = Part(s, x, y) BY <2>2, <2>3, PartKept
    <2> QED BY <2>4 DEF x, y
  <1>12. Part(z, l, l + n) = f
    <2>1. (l + n) - l = n /\ \A j \in 1 .. n : l + j \in 1 .. l + n /\ ~(l + j <= l) /\ (l + j) - l = j
      BY <1>1, <1>2
    <2>2. \A j \in 1 .. n : z[l + j] = f[j] BY <1>4, <2>1
    <2> DEFINE u == Part(z, l, l + n)
    <2>3. u \in Seq(Piece) /\ Len(u) = n /\ \A j \in 1 .. n : u[j] = z[l + j]
      <3> DEFINE x == l + n
      <3>1. x \in Nat /\ l <= x /\ x <= Len(z) /\ x - l = n BY <1>1, <1>2, <1>4
      <3> HIDE DEF x
      <3>2. Part(z, l, x) \in Seq(Piece) /\ Len(Part(z, l, x)) = x - l
        <4>1. z \in Seq(Piece) /\ l \in Nat /\ x \in Nat /\ l <= x /\ x <= Len(z) BY <1>2, <1>4, <3>1
        <4> QED BY <4>1, PartType
      <3>3. \A j \in 1 .. x - l : Part(z, l, x)[j] = z[l + j] BY DEF Part
      <3> QED BY <3>1, <3>2, <3>3 DEF x
    <2> HIDE DEF u
    <2>4. u = f BY <1>1, <2>2, <2>3, SameSeq
    <2> QED BY <2>4 DEF u
  <1>13. ASSUME NEW i \in 1 .. k + 1
         PROVE  /\ b[i - 1] < b[i] /\ b[i] <= l + n
                /\ \A j \in 1 .. b[i] - b[i - 1] : z[b[i - 1] + j].frg = b[i] - b[i - 1] - j
                /\ Payload(Part(z, b[i - 1], b[i])) = v[i]
    <2>1. CASE i = k + 1
      <3>1. b[i - 1] = l /\ b[i] = l + n /\ (l + n) - l = n BY <1>1, <1>2, <1>8, <2>1
      <3>2. ASSUME NEW j \in 1 .. n PROVE z[l + j].frg = n - j
        <4>1. l + j \in 1 .. l + n /\ ~(l + j <= l) /\ (l + j) - l = j BY <1>1, <1>2
        <4>2. z[l + j] = f[j] BY <1>4, <4>1
        <4> QED BY <1>1, <4>2
      <3>3. l < l + n /\ l + n <= l + n BY <1>1, <1>2
      <3> QED BY <1>3, <1>5, <1>12, <2>1, <3>1, <3>2, <3>3
    <2>2. CASE i # k + 1
      <3>1. i \in 1 .. k /\ i - 1 \in 0 .. k /\ i \in 0 .. k BY <1>2, <2>2
      <3>2. b[i - 1] = m[i - 1] /\ b[i] = m[i] /\ m[i] \in Nat /\ m[i - 1] \in Nat BY <1>7, <3>1
      <3> DEFINE x == m[i - 1]
                 y == m[i]
      <3>3. x < y /\ y <= l /\ \A j \in 1 .. y - x : s[x + j].frg = y - x - j BY <1>6, <3>1
      <3>4. x \in Nat /\ y \in Nat BY <3>2
      <3>5. Payload(Part(z, x, y)) = v[i] BY <1>5, <1>6, <1>11, <3>1
      <3>6. b[i - 1] = x /\ b[i] = y BY <3>2
      <3> HIDE DEF x, y
      <3>7. ASSUME NEW j \in 1 .. y - x PROVE z[x + j].frg = y - x - j
        <4>1. x + j \in 1 .. l BY <1>2, <3>3, <3>4
        <4> QED BY <1>10, <3>3, <4>1
      <3>8. y <= l + n BY <1>1, <1>2, <3>3, <3>4
      <3> QED BY <3>3, <3>5, <3>6, <3>7, <3>8
    <2> QED BY <2>1, <2>2
  <1>14. Carries(z, b, v) BY <1>4, <1>5, <1>8, <1>9, <1>13 DEF Carries
  <1>15. Begins(z, b, s, m, k) BY <1>7, <1>11 DEF Begins
  <1> QED BY <1>14, <1>15 DEF k

\* The message at the head of a queue whose first fragment 0 is the n-th.
LEMMA SpanIs ==
    ASSUME NEW rq \in Seq(Piece), NEW n \in 1 .. Len(rq), \A j \in 1 .. n : rq[j].frg = n - j
    PROVE  message_span(rq) = n
  <1> DEFINE ends == {i \in 1 .. Len(rq) : rq[i].frg = 0}
             First(i) == i \in ends /\ \A j \in ends : i <= j
  <1>0. Len(rq) \in Nat OBVIOUS
  <1>1. n \in ends BY <1>0
  <1>2. ASSUME NEW j \in ends PROVE n <= j
    <2>1. CASE j \in 1 .. n
      <3>1. n - j = 0 BY <2>1
      <3> QED BY <2>1, <3>1
    <2>2. CASE j \notin 1 .. n BY <1>0, <2>2
    <2> QED BY <2>1, <2>2
  <1>3. \A i \in ends : (\A j \in ends : i <= j) => i = n
    <2> SUFFICES ASSUME NEW i \in ends, \A j \in ends : i <= j PROVE i = n OBVIOUS
    <2>1. i \in Nat /\ n \in Nat /\ i <= n /\ n <= i BY <1>0, <1>1, <1>2
    <2> QED BY <2>1
  <1>4. message_span(rq) = CHOOSE i \in ends : \A j \in ends : i <= j BY <1>1 DEF message_span
  <1> HIDE DEF ends
  <1> QED BY <1>1, <1>2, <1>3, <1>4
\* Written messages w in the pieces s, of which the messages g, t pieces, were read.
MessageFlow(s, w, g, t) ==
    \E m : /\ Carries(s, m, w)
           /\ Len(g) <= Len(w) /\ t = m[Len(g)]
           /\ \A i \in 1 .. Len(g) : g[i] = Part(s, m[i - 1], m[i])

\* A write of a message.
LEMMA MessageWrite ==
    ASSUME ~StreamMode, NEW s \in Seq(Piece), NEW w \in Seq(Bytes), NEW g \in Seq(Seq(Piece)), NEW t,
           MessageFlow(s, w, g, t), NEW d \in Bytes, d # <<>>
    PROVE  MessageFlow(s \o fragments(d), Append(w, d), g, t)
  <1> DEFINE z == s \o fragments(d)
             v == Append(w, d)
             k == Len(w)
             n == Len(g)
  <1>1. PICK m : /\ Carries(s, m, w) /\ n <= k /\ t = m[n]
                 /\ \A i \in 1 .. n : g[i] = Part(s, m[i - 1], m[i])
    BY DEF MessageFlow
  <1>2. k \in Nat /\ n \in Nat /\ Len(v) = k + 1 BY AppendProperties
  <1>3. PICK b : Carries(z, b, v) /\ Begins(z, b, s, m, Len(w))
    <2>1. z = s \o fragments(d) /\ v = Append(w, d) OBVIOUS
    <2> HIDE DEF z, v
    <2> QED BY <1>1, <2>1, CarriesAppend
  <1>8. /\ \A i \in 0 .. k : b[i] = m[i]
        /\ \A i \in 1 .. k : Part(z, m[i - 1], m[i]) = Part(s, m[i - 1], m[i])
    BY <1>3 DEF Begins
  <1> HIDE DEF z, v, k, n
  <1>4. n \in 0 .. k /\ n <= k + 1 BY <1>1, <1>2
  <1>5. ASSUME NEW i \in 1 .. n PROVE g[i] = Part(z, b[i - 1], b[i])
    <2>1. i \in 1 .. k /\ i \in 0 .. k /\ i - 1 \in 0 .. k BY <1>1, <1>2
    <2>2. b[i - 1] = m[i - 1] /\ b[i] = m[i] BY <1>8, <2>1
    <2> QED BY <1>1, <1>8, <2>1, <2>2
  <1>6. t = b[n] BY <1>1, <1>4, <1>8
  <1>7. MessageFlow(z, v, g, t)
    <2>1. Len(g) <= Len(v) /\ t = b[Len(g)] /\ \A i \in 1 .. Len(g) : g[i] = Part(z, b[i - 1], b[i])
      BY <1>2, <1>4, <1>5, <1>6 DEF n
    <2> QED BY <1>3, <2>1 DEF MessageFlow
  <1> QED BY <1>7 DEF z, v

\* A read of a message.
LEMMA MessageRead ==
    ASSUME NEW s \in Seq(Piece), NEW w \in Seq(Bytes), NEW g \in Seq(Seq(Piece)), NEW t \in Nat,
           MessageFlow(s, w, g, t),
           NEW rq \in Seq(Piece), rq # <<>>, t + Len(rq) <= Len(s),
           \A i \in 1 .. Len(rq) : rq[i] = s[t + i],
           Len(rq) >= rq[1].frg + 1
    PROVE  /\ Len(g) < Len(w)
           /\ MessageFlow(s, w, Append(g, SubSeq(rq, 1, message_span(rq))), t + message_span(rq))
  <1> DEFINE k == Len(w)
             n == Len(g)
             l == Len(s)
             r == Len(rq)
  <1>1. PICK m : /\ Carries(s, m, w) /\ n <= k /\ t = m[n]
                 /\ \A i \in 1 .. n : g[i] = Part(s, m[i - 1], m[i])
    BY DEF MessageFlow
  <1>2. k \in Nat /\ n \in Nat /\ l \in Nat /\ r \in Nat \ {0} /\ t + r <= l BY EmptySeq
  <1>3. /\ m \in [0 .. k -> Nat] /\ m[0] = 0 /\ m[k] = l
        /\ \A i \in 1 .. k :
              /\ m[i - 1] < m[i] /\ m[i] <= l
              /\ \A j \in 1 .. m[i] - m[i - 1] : s[m[i - 1] + j].frg = m[i] - m[i - 1] - j
    BY <1>1 DEF Carries
  <1> HIDE DEF k, n, l
  <1>4. n < k
    <2>1. CASE n = k
      <3>1. t = l BY <1>1, <1>3, <2>1
      <3> QED BY <1>2, <3>1
    <2>2. CASE n # k BY <1>1, <1>2, <2>2
    <2> QED BY <2>1, <2>2
  <1>5. n + 1 \in 1 .. k /\ n + 1 \in 0 .. k /\ (n + 1) - 1 = n /\ n \in 0 .. k BY <1>2, <1>4
  <1> DEFINE y == m[n + 1]
             a == y - t
  <1>6. /\ y \in Nat /\ t < y /\ y <= l
        /\ \A j \in 1 .. a : s[t + j].frg = a - j
    BY <1>1, <1>3, <1>5
  <1> HIDE DEF y
  <1>7. a \in Nat \ {0} /\ 1 \in 1 .. a /\ t + a = y BY <1>6
  <1> HIDE DEF a, r
  <1>8. rq[1].frg = a - 1
    <2>1. 1 \in 1 .. r BY <1>2
    <2>2. rq[1] = s[t + 1] BY <2>1 DEF r
    <2> QED BY <1>6, <1>7, <2>2
  <1>9. a <= r
    <2>1. r >= (a - 1) + 1 BY <1>8 DEF r
    <2> QED BY <1>2, <1>7, <2>1
  <1>10. \A j \in 1 .. a : rq[j].frg = a - j
    <2>1. \A j \in 1 .. a : j \in 1 .. r BY <1>2, <1>7, <1>9
    <2> QED BY <1>6, <2>1 DEF r
  <1>11. a \in 1 .. Len(rq) BY <1>2, <1>7, <1>9 DEF r
  <1>12. message_span(rq) = a BY <1>10, <1>11, SpanIs
  <1> DEFINE u == SubSeq(rq, 1, a)
             v == Part(s, t, y)
             h == Append(g, u)
  <1>13. u = v
    <2>1. u \in Seq(Piece) /\ Len(u) = a /\ \A j \in 1 .. a : u[j] = rq[j] BY <1>7, <1>11
    <2>2. y - t = a BY DEF a
    <2>3. v \in Seq(Piece) /\ Len(v) = a /\ \A j \in 1 .. a : v[j] = s[t + j]
      <3>1. t <= y /\ y <= Len(s) BY <1>6 DEF l
      <3>2. v \in Seq(Piece) /\ Len(v) = y - t /\ \A j \in 1 .. y - t : v[j] = s[t + j]
        BY <1>6, <3>1, PartType
      <3> QED BY <2>2, <3>2
    <2>4. \A j \in 1 .. a : rq[j] = s[t + j]
      <3>1. \A j \in 1 .. a : j \in 1 .. Len(rq) BY <1>7, <1>11
      <3> QED BY <3>1
    <2> HIDE DEF u, v
    <2> QED BY <2>1, <2>3, <2>4, SameSeq
  <1>14. u \in Seq(Piece) BY <1>7, <1>11
  <1> HIDE DEF u
  <1>15. Len(h) = n + 1 /\ h[n + 1] = u /\ \A i \in 1 .. n : h[i] = g[i]
    BY <1>14, AppendProperties DEF n
  <1> HIDE DEF h, v
  <1>16. ASSUME NEW i \in 1 .. n + 1 PROVE h[i] = Part(s, m[i - 1], m[i])
    <2>1. CASE i = n + 1
      <3>1. m[i - 1] = t /\ m[i] = y BY <1>1, <1>5, <2>1 DEF y
      <3> QED BY <1>13, <1>15, <2>1, <3>1 DEF v
    <2>2. CASE i # n + 1
      <3>1. i \in 1 .. n BY <1>2, <2>2
      <3> QED BY <1>1, <1>15, <3>1
    <2> QED BY <2>1, <2>2
  <1>17. MessageFlow(s, w, h, t + a)
    <2>1. Len(h) <= Len(w) /\ t + a = m[Len(h)] /\ \A i \in 1 .. Len(h) : h[i] = Part(s, m[i - 1], m[i])
      <3>1. n + 1 <= k BY <1>2, <1>4
      <3>2. t + a = m[n + 1] BY <1>7 DEF y
      <3> QED BY <1>15, <1>16, <3>1, <3>2 DEF k
    <2> QED BY <1>1, <2>1 DEF MessageFlow
  <1> QED BY <1>4, <1>12, <1>17 DEF n, k, h, u

\* The payloads of messages.
Payloads(g) == [i \in 1 .. Len(g) |-> Payload(g[i])]

\* What was read are the first messages written.
LEMMA MessageReads ==
    ASSUME NEW s \in Seq(Piece), NEW w \in Seq(Bytes), NEW g \in Seq(Seq(Piece)), NEW t,
           MessageFlow(s, w, g, t)
    PROVE  /\ Len(g) <= Len(w)
           /\ Payloads(g) = SubSeq(w, 1, Len(g))
  <1> DEFINE k == Len(w)
             n == Len(g)
             u == [i \in 1 .. n |-> Payload(g[i])]
             v == SubSeq(w, 1, n)
  <1>1. PICK m : /\ Carries(s, m, w) /\ n <= k
                 /\ \A i \in 1 .. n : g[i] = Part(s, m[i - 1], m[i])
    BY DEF MessageFlow
  <1>2. k \in Nat /\ n \in Nat OBVIOUS
  <1>3. \A i \in 1 .. k : Payload(Part(s, m[i - 1], m[i])) = w[i] /\ w[i] \in Bytes BY <1>1 DEF Carries
  <1>4. v = [i \in 1 .. n |-> w[i]]
    <2>1. v \in Seq(Bytes) /\ Len(v) = n /\ \A i \in 1 .. n : v[i] = w[i] BY <1>1, <1>2
    <2> HIDE DEF v, n
    <2> QED BY <2>1
  <1> HIDE DEF k, n, v
  <1>5. ASSUME NEW i \in 1 .. n PROVE Payload(g[i]) = w[i]
    <2>1. i \in 1 .. k BY <1>1, <1>2
    <2> QED BY <1>1, <1>3, <2>1
  <1>6. u = v BY <1>4, <1>5
  <1> QED BY <1>1, <1>6 DEF n, k, u, v, Payloads
-----------------------------------------------------------------------------
(* A byte stream among the pieces *)

\* The ends of parts grow.
LEMMA EndsGrow ==
    ASSUME NEW n \in Nat, NEW c \in [0 .. n -> Nat], \A i \in 1 .. n : c[i - 1] <= c[i],
           NEW i \in 0 .. n, NEW j \in 0 .. n, i <= j
    PROVE  c[i] <= c[j]
  <1> DEFINE Bad == {k \in i .. n : ~(c[i] <= c[k])}
  <1> SUFFICES ASSUME Bad # {} PROVE FALSE
    <2>1. j \in i .. n OBVIOUS
    <2> QED BY <2>1
  <1>1. Bad \subseteq Nat OBVIOUS
  <1>2. PICK k \in Bad : \A l \in Bad : k <= l
    <2> HIDE DEF Bad
    <2> QED BY <1>1, NatMin
  <1>3. k \in i .. n /\ ~(c[i] <= c[k]) OBVIOUS
  <1>4. k # i
    <2>1. c[i] \in Nat OBVIOUS
    <2> QED BY <1>3, <2>1
  <1>5. k \in 1 .. n /\ k - 1 \in i .. n /\ k - 1 \in 0 .. n /\ k \in 0 .. n /\ ~(k <= k - 1) BY <1>3, <1>4
  <1>6. k - 1 \notin Bad
    <2> HIDE DEF Bad
    <2> QED BY <1>2, <1>5
  <1>7. c[i] <= c[k - 1] BY <1>5, <1>6
  <1>8. c[k - 1] <= c[k] /\ c[i] \in Nat /\ c[k - 1] \in Nat /\ c[k] \in Nat BY <1>5
  <1> QED BY <1>3, <1>7, <1>8

\* Bytes, written as w and carried by the pieces s, of which the first t were read, one by
\* one, as g.
StreamFlow(s, w, g, t) ==
    /\ \A j \in 1 .. Len(s) : s[j].frg = 0
    /\ \E W \in Bytes : (\E c : CutOf(Data(s), W, c)) /\ (\E b : CutOf(w, W, b))
    /\ t = Len(g) /\ t <= Len(s)
    /\ \A i \in 1 .. t : g[i] = Part(s, i - 1, i)

\* What is appended is the last part.
LEMMA LastPart ==
    ASSUME NEW W \in Seq(Nat), NEW d \in Seq(Nat)
    PROVE  Part(W \o d, Len(W), Len(W \o d)) = d
  <1> DEFINE Y == W \o d
             o == Len(W)
             y == Len(Y)
             x == Len(d)
  <1>1. o \in Nat /\ x \in Nat OBVIOUS
  <1>2. y = o + x /\ \A i \in 1 .. o + x : Y[i] = IF i <= o THEN W[i] ELSE d[i - o]
    BY ConcatProperties
  <1>3. d = [j \in 1 .. x |-> d[j]] OBVIOUS
  <1> HIDE DEF Y, o, y, x
  <1>4. y - o = x BY <1>1, <1>2
  <1>5. \A j \in 1 .. x : o + j \in 1 .. o + x /\ ~(o + j <= o) /\ (o + j) - o = j BY <1>1
  <1>6. \A j \in 1 .. x : Y[o + j] = d[j] BY <1>2, <1>5
  <1>7. Part(Y, o, y) = [j \in 1 .. x |-> d[j]] BY <1>4, <1>6 DEF Part
  <1>8. Part(Y, o, y) = d BY <1>3, <1>7
  <1> QED BY <1>8 DEF Y, o, y

\* The bytes Y are those cut into t at c, and then d.
Grown(t, c, d, Y, o, y) ==
    /\ Y \in Bytes /\ o \in Nat /\ y \in Nat /\ o <= y /\ y = Len(Y)
    /\ Part(Y, o, y) = d /\ Counted(t, c, o, Y)

\* The parts of the bytes are parts of more bytes.
LEMMA CutGrows ==
    ASSUME NEW t \in Seq(Bytes), NEW W \in Bytes, NEW d \in Bytes, NEW c, CutOf(t, W, c)
    PROVE  Grown(t, c, d, W \o d, Len(W), Len(W \o d))
  <1> DEFINE n == Len(t)
             x == Len(d)
             Y == W \o d
             o == Len(W)
             y == Len(Y)
  <1>1. W \in Seq(Nat) /\ d \in Seq(Nat) /\ o \in Nat /\ x \in Nat BY DEF Bytes
  <1>2. Y \in Seq(Nat) /\ y = o + x /\ \A i \in 1 .. o + x : Y[i] = IF i <= o THEN W[i] ELSE d[i - o]
    BY <1>1, ConcatProperties
  <1>3. Part(Y, o, y) = d BY <1>1, LastPart
  <1>8. /\ c \in [0 .. n -> Nat] /\ c[0] = 0 /\ c[n] = o
        /\ \A i \in 1 .. n : c[i - 1] <= c[i] /\ c[i] <= o /\ t[i] = Part(W, c[i - 1], c[i])
    BY DEF CutOf
  <1>9. n \in Nat /\ Y \in Bytes BY <1>2 DEF Bytes
  <1> HIDE DEF n, o, Y, x
  <1>4. y \in Nat /\ o <= y BY <1>1, <1>2
  <1>10. ASSUME NEW i \in 1 .. n PROVE t[i] = Part(Y, c[i - 1], c[i])
    <2> DEFINE a == c[i - 1]
               b == c[i]
    <2>1. i - 1 \in 0 .. n /\ i \in 0 .. n BY <1>9
    <2>2. a \in Nat /\ b \in Nat /\ b <= o /\ t[i] = Part(W, a, b) BY <1>8, <2>1
    <2> HIDE DEF a, b
    <2>3. \A j \in 1 .. b : j \in 1 .. o + x /\ j <= o BY <1>1, <2>2
    <2>4. \A j \in 1 .. b : Y[j] = W[j] BY <1>2, <2>3
    <2>5. Part(Y, a, b) = Part(W, a, b) BY <2>2, <2>4, PartKept
    <2> QED BY <2>2, <2>5 DEF a, b
  <1>11. Counted(t, c, o, Y) BY <1>8, <1>10 DEF Counted, n
  <1>12. Grown(t, c, d, Y, o, y) BY <1>1, <1>3, <1>4, <1>9, <1>11 DEF Grown
  <1> QED BY <1>12 DEF Y, o

\* One more write is one more part of the bytes.
LEMMA CutWrite ==
    ASSUME NEW w \in Seq(Bytes), NEW W \in Bytes, NEW d \in Bytes, NEW b, CutOf(w, W, b)
    PROVE  \E e : CutOf(Append(w, d), W \o d, e)
  <1> DEFINE u == <<d>>
             h == [i \in 0 .. 1 |-> IF i = 0 THEN 0 ELSE Len(d)]
             Y == W \o d
             o == Len(W)
             z == Len(Y)
  <1>1. d \in Seq(Nat) /\ Len(d) \in Nat BY DEF Bytes
  <1>2. Part(d, 0, Len(d)) = d BY <1>1, PartWhole
  <1>3. u \in Seq(Bytes) /\ Len(u) = 1 /\ u[1] = d /\ w \o u = Append(w, d) OBVIOUS
  <1>4. h \in [0 .. 1 -> Nat] /\ h[0] = 0 /\ h[1] = Len(d) BY <1>1
  <1> HIDE DEF u, h
  <1>5. CutOf(u, d, h)
    <2>1. \A i \in 1 .. 1 : i = 1 /\ i - 1 = 0 OBVIOUS
    <2>2. \A i \in 1 .. 1 : h[i - 1] <= h[i] /\ h[i] <= Len(d) /\ u[i] = Part(d, h[i - 1], h[i])
      BY <1>1, <1>2, <1>3, <1>4, <2>1
    <2> QED BY <1>3, <1>4, <2>2 DEF CutOf
  <1>6. Grown(w, b, d, Y, o, z) BY CutGrows
  <1> HIDE DEF Y, o, z
  <1>7. /\ Y \in Bytes /\ o \in Nat /\ z \in Nat /\ o <= z /\ z = Len(Y)
        /\ Part(Y, o, z) = d /\ Counted(w, b, o, Y)
    BY <1>6 DEF Grown
  <1>8. z <= Len(Y) BY <1>7
  <1>9. CutOf(u, Part(Y, o, z), h) BY <1>5, <1>7
  <1>10. \E e : Counted(w \o u, e, z, Y) BY <1>3, <1>7, <1>8, <1>9, CountedAppend
  <1>11. \E e : CutOf(Append(w, d), Y, e) BY <1>3, <1>7, <1>10, CountedWhole
  <1> QED BY <1>11 DEF Y

\* A write to a stream.
LEMMA StreamWrite ==
    ASSUME StreamMode, NEW e, IsEngine(e), NEW num \in Seq(Piece), NEW w \in Seq(Bytes),
           NEW g, NEW t \in Nat, t <= Len(num),
           NEW q, q = e.snd_queue, StreamFlow(num \o q, w, g, t),
           NEW d \in Bytes, send(e, d).ok, NEW x, x = send(e, d).eng.snd_queue
    PROVE  StreamFlow(num \o x, Append(w, d), g, t)
  <1> DEFINE s == num \o q
             z == num \o x
  <1>1. /\ \A j \in 1 .. Len(s) : s[j].frg = 0
        /\ t = Len(g) /\ t <= Len(s)
        /\ \A i \in 1 .. t : g[i] = Part(s, i - 1, i)
    BY DEF StreamFlow
  <1>2. PICK W \in Bytes : (\E c : CutOf(Data(s), W, c)) /\ (\E b : CutOf(w, W, b)) BY DEF StreamFlow
  <1>3. q \in Seq(Piece) /\ s \in Seq(Piece)
    <2>1. q \in Seq(Piece) BY DEF IsEngine
    <2> QED BY <2>1, ConcatProperties
  <1>4. z \in Seq(Piece) /\ (\A j \in 1 .. Len(z) : z[j].frg = 0) /\ \E b : CutOf(Data(z), W \o d, b)
    <2> DEFINE Y == W \o d
               o == Len(W)
               y == Len(Y)
               size == y - o
    <2>1. PICK c : CutOf(Data(s), W, c) BY <1>2
    <2>2. Data(s) \in Seq(Bytes) BY <1>3, DataType
    <2> HIDE DEF s
    <2>3. Grown(Data(s), c, d, Y, o, y) BY <2>1, <2>2, CutGrows
    <2> HIDE DEF Y, o, y
    <2>11. /\ Y \in Bytes /\ o \in Nat /\ y \in Nat /\ o <= y /\ y = Len(Y)
           /\ Part(Y, o, y) = d /\ Counted(Data(s), c, o, Y)
      BY <2>3 DEF Grown
    <2>12. size \in Nat /\ o + size = y BY <2>11
    <2> HIDE DEF size
    <2>4. /\ Y \in Bytes /\ Len(Y) = o + size /\ o \in Nat /\ size \in Nat
          /\ Part(Y, o, o + size) = d /\ Counted(Data(s), c, o, Y)
      BY <2>11, <2>12
    <2>5. o + size <= Len(Y) BY <2>4
    <2>6. Counted(Data(num \o e.snd_queue), c, o, Y) BY <2>4 DEF s
    <2>7. \A j \in 1 .. Len(num \o e.snd_queue) : (num \o e.snd_queue)[j].frg = 0 BY <1>1 DEF s
    <2>8. LET r1 == send(e, Part(Y, o, o + size))
              z1 == num \o r1.eng.snd_queue
          IN  r1.ok => /\ z1 \in Seq(Piece) /\ \A j \in 1 .. Len(z1) : z1[j].frg = 0
                       /\ \E b : Counted(Data(z1), b, o + size, Y)
      BY <2>4, <2>5, <2>6, <2>7, StreamSend
    <2>9. /\ z \in Seq(Piece) /\ \A j \in 1 .. Len(z) : z[j].frg = 0
          /\ \E b : Counted(Data(z), b, o + size, Y)
      BY <2>4, <2>8
    <2> HIDE DEF z
    <2>10. \E b : CutOf(Data(z), Y, b) BY <2>4, <2>9, CountedWhole
    <2> QED BY <2>9, <2>10 DEF Y
  <1>5. \E b : CutOf(Append(w, d), W \o d, b)
    <2>1. PICK b : CutOf(w, W, b) BY <1>2
    <2> QED BY <2>1, CutWrite
  <1>6. W \o d \in Bytes BY DEF Bytes
  <1>7. x \in Seq(Piece)
    <2>1. IsEngine(send(e, d).eng) BY SendType
    <2> QED BY <2>1 DEF IsEngine
  <1>8. Len(num) \in Nat /\ Len(q) \in Nat /\ Len(x) \in Nat BY <1>3, <1>7
  <1>9. /\ Len(z) = Len(num) + Len(x)
        /\ \A i \in 1 .. Len(num) + Len(x) : z[i] = IF i <= Len(num) THEN num[i] ELSE x[i - Len(num)]
    BY <1>7, ConcatProperties
  <1>10. \A i \in 1 .. Len(num) + Len(q) : s[i] = IF i <= Len(num) THEN num[i] ELSE q[i - Len(num)]
    BY <1>3, ConcatProperties
  <1> HIDE DEF s, z
  <1>11. \A i \in 1 .. Len(num) : z[i] = s[i]
    <2>1. \A i \in 1 .. Len(num) : i \in 1 .. Len(num) + Len(x) /\ i \in 1 .. Len(num) + Len(q) /\ i <= Len(num)
      BY <1>8
    <2> QED BY <1>9, <1>10, <2>1
  <1>12. t <= Len(z) BY <1>8, <1>9
  <1>13. ASSUME NEW i \in 1 .. t PROVE g[i] = Part(z, i - 1, i)
    <2>1. i - 1 \in Nat /\ i \in Nat /\ \A j \in 1 .. i : j \in 1 .. Len(num) BY <1>8
    <2>2. \A j \in 1 .. i : z[j] = s[j] BY <1>11, <2>1
    <2>3. Part(z, i - 1, i) = Part(s, i - 1, i) BY <2>1, <2>2, PartKept
    <2> QED BY <1>1, <2>3
  <1>14. \E Y \in Bytes : (\E c : CutOf(Data(z), Y, c)) /\ (\E b : CutOf(Append(w, d), Y, b))
    BY <1>4, <1>5, <1>6
  <1>15. StreamFlow(z, Append(w, d), g, t) BY <1>1, <1>4, <1>12, <1>13, <1>14 DEF StreamFlow
  <1> QED BY <1>15 DEF z

\* A read from a stream takes one piece.
LEMMA StreamRead ==
    ASSUME NEW s \in Seq(Piece), NEW w, NEW g \in Seq(Seq(Piece)), NEW t \in Nat,
           StreamFlow(s, w, g, t),
           NEW rq \in Seq(Piece), rq # <<>>, t + Len(rq) <= Len(s),
           \A i \in 1 .. Len(rq) : rq[i] = s[t + i]
    PROVE  /\ message_span(rq) = 1 /\ t + 1 \in 1 .. Len(s) /\ rq[1] = s[t + 1]
           /\ StreamFlow(s, w, Append(g, SubSeq(rq, 1, 1)), t + 1)
  <1> DEFINE u == SubSeq(rq, 1, 1)
             h == Append(g, u)
  <1>1. /\ \A j \in 1 .. Len(s) : s[j].frg = 0
        /\ \E W \in Bytes : (\E c : CutOf(Data(s), W, c)) /\ (\E b : CutOf(w, W, b))
        /\ t = Len(g)
        /\ \A i \in 1 .. t : g[i] = Part(s, i - 1, i)
    BY DEF StreamFlow
  <1>2. Len(rq) \in Nat \ {0} /\ Len(s) \in Nat BY EmptySeq
  <1>3. 1 \in 1 .. Len(rq) /\ t + 1 \in 1 .. Len(s) /\ t + 1 <= Len(s) BY <1>2
  <1>4. rq[1] = s[t + 1] BY <1>3
  <1>5. message_span(rq) = 1
    <2>1. \A j \in 1 .. 1 : j = 1 /\ 1 - j = 0 OBVIOUS
    <2>2. \A j \in 1 .. 1 : rq[j].frg = 1 - j BY <1>1, <1>3, <1>4, <2>1
    <2> QED BY <1>3, <2>2, SpanIs
  <1>6. u \in Seq(Piece) /\ Len(u) = 1 /\ u[1] = rq[1] BY <1>2, <1>3
  <1> HIDE DEF u
  <1>7. Len(h) = t + 1 /\ h[t + 1] = u /\ \A i \in 1 .. t : h[i] = g[i] BY <1>1, <1>6, AppendProperties
  <1> HIDE DEF h
  <1>8. u = Part(s, t, t + 1)
    <2> DEFINE y == t + 1
               v == Part(s, t, y)
    <2>1. y \in Nat /\ t <= y /\ y <= Len(s) /\ y - t = 1 BY <1>3
    <2>2. 1 \in 1 .. 1 /\ t + 1 = y OBVIOUS
    <2> HIDE DEF y
    <2>6. v \in Seq(Piece) /\ Len(v) = y - t /\ \A j \in 1 .. y - t : v[j] = s[t + j] BY <2>1, PartType
    <2>3. v \in Seq(Piece) /\ Len(v) = 1 /\ v[1] = s[y] BY <2>1, <2>2, <2>6
    <2> HIDE DEF v
    <2>4. \A i \in 1 .. Len(u) : u[i] = v[i]
      <3>1. \A i \in 1 .. 1 : i = 1 OBVIOUS
      <3> QED BY <1>4, <1>6, <2>2, <2>3, <3>1
    <2>5. u = v BY <1>6, <2>3, <2>4, SameSeq
    <2> QED BY <2>5 DEF v, y
  <1>9. ASSUME NEW i \in 1 .. t + 1 PROVE h[i] = Part(s, i - 1, i)
    <2>1. CASE i = t + 1
      <3>1. i - 1 = t BY <2>1
      <3> QED BY <1>7, <1>8, <2>1, <3>1
    <2>2. CASE i # t + 1
      <3>1. i \in 1 .. t BY <2>2
      <3> QED BY <1>1, <1>7, <3>1
    <2> QED BY <2>1, <2>2
  <1>10. StreamFlow(s, w, h, t + 1) BY <1>1, <1>3, <1>7, <1>9 DEF StreamFlow
  <1> QED BY <1>3, <1>4, <1>5, <1>10 DEF h, u

\* The messages g are the first k bytes of W.
FirstBytes(g, W, k) == FlattenSeq(Payloads(g)) = Part(W, 0, k)

\* What was read are the first bytes written.
LEMMA StreamReads ==
    ASSUME NEW s \in Seq(Piece), NEW w, NEW g \in Seq(Seq(Piece)), NEW t \in Nat,
           StreamFlow(s, w, g, t), NEW W \in Bytes, NEW c, CutOf(Data(s), W, c)
    PROVE  c[t] \in Nat /\ c[t] <= Len(W) /\ FirstBytes(g, W, c[t])
  <1> DEFINE n == Len(s)
             o == Len(W)
             a == Data(s)
             u == [i \in 1 .. t |-> Payload(g[i])]
             b == [i \in 0 .. t |-> c[i]]
             y == c[t]
             v == Part(W, 0, y)
  <1>0. W \in Seq(Nat) /\ o \in Nat BY DEF Bytes
  <1>1. t = Len(g) /\ t <= n /\ n \in Nat /\ \A i \in 1 .. t : g[i] = Part(s, i - 1, i)
    BY DEF StreamFlow
  <1>2. a \in Seq(Bytes) /\ Len(a) = n /\ \A j \in 1 .. n : a[j] = s[j].data BY DataType
  <1>3. /\ c \in [0 .. n -> Nat] /\ c[0] = 0 /\ c[n] = o
        /\ \A i \in 1 .. n : c[i - 1] <= c[i] /\ c[i] <= o /\ a[i] = Part(W, c[i - 1], c[i])
    BY <1>2 DEF CutOf
  <1>4. t \in 0 .. n /\ n \in 0 .. n BY <1>1
  <1> HIDE DEF o
  <1>5. y \in Nat /\ y <= o
    <2>1. c[t] <= c[n] BY <1>1, <1>3, <1>4, EndsGrow
    <2> QED BY <1>3, <1>4, <2>1
  <1>6. ASSUME NEW i \in 1 .. t PROVE u[i] = a[i] /\ a[i] \in Bytes
    <2>1. i \in 1 .. n BY <1>1
    <2>2. Payload(Part(s, i - 1, i)) = s[i].data BY <2>1, PiecePayload
    <2>3. u[i] = Payload(g[i]) /\ g[i] = Part(s, i - 1, i) BY <1>1
    <2> HIDE DEF u, a
    <2>4. a[i] = s[i].data /\ a[i] \in Bytes BY <1>2, <2>1
    <2> QED BY <2>2, <2>3, <2>4
  <1> HIDE DEF n, a
  <1>7. u \in Seq(Bytes) /\ Len(u) = t
    <2>1. DOMAIN u = 1 .. t /\ \A i \in 1 .. t : u[i] \in Bytes BY <1>6
    <2> QED BY <2>1
  <1>8. \A i \in 0 .. t : b[i] = c[i] /\ c[i] \in Nat
    <2>1. \A i \in 0 .. t : i \in 0 .. n BY <1>1
    <2> QED BY <1>3, <2>1
  <1>9. b \in [0 .. t -> Nat] BY <1>8
  <1>10. b[0] = 0 /\ b[t] = y BY <1>3, <1>8
  <1> HIDE DEF u, b, y
  <1>14. v \in Seq(Nat) /\ Len(v) = y /\ \A j \in 1 .. y : v[j] = W[j]
    <2>1. y <= Len(W) BY <1>5 DEF o
    <2> QED BY <1>0, <1>5, <2>1, FirstPart
  <1> HIDE DEF v
  <1>11. ASSUME NEW i \in 1 .. t PROVE b[i - 1] <= b[i] /\ b[i] <= y /\ u[i] = Part(v, b[i - 1], b[i])
    <2>1. i \in 1 .. n /\ i - 1 \in 0 .. t /\ i \in 0 .. t /\ i \in 0 .. n /\ i <= t BY <1>1
    <2>2. c[i] <= c[t] BY <1>1, <1>3, <1>4, <2>1, EndsGrow
    <2> DEFINE k == b[i - 1]
               l == b[i]
    <2>3. k \in Nat /\ l \in Nat /\ k <= l /\ l <= y /\ u[i] = Part(W, k, l)
      BY <1>3, <1>6, <1>8, <2>1, <2>2 DEF y
    <2> HIDE DEF k, l
    <2>4. \A j \in 1 .. l : j \in 1 .. y BY <1>5, <2>3
    <2>5. \A j \in 1 .. l : v[j] = W[j] BY <1>14, <2>4
    <2>6. Part(v, k, l) = Part(W, k, l)
      <3>1. k \in Nat /\ l \in Nat BY <2>3
      <3> QED BY <2>5, <3>1, PartKept, ZenonT(30)
    <2>7. k <= l /\ l <= y /\ u[i] = Part(v, k, l) BY <2>3, <2>6
    <2> QED BY <2>7, Zenon DEF k, l
  <1>12. CutOf(u, v, b) BY <1>7, <1>9, <1>10, <1>11, <1>14 DEF CutOf
  <1>13. FlattenSeq(u) = v BY <1>7, <1>12, <1>14, FlattenCut DEF Bytes
  <1> QED BY <1>1, <1>5, <1>13 DEF u, v, y, o, Payloads, FirstBytes

-----------------------------------------------------------------------------
(* The steps of a reliable channel *)

\* A step of ReliableChannel, or none: written goes from w to v, read from r to u.
Moves(w, r, v, u) ==
    \/ v = w /\ u = r
    \/ Len(v) > Len(w) /\ SubSeq(v, 1, Len(w)) = w /\ u = r
    \/ v = w /\ \E n \in (Len(r) + 1) .. Len(w) : u = SubSeq(w, 1, n)

\* More bytes are a write.
LEMMA StreamWriteMoves ==
    ASSUME NEW W \in Bytes, NEW d \in Bytes, NEW r
    PROVE  Moves(W, r, W \o d, r)
  <1> DEFINE V == W \o d
             o == Len(W)
             x == Len(d)
  <1>1. W \in Seq(Nat) /\ d \in Seq(Nat) /\ o \in Nat /\ x \in Nat BY DEF Bytes
  <1>2. V \in Seq(Nat) /\ Len(V) = o + x /\ \A i \in 1 .. o + x : V[i] = IF i <= o THEN W[i] ELSE d[i - o]
    BY <1>1, ConcatProperties
  <1>3. CASE x = 0
    <2>1. d = <<>> BY <1>1, <1>3, EmptySeq
    <2>2. V = W BY <1>1, <2>1, ConcatEmptySeq
    <2> QED BY <2>2 DEF Moves
  <1>4. CASE x # 0
    <2> DEFINE u == SubSeq(V, 1, o)
    <2> HIDE DEF V, o, x
    <2>1. o <= Len(V) /\ Len(V) > o BY <1>1, <1>2, <1>4
    <2>2. u \in Seq(Nat) /\ Len(u) = o /\ \A i \in 1 .. o : u[i] = V[i] BY <1>1, <1>2, <2>1
    <2>3. \A i \in 1 .. o : i \in 1 .. o + x /\ i <= o BY <1>1
    <2>4. \A i \in 1 .. o : V[i] = W[i] BY <1>2, <2>3
    <2> HIDE DEF u
    <2>5. u = W BY <1>1, <2>2, <2>4, SameSeq DEF o
    <2>6. Moves(W, r, V, r) BY <2>1, <2>5 DEF Moves, u, o
    <2> QED BY <2>6 DEF V
  <1> QED BY <1>3, <1>4

\* The next bytes are a read.
LEMMA StreamReadMoves ==
    ASSUME NEW W \in Bytes, NEW a \in Nat, NEW b \in Nat, a < b, b <= Len(W)
    PROVE  Moves(W, Part(W, 0, a), W, Part(W, 0, b))
  <1> DEFINE r == Part(W, 0, a)
             u == Part(W, 0, b)
  <1>1. W \in Seq(Nat) /\ Len(W) \in Nat /\ a <= Len(W) BY DEF Bytes
  <1>2. Len(r) = a BY <1>1, FirstPart
  <1>3. SubSeq(W, 1, b) = u BY <1>1, FirstPart
  <1> HIDE DEF r, u
  <1>4. b \in (Len(r) + 1) .. Len(W) BY <1>1, <1>2
  <1>5. Moves(W, r, W, u) BY <1>3, <1>4 DEF Moves
  <1> QED BY <1>5 DEF r, u

\* One more message is a write.
LEMMA MessageWriteMoves ==
    ASSUME NEW w \in Seq(Bytes), NEW d \in Bytes, NEW r PROVE Moves(w, r, Append(w, d), r)
  <1> DEFINE v == Append(w, d)
             n == Len(w)
  <1>1. n \in Nat OBVIOUS
  <1>2. v \in Seq(Bytes) /\ Len(v) = n + 1 /\ \A i \in 1 .. n : v[i] = w[i] BY AppendProperties
  <1> HIDE DEF v, n
  <1>3. SubSeq(v, 1, n) = w
    <2> DEFINE u == SubSeq(v, 1, n)
    <2>1. n <= Len(v) BY <1>1, <1>2
    <2>2. u \in Seq(Bytes) /\ Len(u) = n /\ \A i \in 1 .. n : u[i] = v[i] BY <1>1, <1>2, <2>1
    <2> HIDE DEF u
    <2>3. u = w BY <1>2, <2>2, SameSeq DEF n
    <2> QED BY <2>3 DEF u
  <1>4. n + 1 > n BY <1>1
  <1>5. Moves(w, r, v, r) BY <1>2, <1>3, <1>4 DEF Moves, n
  <1> QED BY <1>5 DEF v

\* The next message is a read.
LEMMA MessageReadMoves ==
    ASSUME NEW w \in Seq(Bytes), NEW n \in Nat, n < Len(w), NEW r, r = SubSeq(w, 1, n)
    PROVE  Moves(w, r, w, SubSeq(w, 1, n + 1))
  <1>1. Len(w) \in Nat OBVIOUS
  <1>2. Len(r) = n BY <1>1
  <1>3. n + 1 \in (Len(r) + 1) .. Len(w) BY <1>1, <1>2
  <1> QED BY <1>3 DEF Moves

-----------------------------------------------------------------------------
(* The pieces of a link *)

\* The pieces of p, numbered or queued.
Chain(p) == numbered[p] \o eng[p].snd_queue

\* What p wrote, in its pieces, and what its peer has read of it.
Flow(p) ==
    IF StreamMode
    THEN StreamFlow(Chain(p), wrote[p], got[other(p)], taken[other(p)])
    ELSE MessageFlow(Chain(p), wrote[p], got[other(p)], taken[other(p)])

\* The applications make no write that send() takes in part and refuses, and none that it
\* accepts and does not send, an empty message.  The first takes a stream and a write that
\* has too many fragments even after a byte of it has filled the last segment of the queue.
Writable == \A n \in Sizes : IF StreamMode THEN n <= max_frags * mss + 1 ELSE n # 0

\* The types that the proofs below use.
LEMMA FlowTypes ==
    ASSUME TypeOK, NEW p \in Peers
    PROVE  LET q == other(p) IN
           /\ q \in Peers /\ q # p /\ other(q) = p
           /\ IsEngine(eng[p]) /\ IsEngine(eng[q])
           /\ numbered[p] \in Seq(Piece) /\ eng[p].snd_queue \in Seq(Piece)
           /\ Chain(p) \in Seq(Piece) /\ Len(numbered[p]) \in Nat
           /\ wrote[p] \in Seq(Bytes) /\ offered[p] \in Nat
           /\ got[q] \in Seq(Seq(Piece)) /\ taken[q] \in Nat
           /\ eng[q].rcv_queue \in Seq(Piece) /\ Len(eng[q].rcv_queue) \in Nat
  <1>1. other(p) \in Peers /\ other(p) # p /\ other(other(p)) = p BY OtherType
  <1>2. /\ IsEngine(eng[p]) /\ IsEngine(eng[other(p)]) /\ numbered[p] \in Seq(Piece)
        /\ wrote[p] \in Seq(Bytes) /\ offered[p] \in Nat
        /\ got[other(p)] \in Seq(Seq(Piece)) /\ taken[other(p)] \in Nat
    BY <1>1 DEF TypeOK
  <1>3. eng[p].snd_queue \in Seq(Piece) /\ eng[other(p)].rcv_queue \in Seq(Piece) BY <1>2 DEF IsEngine
  <1>4. Chain(p) \in Seq(Piece) BY <1>2, <1>3, ConcatProperties DEF Chain
  <1>5. Len(numbered[p]) \in Nat /\ Len(eng[other(p)].rcv_queue) \in Nat BY <1>2, <1>3
  <1> QED BY <1>1, <1>2, <1>3, <1>4, <1>5

\* The receive queue is the next pieces of the peer.
LEMMA QueueInChain ==
    ASSUME TypeOK, PiecesInOrder, NEW p \in Peers, NEW q, q = other(p), NEW s, s = Chain(p),
           NEW rq, rq = eng[q].rcv_queue, NEW t, t = taken[q]
    PROVE  /\ t <= Len(numbered[p]) /\ t + Len(rq) <= Len(s)
           /\ \A i \in 1 .. Len(rq) : rq[i] = s[t + i]
  <1> DEFINE num == numbered[p]
             sq  == eng[p].snd_queue
             k   == Len(num)
             l   == Len(sq)
             r   == Len(rq)
  <1>1. /\ q \in Peers /\ other(q) = p /\ num \in Seq(Piece) /\ sq \in Seq(Piece) /\ k \in Nat
        /\ t \in Nat /\ r \in Nat
    BY FlowTypes
  <1>2. t + r <= k /\ \A i \in 1 .. r : rq[i] = num[t + i]
    <2>1. q \in Peers /\ other(q) = p BY <1>1
    <2> QED BY <2>1, SMTT(20) DEF PiecesInOrder
  <1>3. s = num \o sq BY DEF Chain
  <1> HIDE DEF num, sq
  <1>4. l \in Nat /\ Len(s) = k + l /\ \A i \in 1 .. k + l : s[i] = IF i <= k THEN num[i] ELSE sq[i - k]
    BY <1>1, <1>3, ConcatProperties
  <1> HIDE DEF k, l, r
  <1>5. t <= k /\ t + r <= k + l BY <1>1, <1>2, <1>4
  <1>6. \A i \in 1 .. r : t + i \in 1 .. k + l /\ t + i <= k BY <1>1, <1>2, <1>4
  <1>7. \A i \in 1 .. r : rq[i] = s[t + i] BY <1>2, <1>4, <1>6
  <1> QED BY <1>4, <1>5, <1>7 DEF r, k, num

\* A flush numbers pieces and keeps their order.
LEMMA FlushKeepsChain ==
    ASSUME NEW e, IsEngine(e), SndIn(e), NEW t \in Words, NEW num \in Seq(Piece)
    PROVE  (num \o SubSeq(e.snd_queue, 1, move_count(e))) \o flush(e, t).eng.snd_queue
             = num \o e.snd_queue
  <1> DEFINE n == move_count(e)
             q == e.snd_queue
             x == flush(e, t).eng.snd_queue
             a == Part(q, 0, n)
             b == Part(q, n, Len(q))
  <1>1. q \in Seq(Piece) /\ Len(q) \in Nat BY DEF IsEngine
  <1>2. n \in Nat /\ n <= Len(q)
    <2>1. n \in 0 .. Len(q) BY MoveCount
    <2> QED BY <1>1, <2>1
  <1>11. flush_head(e, t).snd_queue = SubSeq(q, n + 1, Len(q)) BY HeadWindows
  <1>12. x = flush_head(e, t).snd_queue BY FlushFields
  <1>3. x = SubSeq(q, n + 1, Len(q)) BY <1>11, <1>12
  <1> HIDE DEF n, q, x
  <1>4. 0 \in Nat /\ 0 <= n /\ Len(q) <= Len(q) /\ 0 + 1 = 1 BY <1>1, <1>2
  <1>5. SubSeq(q, n + 1, Len(q)) = b BY <1>1, <1>2, <1>4, SubSeqPart
  <1>6. SubSeq(q, 0 + 1, n) = a BY <1>1, <1>2, <1>4, SubSeqPart
  <1>7. a \o b = q
    <2>1. a \o b = Part(q, 0, Len(q)) BY <1>1, <1>2, <1>4, JoinParts
    <2> QED BY <1>1, <2>1, PartWhole
  <1>8. a \in Seq(Piece) /\ b \in Seq(Piece) BY <1>1, <1>2, <1>4, PartType
  <1>9. SubSeq(q, 1, n) = a /\ x = b BY <1>3, <1>4, <1>5, <1>6
  <1> HIDE DEF a, b
  <1>10. (num \o a) \o b = num \o q BY <1>7, <1>8, JoinPieces
  <1> QED BY <1>9, <1>10 DEF q, n, x

\* Only p's writes change its pieces, and only its peer's reads take them.
LEMMA Quiet ==
    ASSUME TypeOK, WindowInv, [Next]_vars, NEW p \in Peers,
           ~\E size \in Sizes : Send(p, size), ~Recv(other(p))
    PROVE  /\ Chain(p)' = Chain(p) /\ wrote'[p] = wrote[p] /\ offered'[p] = offered[p]
           /\ got'[other(p)] = got[other(p)] /\ taken'[other(p)] = taken[other(p)]
  <1> DEFINE Same == numbered'[p] = numbered[p] /\ eng'[p].snd_queue = eng[p].snd_queue
             Kept == numbered'[p] \o eng'[p].snd_queue = numbered[p] \o eng[p].snd_queue
             Rest == /\ wrote'[p] = wrote[p] /\ offered'[p] = offered[p]
                     /\ got'[other(p)] = got[other(p)] /\ taken'[other(p)] = taken[other(p)]
  <1>1. /\ IsEngine(eng[p]) /\ RcvIn(eng[p]) /\ SndIn(eng[p]) /\ now \in Words
        /\ DOMAIN eng = Peers /\ numbered \in [Peers -> Seq(Piece)] /\ other(p) \in Peers
        /\ DOMAIN wrote = Peers /\ DOMAIN offered = Peers /\ DOMAIN got = Peers /\ DOMAIN taken = Peers
    BY NowType, OtherType DEF TypeOK, WindowInv
  <1>2. Same => Kept OBVIOUS
  <1> HIDE DEF Kept
  <1>3. ASSUME NEW r \in Peers, NEW size \in Sizes, Send(r, size) PROVE Kept /\ Rest
    <2>1. r # p BY <1>3
    <2>2. Same BY <1>1, <1>3, <2>1 DEF Send
    <2>3. Rest BY <1>1, <1>3, <2>1 DEF Send
    <2> QED BY <1>2, <2>2, <2>3
  <1>4. ASSUME NEW r \in Peers, Recv(r) PROVE Kept /\ Rest
    <2>1. r = p /\ r # other(p)
      <3>1. r # other(p) BY <1>4
      <3> QED BY <3>1 DEF Peers, other
    <2>2. /\ eng' = [eng EXCEPT ![p] = recv(eng[p])] /\ numbered' = numbered
          /\ eng[p].rcv_queue # <<>>
      BY <1>4, <2>1 DEF Recv, readable
    <2>3. eng'[p] = recv(eng[p]) BY <1>1, <2>2
    <2>4. recv(eng[p]).snd_queue = eng[p].snd_queue BY <1>1, <2>2, RecvWindows
    <2>5. Rest BY <1>1, <1>4, <2>1 DEF Recv
    <2> QED BY <1>2, <2>2, <2>3, <2>4, <2>5
  <1>5. ASSUME NEW r \in Peers, Input(r) PROVE Kept /\ Rest
    <2>1. PICK d \in net : eng' = [eng EXCEPT ![r] = input(eng[r], d.segs, now)]
      BY <1>5 DEF Input
    <2>2. d.segs \in Seq(WireSeg) /\ numbered' = numbered BY <1>5 DEF TypeOK, Input
    <2>3. Same
      <3>1. CASE r # p BY <1>1, <2>1, <2>2, <3>1
      <3>2. CASE r = p
        <4>1. eng'[p] = input(eng[p], d.segs, now) BY <1>1, <2>1, <3>2
        <4>2. input(eng[p], d.segs, now).snd_queue = eng[p].snd_queue BY <1>1, <2>2, InputWindows
        <4> QED BY <2>2, <4>1, <4>2
      <3> QED BY <3>1, <3>2
    <2>4. Rest BY <1>5 DEF Input
    <2> QED BY <1>2, <2>3, <2>4
  <1>6. ASSUME NEW r \in Peers, Flush(r) \/ FlushLost(r) \/ FlushIgnored(r) PROVE Kept /\ Rest
    <2>1. /\ eng' = [eng EXCEPT ![r] = flush(eng[r], now).eng]
          /\ numbered' = [numbered EXCEPT ![r] =
                numbered[r] \o SubSeq(eng[r].snd_queue, 1, move_count(eng[r]))]
      BY <1>6 DEF Flush, FlushLost, FlushIgnored, FlushEngine
    <2>2. Rest BY <1>6 DEF Flush, FlushLost, FlushIgnored
    <2>3. CASE r # p
      <3>1. Same BY <1>1, <2>1, <2>3
      <3> QED BY <1>2, <2>2, <3>1
    <2>4. CASE r = p
      <3>1. /\ eng'[p] = flush(eng[p], now).eng
            /\ numbered'[p] = numbered[p] \o SubSeq(eng[p].snd_queue, 1, move_count(eng[p]))
        BY <1>1, <2>1, <2>4
      <3>2. (numbered[p] \o SubSeq(eng[p].snd_queue, 1, move_count(eng[p]))) \o flush(eng[p], now).eng.snd_queue
              = numbered[p] \o eng[p].snd_queue
        BY <1>1, FlushKeepsChain
      <3> QED BY <2>2, <3>1, <3>2 DEF Kept
    <2> QED BY <2>3, <2>4
  <1>7. ASSUME Tick PROVE Kept /\ Rest BY <1>2, <1>7 DEF Tick
  <1>8. ASSUME UNCHANGED vars PROVE Kept /\ Rest BY <1>2, <1>8 DEF vars
  <1>9. Kept /\ Rest
    <2> HIDE DEF Rest
    <2> QED BY <1>3, <1>4, <1>5, <1>6, <1>7, <1>8, PeerAssumption DEF Next, Peers
  <1> QED BY <1>9 DEF Kept, Chain

\* The messages or bytes read, from the pieces read.
Reads(g) == Items(Payloads(g))

\* A write in message mode.
LEMMA WriteMessage ==
    ASSUME ~StreamMode, Writable, TypeOK, NEW p \in Peers, Flow(p), NEW size \in Sizes, Send(p, size)
    PROVE  Flow(p)' /\ Moves(Items(wrote[p]), Reads(got[other(p)]), Items(wrote'[p]), Reads(got'[other(p)]))
  <1> DEFINE q == other(p)
             e == eng[p]
             s == Chain(p)
             w == wrote[p]
             g == got[q]
             t == taken[q]
             d == [i \in 1 .. size |-> offered[p] + i]
             x == send(e, d)
             num == numbered[p]
             sq == e.snd_queue
             y == x.eng.snd_queue
  <1>1. /\ q \in Peers /\ IsEngine(e) /\ num \in Seq(Piece) /\ sq \in Seq(Piece) /\ s \in Seq(Piece)
        /\ w \in Seq(Bytes) /\ offered[p] \in Nat /\ g \in Seq(Seq(Piece))
    BY FlowTypes
  <1>2. size \in Nat \ {0} BY SpaceAssumption DEF Writable
  <1>3. d \in Bytes /\ d # <<>>
    <2>1. DOMAIN d = 1 .. size /\ \A i \in 1 .. size : d[i] \in Nat BY <1>1, <1>2
    <2>2. d \in Seq(Nat) /\ Len(d) = size BY <1>2, <2>1
    <2> QED BY <1>2, <2>2 DEF Bytes
  <1>4. MessageFlow(s, w, g, t) BY DEF Flow
  <1>5. /\ eng'[p] = x.eng /\ numbered' = numbered /\ got' = got /\ taken' = taken
        /\ wrote'[p] = IF x.ok THEN Append(w, d) ELSE w
    <2>1. DOMAIN eng = Peers /\ DOMAIN wrote = Peers BY DEF TypeOK
    <2> HIDE DEF d
    <2> QED BY <2>1 DEF Send, d
  <1>6. \/ x.ok /\ y = sq \o fragments(d)
        \/ ~x.ok /\ y = sq
    <2> HIDE DEF d
    <2> QED BY <1>1, <1>3, MessageSend
  <1> HIDE DEF d, x
  <1>7. Chain(p)' = num \o y BY <1>5 DEF Chain
  <1>8. s = num \o sq BY DEF Chain
  <1>9. Flow(p)' <=> MessageFlow(num \o y, wrote'[p], g, t) BY <1>5, <1>7 DEF Flow
  <1>10. Items(w) = w /\ Items(wrote'[p]) = wrote'[p] BY DEF Items
  <1> HIDE DEF s, w, g, t, num, sq, y
  <1>11. CASE x.ok
    <2>1. fragments(d) \in Seq(Piece) BY <1>3, FragmentsType
    <2>2. num \o y = s \o fragments(d)
      <3>1. num \in Seq(Piece) /\ sq \in Seq(Piece) BY <1>1
      <3>2. (num \o sq) \o fragments(d) = num \o (sq \o fragments(d)) BY <2>1, <3>1, JoinPieces, Zenon
      <3> QED BY <1>6, <1>8, <1>11, <3>2
    <2>3. wrote'[p] = Append(w, d) BY <1>5, <1>11
    <2>4. MessageFlow(s \o fragments(d), Append(w, d), g, t) BY <1>1, <1>3, <1>4, MessageWrite
    <2>5. Moves(w, Reads(g), Append(w, d), Reads(g)) BY <1>1, <1>3, MessageWriteMoves
    <2> QED BY <1>5, <1>9, <1>10, <2>2, <2>3, <2>4, <2>5 DEF g, w
  <1>12. CASE ~x.ok
    <2>1. num \o y = s /\ wrote'[p] = w BY <1>5, <1>6, <1>8, <1>12
    <2>2. Moves(w, Reads(g), w, Reads(g)) BY DEF Moves
    <2> QED BY <1>4, <1>5, <1>9, <1>10, <2>1, <2>2 DEF g, w
  <1> QED BY <1>11, <1>12

\* A write in stream mode.
LEMMA WriteStream ==
    ASSUME StreamMode, Writable, TypeOK, PiecesInOrder, NEW p \in Peers, Flow(p),
           NEW size \in Sizes, Send(p, size)
    PROVE  Flow(p)' /\ Moves(Items(wrote[p]), Reads(got[other(p)]), Items(wrote'[p]), Reads(got'[other(p)]))
  <1> DEFINE q == other(p)
             e == eng[p]
             s == Chain(p)
             w == wrote[p]
             g == got[q]
             t == taken[q]
             d == [i \in 1 .. size |-> offered[p] + i]
             x == send(e, d)
             num == numbered[p]
             sq == e.snd_queue
             y == x.eng.snd_queue
  <1>1. /\ q \in Peers /\ IsEngine(e) /\ num \in Seq(Piece) /\ sq \in Seq(Piece) /\ s \in Seq(Piece)
        /\ w \in Seq(Bytes) /\ offered[p] \in Nat /\ g \in Seq(Seq(Piece)) /\ t \in Nat
    BY FlowTypes
  <1>2. size \in Nat /\ size <= max_frags * mss + 1 BY SpaceAssumption DEF Writable
  <1>3. d \in Bytes /\ Len(d) <= max_frags * mss + 1
    <2>1. DOMAIN d = 1 .. size /\ \A i \in 1 .. size : d[i] \in Nat BY <1>1, <1>2
    <2>2. d \in Seq(Nat) /\ Len(d) = size BY <1>2, <2>1
    <2> QED BY <1>2, <2>2 DEF Bytes
  <1>4. StreamFlow(s, w, g, t) BY DEF Flow
  <1>5. /\ eng'[p] = x.eng /\ numbered' = numbered /\ got' = got /\ taken' = taken
        /\ wrote'[p] = IF x.ok THEN Append(w, d) ELSE w
    <2>1. DOMAIN eng = Peers /\ DOMAIN wrote = Peers BY DEF TypeOK
    <2> HIDE DEF d
    <2> QED BY <2>1 DEF Send, d
  <1>6. t <= Len(num) BY QueueInChain
  <1>7. Chain(p)' = num \o y BY <1>5 DEF Chain
  <1>8. s = num \o sq BY DEF Chain
  <1>9. Flow(p)' <=> StreamFlow(num \o y, wrote'[p], g, t) BY <1>5, <1>7 DEF Flow
  <1>10. Items(w) = FlattenSeq(w) /\ Items(wrote'[p]) = FlattenSeq(wrote'[p]) BY DEF Items
  <1>11. x = send(e, d) /\ sq = e.snd_queue /\ y = x.eng.snd_queue OBVIOUS
  <1> HIDE DEF d, x, s, w, g, t, num, sq, y, e
  <1>12. CASE x.ok
    <2>1. StreamFlow(num \o sq, w, g, t) BY <1>4, <1>8
    <2>2. y = send(e, d).eng.snd_queue /\ send(e, d).ok BY <1>11, <1>12
    <2>3. StreamFlow(num \o y, Append(w, d), g, t)
      BY <1>1, <1>3, <1>6, <1>11, <2>1, <2>2, StreamWrite
    <2>4. wrote'[p] = Append(w, d) BY <1>5, <1>12
    <2>5. PICK W \in Bytes : \E b : CutOf(w, W, b) BY <1>4 DEF StreamFlow
    <2>6. FlattenSeq(w) = W
      <3>1. PICK b : CutOf(w, W, b) BY <2>5
      <3>2. W \in Seq(Nat) /\ w \in Seq(Seq(Nat)) BY <1>1 DEF Bytes
      <3> QED BY <3>1, <3>2, FlattenCut
    <2>7. FlattenSeq(Append(w, d)) = W \o d
      <3>1. PICK b : CutOf(w, W, b) BY <2>5
      <3>2. PICK c : CutOf(Append(w, d), W \o d, c) BY <1>1, <1>3, <3>1, CutWrite
      <3> DEFINE Y == W \o d
                 v == Append(w, d)
      <3>3. Y \in Seq(Nat) /\ v \in Seq(Seq(Nat)) BY <1>1, <1>3 DEF Bytes
      <3>4. CutOf(v, Y, c) BY <3>2
      <3> HIDE DEF Y, v
      <3>5. FlattenSeq(v) = Y BY <3>3, <3>4, FlattenCut
      <3> QED BY <3>5 DEF Y, v
    <2>8. Moves(W, Reads(g), W \o d, Reads(g)) BY <1>3, StreamWriteMoves
    <2> QED BY <1>5, <1>9, <1>10, <2>3, <2>4, <2>6, <2>7, <2>8 DEF g, w
  <1>13. CASE ~x.ok
    <2>1. y = sq BY <1>1, <1>3, <1>11, <1>13, RefusedWhole
    <2>2. num \o y = s /\ wrote'[p] = w BY <1>5, <1>8, <1>13, <2>1
    <2>3. Moves(FlattenSeq(w), Reads(g), FlattenSeq(w), Reads(g)) BY DEF Moves
    <2> QED BY <1>4, <1>5, <1>9, <1>10, <2>2, <2>3 DEF g, w
  <1> QED BY <1>12, <1>13

\* A read in message mode.
LEMMA ReadMessage ==
    ASSUME ~StreamMode, TypeOK, PiecesInOrder, NEW p \in Peers, NEW q, q = other(p), Flow(p),
           Recv(q), Chain(p)' = Chain(p), wrote'[p] = wrote[p]
    PROVE  Flow(p)' /\ Moves(Items(wrote[p]), Reads(got[q]), Items(wrote'[p]), Reads(got'[q]))
  <1> DEFINE e  == eng[q]
             s  == Chain(p)
             w  == wrote[p]
             g  == got[q]
             t  == taken[q]
             rq == e.rcv_queue
             m  == message_span(rq)
             h  == Append(g, SubSeq(rq, 1, m))
             n  == Len(g)
  <1>1. /\ q \in Peers /\ s \in Seq(Piece) /\ w \in Seq(Bytes) /\ g \in Seq(Seq(Piece)) /\ t \in Nat
        /\ rq \in Seq(Piece) /\ Len(rq) \in Nat
    BY FlowTypes
  <1>2. t + Len(rq) <= Len(s) /\ \A i \in 1 .. Len(rq) : rq[i] = s[t + i] BY QueueInChain
  <1>3. rq # <<>> /\ (Head(rq).frg = 0 \/ Len(rq) >= Head(rq).frg + 1) BY DEF Recv, readable
  <1>4. got'[q] = h /\ taken'[q] = t + m
    <2>1. DOMAIN got = Peers /\ DOMAIN taken = Peers BY DEF TypeOK
    <2> QED BY <1>1, <2>1 DEF Recv, message
  <1>5. MessageFlow(s, w, g, t) BY DEF Flow
  <1>6. Flow(p)' <=> MessageFlow(s, w, h, t + m) BY <1>4 DEF Flow
  <1>7. Items(w) = w /\ Reads(g) = Payloads(g) /\ Reads(h) = Payloads(h)
    BY DEF Items, Reads
  <1> HIDE DEF s, w, g, t, rq
  <1>8. Len(rq) >= rq[1].frg + 1
    <2>1. Len(rq) >= 1 /\ 1 \in 1 .. Len(rq) BY <1>1, <1>3, EmptySeq
    <2>2. Head(rq) = rq[1] BY <1>1, <1>3
    <2> QED BY <1>3, <2>1, <2>2
  <1>9. Len(g) < Len(w) /\ MessageFlow(s, w, h, t + m) BY <1>1, <1>2, <1>3, <1>5, <1>8, MessageRead
  <1>10. m \in 1 .. Len(rq) BY <1>1, <1>3, MessageSpan
  <1>11. h \in Seq(Seq(Piece)) /\ Len(h) = n + 1
    <2>1. SubSeq(rq, 1, m) \in Seq(Piece) BY <1>1, <1>10
    <2> HIDE DEF m
    <2> QED BY <1>1, <2>1, AppendProperties
  <1>12. Reads(g) = SubSeq(w, 1, n) BY <1>1, <1>5, <1>7, MessageReads
  <1>13. Reads(h) = SubSeq(w, 1, n + 1)
    <2> DEFINE x == t + m
    <2>1. MessageFlow(s, w, h, x) BY <1>9
    <2> HIDE DEF h, x
    <2>2. Payloads(h) = SubSeq(w, 1, Len(h)) BY <1>1, <1>11, <2>1, MessageReads
    <2> QED BY <1>7, <1>11, <2>2
  <1>14. Moves(w, Reads(g), w, Reads(h))
    <2>1. n \in Nat /\ n < Len(w) BY <1>1, <1>9
    <2> HIDE DEF n, h
    <2>2. Moves(w, Reads(g), w, SubSeq(w, 1, n + 1)) BY <1>1, <1>12, <2>1, MessageReadMoves
    <2> QED BY <1>13, <2>2
  <1> QED BY <1>4, <1>6, <1>7, <1>9, <1>14 DEF w, g

\* A read in stream mode.
LEMMA ReadStream ==
    ASSUME StreamMode, TypeOK, PiecesInOrder, NEW p \in Peers, NEW q, q = other(p), Flow(p),
           Recv(q), Chain(p)' = Chain(p), wrote'[p] = wrote[p]
    PROVE  Flow(p)' /\ Moves(Items(wrote[p]), Reads(got[q]), Items(wrote'[p]), Reads(got'[q]))
  <1> DEFINE e  == eng[q]
             s  == Chain(p)
             w  == wrote[p]
             g  == got[q]
             t  == taken[q]
             rq == e.rcv_queue
             m  == message_span(rq)
             h  == Append(g, SubSeq(rq, 1, m))
             n  == Len(s)
  <1>1. /\ q \in Peers /\ s \in Seq(Piece) /\ w \in Seq(Bytes) /\ g \in Seq(Seq(Piece)) /\ t \in Nat
        /\ rq \in Seq(Piece) /\ Len(rq) \in Nat
    BY FlowTypes
  <1>2. t + Len(rq) <= Len(s) /\ \A i \in 1 .. Len(rq) : rq[i] = s[t + i] BY QueueInChain
  <1>3. rq # <<>> /\ \E i \in 1 .. m : rq[i].data # <<>> BY DEF Recv, readable
  <1>4. got'[q] = h /\ taken'[q] = t + m
    <2>1. DOMAIN got = Peers /\ DOMAIN taken = Peers BY DEF TypeOK
    <2> QED BY <1>1, <2>1 DEF Recv, message
  <1>5. StreamFlow(s, w, g, t) BY DEF Flow
  <1>6. Flow(p)' <=> StreamFlow(s, w, h, t + m) BY <1>4 DEF Flow
  <1>7. Items(w) = FlattenSeq(w) /\ Reads(g) = FlattenSeq(Payloads(g))
        /\ Reads(h) = FlattenSeq(Payloads(h))
    BY DEF Items, Reads
  <1> HIDE DEF s, w, g, t, rq
  <1>8. /\ m = 1 /\ t + 1 \in 1 .. n /\ rq[1] = s[t + 1]
        /\ StreamFlow(s, w, Append(g, SubSeq(rq, 1, 1)), t + 1)
    BY <1>1, <1>2, <1>3, <1>5, StreamRead
  <1>9. s[t + 1].data # <<>>
    <2>1. PICK i \in 1 .. m : rq[i].data # <<>> BY <1>3
    <2>2. i = 1 BY <1>8, <2>1
    <2> QED BY <1>8, <2>1, <2>2
  <1> DEFINE y == t + 1
             u == Append(g, SubSeq(rq, 1, 1))
  <1>10. y \in Nat /\ y \in 1 .. n /\ y - 1 = t /\ StreamFlow(s, w, u, y) /\ h = u BY <1>1, <1>8
  <1>11. u \in Seq(Seq(Piece))
    <2>1. Len(rq) >= 1 BY <1>1, <1>3, EmptySeq
    <2>2. SubSeq(rq, 1, 1) \in Seq(Piece) BY <1>1, <2>1
    <2> QED BY <1>1, <2>2, AppendProperties
  <1>12. PICK W \in Bytes : (\E c : CutOf(Data(s), W, c)) /\ (\E b : CutOf(w, W, b))
    BY <1>5 DEF StreamFlow
  <1>13. PICK c : CutOf(Data(s), W, c) BY <1>12
  <1>14. FlattenSeq(w) = W
    <2>1. PICK b : CutOf(w, W, b) BY <1>12
    <2>2. W \in Seq(Nat) /\ w \in Seq(Seq(Nat)) BY <1>1 DEF Bytes
    <2> QED BY <2>1, <2>2, FlattenCut
  <1>15. c[t] \in Nat /\ Reads(g) = Part(W, 0, c[t])
    <2>1. c[t] \in Nat /\ c[t] <= Len(W) /\ FirstBytes(g, W, c[t]) BY <1>1, <1>5, <1>13, StreamReads
    <2> QED BY <1>7, <2>1 DEF FirstBytes
  <1> HIDE DEF y, u, h
  <1>16. c[y] \in Nat /\ c[y] <= Len(W) /\ Reads(h) = Part(W, 0, c[y])
    <2>1. c[y] \in Nat /\ c[y] <= Len(W) /\ FirstBytes(u, W, c[y])
      BY <1>1, <1>10, <1>11, <1>13, StreamReads
    <2> QED BY <1>7, <1>10, <2>1 DEF FirstBytes
  <1>17. c[t] < c[y]
    <2>1. Len(Data(s)) = n /\ \A j \in 1 .. n : Data(s)[j] = s[j].data BY <1>1, DataType
    <2>2. c[y - 1] <= c[y] /\ Data(s)[y] = Part(W, c[y - 1], c[y]) BY <1>10, <1>13, <2>1 DEF CutOf
    <2>3. Part(W, c[t], c[y]) # <<>> BY <1>9, <1>10, <2>1, <2>2 DEF y
    <2>4. c[t] <= c[y] /\ W \in Seq(Nat) BY <1>10, <2>2 DEF Bytes
    <2>5. Len(Part(W, c[t], c[y])) = c[y] - c[t] /\ Part(W, c[t], c[y]) \in Seq(Nat)
      <3> DEFINE a == c[t]
                 b == c[y]
      <3>1. W \in Seq(Nat) /\ a \in Nat /\ b \in Nat /\ a <= b /\ b <= Len(W) BY <1>15, <1>16, <2>4
      <3> HIDE DEF a, b
      <3>2. Part(W, a, b) \in Seq(Nat) /\ Len(Part(W, a, b)) = b - a BY <3>1, PartType
      <3> QED BY <3>2 DEF a, b
    <2>6. c[y] - c[t] # 0
      <3> DEFINE z == Part(W, c[t], c[y])
      <3>1. z \in Seq(Nat) /\ z # <<>> BY <2>3, <2>5
      <3> HIDE DEF z
      <3>2. Len(z) # 0 BY <3>1, EmptySeq
      <3> QED BY <2>5, <3>2 DEF z
    <2> QED BY <1>15, <1>16, <2>4, <2>6
  <1>18. Moves(W, Part(W, 0, c[t]), W, Part(W, 0, c[y]))
    BY <1>12, <1>15, <1>16, <1>17, StreamReadMoves
  <1>19. Moves(Items(w), Reads(g), Items(w), Reads(h)) BY <1>7, <1>14, <1>15, <1>16, <1>18
  <1>20. StreamFlow(s, w, h, t + m) BY <1>8, <1>10 DEF y
  <1> QED BY <1>4, <1>6, <1>19, <1>20 DEF w, g

-----------------------------------------------------------------------------
(* The link is a reliable channel *)

\* Every step keeps the flow and is a step of the channel.
LEMMA StepFlows ==
    ASSUME Writable, TypeOK, WindowInv, PiecesInOrder, [Next]_vars, NEW p \in Peers, NEW q, q = other(p),
           Flow(p)
    PROVE  Flow(p)' /\ Moves(Items(wrote[p]), Reads(got[q]), Items(wrote'[p]), Reads(got'[q]))
  <1>1. CASE \E size \in Sizes : Send(p, size)
    <2>1. PICK size \in Sizes : Send(p, size) BY <1>1
    <2>2. CASE StreamMode BY <2>1, <2>2, WriteStream
    <2>3. CASE ~StreamMode BY <2>1, <2>3, WriteMessage
    <2> QED BY <2>2, <2>3
  <1>2. CASE Recv(q)
    <2>1. q \in Peers /\ q # p BY OtherType
    <2>2. eng'[p] = eng[p] /\ numbered' = numbered /\ wrote' = wrote /\ offered' = offered
      BY <1>2, <2>1 DEF Recv, TypeOK
    <2>3. Chain(p)' = Chain(p) BY <2>2 DEF Chain
    <2>4. CASE StreamMode BY <1>2, <2>2, <2>3, <2>4, ReadStream
    <2>5. CASE ~StreamMode BY <1>2, <2>2, <2>3, <2>5, ReadMessage
    <2> QED BY <2>4, <2>5
  <1>3. CASE (~\E size \in Sizes : Send(p, size)) /\ ~Recv(q)
    <2>1. /\ Chain(p)' = Chain(p) /\ wrote'[p] = wrote[p] /\ offered'[p] = offered[p]
          /\ got'[q] = got[q] /\ taken'[q] = taken[q]
      BY <1>3, Quiet
    <2>2. Flow(p)' = Flow(p) BY <2>1 DEF Flow
    <2> QED BY <2>1, <2>2 DEF Moves
  <1> QED BY <1>1, <1>2, <1>3

\* At first nothing is written, queued or read.
LEMMA InitFlows == ASSUME Init, NEW p \in Peers PROVE Flow(p)
  <1> DEFINE m == [i \in 0 .. 0 |-> 0]
  <1>1. /\ Chain(p) = <<>> \o <<>> /\ wrote[p] = <<>> /\ offered[p] = 0
        /\ got[other(p)] = <<>> /\ taken[other(p)] = 0
    BY OtherType DEF Init, Chain, new
  <1>2. <<>> \o <<>> = <<>> OBVIOUS
  <1>3. Chain(p) = <<>> BY <1>1, <1>2
  <1>4. Len(<<>>) = 0 /\ 1 .. 0 = {} OBVIOUS
  <1>5. m \in [0 .. 0 -> Nat] /\ m[0] = 0 OBVIOUS
  <1>6. Carries(<<>>, m, <<>>) BY <1>4, <1>5 DEF Carries
  <1>7. MessageFlow(<<>>, <<>>, <<>>, 0) BY <1>4, <1>5, <1>6 DEF MessageFlow
  <1>8. CutOf(<<>>, <<>>, m) /\ <<>> \in Bytes BY <1>4, <1>5 DEF CutOf, Bytes
  <1>9. Data(<<>>) = <<>>
    <2>1. <<>> \in Seq(Piece) OBVIOUS
    <2>2. Data(<<>>) \in Seq(Bytes) /\ Len(Data(<<>>)) = 0 BY <1>4, <2>1, DataType
    <2> QED BY <2>2
  <1>10. StreamFlow(<<>>, <<>>, <<>>, 0) BY <1>4, <1>8, <1>9 DEF StreamFlow
  <1> QED BY <1>1, <1>3, <1>7, <1>10 DEF Flow

\* Nothing written or read is nothing.
LEMMA NoItems == Items(<<>>) = <<>> /\ Reads(<<>>) = <<>>
  <1>1. Len(<<>>) = 0 /\ 1 .. 0 = {} OBVIOUS
  <1>2. FlattenSeq(<<>>) = <<>> BY <1>1 DEF FlattenSeq
  <1>3. Items(<<>>) = <<>> BY <1>2 DEF Items
  <1>4. Payloads(<<>>) = <<>>
    <2>1. Payloads(<<>>) = [i \in 1 .. 0 |-> Payload(<<>>[i])] BY <1>1 DEF Payloads
    <2> QED BY <2>1
  <1> QED BY <1>3, <1>4 DEF Reads

\* One direction of the link, for both peers: the flow is kept for ever.
LEMMA FlowsHold == ASSUME Writable PROVE Spec => [](\A p \in Peers : Flow(p))
  <1>1. Init => \A p \in Peers : Flow(p) BY InitFlows
  <1>2. TypeOK /\ WindowInv /\ PiecesInOrder /\ (\A p \in Peers : Flow(p)) /\ [Next]_vars
          => (\A p \in Peers : Flow(p))'
    <2> SUFFICES ASSUME TypeOK, WindowInv, PiecesInOrder, \A p \in Peers : Flow(p), [Next]_vars,
                        NEW p \in Peers
                 PROVE  Flow(p)'
      OBVIOUS
    <2> QED BY StepFlows
  <1> QED BY <1>1, <1>2, TypeCorrect, WindowsHold, InOrder, PTL DEF Spec

\* What B's application reads is what A's application wrote, in order and once, whatever
\* the network loses, repeats or reorders, for every window, mtu and mode: send(), the
\* whole exchange and recv() implement a reliable channel.  The writes are such as send()
\* takes whole or not at all.
THEOREM AtoBDelivered == ASSUME Writable PROVE Spec => AtoBReliable
  <1>1. A \in Peers /\ B = other(A) BY DEF Peers, other
  <1>2. Init => AtoB!Init
    <2> SUFFICES ASSUME Init PROVE AtoB!Init OBVIOUS
    <2>1. wrote[A] = <<>> /\ got[B] = <<>> BY DEF Init, Peers
    <2>2. ReadItems(B) = Reads(got[B]) BY DEF ReadItems, Reads, Payloads
    <2> QED BY <2>1, <2>2, NoItems DEF AtoB!Init
  <1>3. TypeOK /\ WindowInv /\ PiecesInOrder /\ (\A p \in Peers : Flow(p)) /\ [Next]_vars
          => [AtoB!Next]_(AtoB!vars)
    <2> SUFFICES ASSUME TypeOK, WindowInv, PiecesInOrder, \A p \in Peers : Flow(p), [Next]_vars
                 PROVE  [AtoB!Next]_(AtoB!vars)
      OBVIOUS
    <2>1. Moves(Items(wrote[A]), Reads(got[B]), Items(wrote'[A]), Reads(got'[B])) BY <1>1, StepFlows
    <2>2. ReadItems(B) = Reads(got[B]) /\ ReadItems(B)' = Reads(got'[B])
      BY DEF ReadItems, Reads, Payloads
    <2>3. Items(wrote[A])' = Items(wrote'[A]) OBVIOUS
    <2> QED BY <2>1, <2>2, <2>3 DEF Moves, AtoB!Next, AtoB!Write, AtoB!Read, AtoB!vars
  <1> QED BY <1>2, <1>3, FlowsHold, TypeCorrect, WindowsHold, InOrder, PTL DEF Spec, AtoBReliable, AtoB!Spec

\* The same from B to A: the two directions share engines, datagrams and timers, and
\* neither disturbs the other.
THEOREM BtoADelivered == ASSUME Writable PROVE Spec => BtoAReliable
  <1>1. B \in Peers /\ A = other(B) BY PeerAssumption DEF Peers, other
  <1>2. Init => BtoA!Init
    <2> SUFFICES ASSUME Init PROVE BtoA!Init OBVIOUS
    <2>1. wrote[B] = <<>> /\ got[A] = <<>> BY DEF Init, Peers
    <2>2. ReadItems(A) = Reads(got[A]) BY DEF ReadItems, Reads, Payloads
    <2> QED BY <2>1, <2>2, NoItems DEF BtoA!Init
  <1>3. TypeOK /\ WindowInv /\ PiecesInOrder /\ (\A p \in Peers : Flow(p)) /\ [Next]_vars
          => [BtoA!Next]_(BtoA!vars)
    <2> SUFFICES ASSUME TypeOK, WindowInv, PiecesInOrder, \A p \in Peers : Flow(p), [Next]_vars
                 PROVE  [BtoA!Next]_(BtoA!vars)
      OBVIOUS
    <2>1. Moves(Items(wrote[B]), Reads(got[A]), Items(wrote'[B]), Reads(got'[A])) BY <1>1, StepFlows
    <2>2. ReadItems(A) = Reads(got[A]) /\ ReadItems(A)' = Reads(got'[A])
      BY DEF ReadItems, Reads, Payloads
    <2>3. Items(wrote[B])' = Items(wrote'[B]) OBVIOUS
    <2> QED BY <2>1, <2>2, <2>3 DEF Moves, BtoA!Next, BtoA!Write, BtoA!Read, BtoA!vars
  <1> QED BY <1>2, <1>3, FlowsHold, TypeCorrect, WindowsHold, InOrder, PTL DEF Spec, BtoAReliable, BtoA!Spec

=============================================================================
