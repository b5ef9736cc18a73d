--------------------------- MODULE KcpSafetyProofs ---------------------------
(***************************************************************************)
(* Nothing is lost, repeated or reordered between two engines: SafetyInv   *)
(* is an invariant of KcpLink for every window, mtu, word size, number of  *)
(* segments and network.  The two halves of an engine are followed apart:  *)
(* what it receives (RcvSide) and what it sends (SndSide).                 *)
(***************************************************************************)
EXTENDS KcpLinkProofs

-----------------------------------------------------------------------------
(* Positions in a stream *)

\* Sequence numbers and positions correspond, and adding goes through.
LEMMA Positions ==
    /\ \A i \in Words : WrapAdd(Isn, i) \in Words /\ index(WrapAdd(Isn, i)) = i
    /\ \A sn \in Words : index(sn) \in Words /\ WrapAdd(Isn, index(sn)) = sn
    /\ \A i, j \in Nat : i + j < Word => WrapAdd(WrapAdd(Isn, i), j) = WrapAdd(Isn, i + j)
  <1>1. Isn \in Words BY SpaceAssumption
  <1>2. \A i \in Words : WrapAdd(Isn, i) \in Words /\ index(WrapAdd(Isn, i)) = i
    BY <1>1, HalfAssumption DEF index, WrapAdd, WrapSub, Words, Word
  <1>3. \A sn \in Words : index(sn) \in Words /\ WrapAdd(Isn, index(sn)) = sn
    BY <1>1, HalfAssumption DEF index, WrapAdd, WrapSub, Words, Word
  <1>4. \A i, j \in Nat : i + j < Word => WrapAdd(WrapAdd(Isn, i), j) = WrapAdd(Isn, i + j)
    BY <1>1, HalfAssumption DEF WrapAdd, Words, Word
  <1> QED BY <1>2, <1>3, <1>4

\* Positions are naturals.
LEMMA IndexNat == \A sn \in Words : index(sn) \in Nat
  <1>1. Words \subseteq Nat BY HalfAssumption DEF Words, Word
  <1> QED BY <1>1, Positions

\* Below half the number space the wrapping comparison orders positions.
LEMMA BeforeIsOrder ==
    ASSUME NEW a \in Words, NEW b \in Words, index(a) < Half, index(b) < Half
    PROVE  seq_before(a, b) <=> index(a) < index(b)
  BY SpaceAssumption, SeqBeforeIsOrder DEF index

-----------------------------------------------------------------------------
(* The receiving half *)

\* e, whose application has taken base pieces, has position i of the stream.
Has(e, base, i) ==
    i < base + Len(e.rcv_queue) \/ WrapAdd(Isn, i) \in DOMAIN e.rcv_buf

\* e receives the stream rs: its queue continues it at base, its buffer matches
\* it, it owes ACKs for what it has; it has all of G and at least floor pieces.
RcvSide(e, base, rs, G, floor) ==
    /\ e.rcv_nxt = WrapAdd(Isn, base + Len(e.rcv_queue))
    /\ base + Len(e.rcv_queue) <= Len(rs)
    /\ \A i \in 1 .. Len(e.rcv_queue) : e.rcv_queue[i] = rs[base + i]
    /\ \A sn \in DOMAIN e.rcv_buf : index(sn) < Len(rs) /\ e.rcv_buf[sn] = rs[index(sn) + 1]
    /\ \A i \in 1 .. Len(e.ack_list) :
          index(e.ack_list[i].sn) < Len(rs) /\ Has(e, base, index(e.ack_list[i].sn))
    /\ \A i \in G : Has(e, base, i)
    /\ floor <= base + Len(e.rcv_queue)

Stream == {s \in Seq(Piece) : Len(s) <= MaxSeg}

\* The receiving half depends on four fields.
LEMMA RcvFrame ==
    ASSUME NEW e, NEW x, NEW base, NEW rs, NEW G, NEW c, RcvSide(e, base, rs, G, c),
           x.rcv_nxt = e.rcv_nxt, x.rcv_queue = e.rcv_queue, x.rcv_buf = e.rcv_buf,
           x.ack_list = e.ack_list
    PROVE  RcvSide(x, base, rs, G, c)
  BY DEF RcvSide, Has

\* move_to_recv_queue carries the stream on: what it moves is the next run of
\* pieces, and nothing held gets lost.
LEMMA MoveRcv ==
    ASSUME NEW e, IsEngine(e), NEW base \in Nat, NEW rs \in Stream, NEW G \in SUBSET Words,
           NEW c \in Nat, RcvSide(e, base, rs, G, c)
    PROVE  RcvSide(move_to_recv_queue(e), base, rs, G, c)
  <1> DEFINE n     == run_length(e)
             q     == e.rcv_queue
             top   == base + Len(q)
             moved == {WrapAdd(e.rcv_nxt, i) : i \in 0 .. (n - 1)}
             tail  == [i \in 1 .. n |-> e.rcv_buf[WrapAdd(e.rcv_nxt, i - 1)]]
             x     == move_to_recv_queue(e)
  <1>1. q \in Seq(Piece) /\ SeqNumMap(e.rcv_buf, Piece) /\ e.rcv_nxt = WrapAdd(Isn, top)
    BY DEF IsEngine, RcvSide
  <1>2. n \in Nat /\ n <= RcvWnd
        /\ \A i \in 0 .. (n - 1) : WrapAdd(e.rcv_nxt, i) \in DOMAIN e.rcv_buf
    BY RunLength, <1>1, WindowAssumption
  <1>3. top \in Nat /\ Len(rs) \in Nat /\ top <= Len(rs) /\ Len(rs) <= MaxSeg
        /\ Len(q) \in Nat
    BY <1>1 DEF RcvSide, Stream
  <1>4. Len(rs) + n < Word /\ Len(rs) < Word /\ Word \in Nat
    BY <1>2, <1>3, SpaceAssumption, WindowAssumption, HalfAssumption DEF Word
  <1>5. /\ x.rcv_queue = q \o tail
        /\ x.rcv_buf = Without(e.rcv_buf, moved)
        /\ x.rcv_nxt = WrapAdd(e.rcv_nxt, n)
        /\ x.ack_list = e.ack_list
    BY DEF move_to_recv_queue, IsEngine, EngineFields
  <1> HIDE DEF x, n
  <1>6. ASSUME NEW i \in 0 .. (n - 1)
        PROVE  /\ WrapAdd(e.rcv_nxt, i) = WrapAdd(Isn, top + i)
               /\ index(WrapAdd(e.rcv_nxt, i)) = top + i
               /\ top + i < Len(rs)
               /\ e.rcv_buf[WrapAdd(e.rcv_nxt, i)] = rs[top + i + 1]
    <2>1. i \in Nat /\ top + i < Word BY <1>2, <1>3, <1>4
    <2>2. top + i \in Words BY <2>1, <1>3, HalfAssumption DEF Words, Word
    <2>3. WrapAdd(e.rcv_nxt, i) = WrapAdd(Isn, top + i) BY <1>1, <1>3, <2>1, Positions
    <2>4. index(WrapAdd(e.rcv_nxt, i)) = top + i BY <2>2, <2>3, Positions
    <2>5. WrapAdd(e.rcv_nxt, i) \in DOMAIN e.rcv_buf BY <1>2
    <2> QED BY <2>3, <2>4, <2>5 DEF RcvSide
  <1>7. top + n <= Len(rs)
    <2>1. CASE n = 0 BY <2>1, <1>3
    <2>2. CASE n # 0
      <3>1. n - 1 \in 0 .. (n - 1) BY <2>2, <1>2
      <3>2. top + (n - 1) < Len(rs) BY <3>1, <1>6
      <3> QED BY <3>2, <1>2, <1>3
    <2> QED BY <2>1, <2>2
  <1>8. x.rcv_nxt = WrapAdd(Isn, top + n)
    <2>1. top + n < Word BY <1>2, <1>3, <1>4
    <2> HIDE DEF top
    <2> QED BY <1>1, <1>2, <1>3, <1>5, <2>1, Positions
  <1>9. tail \in Seq(Piece) /\ Len(tail) = n
    <2>1. \A i \in 1 .. n : e.rcv_buf[WrapAdd(e.rcv_nxt, i - 1)] \in Piece
      BY <1>1, <1>2 DEF SeqNumMap
    <2> QED BY <2>1, <1>2
  <1>10. /\ Len(x.rcv_queue) = Len(q) + n
         /\ \A i \in 1 .. Len(q) : x.rcv_queue[i] = q[i]
         /\ \A i \in 1 .. n : x.rcv_queue[Len(q) + i] = tail[i]
    <2>1. /\ Len(q \o tail) = Len(q) + n
          /\ \A i \in 1 .. (Len(q) + n) :
                (q \o tail)[i] = IF i <= Len(q) THEN q[i] ELSE tail[i - Len(q)]
      <3> HIDE DEF tail
      <3> QED BY <1>1, <1>9, ConcatProperties
    <2> HIDE DEF tail
    <2>2. \A i \in 1 .. n : Len(q) + i \in 1 .. (Len(q) + n) /\ ~(Len(q) + i <= Len(q))
                            /\ (Len(q) + i) - Len(q) = i
      BY <1>2, <1>3
    <2>3. \A i \in 1 .. Len(q) : i \in 1 .. (Len(q) + n) BY <1>2, <1>3
    <2> QED BY <1>5, <2>1, <2>2, <2>3
  <1>11. ASSUME NEW i \in 1 .. Len(x.rcv_queue) PROVE x.rcv_queue[i] = rs[base + i]
    <2>1. CASE i <= Len(q)
      <3>1. i \in 1 .. Len(q) BY <2>1, <1>1
      <3> QED BY <3>1, <1>10 DEF RcvSide
    <2>2. CASE i > Len(q)
      <3> DEFINE j == i - Len(q)
      <3>1. j \in 1 .. n /\ i = Len(q) + j /\ j - 1 \in 0 .. (n - 1) BY <2>2, <1>1, <1>2, <1>10
      <3>2. top + (j - 1) + 1 = base + i
        <4>1. i \in Int /\ base \in Int /\ Len(q) \in Int BY <1>2, <1>3, <1>10
        <4>2. \A a, l, m \in Int : (a + l) + ((m - l) - 1) + 1 = a + m OBVIOUS
        <4> HIDE DEF q
        <4> QED BY <4>1, <4>2
      <3> HIDE DEF j
      <3>3. x.rcv_queue[i] = tail[j] BY <3>1, <1>10
      <3>4. tail[j] = e.rcv_buf[WrapAdd(e.rcv_nxt, j - 1)] BY <3>1
      <3> QED BY <3>1, <3>2, <3>3, <3>4, <1>6
    <2> QED BY <2>1, <2>2, <1>1
  <1>12. ASSUME NEW i \in Words, Has(e, base, i) PROVE Has(x, base, i)
    <2>1. i \in Nat BY HalfAssumption DEF Words, Word
    <2>2. CASE i < top BY <2>1, <2>2, <1>1, <1>2, <1>10 DEF Has
    <2>3. CASE WrapAdd(Isn, i) \in DOMAIN e.rcv_buf \ moved
      BY <2>3, <1>5 DEF Has, Without
    <2>4. CASE WrapAdd(Isn, i) \in moved
      <3>1. PICK j \in 0 .. (n - 1) : WrapAdd(Isn, i) = WrapAdd(e.rcv_nxt, j) BY <2>4
      <3>2. i = top + j BY <3>1, <1>6, Positions
      <3>3. i < base + Len(x.rcv_queue) BY <3>2, <1>1, <1>2, <1>10
      <3> QED BY <3>3 DEF Has
    <2> QED BY <1>12, <2>2, <2>3, <2>4 DEF Has
  <1>13. \A i \in 1 .. Len(x.ack_list) :
            index(x.ack_list[i].sn) < Len(rs) /\ Has(x, base, index(x.ack_list[i].sn))
    <2> TAKE i \in 1 .. Len(x.ack_list)
    <2>1. e.ack_list \in Seq([sn : Words, ts : Words]) BY DEF IsEngine
    <2>2. e.ack_list[i] \in [sn : Words, ts : Words] BY <2>1, <1>5, ElementOfSeq
    <2>3. index(e.ack_list[i].sn) \in Words BY <2>2, Positions
    <2> QED BY <2>3, <1>5, <1>12 DEF RcvSide
  <1>14. \A sn \in DOMAIN x.rcv_buf : index(sn) < Len(rs) /\ x.rcv_buf[sn] = rs[index(sn) + 1]
    BY <1>5 DEF RcvSide, Without
  <1>15. \A i \in G : Has(x, base, i) BY <1>12 DEF RcvSide
  <1>16. c <= base + Len(x.rcv_queue) BY <1>1, <1>2, <1>10 DEF RcvSide
  <1>17. base + Len(x.rcv_queue) = top + n BY <1>1, <1>2, <1>10
  <1> QED BY <1>7, <1>8, <1>11, <1>13, <1>14, <1>15, <1>16, <1>17 DEF RcvSide, x

\* The PUSH arm takes a segment that carries the right piece: it is kept once,
\* and acknowledged only when it is held.
LEMMA PushRcv ==
    ASSUME NEW e, IsEngine(e), NEW base \in Nat, NEW rs \in Stream, NEW G \in SUBSET Words,
           NEW c \in Nat, RcvSide(e, base, rs, G, c), NEW s \in WireSeg,
           index(s.sn) < Len(rs), rs[index(s.sn) + 1] = [frg |-> s.frg, data |-> s.data]
    PROVE  RcvSide(input_push(e, s), base, rs, G, c)
  <1> DEFINE acked == ack_push(e, s.sn, s.ts)
             kept  == [acked EXCEPT !.rcv_buf =
                          Extend(@, s.sn, [frg |-> s.frg, data |-> s.data])]
             y     == IF s.sn \in DOMAIN e.rcv_buf THEN acked ELSE kept
             k     == index(s.sn)
  <1>1. s.sn \in Words /\ s.ts \in Words /\ [frg |-> s.frg, data |-> s.data] \in Piece
    BY DEF WireSeg, Piece
  <1>2. k \in Words /\ WrapAdd(Isn, k) = s.sn BY <1>1, Positions
  <1>3. /\ e.ack_list \in Seq([sn : Words, ts : Words]) /\ e.rcv_queue \in Seq(Piece)
        /\ SeqNumMap(e.rcv_buf, Piece) /\ e.rcv_nxt \in Words
        /\ DOMAIN e = EngineFields
    BY DEF IsEngine
  <1>4. /\ acked.rcv_nxt = e.rcv_nxt /\ acked.rcv_queue = e.rcv_queue
        /\ acked.rcv_buf = e.rcv_buf
        /\ acked.ack_list = Append(e.ack_list, [sn |-> s.sn, ts |-> s.ts])
        /\ DOMAIN acked = EngineFields
    BY <1>3 DEF ack_push, EngineFields
  <1>5. IsEngine(acked)
    <2>1. Append(e.ack_list, [sn |-> s.sn, ts |-> s.ts]) \in Seq([sn : Words, ts : Words])
      BY <1>1, <1>3
    <2> QED BY <2>1 DEF ack_push, IsEngine, EngineFields
  <1> HIDE DEF acked, k
  <1>6. /\ kept.rcv_nxt = e.rcv_nxt /\ kept.rcv_queue = e.rcv_queue
        /\ kept.rcv_buf = Extend(e.rcv_buf, s.sn, [frg |-> s.frg, data |-> s.data])
        /\ kept.ack_list = acked.ack_list
    BY <1>4 DEF EngineFields
  <1>7. IsEngine(kept)
    <2>1. SeqNumMap(Extend(e.rcv_buf, s.sn, [frg |-> s.frg, data |-> s.data]), Piece)
      BY <1>1, <1>3 DEF SeqNumMap, Extend
    <2> QED BY <2>1, <1>4, <1>5 DEF IsEngine, EngineFields
  <1> HIDE DEF kept
  \* Adding the ACK is sound once position k is held.
  <1>8. ASSUME NEW x, x.rcv_nxt = e.rcv_nxt, x.rcv_queue = e.rcv_queue,
               x.ack_list = acked.ack_list, Has(x, base, k),
               \A i \in Words : Has(e, base, i) => Has(x, base, i),
               \A sn \in DOMAIN x.rcv_buf :
                  index(sn) < Len(rs) /\ x.rcv_buf[sn] = rs[index(sn) + 1]
        PROVE  RcvSide(x, base, rs, G, c)
    <2>1. ASSUME NEW i \in 1 .. Len(x.ack_list)
          PROVE  index(x.ack_list[i].sn) < Len(rs) /\ Has(x, base, index(x.ack_list[i].sn))
      <3>1. CASE i = Len(e.ack_list) + 1
        <4>1. x.ack_list[i] = [sn |-> s.sn, ts |-> s.ts] BY <3>1, <1>3, <1>4, <1>8
        <4> QED BY <4>1, <1>8 DEF k
      <3>2. CASE i # Len(e.ack_list) + 1
        <4>1. i \in 1 .. Len(e.ack_list) /\ x.ack_list[i] = e.ack_list[i]
          BY <3>2, <1>3, <1>4, <1>8
        <4>2. e.ack_list[i] \in [sn : Words, ts : Words] BY <4>1, <1>3, ElementOfSeq
        <4>3. index(e.ack_list[i].sn) \in Words BY <4>2, Positions
        <4> QED BY <4>1, <4>3, <1>8 DEF RcvSide
      <3> QED BY <3>1, <3>2
    <2>2. \A i \in G : Has(x, base, i) BY <1>8 DEF RcvSide
    <2> QED BY <2>1, <2>2, <1>8 DEF RcvSide
  <1>9. CASE seq_before(s.sn, e.rcv_nxt)
    <2>1. base + Len(e.rcv_queue) <= Len(rs) /\ Len(rs) <= MaxSeg /\ Len(rs) \in Nat
          /\ Len(e.rcv_queue) \in Nat /\ e.rcv_nxt = WrapAdd(Isn, base + Len(e.rcv_queue))
      BY <1>3 DEF RcvSide, Stream
    <2>2. base + Len(e.rcv_queue) \in Words /\ Len(rs) < Half
      BY <2>1, SpaceAssumption, WindowAssumption, HalfAssumption DEF Words, Word
    <2>3. index(e.rcv_nxt) = base + Len(e.rcv_queue) BY <2>1, <2>2, Positions
    <2>4. k < Half /\ index(e.rcv_nxt) < Half
      BY <1>2, <2>1, <2>2, <2>3, HalfAssumption DEF k, Words, Word
    <2>5. k < base + Len(e.rcv_queue) BY <1>1, <1>3, <1>9, <2>3, <2>4, BeforeIsOrder DEF k
    <2>6. Has(acked, base, k) BY <2>5, <1>4 DEF Has
    <2>7. \A i \in Words : Has(e, base, i) => Has(acked, base, i) BY <1>4 DEF Has
    <2>8. RcvSide(acked, base, rs, G, c) BY <2>6, <2>7, <1>4, <1>8 DEF RcvSide
    <2>9. input_push(e, s) \in {e, acked} BY <1>9 DEF input_push, acked
    <2> QED BY <2>8, <2>9
  <1>10. CASE ~seq_before(s.sn, e.rcv_nxt)
    <2>1. RcvSide(y, base, rs, G, c)
      <3>1. CASE s.sn \in DOMAIN e.rcv_buf
        <4>1. Has(acked, base, k) BY <3>1, <1>2, <1>4 DEF Has
        <4>2. \A i \in Words : Has(e, base, i) => Has(acked, base, i) BY <1>4 DEF Has
        <4>3. RcvSide(acked, base, rs, G, c) BY <4>1, <4>2, <1>4, <1>8 DEF RcvSide
        <4> QED BY <4>3, <3>1
      <3>2. CASE s.sn \notin DOMAIN e.rcv_buf
        <4>1. DOMAIN kept.rcv_buf = DOMAIN e.rcv_buf \cup {s.sn} BY <1>6 DEF Extend
        <4>2. Has(kept, base, k) BY <4>1, <1>2 DEF Has
        <4>3. \A i \in Words : Has(e, base, i) => Has(kept, base, i) BY <4>1, <1>6 DEF Has
        <4>4. \A sn \in DOMAIN kept.rcv_buf :
                  index(sn) < Len(rs) /\ kept.rcv_buf[sn] = rs[index(sn) + 1]
          BY <1>6 DEF RcvSide, Extend
        <4>5. RcvSide(kept, base, rs, G, c) BY <4>2, <4>3, <4>4, <1>6, <1>8
        <4> QED BY <4>5, <3>2
      <3> QED BY <3>1, <3>2
    <2>2. IsEngine(y) BY <1>5, <1>7
    <2>3. input_push(e, s) \in {e, move_to_recv_queue(y)}
      <3>1. in_window(acked, s.sn) <=> in_window(e, s.sn) BY <1>4 DEF in_window
      <3>2. CASE in_window(e, s.sn)
        <4>1. input_push(e, s) = parse_data(acked, s) BY <3>2, <1>10 DEF input_push, acked
        <4>2. parse_data(acked, s) = move_to_recv_queue(y)
          BY <3>1, <3>2, <1>4, <1>10 DEF parse_data, kept
        <4> QED BY <4>1, <4>2
      <3>3. CASE ~in_window(e, s.sn) BY <3>3 DEF input_push
      <3> QED BY <3>2, <3>3
    <2> HIDE DEF y
    <2> QED BY <2>1, <2>2, <2>3, MoveRcv
  <1> QED BY <1>9, <1>10

\* recv() hands the next message over and leaves the rest of the stream.
LEMMA RecvRcv ==
    ASSUME NEW e, IsEngine(e), e.rcv_queue # <<>>, NEW base \in Nat, NEW rs \in Stream,
           NEW G \in SUBSET Words, NEW c \in Nat, RcvSide(e, base, rs, G, c)
    PROVE  RcvSide(recv(e), base + message_span(e.rcv_queue), rs, G, c)
  <1> DEFINE q      == e.rcv_queue
             k      == message_span(q)
             rest   == SubSeq(q, k + 1, Len(q))
             popped == [e EXCEPT !.rcv_queue = rest]
             moved  == move_to_recv_queue(popped)
  <1>1. q \in Seq(Piece) BY DEF IsEngine
  <1>2. k \in 1 .. Len(q) /\ Len(q) \in Nat BY <1>1, MessageSpan
  <1> HIDE DEF k
  <1>3. /\ rest \in Seq(Piece) /\ Len(rest) = Len(q) - k
        /\ \A i \in 1 .. (Len(q) - k) : rest[i] = q[k + i]
    BY <1>1, <1>2
  <1> HIDE DEF rest
  <1>4. IsEngine(popped) BY <1>3 DEF IsEngine, EngineFields
  <1>5. /\ popped.rcv_queue = rest /\ popped.rcv_nxt = e.rcv_nxt
        /\ popped.rcv_buf = e.rcv_buf /\ popped.ack_list = e.ack_list
    BY DEF IsEngine, EngineFields
  <1> HIDE DEF popped
  <1>6. (base + k) + Len(popped.rcv_queue) = base + Len(q)
    <2>1. \A a, b, l \in Int : (a + b) + (l - b) = a + l OBVIOUS
    <2>2. base \in Int /\ k \in Int /\ Len(q) \in Int BY <1>2
    <2>3. Len(popped.rcv_queue) = Len(q) - k BY <1>3, <1>5
    <2>4. (base + k) + (Len(q) - k) = base + Len(q)
      <3> HIDE DEF q
      <3> QED BY <2>1, <2>2
    <2> QED BY <2>3, <2>4, Zenon
  <1>7. ASSUME NEW i \in 1 .. Len(popped.rcv_queue)
        PROVE  popped.rcv_queue[i] = rs[(base + k) + i]
    <2>1. i \in 1 .. (Len(q) - k) /\ k + i \in 1 .. Len(q) /\ base + (k + i) = (base + k) + i
      BY <1>2, <1>3, <1>5, SMTT(20)
    <2>2. popped.rcv_queue[i] = q[k + i] BY <2>1, <1>3, <1>5
    <2> QED BY <2>1, <2>2 DEF RcvSide
  <1>8. RcvSide(popped, base + k, rs, G, c) BY <1>5, <1>6, <1>7 DEF RcvSide, Has
  <1>9. RcvSide(moved, base + k, rs, G, c) BY <1>2, <1>4, <1>8, MoveRcv
  <1>10. IsEngine(moved) BY <1>4, MoveToRecvQueueType
  <1>11. /\ recv(e).rcv_queue = moved.rcv_queue /\ recv(e).rcv_nxt = moved.rcv_nxt
         /\ recv(e).rcv_buf = moved.rcv_buf /\ recv(e).ack_list = moved.ack_list
    <2> HIDE DEF moved
    <2> DEFINE t == moved.probe.ask_tell \/ (Len(q) >= RcvWnd /\ Len(moved.rcv_queue) < RcvWnd)
    <2>1. recv(e) = [moved EXCEPT !.probe.ask_tell = t] BY DEF recv, moved, popped, rest, k
    <2> HIDE DEF t
    <2> QED BY <2>1, <1>10 DEF IsEngine, EngineFields
  <1> HIDE DEF moved
  <1> QED BY <1>9, <1>11, RcvFrame DEF k

-----------------------------------------------------------------------------
(* The sending half *)

\* e sends the stream ss: its buffer matches it, and what is no longer in the
\* buffer is in H, the positions the peer holds.
SndSide(e, ss, H) ==
    /\ e.conv = Conv
    /\ Len(ss) + Len(e.snd_queue) <= MaxSeg
    /\ e.snd_nxt = WrapAdd(Isn, Len(ss))
    /\ \A sn \in DOMAIN e.snd_buf :
          /\ index(sn) < Len(ss)
          /\ ss[index(sn) + 1] = [frg |-> e.snd_buf[sn].frg, data |-> e.snd_buf[sn].data]
    /\ \A i \in 0 .. (Len(ss) - 1) : WrapAdd(Isn, i) \notin DOMAIN e.snd_buf => i \in H

\* The sending half depends on four fields, and of the buffered segments only
\* on what they carry.
LEMMA SndFrame ==
    ASSUME NEW e, NEW x, NEW ss, NEW H, SndSide(e, ss, H),
           x.conv = e.conv, x.snd_queue = e.snd_queue, x.snd_nxt = e.snd_nxt,
           DOMAIN x.snd_buf = DOMAIN e.snd_buf,
           \A sn \in DOMAIN e.snd_buf : /\ x.snd_buf[sn].frg = e.snd_buf[sn].frg
                                        /\ x.snd_buf[sn].data = e.snd_buf[sn].data
    PROVE  SndSide(x, ss, H)
  BY DEF SndSide

\* Positions of a stream are below half the number space.
LEMMA StreamBound ==
    ASSUME NEW ss \in Stream
    PROVE  Len(ss) \in Nat /\ Len(ss) <= MaxSeg /\ Len(ss) < Half /\ Len(ss) < Word
           /\ Word \in Nat /\ \A i \in 0 .. Len(ss) : i \in Words
  <1>1. Len(ss) \in Nat /\ Len(ss) <= MaxSeg BY DEF Stream
  <1> QED BY <1>1, SpaceAssumption, WindowAssumption, HalfAssumption DEF Words, Word

\* Dropping segments the peer holds is sound.
LEMMA SndPrune ==
    ASSUME NEW e, NEW x, NEW ss \in Stream, NEW H, NEW S, SndSide(e, ss, H),
           x.conv = e.conv, x.snd_queue = e.snd_queue, x.snd_nxt = e.snd_nxt,
           x.snd_buf = Without(e.snd_buf, S),
           \A sn \in S : sn \in DOMAIN e.snd_buf => index(sn) \in H
    PROVE  SndSide(x, ss, H)
  <1>1. DOMAIN x.snd_buf = DOMAIN e.snd_buf \ S
        /\ \A sn \in DOMAIN x.snd_buf : x.snd_buf[sn] = e.snd_buf[sn]
    BY DEF Without
  <1>2. ASSUME NEW i \in 0 .. (Len(ss) - 1), WrapAdd(Isn, i) \notin DOMAIN x.snd_buf
        PROVE  i \in H
    <2>1. i \in Words BY StreamBound
    <2>2. index(WrapAdd(Isn, i)) = i BY <2>1, Positions
    <2> QED BY <1>1, <1>2, <2>2 DEF SndSide
  <1> QED BY <1>1, <1>2 DEF SndSide

\* parse_una drops only what the peer holds when una is not above what the peer
\* accepted.
LEMMA ParseUnaSnd ==
    ASSUME NEW e, IsEngine(e), NEW ss \in Stream, NEW H, NEW u \in Nat, u <= Len(ss),
           \A i \in Nat : i < u => i \in H, SndSide(e, ss, H),
           NEW una \in Words, index(una) <= u
    PROVE  SndSide(parse_una(e, una), ss, H)
  <1> DEFINE S == {sn \in DOMAIN e.snd_buf : seq_before(sn, una)}
             x == parse_una(e, una)
  <1>1. x.conv = e.conv /\ x.snd_queue = e.snd_queue /\ x.snd_nxt = e.snd_nxt
        /\ x.snd_buf = Without(e.snd_buf, S)
    BY DEF parse_una, IsEngine, EngineFields
  <1>2. ASSUME NEW sn \in S PROVE index(sn) \in H
    <2>1. sn \in Words BY DEF IsEngine, SeqNumMap
    <2>2. index(sn) \in Nat /\ index(una) \in Nat
      BY <2>1, Positions, HalfAssumption DEF Words, Word
    <2>3. index(sn) < Len(ss) BY DEF SndSide
    <2>4. index(sn) < Half /\ index(una) < Half BY <2>2, <2>3, StreamBound, HalfAssumption
    <2>5. index(sn) < index(una) BY <2>1, <2>4, BeforeIsOrder
    <2> QED BY <2>2, <2>5
  <1> HIDE DEF x, S
  <1>3. SndSide(x, ss, H) BY <1>1, <1>2, SndPrune
  <1> QED BY <1>3 DEF x

\* parse_ack drops a segment the peer holds.
LEMMA ParseAckSnd ==
    ASSUME NEW e, IsEngine(e), NEW ss \in Stream, NEW H, SndSide(e, ss, H),
           NEW sn \in Words, index(sn) \in H
    PROVE  SndSide(parse_ack(e, sn), ss, H)
  <1> DEFINE x == [e EXCEPT !.snd_buf = Without(@, {sn})]
  <1>1. x.conv = e.conv /\ x.snd_queue = e.snd_queue /\ x.snd_nxt = e.snd_nxt
        /\ x.snd_buf = Without(e.snd_buf, {sn})
    BY DEF IsEngine, EngineFields
  <1> HIDE DEF x
  <1>2. SndSide(x, ss, H) BY <1>1, SndPrune
  <1> QED BY <1>2 DEF parse_ack, x

\* move_to_send_buf numbers the head of the queue: the stream grows by it.
LEMMA MoveSnd ==
    ASSUME NEW e, IsEngine(e), NEW ss \in Stream, NEW H, SndSide(e, ss, H), NEW clk \in Words
    PROVE  SndSide(move_to_send_buf(e, clk), ss \o SubSeq(e.snd_queue, 1, move_count(e)), H)
  <1> DEFINE n     == move_count(e)
             q     == e.snd_queue
             L     == Len(ss)
             fresh == {WrapAdd(e.snd_nxt, i) : i \in 0 .. (n - 1)}
             put(p) == [frg |-> p.frg, data |-> p.data, ts |-> clk, resendts |-> clk,
                        rto |-> e.rtt.rto, fastack |-> 0, xmit |-> 0]
             x     == move_to_send_buf(e, clk)
             head  == SubSeq(q, 1, n)
             tt    == ss \o head
  <1>1. q \in Seq(Piece) /\ Len(q) \in Nat /\ L + Len(q) <= MaxSeg
        /\ e.snd_nxt = WrapAdd(Isn, L)
    BY DEF IsEngine, SndSide
  <1>2. n \in Nat /\ n <= Len(q) BY <1>1, MoveCount
  <1>3. L \in Nat /\ L + n <= MaxSeg /\ L + n < Word /\ Word \in Nat
    <2>1. L \in Nat BY StreamBound
    <2>2. MaxSeg \in Nat /\ MaxSeg < Word /\ Word \in Nat
      BY SpaceAssumption, WindowAssumption, HalfAssumption DEF Word
    <2> HIDE DEF L, n
    <2>3. L + n <= MaxSeg BY <1>1, <1>2, <2>1, <2>2
    <2> QED BY <1>2, <2>1, <2>2, <2>3
  <1>4. /\ x.conv = e.conv /\ x.snd_nxt = WrapAdd(e.snd_nxt, n)
        /\ x.snd_queue = SubSeq(q, n + 1, Len(q))
        /\ x.snd_buf = [sn \in DOMAIN e.snd_buf \cup fresh |->
              IF sn \in fresh THEN put(q[WrapSub(sn, e.snd_nxt) + 1]) ELSE e.snd_buf[sn]]
    BY DEF move_to_send_buf, IsEngine, EngineFields
  <1> HIDE DEF x, n
  <1>5. head \in Seq(Piece) /\ Len(head) = n /\ \A i \in 1 .. n : head[i] = q[i]
    BY <1>1, <1>2
  <1> HIDE DEF head
  <1>6. ss \in Seq(Piece) BY DEF Stream
  <1>7. /\ Len(tt) = L + n
        /\ \A i \in 1 .. (L + n) : tt[i] = IF i <= L THEN ss[i] ELSE head[i - L]
    BY <1>5, <1>6, ConcatProperties
  <1> HIDE DEF tt
  <1>8. Len(x.snd_queue) = Len(q) - n BY <1>1, <1>2, <1>4
  <1>9. Len(tt) + Len(x.snd_queue) <= MaxSeg BY <1>1, <1>2, <1>3, <1>7, <1>8, SpaceAssumption
  <1>10. x.snd_nxt = WrapAdd(Isn, Len(tt))
    <2> HIDE DEF L
    <2> QED BY <1>1, <1>2, <1>3, <1>4, <1>7, Positions
  <1>11. ASSUME NEW i \in 0 .. (n - 1)
         PROVE  /\ WrapAdd(e.snd_nxt, i) = WrapAdd(Isn, L + i)
                /\ index(WrapAdd(e.snd_nxt, i)) = L + i
                /\ WrapSub(WrapAdd(e.snd_nxt, i), e.snd_nxt) = i
    <2>1. i \in Nat /\ L + i < Word BY <1>2, <1>3
    <2>2. L + i \in Words /\ i \in Words BY <2>1, <1>3 DEF Words
    <2>3. WrapAdd(e.snd_nxt, i) = WrapAdd(Isn, L + i)
      <3> HIDE DEF L
      <3> QED BY <1>1, <1>3, <2>1, Positions
    <2>4. index(WrapAdd(e.snd_nxt, i)) = L + i BY <2>2, <2>3, Positions
    <2>5. e.snd_nxt \in Words BY DEF IsEngine
    <2>6. WrapSub(WrapAdd(e.snd_nxt, i), e.snd_nxt) = i BY <2>2, <2>5, WrapRoundTrip
    <2> QED BY <2>3, <2>4, <2>6
  <1>12. ASSUME NEW sn \in DOMAIN x.snd_buf
         PROVE  /\ index(sn) < Len(tt)
                /\ tt[index(sn) + 1] = [frg |-> x.snd_buf[sn].frg, data |-> x.snd_buf[sn].data]
    <2>1. CASE sn \in fresh
      <3>1. PICK i \in 0 .. (n - 1) : sn = WrapAdd(e.snd_nxt, i) BY <2>1
      <3>2. index(sn) = L + i /\ WrapSub(sn, e.snd_nxt) = i BY <3>1, <1>11
      <3>3. i \in Nat /\ i + 1 \in 1 .. n /\ (L + i) + 1 \in 1 .. (L + n)
            /\ ~((L + i) + 1 <= L) /\ ((L + i) + 1) - L = i + 1
        BY <1>2, <1>3
      <3>4. tt[(L + i) + 1] = q[i + 1] BY <3>3, <1>5, <1>7
      <3>5. x.snd_buf[sn] = put(q[i + 1]) BY <2>1, <3>2, <1>4
      <3>6. q[i + 1] \in Piece BY <3>3, <1>1, <1>2
      <3>7. q[i + 1] = [frg |-> q[i + 1].frg, data |-> q[i + 1].data] BY <3>6 DEF Piece
      <3>8. x.snd_buf[sn].frg = q[i + 1].frg /\ x.snd_buf[sn].data = q[i + 1].data BY <3>5
      <3>9. L + i < Len(tt) BY <3>3, <1>2, <1>3, <1>7
      <3> QED BY <3>2, <3>4, <3>7, <3>8, <3>9
    <2>2. CASE sn \notin fresh
      <3>1. sn \in DOMAIN e.snd_buf /\ x.snd_buf[sn] = e.snd_buf[sn] BY <2>2, <1>4
      <3>2. sn \in Words BY <3>1 DEF IsEngine, SeqNumMap
      <3>3. index(sn) \in Nat BY <3>2, Positions, HalfAssumption DEF Words, Word
      <3>4. index(sn) < L
            /\ ss[index(sn) + 1] = [frg |-> e.snd_buf[sn].frg, data |-> e.snd_buf[sn].data]
        BY <3>1 DEF SndSide
      <3>5. index(sn) + 1 \in 1 .. (L + n) /\ index(sn) + 1 <= L /\ index(sn) < Len(tt)
        BY <3>3, <3>4, <1>2, <1>3, <1>7
      <3> QED BY <3>1, <3>4, <3>5, <1>7
    <2> QED BY <2>1, <2>2
  <1>13. ASSUME NEW i \in 0 .. (Len(tt) - 1), WrapAdd(Isn, i) \notin DOMAIN x.snd_buf
         PROVE  i \in H
    <2>1. i \in Nat /\ i < L + n BY <1>2, <1>3, <1>7
    <2>2. WrapAdd(Isn, i) \notin DOMAIN e.snd_buf /\ WrapAdd(Isn, i) \notin fresh
      BY <1>4, <1>13
    <2>3. CASE i < L
      <3>1. i \in 0 .. (L - 1) BY <2>1, <2>3, <1>3
      <3> QED BY <3>1, <2>2 DEF SndSide
    <2>4. CASE i >= L
      <3>1. i - L \in 0 .. (n - 1) /\ L + (i - L) = i BY <2>1, <2>4, <1>2, <1>3
      <3>2. WrapAdd(e.snd_nxt, i - L) = WrapAdd(Isn, i) BY <3>1, <1>11
      <3> QED BY <3>1, <3>2, <2>2
    <2> QED BY <2>1, <2>3, <2>4, <1>3
  <1>14. SndSide(x, tt, H) BY <1>4, <1>9, <1>10, <1>12, <1>13 DEF SndSide
  <1> QED BY <1>14 DEF x, tt, head, n

-----------------------------------------------------------------------------
(* input *)

\* A segment the peer can have sent: u and H are what the peer accepted and
\* holds of ss, and rs is the stream the peer sends.
Believable(s, u, H, rs) ==
    s.conv = Conv =>
        /\ index(s.una) <= u
        /\ s.cmd = "PUSH" => /\ index(s.sn) < Len(rs)
                             /\ rs[index(s.sn) + 1] = [frg |-> s.frg, data |-> s.data]
        /\ s.cmd = "ACK" => index(s.sn) \in H

\* The PUSH arm leaves the sending half alone.
LEMMA PushFields ==
    ASSUME NEW e, IsEngine(e), NEW s \in WireSeg
    PROVE  LET x == input_push(e, s) IN
           x.conv = e.conv /\ x.snd_queue = e.snd_queue /\ x.snd_nxt = e.snd_nxt
           /\ x.snd_buf = e.snd_buf
  <1> DEFINE Same(x) == /\ DOMAIN x = EngineFields /\ x.conv = e.conv
                        /\ x.snd_queue = e.snd_queue /\ x.snd_nxt = e.snd_nxt
                        /\ x.snd_buf = e.snd_buf
             acked == ack_push(e, s.sn, s.ts)
             kept  == [acked EXCEPT !.rcv_buf =
                          Extend(@, s.sn, [frg |-> s.frg, data |-> s.data])]
  <1>1. Same(e) /\ Same(acked) BY DEF ack_push, IsEngine, EngineFields
  <1> HIDE DEF acked
  <1>2. Same(kept) BY <1>1 DEF EngineFields
  <1>3. ASSUME NEW x, Same(x) PROVE Same(move_to_recv_queue(x))
    BY <1>3 DEF move_to_recv_queue, EngineFields
  <1> HIDE DEF kept
  <1>4. parse_data(acked, s) \in {acked, move_to_recv_queue(acked), move_to_recv_queue(kept)}
    BY DEF parse_data, kept
  <1>5. input_push(e, s) \in {e, acked, parse_data(acked, s)} BY DEF input_push, acked
  <1> HIDE DEF Same
  <1>6. Same(input_push(e, s)) BY <1>1, <1>2, <1>3, <1>4, <1>5
  <1> QED BY <1>6 DEF Same

\* The ACK arm leaves the receiving half alone.
LEMMA AckFields ==
    ASSUME NEW e, IsEngine(e), NEW s, NEW clk
    PROVE  LET x == input_ack(e, s, clk) IN
           x.rcv_nxt = e.rcv_nxt /\ x.rcv_queue = e.rcv_queue /\ x.rcv_buf = e.rcv_buf
           /\ x.ack_list = e.ack_list
  <1> DEFINE rated == [e EXCEPT !.rtt = update_ack(@, time_diff(clk, s.ts))]
             Same(x) == /\ DOMAIN x = EngineFields
                        /\ x.rcv_nxt = e.rcv_nxt /\ x.rcv_queue = e.rcv_queue
                        /\ x.rcv_buf = e.rcv_buf /\ x.ack_list = e.ack_list
  <1>1. Same(e) /\ Same(rated) BY DEF IsEngine, EngineFields
  <1> HIDE DEF rated
  <1>2. ASSUME NEW x, Same(x) PROVE Same(parse_ack(x, s.sn)) BY <1>2 DEF parse_ack, EngineFields
  <1>3. input_ack(e, s, clk) \in {parse_ack(e, s.sn), parse_ack(rated, s.sn)}
    BY DEF input_ack, rated
  <1> HIDE DEF Same
  <1>4. Same(input_ack(e, s, clk)) BY <1>1, <1>2, <1>3
  <1> QED BY <1>4 DEF Same

\* One segment of the peer keeps both halves.
LEMMA SegmentSafe ==
    ASSUME NEW e, IsEngine(e), NEW base \in Nat, NEW rs \in Stream, NEW ss \in Stream,
           NEW G \in SUBSET Words, NEW c \in Nat, NEW H, NEW u \in Nat, u <= Len(ss),
           \A i \in Nat : i < u => i \in H,
           RcvSide(e, base, rs, G, c), SndSide(e, ss, H),
           NEW s \in WireSeg, Believable(s, u, H, rs), NEW clk \in Words
    PROVE  /\ RcvSide(input_segment(e, s, clk), base, rs, G, c)
           /\ SndSide(input_segment(e, s, clk), ss, H)
  <1> DEFINE told  == [e EXCEPT !.wnd.rmt = s.wnd]
             heard == parse_una(told, s.una)
             asked == [heard EXCEPT !.probe.ask_tell = TRUE]
  <1>1. s.una \in Words /\ s.wnd \in Nat /\ s.cmd \in Cmds /\ s.sn \in Words BY DEF WireSeg
  <1>2. [e.wnd EXCEPT !.rmt = s.wnd] \in WindowState BY <1>1 DEF IsEngine, WindowState
  <1>3. IsEngine(told) BY <1>2 DEF IsEngine, EngineFields
  <1>4. /\ told.conv = e.conv /\ told.snd_queue = e.snd_queue /\ told.snd_nxt = e.snd_nxt
        /\ told.snd_buf = e.snd_buf /\ told.rcv_nxt = e.rcv_nxt /\ told.rcv_buf = e.rcv_buf
        /\ told.rcv_queue = e.rcv_queue /\ told.ack_list = e.ack_list
    BY DEF IsEngine, EngineFields
  <1> HIDE DEF told
  <1>5. IsEngine(heard) BY <1>1, <1>3, ParseUnaType
  <1>6. CASE s.conv # e.conv BY <1>6 DEF input_segment
  <1>7. CASE s.conv = e.conv
    <2>1. s.conv = Conv BY <1>7 DEF SndSide
    <2>2. index(s.una) <= u BY <2>1 DEF Believable
    <2>3. SndSide(told, ss, H) /\ RcvSide(told, base, rs, G, c) BY <1>4, SndFrame, RcvFrame
    <2>4. SndSide(heard, ss, H) BY <1>1, <1>3, <2>2, <2>3, ParseUnaSnd
    <2>5. /\ heard.rcv_nxt = told.rcv_nxt /\ heard.rcv_buf = told.rcv_buf
          /\ heard.rcv_queue = told.rcv_queue /\ heard.ack_list = told.ack_list
      BY <1>3 DEF parse_una, IsEngine, EngineFields
    <2>6. RcvSide(heard, base, rs, G, c) BY <2>3, <2>5, RcvFrame
    <2> HIDE DEF heard
    <2>7. CASE s.cmd = "ACK"
      <3>1. input_segment(e, s, clk) = input_ack(heard, s, clk)
        BY <1>7, <2>7 DEF input_segment, heard, told
      <3>2. RcvSide(input_ack(heard, s, clk), base, rs, G, c) BY <1>5, <2>6, AckFields, RcvFrame
      <3>3. SndSide(input_ack(heard, s, clk), ss, H)
        <4> DEFINE sample == time_diff(clk, s.ts)
                   rated == [heard EXCEPT !.rtt = update_ack(@, sample)]
        <4>1. s.ts \in Words BY DEF WireSeg
        <4>2. sample \in Int BY <4>1, TimeDiffType
        <4>3. update_ack(heard.rtt, sample) \in RttState BY <1>5, <4>2, UpdateAckType DEF IsEngine
        <4>4. IsEngine(rated) BY <1>5, <4>3 DEF IsEngine, EngineFields
        <4>5. rated.conv = heard.conv /\ rated.snd_queue = heard.snd_queue
              /\ rated.snd_nxt = heard.snd_nxt /\ rated.snd_buf = heard.snd_buf
          BY <1>5 DEF IsEngine, EngineFields
        <4> HIDE DEF rated
        <4>6. SndSide(rated, ss, H) BY <2>4, <4>5, SndFrame
        <4>7. index(s.sn) \in H BY <2>1, <2>7 DEF Believable
        <4>8. SndSide(parse_ack(rated, s.sn), ss, H) /\ SndSide(parse_ack(heard, s.sn), ss, H)
          BY <1>1, <1>5, <2>4, <4>4, <4>6, <4>7, ParseAckSnd
        <4>9. input_ack(heard, s, clk) \in {parse_ack(rated, s.sn), parse_ack(heard, s.sn)}
          BY DEF input_ack, rated
        <4> QED BY <4>8, <4>9
      <3> QED BY <3>1, <3>2, <3>3
    <2>8. CASE s.cmd = "PUSH"
      <3>1. input_segment(e, s, clk) = input_push(heard, s)
        BY <1>7, <2>8 DEF input_segment, heard, told
      <3>2. RcvSide(input_push(heard, s), base, rs, G, c)
        BY <1>5, <2>1, <2>6, <2>8, PushRcv DEF Believable
      <3>3. SndSide(input_push(heard, s), ss, H) BY <1>5, <2>4, PushFields, SndFrame
      <3> QED BY <3>1, <3>2, <3>3
    <2>9. CASE s.cmd \in {"WASK", "WINS"}
      <3>1. input_segment(e, s, clk) \in {asked, heard}
        BY <1>7, <2>9 DEF input_segment, heard, told
      <3>2. /\ asked.conv = heard.conv /\ asked.snd_queue = heard.snd_queue
            /\ asked.snd_nxt = heard.snd_nxt /\ asked.snd_buf = heard.snd_buf
            /\ asked.rcv_nxt = heard.rcv_nxt /\ asked.rcv_buf = heard.rcv_buf
            /\ asked.rcv_queue = heard.rcv_queue /\ asked.ack_list = heard.ack_list
        BY <1>5 DEF IsEngine, EngineFields
      <3> HIDE DEF asked
      <3>3. SndSide(asked, ss, H) /\ RcvSide(asked, base, rs, G, c)
        BY <2>4, <2>6, <3>2, SndFrame, RcvFrame
      <3> QED BY <2>4, <2>6, <3>1, <3>3
    <2> QED BY <1>1, <2>7, <2>8, <2>9 DEF Cmds
  <1> QED BY <1>6, <1>7

\* A datagram of the peer keeps both halves, however many segments it has.
LEMMA InputSafe ==
    ASSUME NEW e, IsEngine(e), NEW base \in Nat, NEW rs \in Stream, NEW ss \in Stream,
           NEW G \in SUBSET Words, NEW c \in Nat, NEW H, NEW u \in Nat, u <= Len(ss),
           \A i \in Nat : i < u => i \in H,
           RcvSide(e, base, rs, G, c), SndSide(e, ss, H),
           NEW segs \in Seq(WireSeg), NEW clk \in Words,
           \A i \in 1 .. Len(segs) : Believable(segs[i], u, H, rs)
    PROVE  /\ RcvSide(input(e, segs, clk), base, rs, G, c)
           /\ SndSide(input(e, segs, clk), ss, H)
  <1> DEFINE Safe(x) == IsEngine(x) /\ RcvSide(x, base, rs, G, c) /\ SndSide(x, ss, H)
             end    == input_loop(e, segs, clk)
             shrunk == shrink_buf(end.eng)
             fast   == IF end.ack.flag
                       THEN parse_fastack(shrunk, end.ack.max_ack, end.ack.latest_ts) ELSE shrunk
  <1>1. Len(segs) \in Nat OBVIOUS
  <1>2. PICK f : /\ f[0] = [eng |-> e, ack |-> NoAck]
                 /\ \A i \in 1 .. Len(segs) : f[i] = input_step(f[i - 1], segs[i], clk)
                 /\ end = f[Len(segs)]
    BY <1>1, InputLoopChain
  <1> DEFINE S == {n \in Nat : Safe(f[n].eng)}
  <1>3. 0 \in S BY <1>2
  <1>4. ASSUME NEW n \in 1 .. Len(segs), n - 1 \in S PROVE n \in S
    <2>1. segs[n] \in WireSeg /\ Believable(segs[n], u, H, rs) OBVIOUS
    <2>2. Safe(f[n - 1].eng) BY <1>4
    <2>3. f[n].eng = input_segment(f[n - 1].eng, segs[n], clk)
      <3> HIDE DEF S, Safe, end
      <3>1. f[n] = input_step(f[n - 1], segs[n], clk) BY <1>2
      <3> QED BY <3>1 DEF input_step
    <2>4. IsEngine(f[n].eng) BY <2>1, <2>2, <2>3, InputSegmentType
    <2>5. RcvSide(f[n].eng, base, rs, G, c) /\ SndSide(f[n].eng, ss, H)
      BY <2>1, <2>2, <2>3, SegmentSafe
    <2> QED BY <2>4, <2>5
  <1>5. Len(segs) \in S
    <2> HIDE DEF S
    <2> QED BY <1>1, <1>3, <1>4, UpTo
  <1>6. Safe(end.eng) /\ end.ack \in AckState BY <1>2, <1>5, InputLoopType
  <1> HIDE DEF end
  <1>7. Safe(shrunk)
    <2>1. IsEngine(shrunk) BY <1>6, ShrinkBufType
    <2>2. /\ shrunk.conv = end.eng.conv /\ shrunk.snd_queue = end.eng.snd_queue
          /\ shrunk.snd_nxt = end.eng.snd_nxt /\ shrunk.snd_buf = end.eng.snd_buf
          /\ shrunk.rcv_nxt = end.eng.rcv_nxt /\ shrunk.rcv_buf = end.eng.rcv_buf
          /\ shrunk.rcv_queue = end.eng.rcv_queue /\ shrunk.ack_list = end.eng.ack_list
      BY <1>6 DEF shrink_buf, IsEngine, EngineFields
    <2> HIDE DEF shrunk
    <2> QED BY <1>6, <2>1, <2>2, SndFrame, RcvFrame
  <1> HIDE DEF shrunk
  <1>8. ASSUME NEW sn \in Words, NEW ts \in Words PROVE Safe(parse_fastack(shrunk, sn, ts))
    <2> DEFINE x == parse_fastack(shrunk, sn, ts)
    <2>1. IsEngine(x) BY <1>7, ParseFastackType
    <2>2. /\ x.conv = shrunk.conv /\ x.snd_queue = shrunk.snd_queue
          /\ x.snd_nxt = shrunk.snd_nxt
          /\ x.rcv_nxt = shrunk.rcv_nxt /\ x.rcv_buf = shrunk.rcv_buf
          /\ x.rcv_queue = shrunk.rcv_queue /\ x.ack_list = shrunk.ack_list
      BY <1>7 DEF parse_fastack, IsEngine, EngineFields
    <2>3. DOMAIN x.snd_buf = DOMAIN shrunk.snd_buf
          /\ \A k \in DOMAIN shrunk.snd_buf :
                x.snd_buf[k].frg = shrunk.snd_buf[k].frg
                /\ x.snd_buf[k].data = shrunk.snd_buf[k].data
      <3>1. \A seg \in SndSeg : [seg EXCEPT !.fastack = @ + 1].frg = seg.frg
                                /\ [seg EXCEPT !.fastack = @ + 1].data = seg.data
        BY DEF SndSeg
      <3>2. \A k \in DOMAIN shrunk.snd_buf : shrunk.snd_buf[k] \in SndSeg
        BY <1>7 DEF IsEngine, SeqNumMap
      <3>3. CASE stale_ack(shrunk, sn) BY <3>3 DEF parse_fastack
      <3>4. CASE ~stale_ack(shrunk, sn)
        <4>1. x.snd_buf = [k \in DOMAIN shrunk.snd_buf |->
                IF seq_before(k, sn) /\ time_diff(ts, shrunk.snd_buf[k].ts) >= 0
                THEN [shrunk.snd_buf[k] EXCEPT !.fastack = @ + 1] ELSE shrunk.snd_buf[k]]
          BY <3>4, <1>7 DEF parse_fastack, IsEngine, EngineFields
        <4> HIDE DEF x
        <4> QED BY <3>1, <3>2, <4>1
      <3> QED BY <3>3, <3>4
    <2> HIDE DEF x
    <2>4. Safe(x) BY <1>7, <2>1, <2>2, <2>3, SndFrame, RcvFrame
    <2> QED BY <2>4 DEF x
  <1>9. Safe(fast) BY <1>6, <1>7, <1>8 DEF AckState
  <1> HIDE DEF fast
  <1> DEFINE w == update_cwnd(fast.wnd, seq_after(fast.snd_una, e.snd_una))
             x == [fast EXCEPT !.wnd = w]
  <1>10. input(e, segs, clk) = x BY DEF input, fast, shrunk, end
  <1> HIDE DEF w
  <1>11. /\ x.conv = fast.conv /\ x.snd_queue = fast.snd_queue /\ x.snd_nxt = fast.snd_nxt
         /\ x.snd_buf = fast.snd_buf /\ x.rcv_nxt = fast.rcv_nxt /\ x.rcv_buf = fast.rcv_buf
         /\ x.rcv_queue = fast.rcv_queue /\ x.ack_list = fast.ack_list
    BY <1>9 DEF IsEngine, EngineFields
  <1> HIDE DEF x
  <1>12. RcvSide(x, base, rs, G, c) /\ SndSide(x, ss, H) BY <1>9, <1>11, SndFrame, RcvFrame
  <1> QED BY <1>10, <1>12

-----------------------------------------------------------------------------
(* flush *)

\* What flush() numbers: the stream ss goes on with the head of the queue.
Numbered(e, ss) == ss \o SubSeq(e.snd_queue, 1, move_count(e))

\* The first half of flush() numbers new segments and pays the ACKs.
LEMMA FlushHeadSafe ==
    ASSUME NEW e, IsEngine(e), NEW ss \in Stream, NEW H, SndSide(e, ss, H), NEW clk \in Words
    PROVE  LET h == flush_head(e, clk) IN
           /\ SndSide(h, Numbered(e, ss), H)
           /\ h.rcv_nxt = e.rcv_nxt /\ h.rcv_queue = e.rcv_queue /\ h.rcv_buf = e.rcv_buf
           /\ h.ack_list = <<>>
  <1> DEFINE t == probe_timer(e, clk)
             b == [flush_acks(e) EXCEPT !.probe = t]
             a == clear_probe(b)
             h == flush_head(e, clk)
  <1>1. t \in ProbeState BY ProbeTimerType
  <1> HIDE DEF t
  <1>2. IsEngine(flush_acks(e)) BY DEF flush_acks, IsEngine, EngineFields
  <1>3. IsEngine(b) BY <1>1, <1>2 DEF IsEngine, EngineFields
  <1>4. /\ b.conv = e.conv /\ b.snd_queue = e.snd_queue /\ b.snd_nxt = e.snd_nxt
        /\ b.snd_buf = e.snd_buf /\ b.snd_una = e.snd_una /\ b.wnd = e.wnd
        /\ b.rcv_nxt = e.rcv_nxt /\ b.rcv_queue = e.rcv_queue /\ b.rcv_buf = e.rcv_buf
        /\ b.ack_list = <<>>
    BY DEF flush_acks, IsEngine, EngineFields
  <1> HIDE DEF b
  <1>5. [b.probe EXCEPT !.ask_send = FALSE, !.ask_tell = FALSE] \in ProbeState
    BY <1>3 DEF IsEngine, ProbeState
  <1>6. IsEngine(a) BY <1>3, <1>5 DEF clear_probe, IsEngine, EngineFields
  <1>7. /\ a.conv = b.conv /\ a.snd_queue = b.snd_queue /\ a.snd_nxt = b.snd_nxt
        /\ a.snd_buf = b.snd_buf /\ a.snd_una = b.snd_una /\ a.wnd = b.wnd
        /\ a.rcv_nxt = b.rcv_nxt /\ a.rcv_queue = b.rcv_queue /\ a.rcv_buf = b.rcv_buf
        /\ a.ack_list = b.ack_list
    BY <1>3 DEF clear_probe, IsEngine, EngineFields
  <1> HIDE DEF a
  <1>8. SndSide(a, ss, H) BY <1>4, <1>7, SndFrame
  <1>9. move_count(a) = move_count(e) BY <1>4, <1>7 DEF move_count, send_window
  <1>10. SndSide(move_to_send_buf(a, clk), ss \o SubSeq(a.snd_queue, 1, move_count(a)), H)
    BY <1>6, <1>8, MoveSnd
  <1>11. h = move_to_send_buf(a, clk) BY DEF flush_head, a, b, t
  <1>12. /\ h.rcv_nxt = a.rcv_nxt /\ h.rcv_queue = a.rcv_queue /\ h.rcv_buf = a.rcv_buf
         /\ h.ack_list = a.ack_list
    BY <1>6, <1>11 DEF move_to_send_buf, IsEngine, EngineFields
  <1> HIDE DEF h
  <1>13. SndSide(h, Numbered(e, ss), H) BY <1>4, <1>7, <1>9, <1>10, <1>11 DEF Numbered
  <1>14. h.rcv_nxt = e.rcv_nxt /\ h.rcv_queue = e.rcv_queue /\ h.rcv_buf = e.rcv_buf
         /\ h.ack_list = <<>>
    BY <1>4, <1>7, <1>12
  <1> QED BY <1>13, <1>14 DEF h

\* Marking a segment for transmission leaves what it carries alone.
LEMMA MarkedCarries ==
    ASSUME NEW e, NEW seg \in SndSeg, NEW clk
    PROVE  marked(e, seg, clk).frg = seg.frg /\ marked(e, seg, clk).data = seg.data
  BY DEF marked, SndSeg

\* flush() keeps both halves, whether or not it succeeds.
LEMMA FlushSafe ==
    ASSUME NEW e, IsEngine(e), NEW base \in Nat, NEW rs \in Stream, NEW ss \in Stream,
           NEW G, NEW c, NEW H, RcvSide(e, base, rs, G, c), SndSide(e, ss, H), NEW clk \in Words
    PROVE  /\ RcvSide(flush(e, clk).eng, base, rs, G, c)
           /\ SndSide(flush(e, clk).eng, Numbered(e, ss), H)
  <1> DEFINE h == flush_head(e, clk)
             m == mark_segments_for_send(h, clk)
             tt == Numbered(e, ss)
             Same(x) == /\ x.rcv_nxt = e.rcv_nxt /\ x.rcv_queue = e.rcv_queue
                        /\ x.rcv_buf = e.rcv_buf /\ x.ack_list = <<>>
  <1>1. IsEngine(h) /\ SndSide(h, tt, H) /\ Same(h) BY FlushHeadType, FlushHeadSafe
  <1> HIDE DEF h, tt
  <1>2. IsEngine(m) BY <1>1, MarkType
  <1>3. SndSide(m, tt, H) /\ Same(m)
    <2> DEFINE buf == [sn \in DOMAIN h.snd_buf |-> marked(h, h.snd_buf[sn], clk)]
    <2>1. m = [h EXCEPT !.snd_buf = buf] BY DEF mark_segments_for_send
    <2> HIDE DEF buf
    <2>2. m.snd_buf = buf /\ m.conv = h.conv /\ m.snd_queue = h.snd_queue
          /\ m.snd_nxt = h.snd_nxt /\ m.rcv_nxt = h.rcv_nxt /\ m.rcv_queue = h.rcv_queue
          /\ m.rcv_buf = h.rcv_buf /\ m.ack_list = h.ack_list
      BY <1>1, <2>1 DEF IsEngine, EngineFields
    <2>3. \A sn \in DOMAIN h.snd_buf : h.snd_buf[sn] \in SndSeg
      BY <1>1 DEF IsEngine, SeqNumMap
    <2>4. DOMAIN buf = DOMAIN h.snd_buf
          /\ \A sn \in DOMAIN h.snd_buf : buf[sn].frg = h.snd_buf[sn].frg
                                        /\ buf[sn].data = h.snd_buf[sn].data
      BY <2>3, MarkedCarries DEF buf
    <2> HIDE DEF m
    <2> QED BY <1>1, <2>2, <2>4, SndFrame
  <1> HIDE DEF m
  <1> DEFINE w == update_congestion_on_loss(m.wnd, lost(h, clk), change(h, clk),
                                            WrapSub(h.snd_nxt, h.snd_una))
             x == flush(e, clk).eng
  <1>4. x \in {m, [m EXCEPT !.wnd = w]} BY DEF flush, h, m
  <1> HIDE DEF w
  <1>5. /\ x.conv = m.conv /\ x.snd_queue = m.snd_queue /\ x.snd_nxt = m.snd_nxt
        /\ x.snd_buf = m.snd_buf /\ x.rcv_nxt = m.rcv_nxt /\ x.rcv_queue = m.rcv_queue
        /\ x.rcv_buf = m.rcv_buf /\ x.ack_list = m.ack_list
    BY <1>2, <1>4 DEF IsEngine, EngineFields
  <1> HIDE DEF x
  <1>6. SndSide(x, tt, H) BY <1>3, <1>5, SndFrame
  <1>7. RcvSide(x, base, rs, G, c)
    <2>1. Same(x) BY <1>3, <1>5
    <2>2. Len(x.ack_list) = 0 BY <2>1
    <2>3. \A i \in 1 .. Len(x.ack_list) : FALSE BY <2>2
    <2> QED BY <2>1, <2>3 DEF RcvSide, Has
  <1> QED BY <1>6, <1>7 DEF x, tt

\* Every segment flush() puts out can be believed: una is what this engine
\* accepted, an ACK is owed, a PUSH carries the piece of its number.
LEMMA FlushOutBelievable ==
    ASSUME NEW e, IsEngine(e), NEW base \in Nat, NEW rs \in Stream, NEW ss \in Stream,
           NEW G, NEW c, NEW H, RcvSide(e, base, rs, G, c), SndSide(e, ss, H),
           NEW clk \in Words, NEW sns, Len(sns) \in Nat,
           \A i \in 1 .. Len(sns) : sns[i] \in DOMAIN flush_head(e, clk).snd_buf
    PROVE  flush_out(e, clk, sns) \in
              Seq({s \in WireSeg : Believable(s, base + Len(e.rcv_queue),
                                     {i \in Words : Has(e, base, i)}, Numbered(e, ss))})
  <1> DEFINE h  == flush_head(e, clk)
             p  == [e EXCEPT !.probe = probe_timer(e, clk)]
             tt == Numbered(e, ss)
             u  == base + Len(e.rcv_queue)
             Hp == {i \in Words : Has(e, base, i)}
             T  == {s \in WireSeg : Believable(s, u, Hp, tt)}
             push == [i \in 1 .. Len(sns) |-> wire(e, "PUSH", sns[i], clk, h.snd_buf[sns[i]])]
  <1>1. IsEngine(h) /\ SndSide(h, tt, H) BY FlushHeadType, FlushHeadSafe
  <1> HIDE DEF h, tt
  <1>2. IsEngine(p) /\ p.rcv_nxt = e.rcv_nxt BY ProbeTimerType DEF IsEngine, EngineFields
  <1> HIDE DEF p
  <1>3. NoPiece.frg \in Nat /\ NoPiece.data \in Bytes BY DEF NoPiece, Bytes
  <1>4. 0 \in Words BY HalfAssumption DEF Words, Word
  <1>5. index(e.rcv_nxt) = u
    <2>1. e.rcv_queue \in Seq(Piece) BY DEF IsEngine
    <2>2. Len(e.rcv_queue) \in Nat /\ u <= Len(rs) /\ e.rcv_nxt = WrapAdd(Isn, u)
      BY <2>1 DEF RcvSide
    <2>3. u \in 0 .. Len(rs) BY <2>2, StreamBound
    <2>4. u \in Words BY <2>3, StreamBound
    <2> QED BY <2>2, <2>4, Positions
  <1>6. u \in Int
    <2>1. e.rcv_queue \in Seq(Piece) BY DEF IsEngine
    <2> QED BY <2>1
  <1> HIDE DEF u, Hp
  \* A segment is believable when its sequence number is right for its command.
  <1>7. ASSUME NEW x, IsEngine(x), x.rcv_nxt = e.rcv_nxt, NEW cmd \in Cmds, NEW sn \in Words,
               NEW ts \in Words, NEW q, q.frg \in Nat, q.data \in Bytes,
               cmd = "PUSH" => /\ index(sn) < Len(tt)
                               /\ tt[index(sn) + 1] = [frg |-> q.frg, data |-> q.data],
               cmd = "ACK" => index(sn) \in Hp
        PROVE  wire(x, cmd, sn, ts, q) \in T
    <2> DEFINE s == wire(x, cmd, sn, ts, q)
    <2>1. s \in WireSeg BY <1>7, WireType
    <2>2. s.una = e.rcv_nxt /\ s.cmd = cmd /\ s.sn = sn /\ s.frg = q.frg /\ s.data = q.data
      BY <1>7 DEF wire
    <2>3. index(s.una) <= u BY <2>2, <1>5, <1>6
    <2> HIDE DEF s
    <2>4. Believable(s, u, Hp, tt) BY <2>2, <2>3, <1>7 DEF Believable
    <2> QED BY <2>1, <2>4 DEF s
  <1> HIDE DEF T
  <1>8. acks_out(e) \in Seq(T)
    <2>1. e.ack_list \in Seq([sn : Words, ts : Words]) BY DEF IsEngine
    <2>2. ASSUME NEW i \in 1 .. Len(e.ack_list)
          PROVE  wire(e, "ACK", e.ack_list[i].sn, e.ack_list[i].ts, NoPiece) \in T
      <3>1. e.ack_list[i] \in [sn : Words, ts : Words] BY <2>1, ElementOfSeq
      <3>2. e.ack_list[i].sn \in Words /\ e.ack_list[i].ts \in Words BY <3>1
      <3>3. index(e.ack_list[i].sn) \in Hp BY <3>2, Positions DEF RcvSide, Hp
      <3>4. "ACK" \in Cmds BY DEF Cmds
      <3> QED BY <3>2, <3>3, <3>4, <1>3, <1>7
    <2>3. Len(e.ack_list) \in Nat BY <2>1
    <2> QED BY <2>2, <2>3 DEF acks_out
  <1>9. probes_out(p, clk) \in Seq(T)
    <2>1. "WASK" \in Cmds /\ "WINS" \in Cmds BY DEF Cmds
    <2>2. wire(p, "WASK", 0, clk, NoPiece) \in T BY <1>2, <1>3, <1>4, <1>7, <2>1
    <2>3. wire(p, "WINS", 0, clk, NoPiece) \in T BY <1>2, <1>3, <1>4, <1>7, <2>1
    <2> DEFINE s1 == IF p.probe.ask_send THEN <<wire(p, "WASK", 0, clk, NoPiece)>> ELSE <<>>
               s2 == IF p.probe.ask_tell THEN <<wire(p, "WINS", 0, clk, NoPiece)>> ELSE <<>>
    <2>4. s1 \in Seq(T) /\ s2 \in Seq(T) BY <2>2, <2>3
    <2> HIDE DEF s1, s2
    <2>5. s1 \o s2 \in Seq(T) BY <2>4, ConcatProperties
    <2> QED BY <2>5 DEF probes_out, s1, s2
  <1>10. push \in Seq(T)
    <2>1. ASSUME NEW i \in 1 .. Len(sns)
          PROVE  wire(e, "PUSH", sns[i], clk, h.snd_buf[sns[i]]) \in T
      <3>1. sns[i] \in DOMAIN h.snd_buf BY DEF h
      <3>2. sns[i] \in Words /\ h.snd_buf[sns[i]] \in SndSeg
        BY <3>1, <1>1 DEF IsEngine, SeqNumMap
      <3>3. h.snd_buf[sns[i]].frg \in Nat /\ h.snd_buf[sns[i]].data \in Bytes
        BY <3>2 DEF SndSeg
      <3>4. /\ index(sns[i]) < Len(tt)
            /\ tt[index(sns[i]) + 1] = [frg |-> h.snd_buf[sns[i]].frg,
                                        data |-> h.snd_buf[sns[i]].data]
        BY <3>1, <1>1 DEF SndSide
      <3>5. "PUSH" \in Cmds BY DEF Cmds
      <3> QED BY <3>2, <3>3, <3>4, <3>5, <1>7
    <2> QED BY <2>1
  <1> HIDE DEF push
  <1>11. acks_out(e) \o probes_out(p, clk) \in Seq(T) BY <1>8, <1>9, ConcatProperties
  <1>12. (acks_out(e) \o probes_out(p, clk)) \o push \in Seq(T)
    BY <1>10, <1>11, ConcatProperties
  <1>13. flush_out(e, clk, sns) = (acks_out(e) \o probes_out(p, clk)) \o push
    BY DEF flush_out, h, p, push
  <1>14. flush_out(e, clk, sns) \in Seq(T) BY <1>12, <1>13
  <1> QED BY <1>14 DEF T, u, Hp, tt

-----------------------------------------------------------------------------
(* The link *)

Reached(p) == taken[p] + Len(eng[p].rcv_queue)
HeldBy(p)  == {i \in Words : Has(eng[p], taken[p], i)}

\* SafetyInv in terms of the two halves of each engine.
Halves ==
    \A p \in Peers :
        /\ numbered[p] \in Stream
        /\ RcvSide(eng[p], taken[p], numbered[other(p)], HeldBy(p), Reached(p))
        /\ SndSide(eng[p], numbered[p], HeldBy(other(p)))

NetBelievable ==
    \A d \in OnTheWay : \A i \in 1 .. Len(d.segs) :
        LET q == other(d.to) IN Believable(d.segs[i], Reached(q), HeldBy(q), numbered[q])

\* What is in flight or waits in a buffer is a datagram for one of the peers.
Addressed == \A d \in OnTheWay : d.to \in Peers /\ d.segs \in Seq(WireSeg)

\* So it is in every well-typed state.
LEMMA OnTheWayType == TypeOK => Addressed
  <1> SUFFICES ASSUME TypeOK PROVE Addressed OBVIOUS
  <1>1. \A d \in net : d.to \in Peers /\ d.segs \in Seq(WireSeg) BY DEF TypeOK
  <1>2. \A p \in Peers : other(p) \in Peers /\ out_buf[p] \in Seq(WireSeg)
    BY OtherType DEF TypeOK
  <1> QED BY <1>1, <1>2 DEF OnTheWay, Addressed

\* What is held of a stream has been numbered.
LEMMA HeldIsNumbered ==
    ASSUME NEW e, NEW base \in Nat, NEW rs, NEW G, NEW c, RcvSide(e, base, rs, G, c),
           Len(rs) \in Nat, Len(e.rcv_queue) \in Nat, NEW i \in Words, Has(e, base, i)
    PROVE  i < Len(rs)
  <1>1. i \in Nat BY HalfAssumption DEF Words, Word
  <1>2. CASE i < base + Len(e.rcv_queue) BY <1>1, <1>2 DEF RcvSide
  <1>3. CASE WrapAdd(Isn, i) \in DOMAIN e.rcv_buf BY <1>3, Positions DEF RcvSide
  <1> QED BY <1>2, <1>3 DEF Has

\* The types that the proofs below use of a peer.
LEMMA PeerTypes ==
    ASSUME TypeOK, NEW p \in Peers
    PROVE  /\ IsEngine(eng[p]) /\ taken[p] \in Nat
           /\ numbered[p] \in Seq(Piece) /\ Len(numbered[p]) \in Nat
           /\ Len(eng[p].rcv_queue) \in Nat /\ Len(eng[p].snd_queue) \in Nat
           /\ Reached(p) \in Nat
  <1>1. IsEngine(eng[p]) /\ taken[p] \in Nat /\ numbered[p] \in Seq(Piece) BY DEF TypeOK
  <1>2. eng[p].rcv_queue \in Seq(Piece) /\ eng[p].snd_queue \in Seq(Piece)
    BY <1>1 DEF IsEngine
  <1> QED BY <1>1, <1>2, SMTT(20) DEF Reached

\* The halves follow from SafetyInv.
LEMMA SafetyGivesHalves == TypeOK /\ SafetyInv => Halves /\ NetBelievable
  <1> SUFFICES ASSUME TypeOK, SafetyInv PROVE Halves /\ NetBelievable OBVIOUS
  <1>1. ASSUME NEW p \in Peers
        PROVE  /\ numbered[p] \in Stream
               /\ RcvSide(eng[p], taken[p], numbered[other(p)], HeldBy(p), Reached(p))
               /\ SndSide(eng[p], numbered[p], HeldBy(other(p)))
    <2> DEFINE q == other(p)
    <2>1. q \in Peers BY OtherType
    <2>2. Numbering(p) /\ OwesHeld(p) BY DEF SafetyInv
    <2>3. numbered[p] \in Stream
      <3>1. Len(numbered[p]) + Len(eng[p].snd_queue) <= MaxSeg BY <2>2 DEF Numbering
      <3>2. Len(numbered[p]) \in Nat /\ Len(eng[p].snd_queue) \in Nat /\ MaxSeg \in Nat
        BY PeerTypes, SpaceAssumption
      <3>3. \A a, b, m \in Nat : a + b <= m => a <= m OBVIOUS
      <3>4. Len(numbered[p]) <= MaxSeg BY <3>1, <3>2, <3>3
      <3> QED BY <3>4, PeerTypes DEF Stream
    <2>4. /\ eng[p].rcv_nxt = WrapAdd(Isn, taken[p] + Len(eng[p].rcv_queue))
          /\ taken[p] + Len(eng[p].rcv_queue) <= Len(numbered[q])
          /\ \A i \in 1 .. Len(eng[p].rcv_queue) : eng[p].rcv_queue[i] = numbered[q][taken[p] + i]
          /\ \A sn \in DOMAIN eng[p].rcv_buf :
               index(sn) < Len(numbered[q]) /\ eng[p].rcv_buf[sn] = numbered[q][index(sn) + 1]
      BY DEF SafetyInv, PiecesInOrder
    <2>5. \A i \in 1 .. Len(eng[p].ack_list) :
             /\ index(eng[p].ack_list[i].sn) < Len(numbered[q])
             /\ Has(eng[p], taken[p], index(eng[p].ack_list[i].sn))
      BY <2>2 DEF OwesHeld, Holds, Has
    <2>6. RcvSide(eng[p], taken[p], numbered[q], HeldBy(p), Reached(p))
      <3>1. Reached(p) <= taken[p] + Len(eng[p].rcv_queue) BY PeerTypes DEF Reached
      <3>2. \A i \in HeldBy(p) : Has(eng[p], taken[p], i) BY DEF HeldBy
      <3> QED BY <2>4, <2>5, <3>1, <3>2 DEF RcvSide
    <2>7. ASSUME NEW i \in 0 .. (Len(numbered[p]) - 1),
                 WrapAdd(Isn, i) \notin DOMAIN eng[p].snd_buf
          PROVE  i \in HeldBy(q)
      <3>1. Holds(q, i) BY <2>7 DEF SafetyInv, AckedDataHeld
      <3>2. i \in Words BY <2>3, StreamBound
      <3> QED BY <3>1, <3>2 DEF Holds, Has, HeldBy
    <2>8. SndSide(eng[p], numbered[p], HeldBy(q)) BY <2>2, <2>7 DEF SndSide, Numbering
    <2> QED BY <2>3, <2>6, <2>8
  <1>2. ASSUME NEW d \in OnTheWay, NEW i \in 1 .. Len(d.segs)
        PROVE  Believable(d.segs[i], Reached(other(d.to)), HeldBy(other(d.to)),
                          numbered[other(d.to)])
    <2>1. d.to \in Peers /\ d.segs \in Seq(WireSeg) BY OnTheWayType DEF Addressed
    <2>2. d.segs[i] \in WireSeg BY <2>1
    <2>3. index(d.segs[i].sn) \in Words BY <2>2, Positions DEF WireSeg
    <2>4. Truthful(d.to, d.segs[i]) BY DEF SafetyInv
    <2> QED BY <2>3, <2>4 DEF Truthful, Believable, Reached, HeldBy, Holds, Has
  <1> QED BY <1>1, <1>2 DEF Halves, NetBelievable

\* SafetyInv follows from the halves.
LEMMA HalvesGiveSafety == TypeOK /\ Halves /\ NetBelievable => SafetyInv
  <1> SUFFICES ASSUME TypeOK, Halves, NetBelievable PROVE SafetyInv OBVIOUS
  <1>1. ASSUME NEW p \in Peers
        PROVE  /\ numbered[p] \in Stream
               /\ RcvSide(eng[p], taken[p], numbered[other(p)], HeldBy(p), Reached(p))
               /\ SndSide(eng[p], numbered[p], HeldBy(other(p)))
    BY DEF Halves
  <1>2. \A p \in Peers : Numbering(p) BY <1>1 DEF Numbering, SndSide
  <1>3. \A p \in Peers : OwesHeld(p) BY <1>1 DEF OwesHeld, RcvSide, Holds, Has
  <1>4. PiecesInOrder BY <1>1 DEF PiecesInOrder, RcvSide
  <1>5. AckedDataHeld BY <1>1 DEF AckedDataHeld, SndSide, HeldBy, Holds, Has
  <1>6. ASSUME NEW d \in OnTheWay, NEW i \in 1 .. Len(d.segs) PROVE Truthful(d.to, d.segs[i])
    <2> DEFINE p == d.to
               q == other(p)
               s == d.segs[i]
    <2>1. p \in Peers /\ q \in Peers /\ other(q) = p BY OtherType, OnTheWayType DEF Addressed
    <2>2. Believable(s, Reached(q), HeldBy(q), numbered[q]) BY DEF NetBelievable
    <2>3. RcvSide(eng[q], taken[q], numbered[p], HeldBy(q), Reached(q)) BY <1>1, <2>1
    <2> HIDE DEF p, q, s
    <2>4. ASSUME NEW k \in HeldBy(q) PROVE k < Len(numbered[p]) /\ Holds(q, k)
      <3>1. k \in Words /\ Has(eng[q], taken[q], k) BY DEF HeldBy
      <3>2. k < Len(numbered[p]) BY <2>1, <2>3, <3>1, PeerTypes, HeldIsNumbered
      <3> QED BY <3>1, <3>2 DEF Holds, Has
    <2>5. Truthful(p, s) BY <2>2, <2>4 DEF Truthful, Believable, Reached, q
    <2> QED BY <2>5 DEF p, s
  <1> QED BY <1>2, <1>3, <1>4, <1>5, <1>6 DEF SafetyInv

\* rt continues rs.
Continues(rs, rt) ==
    /\ rs \in Stream /\ rt \in Stream /\ Len(rs) <= Len(rt)
    /\ \A i \in 1 .. Len(rs) : rt[i] = rs[i]

\* The receiving half stays right when the stream is continued.
LEMMA RcvGrow ==
    ASSUME NEW e, IsEngine(e), NEW base \in Nat, NEW rs, NEW rt, Continues(rs, rt),
           NEW G, NEW c, RcvSide(e, base, rs, G, c)
    PROVE  RcvSide(e, base, rt, G, c)
  <1>1. e.rcv_queue \in Seq(Piece) /\ DOMAIN e.rcv_buf \subseteq Words
        /\ e.ack_list \in Seq([sn : Words, ts : Words])
    BY DEF IsEngine, SeqNumMap
  <1>2. Len(rs) \in Nat /\ Len(rt) \in Nat /\ Len(rs) <= Len(rt) /\ Len(e.rcv_queue) \in Nat
    BY <1>1 DEF Continues, Stream
  <1>3. base + Len(e.rcv_queue) <= Len(rs) BY DEF RcvSide
  <1>4. \A i \in 1 .. Len(e.rcv_queue) : e.rcv_queue[i] = rt[base + i]
    <2> TAKE i \in 1 .. Len(e.rcv_queue)
    <2>1. base + i \in 1 .. Len(rs) BY <1>2, <1>3
    <2> QED BY <2>1 DEF RcvSide, Continues
  <1>5. \A sn \in DOMAIN e.rcv_buf : index(sn) < Len(rt) /\ e.rcv_buf[sn] = rt[index(sn) + 1]
    <2> TAKE sn \in DOMAIN e.rcv_buf
    <2>1. index(sn) \in Nat BY <1>1, IndexNat
    <2>2. index(sn) < Len(rs) /\ e.rcv_buf[sn] = rs[index(sn) + 1] BY DEF RcvSide
    <2>3. index(sn) + 1 \in 1 .. Len(rs) BY <1>2, <2>1, <2>2
    <2> QED BY <1>2, <2>1, <2>2, <2>3 DEF Continues
  <1>6. \A i \in 1 .. Len(e.ack_list) :
          index(e.ack_list[i].sn) < Len(rt) /\ Has(e, base, index(e.ack_list[i].sn))
    <2> TAKE i \in 1 .. Len(e.ack_list)
    <2>1. e.ack_list[i] \in [sn : Words, ts : Words] BY <1>1, ElementOfSeq
    <2>2. index(e.ack_list[i].sn) \in Nat BY <2>1, IndexNat
    <2>3. index(e.ack_list[i].sn) < Len(rs) /\ Has(e, base, index(e.ack_list[i].sn))
      BY DEF RcvSide
    <2> QED BY <1>2, <2>2, <2>3
  <1>7. base + Len(e.rcv_queue) <= Len(rt) BY <1>2, <1>3
  <1> QED BY <1>4, <1>5, <1>6, <1>7 DEF RcvSide

\* A believable segment stays believable as its sender goes on.
LEMMA BelievableGrow ==
    ASSUME NEW s \in WireSeg, NEW u \in Nat, NEW v \in Nat, u <= v,
           NEW H, NEW I, H \subseteq I, NEW rs, NEW rt, Continues(rs, rt),
           Believable(s, u, H, rs)
    PROVE  Believable(s, v, I, rt)
  <1>1. index(s.sn) \in Nat /\ index(s.una) \in Nat
    BY Positions, HalfAssumption DEF WireSeg, Words, Word
  <1>2. Len(rs) \in Nat /\ Len(rt) \in Nat /\ Len(rs) <= Len(rt) BY DEF Continues, Stream
  <1>3. ASSUME index(s.sn) < Len(rs)
        PROVE  index(s.sn) < Len(rt) /\ rt[index(s.sn) + 1] = rs[index(s.sn) + 1]
    <2>1. index(s.sn) + 1 \in 1 .. Len(rs) BY <1>1, <1>2, <1>3
    <2> QED BY <1>1, <1>2, <1>3, <2>1 DEF Continues
  <1>4. index(s.una) <= u => index(s.una) <= v BY <1>1
  <1> QED BY <1>3, <1>4 DEF Believable

\* One peer's step: the peer keeps its halves and goes on with its stream, the
\* other one does not move, and what is new in the network can be believed.
LEMMA PeerStep ==
    ASSUME TypeOK, TypeOK', Halves, NetBelievable, NEW p \in Peers, NEW q, q = other(p),
           eng'[q] = eng[q], taken'[q] = taken[q], numbered'[q] = numbered[q],
           Continues(numbered[p], numbered'[p]),
           RcvSide(eng'[p], taken'[p], numbered[q], HeldBy(p), Reached(p)),
           SndSide(eng'[p], numbered'[p], HeldBy(q)),
           \A d \in OnTheWay' :
              \/ d \in OnTheWay
              \/ /\ d.to = q
                 /\ \A i \in 1 .. Len(d.segs) :
                       Believable(d.segs[i], Reached(p), HeldBy(p), numbered'[p])
    PROVE  Halves' /\ NetBelievable'
  <1>1. q \in Peers /\ q # p /\ other(q) = p /\ \A r \in Peers : r = p \/ r = q
    BY OtherType, PeerAssumption DEF Peers, other
  <1>2. IsEngine(eng[q]) /\ taken[q] \in Nat /\ Reached(p) \in Nat /\ Reached(q) \in Nat
    BY <1>1, PeerTypes
  <1>3. eng'[p].rcv_queue \in Seq(Piece) /\ taken'[p] \in Nat BY DEF TypeOK, IsEngine
  <1>4. HeldBy(q)' = HeldBy(q) /\ Reached(q)' = Reached(q) BY DEF HeldBy, Reached, Has
  <1>5. HeldBy(p) \subseteq HeldBy(p)'
    <2> SUFFICES ASSUME NEW i \in HeldBy(p) PROVE i \in HeldBy(p)' OBVIOUS
    <2>1. i \in Words BY DEF HeldBy
    <2>2. Has(eng'[p], taken'[p], i) BY DEF RcvSide
    <2> QED BY <2>1, <2>2 DEF HeldBy, Has
  <1>6. Reached(p) <= Reached(p)' /\ Reached(p)' \in Nat BY <1>3 DEF RcvSide, Reached
  <1>7. numbered[q] \in Stream /\ numbered'[p] \in Stream BY <1>1 DEF Halves, Continues
  <1>8. RcvSide(eng'[p], taken'[p], numbered'[q], HeldBy(p)', Reached(p)')
    <2>1. \A i \in HeldBy(p)' : Has(eng'[p], taken'[p], i) BY DEF HeldBy, Has
    <2>2. Reached(p)' <= taken'[p] + Len(eng'[p].rcv_queue) BY <1>6 DEF Reached
    <2> QED BY <2>1, <2>2 DEF RcvSide
  <1>9. SndSide(eng'[p], numbered'[p], HeldBy(q)') BY <1>4
  <1>10. RcvSide(eng'[q], taken'[q], numbered'[p], HeldBy(q)', Reached(q)')
    <2>1. RcvSide(eng[q], taken[q], numbered[p], HeldBy(q), Reached(q)) BY <1>1 DEF Halves
    <2>2. RcvSide(eng[q], taken[q], numbered'[p], HeldBy(q), Reached(q))
      BY <1>2, <2>1, RcvGrow
    <2> QED BY <1>4, <2>2
  <1>11. SndSide(eng'[q], numbered'[q], HeldBy(p)')
    <2>1. SndSide(eng[q], numbered[q], HeldBy(p)) BY <1>1 DEF Halves
    <2> QED BY <1>5, <2>1 DEF SndSide
  <1>12. Halves' BY <1>1, <1>7, <1>8, <1>9, <1>10, <1>11 DEF Halves
  <1>13. ASSUME NEW d \in OnTheWay', NEW i \in 1 .. Len(d.segs)
         PROVE  Believable(d.segs[i], Reached(other(d.to))', HeldBy(other(d.to))',
                           numbered'[other(d.to)])
    <2>1. d.to \in Peers /\ d.segs \in Seq(WireSeg)
      <3>1. TypeOK' => Addressed' BY OnTheWayType, PTL
      <3> QED BY <3>1 DEF Addressed
    <2>2. d.segs[i] \in WireSeg BY <2>1
    <2>3. CASE d.to = p /\ d \in OnTheWay
      <3>1. Believable(d.segs[i], Reached(q), HeldBy(q), numbered[q])
        BY <2>3 DEF NetBelievable
      <3> QED BY <2>3, <3>1, <1>4
    <2>4. CASE d.to = q /\ d \in OnTheWay
      <3>1. Believable(d.segs[i], Reached(p), HeldBy(p), numbered[p])
        BY <1>1, <2>4 DEF NetBelievable
      <3>2. Believable(d.segs[i], Reached(p)', HeldBy(p)', numbered'[p])
        BY <1>2, <1>5, <1>6, <2>2, <3>1, BelievableGrow
      <3> QED BY <1>1, <2>4, <3>2
    <2>5. CASE d \notin OnTheWay
      <3>1. d.to = q /\ Believable(d.segs[i], Reached(p), HeldBy(p), numbered'[p]) BY <2>5
      <3>2. Continues(numbered'[p], numbered'[p])
        <4>1. Len(numbered'[p]) \in Nat BY <1>7 DEF Stream
        <4> QED BY <1>7, <4>1 DEF Continues
      <3>3. Believable(d.segs[i], Reached(p)', HeldBy(p)', numbered'[p])
        BY <1>2, <1>5, <1>6, <2>2, <3>1, <3>2, BelievableGrow
      <3> QED BY <1>1, <3>1, <3>3
    <2> QED BY <1>1, <2>1, <2>3, <2>4, <2>5
  <1>14. NetBelievable' BY <1>13 DEF NetBelievable
  <1> QED BY <1>12, <1>14

\* A stream continues itself, and with new pieces within the bound.
LEMMA ContinuesSelf == ASSUME NEW s \in Stream PROVE Continues(s, s)
  <1>1. Len(s) \in Nat BY DEF Stream
  <1> QED BY <1>1 DEF Continues

\* The facts a step of peer p starts from.
LEMMA PeerFacts ==
    ASSUME TypeOK, Halves, NEW p \in Peers
    PROVE  LET q == other(p) IN
           /\ q \in Peers /\ q # p /\ other(q) = p
           /\ IsEngine(eng[p]) /\ taken[p] \in Nat /\ Reached(p) \in Nat
           /\ numbered[p] \in Stream /\ numbered[q] \in Stream
           /\ HeldBy(p) \in SUBSET Words
           /\ RcvSide(eng[p], taken[p], numbered[q], HeldBy(p), Reached(p))
           /\ SndSide(eng[p], numbered[p], HeldBy(q))
  <1>1. other(p) \in Peers /\ other(p) # p /\ other(other(p)) = p BY OtherType
  <1>2. IsEngine(eng[p]) /\ taken[p] \in Nat /\ Reached(p) \in Nat BY PeerTypes
  <1> QED BY <1>1, <1>2 DEF Halves, HeldBy

\* A write only adds to the queue.
LEMMA SafeSend ==
    ASSUME TypeOK, TypeOK', Halves, NetBelievable, NEW p \in Peers, NEW size \in Sizes,
           Send(p, size)
    PROVE  Halves' /\ NetBelievable'
  <1> DEFINE q    == other(p)
             data == [i \in 1 .. size |-> offered[p] + i]
             r    == send(eng[p], data)
             x    == r.eng
  <1>1. /\ q \in Peers /\ q # p /\ IsEngine(eng[p])
        /\ numbered[p] \in Stream
        /\ RcvSide(eng[p], taken[p], numbered[q], HeldBy(p), Reached(p))
        /\ SndSide(eng[p], numbered[p], HeldBy(q))
    BY PeerFacts
  <1>2. /\ Len(numbered[p]) + Len(x.snd_queue) <= MaxSeg
        /\ eng' = [eng EXCEPT ![p] = x]
        /\ UNCHANGED <<out_buf, net, numbered, taken>>
    BY DEF Send
  <1>3. /\ x.conv = eng[p].conv /\ x.snd_nxt = eng[p].snd_nxt /\ x.snd_buf = eng[p].snd_buf
        /\ x.rcv_nxt = eng[p].rcv_nxt /\ x.rcv_queue = eng[p].rcv_queue
        /\ x.rcv_buf = eng[p].rcv_buf /\ x.ack_list = eng[p].ack_list
    <2> HIDE DEF data
    <2> QED BY <1>1 DEF send, IsEngine, EngineFields
  <1> HIDE DEF x
  <1>4. RcvSide(x, taken[p], numbered[q], HeldBy(p), Reached(p)) BY <1>1, <1>3, RcvFrame
  <1>5. SndSide(x, numbered[p], HeldBy(q)) BY <1>1, <1>2, <1>3 DEF SndSide
  <1>6. eng'[p] = x /\ eng'[q] = eng[q] BY <1>1, <1>2 DEF TypeOK
  <1>7. \A d \in OnTheWay' : d \in OnTheWay BY <1>2 DEF OnTheWay
  <1> HIDE DEF q
  <1> QED BY <1>1, <1>2, <1>4, <1>5, <1>6, <1>7, ContinuesSelf, PeerStep DEF q

\* A read takes the next message and leaves the rest in place.
LEMMA SafeRecv ==
    ASSUME TypeOK, TypeOK', Halves, NetBelievable, NEW p \in Peers, Recv(p)
    PROVE  Halves' /\ NetBelievable'
  <1> DEFINE q == other(p)
             e == eng[p]
             k == message_span(e.rcv_queue)
  <1>1. /\ q \in Peers /\ q # p /\ IsEngine(e) /\ taken[p] \in Nat /\ Reached(p) \in Nat
        /\ numbered[p] \in Stream /\ numbered[q] \in Stream /\ HeldBy(p) \in SUBSET Words
        /\ RcvSide(e, taken[p], numbered[q], HeldBy(p), Reached(p))
        /\ SndSide(e, numbered[p], HeldBy(q))
    BY PeerFacts
  <1>2. /\ e.rcv_queue # <<>>
        /\ eng' = [eng EXCEPT ![p] = recv(e)]
        /\ taken' = [taken EXCEPT ![p] = taken[p] + k]
        /\ UNCHANGED <<out_buf, net, numbered>>
    BY DEF Recv, readable
  <1>3. /\ eng'[p] = recv(e) /\ eng'[q] = eng[q]
        /\ taken'[p] = taken[p] + k /\ taken'[q] = taken[q]
    BY <1>1, <1>2 DEF TypeOK
  <1>4. RcvSide(recv(e), taken[p] + k, numbered[q], HeldBy(p), Reached(p))
    BY <1>1, <1>2, RecvRcv
  <1>5. SndSide(recv(e), numbered[p], HeldBy(q))
    <2> DEFINE x == recv(e)
    <2>1. x.conv = e.conv /\ x.snd_queue = e.snd_queue /\ x.snd_nxt = e.snd_nxt
          /\ x.snd_buf = e.snd_buf
      BY <1>1 DEF recv, move_to_recv_queue, IsEngine, EngineFields
    <2> HIDE DEF x
    <2>2. SndSide(x, numbered[p], HeldBy(q)) BY <1>1, <2>1, SndFrame
    <2> QED BY <2>2 DEF x
  <1>6. \A d \in OnTheWay' : d \in OnTheWay BY <1>2 DEF OnTheWay
  <1> HIDE DEF q, k, e
  <1> QED BY <1>1, <1>2, <1>3, <1>4, <1>5, <1>6, ContinuesSelf, PeerStep DEF q

\* A datagram that arrives tells the truth, so it keeps both halves.
LEMMA SafeInput ==
    ASSUME TypeOK, TypeOK', Halves, NetBelievable, NEW p \in Peers, Input(p)
    PROVE  Halves' /\ NetBelievable'
  <1> DEFINE q == other(p)
             e == eng[p]
  <1>1. /\ q \in Peers /\ q # p /\ other(q) = p /\ IsEngine(e) /\ taken[p] \in Nat
        /\ Reached(p) \in Nat /\ numbered[p] \in Stream /\ numbered[q] \in Stream
        /\ HeldBy(p) \in SUBSET Words
        /\ RcvSide(e, taken[p], numbered[q], HeldBy(p), Reached(p))
        /\ SndSide(e, numbered[p], HeldBy(q))
    BY PeerFacts
  <1>2. PICK d \in net : /\ d.to = p
                         /\ eng' = [eng EXCEPT ![p] = input(e, d.segs, now)]
                         /\ net' \subseteq net
    BY DEF Input
  <1>3. UNCHANGED <<out_buf, numbered, taken>> BY DEF Input
  <1>4. d.segs \in Seq(WireSeg) /\ now \in Words BY NowType DEF TypeOK
  <1>5. Reached(q) \in Nat /\ Reached(q) <= Len(numbered[p])
        /\ \A i \in Nat : i < Reached(q) => i \in HeldBy(q)
    <2>1. Reached(q) \in Nat BY <1>1, PeerTypes
    <2>2. RcvSide(eng[q], taken[q], numbered[p], HeldBy(q), Reached(q)) BY <1>1 DEF Halves
    <2>3. Reached(q) <= Len(numbered[p]) BY <2>2 DEF RcvSide, Reached
    <2>4. ASSUME NEW i \in Nat, i < Reached(q) PROVE i \in HeldBy(q)
      <3>1. i \in 0 .. Len(numbered[p]) BY <1>1, <2>1, <2>3, <2>4, StreamBound
      <3>2. i \in Words BY <1>1, <3>1, StreamBound
      <3>3. Has(eng[q], taken[q], i) BY <2>4 DEF Reached, Has
      <3> QED BY <3>2, <3>3 DEF HeldBy
    <2> QED BY <2>1, <2>3, <2>4
  <1>6. \A i \in 1 .. Len(d.segs) : Believable(d.segs[i], Reached(q), HeldBy(q), numbered[q])
    BY <1>2 DEF NetBelievable, OnTheWay
  <1> DEFINE x == input(e, d.segs, now)
  <1>7. RcvSide(x, taken[p], numbered[q], HeldBy(p), Reached(p))
        /\ SndSide(x, numbered[p], HeldBy(q))
    <2> HIDE DEF q, e
    <2> QED BY <1>1, <1>4, <1>5, <1>6, InputSafe
  <1> HIDE DEF x
  <1>8. eng'[p] = x /\ eng'[q] = eng[q] BY <1>1, <1>2 DEF TypeOK, x
  <1>9. \A g \in OnTheWay' : g \in OnTheWay BY <1>2, <1>3 DEF OnTheWay
  <1> HIDE DEF q, e
  <1> QED BY <1>1, <1>2, <1>3, <1>7, <1>8, <1>9, ContinuesSelf, PeerStep DEF q

\* What flush numbers continues the stream.
LEMMA NumberedContinues ==
    ASSUME NEW e, IsEngine(e), NEW ss \in Stream, NEW H, SndSide(e, ss, H)
    PROVE  Continues(ss, Numbered(e, ss))
  <1> DEFINE n == move_count(e)
             head == SubSeq(e.snd_queue, 1, n)
  <1>1. e.snd_queue \in Seq(Piece) /\ ss \in Seq(Piece) /\ Len(ss) \in Nat
    BY DEF IsEngine, Stream
  <1>2. n \in 0 .. Len(e.snd_queue) BY MoveCount
  <1> HIDE DEF n
  <1>3. head \in Seq(Piece) /\ Len(head) = n BY <1>1, <1>2
  <1>4. Numbered(e, ss) = ss \o head BY DEF Numbered, n
  <1> HIDE DEF head
  <1>5. /\ ss \o head \in Seq(Piece) /\ Len(ss \o head) = Len(ss) + n
        /\ \A i \in 1 .. (Len(ss) + n) : (ss \o head)[i] =
               IF i <= Len(ss) THEN ss[i] ELSE head[i - Len(ss)]
    BY <1>1, <1>3, ConcatProperties
  <1>6. Len(ss) + Len(e.snd_queue) <= MaxSeg BY DEF SndSide
  <1>7. Len(e.snd_queue) \in Nat /\ MaxSeg \in Nat BY <1>1, SpaceAssumption
  <1>8. Len(ss) + n <= MaxSeg /\ Len(ss) <= Len(ss) + n BY <1>1, <1>2, <1>6, <1>7
  <1>9. \A i \in 1 .. Len(ss) : i \in 1 .. (Len(ss) + n) /\ i <= Len(ss) BY <1>1, <1>2, <1>7
  <1>10. \A i \in 1 .. Len(ss) : (ss \o head)[i] = ss[i] BY <1>5, <1>9
  <1> QED BY <1>4, <1>5, <1>8, <1>10 DEF Continues, Stream

\* flush on the link: the engine and the stream of one peer.
LEMMA FlushedPeer ==
    ASSUME TypeOK, Halves, NEW p \in Peers
    PROVE  LET x  == flush(eng[p], now).eng
               tt == Numbered(eng[p], numbered[p])
           IN  /\ Continues(numbered[p], tt)
               /\ RcvSide(x, taken[p], numbered[other(p)], HeldBy(p), Reached(p))
               /\ SndSide(x, tt, HeldBy(other(p)))
  <1> DEFINE q == other(p)
  <1>1. /\ IsEngine(eng[p]) /\ taken[p] \in Nat
        /\ numbered[p] \in Stream /\ numbered[q] \in Stream
        /\ RcvSide(eng[p], taken[p], numbered[q], HeldBy(p), Reached(p))
        /\ SndSide(eng[p], numbered[p], HeldBy(q))
    BY PeerFacts
  <1>2. now \in Words BY NowType DEF TypeOK
  <1> HIDE DEF q
  <1>3. Continues(numbered[p], Numbered(eng[p], numbered[p])) BY <1>1, NumberedContinues
  <1>4. /\ RcvSide(flush(eng[p], now).eng, taken[p], numbered[q], HeldBy(p), Reached(p))
        /\ SndSide(flush(eng[p], now).eng, Numbered(eng[p], numbered[p]), HeldBy(q))
    BY <1>1, <1>2, FlushSafe
  <1> QED BY <1>3, <1>4 DEF q

\* A flush that the driver goes on from keeps the halves; what it sends and what it
\* leaves in the buffer can be believed.
LEMMA SafeFlush ==
    ASSUME TypeOK, TypeOK', Halves, NetBelievable, NEW p \in Peers,
           Flush(p) \/ FlushIgnored(p)
    PROVE  Halves' /\ NetBelievable'
  <1> DEFINE q  == other(p)
             e  == eng[p]
             h  == flush_head(e, now)
             x  == flush(e, now).eng
             tt == Numbered(e, numbered[p])
  <1>1. /\ q \in Peers /\ q # p /\ IsEngine(e) /\ taken[p] \in Nat
        /\ numbered[p] \in Stream /\ numbered[q] \in Stream
        /\ RcvSide(e, taken[p], numbered[q], HeldBy(p), Reached(p))
        /\ SndSide(e, numbered[p], HeldBy(q))
    BY PeerFacts
  <1>2. now \in Words BY NowType DEF TypeOK
  <1>3. /\ eng' = [eng EXCEPT ![p] = x]
        /\ numbered' = [numbered EXCEPT ![p] = tt]
        /\ UNCHANGED taken
    BY DEF Flush, FlushIgnored, FlushEngine, Numbered
  <1>4. /\ Continues(numbered[p], tt)
        /\ RcvSide(x, taken[p], numbered[q], HeldBy(p), Reached(p))
        /\ SndSide(x, tt, HeldBy(q))
    BY FlushedPeer
  <1> HIDE DEF x, tt
  <1>5. eng'[p] = x /\ eng'[q] = eng[q] /\ numbered'[p] = tt /\ numbered'[q] = numbered[q]
    BY <1>1, <1>3 DEF TypeOK
  <1> DEFINE T == {s \in WireSeg : Believable(s, Reached(p), HeldBy(p), tt)}
  <1>6. out_buf \in [Peers -> Seq(WireSeg)] /\ other(q) = p BY OtherType DEF TypeOK
  <1>7. out_buf[p] \in Seq(T)
    <2> DEFINE w == out_buf[p]
    <2>1. w \in Seq(WireSeg) BY <1>6
    <2>2. [to |-> q, segs |-> w] \in OnTheWay BY DEF OnTheWay
    <2>3. \A i \in 1 .. Len(w) : Believable(w[i], Reached(p), HeldBy(p), numbered[p])
      BY <1>6, <2>2 DEF NetBelievable
    <2>4. Reached(p) \in Nat BY PeerTypes
    <2> HIDE DEF w
    <2>5. \A i \in 1 .. Len(w) : w[i] \in WireSeg BY <2>1
    <2>6. \A i \in 1 .. Len(w) : Believable(w[i], Reached(p), HeldBy(p), tt)
      BY <1>4, <2>3, <2>4, <2>5, BelievableGrow
    <2>7. \A i \in 1 .. Len(w) : w[i] \in T BY <2>5, <2>6
    <2> HIDE DEF T
    <2> QED BY <2>1, <2>7 DEF w
  <1>8. ASSUME NEW sns, Len(sns) \in Nat,
               \A i \in 1 .. Len(sns) : sns[i] \in DOMAIN h.snd_buf
        PROVE  flush_out(e, now, sns) \in Seq(T)
    BY <1>1, <1>2, <1>8, FlushOutBelievable DEF Reached, HeldBy, tt
  <1> HIDE DEF T
  <1>9. /\ \E left \in Seq(T) : out_buf' = [out_buf EXCEPT ![p] = left]
        /\ \A d \in net' : d \in net \/ (d.to = q /\ d.segs \in Seq(T))
    BY <1>1, <1>2, <1>6, <1>7, <1>8, SentOut
  <1> HIDE DEF q, e, h
  <1>10. \A d \in OnTheWay' : d \in OnTheWay \/ (d.to = q /\ d.segs \in Seq(T))
    <2>1. \A d \in net' : d \in OnTheWay \/ (d.to = q /\ d.segs \in Seq(T))
      BY <1>9 DEF OnTheWay
    <2>2. ASSUME NEW r \in Peers
          PROVE  LET d == [to |-> other(r), segs |-> out_buf'[r]]
                 IN  d \in OnTheWay \/ (d.to = q /\ d.segs \in Seq(T))
      <3>1. PICK left \in Seq(T) : out_buf' = [out_buf EXCEPT ![p] = left] BY <1>9
      <3>2. CASE r = p
        <4>1. out_buf'[r] = left /\ other(r) = q BY <1>6, <3>1, <3>2 DEF q
        <4> QED BY <4>1
      <3>3. CASE r # p
        <4>1. out_buf'[r] = out_buf[r] BY <1>6, <3>1, <3>3
        <4> QED BY <4>1 DEF OnTheWay
      <3> QED BY <3>2, <3>3
    <2> QED BY <2>1, <2>2 DEF OnTheWay
  <1>11. \A d \in OnTheWay' :
           \/ d \in OnTheWay
           \/ /\ d.to = q
              /\ \A i \in 1 .. Len(d.segs) :
                    Believable(d.segs[i], Reached(p), HeldBy(p), numbered'[p])
    <2>1. ASSUME NEW g \in Seq(T), NEW i \in 1 .. Len(g)
          PROVE  Believable(g[i], Reached(p), HeldBy(p), tt)
      <3>1. g[i] \in T OBVIOUS
      <3> QED BY <3>1 DEF T
    <2> QED BY <1>5, <1>10, <2>1
  <1>12. taken'[p] = taken[p] /\ taken'[q] = taken[q] BY <1>3
  <1> QED BY <1>1, <1>4, <1>5, <1>11, <1>12, PeerStep DEF q

\* A failing flush keeps the halves and sends nothing.
LEMMA SafeFlushLost ==
    ASSUME TypeOK, TypeOK', Halves, NetBelievable, NEW p \in Peers, FlushLost(p)
    PROVE  Halves' /\ NetBelievable'
  <1> DEFINE q  == other(p)
             x  == flush(eng[p], now).eng
             tt == Numbered(eng[p], numbered[p])
  <1>1. q \in Peers /\ q # p BY OtherType
  <1>2. /\ eng' = [eng EXCEPT ![p] = x]
        /\ numbered' = [numbered EXCEPT ![p] = tt]
        /\ UNCHANGED <<out_buf, net, taken>>
    BY DEF FlushLost, FlushEngine, Numbered
  <1>3. /\ Continues(numbered[p], tt)
        /\ RcvSide(x, taken[p], numbered[q], HeldBy(p), Reached(p))
        /\ SndSide(x, tt, HeldBy(q))
    BY FlushedPeer
  <1> HIDE DEF x, tt
  <1>4. eng'[p] = x /\ eng'[q] = eng[q] /\ numbered'[p] = tt /\ numbered'[q] = numbered[q]
    BY <1>1, <1>2 DEF TypeOK
  <1>5. taken'[p] = taken[p] /\ taken'[q] = taken[q] /\ \A d \in OnTheWay' : d \in OnTheWay
    BY <1>2 DEF OnTheWay
  <1> HIDE DEF q
  <1> QED BY <1>3, <1>4, <1>5, PeerStep DEF q

\* Fresh engines and a network of foreign datagrams are safe.
LEMMA SafeInit == Init => SafetyInv
  <1> SUFFICES ASSUME Init PROVE SafetyInv OBVIOUS
  <1>1. TypeOK BY TypeInit
  <1>2. ASSUME NEW p \in Peers
        PROVE  /\ eng[p] = new(Conv, Isn) /\ taken[p] = 0 /\ numbered[p] = <<>>
               /\ other(p) \in Peers
    BY OtherType DEF Init
  <1>3. MaxSeg \in Nat /\ <<>> \in Stream BY SpaceAssumption DEF Stream
  <1>4. WrapAdd(Isn, 0) = Isn BY SpaceAssumption, HalfAssumption DEF WrapAdd, Words, Word
  <1>5. ASSUME NEW G, NEW c, c <= 0, G = {} PROVE RcvSide(new(Conv, Isn), 0, <<>>, G, c)
    BY <1>4, <1>5 DEF RcvSide, new
  <1>6. ASSUME NEW H PROVE SndSide(new(Conv, Isn), <<>>, H)
    BY <1>3, <1>4 DEF SndSide, new
  <1>7. ASSUME NEW p \in Peers PROVE HeldBy(p) = {} /\ Reached(p) = 0
    <2>1. Words \subseteq Nat BY HalfAssumption DEF Words, Word
    <2>2. Len(eng[p].rcv_queue) = 0 /\ DOMAIN eng[p].rcv_buf = {} /\ taken[p] = 0
      BY <1>2 DEF new
    <2>3. ASSUME NEW i \in Words PROVE ~Has(eng[p], taken[p], i)
      <3>1. i \in Nat BY <2>1
      <3> QED BY <2>2, <3>1 DEF Has
    <2> QED BY <2>2, <2>3 DEF HeldBy, Reached
  <1>8. Halves
    <2> SUFFICES ASSUME NEW p \in Peers
                 PROVE  /\ numbered[p] \in Stream
                        /\ RcvSide(eng[p], taken[p], numbered[other(p)], HeldBy(p), Reached(p))
                        /\ SndSide(eng[p], numbered[p], HeldBy(other(p)))
      BY DEF Halves
    <2>1. eng[p] = new(Conv, Isn) /\ taken[p] = 0 /\ numbered[p] = <<>>
          /\ numbered[other(p)] = <<>>
      BY <1>2
    <2>2. HeldBy(p) = {} /\ Reached(p) <= 0 BY <1>7
    <2> QED BY <1>3, <1>5, <1>6, <2>1, <2>2
  <1>9. NetBelievable
    <2>1. \A d \in OnTheWay : d \in Stray \/ d.segs = <<>> BY DEF Init, OnTheWay
    <2>2. ASSUME NEW d, d.segs = <<>> PROVE \A i \in 1 .. Len(d.segs) : FALSE BY <2>2
    <2> QED BY <2>1, <2>2, StrayAssumption DEF NetBelievable, Believable
  <1> QED BY <1>1, <1>8, <1>9, HalvesGiveSafety

\* Whatever the network loses, repeats, delays or reorders, and whatever the
\* windows, the mtu and the width of a word: the buffers of the two engines
\* match the streams they exchange, ACKs are owed only for data that is held
\* and no datagram in flight, however old, can mislead the engine it reaches.
THEOREM Safety == Spec => []SafetyInv
  <1>1. TypeOK /\ TypeOK' /\ SafetyInv /\ [Next]_vars => SafetyInv'
    <2> SUFFICES ASSUME TypeOK, TypeOK', SafetyInv, [Next]_vars PROVE SafetyInv' OBVIOUS
    <2>1. Halves /\ NetBelievable BY SafetyGivesHalves
    <2>2. TypeOK' /\ Halves' /\ NetBelievable' => SafetyInv' BY HalvesGiveSafety, PTL
    <2> SUFFICES Halves' /\ NetBelievable' BY <2>2
    <2>3. CASE \E p \in Writers : \E size \in Sizes : Send(p, size)
      BY <2>1, <2>3, SafeSend, PeerAssumption DEF Peers
    <2>4. CASE \E p \in Peers : Recv(p) BY <2>1, <2>4, SafeRecv
    <2>5. CASE \E p \in Peers : Input(p) BY <2>1, <2>5, SafeInput
    <2>6. CASE \E p \in Peers : Flush(p) BY <2>1, <2>6, SafeFlush
    <2>7. CASE \E p \in Peers : FlushLost(p) BY <2>1, <2>7, SafeFlushLost
    <2>11. CASE \E p \in Peers : FlushIgnored(p) BY <2>1, <2>11, SafeFlush
    <2>8. CASE UNCHANGED <<eng, out_buf, net, numbered, taken>>
      BY <2>1, <2>8 DEF Halves, NetBelievable, OnTheWay, HeldBy, Reached
    <2>9. CASE Tick BY <2>8, <2>9 DEF Tick
    <2>10. CASE UNCHANGED vars BY <2>8, <2>10 DEF vars
    <2> QED BY <2>3, <2>4, <2>5, <2>6, <2>7, <2>9, <2>10, <2>11 DEF Next
  <1> QED BY SafeInit, TypeCorrect, <1>1, PTL DEF Spec

\* The receive queue always continues the peer's stream where the last read
\* stopped, and the reassembly buffer holds the right pieces.
THEOREM InOrder == Spec => []PiecesInOrder
  <1>1. SafetyInv => PiecesInOrder BY DEF SafetyInv
  <1> QED BY <1>1, Safety, PTL

\* A piece that left the sender's buffer is held by the receiver.
THEOREM NothingLost == Spec => []AckedDataHeld
  <1>1. SafetyInv => AckedDataHeld BY DEF SafetyInv
  <1> QED BY <1>1, Safety, PTL
=============================================================================
