---------------------------- MODULE KcpLinkProofs ----------------------------
(***************************************************************************)
(* Theorems about KcpLink, for every configuration, number of segments,    *)
(* network and clock, and first the facts they rest on: what the operators *)
(* of KcpEngine preserve and return.                                       *)
(***************************************************************************)
EXTENDS KcpLink, TLAPS, SequenceTheorems, WellFoundedInduction, FiniteSetTheorems

-----------------------------------------------------------------------------
(* Words *)

\* WrapAdd of a word and an offset below the word size is a word.
LEMMA WrapAddType ==
    ASSUME NEW a \in Words, NEW b \in Nat, b < Word PROVE WrapAdd(a, b) \in Words
  BY HalfAssumption DEF WrapAdd, Words, Word

\* WrapSub of words is a word.
LEMMA WrapSubType == \A a, b \in Words : WrapSub(a, b) \in Words
  BY HalfAssumption DEF WrapSub, Words, Word

\* Adding an offset and subtracting the base gives the offset back.
LEMMA WrapRoundTrip ==
    ASSUME NEW a \in Words, NEW b \in Words
    PROVE  WrapSub(WrapAdd(a, b), a) = b /\ WrapAdd(a, WrapSub(b, a)) = b
  BY HalfAssumption DEF WrapAdd, WrapSub, Words, Word

\* Within half the number space from a common origin, the wrapping comparison
\* is the order of the distances from the origin.
LEMMA SeqBeforeIsOrder ==
    ASSUME NEW o \in Words, NEW a \in Words, NEW b \in Words,
           WrapSub(a, o) < Half, WrapSub(b, o) < Half
    PROVE  seq_before(a, b) <=> WrapSub(a, o) < WrapSub(b, o)
  BY HalfAssumption DEF seq_before, time_diff, WrapSub, Words, Word

-----------------------------------------------------------------------------
(* Arithmetic *)

\* Division of naturals stays in the naturals.
LEMMA DivNat == \A a \in Nat : \A b \in Nat \ {0} : a \div b \in Nat
  OBVIOUS

\* A nonempty set of naturals has a least element.
LEMMA NatMin ==
    ASSUME NEW T, T \subseteq Nat, T # {} PROVE \E x \in T : \A y \in T : x <= y
  <1> DEFINE R == {ss \in Nat \X Nat : ss[1] < ss[2]}
  <1>1. IsWellFoundedOn(R, Nat) BY NatLessThanWellFounded DEF OpToRel
  <1> HIDE DEF R
  <1>2. PICK x \in T : \A y \in T : ~(<<y, x>> \in R) BY <1>1, WFMin
  <1>3. ASSUME NEW y \in T PROVE x <= y
    <2>1. <<y, x>> \in Nat \X Nat OBVIOUS
    <2>2. <<y, x>> \notin R BY <1>2
    <2>3. ~(y < x)
      <3>1. <<y, x>>[1] = y /\ <<y, x>>[2] = x OBVIOUS
      <3> QED BY <2>1, <2>2, <3>1 DEF R
    <2> QED BY <2>3
  <1> QED BY <1>3

\* A nonempty bounded set of naturals has a greatest element.
LEMMA NatMax ==
    ASSUME NEW b \in Nat, NEW T, T \subseteq 0 .. b, T # {}
    PROVE  \E x \in T : \A y \in T : y <= x
  <1> DEFINE U == {b - x : x \in T}
  <1>1. U \subseteq Nat /\ U # {}
    <2>1. \A x \in T : b - x \in Nat OBVIOUS
    <2>2. PICK t \in T : TRUE OBVIOUS
    <2>3. b - t \in U BY <2>2
    <2> QED BY <2>1, <2>3
  <1>2. PICK u \in U : \A v \in U : u <= v BY <1>1, NatMin
  <1>3. PICK x \in T : u = b - x BY <1>2
  <1>4. \A y \in T : b - x <= b - y BY <1>2, <1>3
  <1> QED BY <1>3, <1>4

\* Induction up to a bound, for a set instead of a predicate.
LEMMA UpTo ==
    ASSUME NEW L \in Nat, NEW S, 0 \in S, \A n \in 1 .. L : n - 1 \in S => n \in S
    PROVE  L \in S
  <1> DEFINE T == {n \in Nat : n <= L /\ n \notin S}
  <1> SUFFICES ASSUME L \notin S PROVE FALSE OBVIOUS
  <1>1. L \in T OBVIOUS
  <1>2. PICK n \in T : \A m \in T : n <= m BY <1>1, NatMin
  <1>3. n \in Nat /\ n <= L /\ n \notin S OBVIOUS
  <1>4. n \in 1 .. L /\ n - 1 \in Nat /\ n - 1 <= L BY <1>3
  <1>5. n - 1 \notin T
    <2> HIDE DEF T
    <2> QED BY <1>2, <1>4
  <1> QED BY <1>3, <1>4, <1>5

\* The clamp of the mtu in new() leaves room for at least one payload byte.
LEMMA MssType == mss \in Nat \ {0} /\ Mtu \in Nat
  BY SizeAssumption DEF mss, Mtu, Max2

\* update_ack keeps the estimator within its bounds, whatever the sample.
LEMMA UpdateAckType ==
    ASSUME NEW rtt \in RttState, NEW sample \in Int
    PROVE  update_ack(rtt, sample) \in RttState
  <1> DEFINE r     == Clamp(sample, 0, RtoMax)
             delta == IF r > rtt.avg THEN r - rtt.avg ELSE rtt.avg - r
             avg   == IF rtt.avg = 0 THEN r ELSE Max2(1, (7 * rtt.avg + r) \div 8)
             var   == IF rtt.avg = 0 THEN r \div 2 ELSE (3 * rtt.var + delta) \div 4
             rto   == Clamp(avg + Max2(Interval, 4 * var), MinRto, RtoMax)
  <1>1. rtt.avg \in 0 .. RtoMax /\ rtt.var \in 0 .. RtoMax BY DEF RttState
  <1>2. r \in 0 .. RtoMax BY TimingAssumption DEF Clamp
  <1>3. delta \in 0 .. RtoMax BY <1>1, <1>2, TimingAssumption
  <1> HIDE DEF r, delta
  <1>4. avg \in 0 .. RtoMax BY <1>1, <1>2, TimingAssumption DEF Max2
  <1>5. var \in 0 .. RtoMax BY <1>1, <1>2, <1>3, TimingAssumption
  <1> HIDE DEF avg, var
  <1>6. rto \in MinRto .. RtoMax BY <1>4, <1>5, TimingAssumption DEF Clamp, Max2
  <1>7. update_ack(rtt, sample) = [avg |-> avg, var |-> var, rto |-> rto]
    BY DEF update_ack, r, delta, avg, var
  <1> HIDE DEF rto
  <1> QED BY <1>4, <1>5, <1>6, <1>7 DEF RttState

\* update_cwnd keeps the window state well typed.
LEMMA UpdateCwndType ==
    ASSUME NEW w \in WindowState, NEW adv \in BOOLEAN PROVE update_cwnd(w, adv) \in WindowState
  <1> DEFINE base == Max2(w.incr, mss)
             incr == base + (mss * mss) \div base + mss \div 16
  <1>1. w.incr \in Nat /\ w.cwnd \in Nat /\ w.rmt \in Nat /\ w.ssthresh \in Nat
    BY DEF WindowState
  <1>2. base \in Nat \ {0} BY <1>1, MssType DEF Max2
  <1>3. mss * mss \in Nat BY MssType
  <1>4. (mss * mss) \div base \in Nat BY <1>2, <1>3, DivNat
  <1>5. mss \div 16 \in Nat BY MssType
  <1>6. incr \in Nat BY <1>2, <1>4, <1>5
  <1>7. incr + mss - 1 \in Nat BY <1>6, MssType
  <1>8. DivCeil(incr, mss) \in Nat BY <1>7, MssType, DivNat DEF DivCeil
  <1>9. grown(w) \in WindowState
    <2> HIDE DEF incr
    <2>1. grown(w) = [w EXCEPT !.incr = incr,
              !.cwnd = IF (w.cwnd + 1) * mss <= incr THEN DivCeil(incr, mss) ELSE @]
      BY DEF grown, incr
    <2> QED BY <2>1, <1>6, <1>8, <1>1 DEF WindowState
  <1>10. w.rmt * mss \in Nat BY <1>1, MssType
  <1> DEFINE g == IF w.cwnd < w.ssthresh
                  THEN [w EXCEPT !.cwnd = @ + 1, !.incr = @ + mss] ELSE grown(w)
  <1>11. g \in WindowState
    <2>1. w.incr + mss \in Nat /\ w.cwnd + 1 \in Nat BY <1>1, MssType
    <2>2. [w EXCEPT !.cwnd = @ + 1, !.incr = @ + mss] \in WindowState
      BY <1>1, <2>1 DEF WindowState
    <2> QED BY <2>2, <1>9
  <1> HIDE DEF g
  <1>12. [g EXCEPT !.cwnd = w.rmt, !.incr = w.rmt * mss] \in WindowState
    BY <1>1, <1>10, <1>11 DEF WindowState
  <1>13. update_cwnd(w, adv) \in {w, g, [g EXCEPT !.cwnd = w.rmt, !.incr = w.rmt * mss]}
    BY DEF update_cwnd, g
  <1> QED BY <1>11, <1>12, <1>13

-----------------------------------------------------------------------------
(* Types of the engine's operations *)

\* Removing entries keeps a sequence-number map well typed.
LEMMA WithoutType ==
    ASSUME NEW f, NEW S, NEW T, SeqNumMap(f, T) PROVE SeqNumMap(Without(f, S), T)
  BY DEF SeqNumMap, Without

\* KcpEngine::new builds a well-typed engine.
LEMMA NewType == ASSUME NEW c \in Nat, NEW isn \in Words PROVE IsEngine(new(c, isn))
  BY HalfAssumption, WindowAssumption, TimingAssumption, CongestionAssumption
  DEF IsEngine, new, EngineFields, RttState, WindowState, ProbeState, SeqNumMap, Words, Word

\* parse_una keeps the engine well typed.
LEMMA ParseUnaType ==
    ASSUME NEW e, IsEngine(e), NEW una \in Words PROVE IsEngine(parse_una(e, una))
  BY WithoutType DEF parse_una, IsEngine, EngineFields

\* parse_ack keeps the engine well typed.
LEMMA ParseAckType ==
    ASSUME NEW e, IsEngine(e), NEW sn \in Words PROVE IsEngine(parse_ack(e, sn))
  BY WithoutType DEF parse_ack, IsEngine, EngineFields

\* parse_fastack keeps the engine well typed.
LEMMA ParseFastackType ==
    ASSUME NEW e, IsEngine(e), NEW sn \in Words, NEW ts \in Words
    PROVE  IsEngine(parse_fastack(e, sn, ts))
  <1> DEFINE f == [k \in DOMAIN e.snd_buf |->
            IF seq_before(k, sn) /\ time_diff(ts, e.snd_buf[k].ts) >= 0
            THEN [e.snd_buf[k] EXCEPT !.fastack = @ + 1] ELSE e.snd_buf[k]]
  <1>1. ASSUME NEW seg \in SndSeg PROVE [seg EXCEPT !.fastack = @ + 1] \in SndSeg
    BY DEF SndSeg
  <1>2. SeqNumMap(e.snd_buf, SndSeg) BY DEF IsEngine
  <1>3. SeqNumMap(f, SndSeg) BY <1>1, <1>2 DEF SeqNumMap
  <1> HIDE DEF f
  <1>4. IsEngine([e EXCEPT !.snd_buf = f]) BY <1>3 DEF IsEngine, EngineFields
  <1> QED BY <1>4 DEF parse_fastack, f

\* The front of a nonempty send buffer exists and is the segment numbered first.
LEMMA FrontIsFirst ==
    ASSUME NEW e, IsEngine(e), DOMAIN e.snd_buf # {}
    PROVE  /\ front(e) \in DOMAIN e.snd_buf
           /\ \A k \in DOMAIN e.snd_buf :
                 WrapSub(front(e), e.snd_una) <= WrapSub(k, e.snd_una)
  <1> DEFINE T == {WrapSub(k, e.snd_una) : k \in DOMAIN e.snd_buf}
  <1>1. DOMAIN e.snd_buf \subseteq Words /\ e.snd_una \in Words BY DEF IsEngine, SeqNumMap
  <1>2. T \subseteq Nat /\ T # {} BY <1>1, WrapSubType DEF Words
  <1>3. PICK x \in T : \A y \in T : x <= y BY <1>2, NatMin
  <1>4. \E sn \in DOMAIN e.snd_buf : \A k \in DOMAIN e.snd_buf :
            WrapSub(sn, e.snd_una) <= WrapSub(k, e.snd_una) BY <1>3
  <1> QED BY <1>4 DEF front

\* shrink_buf keeps the engine well typed: snd_una becomes a sequence number.
LEMMA ShrinkBufType == ASSUME NEW e, IsEngine(e) PROVE IsEngine(shrink_buf(e))
  <1>1. DOMAIN e.snd_buf # {} => front(e) \in Words
    BY FrontIsFirst DEF IsEngine, SeqNumMap
  <1> QED BY <1>1 DEF shrink_buf, IsEngine, EngineFields

\* run_length counts segments that are present and fit, and stops only where
\* the next one is missing or the queue is full.
LEMMA RunLength ==
    ASSUME NEW e, IsEngine(e)
    PROVE  /\ run_length(e) \in Nat
           /\ run_length(e) > 0 => Len(e.rcv_queue) + run_length(e) <= RcvWnd
           /\ \A i \in 0 .. (run_length(e) - 1) :
                 WrapAdd(e.rcv_nxt, i) \in DOMAIN e.rcv_buf
           /\ Len(e.rcv_queue) + run_length(e) < RcvWnd =>
                 WrapAdd(e.rcv_nxt, run_length(e)) \notin DOMAIN e.rcv_buf
  <1> DEFINE room    == RcvWnd - Len(e.rcv_queue)
             present == {n \in 0 .. room :
                \A i \in 0 .. (n - 1) : WrapAdd(e.rcv_nxt, i) \in DOMAIN e.rcv_buf}
  <1>1. Len(e.rcv_queue) \in Nat /\ room \in Int BY WindowAssumption DEF IsEngine
  <1>2. CASE room <= 0
    <2>1. run_length(e) = 0 BY <1>2 DEF run_length
    <2> QED BY <2>1, <1>1, <1>2, WindowAssumption
  <1>3. CASE room > 0
    <2>1. 0 \in present BY <1>1, <1>3
    <2>2. present \subseteq 0 .. room /\ room \in Nat BY <1>1, <1>3
    <2>3. \E n \in present : \A m \in present : m <= n BY <2>1, <2>2, NatMax
    <2>4. run_length(e) = CHOOSE n \in present : \A m \in present : m <= n
      <3>1. ~(room <= 0) BY <1>1, <1>3
      <3> QED BY <3>1, Zenon DEF run_length
    <2> DEFINE n == run_length(e)
    <2>5. n \in present /\ \A m \in present : m <= n BY <2>3, <2>4
    <2> HIDE DEF n
    <2>6. n \in 0 .. room /\ \A i \in 0 .. (n - 1) : WrapAdd(e.rcv_nxt, i) \in DOMAIN e.rcv_buf
      BY <2>5
    <2>7. ASSUME n < room, WrapAdd(e.rcv_nxt, n) \in DOMAIN e.rcv_buf PROVE FALSE
      <3>1. n + 1 \in 0 .. room BY <2>6, <2>7, <2>2
      <3>2. \A i \in 0 .. ((n + 1) - 1) : i \in 0 .. (n - 1) \/ i = n BY <2>6
      <3>3. n + 1 \in present BY <3>1, <3>2, <2>6, <2>7
      <3> QED BY <3>3, <2>5, <2>6
    <2> QED BY <2>6, <2>7, <1>1, WindowAssumption DEF n
  <1> QED BY <1>1, <1>2, <1>3

\* move_to_recv_queue keeps the engine well typed.
LEMMA MoveToRecvQueueType ==
    ASSUME NEW e, IsEngine(e) PROVE IsEngine(move_to_recv_queue(e))
  <1> DEFINE n     == run_length(e)
             moved == {WrapAdd(e.rcv_nxt, i) : i \in 0 .. (n - 1)}
             tail  == [i \in 1 .. n |-> e.rcv_buf[WrapAdd(e.rcv_nxt, i - 1)]]
  <1>1. e.rcv_queue \in Seq(Piece) /\ SeqNumMap(e.rcv_buf, Piece) /\ e.rcv_nxt \in Words
    BY DEF IsEngine
  <1>2. n \in Nat /\ \A i \in 0 .. (n - 1) : WrapAdd(e.rcv_nxt, i) \in DOMAIN e.rcv_buf
    BY RunLength
  <1>3. n <= RcvWnd BY RunLength, <1>1, WindowAssumption
  <1> HIDE DEF n
  <1>4. \A i \in 1 .. n : e.rcv_buf[WrapAdd(e.rcv_nxt, i - 1)] \in Piece
    BY <1>1, <1>2 DEF SeqNumMap
  <1>5. tail \in Seq(Piece) BY <1>2, <1>4
  <1>6. WrapAdd(e.rcv_nxt, n) \in Words
    BY <1>1, <1>2, <1>3, WindowAssumption, HalfAssumption, WrapAddType DEF Word
  <1>7. SeqNumMap(Without(e.rcv_buf, moved), Piece) BY <1>1, WithoutType
  <1>8. e.rcv_queue \o tail \in Seq(Piece) BY <1>1, <1>5
  <1>9. move_to_recv_queue(e) =
            [e EXCEPT !.rcv_queue = e.rcv_queue \o tail,
                      !.rcv_buf = Without(e.rcv_buf, moved),
                      !.rcv_nxt = WrapAdd(e.rcv_nxt, n)]
    BY DEF move_to_recv_queue, n
  <1> HIDE DEF tail, moved
  <1> QED BY <1>6, <1>7, <1>8, <1>9 DEF IsEngine, EngineFields

\* The head message spans at least one segment of a nonempty queue.
LEMMA MessageSpan ==
    ASSUME NEW q \in Seq(Piece), q # <<>>
    PROVE  message_span(q) \in 1 .. Len(q)
  <1> DEFINE ends == {i \in 1 .. Len(q) : q[i].frg = 0}
  <1>1. Len(q) \in Nat \ {0} BY EmptySeq
  <1>2. CASE ends = {} BY <1>1, <1>2 DEF message_span
  <1>3. CASE ends # {}
    <2>1. ends \subseteq Nat OBVIOUS
    <2>2. \E i \in ends : \A j \in ends : i <= j BY <2>1, <1>3, NatMin
    <2>3. message_span(q) \in ends BY <2>2, <1>3 DEF message_span
    <2> QED BY <2>3
  <1> QED BY <1>2, <1>3

\* recv() keeps the engine well typed and returns pieces.
LEMMA RecvType ==
    ASSUME NEW e, IsEngine(e), e.rcv_queue # <<>> PROVE IsEngine(recv(e))
  <1> DEFINE rest   == SubSeq(e.rcv_queue, message_span(e.rcv_queue) + 1, Len(e.rcv_queue))
             popped == [e EXCEPT !.rcv_queue = rest]
             moved  == move_to_recv_queue(popped)
             tell   == moved.probe.ask_tell \/ (Len(e.rcv_queue) >= RcvWnd
                                                /\ Len(moved.rcv_queue) < RcvWnd)
  <1>1. e.rcv_queue \in Seq(Piece) BY DEF IsEngine
  <1>2. message_span(e.rcv_queue) \in 1 .. Len(e.rcv_queue) BY <1>1, MessageSpan
  <1>3. rest \in Seq(Piece) BY <1>1, <1>2
  <1> HIDE DEF rest
  <1>4. IsEngine(popped) BY <1>3 DEF IsEngine, EngineFields
  <1> HIDE DEF popped
  <1>5. IsEngine(moved) BY <1>4, MoveToRecvQueueType
  <1> HIDE DEF moved
  <1>6. tell \in BOOLEAN OBVIOUS
  <1>7. recv(e) = [moved EXCEPT !.probe.ask_tell = tell] BY DEF recv, moved, popped, rest
  <1> HIDE DEF tell
  <1>8. [moved.probe EXCEPT !.ask_tell = tell] \in ProbeState
    BY <1>5, <1>6 DEF IsEngine, ProbeState
  <1> QED BY <1>5, <1>7, <1>8 DEF IsEngine, EngineFields

\* A slice of a payload is a payload.
LEMMA SubBytesType ==
    ASSUME NEW d \in Bytes, NEW m \in Nat \ {0}, NEW n \in Nat, n <= Len(d)
    PROVE  SubSeq(d, m, n) \in Bytes
  <1>1. \A i \in m .. n : d[i] \in Nat BY DEF Bytes
  <1> QED BY <1>1, SubSeqProperties DEF Bytes

\* The merge of stream mode keeps the send queue well typed.
LEMMA MergeType ==
    ASSUME NEW q \in Seq(Piece), NEW d \in Bytes, NEW n \in Nat, n <= Len(d),
           n > 0 => q # <<>>
    PROVE  merge(q, d, n) \in Seq(Piece)
  <1>1. CASE n = 0 BY <1>1 DEF merge
  <1>2. CASE n > 0
    <2>1. Len(q) \in 1 .. Len(q) BY <1>2, EmptySeq
    <2>2. q[Len(q)] \in Piece BY <2>1
    <2>3. SubSeq(d, 1, n) \in Bytes BY SubBytesType
    <2>4. q[Len(q)].data \o SubSeq(d, 1, n) \in Bytes
      BY <2>2, <2>3, ConcatProperties DEF Piece, Bytes
    <2>5. [q[Len(q)] EXCEPT !.data = @ \o SubSeq(d, 1, n)] \in Piece
      BY <2>2, <2>4 DEF Piece
    <2>6. merge(q, d, n) = [q EXCEPT ![Len(q)] = [q[Len(q)] EXCEPT !.data = @ \o SubSeq(d, 1, n)]]
      BY <1>2, <2>1 DEF merge
    <2> QED BY <2>1, <2>5, <2>6, ExceptSeq
  <1> QED BY <1>1, <1>2

\* The fragments of a payload are pieces.
LEMMA FragmentsType ==
    ASSUME NEW d \in Bytes
    PROVE  fragment_count(d) \in Nat /\ fragments(d) \in Seq(Piece)
  <1> DEFINE count == fragment_count(d)
             frag(i) == [frg  |-> IF StreamMode THEN 0 ELSE count - i,
                         data |-> SubSeq(d, (i - 1) * mss + 1, Min2(i * mss, Len(d)))]
  <1>1. Len(d) \in Nat BY DEF Bytes
  <1>2. count \in Nat
    <2>1. Len(d) + mss - 1 \in Nat BY <1>1, MssType
    <2> QED BY <2>1, MssType, DivNat DEF fragment_count, DivCeil
  <1> HIDE DEF count
  <1>3. ASSUME NEW i \in 1 .. count PROVE frag(i) \in Piece
    <2>1. i - 1 \in Nat /\ i \in Nat BY <1>2
    <2>2. (i - 1) * mss \in Nat /\ i * mss \in Nat BY <2>1, MssType
    <2>3. (i - 1) * mss + 1 \in Nat \ {0} BY <2>2
    <2>4. Min2(i * mss, Len(d)) \in Nat /\ Min2(i * mss, Len(d)) <= Len(d)
      BY <2>2, <1>1 DEF Min2
    <2>5. SubSeq(d, (i - 1) * mss + 1, Min2(i * mss, Len(d))) \in Bytes
      BY <2>3, <2>4, SubBytesType
    <2>6. count - i \in Nat BY <1>2
    <2> QED BY <2>5, <2>6 DEF Piece
  <1>4. fragments(d) = [i \in 1 .. count |-> frag(i)] BY DEF fragments, count
  <1> HIDE DEF frag
  <1>5. [i \in 1 .. count |-> frag(i)] \in Seq(Piece) BY <1>2, <1>3
  <1> QED BY <1>2, <1>4, <1>5 DEF count

\* send() keeps the engine well typed, accepted or not.
LEMMA SendType ==
    ASSUME NEW e, IsEngine(e), NEW d \in Bytes
    PROVE  IsEngine(send(e, d).eng)
  <1> DEFINE extend == Min2(Len(d), merge_room(e))
             rest   == SubSeq(d, extend + 1, Len(d))
             queue  == merge(e.snd_queue, d, extend)
             merged == [e EXCEPT !.snd_queue = queue]
  <1>1. e.snd_queue \in Seq(Piece) /\ e.bytes_sent \in Nat BY DEF IsEngine
  <1>2. Len(d) \in Nat BY DEF Bytes
  <1>3. merge_room(e) \in Nat /\ (merge_room(e) > 0 => e.snd_queue # <<>>)
    <2>1. CASE StreamMode /\ e.snd_queue # <<>>
      <3>1. Len(e.snd_queue) \in 1 .. Len(e.snd_queue) BY <1>1, <2>1, EmptySeq
      <3>2. e.snd_queue[Len(e.snd_queue)] \in Piece BY <1>1, <3>1
      <3>3. Len(e.snd_queue[Len(e.snd_queue)].data) \in Nat BY <3>2 DEF Piece, Bytes
      <3> QED BY <3>3, <2>1, MssType DEF merge_room, Max2
    <2>2. CASE ~(StreamMode /\ e.snd_queue # <<>>) BY <2>2 DEF merge_room
    <2> QED BY <2>1, <2>2
  <1>4. extend \in Nat /\ extend <= Len(d) /\ (extend > 0 => e.snd_queue # <<>>)
    BY <1>2, <1>3 DEF Min2
  <1> HIDE DEF extend
  <1>5. queue \in Seq(Piece) BY <1>1, <1>4, MergeType
  <1>6. rest \in Bytes BY <1>2, <1>4, SubBytesType
  <1>7. Len(rest) \in Nat BY <1>6 DEF Bytes
  <1> HIDE DEF rest, queue
  <1>8. IsEngine(merged) BY <1>5 DEF IsEngine, EngineFields
  <1>9. IsEngine([merged EXCEPT !.bytes_sent = @ + extend])
    BY <1>1, <1>4, <1>5 DEF IsEngine, EngineFields
  <1>10. queue \o fragments(rest) \in Seq(Piece) BY <1>5, <1>6, FragmentsType, ConcatProperties
  <1>11. IsEngine([merged EXCEPT !.snd_queue = @ \o fragments(rest),
                                 !.bytes_sent = @ + Len(rest)])
    BY <1>1, <1>7, <1>10 DEF IsEngine, EngineFields
  <1> HIDE DEF merged
  <1>12. send(e, d).eng \in {e, [merged EXCEPT !.bytes_sent = @ + extend], merged,
            [merged EXCEPT !.snd_queue = @ \o fragments(rest), !.bytes_sent = @ + Len(rest)]}
    BY DEF send, merged, rest, queue, extend
  <1> QED BY <1>8, <1>9, <1>11, <1>12

\* The loop of input(): a chain of engines, one per segment of the datagram.
LEMMA InputLoopChain ==
    ASSUME NEW e, NEW segs, Len(segs) \in Nat, NEW clk
    PROVE  \E f : /\ f[0] = [eng |-> e, ack |-> NoAck]
                  /\ \A i \in 1 .. Len(segs) : f[i] = input_step(f[i - 1], segs[i], clk)
                  /\ input_loop(e, segs, clk) = f[Len(segs)]
  <1> DEFINE st0 == [eng |-> e, ack |-> NoAck]
             L == Len(segs)
             Body(f, n) == [i \in 0 .. n |->
                IF i = 0 THEN st0 ELSE input_step(f[i - 1], segs[i], clk)]
             S == {n \in Nat : \E f : f = Body(f, n)}
  <1> HIDE DEF st0
  <1>1. L \in S
    <2>1. 0 \in S
      <3> DEFINE z == [i \in 0 .. 0 |-> st0]
      <3>1. z = Body(z, 0) OBVIOUS
      <3> QED BY <3>1
    <2>2. ASSUME NEW n \in 1 .. L, n - 1 \in S PROVE n \in S
      <3>1. n # 0 /\ n - 1 \in Nat /\ n \in Nat OBVIOUS
      <3>2. PICK f : f = Body(f, n - 1) BY <2>2
      <3> DEFINE g == [i \in 0 .. n |-> IF i = n THEN input_step(f[n - 1], segs[n], clk)
                                        ELSE f[i]]
      <3>3. ASSUME NEW i \in 0 .. n
            PROVE  g[i] = IF i = 0 THEN st0 ELSE input_step(g[i - 1], segs[i], clk)
        <4>1. CASE i = n BY <4>1, <3>1
        <4>2. CASE i # n /\ i = 0 BY <4>2, <3>1, <3>2
        <4>3. CASE i # n /\ i # 0
          <5>1. i \in 0 .. (n - 1) /\ i - 1 \in 0 .. (n - 1) /\ i - 1 # n BY <4>3, <3>1
          <5>2. f[i] = input_step(f[i - 1], segs[i], clk) BY <5>1, <4>3, <3>2
          <5>3. g[i] = f[i] /\ g[i - 1] = f[i - 1] BY <5>1, <4>3, <3>1
          <5> QED BY <5>2, <5>3, <4>3
        <4> QED BY <4>1, <4>2, <4>3
      <3>4. g = Body(g, n) BY <3>3
      <3> QED BY <3>1, <3>4
    <2> HIDE DEF S
    <2> QED BY <2>1, <2>2, UpTo
  <1>2. \E f : f = Body(f, L) BY <1>1
  <1> DEFINE after == CHOOSE f : f = Body(f, L)
  <1>3. after = Body(after, L) BY <1>2
  <1>4. input_loop(e, segs, clk) = after[L] BY DEF input_loop, st0
  <1> HIDE DEF after
  <1>5. after[0] = st0 BY <1>3
  <1>6. \A i \in 1 .. L : after[i] = input_step(after[i - 1], segs[i], clk)
    <2> TAKE i \in 1 .. L
    <2>1. i \in 0 .. L /\ i # 0 OBVIOUS
    <2> QED BY <2>1, <1>3
  <1> QED BY <1>4, <1>5, <1>6 DEF st0

AckState == [flag : BOOLEAN, max_ack : Words, latest_ts : Words]

\* A wrapping difference is a signed word.
LEMMA TimeDiffType ==
    \A a, b \in Words : /\ time_diff(a, b) \in Int
                        /\ -Half <= time_diff(a, b) /\ time_diff(a, b) < Half
  BY HalfAssumption DEF time_diff, WrapSub, Words, Word

\* parse_data keeps the engine well typed.
LEMMA ParseDataType ==
    ASSUME NEW e, IsEngine(e), NEW s \in WireSeg PROVE IsEngine(parse_data(e, s))
  <1> DEFINE buf == Extend(e.rcv_buf, s.sn, [frg |-> s.frg, data |-> s.data])
             kept == [e EXCEPT !.rcv_buf = buf]
  <1>1. s.sn \in Words /\ [frg |-> s.frg, data |-> s.data] \in Piece BY DEF WireSeg, Piece
  <1>2. SeqNumMap(buf, Piece) BY <1>1 DEF IsEngine, SeqNumMap, Extend
  <1> HIDE DEF buf
  <1>3. IsEngine(kept) BY <1>2 DEF IsEngine, EngineFields
  <1> HIDE DEF kept
  <1>4. IsEngine(move_to_recv_queue(kept)) /\ IsEngine(move_to_recv_queue(e))
    BY <1>3, MoveToRecvQueueType
  <1>5. parse_data(e, s) \in {e, move_to_recv_queue(e), move_to_recv_queue(kept)}
    BY DEF parse_data, kept, buf
  <1> QED BY <1>4, <1>5

\* The PUSH arm of input() keeps the engine well typed.
LEMMA InputPushType ==
    ASSUME NEW e, IsEngine(e), NEW s \in WireSeg PROVE IsEngine(input_push(e, s))
  <1> DEFINE acked == ack_push(e, s.sn, s.ts)
  <1>1. [sn |-> s.sn, ts |-> s.ts] \in [sn : Words, ts : Words] BY DEF WireSeg
  <1>2. Append(e.ack_list, [sn |-> s.sn, ts |-> s.ts]) \in Seq([sn : Words, ts : Words])
    BY <1>1 DEF IsEngine
  <1>3. IsEngine(acked) BY <1>2 DEF ack_push, IsEngine, EngineFields
  <1> HIDE DEF acked
  <1>4. IsEngine(parse_data(acked, s)) BY <1>3, ParseDataType
  <1>5. input_push(e, s) \in {e, acked, parse_data(acked, s)} BY DEF input_push, acked
  <1> QED BY <1>3, <1>4, <1>5

\* The ACK arm of input() keeps the engine well typed, whatever ts is echoed.
LEMMA InputAckType ==
    ASSUME NEW e, IsEngine(e), NEW s \in WireSeg, NEW clk \in Words
    PROVE  IsEngine(input_ack(e, s, clk))
  <1> DEFINE sample == time_diff(clk, s.ts)
             rated == [e EXCEPT !.rtt = update_ack(@, sample)]
  <1>1. s.sn \in Words /\ s.ts \in Words BY DEF WireSeg
  <1>2. sample \in Int BY <1>1, TimeDiffType
  <1>3. update_ack(e.rtt, sample) \in RttState BY <1>2, UpdateAckType DEF IsEngine
  <1>4. IsEngine(rated) BY <1>3 DEF IsEngine, EngineFields
  <1> HIDE DEF rated
  <1>5. input_ack(e, s, clk) \in {parse_ack(rated, s.sn), parse_ack(e, s.sn)}
    BY DEF input_ack, rated
  <1> QED BY <1>1, <1>4, <1>5, ParseAckType

\* One iteration of the loop of input() keeps the engine well typed.
LEMMA InputSegmentType ==
    ASSUME NEW e, IsEngine(e), NEW s \in WireSeg, NEW clk \in Words
    PROVE  IsEngine(input_segment(e, s, clk))
  <1> DEFINE told  == [e EXCEPT !.wnd.rmt = s.wnd]
             heard == parse_una(told, s.una)
             asked == [heard EXCEPT !.probe.ask_tell = TRUE]
  <1>1. s.una \in Words /\ s.wnd \in Nat /\ s.cmd \in Cmds BY DEF WireSeg
  <1>2. [e.wnd EXCEPT !.rmt = s.wnd] \in WindowState BY <1>1 DEF IsEngine, WindowState
  <1>3. IsEngine(told) BY <1>2 DEF IsEngine, EngineFields
  <1> HIDE DEF told
  <1>4. IsEngine(heard) BY <1>1, <1>3, ParseUnaType
  <1> HIDE DEF heard
  <1>5. [heard.probe EXCEPT !.ask_tell = TRUE] \in ProbeState BY <1>4 DEF IsEngine, ProbeState
  <1>6. IsEngine(asked) BY <1>4, <1>5 DEF IsEngine, EngineFields
  <1> HIDE DEF asked
  <1>7. input_segment(e, s, clk) \in
            {e, input_ack(heard, s, clk), input_push(heard, s), asked, heard}
    BY <1>1 DEF input_segment, heard, told, asked, Cmds
  <1> QED BY <1>4, <1>6, <1>7, InputAckType, InputPushType

\* The loop of input() keeps the engine and its locals well typed.
LEMMA InputLoopType ==
    ASSUME NEW e, IsEngine(e), NEW segs \in Seq(WireSeg), NEW clk \in Words
    PROVE  /\ IsEngine(input_loop(e, segs, clk).eng)
           /\ input_loop(e, segs, clk).ack \in AckState
  <1>1. Len(segs) \in Nat OBVIOUS
  <1>2. PICK f : /\ f[0] = [eng |-> e, ack |-> NoAck]
                 /\ \A i \in 1 .. Len(segs) : f[i] = input_step(f[i - 1], segs[i], clk)
                 /\ input_loop(e, segs, clk) = f[Len(segs)]
    BY <1>1, InputLoopChain
  <1> DEFINE S == {n \in Nat : IsEngine(f[n].eng) /\ f[n].ack \in AckState}
  <1>3. 0 \in S
    <2>1. NoAck \in AckState BY HalfAssumption DEF NoAck, AckState, Words, Word
    <2> QED BY <1>2, <2>1
  <1>4. ASSUME NEW n \in 1 .. Len(segs), n - 1 \in S PROVE n \in S
    <2>1. segs[n] \in WireSeg OBVIOUS
    <2>2. IsEngine(f[n - 1].eng) /\ f[n - 1].ack \in AckState BY <1>4
    <2>3. f[n] = input_step(f[n - 1], segs[n], clk) BY <1>2
    <2>4. f[n].eng = input_segment(f[n - 1].eng, segs[n], clk) BY <2>3 DEF input_step
    <2>5. f[n].ack = f[n - 1].ack \/ f[n].ack = newest_ack(f[n - 1].ack, segs[n])
      BY <2>3 DEF input_step
    <2>6. newest_ack(f[n - 1].ack, segs[n]) \in AckState
      BY <2>1, <2>2 DEF newest_ack, AckState, WireSeg
    <2> QED BY <2>1, <2>2, <2>4, <2>5, <2>6, InputSegmentType
  <1> HIDE DEF S
  <1>5. Len(segs) \in S BY <1>1, <1>3, <1>4, UpTo
  <1> QED BY <1>2, <1>5 DEF S

\* input() keeps the engine well typed for every decodable datagram.
LEMMA InputType ==
    ASSUME NEW e, IsEngine(e), NEW segs \in Seq(WireSeg), NEW clk \in Words
    PROVE  IsEngine(input(e, segs, clk))
  <1> DEFINE end    == input_loop(e, segs, clk)
             shrunk == shrink_buf(end.eng)
             fast   == IF end.ack.flag
                       THEN parse_fastack(shrunk, end.ack.max_ack, end.ack.latest_ts)
                       ELSE shrunk
             adv    == seq_after(fast.snd_una, e.snd_una)
  <1>1. IsEngine(end.eng) /\ end.ack \in AckState BY InputLoopType
  <1> HIDE DEF end
  <1>2. IsEngine(shrunk) BY <1>1, ShrinkBufType
  <1> HIDE DEF shrunk
  <1>3. end.ack.max_ack \in Words /\ end.ack.latest_ts \in Words BY <1>1 DEF AckState
  <1>4. IsEngine(fast) BY <1>2, <1>3, ParseFastackType
  <1> HIDE DEF fast
  <1>5. adv \in BOOLEAN BY DEF seq_after
  <1>6. update_cwnd(fast.wnd, adv) \in WindowState BY <1>4, <1>5, UpdateCwndType DEF IsEngine
  <1>7. input(e, segs, clk) = [fast EXCEPT !.wnd = update_cwnd(fast.wnd, adv)]
    BY DEF input, fast, shrunk, end
  <1> QED BY <1>4, <1>6, <1>7 DEF IsEngine, EngineFields

\* The probe timer stays within its limit however often it backs off.
LEMMA ProbeTimerType ==
    ASSUME NEW e, IsEngine(e), NEW clk \in Words PROVE probe_timer(e, clk) \in ProbeState
  <1> DEFINE w == Max2(e.probe.wait, ProbeInit)
             backoff == Min2(w + w \div 2, ProbeLimit)
  <1>1. e.probe \in ProbeState /\ e.probe.wait \in 0 .. ProbeLimit BY DEF IsEngine, ProbeState
  <1>2. w \in Nat BY <1>1, TimingAssumption DEF Max2
  <1> HIDE DEF w
  <1>3. backoff \in 0 .. ProbeLimit BY <1>2, TimingAssumption DEF Min2
  <1> HIDE DEF backoff
  <1>4. WrapAdd(clk, ProbeInit) \in Words /\ WrapAdd(clk, backoff) \in Words
    BY <1>3, TimingAssumption, HalfAssumption, WrapAddType DEF Word
  <1>5. ProbeInit \in 0 .. ProbeLimit /\ 0 \in 0 .. ProbeLimit /\ 0 \in Words
    BY TimingAssumption, HalfAssumption DEF Words, Word
  <1>6. /\ [e.probe EXCEPT !.ts = 0, !.wait = 0] \in ProbeState
        /\ [e.probe EXCEPT !.wait = ProbeInit, !.ts = WrapAdd(clk, ProbeInit)] \in ProbeState
        /\ [e.probe EXCEPT !.wait = backoff, !.ts = WrapAdd(clk, backoff), !.ask_send = TRUE]
               \in ProbeState
    BY <1>1, <1>3, <1>4, <1>5 DEF ProbeState
  <1>7. probe_timer(e, clk) \in
            {[e.probe EXCEPT !.ts = 0, !.wait = 0],
             [e.probe EXCEPT !.wait = ProbeInit, !.ts = WrapAdd(clk, ProbeInit)],
             [e.probe EXCEPT !.wait = backoff, !.ts = WrapAdd(clk, backoff), !.ask_send = TRUE],
             e.probe}
    BY DEF probe_timer, backoff, w
  <1> QED BY <1>1, <1>6, <1>7

\* The pieces move_to_send_buf takes are in the queue, and numbering them stays
\* within the send window.
LEMMA MoveCount ==
    ASSUME NEW e, IsEngine(e)
    PROVE  /\ move_count(e) \in 0 .. Len(e.snd_queue)
           /\ move_count(e) <= Half
  <1>1. e.snd_queue \in Seq(Piece) /\ e.snd_una \in Words /\ e.snd_nxt \in Words
        /\ e.wnd.rmt \in Nat /\ e.wnd.cwnd \in Nat
    BY DEF IsEngine, WindowState
  <1>2. send_window(e) \in 0 .. SndWnd BY <1>1, WindowAssumption DEF send_window, Min2
  <1>3. WrapAdd(e.snd_una, send_window(e)) \in Words
    BY <1>1, <1>2, WindowAssumption, HalfAssumption, WrapAddType DEF Word
  <1> DEFINE end == WrapAdd(e.snd_una, send_window(e))
  <1> HIDE DEF end
  <1>4. end \in Words BY <1>3 DEF end
  <1>5. time_diff(e.snd_nxt, end) \in Int /\ -time_diff(e.snd_nxt, end) <= Half
    BY <1>1, <1>4, HalfAssumption, TimeDiffType
  <1>6. move_count(e) = Min2(Len(e.snd_queue), Max2(0, -time_diff(e.snd_nxt, end)))
    BY DEF move_count, end
  <1>7. Len(e.snd_queue) \in Nat BY <1>1
  <1> QED BY <1>5, <1>6, <1>7, HalfAssumption DEF Min2, Max2

\* The engine's timeout is a small word.
LEMMA RtoType == ASSUME NEW e, IsEngine(e) PROVE e.rtt.rto \in Nat /\ e.rtt.rto < Half
  <1>1. e.rtt \in RttState BY DEF IsEngine
  <1>2. e.rtt.rto \in MinRto .. RtoMax BY <1>1 DEF RttState
  <1> QED BY <1>2, TimingAssumption, HalfAssumption

\* move_to_send_buf keeps the engine well typed, across the wrap too.
LEMMA MoveToSendBufType ==
    ASSUME NEW e, IsEngine(e), NEW clk \in Words PROVE IsEngine(move_to_send_buf(e, clk))
  <1> DEFINE n     == move_count(e)
             fresh == {WrapAdd(e.snd_nxt, i) : i \in 0 .. (n - 1)}
             put(p) == [frg |-> p.frg, data |-> p.data, ts |-> clk, resendts |-> clk,
                        rto |-> e.rtt.rto, fastack |-> 0, xmit |-> 0]
             buf == [sn \in DOMAIN e.snd_buf \cup fresh |->
                IF sn \in fresh THEN put(e.snd_queue[WrapSub(sn, e.snd_nxt) + 1])
                ELSE e.snd_buf[sn]]
             queue == SubSeq(e.snd_queue, n + 1, Len(e.snd_queue))
  <1>1. e.snd_queue \in Seq(Piece) /\ e.snd_nxt \in Words /\ SeqNumMap(e.snd_buf, SndSeg)
    BY DEF IsEngine
  <1>2. n \in 0 .. Len(e.snd_queue) /\ n <= Half BY MoveCount
  <1>3. e.rtt.rto \in Words
    BY RtoType, HalfAssumption DEF Words, Word
  <1> HIDE DEF n
  <1>4. \A i \in 0 .. (n - 1) : WrapAdd(e.snd_nxt, i) \in Words
                              /\ WrapSub(WrapAdd(e.snd_nxt, i), e.snd_nxt) = i
    <2> TAKE i \in 0 .. (n - 1)
    <2>1. i \in Words BY <1>2, HalfAssumption DEF Words, Word
    <2>2. i \in Nat /\ i < Word BY <2>1, HalfAssumption DEF Words, Word
    <2> QED BY <1>1, <2>1, <2>2, WrapAddType, WrapRoundTrip
  <1>5. ASSUME NEW p \in Piece PROVE put(p) \in SndSeg BY <1>3 DEF SndSeg, Piece
  <1> HIDE DEF put
  <1>6. ASSUME NEW sn \in fresh
        PROVE  sn \in Words /\ put(e.snd_queue[WrapSub(sn, e.snd_nxt) + 1]) \in SndSeg
    <2>1. PICK i \in 0 .. (n - 1) : sn = WrapAdd(e.snd_nxt, i) OBVIOUS
    <2>2. WrapSub(sn, e.snd_nxt) = i /\ sn \in Words BY <2>1, <1>4
    <2>3. i + 1 \in 1 .. Len(e.snd_queue) BY <1>1, <1>2
    <2>4. e.snd_queue[i + 1] \in Piece BY <1>1, <2>3
    <2> QED BY <2>2, <2>4, <1>5
  <1> HIDE DEF fresh
  <1>7. SeqNumMap(buf, SndSeg) BY <1>1, <1>6 DEF SeqNumMap
  <1>8. queue \in Seq(Piece) BY <1>1, <1>2
  <1>9. WrapAdd(e.snd_nxt, n) \in Words
    BY <1>1, <1>2, HalfAssumption, WrapAddType DEF Word
  <1>10. move_to_send_buf(e, clk) =
            [e EXCEPT !.snd_buf = buf, !.snd_queue = queue, !.snd_nxt = WrapAdd(e.snd_nxt, n)]
    BY DEF move_to_send_buf, n, fresh, put
  <1> HIDE DEF buf, queue
  <1> QED BY <1>7, <1>8, <1>9, <1>10 DEF IsEngine, EngineFields

\* A segment that mark_segments_for_send updates stays well typed.
LEMMA MarkedType ==
    ASSUME NEW e, IsEngine(e), NEW seg \in SndSeg, NEW clk \in Words
    PROVE  marked(e, seg, clk) \in SndSeg
  <1> DEFINE rto == e.rtt.rto
             far == WrapAdd(WrapAdd(clk, rto), rtomin(e))
             bo  == backed_off(e, seg)
  <1>1. rto \in Nat /\ rto < Half BY RtoType
  <1>2. rto \in Words /\ rtomin(e) \in Nat /\ rtomin(e) < Half
    BY <1>1, HalfAssumption DEF Words, Word, rtomin
  <1>3. seg.rto \in Words /\ seg.rto \in Nat /\ seg.rto < Word /\ seg.xmit \in Nat
    BY HalfAssumption DEF SndSeg, Words, Word
  <1>4. far \in Words
    <2>1. WrapAdd(clk, rto) \in Words BY <1>1, HalfAssumption, WrapAddType DEF Word
    <2> QED BY <2>1, <1>2, HalfAssumption, WrapAddType DEF Word
  <1>5. bo \in Words
    <2>1. Max2(seg.rto, Interval) \in Nat /\ Max2(seg.rto, Interval) < Word
      BY <1>3, TimingAssumption, HalfAssumption DEF Max2, Word
    <2>2. \A x \in Nat : x < Word => x \div 2 \in Nat /\ x \div 2 < Word
      BY HalfAssumption DEF Word
    <2>3. rto < Word BY <1>1, HalfAssumption DEF Word
    <2> QED BY <1>1, <1>3, <2>1, <2>2, <2>3, WrapAddType DEF backed_off
  <1>6. WrapAdd(clk, bo) \in Words /\ WrapAdd(clk, seg.rto) \in Words
    <2>1. bo \in Nat /\ bo < Word BY <1>5, HalfAssumption DEF Words, Word
    <2> HIDE DEF bo
    <2> QED BY <1>3, <2>1, WrapAddType
  <1> HIDE DEF far, bo
  <1>7. /\ [seg EXCEPT !.xmit = 1, !.rto = rto, !.ts = clk, !.resendts = far] \in SndSeg
        /\ [seg EXCEPT !.xmit = @ + 1, !.rto = bo, !.ts = clk, !.resendts = WrapAdd(clk, bo)]
               \in SndSeg
        /\ [seg EXCEPT !.xmit = @ + 1, !.fastack = 0, !.ts = clk,
                       !.resendts = WrapAdd(clk, seg.rto)] \in SndSeg
    <2> HIDE DEF rto
    <2>1. seg.xmit + 1 \in Nat BY <1>3
    <2>2. [seg EXCEPT !.xmit = 1, !.rto = rto, !.ts = clk, !.resendts = far] \in SndSeg
      BY <1>2, <1>4 DEF SndSeg
    <2>3. [seg EXCEPT !.xmit = @ + 1, !.rto = bo, !.ts = clk, !.resendts = WrapAdd(clk, bo)]
               \in SndSeg
      BY <2>1, <1>5, <1>6 DEF SndSeg
    <2>4. [seg EXCEPT !.xmit = @ + 1, !.fastack = 0, !.ts = clk,
                      !.resendts = WrapAdd(clk, seg.rto)] \in SndSeg
      BY <2>1, <1>6 DEF SndSeg
    <2> QED BY <2>2, <2>3, <2>4
  <1>8. marked(e, seg, clk) \in
            {[seg EXCEPT !.xmit = 1, !.rto = rto, !.ts = clk, !.resendts = far],
             [seg EXCEPT !.xmit = @ + 1, !.rto = bo, !.ts = clk, !.resendts = WrapAdd(clk, bo)],
             [seg EXCEPT !.xmit = @ + 1, !.fastack = 0, !.ts = clk,
                         !.resendts = WrapAdd(clk, seg.rto)], seg}
    BY DEF marked, far, bo
  <1> QED BY <1>7, <1>8

\* mark_segments_for_send keeps the engine well typed.
LEMMA MarkType ==
    ASSUME NEW e, IsEngine(e), NEW clk \in Words
    PROVE  IsEngine(mark_segments_for_send(e, clk))
  <1> DEFINE buf == [sn \in DOMAIN e.snd_buf |-> marked(e, e.snd_buf[sn], clk)]
  <1>1. SeqNumMap(e.snd_buf, SndSeg) BY DEF IsEngine
  <1>2. \A sn \in DOMAIN e.snd_buf : marked(e, e.snd_buf[sn], clk) \in SndSeg
    BY <1>1, MarkedType DEF SeqNumMap
  <1>3. SeqNumMap(buf, SndSeg) BY <1>1, <1>2 DEF SeqNumMap
  <1>4. mark_segments_for_send(e, clk) = [e EXCEPT !.snd_buf = buf]
    BY DEF mark_segments_for_send
  <1> HIDE DEF buf
  <1> QED BY <1>3, <1>4 DEF IsEngine, EngineFields

\* update_congestion_on_loss never leaves a closed congestion window.
LEMMA OnLossType ==
    ASSUME NEW w \in WindowState, NEW l \in BOOLEAN, NEW c \in BOOLEAN, NEW inflight \in Nat
    PROVE  /\ update_congestion_on_loss(w, l, c, inflight) \in WindowState
           /\ update_congestion_on_loss(w, l, c, inflight).cwnd >= 1
           /\ update_congestion_on_loss(w, l, c, inflight).rmt = w.rmt
  <1> DEFINE thresh == Max2(inflight \div 2, ThreshMin)
             w1 == IF c THEN on_change(w, inflight) ELSE w
             w2 == IF l THEN on_lost(w1) ELSE w1
  <1>1. thresh \in Nat BY CongestionAssumption DEF Max2
  <1> HIDE DEF thresh
  <1>2. thresh + Resend \in Nat /\ (thresh + Resend) * mss \in Nat
    BY <1>1, CongestionAssumption, MssType
  <1>3. on_change(w, inflight) = [w EXCEPT !.ssthresh = thresh, !.cwnd = thresh + Resend,
                                           !.incr = (thresh + Resend) * mss]
    BY DEF on_change, thresh
  <1>4. w1 \in WindowState /\ w1.rmt = w.rmt
    BY <1>1, <1>2, <1>3 DEF WindowState
  <1> HIDE DEF w1
  <1>5. ASSUME NEW x \in WindowState
        PROVE  reset_cwnd(x) \in WindowState /\ reset_cwnd(x).cwnd = 1 /\ reset_cwnd(x).rmt = x.rmt
    BY MssType DEF reset_cwnd, WindowState
  <1>6. on_lost(w1) \in WindowState /\ on_lost(w1).rmt = w.rmt
    <2> DEFINE t == Max2(w1.cwnd \div 2, ThreshMin)
               x == [w1 EXCEPT !.ssthresh = t]
    <2>1. w1.cwnd \in Nat BY <1>4 DEF WindowState
    <2>2. t \in Nat BY <2>1, CongestionAssumption DEF Max2
    <2> HIDE DEF t
    <2>3. x \in WindowState /\ x.rmt = w.rmt BY <1>4, <2>2 DEF WindowState
    <2>4. on_lost(w1) = reset_cwnd(x) BY DEF on_lost, t
    <2> HIDE DEF x
    <2> QED BY <2>3, <2>4, <1>5
  <1>7. w2 \in WindowState /\ w2.rmt = w.rmt BY <1>4, <1>6
  <1> HIDE DEF w2
  <1>8. update_congestion_on_loss(w, l, c, inflight) = IF w2.cwnd < 1 THEN reset_cwnd(w2) ELSE w2
    BY DEF update_congestion_on_loss, w1, w2
  <1>9. w2.cwnd \in Nat BY <1>7 DEF WindowState
  <1> QED BY <1>5, <1>7, <1>8, <1>9

\* The first half of flush() keeps the engine well typed.
LEMMA FlushHeadType ==
    ASSUME NEW e, IsEngine(e), NEW clk \in Words PROVE IsEngine(flush_head(e, clk))
  <1> DEFINE t == probe_timer(e, clk)
             a == [flush_acks(e) EXCEPT !.probe = t]
  <1>1. t \in ProbeState BY ProbeTimerType
  <1> HIDE DEF t
  <1>2. IsEngine(flush_acks(e)) BY DEF flush_acks, IsEngine, EngineFields
  <1>3. IsEngine(a) BY <1>1, <1>2 DEF IsEngine, EngineFields
  <1> HIDE DEF a
  <1>4. [a.probe EXCEPT !.ask_send = FALSE, !.ask_tell = FALSE] \in ProbeState
    BY <1>3 DEF IsEngine, ProbeState
  <1>5. IsEngine(clear_probe(a)) BY <1>3, <1>4 DEF clear_probe, IsEngine, EngineFields
  <1>6. flush_head(e, clk) = move_to_send_buf(clear_probe(a), clk) BY DEF flush_head, a, t
  <1> QED BY <1>5, <1>6, MoveToSendBufType

\* flush() keeps the engine well typed, whether or not it succeeds.
LEMMA FlushType ==
    ASSUME NEW e, IsEngine(e), NEW clk \in Words PROVE IsEngine(flush(e, clk).eng)
  <1> DEFINE h == flush_head(e, clk)
             m == mark_segments_for_send(h, clk)
             inflight == WrapSub(h.snd_nxt, h.snd_una)
             w == update_congestion_on_loss(m.wnd, lost(h, clk), change(h, clk), inflight)
  <1>1. IsEngine(h) BY FlushHeadType
  <1> HIDE DEF h
  <1>2. IsEngine(m) BY <1>1, MarkType
  <1> HIDE DEF m
  <1>3. inflight \in Nat
    <2>1. h.snd_nxt \in Words /\ h.snd_una \in Words BY <1>1 DEF IsEngine
    <2>2. inflight \in Words BY <2>1, WrapSubType
    <2> QED BY <2>2, HalfAssumption DEF Words, Word
  <1>4. lost(h, clk) \in BOOLEAN /\ change(h, clk) \in BOOLEAN BY DEF lost, change
  <1>5. m.wnd \in WindowState BY <1>2 DEF IsEngine
  <1>6. w \in WindowState BY <1>3, <1>4, <1>5, OnLossType
  <1>7. flush(e, clk).eng \in {m, [m EXCEPT !.wnd = w]} BY DEF flush, h, m
  <1> HIDE DEF w
  <1>8. IsEngine([m EXCEPT !.wnd = w]) BY <1>2, <1>6 DEF IsEngine, EngineFields
  <1> QED BY <1>2, <1>7, <1>8

\* A segment as it leaves is well typed.
LEMMA WireType ==
    ASSUME NEW e, IsEngine(e), NEW cmd \in Cmds, NEW sn \in Words, NEW ts \in Words,
           NEW p, p.frg \in Nat, p.data \in Bytes
    PROVE  wire(e, cmd, sn, ts, p) \in WireSeg
  <1>1. e.rcv_queue \in Seq(Piece) /\ e.conv \in Nat /\ e.rcv_nxt \in Words BY DEF IsEngine
  <1>2. wnd_unused(e) \in Nat BY <1>1, WindowAssumption DEF wnd_unused
  <1> QED BY <1>1, <1>2 DEF wire, WireSeg

\* What flush() hands to output_segment is a sequence of wire segments.
LEMMA FlushOutType ==
    ASSUME NEW e, IsEngine(e), NEW clk \in Words,
           NEW sns, Len(sns) \in Nat,
           \A i \in 1 .. Len(sns) : sns[i] \in DOMAIN flush_head(e, clk).snd_buf
    PROVE  flush_out(e, clk, sns) \in Seq(WireSeg)
  <1> DEFINE h == flush_head(e, clk)
             p == [e EXCEPT !.probe = probe_timer(e, clk)]
             push == [i \in 1 .. Len(sns) |-> wire(e, "PUSH", sns[i], clk, h.snd_buf[sns[i]])]
  <1>1. IsEngine(h) BY FlushHeadType
  <1> HIDE DEF h
  <1>2. IsEngine(p) BY ProbeTimerType DEF IsEngine, EngineFields
  <1> HIDE DEF p
  <1>3. NoPiece.frg \in Nat /\ NoPiece.data \in Bytes BY DEF NoPiece, Bytes
  <1>4. 0 \in Words BY HalfAssumption DEF Words, Word
  <1>5. {"ACK", "WASK", "WINS", "PUSH"} \subseteq Cmds BY DEF Cmds
  <1>6. acks_out(e) \in Seq(WireSeg)
    <2>1. e.ack_list \in Seq([sn : Words, ts : Words]) BY DEF IsEngine
    <2>2. ASSUME NEW i \in 1 .. Len(e.ack_list)
          PROVE  wire(e, "ACK", e.ack_list[i].sn, e.ack_list[i].ts, NoPiece) \in WireSeg
      <3>1. e.ack_list[i] \in [sn : Words, ts : Words] BY <2>1, ElementOfSeq
      <3>2. e.ack_list[i].sn \in Words /\ e.ack_list[i].ts \in Words BY <3>1
      <3> QED BY <3>2, <1>3, <1>5, WireType
    <2>3. Len(e.ack_list) \in Nat BY <2>1
    <2> QED BY <2>2, <2>3 DEF acks_out
  <1>7. probes_out(p, clk) \in Seq(WireSeg)
    <2>1. wire(p, "WASK", 0, clk, NoPiece) \in WireSeg BY <1>2, <1>3, <1>4, <1>5, WireType
    <2>2. wire(p, "WINS", 0, clk, NoPiece) \in WireSeg BY <1>2, <1>3, <1>4, <1>5, WireType
    <2> DEFINE s1 == IF p.probe.ask_send THEN <<wire(p, "WASK", 0, clk, NoPiece)>> ELSE <<>>
               s2 == IF p.probe.ask_tell THEN <<wire(p, "WINS", 0, clk, NoPiece)>> ELSE <<>>
    <2>3. s1 \in Seq(WireSeg) /\ s2 \in Seq(WireSeg) BY <2>1, <2>2
    <2> HIDE DEF s1, s2
    <2>4. s1 \o s2 \in Seq(WireSeg) BY <2>3, ConcatProperties
    <2> QED BY <2>4 DEF probes_out, s1, s2
  <1>8. push \in Seq(WireSeg)
    <2>1. ASSUME NEW i \in 1 .. Len(sns)
          PROVE  wire(e, "PUSH", sns[i], clk, h.snd_buf[sns[i]]) \in WireSeg
      <3>1. sns[i] \in DOMAIN h.snd_buf BY DEF h
      <3>2. sns[i] \in Words /\ h.snd_buf[sns[i]] \in SndSeg BY <3>1, <1>1 DEF IsEngine, SeqNumMap
      <3>3. h.snd_buf[sns[i]].frg \in Nat /\ h.snd_buf[sns[i]].data \in Bytes BY <3>2 DEF SndSeg
      <3> QED BY <3>2, <3>3, <1>5, WireType
    <2> QED BY <2>1
  <1> HIDE DEF push
  <1>9. acks_out(e) \o probes_out(p, clk) \in Seq(WireSeg) BY <1>6, <1>7, ConcatProperties
  <1>10. (acks_out(e) \o probes_out(p, clk)) \o push \in Seq(WireSeg)
    BY <1>8, <1>9, ConcatProperties
  <1>11. flush_out(e, clk, sns) = (acks_out(e) \o probes_out(p, clk)) \o push
    BY DEF flush_out, h, p, push
  <1> QED BY <1>10, <1>11

\* A datagram is a run of the segments that were output.
LEMMA DatagramsAreRuns ==
    ASSUME NEW S, NEW out \in Seq(S), NEW d \in datagrams(out)
    PROVE  \E i, j \in 1 .. Len(out) : d = SubSeq(out, i, j)
  BY DEF datagrams

\* Every datagram is a sequence of wire segments.
LEMMA DatagramType ==
    ASSUME NEW S, NEW out \in Seq(S), NEW d \in datagrams(out)
    PROVE  d \in Seq(S) /\ \A k \in 1 .. Len(d) : \E i \in 1 .. Len(out) : d[k] = out[i]
  <1>1. PICK i \in 1 .. Len(out), j \in 1 .. Len(out) : d = SubSeq(out, i, j)
    BY DatagramsAreRuns
  <1>2. \A k \in i .. j : out[k] \in S OBVIOUS
  <1>3. /\ d \in Seq(S)
        /\ Len(d) = IF i <= j THEN j - i + 1 ELSE 0
        /\ \A k \in 1 .. (j - i + 1) : d[k] = out[i + k - 1]
    BY <1>1, <1>2, SubSeqProperties
  <1>4. ASSUME NEW k \in 1 .. Len(d) PROVE \E n \in 1 .. Len(out) : d[k] = out[n]
    <2>1. i <= j /\ k \in 1 .. (j - i + 1) BY <1>3
    <2>2. i + k - 1 \in 1 .. Len(out) BY <2>1
    <2> QED BY <2>1, <2>2, <1>3
  <1> QED BY <1>3, <1>4

-----------------------------------------------------------------------------
(* The link *)

\* The timestamp is a word.
LEMMA NowType == ASSUME clock \in 0 .. MaxTime PROVE now \in Words
  <1>1. Epoch \in Words /\ clock \in Nat /\ clock < Word
    BY SpaceAssumption, HalfAssumption DEF Word
  <1> QED BY <1>1, WrapAddType DEF now

\* The two peers are each other's peer.
LEMMA OtherType == \A p \in Peers : other(p) \in Peers /\ other(p) # p /\ other(other(p)) = p
  BY PeerAssumption DEF Peers, other

\* The initial state is well typed.
LEMMA TypeInit == Init => TypeOK
  <1> SUFFICES ASSUME Init PROVE TypeOK OBVIOUS
  <1>1. IsEngine(new(Conv, Isn)) BY SpaceAssumption, NewType
  <1>2. DOMAIN eng = Peers /\ \A p \in Peers : IsEngine(eng[p]) BY <1>1 DEF Init
  <1>3. \A d \in net : d.to \in Peers /\ d.segs \in Seq(WireSeg) BY StrayAssumption DEF Init
  <1>4. clock \in 0 .. MaxTime /\ dups \in 0 .. MaxDup BY SpaceAssumption DEF Init
  <1>5. out_buf \in [Peers -> Seq(WireSeg)] BY DEF Init
  <1> QED BY <1>2, <1>3, <1>4, <1>5 DEF Init, TypeOK

\* Replacing one peer's engine by a well-typed one.
LEMMA EngineUpdate ==
    ASSUME NEW p \in Peers, NEW x, TypeOK, IsEngine(x), eng' = [eng EXCEPT ![p] = x]
    PROVE  DOMAIN eng' = Peers /\ \A r \in Peers : IsEngine(eng'[r])
  BY DEF TypeOK

\* A write keeps the state well typed.
LEMMA TypeSend ==
    ASSUME TypeOK, NEW p \in Peers, NEW size \in Sizes, Send(p, size) PROVE TypeOK'
  <1> DEFINE data == [i \in 1 .. size |-> offered[p] + i]
             r    == send(eng[p], data)
  <1>1. size \in Nat BY SpaceAssumption
  <1>2. offered[p] \in Nat /\ IsEngine(eng[p]) BY DEF TypeOK
  <1>3. data \in Bytes BY <1>1, <1>2 DEF Bytes
  <1> HIDE DEF data
  <1>4. IsEngine(r.eng) BY <1>2, <1>3, SendType
  <1> HIDE DEF r
  <1>5. /\ eng' = [eng EXCEPT ![p] = r.eng]
        /\ offered' = [offered EXCEPT ![p] = @ + size]
        /\ wrote' = [wrote EXCEPT ![p] = IF r.ok THEN Append(@, data) ELSE @]
        /\ UNCHANGED <<out_buf, net, dups, clock, dead, numbered, got, taken>>
    BY DEF Send, data, r
  <1>6. DOMAIN eng' = Peers /\ \A q \in Peers : IsEngine(eng'[q]) BY <1>4, <1>5, EngineUpdate
  <1>7. offered' \in [Peers -> Nat] BY <1>1, <1>2, <1>5 DEF TypeOK
  <1>8. wrote' \in [Peers -> Seq(Bytes)] BY <1>3, <1>5 DEF TypeOK
  <1> QED BY <1>5, <1>6, <1>7, <1>8 DEF TypeOK

\* A read keeps the state well typed.
LEMMA TypeRecv == ASSUME TypeOK, NEW p \in Peers, Recv(p) PROVE TypeOK'
  <1>1. IsEngine(eng[p]) /\ eng[p].rcv_queue \in Seq(Piece) BY DEF TypeOK, IsEngine
  <1>2. eng[p].rcv_queue # <<>> BY DEF Recv, readable
  <1>3. IsEngine(recv(eng[p])) BY <1>1, <1>2, RecvType
  <1>4. message_span(eng[p].rcv_queue) \in 1 .. Len(eng[p].rcv_queue)
    BY <1>1, <1>2, MessageSpan
  <1>5. message(eng[p]) \in Seq(Piece) BY <1>1, <1>4 DEF message
  <1>6. eng' = [eng EXCEPT ![p] = recv(eng[p])] BY DEF Recv
  <1>7. DOMAIN eng' = Peers /\ \A q \in Peers : IsEngine(eng'[q]) BY <1>3, <1>6, EngineUpdate
  <1>8. got' \in [Peers -> Seq(Seq(Piece))] BY <1>5 DEF Recv, TypeOK
  <1>9. taken' \in [Peers -> Nat] BY <1>4 DEF Recv, TypeOK
  <1> QED BY <1>7, <1>8, <1>9 DEF Recv, TypeOK

\* An arriving datagram keeps the state well typed.
LEMMA TypeInput == ASSUME TypeOK, NEW p \in Peers, Input(p) PROVE TypeOK'
  <1>1. PICK d \in net :
          /\ eng' = [eng EXCEPT ![p] = input(@, d.segs, now)]
          /\ \/ net' = net \ {d} /\ UNCHANGED dups
             \/ dups < MaxDup /\ dups' = dups + 1 /\ UNCHANGED net
    BY DEF Input
  <1>2. d.segs \in Seq(WireSeg) /\ now \in Words /\ IsEngine(eng[p]) BY NowType DEF TypeOK
  <1>3. IsEngine(input(eng[p], d.segs, now)) BY <1>2, InputType
  <1>4. eng' = [eng EXCEPT ![p] = input(eng[p], d.segs, now)] BY <1>1
  <1>5. DOMAIN eng' = Peers /\ \A q \in Peers : IsEngine(eng'[q]) BY <1>3, <1>4, EngineUpdate
  <1>6. net' \subseteq net BY <1>1
  <1>7. dups' \in 0 .. MaxDup BY <1>1, SpaceAssumption DEF TypeOK
  <1> QED BY <1>5, <1>6, <1>7 DEF Input, TypeOK

\* The pieces flush numbers come from the queue.
LEMMA TypeNumbered ==
    ASSUME TypeOK, NEW p \in Peers,
           numbered' = [numbered EXCEPT ![p] = @ \o SubSeq(eng[p].snd_queue, 1, move_count(eng[p]))]
    PROVE  numbered' \in [Peers -> Seq(Piece)]
  <1>1. IsEngine(eng[p]) /\ numbered[p] \in Seq(Piece) BY DEF TypeOK
  <1>2. move_count(eng[p]) \in 0 .. Len(eng[p].snd_queue) BY <1>1, MoveCount
  <1>3. SubSeq(eng[p].snd_queue, 1, move_count(eng[p])) \in Seq(Piece)
    BY <1>1, <1>2 DEF IsEngine
  <1>4. numbered[p] \o SubSeq(eng[p].snd_queue, 1, move_count(eng[p])) \in Seq(Piece)
    BY <1>1, <1>3, ConcatProperties
  <1> QED BY <1>4 DEF TypeOK

\* The orders of a set list its elements.
LEMMA OrdersElements ==
    ASSUME NEW S, NEW sns \in Orders(S), Cardinality(S) \in Nat
    PROVE  Len(sns) \in Nat /\ \A i \in 1 .. Len(sns) : sns[i] \in S
  BY DEF Orders

\* The data segments a flush lists are in its send buffer.
LEMMA DueSegments ==
    ASSUME NEW e, IsEngine(e), NEW t \in Words,
           NEW sns \in Orders(send_indices(flush_head(e, t), t))
    PROVE  Len(sns) \in Nat /\ \A i \in 1 .. Len(sns) :
              sns[i] \in DOMAIN flush_head(e, t).snd_buf
  <1> DEFINE h == flush_head(e, t)
             due == send_indices(h, t)
  <1>1. IsEngine(h) BY FlushHeadType
  <1> HIDE DEF h
  <1>2. due \subseteq DOMAIN h.snd_buf BY DEF send_indices
  <1>3. DOMAIN h.snd_buf \subseteq Words BY <1>1 DEF IsEngine, SeqNumMap
  <1>4. IsFiniteSet(Words) BY FS_Interval, HalfAssumption DEF Words, Word
  <1>5. IsFiniteSet(due) BY <1>2, <1>3, <1>4, FS_Subset
  <1>6. Cardinality(due) \in Nat BY <1>5, FS_CardinalityType
  <1>7. sns \in Orders(due) BY DEF h
  <1> HIDE DEF due
  <1>8. Len(sns) \in Nat /\ \A i \in 1 .. Len(sns) : sns[i] \in due
    BY <1>6, <1>7, OrdersElements
  <1> QED BY <1>2, <1>8 DEF due, h

\* What a flush that the driver goes on from sends and leaves in the buffer comes
\* from the buffer and from flush_out.
LEMMA SentOut ==
    ASSUME NEW S, NEW p \in Peers, Flush(p) \/ FlushIgnored(p),
           IsEngine(eng[p]), now \in Words,
           out_buf \in [Peers -> Seq(WireSeg)], out_buf[p] \in Seq(S),
           \A sns : /\ Len(sns) \in Nat
                    /\ \A i \in 1 .. Len(sns) :
                          sns[i] \in DOMAIN flush_head(eng[p], now).snd_buf
                    => flush_out(eng[p], now, sns) \in Seq(S)
    PROVE  /\ \E left \in Seq(S) : out_buf' = [out_buf EXCEPT ![p] = left]
           /\ \A d \in net' : d \in net \/ (d.to = other(p) /\ d.segs \in Seq(S))
  <1> DEFINE due == send_indices(flush_head(eng[p], now), now)
  <1>1. ASSUME NEW sns \in Orders(due), NEW n \in 0 .. Len(sns)
        PROVE  flush_out(eng[p], now, SubSeq(sns, 1, n)) \in Seq(S)
    <2> DEFINE cut == SubSeq(sns, 1, n)
    <2>1. Len(sns) \in Nat /\ \A i \in 1 .. Len(sns) :
             sns[i] \in DOMAIN flush_head(eng[p], now).snd_buf
      BY DueSegments
    <2>2. Len(cut) = n /\ \A i \in 1 .. n : cut[i] = sns[i] BY <2>1
    <2> HIDE DEF cut
    <2>3. n \in Nat /\ \A i \in 1 .. n : i \in 1 .. Len(sns) BY <2>1
    <2>4. \A i \in 1 .. n : cut[i] \in DOMAIN flush_head(eng[p], now).snd_buf
      BY <2>1, <2>2, <2>3, Zenon
    <2>5. Len(cut) \in Nat /\ \A i \in 1 .. Len(cut) :
             cut[i] \in DOMAIN flush_head(eng[p], now).snd_buf
      BY <2>2, <2>3, <2>4, Zenon
    <2> QED BY <2>5 DEF cut
  <1>2. ASSUME NEW sns \in Orders(due)
        PROVE  Buffered(p, sns) \in Seq(S)
               /\ \A n \in 1 .. Len(sns) : Buffered(p, SubSeq(sns, 1, n)) \in Seq(S)
    <2>1. Len(sns) \in Nat /\ \A i \in 1 .. Len(sns) :
             sns[i] \in DOMAIN flush_head(eng[p], now).snd_buf
      BY DueSegments
    <2>2. flush_out(eng[p], now, sns) \in Seq(S) BY <2>1
    <2>3. Buffered(p, sns) \in Seq(S) BY <2>2, ConcatProperties DEF Buffered
    <2>4. ASSUME NEW n \in 1 .. Len(sns) PROVE Buffered(p, SubSeq(sns, 1, n)) \in Seq(S)
      <3>1. n \in 0 .. Len(sns) BY <2>1
      <3>2. flush_out(eng[p], now, SubSeq(sns, 1, n)) \in Seq(S) BY <1>1, <3>1
      <3> QED BY <3>2, ConcatProperties DEF Buffered
    <2> QED BY <2>3, <2>4
  <1> DEFINE Sent == \A d \in net' : d \in net \/ (d.to = other(p) /\ d.segs \in Seq(S))
  <1>3. ASSUME NEW out \in Seq(S), Transmit(p, datagrams(out)) PROVE Sent
    <2>1. PICK kept \in SUBSET datagrams(out) :
             net' = net \cup {[to |-> other(p), segs |-> d] : d \in kept}
      BY <1>3 DEF Transmit
    <2>2. \A g \in kept : g \in Seq(S) BY DatagramType
    <2> QED BY <2>1, <2>2
  <1> HIDE DEF Sent
  <1>4. CASE Flush(p)
    <2>1. PICK sns \in Orders(due) : Transmit(p, datagrams(Buffered(p, sns)))
      BY <1>4 DEF Flush
    <2>2. Sent BY <1>2, <1>3, <2>1
    <2>3. out_buf' = [out_buf EXCEPT ![p] = <<>>] /\ <<>> \in Seq(S) BY <1>4 DEF Flush
    <2> QED BY <2>2, <2>3 DEF Sent
  <1>5. CASE FlushIgnored(p)
    <2>1. PICK sns \in Orders(due) :
            \E n \in 1 .. Len(sns) :
              LET out == Buffered(p, SubSeq(sns, 1, n)) IN
              \E i \in 1 .. Len(out) :
                  /\ Transmit(p, datagrams(SubSeq(out, 1, i - 1)))
                  /\ out_buf' = [out_buf EXCEPT ![p] = SubSeq(out, i, Len(out))]
      BY <1>5 DEF FlushIgnored
    <2>2. PICK n \in 1 .. Len(sns) :
              LET out == Buffered(p, SubSeq(sns, 1, n)) IN
              \E i \in 1 .. Len(out) :
                  /\ Transmit(p, datagrams(SubSeq(out, 1, i - 1)))
                  /\ out_buf' = [out_buf EXCEPT ![p] = SubSeq(out, i, Len(out))]
      BY <2>1
    <2> DEFINE out == Buffered(p, SubSeq(sns, 1, n))
    <2>3. PICK i \in 1 .. Len(out) :
                  /\ Transmit(p, datagrams(SubSeq(out, 1, i - 1)))
                  /\ out_buf' = [out_buf EXCEPT ![p] = SubSeq(out, i, Len(out))]
      BY <2>2
    <2>4. out \in Seq(S) BY <1>2
    <2> HIDE DEF out
    <2>5. SubSeq(out, 1, i - 1) \in Seq(S) /\ SubSeq(out, i, Len(out)) \in Seq(S) BY <2>4
    <2>6. Sent BY <1>3, <2>3, <2>5
    <2> QED BY <2>3, <2>5, <2>6 DEF Sent
  <1> QED BY <1>4, <1>5

\* A flush the driver goes on from keeps the state well typed.
LEMMA TypeFlush ==
    ASSUME TypeOK, NEW p \in Peers, Flush(p) \/ FlushIgnored(p) PROVE TypeOK'
  <1>1. IsEngine(eng[p]) /\ now \in Words BY NowType DEF TypeOK
  <1>2. FlushEngine(p) BY DEF Flush, FlushIgnored
  <1>3. DOMAIN eng' = Peers /\ \A q \in Peers : IsEngine(eng'[q])
    BY <1>1, <1>2, FlushType, EngineUpdate DEF FlushEngine
  <1>4. numbered' \in [Peers -> Seq(Piece)] BY <1>2, TypeNumbered DEF FlushEngine
  <1>5. out_buf \in [Peers -> Seq(WireSeg)] BY DEF TypeOK
  <1>6. /\ \E left \in Seq(WireSeg) : out_buf' = [out_buf EXCEPT ![p] = left]
        /\ \A d \in net' : d \in net \/ (d.to = other(p) /\ d.segs \in Seq(WireSeg))
    BY <1>1, <1>5, FlushOutType, SentOut
  <1>7. out_buf' \in [Peers -> Seq(WireSeg)] BY <1>5, <1>6
  <1>8. \A d \in net' : d.to \in Peers /\ d.segs \in Seq(WireSeg)
    BY <1>6, OtherType DEF TypeOK
  <1>9. UNCHANGED <<dups, clock, dead, offered, wrote, got, taken>> BY DEF Flush, FlushIgnored
  <1> QED BY <1>3, <1>4, <1>7, <1>8, <1>9 DEF TypeOK

\* A failing flush keeps the state well typed.
LEMMA TypeFlushLost == ASSUME TypeOK, NEW p \in Peers, FlushLost(p) PROVE TypeOK'
  <1>1. IsEngine(eng[p]) /\ now \in Words BY NowType DEF TypeOK
  <1>2. FlushEngine(p) BY DEF FlushLost
  <1>3. DOMAIN eng' = Peers /\ \A q \in Peers : IsEngine(eng'[q])
    BY <1>1, <1>2, FlushType, EngineUpdate DEF FlushEngine
  <1>4. numbered' \in [Peers -> Seq(Piece)] BY <1>2, TypeNumbered DEF FlushEngine
  <1>5. dead' \in [Peers -> BOOLEAN] BY DEF FlushLost, TypeOK
  <1> QED BY <1>3, <1>4, <1>5 DEF FlushLost, TypeOK

\* Every variable of the link keeps its type: the RTT estimate, the windows and
\* the probe timer stay within their bounds and every sequence number and
\* timestamp is a word, whatever the network does.
THEOREM TypeCorrect == Spec => []TypeOK
  <1>1. TypeOK /\ [Next]_vars => TypeOK'
    <2> SUFFICES ASSUME TypeOK, [Next]_vars PROVE TypeOK' OBVIOUS
    <2>1. CASE \E p \in Writers : \E size \in Sizes : Send(p, size)
      BY <2>1, TypeSend, PeerAssumption DEF Peers
    <2>2. CASE \E p \in Peers : Recv(p) BY <2>2, TypeRecv
    <2>3. CASE \E p \in Peers : Input(p) BY <2>3, TypeInput
    <2>4. CASE \E p \in Peers : Flush(p) BY <2>4, TypeFlush
    <2>5. CASE \E p \in Peers : FlushLost(p) BY <2>5, TypeFlushLost
    <2>8. CASE \E p \in Peers : FlushIgnored(p) BY <2>8, TypeFlush
    <2>6. CASE Tick BY <2>6, SpaceAssumption DEF Tick, TypeOK
    <2>7. CASE UNCHANGED vars BY <2>7 DEF vars, TypeOK
    <2> QED BY <2>1, <2>2, <2>3, <2>4, <2>5, <2>6, <2>7, <2>8 DEF Next
  <1> QED BY TypeInit, <1>1, PTL DEF Spec

-----------------------------------------------------------------------------
(* The congestion window *)

\* A quotient of something not smaller than its divisor is positive.
LEMMA DivPositive == \A a \in Nat : \A b \in Nat \ {0} : a >= b => a \div b >= 1
  OBVIOUS

\* Growth, and the cut to a remote window above it, keep the window open.
LEMMA UpdateCwndPositive ==
    ASSUME NEW w \in WindowState, w.cwnd >= 1, NEW adv \in BOOLEAN
    PROVE  update_cwnd(w, adv).cwnd >= 1
  <1> DEFINE base == Max2(w.incr, mss)
             incr == base + (mss * mss) \div base + mss \div 16
  <1>1. w.incr \in Nat /\ w.cwnd \in Nat /\ w.rmt \in Nat /\ w.ssthresh \in Nat
    BY DEF WindowState
  <1>2. base \in Nat \ {0} BY <1>1, MssType DEF Max2
  <1>3. mss * mss \in Nat BY MssType
  <1>4. (mss * mss) \div base \in Nat /\ mss \div 16 \in Nat BY <1>2, <1>3, MssType, DivNat
  <1>5. incr \in Nat \ {0} BY <1>2, <1>4
  <1> HIDE DEF incr
  <1>6. DivCeil(incr, mss) >= 1
    <2>1. incr + mss - 1 \in Nat /\ incr + mss - 1 >= mss BY <1>5, MssType
    <2> QED BY <2>1, MssType, DivPositive DEF DivCeil
  <1>7. grown(w).cwnd >= 1
    <2>1. grown(w) = [w EXCEPT !.incr = incr,
              !.cwnd = IF (w.cwnd + 1) * mss <= incr THEN DivCeil(incr, mss) ELSE @]
      BY DEF grown, incr
    <2> QED BY <2>1, <1>6 DEF WindowState
  <1> DEFINE g == IF w.cwnd < w.ssthresh
                  THEN [w EXCEPT !.cwnd = @ + 1, !.incr = @ + mss] ELSE grown(w)
  <1>8. g.cwnd >= 1 /\ g \in [{"rmt", "cwnd", "ssthresh", "incr"} -> Int]
    <2>1. [w EXCEPT !.cwnd = @ + 1, !.incr = @ + mss].cwnd = w.cwnd + 1 BY DEF WindowState
    <2>2. g \in WindowState
      <3>1. w.incr + mss \in Nat /\ w.cwnd + 1 \in Nat BY <1>1, MssType
      <3>2. [w EXCEPT !.cwnd = @ + 1, !.incr = @ + mss] \in WindowState
        BY <1>1, <3>1 DEF WindowState
      <3>3. grown(w) = [w EXCEPT !.incr = incr,
              !.cwnd = IF (w.cwnd + 1) * mss <= incr THEN DivCeil(incr, mss) ELSE @]
        BY DEF grown, incr
      <3>4. DivCeil(incr, mss) \in Nat BY <1>5, MssType, DivNat DEF DivCeil
      <3>5. grown(w) \in WindowState BY <1>1, <1>5, <3>3, <3>4 DEF WindowState
      <3> QED BY <3>2, <3>5
    <2> QED BY <1>1, <1>7, <2>1, <2>2 DEF WindowState
  <1> HIDE DEF g
  <1>9. CASE ~(adv /\ w.cwnd < w.rmt) BY <1>9 DEF update_cwnd
  <1>10. CASE adv /\ w.cwnd < w.rmt
    <2>1. update_cwnd(w, adv) \in {g, [g EXCEPT !.cwnd = w.rmt, !.incr = w.rmt * mss]}
      BY <1>10 DEF update_cwnd, g
    <2>2. [g EXCEPT !.cwnd = w.rmt, !.incr = w.rmt * mss].cwnd = w.rmt BY <1>8
    <2>3. w.rmt >= 1 BY <1>1, <1>10
    <2> QED BY <1>8, <2>1, <2>2, <2>3
  <1> QED BY <1>9, <1>10

\* One segment of input() leaves the congestion window alone.
LEMMA SegmentCwnd ==
    ASSUME NEW e, IsEngine(e), NEW s \in WireSeg, NEW t
    PROVE  input_segment(e, s, t).wnd.cwnd = e.wnd.cwnd
  <1> DEFINE Same(x) == DOMAIN x = EngineFields /\ x.wnd.cwnd = e.wnd.cwnd
             told  == [e EXCEPT !.wnd.rmt = s.wnd]
             heard == parse_una(told, s.una)
             asked == [heard EXCEPT !.probe.ask_tell = TRUE]
             rated == [heard EXCEPT !.rtt = update_ack(@, time_diff(t, s.ts))]
             acked == ack_push(heard, s.sn, s.ts)
             kept  == [acked EXCEPT !.rcv_buf =
                          Extend(@, s.sn, [frg |-> s.frg, data |-> s.data])]
  <1>1. Same(e) /\ Same(told) BY DEF IsEngine, EngineFields, WindowState
  <1> HIDE DEF told
  <1>2. Same(heard) BY <1>1 DEF parse_una, EngineFields
  <1> HIDE DEF heard
  <1>3. Same(asked) /\ Same(rated) /\ Same(acked) BY <1>2 DEF ack_push, EngineFields
  <1> HIDE DEF asked, rated, acked
  <1>4. Same(kept) BY <1>3 DEF EngineFields
  <1> HIDE DEF kept
  <1>5. ASSUME NEW x, Same(x) PROVE Same(move_to_recv_queue(x)) /\ Same(parse_ack(x, s.sn))
    BY <1>5 DEF move_to_recv_queue, parse_ack, EngineFields
  <1>6. parse_data(acked, s) \in {acked, move_to_recv_queue(acked), move_to_recv_queue(kept)}
    BY DEF parse_data, kept
  <1>7. input_push(heard, s) \in {heard, acked, parse_data(acked, s)} BY DEF input_push, acked
  <1>8. input_ack(heard, s, t) \in {parse_ack(heard, s.sn), parse_ack(rated, s.sn)}
    BY DEF input_ack, rated
  <1>9. s.cmd \in Cmds BY DEF WireSeg
  <1>10. input_segment(e, s, t) \in
            {e, input_ack(heard, s, t), input_push(heard, s), asked, heard}
    BY <1>9 DEF input_segment, heard, told, asked, Cmds
  <1> HIDE DEF Same
  <1>11. Same(input_push(heard, s)) BY <1>2, <1>3, <1>4, <1>5, <1>6, <1>7
  <1>12. Same(input_ack(heard, s, t)) BY <1>2, <1>3, <1>5, <1>8
  <1>13. Same(input_segment(e, s, t)) BY <1>1, <1>2, <1>3, <1>10, <1>11, <1>12
  <1> QED BY <1>13 DEF Same

\* input() keeps the congestion window open.
LEMMA InputCwnd ==
    ASSUME NEW e, IsEngine(e), e.wnd.cwnd >= 1, NEW segs \in Seq(WireSeg), NEW t \in Words
    PROVE  input(e, segs, t).wnd.cwnd >= 1
  <1> DEFINE end    == input_loop(e, segs, t)
             shrunk == shrink_buf(end.eng)
             fast   == IF end.ack.flag
                       THEN parse_fastack(shrunk, end.ack.max_ack, end.ack.latest_ts) ELSE shrunk
  <1>1. Len(segs) \in Nat OBVIOUS
  <1>2. PICK f : /\ f[0] = [eng |-> e, ack |-> NoAck]
                 /\ \A i \in 1 .. Len(segs) : f[i] = input_step(f[i - 1], segs[i], t)
                 /\ end = f[Len(segs)]
    BY <1>1, InputLoopChain
  <1> DEFINE S == {n \in Nat : IsEngine(f[n].eng) /\ f[n].eng.wnd.cwnd = e.wnd.cwnd}
  <1>3. 0 \in S BY <1>2
  <1>4. ASSUME NEW n \in 1 .. Len(segs), n - 1 \in S PROVE n \in S
    <2>1. segs[n] \in WireSeg OBVIOUS
    <2>2. IsEngine(f[n - 1].eng) /\ f[n - 1].eng.wnd.cwnd = e.wnd.cwnd BY <1>4
    <2>3. f[n].eng = input_segment(f[n - 1].eng, segs[n], t)
      <3> HIDE DEF S, end
      <3>1. f[n] = input_step(f[n - 1], segs[n], t) BY <1>2
      <3> QED BY <3>1 DEF input_step
    <2>4. IsEngine(f[n].eng) BY <2>1, <2>2, <2>3, InputSegmentType
    <2>5. f[n].eng.wnd.cwnd = e.wnd.cwnd BY <2>1, <2>2, <2>3, SegmentCwnd
    <2> QED BY <2>4, <2>5
  <1>5. Len(segs) \in S
    <2> HIDE DEF S
    <2> QED BY <1>1, <1>3, <1>4, UpTo
  <1>6. IsEngine(end.eng) /\ end.eng.wnd.cwnd = e.wnd.cwnd /\ end.ack \in AckState
    BY <1>2, <1>5, InputLoopType
  <1> HIDE DEF end
  <1>7. IsEngine(shrunk) /\ shrunk.wnd = end.eng.wnd
    BY <1>6, ShrinkBufType DEF shrink_buf, IsEngine, EngineFields
  <1> HIDE DEF shrunk
  <1>8. IsEngine(fast) /\ fast.wnd = shrunk.wnd
    <2>1. ASSUME NEW sn \in Words, NEW ts \in Words
          PROVE  IsEngine(parse_fastack(shrunk, sn, ts))
                 /\ parse_fastack(shrunk, sn, ts).wnd = shrunk.wnd
      <3>1. IsEngine(parse_fastack(shrunk, sn, ts)) BY <1>7, ParseFastackType
      <3>2. parse_fastack(shrunk, sn, ts).wnd = shrunk.wnd
        BY <1>7 DEF parse_fastack, IsEngine, EngineFields
      <3> QED BY <3>1, <3>2
    <2> QED BY <1>6, <1>7, <2>1 DEF AckState
  <1> HIDE DEF fast
  <1> DEFINE adv == seq_after(fast.snd_una, e.snd_una)
             w   == update_cwnd(fast.wnd, adv)
  <1>9. input(e, segs, t) = [fast EXCEPT !.wnd = w] BY DEF input, fast, shrunk, end
  <1>10. adv \in BOOLEAN BY DEF seq_after
  <1>11. fast.wnd \in WindowState /\ fast.wnd.cwnd >= 1 BY <1>6, <1>7, <1>8 DEF IsEngine
  <1>12. w.cwnd >= 1
    <2> HIDE DEF adv
    <2> QED BY <1>10, <1>11, UpdateCwndPositive
  <1> HIDE DEF w
  <1> QED BY <1>8, <1>9, <1>12 DEF IsEngine, EngineFields

\* flush() keeps the congestion window open, whether or not it succeeds.
LEMMA FlushCwnd ==
    ASSUME NEW e, IsEngine(e), e.wnd.cwnd >= 1, NEW t \in Words
    PROVE  flush(e, t).eng.wnd.cwnd >= 1
  <1> DEFINE h == flush_head(e, t)
             m == mark_segments_for_send(h, t)
             inflight == WrapSub(h.snd_nxt, h.snd_una)
             w == update_congestion_on_loss(m.wnd, lost(h, t), change(h, t), inflight)
  <1>1. IsEngine(h) BY FlushHeadType
  <1>2. h.wnd = e.wnd
    BY DEF flush_head, move_to_send_buf, clear_probe, flush_acks, IsEngine, EngineFields
  <1> HIDE DEF h
  <1>3. IsEngine(m) BY <1>1, MarkType
  <1>4. m.wnd = h.wnd BY <1>1 DEF mark_segments_for_send, IsEngine, EngineFields
  <1> HIDE DEF m
  <1>5. inflight \in Nat
    <2>1. h.snd_nxt \in Words /\ h.snd_una \in Words BY <1>1 DEF IsEngine
    <2>2. inflight \in Words BY <2>1, WrapSubType
    <2> QED BY <2>2, HalfAssumption DEF Words, Word
  <1>6. lost(h, t) \in BOOLEAN /\ change(h, t) \in BOOLEAN BY DEF lost, change
  <1>7. w.cwnd >= 1 BY <1>3, <1>5, <1>6, OnLossType DEF IsEngine
  <1>8. flush(e, t).eng \in {m, [m EXCEPT !.wnd = w]} BY DEF flush, h, m
  <1> HIDE DEF w
  <1>9. [m EXCEPT !.wnd = w].wnd = w BY <1>3 DEF IsEngine, EngineFields
  <1> QED BY <1>2, <1>4, <1>7, <1>8, <1>9

\* The congestion window is never closed, by any order of losses, growth and
\* remote windows: a segment can always be sent when the remote window allows.
THEOREM WindowOpen == Spec => []CwndPositive
  <1>1. Init => CwndPositive
    BY WindowAssumption DEF Init, CwndPositive, new
  <1>2. TypeOK /\ CwndPositive /\ [Next]_vars => CwndPositive'
    <2> SUFFICES ASSUME TypeOK, CwndPositive, [Next]_vars PROVE CwndPositive' OBVIOUS
    <2>1. ASSUME NEW p \in Peers, NEW x, x.wnd.cwnd >= 1, eng' = [eng EXCEPT ![p] = x]
          PROVE  CwndPositive'
      BY <2>1 DEF CwndPositive, TypeOK
    <2>2. ASSUME NEW p \in Peers
          PROVE  IsEngine(eng[p]) /\ eng[p].wnd.cwnd >= 1 /\ now \in Words
      BY NowType DEF TypeOK, CwndPositive
    <2>3. ASSUME NEW p \in Peers, NEW size \in Sizes, Send(p, size) PROVE CwndPositive'
      <3> DEFINE data == [i \in 1 .. size |-> offered[p] + i]
                 x == send(eng[p], data).eng
      <3>1. eng' = [eng EXCEPT ![p] = x] BY <2>3 DEF Send
      <3> HIDE DEF data
      <3>2. x.wnd = eng[p].wnd BY <2>2 DEF send, IsEngine, EngineFields
      <3> HIDE DEF x
      <3> QED BY <2>1, <2>2, <3>1, <3>2
    <2>4. ASSUME NEW p \in Peers, Recv(p) PROVE CwndPositive'
      <3> DEFINE x == recv(eng[p])
      <3>1. eng' = [eng EXCEPT ![p] = x] BY <2>4 DEF Recv
      <3>2. x.wnd = eng[p].wnd
        BY <2>2 DEF recv, move_to_recv_queue, IsEngine, EngineFields
      <3> HIDE DEF x
      <3> QED BY <2>1, <2>2, <3>1, <3>2
    <2>5. ASSUME NEW p \in Peers, Input(p) PROVE CwndPositive'
      <3>1. PICK d \in net : eng' = [eng EXCEPT ![p] = input(eng[p], d.segs, now)]
        BY <2>5 DEF Input
      <3>2. d.segs \in Seq(WireSeg) BY DEF TypeOK
      <3>3. input(eng[p], d.segs, now).wnd.cwnd >= 1 BY <2>2, <3>2, InputCwnd
      <3> QED BY <2>1, <3>1, <3>3
    <2>6. ASSUME NEW p \in Peers, Flush(p) \/ FlushLost(p) \/ FlushIgnored(p) PROVE CwndPositive'
      <3>1. eng' = [eng EXCEPT ![p] = flush(eng[p], now).eng]
        BY <2>6 DEF Flush, FlushLost, FlushIgnored, FlushEngine
      <3>2. flush(eng[p], now).eng.wnd.cwnd >= 1 BY <2>2, FlushCwnd
      <3> QED BY <2>1, <3>1, <3>2
    <2>7. CASE UNCHANGED eng BY <2>7 DEF CwndPositive
    <2>8. CASE Tick BY <2>7, <2>8 DEF Tick
    <2>9. CASE UNCHANGED vars BY <2>7, <2>9 DEF vars
    <2> QED BY <2>3, <2>4, <2>5, <2>6, <2>8, <2>9, PeerAssumption DEF Next, Peers
  <1> QED BY <1>1, <1>2, TypeCorrect, PTL DEF Spec
=============================================================================
