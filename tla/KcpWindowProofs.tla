--------------------------- MODULE KcpWindowProofs ---------------------------
(***************************************************************************)
(* Theorems about KcpLink beyond the order of the data: how much an engine *)
(* holds, when it is dead, when it is due, and that what fills its receive *)
(* queue can be read.                                                      *)
(***************************************************************************)
EXTENDS KcpSafetyProofs

-----------------------------------------------------------------------------
(* What is kept of an engine *)

\* The receive side is within its window.
RcvIn(e) ==
    /\ Len(e.rcv_queue) <= RcvWnd
    /\ \A sn \in DOMAIN e.rcv_buf : WrapSub(sn, e.rcv_nxt) < RcvWnd

\* The send side is within its window, and with nothing in flight all is
\* acknowledged.
SndIn(e) ==
    /\ WrapSub(e.snd_nxt, e.snd_una) <= SndWnd
    /\ \A sn \in DOMAIN e.snd_buf : WrapSub(sn, e.snd_una) < WrapSub(e.snd_nxt, e.snd_una)
    /\ DOMAIN e.snd_buf = {} => e.snd_una = e.snd_nxt

\* No segment was transmitted dead_link times.
Alive(e) == \A sn \in DOMAIN e.snd_buf : e.snd_buf[sn].xmit < MaxRetries

\* An armed probe timer has a deadline that shows.
Timed(e) == e.probe.wait # 0 => e.probe.ts # 0

\* x is e after acknowledgements: segments left the send buffer, no more.
Drops(e, x) ==
    /\ x.snd_una = e.snd_una /\ x.snd_nxt = e.snd_nxt /\ x.snd_queue = e.snd_queue
    /\ DOMAIN x.snd_buf \subseteq DOMAIN e.snd_buf
    /\ \A sn \in DOMAIN x.snd_buf : x.snd_buf[sn].xmit = e.snd_buf[sn].xmit
    /\ x.probe.wait = e.probe.wait /\ x.probe.ts = e.probe.ts

\* Distances on the circle of sequence numbers add up.
LEMMA Distances ==
    ASSUME NEW o \in Words, NEW a \in Words
    PROVE  /\ WrapSub(a, o) \in Nat /\ WrapSub(a, o) < Word /\ WrapSub(o, o) = 0
           /\ \A b \in Nat : WrapSub(a, o) + b < Word => WrapSub(WrapAdd(a, b), o) = WrapSub(a, o) + b
           /\ \A f \in Words : WrapSub(f, o) <= WrapSub(a, o) =>
                 WrapSub(a, f) = WrapSub(a, o) - WrapSub(f, o)
           /\ \A b \in Nat : b <= WrapSub(a, o) =>
                 WrapSub(a, WrapAdd(o, b)) = WrapSub(a, o) - b
  <1>1. WrapSub(a, o) \in Nat /\ WrapSub(a, o) < Word /\ WrapSub(o, o) = 0
    BY HalfAssumption DEF WrapSub, Words, Word
  <1>2. \A b \in Nat : WrapSub(a, o) + b < Word => WrapSub(WrapAdd(a, b), o) = WrapSub(a, o) + b
    BY HalfAssumption DEF WrapSub, WrapAdd, Words, Word
  <1>3. \A f \in Words : WrapSub(f, o) <= WrapSub(a, o) =>
            WrapSub(a, f) = WrapSub(a, o) - WrapSub(f, o)
    BY HalfAssumption DEF WrapSub, Words, Word
  <1>4. \A b \in Nat : b <= WrapSub(a, o) =>
            WrapSub(a, WrapAdd(o, b)) = WrapSub(a, o) - b
    BY HalfAssumption DEF WrapSub, WrapAdd, Words, Word
  <1> QED BY <1>1, <1>2, <1>3, <1>4

-----------------------------------------------------------------------------
(* The receive window *)

\* move_to_recv_queue stays within the window.
LEMMA MoveRcvIn ==
    ASSUME NEW e, IsEngine(e), RcvIn(e) PROVE RcvIn(move_to_recv_queue(e))
  <1> DEFINE n     == run_length(e)
             q     == e.rcv_queue
             moved == {WrapAdd(e.rcv_nxt, i) : i \in 0 .. (n - 1)}
             tail  == [i \in 1 .. n |-> e.rcv_buf[WrapAdd(e.rcv_nxt, i - 1)]]
             x     == move_to_recv_queue(e)
  <1>1. q \in Seq(Piece) /\ SeqNumMap(e.rcv_buf, Piece) /\ e.rcv_nxt \in Words BY DEF IsEngine
  <1>2. /\ n \in Nat /\ (n > 0 => Len(q) + n <= RcvWnd)
        /\ \A i \in 0 .. (n - 1) : WrapAdd(e.rcv_nxt, i) \in DOMAIN e.rcv_buf
    BY RunLength
  <1>3. /\ x.rcv_queue = q \o tail
        /\ x.rcv_buf = Without(e.rcv_buf, moved)
        /\ x.rcv_nxt = WrapAdd(e.rcv_nxt, n)
    BY DEF move_to_recv_queue, IsEngine, EngineFields
  <1> HIDE DEF x, n
  <1>4. tail \in Seq(Piece) /\ Len(tail) = n
    <2>1. \A i \in 1 .. n : e.rcv_buf[WrapAdd(e.rcv_nxt, i - 1)] \in Piece
      BY <1>1, <1>2 DEF SeqNumMap
    <2> QED BY <2>1, <1>2
  <1> HIDE DEF tail
  <1>5. Len(x.rcv_queue) = Len(q) + n /\ Len(q) \in Nat BY <1>1, <1>3, <1>4, SMTT(20)
  <1>6. Len(x.rcv_queue) <= RcvWnd BY <1>2, <1>5, WindowAssumption DEF RcvIn
  <1>7. ASSUME NEW sn \in DOMAIN x.rcv_buf PROVE WrapSub(sn, x.rcv_nxt) < RcvWnd
    <2>1. sn \in DOMAIN e.rcv_buf /\ sn \notin moved BY <1>3 DEF Without
    <2>2. sn \in Words BY <1>1, <2>1 DEF SeqNumMap
    <2>3. WrapSub(sn, e.rcv_nxt) < RcvWnd BY <2>1 DEF RcvIn
    <2>4. WrapSub(sn, e.rcv_nxt) \in Nat /\ WrapSub(sn, e.rcv_nxt) \in Words
      BY <1>1, <2>2, Distances, WrapSubType
    <2>5. WrapAdd(e.rcv_nxt, WrapSub(sn, e.rcv_nxt)) = sn BY <1>1, <2>2, WrapRoundTrip
    <2>6. ~(WrapSub(sn, e.rcv_nxt) < n) BY <1>2, <2>1, <2>4, <2>5
    <2>7. WrapSub(sn, WrapAdd(e.rcv_nxt, n)) = WrapSub(sn, e.rcv_nxt) - n
      <3>1. n <= WrapSub(sn, e.rcv_nxt) BY <1>2, <2>4, <2>6
      <3> QED BY <1>1, <1>2, <2>2, <3>1, Distances
    <2> QED BY <1>2, <1>3, <2>3, <2>4, <2>7, WindowAssumption
  <1> QED BY <1>6, <1>7 DEF RcvIn, x

\* The receive window depends on three fields.
LEMMA RcvInFrame ==
    ASSUME NEW e, NEW x, RcvIn(e),
           x.rcv_nxt = e.rcv_nxt, x.rcv_queue = e.rcv_queue, x.rcv_buf = e.rcv_buf
    PROVE  RcvIn(x)
  BY DEF RcvIn

\* What the PUSH arm keeps is inside the window.
LEMMA PushRcvIn ==
    ASSUME NEW e, IsEngine(e), RcvIn(e), NEW s \in WireSeg PROVE RcvIn(input_push(e, s))
  <1> DEFINE acked == ack_push(e, s.sn, s.ts)
             piece == [frg |-> s.frg, data |-> s.data]
             kept  == [acked EXCEPT !.rcv_buf = Extend(@, s.sn, piece)]
  <1>1. s.sn \in Words /\ s.ts \in Words /\ piece \in Piece BY DEF WireSeg, Piece
  <1>2. IsEngine(acked)
    <2>1. Append(e.ack_list, [sn |-> s.sn, ts |-> s.ts]) \in Seq([sn : Words, ts : Words])
      BY <1>1 DEF IsEngine
    <2> QED BY <2>1 DEF ack_push, IsEngine, EngineFields
  <1>3. /\ acked.rcv_nxt = e.rcv_nxt /\ acked.rcv_queue = e.rcv_queue
        /\ acked.rcv_buf = e.rcv_buf
    BY DEF ack_push, IsEngine, EngineFields
  <1> HIDE DEF acked
  <1>4. RcvIn(acked) BY <1>3, RcvInFrame
  <1>5. ASSUME in_window(acked, s.sn), ~seq_before(s.sn, acked.rcv_nxt) PROVE IsEngine(kept) /\ RcvIn(kept)
    <2> DEFINE end == WrapAdd(acked.rcv_nxt, RcvWnd)
    <2>1. acked.rcv_nxt \in Words BY <1>2 DEF IsEngine
    <2>2. end \in Words /\ WrapSub(end, acked.rcv_nxt) = RcvWnd
      <3>1. RcvWnd \in Words /\ RcvWnd \in Nat /\ RcvWnd < Word
        BY WindowAssumption, HalfAssumption DEF Words, Word
      <3> QED BY <2>1, <3>1, WrapAddType, WrapRoundTrip
    <2>3. WrapSub(s.sn, acked.rcv_nxt) < Half
      BY <1>1, <1>5, <2>1, HalfAssumption DEF seq_before, time_diff, WrapSub, Words, Word
    <2>4. seq_before(s.sn, end) BY <1>5 DEF in_window
    <2> HIDE DEF end
    <2>5. WrapSub(s.sn, acked.rcv_nxt) < RcvWnd
      BY <1>1, <2>1, <2>2, <2>3, <2>4, SeqBeforeIsOrder, WindowAssumption
    <2>6. /\ kept.rcv_nxt = acked.rcv_nxt /\ kept.rcv_queue = acked.rcv_queue
          /\ kept.rcv_buf = Extend(acked.rcv_buf, s.sn, piece)
      BY <1>2 DEF IsEngine, EngineFields
    <2>7. SeqNumMap(acked.rcv_buf, Piece) BY <1>2 DEF IsEngine
    <2>8. SeqNumMap(Extend(acked.rcv_buf, s.sn, piece), Piece)
      BY <1>1, <2>7 DEF SeqNumMap, Extend
    <2>9. IsEngine(kept) BY <1>2, <2>8 DEF IsEngine, EngineFields
    <2>10. DOMAIN kept.rcv_buf = DOMAIN acked.rcv_buf \cup {s.sn} BY <2>6 DEF Extend
    <2> HIDE DEF kept
    <2> QED BY <1>4, <2>5, <2>6, <2>9, <2>10 DEF RcvIn
  <1>6. input_push(e, s) \in {e, acked, parse_data(acked, s)} BY DEF input_push, acked
  <1>7. \/ parse_data(acked, s) \in {acked, move_to_recv_queue(acked)}
        \/ /\ in_window(acked, s.sn) /\ ~seq_before(s.sn, acked.rcv_nxt)
           /\ parse_data(acked, s) = move_to_recv_queue(kept)
    BY DEF parse_data
  <1> HIDE DEF kept
  <1>8. RcvIn(parse_data(acked, s)) BY <1>2, <1>4, <1>5, <1>7, MoveRcvIn
  <1> QED BY <1>4, <1>6, <1>8

-----------------------------------------------------------------------------
(* input *)

\* Acknowledgements only drop.
LEMMA DropsTrans ==
    ASSUME NEW e, NEW x, NEW y, Drops(e, x), Drops(x, y) PROVE Drops(e, y)
  BY DEF Drops

\* One segment keeps the receive window, and of the send side it only drops.
LEMMA SegmentWindows ==
    ASSUME NEW e, IsEngine(e), RcvIn(e), NEW s \in WireSeg, NEW t \in Words
    PROVE  RcvIn(input_segment(e, s, t)) /\ Drops(e, input_segment(e, s, t))
  <1> DEFINE told  == [e EXCEPT !.wnd.rmt = s.wnd]
             heard == parse_una(told, s.una)
             asked == [heard EXCEPT !.probe.ask_tell = TRUE]
             rated == [heard EXCEPT !.rtt = update_ack(@, time_diff(t, s.ts))]
             Same(x) == x.rcv_nxt = e.rcv_nxt /\ x.rcv_queue = e.rcv_queue /\ x.rcv_buf = e.rcv_buf
  <1>1. s.una \in Words /\ s.wnd \in Nat /\ s.cmd \in Cmds BY DEF WireSeg
  <1>2. IsEngine(told) /\ Same(told) /\ Drops(e, told)
    <2>1. [e.wnd EXCEPT !.rmt = s.wnd] \in WindowState BY <1>1 DEF IsEngine, WindowState
    <2>2. IsEngine(told) BY <2>1 DEF IsEngine, EngineFields
    <2>3. Same(told) /\ Drops(e, told) BY DEF Drops, IsEngine, EngineFields
    <2> QED BY <2>2, <2>3
  <1> HIDE DEF told
  <1>3. IsEngine(heard) BY <1>1, <1>2, ParseUnaType
  <1>4. Same(heard) BY <1>2 DEF parse_una, IsEngine, EngineFields
  <1>5. Drops(told, heard)
    <2>1. heard.snd_buf = Without(told.snd_buf, {sn \in DOMAIN told.snd_buf : seq_before(sn, s.una)})
      BY <1>2 DEF parse_una, IsEngine, EngineFields
    <2>2. /\ heard.snd_una = told.snd_una /\ heard.snd_nxt = told.snd_nxt /\ heard.probe = told.probe
          /\ heard.snd_queue = told.snd_queue
      BY <1>2 DEF parse_una, IsEngine, EngineFields
    <2> HIDE DEF heard
    <2> QED BY <2>1, <2>2 DEF Drops, Without
  <1> HIDE DEF heard
  <1>6. RcvIn(heard) /\ Drops(e, heard) BY <1>2, <1>4, <1>5, RcvInFrame, DropsTrans
  <1>7. Same(asked) /\ Drops(heard, asked)
    <2>1. heard.probe \in ProbeState BY <1>3 DEF IsEngine
    <2>2. asked.probe = [heard.probe EXCEPT !.ask_tell = TRUE] BY <1>3 DEF IsEngine, EngineFields
    <2>3. asked.probe.wait = heard.probe.wait /\ asked.probe.ts = heard.probe.ts
      BY <2>1, <2>2 DEF ProbeState
    <2>4. /\ asked.snd_una = heard.snd_una /\ asked.snd_nxt = heard.snd_nxt
          /\ asked.snd_queue = heard.snd_queue /\ asked.snd_buf = heard.snd_buf /\ asked.rcv_nxt = heard.rcv_nxt
          /\ asked.rcv_queue = heard.rcv_queue /\ asked.rcv_buf = heard.rcv_buf
      BY <1>3 DEF IsEngine, EngineFields
    <2> HIDE DEF asked
    <2> QED BY <1>4, <2>3, <2>4 DEF Drops
  <1>8. DOMAIN rated = EngineFields /\ Same(rated) /\ Drops(heard, rated)
    BY <1>3, <1>4 DEF Drops, IsEngine, EngineFields
  <1> HIDE DEF asked, rated
  <1>9. ASSUME NEW x, DOMAIN x = EngineFields, Same(x)
        PROVE  Same(parse_ack(x, s.sn)) /\ Drops(x, parse_ack(x, s.sn))
    <2> DEFINE y == [x EXCEPT !.snd_buf = Without(@, {s.sn})]
    <2>1. /\ y.snd_una = x.snd_una /\ y.snd_nxt = x.snd_nxt /\ y.probe = x.probe
          /\ y.snd_queue = x.snd_queue /\ y.snd_buf = Without(x.snd_buf, {s.sn})
          /\ y.rcv_nxt = x.rcv_nxt /\ y.rcv_queue = x.rcv_queue /\ y.rcv_buf = x.rcv_buf
      BY <1>9 DEF EngineFields
    <2> HIDE DEF y
    <2>2. Same(y) /\ Drops(x, y) BY <1>9, <2>1 DEF Drops, Without
    <2>3. Drops(x, x) BY DEF Drops
    <2>4. parse_ack(x, s.sn) \in {x, y} BY DEF parse_ack, y
    <2> QED BY <1>9, <2>2, <2>3, <2>4
  <1>10. input_ack(heard, s, t) \in {parse_ack(heard, s.sn), parse_ack(rated, s.sn)}
    BY DEF input_ack, rated
  <1>11. RcvIn(input_ack(heard, s, t)) /\ Drops(e, input_ack(heard, s, t))
    <2>1. DOMAIN heard = EngineFields BY <1>3 DEF IsEngine
    <2>2. /\ Same(parse_ack(heard, s.sn)) /\ Drops(heard, parse_ack(heard, s.sn))
          /\ Same(parse_ack(rated, s.sn)) /\ Drops(rated, parse_ack(rated, s.sn))
      BY <1>4, <1>8, <1>9, <2>1
    <2>3. Drops(e, parse_ack(heard, s.sn)) /\ Drops(e, parse_ack(rated, s.sn))
      BY <1>6, <1>8, <2>2, DropsTrans
    <2>4. RcvIn(parse_ack(heard, s.sn)) /\ RcvIn(parse_ack(rated, s.sn))
      BY <2>2, RcvInFrame
    <2> QED BY <1>10, <2>3, <2>4
  <1>12. RcvIn(input_push(heard, s)) BY <1>3, <1>6, PushRcvIn
  <1>13. Drops(heard, input_push(heard, s))
    <2> DEFINE Kept(x) == /\ DOMAIN x = EngineFields /\ x.snd_una = heard.snd_una
                          /\ x.snd_nxt = heard.snd_nxt /\ x.snd_buf = heard.snd_buf
                          /\ x.probe = heard.probe /\ x.snd_queue = heard.snd_queue
               acked == ack_push(heard, s.sn, s.ts)
               kept  == [acked EXCEPT !.rcv_buf =
                            Extend(@, s.sn, [frg |-> s.frg, data |-> s.data])]
    <2>1. Kept(heard) /\ Kept(acked) BY <1>3 DEF ack_push, IsEngine, EngineFields
    <2> HIDE DEF acked
    <2>2. Kept(kept) BY <2>1 DEF EngineFields
    <2>3. ASSUME NEW x, Kept(x) PROVE Kept(move_to_recv_queue(x))
      BY <2>3 DEF move_to_recv_queue, EngineFields
    <2> HIDE DEF kept
    <2>4. parse_data(acked, s) \in {acked, move_to_recv_queue(acked), move_to_recv_queue(kept)}
      BY DEF parse_data, kept
    <2>5. input_push(heard, s) \in {heard, acked, parse_data(acked, s)} BY DEF input_push, acked
    <2> HIDE DEF Kept
    <2>6. Kept(input_push(heard, s)) BY <2>1, <2>2, <2>3, <2>4, <2>5
    <2> QED BY <2>6 DEF Kept, Drops
  <1>14. input_segment(e, s, t) \in
            {e, input_ack(heard, s, t), input_push(heard, s), asked, heard}
    BY <1>1 DEF input_segment, heard, told, asked, Cmds
  <1>15. RcvIn(asked) /\ Drops(e, asked) BY <1>6, <1>7, RcvInFrame, DropsTrans
  <1>16. Drops(e, input_push(heard, s)) BY <1>6, <1>13, DropsTrans
  <1>17. Drops(e, e) BY DEF Drops
  <1> HIDE DEF Same
  <1> QED BY <1>6, <1>11, <1>12, <1>14, <1>15, <1>16, <1>17

\* shrink_buf moves snd_una up to the oldest segment in flight.
LEMMA ShrinkSndIn ==
    ASSUME NEW e, IsEngine(e), WrapSub(e.snd_nxt, e.snd_una) <= SndWnd,
           \A sn \in DOMAIN e.snd_buf : WrapSub(sn, e.snd_una) < WrapSub(e.snd_nxt, e.snd_una)
    PROVE  SndIn(shrink_buf(e))
  <1> DEFINE x == shrink_buf(e)
  <1>1. /\ x.snd_buf = e.snd_buf /\ x.snd_nxt = e.snd_nxt
        /\ x.snd_una = IF DOMAIN e.snd_buf = {} THEN e.snd_nxt ELSE front(e)
    BY DEF shrink_buf, IsEngine, EngineFields
  <1> HIDE DEF x
  <1>2. /\ e.snd_nxt \in Words /\ e.snd_una \in Words
        /\ DOMAIN e.snd_buf \subseteq Words
    BY DEF IsEngine, SeqNumMap
  <1>3. CASE DOMAIN e.snd_buf = {}
    <2>1. x.snd_una = e.snd_nxt BY <1>1, <1>3
    <2>2. WrapSub(e.snd_nxt, e.snd_nxt) = 0 BY <1>2, Distances
    <2>3. SndIn(x) BY <1>1, <1>3, <2>1, <2>2, WindowAssumption DEF SndIn
    <2> QED BY <2>3 DEF x
  <1>4. CASE DOMAIN e.snd_buf # {}
    <2> DEFINE f == front(e)
               D == WrapSub(e.snd_nxt, e.snd_una)
    <2>1. /\ f \in DOMAIN e.snd_buf
          /\ \A k \in DOMAIN e.snd_buf : WrapSub(f, e.snd_una) <= WrapSub(k, e.snd_una)
      BY <1>4, FrontIsFirst
    <2>2. x.snd_una = f BY <1>1, <1>4
    <2> HIDE DEF f
    <2>3. f \in Words /\ WrapSub(f, e.snd_una) \in Nat /\ D \in Nat BY <1>2, <2>1, Distances
    <2>4. WrapSub(f, e.snd_una) < D BY <2>1
    <2> HIDE DEF D
    <2>5. WrapSub(e.snd_nxt, f) = D - WrapSub(f, e.snd_una)
      <3>1. WrapSub(f, e.snd_una) <= WrapSub(e.snd_nxt, e.snd_una) BY <2>3, <2>4 DEF D
      <3> QED BY <1>2, <2>3, <3>1, Distances DEF D
    <2>6. WrapSub(x.snd_nxt, x.snd_una) <= SndWnd
      <3>1. D <= SndWnd BY DEF D
      <3> QED BY <1>1, <2>2, <2>3, <2>5, <3>1, WindowAssumption
    <2>7. ASSUME NEW k \in DOMAIN x.snd_buf
          PROVE  WrapSub(k, x.snd_una) < WrapSub(x.snd_nxt, x.snd_una)
      <3>1. k \in DOMAIN e.snd_buf /\ k \in Words BY <1>1, <1>2
      <3>2. WrapSub(f, e.snd_una) <= WrapSub(k, e.snd_una) BY <2>1, <3>1
      <3>3. WrapSub(k, f) = WrapSub(k, e.snd_una) - WrapSub(f, e.snd_una)
        BY <1>2, <2>3, <3>1, <3>2, Distances
      <3>4. WrapSub(k, e.snd_una) \in Nat /\ WrapSub(k, e.snd_una) < D
        BY <1>2, <3>1, Distances DEF D
      <3> QED BY <1>1, <2>2, <2>3, <2>5, <3>3, <3>4
    <2>8. DOMAIN x.snd_buf # {} BY <1>1, <1>4
    <2>9. SndIn(x) BY <2>6, <2>7, <2>8 DEF SndIn
    <2> QED BY <2>9 DEF x
  <1> QED BY <1>3, <1>4

\* A datagram keeps the windows, the transmissions and the probe timer.
LEMMA InputWindows ==
    ASSUME NEW e, IsEngine(e), RcvIn(e), SndIn(e), NEW segs \in Seq(WireSeg), NEW t \in Words
    PROVE  LET x == input(e, segs, t) IN
           /\ RcvIn(x) /\ SndIn(x)
           /\ Alive(e) => Alive(x)
           /\ Timed(e) => Timed(x)
           /\ x.snd_queue = e.snd_queue
  <1> DEFINE end    == input_loop(e, segs, t)
             shrunk == shrink_buf(end.eng)
             fast   == IF end.ack.flag
                       THEN parse_fastack(shrunk, end.ack.max_ack, end.ack.latest_ts) ELSE shrunk
             x      == input(e, segs, t)
  <1>1. Len(segs) \in Nat OBVIOUS
  <1>2. PICK f : /\ f[0] = [eng |-> e, ack |-> NoAck]
                 /\ \A i \in 1 .. Len(segs) : f[i] = input_step(f[i - 1], segs[i], t)
                 /\ end = f[Len(segs)]
    BY <1>1, InputLoopChain
  <1> DEFINE S == {n \in Nat : IsEngine(f[n].eng) /\ RcvIn(f[n].eng) /\ Drops(e, f[n].eng)}
  <1>3. 0 \in S
    <2>1. Drops(e, e) BY DEF Drops
    <2> QED BY <1>2, <2>1
  <1>4. ASSUME NEW n \in 1 .. Len(segs), n - 1 \in S PROVE n \in S
    <2>1. segs[n] \in WireSeg OBVIOUS
    <2>2. IsEngine(f[n - 1].eng) /\ RcvIn(f[n - 1].eng) /\ Drops(e, f[n - 1].eng) BY <1>4
    <2>3. f[n].eng = input_segment(f[n - 1].eng, segs[n], t)
      <3> HIDE DEF S, end
      <3>1. f[n] = input_step(f[n - 1], segs[n], t) BY <1>2
      <3> QED BY <3>1 DEF input_step
    <2>4. IsEngine(f[n].eng) BY <2>1, <2>2, <2>3, InputSegmentType
    <2>5. RcvIn(f[n].eng) /\ Drops(f[n - 1].eng, f[n].eng) BY <2>1, <2>2, <2>3, SegmentWindows
    <2>6. Drops(e, f[n].eng) BY <2>2, <2>5, DropsTrans
    <2> QED BY <2>4, <2>5, <2>6
  <1>5. Len(segs) \in S
    <2> HIDE DEF S
    <2> QED BY <1>1, <1>3, <1>4, UpTo
  <1>6. IsEngine(end.eng) /\ RcvIn(end.eng) /\ Drops(e, end.eng) /\ end.ack \in AckState
    BY <1>2, <1>5, InputLoopType
  <1> HIDE DEF end
  <1>7. IsEngine(shrunk) BY <1>6, ShrinkBufType
  <1>8. SndIn(shrunk)
    <2>1. WrapSub(end.eng.snd_nxt, end.eng.snd_una) <= SndWnd BY <1>6 DEF Drops, SndIn
    <2>2. \A sn \in DOMAIN end.eng.snd_buf :
            WrapSub(sn, end.eng.snd_una) < WrapSub(end.eng.snd_nxt, end.eng.snd_una)
      BY <1>6 DEF Drops, SndIn
    <2> QED BY <1>6, <2>1, <2>2, ShrinkSndIn
  <1>9. /\ shrunk.rcv_nxt = end.eng.rcv_nxt /\ shrunk.rcv_queue = end.eng.rcv_queue
        /\ shrunk.rcv_buf = end.eng.rcv_buf /\ shrunk.snd_buf = end.eng.snd_buf
        /\ shrunk.probe = end.eng.probe /\ shrunk.snd_queue = end.eng.snd_queue
    BY <1>6 DEF shrink_buf, IsEngine, EngineFields
  <1> HIDE DEF shrunk
  <1>10. /\ DOMAIN fast = EngineFields
         /\ fast.rcv_nxt = shrunk.rcv_nxt /\ fast.rcv_queue = shrunk.rcv_queue
         /\ fast.rcv_buf = shrunk.rcv_buf /\ fast.probe = shrunk.probe
         /\ fast.snd_una = shrunk.snd_una /\ fast.snd_nxt = shrunk.snd_nxt /\ fast.snd_queue = shrunk.snd_queue
         /\ DOMAIN fast.snd_buf = DOMAIN shrunk.snd_buf
         /\ \A sn \in DOMAIN shrunk.snd_buf : fast.snd_buf[sn].xmit = shrunk.snd_buf[sn].xmit
    <2>1. ASSUME NEW a, NEW ts
          PROVE  LET y == parse_fastack(shrunk, a, ts) IN
                 /\ DOMAIN y = EngineFields
                 /\ y.rcv_nxt = shrunk.rcv_nxt /\ y.rcv_queue = shrunk.rcv_queue
                 /\ y.rcv_buf = shrunk.rcv_buf /\ y.probe = shrunk.probe
                 /\ y.snd_una = shrunk.snd_una /\ y.snd_nxt = shrunk.snd_nxt /\ y.snd_queue = shrunk.snd_queue
                 /\ DOMAIN y.snd_buf = DOMAIN shrunk.snd_buf
                 /\ \A sn \in DOMAIN shrunk.snd_buf : y.snd_buf[sn].xmit = shrunk.snd_buf[sn].xmit
      <3> DEFINE g == [k \in DOMAIN shrunk.snd_buf |->
                        IF seq_before(k, a) /\ time_diff(ts, shrunk.snd_buf[k].ts) >= 0
                        THEN [shrunk.snd_buf[k] EXCEPT !.fastack = @ + 1] ELSE shrunk.snd_buf[k]]
                 y == parse_fastack(shrunk, a, ts)
      <3>1. \A sn \in DOMAIN shrunk.snd_buf : shrunk.snd_buf[sn] \in SndSeg
        BY <1>7 DEF IsEngine, SeqNumMap
      <3>2. \A sn \in DOMAIN shrunk.snd_buf : g[sn].xmit = shrunk.snd_buf[sn].xmit
        BY <3>1 DEF SndSeg
      <3>3. DOMAIN g = DOMAIN shrunk.snd_buf OBVIOUS
      <3>4. y \in {shrunk, [shrunk EXCEPT !.snd_buf = g]} BY DEF parse_fastack
      <3> HIDE DEF g, y
      <3>5. LET z == [shrunk EXCEPT !.snd_buf = g] IN
                 /\ DOMAIN z = EngineFields
                 /\ z.rcv_nxt = shrunk.rcv_nxt /\ z.rcv_queue = shrunk.rcv_queue
                 /\ z.rcv_buf = shrunk.rcv_buf /\ z.probe = shrunk.probe
                 /\ z.snd_una = shrunk.snd_una /\ z.snd_nxt = shrunk.snd_nxt /\ z.snd_queue = shrunk.snd_queue
                 /\ z.snd_buf = g
        BY <1>7 DEF IsEngine, EngineFields
      <3>6. DOMAIN shrunk = EngineFields BY <1>7 DEF IsEngine
      <3>7. CASE y = shrunk BY <3>6, <3>7 DEF y
      <3>8. CASE y = [shrunk EXCEPT !.snd_buf = g] BY <3>2, <3>3, <3>5, <3>8 DEF y
      <3> QED BY <3>4, <3>7, <3>8
    <2>2. DOMAIN shrunk = EngineFields BY <1>7 DEF IsEngine
    <2> QED BY <2>1, <2>2
  <1> HIDE DEF fast
  <1>11. x = [fast EXCEPT !.wnd = update_cwnd(@, seq_after(fast.snd_una, e.snd_una))]
    BY DEF input, fast, shrunk, end
  <1>12. /\ x.rcv_nxt = end.eng.rcv_nxt /\ x.rcv_queue = end.eng.rcv_queue
         /\ x.rcv_buf = end.eng.rcv_buf /\ x.probe = end.eng.probe
         /\ x.snd_una = shrunk.snd_una /\ x.snd_nxt = shrunk.snd_nxt
         /\ x.snd_buf = fast.snd_buf /\ x.snd_queue = end.eng.snd_queue
    BY <1>9, <1>10, <1>11 DEF EngineFields
  <1> HIDE DEF x
  <1>13. RcvIn(x) BY <1>6, <1>12, RcvInFrame
  <1>14. SndIn(x) BY <1>8, <1>10, <1>12 DEF SndIn
  <1>15. Alive(e) => Alive(x) BY <1>6, <1>9, <1>10, <1>12 DEF Alive, Drops
  <1>16. Timed(e) => Timed(x) BY <1>6, <1>12 DEF Timed, Drops
  <1>17. x.snd_queue = e.snd_queue BY <1>6, <1>12 DEF Drops
  <1> QED BY <1>13, <1>14, <1>15, <1>16, <1>17 DEF x

-----------------------------------------------------------------------------
(* send, recv and flush *)

\* The send side depends on three fields.
LEMMA SndInFrame ==
    ASSUME NEW e, NEW x, x.snd_una = e.snd_una, x.snd_nxt = e.snd_nxt, x.snd_buf = e.snd_buf
    PROVE  (SndIn(e) => SndIn(x)) /\ (Alive(e) <=> Alive(x))
  BY DEF SndIn, Alive

\* A write only touches the send queue.
LEMMA SendFields ==
    ASSUME NEW e, IsEngine(e), NEW d
    PROVE  LET x == send(e, d).eng IN
           /\ x.snd_una = e.snd_una /\ x.snd_nxt = e.snd_nxt /\ x.snd_buf = e.snd_buf
           /\ x.rcv_nxt = e.rcv_nxt /\ x.rcv_queue = e.rcv_queue /\ x.rcv_buf = e.rcv_buf
           /\ x.probe = e.probe
  BY DEF send, IsEngine, EngineFields

\* A read makes room and moves what fits.
LEMMA RecvWindows ==
    ASSUME NEW e, IsEngine(e), RcvIn(e), e.rcv_queue # <<>>
    PROVE  LET x == recv(e) IN
           /\ RcvIn(x)
           /\ x.snd_una = e.snd_una /\ x.snd_nxt = e.snd_nxt /\ x.snd_buf = e.snd_buf
           /\ x.snd_queue = e.snd_queue
           /\ x.probe.wait = e.probe.wait /\ x.probe.ts = e.probe.ts
  <1> DEFINE rest   == SubSeq(e.rcv_queue, message_span(e.rcv_queue) + 1, Len(e.rcv_queue))
             popped == [e EXCEPT !.rcv_queue = rest]
             moved  == move_to_recv_queue(popped)
             tell   == moved.probe.ask_tell \/ (Len(e.rcv_queue) >= RcvWnd
                                                /\ Len(moved.rcv_queue) < RcvWnd)
             x      == recv(e)
  <1>1. e.rcv_queue \in Seq(Piece) BY DEF IsEngine
  <1>2. message_span(e.rcv_queue) \in 1 .. Len(e.rcv_queue) BY <1>1, MessageSpan
  <1>3. rest \in Seq(Piece) /\ Len(rest) <= Len(e.rcv_queue) BY <1>1, <1>2
  <1> HIDE DEF rest
  <1>4. IsEngine(popped) BY <1>3 DEF IsEngine, EngineFields
  <1>5. /\ popped.rcv_queue = rest /\ popped.rcv_nxt = e.rcv_nxt /\ popped.rcv_buf = e.rcv_buf
        /\ popped.snd_una = e.snd_una /\ popped.snd_nxt = e.snd_nxt /\ popped.snd_buf = e.snd_buf
        /\ popped.probe = e.probe /\ popped.snd_queue = e.snd_queue
    BY DEF IsEngine, EngineFields
  <1> HIDE DEF popped
  <1>6. RcvIn(popped)
    <2>1. Len(popped.rcv_queue) <= RcvWnd BY <1>1, <1>3, <1>5, WindowAssumption DEF RcvIn
    <2> QED BY <1>5, <2>1 DEF RcvIn
  <1>7. IsEngine(moved) /\ RcvIn(moved) BY <1>4, <1>6, MoveToRecvQueueType, MoveRcvIn
  <1>8. /\ moved.snd_una = popped.snd_una /\ moved.snd_nxt = popped.snd_nxt
        /\ moved.snd_buf = popped.snd_buf /\ moved.probe = popped.probe
        /\ moved.snd_queue = popped.snd_queue
    BY <1>4 DEF move_to_recv_queue, IsEngine, EngineFields
  <1> HIDE DEF moved
  <1>9. x = [moved EXCEPT !.probe.ask_tell = tell] BY DEF recv, moved, popped, rest
  <1> HIDE DEF tell
  <1>10. /\ x.snd_una = moved.snd_una /\ x.snd_nxt = moved.snd_nxt /\ x.snd_buf = moved.snd_buf
         /\ x.snd_queue = moved.snd_queue
         /\ x.rcv_nxt = moved.rcv_nxt /\ x.rcv_queue = moved.rcv_queue
         /\ x.rcv_buf = moved.rcv_buf /\ x.probe = [moved.probe EXCEPT !.ask_tell = tell]
    BY <1>7, <1>9 DEF IsEngine, EngineFields
  <1>11. moved.probe \in ProbeState BY <1>7 DEF IsEngine
  <1>12. x.probe.wait = moved.probe.wait /\ x.probe.ts = moved.probe.ts
    BY <1>10, <1>11 DEF ProbeState
  <1> HIDE DEF x
  <1>13. RcvIn(x) BY <1>7, <1>10, RcvInFrame
  <1> QED BY <1>5, <1>8, <1>10, <1>12, <1>13 DEF x

\* What move_to_send_buf is called with.
before_move(e, t) == clear_probe([flush_acks(e) EXCEPT !.probe = probe_timer(e, t)])

\* Acknowledging and probing leaves the send side alone.
LEMMA BeforeMove ==
    ASSUME NEW e, IsEngine(e), NEW t \in Words
    PROVE  LET a == before_move(e, t) IN
           /\ IsEngine(a) /\ flush_head(e, t) = move_to_send_buf(a, t)
           /\ a.snd_una = e.snd_una /\ a.snd_nxt = e.snd_nxt /\ a.snd_buf = e.snd_buf
           /\ a.snd_queue = e.snd_queue /\ a.wnd = e.wnd
           /\ a.rcv_nxt = e.rcv_nxt /\ a.rcv_queue = e.rcv_queue /\ a.rcv_buf = e.rcv_buf
           /\ a.probe.wait = probe_timer(e, t).wait /\ a.probe.ts = probe_timer(e, t).ts
           /\ move_count(a) = move_count(e)
  <1> DEFINE p == probe_timer(e, t)
             b == [flush_acks(e) EXCEPT !.probe = p]
             a == clear_probe(b)
  <1>1. p \in ProbeState BY ProbeTimerType
  <1>2. flush_head(e, t) = move_to_send_buf(a, t) /\ a = before_move(e, t)
    BY DEF flush_head, before_move
  <1> HIDE DEF p
  <1>3. IsEngine(flush_acks(e)) BY DEF flush_acks, IsEngine, EngineFields
  <1>4. IsEngine(b) BY <1>1, <1>3 DEF IsEngine, EngineFields
  <1>5. /\ b.snd_una = e.snd_una /\ b.snd_nxt = e.snd_nxt /\ b.snd_buf = e.snd_buf
        /\ b.snd_queue = e.snd_queue /\ b.wnd = e.wnd
        /\ b.rcv_nxt = e.rcv_nxt /\ b.rcv_queue = e.rcv_queue /\ b.rcv_buf = e.rcv_buf
        /\ b.probe = p
    BY DEF flush_acks, IsEngine, EngineFields
  <1> HIDE DEF b
  <1>6. [b.probe EXCEPT !.ask_send = FALSE, !.ask_tell = FALSE] \in ProbeState
    BY <1>1, <1>5 DEF ProbeState
  <1>7. IsEngine(a) BY <1>4, <1>6 DEF clear_probe, IsEngine, EngineFields
  <1>8. /\ a.snd_una = b.snd_una /\ a.snd_nxt = b.snd_nxt /\ a.snd_buf = b.snd_buf
        /\ a.snd_queue = b.snd_queue /\ a.wnd = b.wnd
        /\ a.rcv_nxt = b.rcv_nxt /\ a.rcv_queue = b.rcv_queue /\ a.rcv_buf = b.rcv_buf
    BY <1>4 DEF clear_probe, IsEngine, EngineFields
  <1>9. a.probe.wait = p.wait /\ a.probe.ts = p.ts
    BY <1>1, <1>4, <1>5 DEF clear_probe, IsEngine, EngineFields, ProbeState
  <1> HIDE DEF a
  <1>10. move_count(a) = move_count(e) BY <1>5, <1>8 DEF move_count, send_window
  <1> QED BY <1>2, <1>5, <1>7, <1>8, <1>9, <1>10 DEF p

\* How far move_to_send_buf goes: to the end of the send window, or of the queue.
LEMMA MoveCountWindow ==
    ASSUME NEW e, IsEngine(e), WrapSub(e.snd_nxt, e.snd_una) <= SndWnd
    PROVE  /\ send_window(e) \in 0 .. SndWnd
           /\ move_count(e) = Min2(Len(e.snd_queue),
                  Max2(0, send_window(e) - WrapSub(e.snd_nxt, e.snd_una)))
           /\ move_count(e) \in Nat
           /\ WrapSub(e.snd_nxt, e.snd_una) + move_count(e) <= SndWnd
  <1> DEFINE w == send_window(e)
             D == WrapSub(e.snd_nxt, e.snd_una)
  <1>1. e.snd_una \in Words /\ e.snd_nxt \in Words /\ e.wnd.rmt \in Nat /\ e.wnd.cwnd \in Nat
    BY DEF IsEngine, WindowState
  <1>2. w \in 0 .. SndWnd BY <1>1, WindowAssumption DEF send_window, Min2
  <1>3. time_diff(e.snd_nxt, WrapAdd(e.snd_una, w)) = D - w
    <2> HIDE DEF w
    <2>1. w \in Nat /\ w < Half BY <1>2, WindowAssumption, HalfAssumption
    <2>2. D <= SndWnd /\ SndWnd < Half /\ SndWnd \in Nat BY WindowAssumption
    <2> QED BY <1>1, <2>1, <2>2, HalfAssumption DEF time_diff, WrapSub, WrapAdd, Words, Word
  <1>4. D \in Nat BY <1>1, Distances
  <1>5. Len(e.snd_queue) \in Nat BY DEF IsEngine
  <1>6. move_count(e) = Min2(Len(e.snd_queue), Max2(0, -(D - w))) BY <1>3 DEF move_count
  <1>7. D <= SndWnd OBVIOUS
  <1> HIDE DEF w, D
  <1>8. -(D - w) = w - D BY <1>2, <1>4
  <1>9. move_count(e) = Min2(Len(e.snd_queue), Max2(0, w - D)) BY <1>6, <1>8
  <1>10. move_count(e) \in Nat /\ D + move_count(e) <= SndWnd
    BY <1>2, <1>4, <1>5, <1>7, <1>9, WindowAssumption DEF Min2, Max2
  <1> QED BY <1>2, <1>9, <1>10 DEF w, D

\* The first half of flush() fills the send window and no more.
LEMMA HeadWindows ==
    ASSUME NEW e, IsEngine(e), SndIn(e), NEW t \in Words
    PROVE  LET h == flush_head(e, t)
               n == move_count(e) IN
           /\ SndIn(h)
           /\ h.rcv_nxt = e.rcv_nxt /\ h.rcv_queue = e.rcv_queue /\ h.rcv_buf = e.rcv_buf
           /\ h.probe.wait = probe_timer(e, t).wait /\ h.probe.ts = probe_timer(e, t).ts
           /\ h.wnd = e.wnd /\ h.snd_queue = SubSeq(e.snd_queue, n + 1, Len(e.snd_queue))
           /\ \A sn \in DOMAIN h.snd_buf :
                 \/ sn \in DOMAIN e.snd_buf /\ h.snd_buf[sn] = e.snd_buf[sn]
                 \/ h.snd_buf[sn].xmit = 0
           /\ n > 0 => DOMAIN h.snd_buf # {}
           /\ DOMAIN e.snd_buf \subseteq DOMAIN h.snd_buf
           /\ \A sn \in DOMAIN e.snd_buf : h.snd_buf[sn] = e.snd_buf[sn]
  <1> DEFINE a == before_move(e, t)
             n == move_count(a)
             h == flush_head(e, t)
             fresh == {WrapAdd(a.snd_nxt, i) : i \in 0 .. (n - 1)}
             put(p) == [frg |-> p.frg, data |-> p.data, ts |-> t, resendts |-> t,
                        rto |-> a.rtt.rto, fastack |-> 0, xmit |-> 0]
             D == WrapSub(e.snd_nxt, e.snd_una)
  <1>1. /\ IsEngine(a) /\ h = move_to_send_buf(a, t)
        /\ a.snd_una = e.snd_una /\ a.snd_nxt = e.snd_nxt /\ a.snd_buf = e.snd_buf
        /\ a.snd_queue = e.snd_queue /\ a.wnd = e.wnd
        /\ a.rcv_nxt = e.rcv_nxt /\ a.rcv_queue = e.rcv_queue /\ a.rcv_buf = e.rcv_buf
        /\ a.probe.wait = probe_timer(e, t).wait /\ a.probe.ts = probe_timer(e, t).ts
        /\ n = move_count(e)
    BY BeforeMove
  <1> HIDE DEF a, h
  <1>2. /\ h.snd_una = a.snd_una /\ h.snd_nxt = WrapAdd(a.snd_nxt, n) /\ h.wnd = a.wnd
        /\ h.rcv_nxt = a.rcv_nxt /\ h.rcv_queue = a.rcv_queue /\ h.rcv_buf = a.rcv_buf
        /\ h.probe = a.probe /\ h.snd_queue = SubSeq(a.snd_queue, n + 1, Len(a.snd_queue))
        /\ h.snd_buf = [sn \in DOMAIN a.snd_buf \cup fresh |->
              IF sn \in fresh THEN put(a.snd_queue[WrapSub(sn, a.snd_nxt) + 1]) ELSE a.snd_buf[sn]]
    BY <1>1 DEF move_to_send_buf, IsEngine, EngineFields
  <1> HIDE DEF n
  <1>3. D <= SndWnd BY DEF SndIn
  <1>4. n \in Nat /\ D + n <= SndWnd BY <1>1, <1>3, MoveCountWindow
  <1>5. /\ e.snd_nxt \in Words /\ e.snd_una \in Words /\ D \in Nat
        /\ SndWnd \in Nat /\ SndWnd < Half /\ Half <= Word /\ Word \in Nat /\ Half \in Nat
    <2>1. e.snd_nxt \in Words /\ e.snd_una \in Words BY DEF IsEngine
    <2>2. D \in Nat BY <2>1, Distances
    <2> QED BY <2>1, <2>2, WindowAssumption, HalfAssumption DEF Word
  <1> HIDE DEF D
  <1>6. ASSUME NEW i \in 0 .. n PROVE WrapSub(WrapAdd(e.snd_nxt, i), e.snd_una) = D + i
    <2>1. i \in Nat /\ D + i < Word BY <1>4, <1>5
    <2> QED BY <1>5, <2>1, Distances DEF D
  <1>7. WrapSub(h.snd_nxt, h.snd_una) = D + n
    <2>1. n \in 0 .. n BY <1>4
    <2> QED BY <1>1, <1>2, <1>6, <2>1
  <1>8. ASSUME NEW sn \in DOMAIN h.snd_buf PROVE WrapSub(sn, h.snd_una) < D + n
    <2>1. CASE sn \in fresh
      <3>1. PICK i \in 0 .. (n - 1) : sn = WrapAdd(e.snd_nxt, i) BY <1>1, <2>1
      <3>2. i \in 0 .. n /\ D + i < D + n BY <1>4, <1>5
      <3> QED BY <1>1, <1>2, <1>6, <3>1, <3>2
    <2>2. CASE sn \notin fresh
      <3>1. sn \in DOMAIN e.snd_buf BY <1>1, <1>2, <2>2
      <3>2. WrapSub(sn, e.snd_una) < D BY <3>1 DEF SndIn, D
      <3>3. sn \in Words BY <3>1 DEF IsEngine, SeqNumMap
      <3>4. WrapSub(sn, e.snd_una) \in Nat BY <1>5, <3>3, Distances
      <3> QED BY <1>1, <1>2, <1>4, <1>5, <3>2, <3>4
    <2> QED BY <2>1, <2>2
  <1>9. n > 0 => DOMAIN h.snd_buf # {}
    <2> SUFFICES ASSUME n > 0 PROVE DOMAIN h.snd_buf # {} OBVIOUS
    <2>1. 0 \in 0 .. (n - 1) BY <1>4
    <2>2. WrapAdd(a.snd_nxt, 0) \in fresh BY <2>1
    <2> QED BY <1>2, <2>2
  <1>10. DOMAIN h.snd_buf = {} => h.snd_una = h.snd_nxt
    <2> SUFFICES ASSUME DOMAIN h.snd_buf = {} PROVE h.snd_una = h.snd_nxt OBVIOUS
    <2>1. n = 0 BY <1>4, <1>9
    <2>2. DOMAIN e.snd_buf = {} BY <1>1, <1>2
    <2>3. e.snd_una = e.snd_nxt BY <2>2 DEF SndIn
    <2>4. WrapAdd(e.snd_nxt, 0) = e.snd_nxt BY <1>5, HalfAssumption DEF WrapAdd, Words, Word
    <2> QED BY <1>1, <1>2, <2>1, <2>3, <2>4
  <1>11. SndIn(h) BY <1>4, <1>7, <1>8, <1>10 DEF SndIn
  <1>12. \A sn \in DOMAIN h.snd_buf :
            \/ sn \in DOMAIN e.snd_buf /\ h.snd_buf[sn] = e.snd_buf[sn]
            \/ h.snd_buf[sn].xmit = 0
    <2> TAKE sn \in DOMAIN h.snd_buf
    <2>1. CASE sn \in fresh
      <3>1. h.snd_buf[sn] = put(a.snd_queue[WrapSub(sn, a.snd_nxt) + 1]) BY <1>2, <2>1
      <3> QED BY <3>1
    <2>2. CASE sn \notin fresh BY <1>1, <1>2, <2>2
    <2> QED BY <2>1, <2>2
  <1>13. DOMAIN e.snd_buf \subseteq DOMAIN h.snd_buf BY <1>1, <1>2
  <1>14. ASSUME NEW sn \in DOMAIN e.snd_buf PROVE h.snd_buf[sn] = e.snd_buf[sn]
    <2>1. sn \notin fresh
      <3> SUFFICES ASSUME sn \in fresh PROVE FALSE OBVIOUS
      <3>1. PICK i \in 0 .. (n - 1) : sn = WrapAdd(e.snd_nxt, i) BY <1>1
      <3>2. i \in 0 .. n /\ D + i >= D BY <1>4, <1>5
      <3>3. WrapSub(sn, e.snd_una) < D BY DEF SndIn, D
      <3> QED BY <1>5, <1>6, <3>1, <3>2, <3>3
    <2> QED BY <1>1, <1>2, <2>1
  <1> QED BY <1>1, <1>2, <1>9, <1>11, <1>12, <1>13, <1>14 DEF h

\* The second half of flush() marks and counts.
LEMMA FlushFields ==
    ASSUME NEW e, IsEngine(e), NEW t \in Words
    PROVE  LET h == flush_head(e, t)
               x == flush(e, t).eng IN
           /\ x.snd_una = h.snd_una /\ x.snd_nxt = h.snd_nxt /\ x.snd_queue = h.snd_queue
           /\ x.rcv_nxt = h.rcv_nxt /\ x.rcv_queue = h.rcv_queue /\ x.rcv_buf = h.rcv_buf
           /\ x.probe = h.probe /\ x.wnd.rmt = h.wnd.rmt
           /\ DOMAIN x.snd_buf = DOMAIN h.snd_buf
           /\ \A sn \in DOMAIN h.snd_buf : x.snd_buf[sn] = marked(h, h.snd_buf[sn], t)
           /\ flush(e, t).ok = ~connection_lost(h, t)
           /\ connection_lost(h, t) = \E sn \in send_indices(h, t) :
                marked(h, h.snd_buf[sn], t).xmit >= MaxRetries
  <1> DEFINE h == flush_head(e, t)
             m == mark_segments_for_send(h, t)
             inflight == WrapSub(h.snd_nxt, h.snd_una)
             w == update_congestion_on_loss(m.wnd, lost(h, t), change(h, t), inflight)
             x == flush(e, t).eng
             buf == [sn \in DOMAIN h.snd_buf |-> marked(h, h.snd_buf[sn], t)]
  <1>1. IsEngine(h) BY FlushHeadType
  <1> HIDE DEF h
  <1>2. m = [h EXCEPT !.snd_buf = buf] BY DEF mark_segments_for_send
  <1>3. IsEngine(m) BY <1>1, MarkType
  <1> HIDE DEF m
  <1>4. /\ m.snd_una = h.snd_una /\ m.snd_nxt = h.snd_nxt /\ m.snd_queue = h.snd_queue
        /\ m.rcv_nxt = h.rcv_nxt /\ m.rcv_queue = h.rcv_queue /\ m.rcv_buf = h.rcv_buf
        /\ m.probe = h.probe /\ m.wnd = h.wnd /\ m.snd_buf = buf
    BY <1>1, <1>2 DEF IsEngine, EngineFields
  <1>5. inflight \in Nat BY <1>1, Distances DEF IsEngine
  <1>6. lost(h, t) \in BOOLEAN /\ change(h, t) \in BOOLEAN BY DEF lost, change
  <1>7. w.rmt = m.wnd.rmt
    <2>1. m.wnd \in WindowState BY <1>3 DEF IsEngine
    <2> HIDE DEF inflight
    <2> QED BY <1>5, <1>6, <2>1, OnLossType
  <1>8. x \in {m, [m EXCEPT !.wnd = w]} BY DEF flush, h, m
  <1> HIDE DEF w, x
  <1>9. LET y == [m EXCEPT !.wnd = w] IN
        /\ y.snd_una = m.snd_una /\ y.snd_nxt = m.snd_nxt /\ y.snd_queue = m.snd_queue
        /\ y.rcv_nxt = m.rcv_nxt /\ y.rcv_queue = m.rcv_queue /\ y.rcv_buf = m.rcv_buf
        /\ y.probe = m.probe /\ y.wnd = w /\ y.snd_buf = m.snd_buf
    BY <1>3 DEF IsEngine, EngineFields
  <1>10. /\ x.snd_una = m.snd_una /\ x.snd_nxt = m.snd_nxt /\ x.snd_queue = m.snd_queue
         /\ x.rcv_nxt = m.rcv_nxt /\ x.rcv_queue = m.rcv_queue /\ x.rcv_buf = m.rcv_buf
         /\ x.probe = m.probe /\ x.wnd.rmt = m.wnd.rmt /\ x.snd_buf = m.snd_buf
    BY <1>7, <1>8, <1>9
  <1>11. flush(e, t).ok = ~connection_lost(h, t) BY DEF flush, h, connection_lost
  <1>12. connection_lost(h, t) = \E sn \in send_indices(h, t) :
                marked(h, h.snd_buf[sn], t).xmit >= MaxRetries
    <2>1. connection_lost(h, t) = \E sn \in send_indices(h, t) : m.snd_buf[sn].xmit >= MaxRetries
      BY DEF connection_lost, m
    <2>2. \A sn \in send_indices(h, t) : m.snd_buf[sn] = marked(h, h.snd_buf[sn], t)
      BY <1>4 DEF send_indices
    <2> QED BY <2>1, <2>2
  <1> QED BY <1>4, <1>10, <1>11, <1>12 DEF h, x

\* flush() keeps the windows; a failing one leaves a segment that was transmitted
\* dead_link times, and one that leaves the first such segment fails.
LEMMA FlushWindows ==
    ASSUME NEW e, IsEngine(e), RcvIn(e), SndIn(e), NEW t \in Words
    PROVE  LET x == flush(e, t).eng IN
           /\ RcvIn(x) /\ SndIn(x)
           /\ x.probe.wait = probe_timer(e, t).wait /\ x.probe.ts = probe_timer(e, t).ts
           /\ Alive(x) => flush(e, t).ok /\ Alive(e)
           /\ Alive(e) /\ flush(e, t).ok => Alive(x)
  <1> DEFINE h == flush_head(e, t)
             x == flush(e, t).eng
  <1>1. /\ SndIn(h)
        /\ h.rcv_nxt = e.rcv_nxt /\ h.rcv_queue = e.rcv_queue /\ h.rcv_buf = e.rcv_buf
        /\ h.probe.wait = probe_timer(e, t).wait /\ h.probe.ts = probe_timer(e, t).ts
        /\ \A sn \in DOMAIN h.snd_buf :
                 \/ sn \in DOMAIN e.snd_buf /\ h.snd_buf[sn] = e.snd_buf[sn]
                 \/ h.snd_buf[sn].xmit = 0
        /\ DOMAIN e.snd_buf \subseteq DOMAIN h.snd_buf
        /\ \A sn \in DOMAIN e.snd_buf : h.snd_buf[sn] = e.snd_buf[sn]
    BY HeadWindows
  <1>2. /\ x.snd_una = h.snd_una /\ x.snd_nxt = h.snd_nxt
        /\ x.rcv_nxt = h.rcv_nxt /\ x.rcv_queue = h.rcv_queue /\ x.rcv_buf = h.rcv_buf
        /\ x.probe = h.probe
        /\ DOMAIN x.snd_buf = DOMAIN h.snd_buf
        /\ \A sn \in DOMAIN h.snd_buf : x.snd_buf[sn] = marked(h, h.snd_buf[sn], t)
        /\ flush(e, t).ok = ~connection_lost(h, t)
        /\ connection_lost(h, t) = \E sn \in send_indices(h, t) :
                marked(h, h.snd_buf[sn], t).xmit >= MaxRetries
    BY FlushFields
  <1>3. IsEngine(h) /\ IsEngine(x) BY FlushHeadType, FlushType
  <1> HIDE DEF h, x
  <1>4. RcvIn(x) BY <1>1, <1>2, RcvInFrame
  <1>5. SndIn(x) BY <1>1, <1>2 DEF SndIn
  <1>6. send_indices(h, t) \subseteq DOMAIN h.snd_buf BY DEF send_indices
  <1>7. ASSUME NEW sn \in DOMAIN h.snd_buf
        PROVE  /\ x.snd_buf[sn].xmit \in Nat /\ h.snd_buf[sn].xmit \in Nat
               /\ x.snd_buf[sn].xmit >= h.snd_buf[sn].xmit
               /\ sn \notin send_indices(h, t) =>
                    /\ sn \in DOMAIN e.snd_buf
                    /\ x.snd_buf[sn].xmit = e.snd_buf[sn].xmit
    <2> DEFINE g == h.snd_buf[sn]
    <2>1. g \in SndSeg /\ x.snd_buf[sn] \in SndSeg /\ x.snd_buf[sn] = marked(h, g, t)
      BY <1>2, <1>3 DEF IsEngine, SeqNumMap
    <2>2. x.snd_buf[sn].xmit \in Nat /\ g.xmit \in Nat BY <2>1 DEF SndSeg
    <2>3. sn \notin send_indices(h, t) => ~needsend(g, t) BY DEF send_indices
    <2>4. h.snd_buf[sn].xmit = 0 \/ (sn \in DOMAIN e.snd_buf /\ g = e.snd_buf[sn]) BY <1>1
    <2> HIDE DEF g
    <2>5. marked(h, g, t).xmit >= g.xmit
      <3>1. CASE first_send(g)
        <4>1. marked(h, g, t).xmit = 1 BY <2>1, <3>1 DEF marked, SndSeg
        <4> QED BY <3>1, <4>1 DEF first_send
      <3>2. CASE ~first_send(g)
        <4>1. marked(h, g, t).xmit = g.xmit + 1 \/ marked(h, g, t) = g
          BY <2>1, <3>2 DEF marked, SndSeg
        <4> QED BY <2>2, <4>1
      <3> QED BY <3>1, <3>2
    <2>6. ASSUME ~needsend(g, t) PROVE marked(h, g, t) = g /\ g.xmit # 0
      <3>1. ~first_send(g) /\ ~timed_out(g, t) /\ ~fast_resend(g, t) BY <2>6 DEF needsend
      <3> QED BY <3>1 DEF marked, first_send
    <2> QED BY <2>1, <2>2, <2>3, <2>4, <2>5, <2>6 DEF g
  <1>8. flush(e, t).ok <=> ~\E sn \in send_indices(h, t) : x.snd_buf[sn].xmit >= MaxRetries
    BY <1>2, <1>6
  <1>9. MaxRetries \in Nat BY CongestionAssumption
  <1>10. ASSUME Alive(x) PROVE flush(e, t).ok /\ Alive(e)
    <2>1. \A sn \in DOMAIN h.snd_buf : x.snd_buf[sn].xmit < MaxRetries BY <1>2, <1>10 DEF Alive
    <2>2. flush(e, t).ok BY <1>6, <1>7, <1>8, <1>9, <2>1
    <2>3. \A sn \in DOMAIN h.snd_buf : h.snd_buf[sn].xmit < MaxRetries BY <1>7, <1>9, <2>1
    <2>4. Alive(e) BY <1>1, <2>3 DEF Alive
    <2> QED BY <2>2, <2>4
  <1>11. ASSUME Alive(e), flush(e, t).ok PROVE Alive(x)
    <2> SUFFICES ASSUME NEW sn \in DOMAIN h.snd_buf PROVE x.snd_buf[sn].xmit < MaxRetries
      BY <1>2 DEF Alive
    <2>1. CASE sn \in send_indices(h, t)
      <3>1. ~(x.snd_buf[sn].xmit >= MaxRetries) BY <1>8, <1>11, <2>1
      <3> QED BY <1>7, <1>9, <3>1
    <2>2. CASE sn \notin send_indices(h, t)
      <3>1. sn \in DOMAIN e.snd_buf /\ x.snd_buf[sn].xmit = e.snd_buf[sn].xmit BY <1>7, <2>2
      <3> QED BY <1>11, <3>1 DEF Alive
    <2> QED BY <2>1, <2>2
  <1> QED BY <1>1, <1>2, <1>4, <1>5, <1>10, <1>11 DEF x

-----------------------------------------------------------------------------
(* The link *)

\* No deadline of a probe is the 0 that check() takes for "not armed".
DeadlinesShow ==
    \A t \in 0 .. MaxTime : \A w \in ProbeInit .. ProbeLimit :
        WrapAdd(WrapAdd(Epoch, t), w) # 0

\* The engines are within their windows.
WindowInv == \A p \in Peers : RcvIn(eng[p]) /\ SndIn(eng[p])

\* Probe timers show.
TimedInv == \A p \in Peers : Timed(eng[p])

\* A probe timer that is armed shows its deadline, and it is armed when the remote
\* window is closed.
LEMMA ProbeShows ==
    ASSUME DeadlinesShow, TypeOK, NEW p \in Peers, Timed(eng[p])
    PROVE  LET t == probe_timer(eng[p], now) IN
           /\ t.wait # 0 => t.ts # 0
           /\ eng[p].wnd.rmt = 0 => t.ts # 0
  <1> DEFINE e == eng[p]
             w == Max2(e.probe.wait, ProbeInit)
             backoff == Min2(w + w \div 2, ProbeLimit)
             t == probe_timer(e, now)
  <1>1. e.probe \in ProbeState /\ e.probe.wait \in 0 .. ProbeLimit
    BY DEF TypeOK, IsEngine, ProbeState
  <1>2. w \in ProbeInit .. ProbeLimit BY <1>1, TimingAssumption DEF Max2
  <1> HIDE DEF w
  <1>3. backoff \in ProbeInit .. ProbeLimit BY <1>2, TimingAssumption DEF Min2
  <1> HIDE DEF backoff
  <1>4. clock \in 0 .. MaxTime BY DEF TypeOK
  <1>5. ProbeInit \in ProbeInit .. ProbeLimit BY TimingAssumption
  <1>6. WrapAdd(now, ProbeInit) # 0 /\ WrapAdd(now, backoff) # 0
    BY <1>3, <1>4, <1>5 DEF DeadlinesShow, now
  <1>7. CASE e.wnd.rmt # 0
    <2>1. t = [e.probe EXCEPT !.ts = 0, !.wait = 0] BY <1>7 DEF probe_timer
    <2>2. t.wait = 0 BY <1>1, <2>1 DEF ProbeState
    <2> QED BY <1>7, <2>2
  <1>8. CASE e.wnd.rmt = 0
    <2>1. \/ t = [e.probe EXCEPT !.wait = ProbeInit, !.ts = WrapAdd(now, ProbeInit)]
          \/ t = [e.probe EXCEPT !.wait = backoff, !.ts = WrapAdd(now, backoff), !.ask_send = TRUE]
          \/ t = e.probe /\ e.probe.wait # 0
      BY <1>8 DEF probe_timer, backoff, w
    <2>2. t.ts # 0 BY <1>1, <1>6, <2>1 DEF ProbeState, Timed
    <2> QED BY <2>2
  <1> QED BY <1>7, <1>8

\* What a step does to an engine.
LEMMA StepWindows ==
    ASSUME TypeOK, WindowInv, [Next]_vars, NEW r \in Peers
    PROVE  /\ RcvIn(eng'[r]) /\ SndIn(eng'[r])
           /\ Alive(eng[r]) /\ ~Alive(eng'[r]) => FlushLost(r) \/ FlushIgnored(r)
           /\ ~Alive(eng[r]) /\ Alive(eng'[r]) => Input(r)
           /\ \/ Timed(eng[r]) => Timed(eng'[r])
              \/ /\ eng'[r].probe.wait = probe_timer(eng[r], now).wait
                 /\ eng'[r].probe.ts = probe_timer(eng[r], now).ts
  <1> DEFINE Goal == /\ RcvIn(eng'[r]) /\ SndIn(eng'[r])
                     /\ Alive(eng[r]) /\ ~Alive(eng'[r]) => FlushLost(r) \/ FlushIgnored(r)
                     /\ ~Alive(eng[r]) /\ Alive(eng'[r]) => Input(r)
                     /\ \/ Timed(eng[r]) => Timed(eng'[r])
                        \/ /\ eng'[r].probe.wait = probe_timer(eng[r], now).wait
                           /\ eng'[r].probe.ts = probe_timer(eng[r], now).ts
  <1>1. /\ IsEngine(eng[r]) /\ RcvIn(eng[r]) /\ SndIn(eng[r]) /\ now \in Words
        /\ DOMAIN eng = Peers
    BY NowType DEF TypeOK, WindowInv
  <1>2. CASE eng'[r] = eng[r] BY <1>1, <1>2
  <1>3. ASSUME NEW p \in Peers, NEW size \in Sizes, Send(p, size) PROVE Goal
    <2> DEFINE data == [i \in 1 .. size |-> offered[p] + i]
    <2>1. eng' = [eng EXCEPT ![p] = send(eng[p], data).eng] BY <1>3 DEF Send
    <2> HIDE DEF data
    <2>2. CASE p # r BY <1>1, <1>2, <2>1, <2>2
    <2>3. CASE p = r
      <3> DEFINE x == eng'[r]
      <3>1. x = send(eng[r], data).eng BY <1>1, <2>1, <2>3
      <3>2. /\ x.snd_una = eng[r].snd_una /\ x.snd_nxt = eng[r].snd_nxt
            /\ x.snd_buf = eng[r].snd_buf /\ x.rcv_nxt = eng[r].rcv_nxt
            /\ x.rcv_queue = eng[r].rcv_queue /\ x.rcv_buf = eng[r].rcv_buf
            /\ x.probe = eng[r].probe
        BY <1>1, <3>1, SendFields
      <3> HIDE DEF x
      <3>3. RcvIn(x) /\ SndIn(x) /\ (Alive(eng[r]) <=> Alive(x)) BY <1>1, <3>2, RcvInFrame, SndInFrame
      <3>4. Timed(eng[r]) => Timed(x) BY <3>2 DEF Timed
      <3> QED BY <2>1, <3>3, <3>4 DEF x
    <2> QED BY <2>2, <2>3
  <1>4. ASSUME NEW p \in Peers, Recv(p) PROVE Goal
    <2>1. /\ eng' = [eng EXCEPT ![p] = recv(eng[p])]
          /\ eng[p].rcv_queue # <<>>
      BY <1>4 DEF Recv, readable
    <2>2. CASE p # r BY <1>1, <1>2, <2>1, <2>2
    <2>3. CASE p = r
      <3> DEFINE x == eng'[r]
      <3>1. x = recv(eng[r]) BY <1>1, <2>1, <2>3
      <3>2. /\ RcvIn(x) /\ x.snd_una = eng[r].snd_una /\ x.snd_nxt = eng[r].snd_nxt
            /\ x.snd_buf = eng[r].snd_buf
            /\ x.probe.wait = eng[r].probe.wait /\ x.probe.ts = eng[r].probe.ts
        BY <1>1, <2>1, <2>3, <3>1, RecvWindows
      <3> HIDE DEF x
      <3>3. SndIn(x) /\ (Alive(eng[r]) <=> Alive(x)) BY <1>1, <3>2, SndInFrame
      <3>4. Timed(eng[r]) => Timed(x) BY <3>2 DEF Timed
      <3> QED BY <2>1, <3>2, <3>3, <3>4 DEF x
    <2> QED BY <2>2, <2>3
  <1>5. ASSUME NEW p \in Peers, Input(p) PROVE Goal
    <2>1. PICK d \in net : eng' = [eng EXCEPT ![p] = input(eng[p], d.segs, now)]
      BY <1>5 DEF Input
    <2>2. d.segs \in Seq(WireSeg) BY DEF TypeOK
    <2>3. CASE p # r BY <1>1, <1>2, <2>1, <2>2, <2>3
    <2>4. CASE p = r
      <3> DEFINE x == eng'[r]
      <3>1. x = input(eng[r], d.segs, now) BY <1>1, <2>1, <2>4
      <3>2. RcvIn(x) /\ SndIn(x) /\ (Alive(eng[r]) => Alive(x)) /\ (Timed(eng[r]) => Timed(x))
        BY <1>1, <2>2, <3>1, InputWindows
      <3> HIDE DEF x
      <3> QED BY <1>5, <2>4, <3>2 DEF x
    <2> QED BY <2>3, <2>4
  <1>6. ASSUME NEW p \in Peers, Flush(p) \/ FlushLost(p) \/ FlushIgnored(p) PROVE Goal
    <2>1. /\ eng' = [eng EXCEPT ![p] = flush(eng[p], now).eng]
          /\ flush(eng[p], now).ok \/ FlushLost(p) \/ FlushIgnored(p)
      BY <1>6 DEF Flush, FlushLost, FlushIgnored, FlushEngine
    <2>2. CASE p # r BY <1>1, <1>2, <2>1, <2>2
    <2>3. CASE p = r
      <3> DEFINE x == eng'[r]
      <3>1. x = flush(eng[r], now).eng BY <1>1, <2>1, <2>3
      <3>2. /\ RcvIn(x) /\ SndIn(x)
            /\ x.probe.wait = probe_timer(eng[r], now).wait
            /\ x.probe.ts = probe_timer(eng[r], now).ts
            /\ Alive(x) => Alive(eng[r])
            /\ Alive(eng[r]) /\ flush(eng[r], now).ok => Alive(x)
        BY <1>1, <3>1, FlushWindows
      <3> HIDE DEF x
      <3> QED BY <2>1, <2>3, <3>2 DEF x
    <2> QED BY <2>2, <2>3
  <1>7. CASE Tick BY <1>2, <1>7 DEF Tick
  <1>8. CASE UNCHANGED vars BY <1>2, <1>8 DEF vars
  <1> QED BY <1>3, <1>4, <1>5, <1>6, <1>7, <1>8, PeerAssumption DEF Next, Peers

\* A new engine has nothing in its windows.
LEMMA InitWindows == ASSUME Init PROVE WindowInv /\ TimedInv
  <1> DEFINE e == new(Conv, Isn)
  <1>1. /\ \A p \in Peers : eng[p] = e BY DEF Init
  <1>2. /\ e.snd_una = Isn /\ e.snd_nxt = Isn /\ e.snd_buf = [sn \in {} |-> <<>>]
        /\ e.rcv_queue = <<>> /\ e.rcv_buf = [sn \in {} |-> <<>>] /\ e.probe.wait = 0
    BY DEF new
  <1>3. WrapSub(Isn, Isn) = 0 BY SpaceAssumption, Distances
  <1> HIDE DEF e
  <1>4. DOMAIN e.snd_buf = {} /\ DOMAIN e.rcv_buf = {} /\ Len(e.rcv_queue) = 0 BY <1>2
  <1>5. RcvIn(e) /\ SndIn(e) /\ Timed(e)
    BY <1>2, <1>3, <1>4, WindowAssumption DEF RcvIn, SndIn, Timed
  <1> QED BY <1>1, <1>5 DEF WindowInv, TimedInv

\* The engines stay within their windows.
LEMMA WindowsHold == Spec => []WindowInv
  <1>1. Init => WindowInv BY InitWindows
  <1>2. TypeOK /\ WindowInv /\ [Next]_vars => WindowInv' BY StepWindows DEF WindowInv
  <1> QED BY <1>1, <1>2, TypeCorrect, PTL DEF Spec

\* For every window size and any order of losses, reads and acknowledgements: the
\* receive side never holds more than a window beyond the read queue, the send
\* side never has more than a window unacknowledged, and what is in flight lies
\* between snd_una and snd_nxt, across the wrap of the numbers too.
THEOREM Windows == Spec => []WithinWindows
  <1>1. WindowInv => WithinWindows BY DEF WindowInv, WithinWindows, RcvIn, SndIn
  <1> QED BY <1>1, WindowsHold, PTL

\* is_dead() in terms of the segments.
LEMMA IsDead == ASSUME NEW e, IsEngine(e) PROVE is_dead(e) <=> ~Alive(e)
  <1>1. \A sn \in DOMAIN e.snd_buf : e.snd_buf[sn].xmit \in Nat
    BY DEF IsEngine, SeqNumMap, SndSeg
  <1>2. \A sn \in DOMAIN e.snd_buf :
          e.snd_buf[sn].xmit >= MaxRetries <=> ~(e.snd_buf[sn].xmit < MaxRetries)
    BY <1>1, CongestionAssumption
  <1> QED BY <1>2 DEF is_dead, Alive

\* A flush that returns ConnectionLost leaves a dead engine.
LEMMA FailedIsDead ==
    ASSUME TypeOK, WindowInv, NEW r \in Peers, FlushLost(r) \/ FlushIgnored(r)
    PROVE  ~Alive(eng'[r])
  <1>1. IsEngine(eng[r]) /\ RcvIn(eng[r]) /\ SndIn(eng[r]) /\ now \in Words /\ DOMAIN eng = Peers
    BY NowType DEF TypeOK, WindowInv
  <1>2. ~flush(eng[r], now).ok /\ eng' = [eng EXCEPT ![r] = flush(eng[r], now).eng]
    BY DEF FlushLost, FlushIgnored, FlushEngine
  <1>3. eng'[r] = flush(eng[r], now).eng BY <1>1, <1>2
  <1>4. ~Alive(flush(eng[r], now).eng) BY <1>1, <1>2, FlushWindows
  <1> QED BY <1>3, <1>4

\* is_dead() and the error of flush() agree for every dead_link and any order of
\* timeouts, fast retransmissions and acknowledgements, also where the driver
\* ignores the error and goes on: a connection becomes dead in the flush that
\* reports it and nowhere else, every flush that reports it leaves it dead, and
\* only a datagram from the peer revives it.
THEOREM DeathAgrees == Spec => GivingUpAgrees
  <1>1. TypeOK /\ TypeOK' /\ WindowInv /\ [Next]_vars =>
          [\A p \in Peers :
             LET failed == FlushLost(p) \/ FlushIgnored(p) IN
             /\ failed => is_dead(eng'[p])
             /\ ~is_dead(eng[p]) /\ is_dead(eng'[p]) => failed
             /\ is_dead(eng[p]) /\ ~is_dead(eng'[p]) => Input(p)]_vars
    <2> SUFFICES ASSUME TypeOK, TypeOK', WindowInv, [Next]_vars, NEW p \in Peers
                 PROVE  LET failed == FlushLost(p) \/ FlushIgnored(p) IN
                        /\ failed => is_dead(eng'[p])
                        /\ ~is_dead(eng[p]) /\ is_dead(eng'[p]) => failed
                        /\ is_dead(eng[p]) /\ ~is_dead(eng'[p]) => Input(p)
      OBVIOUS
    <2>1. IsEngine(eng[p]) /\ IsEngine(eng'[p]) BY DEF TypeOK
    <2>2. (is_dead(eng[p]) <=> ~Alive(eng[p])) /\ (is_dead(eng'[p]) <=> ~Alive(eng'[p]))
      BY <2>1, IsDead
    <2>3. /\ Alive(eng[p]) /\ ~Alive(eng'[p]) => FlushLost(p) \/ FlushIgnored(p)
          /\ ~Alive(eng[p]) /\ Alive(eng'[p]) => Input(p)
      BY StepWindows
    <2>4. FlushLost(p) \/ FlushIgnored(p) => ~Alive(eng'[p]) BY FailedIsDead
    <2> QED BY <2>2, <2>3, <2>4
  <1> QED BY <1>1, TypeCorrect, WindowsHold, PTL DEF Spec, GivingUpAgrees

\* After a flush that succeeds, unsent data has a deadline: a segment in flight, or
\* the probe of a closed window.
LEMMA FlushSchedules ==
    ASSUME DeadlinesShow, TypeOK, WindowInv, TimedInv, CwndPositive, NEW p \in Peers, Flush(p),
           has_unsent_data(eng'[p])
    PROVE  deadlines(eng'[p], now) # {}
  <1> DEFINE e == eng[p]
             h == flush_head(e, now)
             x == eng'[p]
             n == move_count(e)
  <1>1. /\ IsEngine(e) /\ now \in Words /\ SndIn(e) /\ RcvIn(e) /\ Timed(e) /\ e.wnd.cwnd >= 1
    BY NowType DEF TypeOK, WindowInv, TimedInv, CwndPositive
  <1>2. x = flush(e, now).eng BY DEF Flush, FlushEngine, TypeOK
  <1>3. /\ h.probe.ts = probe_timer(e, now).ts
        /\ h.wnd = e.wnd /\ h.snd_queue = SubSeq(e.snd_queue, n + 1, Len(e.snd_queue))
        /\ n > 0 => DOMAIN h.snd_buf # {}
        /\ DOMAIN e.snd_buf \subseteq DOMAIN h.snd_buf
    BY <1>1, HeadWindows
  <1>4. /\ x.snd_queue = h.snd_queue /\ x.probe = h.probe /\ x.wnd.rmt = h.wnd.rmt
        /\ DOMAIN x.snd_buf = DOMAIN h.snd_buf
    <2> DEFINE y == flush(e, now).eng
    <2>1. /\ y.snd_queue = h.snd_queue /\ y.probe = h.probe /\ y.wnd.rmt = h.wnd.rmt
          /\ DOMAIN y.snd_buf = DOMAIN h.snd_buf
      <3> HIDE DEF e
      <3> QED BY <1>1, FlushFields
    <2> HIDE DEF y, e, h, x
    <2> QED BY <1>2, <2>1 DEF y
  <1>5. has_unsent_data(x) OBVIOUS
  <1>6. e.wnd.rmt = 0 => probe_timer(e, now).ts # 0 BY <1>1, ProbeShows
  <1> HIDE DEF h, x
  <1>7. CASE DOMAIN x.snd_buf # {}
    <2>1. PICK sn \in DOMAIN x.snd_buf : TRUE BY <1>7
    <2>2. Max2(0, time_diff(x.snd_buf[sn].resendts, now)) \in deadlines(x, now)
      BY <2>1 DEF deadlines
    <2> QED BY <2>2 DEF x
  <1>8. CASE DOMAIN x.snd_buf = {}
    <2>1. DOMAIN e.snd_buf = {} BY <1>3, <1>4, <1>8
    <2>2. e.snd_una = e.snd_nxt /\ WrapSub(e.snd_nxt, e.snd_una) <= SndWnd BY <1>1, <2>1 DEF SndIn
    <2>3. WrapSub(e.snd_nxt, e.snd_una) = 0
      <3>1. e.snd_nxt \in Words BY <1>1 DEF IsEngine
      <3> QED BY <2>2, <3>1, Distances
    <2>4. /\ send_window(e) \in 0 .. SndWnd /\ n \in Nat
          /\ n = Min2(Len(e.snd_queue), Max2(0, send_window(e) - 0))
      BY <1>1, <2>2, <2>3, MoveCountWindow
    <2> HIDE DEF n
    <2>5. n = 0 BY <1>3, <1>4, <1>8, <2>4
    <2>6. x.snd_queue # <<>> BY <1>5, <1>8 DEF has_unsent_data
    <2>7. e.snd_queue \in Seq(Piece) /\ Len(e.snd_queue) \in Nat BY <1>1 DEF IsEngine
    <2>8. Len(e.snd_queue) > 0
      <3> SUFFICES ASSUME Len(e.snd_queue) = 0 PROVE FALSE BY <2>7
      <3>1. e.snd_queue = <<>> BY <2>7, EmptySeq
      <3>2. SubSeq(e.snd_queue, 0 + 1, 0) = <<>> BY <3>1
      <3> QED BY <1>3, <1>4, <2>5, <2>6, <3>1, <3>2
    <2>9. send_window(e) = 0
      <3>1. send_window(e) \in Nat BY <2>4, WindowAssumption
      <3> QED BY <2>4, <2>5, <2>7, <2>8, <3>1 DEF Min2, Max2
    <2>10. e.wnd.rmt = 0
      <3>1. e.wnd.rmt \in Nat /\ e.wnd.cwnd \in Nat BY <1>1 DEF IsEngine, WindowState
      <3> QED BY <1>1, <2>9, <3>1, WindowAssumption DEF send_window, Min2
    <2>11. x.wnd.rmt = 0 /\ x.probe.ts # 0 BY <1>3, <1>4, <1>6, <2>10
    <2>12. Max2(0, time_diff(x.probe.ts, now)) \in deadlines(x, now) BY <2>11 DEF deadlines
    <2> QED BY <2>12 DEF x
  <1> QED BY <1>7, <1>8

\* As long as no probe deadline is the 0 that means "not armed": after every flush
\* that succeeds an engine with unsent data has a deadline, so its driver does
\* not sleep through it, whatever windows the peer has announced.
THEOREM AlwaysScheduled == ASSUME DeadlinesShow PROVE Spec => Scheduled
  <1>1. Init => TimedInv BY InitWindows
  <1>2. TypeOK /\ WindowInv /\ TimedInv /\ [Next]_vars => TimedInv'
    <2> SUFFICES ASSUME TypeOK, WindowInv, TimedInv, [Next]_vars, NEW p \in Peers
                 PROVE  Timed(eng'[p])
      BY DEF TimedInv
    <2>1. Timed(eng[p]) BY DEF TimedInv
    <2>2. \/ Timed(eng'[p])
          \/ /\ eng'[p].probe.wait = probe_timer(eng[p], now).wait
             /\ eng'[p].probe.ts = probe_timer(eng[p], now).ts
      BY <2>1, StepWindows
    <2> QED BY <2>1, <2>2, ProbeShows DEF Timed
  <1>3. TypeOK /\ WindowInv /\ TimedInv /\ CwndPositive
            => [\A p \in Peers : Flush(p) /\ has_unsent_data(eng'[p]) =>
                  deadlines(eng'[p], now) # {}]_vars
    <2> SUFFICES ASSUME TypeOK, WindowInv, TimedInv, CwndPositive, NEW p \in Peers, Flush(p),
                        has_unsent_data(eng'[p])
                 PROVE  deadlines(eng'[p], now) # {}
      OBVIOUS
    <2> QED BY FlushSchedules
  <1> QED BY <1>1, <1>2, <1>3, TypeCorrect, WindowsHold, WindowOpen, PTL DEF Spec, Scheduled

-----------------------------------------------------------------------------
(* A full receive queue is readable *)

\* What send() queues: a piece with data, of a message that fits in the window.
FitPiece == {x \in Piece : x.frg < max_frags /\ x.data # <<>>}

\* Everything queued or numbered fits.
FitInv == \A p \in Peers : eng[p].snd_queue \in Seq(FitPiece) /\ numbered[p] \in Seq(FitPiece)

\* The limit on fragments is no more than the receive window.
LEMMA MaxFragsType == max_frags \in Nat \ {0} /\ max_frags <= RcvWnd
  BY WindowAssumption DEF max_frags, Min2

\* Every fragment starts within the data.
LEMMA FragmentStart ==
    ASSUME NEW L \in Nat \ {0}, NEW m \in Nat \ {0}, NEW c \in Nat,
           c = (IF L <= m THEN 1 ELSE DivCeil(L, m)), NEW i \in 1 .. c
    PROVE  (i - 1) * m \in Nat /\ (i - 1) * m < L
  <1>1. CASE L <= m
    <2>1. i = 1 BY <1>1
    <2> QED BY <2>1
  <1>2. CASE ~(L <= m)
    <2>1. c = (L + m - 1) \div m BY <1>2 DEF DivCeil
    <2>2. L + m - 1 \in Nat OBVIOUS
    <2>3. c * m <= L + m - 1 BY <2>1, <2>2
    <2>4. PICK k \in Nat : c = i + k
      <3>1. c - i \in Nat /\ c = i + (c - i) OBVIOUS
      <3> QED BY <3>1
    <2>5. c * m = (i - 1) * m + m + k * m BY <2>4
    <2>6. (i - 1) * m \in Nat /\ k * m \in Nat
      <3>1. i - 1 \in Nat OBVIOUS
      <3> QED BY <3>1, <2>4
    <2> QED BY <2>3, <2>5, <2>6
  <1> QED BY <1>1, <1>2

\* What send() cuts a message into fits.
LEMMA FragmentsFit ==
    ASSUME NEW d \in Bytes, d # <<>>, fragment_count(d) <= max_frags
    PROVE  fragments(d) \in Seq(FitPiece)
  <1> DEFINE count == fragment_count(d)
  <1>1. Len(d) \in Nat \ {0} /\ count \in Nat /\ fragments(d) \in Seq(Piece)
    BY EmptySeq, FragmentsType DEF Bytes
  <1>2. /\ DOMAIN fragments(d) = 1 .. count
        /\ \A i \in 1 .. count :
             /\ fragments(d)[i].frg = IF StreamMode THEN 0 ELSE count - i
             /\ fragments(d)[i].data = SubSeq(d, (i - 1) * mss + 1, Min2(i * mss, Len(d)))
    BY DEF fragments
  <1>3. ASSUME NEW i \in 1 .. count PROVE fragments(d)[i] \in FitPiece
    <2>1. fragments(d)[i] \in Piece BY <1>1, <1>2
    <2>2. fragments(d)[i].frg < max_frags
      BY <1>1, <1>2, MaxFragsType
    <2>3. (i - 1) * mss \in Nat /\ (i - 1) * mss < Len(d)
      BY <1>1, MssType, FragmentStart DEF fragment_count
    <2>4. i * mss = (i - 1) * mss + mss
      <3>1. i \in Nat BY <1>1
      <3> QED BY <3>1, MssType
    <2>5. Len(SubSeq(d, (i - 1) * mss + 1, Min2(i * mss, Len(d)))) > 0
      <3> DEFINE lo == (i - 1) * mss
                 hi == Min2(i * mss, Len(d))
      <3>1. lo \in Nat BY <2>3
      <3>2. hi \in Nat /\ hi > lo /\ hi <= Len(d)
        <4> HIDE DEF lo
        <4>1. i * mss = lo + mss /\ lo < Len(d) BY <2>3, <2>4 DEF lo
        <4> QED BY <1>1, <3>1, <4>1, MssType DEF Min2
      <3> HIDE DEF lo, hi
      <3>3. d \in Seq(Nat) BY DEF Bytes
      <3>4. Len(SubSeq(d, lo + 1, hi)) = hi - lo BY <1>1, <3>1, <3>2, <3>3
      <3>5. Len(SubSeq(d, lo + 1, hi)) > 0 BY <3>1, <3>2, <3>4
      <3> QED BY <3>5 DEF lo, hi
    <2>6. fragments(d)[i].data # <<>>
      <3>1. fragments(d)[i].data = SubSeq(d, (i - 1) * mss + 1, Min2(i * mss, Len(d))) BY <1>2
      <3>2. Len(fragments(d)[i].data) > 0 BY <2>5, <3>1
      <3> HIDE DEF count
      <3>3. Len(<<>>) = 0 OBVIOUS
      <3> QED BY <3>2, <3>3
    <2> QED BY <2>1, <2>2, <2>6 DEF FitPiece
  <1> HIDE DEF count
  <1> QED BY <1>1, <1>2, <1>3

\* Merging bytes into the last queued piece leaves its number and adds data.
LEMMA MergeFits ==
    ASSUME NEW q \in Seq(FitPiece), NEW d \in Bytes, NEW n \in Nat, n <= Len(d),
           n > 0 => q # <<>>
    PROVE  merge(q, d, n) \in Seq(FitPiece)
  <1>1. CASE n = 0 BY <1>1 DEF merge
  <1>2. CASE n > 0
    <2> DEFINE last == q[Len(q)]
               more == last.data \o SubSeq(d, 1, n)
    <2>1. Len(q) \in 1 .. Len(q) BY <1>2, EmptySeq
    <2>2. last \in FitPiece BY <2>1
    <2>3. last.data \in Seq(Nat) /\ last.data # <<>> /\ d \in Seq(Nat) /\ last \in Piece
      BY <2>2 DEF FitPiece, Piece, Bytes
    <2>4. SubSeq(d, 1, n) \in Seq(Nat) BY <2>3, SubBytesType DEF Bytes
    <2>5. more \in Seq(Nat) /\ Len(more) > 0
      <3>1. Len(last.data) > 0 BY <2>3, EmptySeq
      <3>2. Len(SubSeq(d, 1, n)) \in Nat BY <2>4
      <3>3. more \in Seq(Nat) /\ Len(more) = Len(last.data) + Len(SubSeq(d, 1, n))
        <4> HIDE DEF last
        <4> QED BY <2>3, <2>4, ConcatProperties
      <3>4. Len(last.data) \in Nat BY <2>3
      <3>5. \A a, b \in Nat : a > 0 => a + b > 0 OBVIOUS
      <3>6. Len(last.data) + Len(SubSeq(d, 1, n)) > 0 BY <3>1, <3>2, <3>4, <3>5, Zenon
      <3> HIDE DEF last, more
      <3> QED BY <3>3, <3>6, Zenon
    <2> HIDE DEF more
    <2>6. [last EXCEPT !.data = more] \in FitPiece
      <3>1. [last EXCEPT !.data = more].frg = last.frg /\ [last EXCEPT !.data = more].data = more
        BY <2>3 DEF Piece
      <3>2. [last EXCEPT !.data = more] \in Piece BY <2>3, <2>5 DEF Piece, Bytes
      <3>3. more # <<>> BY <2>5
      <3> QED BY <2>2, <3>1, <3>2, <3>3 DEF FitPiece
    <2>7. merge(q, d, n) = [q EXCEPT ![Len(q)] = [last EXCEPT !.data = more]]
      BY <1>2 DEF merge, more
    <2> HIDE DEF last
    <2> QED BY <2>1, <2>6, <2>7
  <1> QED BY <1>1, <1>2

\* A write queues what fits, also when it is refused after merging its start.
LEMMA SendFits ==
    ASSUME NEW e, IsEngine(e), e.snd_queue \in Seq(FitPiece), NEW d \in Bytes
    PROVE  send(e, d).eng.snd_queue \in Seq(FitPiece)
  <1> DEFINE extend == Min2(Len(d), merge_room(e))
             rest   == SubSeq(d, extend + 1, Len(d))
             queue  == merge(e.snd_queue, d, extend)
             merged == [e EXCEPT !.snd_queue = queue]
  <1>1. Len(d) \in Nat BY DEF Bytes
  <1>2. merge_room(e) \in Nat /\ (merge_room(e) > 0 => e.snd_queue # <<>>)
    <2>1. CASE StreamMode /\ e.snd_queue # <<>>
      <3>1. Len(e.snd_queue) \in 1 .. Len(e.snd_queue) BY <2>1, EmptySeq
      <3>2. e.snd_queue[Len(e.snd_queue)] \in FitPiece BY <3>1
      <3>3. Len(e.snd_queue[Len(e.snd_queue)].data) \in Nat BY <3>2 DEF FitPiece, Piece, Bytes
      <3> QED BY <3>3, <2>1, MssType DEF merge_room, Max2
    <2>2. CASE ~(StreamMode /\ e.snd_queue # <<>>) BY <2>2 DEF merge_room
    <2> QED BY <2>1, <2>2
  <1>3. extend \in Nat /\ extend <= Len(d) /\ (extend > 0 => e.snd_queue # <<>>)
    BY <1>1, <1>2 DEF Min2
  <1> HIDE DEF extend
  <1>4. queue \in Seq(FitPiece) BY <1>3, MergeFits
  <1>5. rest \in Bytes BY <1>1, <1>3, SubBytesType
  <1> HIDE DEF rest, queue
  <1>6. merged.snd_queue = queue /\ DOMAIN merged = EngineFields BY DEF IsEngine, EngineFields
  <1>7. rest # <<>> /\ fragment_count(rest) <= max_frags => queue \o fragments(rest) \in Seq(FitPiece)
    BY <1>4, <1>5, FragmentsFit
  <1>8. fragment_count(rest) \in Nat /\ max_frags \in Nat BY <1>5, FragmentsType, MaxFragsType
  <1>9. send(e, d).eng \in
          {e, merged, [merged EXCEPT !.bytes_sent = @ + extend]} \cup
          {x \in {[merged EXCEPT !.snd_queue = @ \o fragments(rest), !.bytes_sent = @ + Len(rest)]} :
             rest # <<>> /\ ~(fragment_count(rest) > max_frags)}
    BY DEF send, merged, extend, rest, queue
  <1> HIDE DEF merged
  <1>10. [merged EXCEPT !.bytes_sent = @ + extend].snd_queue = queue BY <1>6 DEF EngineFields
  <1>11. [merged EXCEPT !.snd_queue = @ \o fragments(rest), !.bytes_sent = @ + Len(rest)].snd_queue
            = queue \o fragments(rest)
    BY <1>6 DEF EngineFields
  <1>12. ~(fragment_count(rest) > max_frags) => fragment_count(rest) <= max_frags BY <1>8
  <1> QED BY <1>4, <1>6, <1>7, <1>9, <1>10, <1>11, <1>12

\* A part of what fits.
LEMMA PartFits ==
    ASSUME NEW q \in Seq(FitPiece), NEW m \in Nat \ {0}, NEW n \in Nat, n <= Len(q)
    PROVE  SubSeq(q, m, n) \in Seq(FitPiece)
  <1>1. \A i \in m .. n : q[i] \in FitPiece OBVIOUS
  <1> QED BY <1>1, SubSeqProperties

\* A flush numbers pieces from the queue and leaves the rest there.
LEMMA FlushFits ==
    ASSUME NEW e, IsEngine(e), SndIn(e), NEW t \in Words, e.snd_queue \in Seq(FitPiece),
           NEW s \in Seq(FitPiece)
    PROVE  /\ flush(e, t).eng.snd_queue \in Seq(FitPiece)
           /\ s \o SubSeq(e.snd_queue, 1, move_count(e)) \in Seq(FitPiece)
  <1> DEFINE n == move_count(e)
             q == e.snd_queue
             x == flush(e, t).eng
  <1>1. Len(q) \in Nat OBVIOUS
  <1>2. n \in Nat /\ n <= Len(q)
    <2>1. WrapSub(e.snd_nxt, e.snd_una) <= SndWnd BY DEF SndIn
    <2>2. n \in Nat BY <2>1, MoveCountWindow
    <2>3. n = Min2(Len(q), Max2(0, send_window(e) - WrapSub(e.snd_nxt, e.snd_una)))
      BY <2>1, MoveCountWindow
    <2> HIDE DEF n
    <2>4. send_window(e) \in Nat /\ WrapSub(e.snd_nxt, e.snd_una) \in Nat
      <3>1. send_window(e) \in 0 .. SndWnd BY <2>1, MoveCountWindow
      <3>2. e.snd_nxt \in Words /\ e.snd_una \in Words BY DEF IsEngine
      <3> QED BY <3>1, <3>2, Distances, WindowAssumption, SMTT(20)
    <2> QED BY <1>1, <2>2, <2>3, <2>4 DEF Min2, Max2
  <1>3. flush_head(e, t).snd_queue = SubSeq(q, n + 1, Len(q)) BY HeadWindows
  <1>4. x.snd_queue = flush_head(e, t).snd_queue BY FlushFields
  <1> HIDE DEF n, x
  <1>5. SubSeq(q, n + 1, Len(q)) \in Seq(FitPiece) /\ SubSeq(q, 1, n) \in Seq(FitPiece)
    BY <1>1, <1>2, PartFits
  <1>6. s \o SubSeq(q, 1, n) \in Seq(FitPiece) BY <1>5, ConcatProperties
  <1> QED BY <1>3, <1>4, <1>5, <1>6 DEF n, x

\* Every step keeps what is queued and numbered fit.
LEMMA StepFits ==
    ASSUME TypeOK, WindowInv, FitInv, [Next]_vars, NEW r \in Peers
    PROVE  eng'[r].snd_queue \in Seq(FitPiece) /\ numbered'[r] \in Seq(FitPiece)
  <1> DEFINE Goal == eng'[r].snd_queue \in Seq(FitPiece) /\ numbered'[r] \in Seq(FitPiece)
  <1>1. /\ IsEngine(eng[r]) /\ RcvIn(eng[r]) /\ SndIn(eng[r]) /\ now \in Words
        /\ DOMAIN eng = Peers /\ numbered \in [Peers -> Seq(Piece)]
        /\ eng[r].snd_queue \in Seq(FitPiece) /\ numbered[r] \in Seq(FitPiece)
    BY NowType DEF TypeOK, WindowInv, FitInv
  <1>2. CASE eng'[r] = eng[r] /\ numbered'[r] = numbered[r] BY <1>1, <1>2
  <1>3. ASSUME NEW p \in Peers, NEW size \in Sizes, Send(p, size) PROVE Goal
    <2> DEFINE data == [i \in 1 .. size |-> offered[p] + i]
    <2>1. eng' = [eng EXCEPT ![p] = send(eng[p], data).eng] /\ numbered' = numbered
      BY <1>3 DEF Send
    <2>2. data \in Bytes
      <3>1. size \in Nat /\ offered[p] \in Nat BY SpaceAssumption DEF TypeOK
      <3> QED BY <3>1 DEF Bytes
    <2> HIDE DEF data
    <2>3. CASE p # r BY <1>1, <1>2, <2>1, <2>3
    <2>4. CASE p = r
      <3>1. eng'[r] = send(eng[r], data).eng BY <1>1, <2>1, <2>4
      <3>2. send(eng[r], data).eng.snd_queue \in Seq(FitPiece) BY <1>1, <2>2, SendFits
      <3> QED BY <1>1, <2>1, <3>1, <3>2
    <2> QED BY <2>3, <2>4
  <1>4. ASSUME NEW p \in Peers, Recv(p) PROVE Goal
    <2>1. /\ eng' = [eng EXCEPT ![p] = recv(eng[p])] /\ numbered' = numbered
          /\ eng[p].rcv_queue # <<>>
      BY <1>4 DEF Recv, readable
    <2>2. CASE p # r BY <1>1, <1>2, <2>1, <2>2
    <2>3. CASE p = r
      <3>1. eng'[r] = recv(eng[r]) BY <1>1, <2>1, <2>3
      <3>2. recv(eng[r]).snd_queue = eng[r].snd_queue BY <1>1, <2>1, <2>3, RecvWindows
      <3> QED BY <1>1, <2>1, <3>1, <3>2
    <2> QED BY <2>2, <2>3
  <1>5. ASSUME NEW p \in Peers, Input(p) PROVE Goal
    <2>1. PICK d \in net : eng' = [eng EXCEPT ![p] = input(eng[p], d.segs, now)]
      BY <1>5 DEF Input
    <2>2. d.segs \in Seq(WireSeg) /\ numbered' = numbered BY <1>5 DEF TypeOK, Input
    <2>3. CASE p # r BY <1>1, <1>2, <2>1, <2>2, <2>3
    <2>4. CASE p = r
      <3>1. eng'[r] = input(eng[r], d.segs, now) BY <1>1, <2>1, <2>4
      <3>2. input(eng[r], d.segs, now).snd_queue = eng[r].snd_queue BY <1>1, <2>2, InputWindows
      <3> QED BY <1>1, <2>2, <3>1, <3>2
    <2> QED BY <2>3, <2>4
  <1>6. ASSUME NEW p \in Peers, Flush(p) \/ FlushLost(p) \/ FlushIgnored(p) PROVE Goal
    <2>1. /\ eng' = [eng EXCEPT ![p] = flush(eng[p], now).eng]
          /\ numbered' = [numbered EXCEPT ![p] =
                numbered[p] \o SubSeq(eng[p].snd_queue, 1, move_count(eng[p]))]
      BY <1>6 DEF Flush, FlushLost, FlushIgnored, FlushEngine
    <2>2. CASE p # r BY <1>1, <1>2, <2>1, <2>2
    <2>3. CASE p = r
      <3>1. /\ eng'[r] = flush(eng[r], now).eng
            /\ numbered'[r] = numbered[r] \o SubSeq(eng[r].snd_queue, 1, move_count(eng[r]))
        BY <1>1, <2>1, <2>3
      <3>2. /\ flush(eng[r], now).eng.snd_queue \in Seq(FitPiece)
            /\ numbered[r] \o SubSeq(eng[r].snd_queue, 1, move_count(eng[r])) \in Seq(FitPiece)
        BY <1>1, FlushFits
      <3> QED BY <3>1, <3>2
    <2> QED BY <2>2, <2>3
  <1>7. CASE Tick BY <1>2, <1>7 DEF Tick
  <1>8. CASE UNCHANGED vars BY <1>2, <1>8 DEF vars
  <1> QED BY <1>3, <1>4, <1>5, <1>6, <1>7, <1>8, PeerAssumption DEF Next, Peers

\* A full receive queue whose pieces fit and stand in order begins with a whole
\* message.
LEMMA FullIsReadable ==
    ASSUME TypeOK, FitInv, PiecesInOrder, NEW p \in Peers, Len(eng[p].rcv_queue) >= RcvWnd
    PROVE  readable(eng[p])
  <1> DEFINE q == eng[p].rcv_queue
             s == numbered[other(p)]
  <1>1. other(p) \in Peers BY OtherType
  <1>2. q \in Seq(Piece) /\ Len(q) \in Nat /\ taken[p] \in Nat BY PeerTypes DEF IsEngine
  <1>3. s \in Seq(FitPiece) /\ Len(s) \in Nat BY <1>1 DEF FitInv
  <1>4. taken[p] + Len(q) <= Len(s) /\ \A i \in 1 .. Len(q) : q[i] = s[taken[p] + i]
    BY DEF PiecesInOrder
  <1>5. Len(q) >= 1 /\ q # <<>> BY <1>2, WindowAssumption
  <1> HIDE DEF q, s
  <1>6. q[1] = s[taken[p] + 1] /\ taken[p] + 1 \in 1 .. Len(s) BY <1>2, <1>3, <1>4, <1>5
  <1>7. q[1] \in FitPiece BY <1>3, <1>6
  <1>8. q[1].frg \in Nat /\ q[1].frg < max_frags /\ q[1].data # <<>> BY <1>7 DEF FitPiece, Piece
  <1>9. Len(q) >= RcvWnd BY DEF q
  <1>10. Len(q) >= q[1].frg + 1 BY <1>2, <1>8, <1>9, MaxFragsType, WindowAssumption
  <1>11. Head(q) = q[1] BY <1>2, <1>5
  <1>12. 1 \in 1 .. message_span(q)
    <2>1. message_span(q) \in 1 .. Len(q) BY <1>2, <1>5, MessageSpan
    <2> QED BY <1>2, <2>1
  <1> QED BY <1>5, <1>8, <1>10, <1>11, <1>12 DEF readable, q

\* Flow control cannot close the window in the middle of a message for ever: send()
\* accepts only messages whose fragments fit in the receive window (the smaller of
\* the configured one and 128), and so, for every window and fragmentation, a full
\* receive queue always has a whole message at its head.
THEOREM FullQueueIsReadable == Spec => []FullQueueReadable
  <1>1. Init => FitInv
    <2> SUFFICES ASSUME Init, NEW p \in Peers
                 PROVE  eng[p].snd_queue \in Seq(FitPiece) /\ numbered[p] \in Seq(FitPiece)
      BY DEF FitInv
    <2>1. eng[p].snd_queue = <<>> /\ numbered[p] = <<>> BY DEF Init, new
    <2> QED BY <2>1, EmptySeq
  <1>2. TypeOK /\ WindowInv /\ FitInv /\ [Next]_vars => FitInv' BY StepFits DEF FitInv
  <1>3. TypeOK /\ FitInv /\ PiecesInOrder => FullQueueReadable
    BY FullIsReadable DEF FullQueueReadable
  <1> QED BY <1>1, <1>2, <1>3, TypeCorrect, WindowsHold, InOrder, PTL DEF Spec
=============================================================================
