------------------------------ MODULE KcpEngine ------------------------------
(***************************************************************************)
(* The synchronous protocol engine of kcp-core/src/engine.rs, as pure      *)
(* operators on an engine record.  Each operator keeps the name of the     *)
(* method it translates and returns the engine the method leaves behind.   *)
(*                                                                         *)
(* A loop that pops from an ordered buffer is written in closed form: the  *)
(* send buffer is a function from sequence numbers to segments, ordered by *)
(* seq_before; a payload is a sequence of numbered bytes.  Statistics that *)
(* nothing reads back are left out, except bytes_sent.                     *)
(***************************************************************************)
EXTENDS KcpProtocol, Sequences, FiniteSets

CONSTANTS
    MtuCfg, Overhead,          \* config.mtu, IKCP_OVERHEAD (in payload units)
    SndWnd, RcvWnd, WndRcv,    \* config.snd_wnd, config.rcv_wnd, IKCP_WND_RCV
    Nodelay, Interval,         \* config.nodelay.{nodelay, interval}
    Resend, NoCwnd,            \*   .{resend, no_congestion_control}
    MaxRetries, StreamMode,    \* config.max_retries, config.stream_mode
    RtoDef, MinRto, RtoMax,    \* IKCP_RTO_DEF, rtt.min_rto, IKCP_RTO_MAX
    ProbeInit, ProbeLimit,     \* IKCP_PROBE_INIT, IKCP_PROBE_LIMIT
    ThreshInit, ThreshMin,     \* IKCP_THRESH_INIT, IKCP_THRESH_MIN
    FastackLimit, IdleWait     \* IKCP_FASTACK_LIMIT, the idle value of check()

\* KcpConfig::validate rejects a zero window and one above u16::MAX, so the
\* advertised window fits its header field and every window is far below half
\* the sequence space.
ASSUME WindowAssumption ==
    /\ SndWnd \in Nat \ {0} /\ RcvWnd \in Nat \ {0} /\ WndRcv \in Nat \ {0}
    /\ SndWnd < Half /\ RcvWnd < Half /\ WndRcv < Half

ASSUME SizeAssumption == MtuCfg \in Nat /\ Overhead \in Nat \ {0}

ASSUME TimingAssumption ==
    /\ RtoDef \in Nat /\ MinRto \in Nat /\ RtoMax \in Nat /\ Interval \in Nat
    /\ MinRto <= RtoDef /\ RtoDef <= RtoMax /\ RtoMax < Half /\ Interval < Half
    /\ ProbeInit \in Nat \ {0} /\ ProbeLimit \in Nat
    /\ ProbeInit <= ProbeLimit /\ ProbeLimit < Half
    /\ IdleWait \in Nat

ASSUME CongestionAssumption ==
    /\ Resend \in Nat /\ Resend < Half /\ MaxRetries \in Nat
    /\ ThreshInit \in Nat \ {0} /\ ThreshMin \in Nat \ {0} /\ FastackLimit \in Nat

ASSUME ModeAssumption ==
    Nodelay \in BOOLEAN /\ NoCwnd \in BOOLEAN /\ StreamMode \in BOOLEAN

-----------------------------------------------------------------------------
(* Data *)

Bytes == Seq(Nat)

\* A queued or reassembled piece of data: fragment number and payload.
Piece == [frg : Nat, data : Bytes]

\* A segment of snd_buf; its sequence number is its key.
SndSeg == [frg : Nat, data : Bytes, ts : Words, resendts : Words, rto : Words,
           fastack : Nat, xmit : Nat]

\* A segment on the wire: KcpHeader and payload.
WireSeg == [conv : Nat, cmd : Cmds, frg : Nat, wnd : Nat, ts : Words,
            sn : Words, una : Words, data : Bytes]

RttState    == [avg : 0 .. RtoMax, var : 0 .. RtoMax, rto : MinRto .. RtoMax]
WindowState == [rmt : Nat, cwnd : Nat, ssthresh : Nat, incr : Nat]
ProbeState  == [ask_send : BOOLEAN, ask_tell : BOOLEAN, wait : 0 .. ProbeLimit, ts : Words]

EngineFields == {"conv", "snd_una", "snd_nxt", "rcv_nxt", "rtt", "wnd", "probe",
                 "snd_queue", "snd_buf", "rcv_queue", "rcv_buf", "ack_list",
                 "bytes_sent"}

\* f is a map from sequence numbers to elements of S.
SeqNumMap(f, S) == DOMAIN f \subseteq Words /\ f \in [DOMAIN f -> S]

\* e is a well-typed engine.
IsEngine(e) ==
    /\ DOMAIN e = EngineFields
    /\ e.conv \in Nat
    /\ e.snd_una \in Words /\ e.snd_nxt \in Words /\ e.rcv_nxt \in Words
    /\ e.rtt \in RttState /\ e.wnd \in WindowState /\ e.probe \in ProbeState
    /\ e.snd_queue \in Seq(Piece) /\ e.rcv_queue \in Seq(Piece)
    /\ SeqNumMap(e.snd_buf, SndSeg) /\ SeqNumMap(e.rcv_buf, Piece)
    /\ e.ack_list \in Seq([sn : Words, ts : Words])
    /\ e.bytes_sent \in Nat

\* The mtu after the clamp in new(), and the payload room of a segment.
Mtu == Max2(MtuCfg, Overhead + 1)
mss == Mtu - Overhead

\* Restriction and update of a sequence-number map.
Without(f, S) == [sn \in DOMAIN f \ S |-> f[sn]]
Extend(f, sn, seg) == [k \in DOMAIN f \cup {sn} |-> IF k = sn THEN seg ELSE f[k]]

\* KcpEngine::new.  Both sequence spaces start at isn, which is 0 in the code.
new(conv, isn) ==
    [conv |-> conv, snd_una |-> isn, snd_nxt |-> isn, rcv_nxt |-> isn,
     rtt |-> [avg |-> 0, var |-> 0, rto |-> RtoDef],
     wnd |-> [rmt |-> WndRcv, cwnd |-> SndWnd, ssthresh |-> ThreshInit, incr |-> 0],
     probe |-> [ask_send |-> FALSE, ask_tell |-> FALSE, wait |-> 0, ts |-> 0],
     snd_queue |-> <<>>, snd_buf |-> [sn \in {} |-> <<>>],
     rcv_queue |-> <<>>, rcv_buf |-> [sn \in {} |-> <<>>],
     ack_list |-> <<>>, bytes_sent |-> 0]

wnd_unused(e) == IF Len(e.rcv_queue) < RcvWnd THEN RcvWnd - Len(e.rcv_queue) ELSE 0

-----------------------------------------------------------------------------
(* send *)

\* Variant for mutation: as many fragments as the frg byte can number.
max_frags_u8 == 255

max_frags == Min2(RcvWnd, WndRcv)

\* The payload of data that stream mode merges into the last queued segment.
merge_room(e) ==
    IF StreamMode /\ e.snd_queue # <<>>
    THEN Max2(0, mss - Len(e.snd_queue[Len(e.snd_queue)].data)) ELSE 0

\* Variant for mutation: the queued bytes are replaced instead of extended.
merge_overwrite(queue, data, n) ==
    IF n = 0 THEN queue ELSE [queue EXCEPT ![Len(queue)].data = SubSeq(data, 1, n)]

\* snd_queue with the first n bytes of data merged into its last segment.
merge(queue, data, n) ==
    IF n = 0 THEN queue
    ELSE [queue EXCEPT ![Len(queue)].data = @ \o SubSeq(data, 1, n)]

fragment_count(data) == IF Len(data) <= mss THEN 1 ELSE DivCeil(Len(data), mss)

\* The segments data is cut into; message mode numbers them downwards to 0.
fragments(data) ==
    LET count == fragment_count(data) IN
    [i \in 1 .. count |->
        [frg  |-> IF StreamMode THEN 0 ELSE count - i,
         data |-> SubSeq(data, (i - 1) * mss + 1, Min2(i * mss, Len(data)))]]

\* send(data): the engine afterwards and whether the call returned Ok.
send(e, data) ==
    IF data = <<>> THEN [eng |-> e, ok |-> TRUE]
    ELSE LET extend == Min2(Len(data), merge_room(e))
             rest   == SubSeq(data, extend + 1, Len(data))
             merged == [e EXCEPT !.snd_queue = merge(@, data, extend)]
         IN  IF rest = <<>>
             THEN [eng |-> [merged EXCEPT !.bytes_sent = @ + extend], ok |-> TRUE]
             ELSE IF fragment_count(rest) > max_frags
             THEN [eng |-> merged, ok |-> FALSE]
             ELSE [eng |-> [merged EXCEPT !.snd_queue = @ \o fragments(rest),
                                          !.bytes_sent = @ + Len(rest)],
                   ok |-> TRUE]

-----------------------------------------------------------------------------
(* recv *)

\* Segments the message at the head of the receive queue spans: up to the
\* first fragment numbered 0, or the whole queue when there is none.
message_span(queue) ==
    LET ends == {i \in 1 .. Len(queue) : queue[i].frg = 0}
    IN  IF ends = {} THEN Len(queue) ELSE CHOOSE i \in ends : \A j \in ends : i <= j

\* peek_size() > 0: recv() has a message to return.
readable(e) ==
    /\ e.rcv_queue # <<>>
    /\ Head(e.rcv_queue).frg = 0 \/ Len(e.rcv_queue) >= Head(e.rcv_queue).frg + 1
    /\ \E i \in 1 .. message_span(e.rcv_queue) : e.rcv_queue[i].data # <<>>

\* Variant for mutation: the run is not cut off by a full queue.
run_length_unbounded(e) ==
    LET present == {n \in 0 .. Cardinality(DOMAIN e.rcv_buf) :
                      \A i \in 0 .. (n - 1) : WrapAdd(e.rcv_nxt, i) \in DOMAIN e.rcv_buf}
    IN  CHOOSE n \in present : \A m \in present : m <= n

\* The consecutive segments of rcv_buf that start at rcv_nxt and fit in the
\* receive queue.
run_length(e) ==
    LET room    == RcvWnd - Len(e.rcv_queue)
        present == {n \in 0 .. room :
                      \A i \in 0 .. (n - 1) : WrapAdd(e.rcv_nxt, i) \in DOMAIN e.rcv_buf}
    IN  IF room <= 0 THEN 0 ELSE CHOOSE n \in present : \A m \in present : m <= n

\* Variant for mutation: the whole buffer follows the first segment, gaps or not.
move_to_recv_queue_gap(e) ==
    IF DOMAIN e.rcv_buf = {} \/ Len(e.rcv_queue) >= RcvWnd THEN e
    ELSE LET sn == CHOOSE k \in DOMAIN e.rcv_buf : \A j \in DOMAIN e.rcv_buf : ~seq_before(j, k)
         IN  [e EXCEPT !.rcv_queue = Append(@, e.rcv_buf[sn]),
                       !.rcv_buf = Without(@, {sn}), !.rcv_nxt = WrapAdd(@, 1)]

move_to_recv_queue(e) ==
    LET n     == run_length(e)
        moved == {WrapAdd(e.rcv_nxt, i) : i \in 0 .. (n - 1)}
    IN  [e EXCEPT
            !.rcv_queue = @ \o [i \in 1 .. n |-> e.rcv_buf[WrapAdd(e.rcv_nxt, i - 1)]],
            !.rcv_buf = Without(@, moved),
            !.rcv_nxt = WrapAdd(@, n)]

\* The segments recv() assembles into the message it returns.
message(e) == SubSeq(e.rcv_queue, 1, message_span(e.rcv_queue))

\* recv() when readable(e); otherwise it returns None and changes nothing.
recv(e) ==
    LET full   == Len(e.rcv_queue) >= RcvWnd
        popped == [e EXCEPT !.rcv_queue =
                      SubSeq(@, message_span(e.rcv_queue) + 1, Len(e.rcv_queue))]
        moved  == move_to_recv_queue(popped)
    IN  [moved EXCEPT !.probe.ask_tell =
            @ \/ (full /\ Len(moved.rcv_queue) < RcvWnd)]

-----------------------------------------------------------------------------
(* input: acknowledgements *)

\* Variant for mutation: una taken as acknowledged itself.
parse_una_inclusive(e, una) ==
    [e EXCEPT !.snd_buf = Without(@, {sn \in DOMAIN e.snd_buf : ~seq_after(sn, una)})]

parse_una(e, una) ==
    [e EXCEPT !.snd_buf = Without(@, {sn \in DOMAIN e.snd_buf : seq_before(sn, una)})]

\* sn is outside [snd_una, snd_nxt).
stale_ack(e, sn) == seq_before(sn, e.snd_una) \/ ~seq_before(sn, e.snd_nxt)

parse_ack(e, sn) ==
    IF stale_ack(e, sn) THEN e ELSE [e EXCEPT !.snd_buf = Without(@, {sn})]

parse_fastack(e, sn, ts) ==
    IF stale_ack(e, sn) THEN e
    ELSE [e EXCEPT !.snd_buf = [k \in DOMAIN e.snd_buf |->
            IF seq_before(k, sn) /\ time_diff(ts, e.snd_buf[k].ts) >= 0
            THEN [e.snd_buf[k] EXCEPT !.fastack = @ + 1] ELSE e.snd_buf[k]]]

\* update_ack: the RTT estimator after one sample.
update_ack(rtt, sample) ==
    LET r     == Clamp(sample, 0, RtoMax)
        delta == IF r > rtt.avg THEN r - rtt.avg ELSE rtt.avg - r
        avg   == IF rtt.avg = 0 THEN r ELSE Max2(1, (7 * rtt.avg + r) \div 8)
        var   == IF rtt.avg = 0 THEN r \div 2 ELSE (3 * rtt.var + delta) \div 4
    IN  [avg |-> avg, var |-> var,
         rto |-> Clamp(avg + Max2(Interval, 4 * var), MinRto, RtoMax)]

\* The front of snd_buf: segments are queued in the order they were numbered,
\* counted from snd_una.
front(e) ==
    CHOOSE sn \in DOMAIN e.snd_buf : \A k \in DOMAIN e.snd_buf :
        WrapSub(sn, e.snd_una) <= WrapSub(k, e.snd_una)

shrink_buf(e) ==
    [e EXCEPT !.snd_una = IF DOMAIN e.snd_buf = {} THEN e.snd_nxt ELSE front(e)]

\* Congestion avoidance: incr grows by about mss^2 / incr per advance.
grown(w) ==
    LET base == Max2(w.incr, mss)
        incr == base + (mss * mss) \div base + mss \div 16
    IN  [w EXCEPT !.incr = incr,
                  !.cwnd = IF (w.cwnd + 1) * mss <= incr THEN DivCeil(incr, mss) ELSE @]

update_cwnd(w, advanced) ==
    IF ~(advanced /\ w.cwnd < w.rmt) THEN w
    ELSE LET g == IF w.cwnd < w.ssthresh
                  THEN [w EXCEPT !.cwnd = @ + 1, !.incr = @ + mss] ELSE grown(w)
         IN  IF g.cwnd > w.rmt THEN [g EXCEPT !.cwnd = w.rmt, !.incr = w.rmt * mss] ELSE g

-----------------------------------------------------------------------------
(* input: one datagram *)

in_window(e, sn) == seq_before(sn, WrapAdd(e.rcv_nxt, RcvWnd))

\* parse_data: keeps the copy that arrived first.
parse_data(e, s) ==
    IF ~in_window(e, s.sn) \/ seq_before(s.sn, e.rcv_nxt) THEN e
    ELSE move_to_recv_queue(
            IF s.sn \in DOMAIN e.rcv_buf THEN e
            ELSE [e EXCEPT !.rcv_buf =
                    Extend(@, s.sn, [frg |-> s.frg, data |-> s.data])])

ack_push(e, sn, ts) == [e EXCEPT !.ack_list = Append(@, [sn |-> sn, ts |-> ts])]

\* The PUSH arm: everything below the window's end is acknowledged, what is
\* not older than rcv_nxt is kept.
input_push(e, s) ==
    IF ~in_window(e, s.sn) THEN e
    ELSE LET acked == ack_push(e, s.sn, s.ts)
         IN  IF seq_before(s.sn, e.rcv_nxt) THEN acked ELSE parse_data(acked, s)

\* The ACK arm on the engine.
input_ack(e, s, now) ==
    LET sample == time_diff(now, s.ts)
    IN  parse_ack(IF sample >= 0 THEN [e EXCEPT !.rtt = update_ack(@, sample)] ELSE e, s.sn)

\* The ACK arm on the locals of input(): the newest ACK of the datagram.
NoAck == [flag |-> FALSE, max_ack |-> 0, latest_ts |-> 0]

newest_ack(a, s) ==
    IF ~a.flag \/ (seq_after(s.sn, a.max_ack) /\ time_diff(s.ts, a.latest_ts) > 0)
    THEN [flag |-> TRUE, max_ack |-> s.sn, latest_ts |-> s.ts] ELSE a

\* Variant for mutation: the conversation id is not checked.
input_segment_anyconv(e, s, now) ==
    LET heard == parse_una([e EXCEPT !.wnd.rmt = s.wnd], s.una)
    IN  CASE s.cmd = "ACK"  -> input_ack(heard, s, now)
          [] s.cmd = "PUSH" -> input_push(heard, s)
          [] OTHER -> heard

\* One iteration of input()'s loop on the engine.
input_segment(e, s, now) ==
    IF s.conv # e.conv THEN e
    ELSE LET heard == parse_una([e EXCEPT !.wnd.rmt = s.wnd], s.una)
         IN  CASE s.cmd = "ACK"  -> input_ack(heard, s, now)
               [] s.cmd = "PUSH" -> input_push(heard, s)
               [] s.cmd = "WASK" -> [heard EXCEPT !.probe.ask_tell = TRUE]
               [] s.cmd = "WINS" -> heard

\* One iteration on the engine and the locals.
input_step(st, s, now) ==
    [eng |-> input_segment(st.eng, s, now),
     ack |-> IF s.conv = st.eng.conv /\ s.cmd = "ACK" THEN newest_ack(st.ack, s) ELSE st.ack]

\* The loop: after[i] is what the first i segments leave behind.
input_loop(e, segs, now) ==
    LET after[i \in 0 .. Len(segs)] ==
          IF i = 0 THEN [eng |-> e, ack |-> NoAck] ELSE input_step(after[i - 1], segs[i], now)
    IN  after[Len(segs)]

\* input(data), the datagram decoded.
input(e, segs, now) ==
    LET end    == input_loop(e, segs, now)
        shrunk == shrink_buf(end.eng)
        fast   == IF end.ack.flag
                  THEN parse_fastack(shrunk, end.ack.max_ack, end.ack.latest_ts) ELSE shrunk
    IN  [fast EXCEPT !.wnd = update_cwnd(@, seq_after(fast.snd_una, e.snd_una))]

-----------------------------------------------------------------------------
(* flush *)

\* A segment as it leaves: every header carries the free receive window and
\* the next sequence number expected.
wire(e, cmd, sn, ts, piece) ==
    [conv |-> e.conv, cmd |-> cmd, frg |-> piece.frg, wnd |-> wnd_unused(e),
     ts |-> ts, sn |-> sn, una |-> e.rcv_nxt, data |-> piece.data]

NoPiece == [frg |-> 0, data |-> <<>>]

\* flush_acks: the ACK segments; the list is drained.
acks_out(e) ==
    [i \in 1 .. Len(e.ack_list) |->
        wire(e, "ACK", e.ack_list[i].sn, e.ack_list[i].ts, NoPiece)]

flush_acks(e) == [e EXCEPT !.ack_list = <<>>]

\* Variant for mutation: the timer starts without a deadline.
probe_timer_unarmed(e, now) ==
    IF e.wnd.rmt # 0 THEN [e.probe EXCEPT !.ts = 0, !.wait = 0]
    ELSE IF e.probe.wait = 0 THEN [e.probe EXCEPT !.wait = ProbeInit] ELSE e.probe

\* handle_window_probe, first half: arm, back off or disarm the probe timer.
probe_timer(e, now) ==
    LET p == e.probe
        backoff == Min2(Max2(p.wait, ProbeInit) + Max2(p.wait, ProbeInit) \div 2, ProbeLimit)
    IN  IF e.wnd.rmt # 0 THEN [p EXCEPT !.ts = 0, !.wait = 0]
        ELSE IF p.wait = 0
        THEN [p EXCEPT !.wait = ProbeInit, !.ts = WrapAdd(now, ProbeInit)]
        ELSE IF time_diff(now, p.ts) >= 0
        THEN [p EXCEPT !.wait = backoff, !.ts = WrapAdd(now, backoff), !.ask_send = TRUE]
        ELSE p

\* handle_window_probe, second half: the probe segments.
probes_out(e, now) ==
    (IF e.probe.ask_send THEN <<wire(e, "WASK", 0, now, NoPiece)>> ELSE <<>>) \o
    (IF e.probe.ask_tell THEN <<wire(e, "WINS", 0, now, NoPiece)>> ELSE <<>>)

clear_probe(e) == [e EXCEPT !.probe.ask_send = FALSE, !.probe.ask_tell = FALSE]

\* Segments move_to_send_buf may give a sequence number.
send_window(e) ==
    LET w == Min2(SndWnd, e.wnd.rmt) IN IF NoCwnd THEN w ELSE Min2(e.wnd.cwnd, w)

\* How many it moves: the loop runs while snd_nxt is before snd_una + window.
move_count(e) ==
    Min2(Len(e.snd_queue),
         Max2(0, -time_diff(e.snd_nxt, WrapAdd(e.snd_una, send_window(e)))))

move_to_send_buf(e, now) ==
    LET n     == move_count(e)
        fresh == {WrapAdd(e.snd_nxt, i) : i \in 0 .. (n - 1)}
        put(p) == [frg |-> p.frg, data |-> p.data, ts |-> now, resendts |-> now,
                   rto |-> e.rtt.rto, fastack |-> 0, xmit |-> 0]
    IN  [e EXCEPT
            !.snd_buf = [sn \in DOMAIN @ \cup fresh |->
                IF sn \in fresh THEN put(e.snd_queue[WrapSub(sn, e.snd_nxt) + 1]) ELSE @[sn]],
            !.snd_queue = SubSeq(@, n + 1, Len(@)),
            !.snd_nxt = WrapAdd(@, n)]

\* The three reasons mark_segments_for_send sends a segment, in its order.
first_send(seg)    == seg.xmit = 0
timed_out(seg, now) == ~first_send(seg) /\ time_diff(now, seg.resendts) >= 0
fast_resend(seg, now) ==
    /\ ~first_send(seg) /\ ~timed_out(seg, now)
    /\ Resend > 0 /\ seg.fastack >= Resend
    /\ seg.xmit <= FastackLimit \/ FastackLimit = 0

needsend(seg, now) == first_send(seg) \/ timed_out(seg, now) \/ fast_resend(seg, now)

rtomin(e) == IF Nodelay THEN 0 ELSE e.rtt.rto \div 8

\* The retransmission timeout after a timeout.
backed_off(e, seg) ==
    IF Nodelay THEN WrapAdd(seg.rto, (IF NoCwnd THEN e.rtt.rto ELSE seg.rto) \div 2)
    ELSE WrapAdd(seg.rto, Max2(seg.rto, Interval))

marked(e, seg, now) ==
    IF first_send(seg)
    THEN [seg EXCEPT !.xmit = 1, !.rto = e.rtt.rto, !.ts = now,
                     !.resendts = WrapAdd(WrapAdd(now, e.rtt.rto), rtomin(e))]
    ELSE IF timed_out(seg, now)
    THEN [seg EXCEPT !.xmit = @ + 1, !.rto = backed_off(e, seg), !.ts = now,
                     !.resendts = WrapAdd(now, backed_off(e, seg))]
    ELSE IF fast_resend(seg, now)
    THEN [seg EXCEPT !.xmit = @ + 1, !.fastack = 0, !.ts = now,
                     !.resendts = WrapAdd(now, seg.rto)]
    ELSE seg

mark_segments_for_send(e, now) ==
    [e EXCEPT !.snd_buf = [sn \in DOMAIN @ |-> marked(e, @[sn], now)]]

send_indices(e, now) == {sn \in DOMAIN e.snd_buf : needsend(e.snd_buf[sn], now)}
lost(e, now)   == \E sn \in DOMAIN e.snd_buf : timed_out(e.snd_buf[sn], now)
change(e, now) == \E sn \in DOMAIN e.snd_buf : fast_resend(e.snd_buf[sn], now)

\* The orders mark_segments_for_send may list a set of segments in: by
\* sequence number, so there is exactly one.
Orders(S) ==
    {f \in [1 .. Cardinality(S) -> S] :
        \A i, j \in 1 .. Cardinality(S) : i < j => seq_before(f[i], f[j])}

\* Variant for mutation: back to canonical KCP's closed window.
reset_cwnd_zero(w) == [w EXCEPT !.cwnd = 0, !.incr = 0]

\* update_congestion_on_loss; reset_cwnd sets one segment.
on_change(w, inflight) ==
    LET thresh == Max2(inflight \div 2, ThreshMin)
    IN  [w EXCEPT !.ssthresh = thresh, !.cwnd = thresh + Resend,
                  !.incr = (thresh + Resend) * mss]

reset_cwnd(w) == [w EXCEPT !.cwnd = 1, !.incr = mss]

on_lost(w) == reset_cwnd([w EXCEPT !.ssthresh = Max2(w.cwnd \div 2, ThreshMin)])

update_congestion_on_loss(w, isLost, isChange, inflight) ==
    LET w1 == IF isChange THEN on_change(w, inflight) ELSE w
        w2 == IF isLost THEN on_lost(w1) ELSE w1
    IN  IF w2.cwnd < 1 THEN reset_cwnd(w2) ELSE w2

\* The engine after flush_acks, handle_window_probe and move_to_send_buf.
flush_head(e, now) ==
    move_to_send_buf(
        clear_probe([flush_acks(e) EXCEPT !.probe = probe_timer(e, now)]), now)

\* is_dead: a segment was transmitted dead_link times.
is_dead(e) == \E sn \in DOMAIN e.snd_buf : e.snd_buf[sn].xmit >= MaxRetries

\* Variant for mutation: the count is tested before it is incremented.
connection_lost_before(e, now) ==
    \E sn \in send_indices(e, now) : e.snd_buf[sn].xmit >= MaxRetries

\* flush raises ConnectionLost when a segment it sends has reached dead_link.
connection_lost(e, now) ==
    LET m == mark_segments_for_send(e, now)
    IN  \E sn \in send_indices(e, now) : m.snd_buf[sn].xmit >= MaxRetries

\* The n-th of the data segments sns is the first that has reached dead_link:
\* the last one flush hands to output_segment.
first_lost(e, now, sns, n) ==
    LET m == mark_segments_for_send(e, now) IN
    /\ m.snd_buf[sns[n]].xmit >= MaxRetries
    /\ \A i \in 1 .. (n - 1) : m.snd_buf[sns[i]].xmit < MaxRetries

\* flush(): the engine afterwards, and whether it returned ConnectionLost.
\* On the error the congestion window is left alone.
flush(e, now) ==
    LET h == flush_head(e, now)
        m == mark_segments_for_send(h, now)
    IN  IF connection_lost(h, now) THEN [eng |-> m, ok |-> FALSE]
        ELSE [eng |-> [m EXCEPT !.wnd = update_congestion_on_loss(@, lost(h, now),
                                 change(h, now), WrapSub(h.snd_nxt, h.snd_una))],
              ok |-> TRUE]

\* The segments flush() hands to output_segment, in order; sns lists the data
\* segments.
flush_out(e, now, sns) ==
    LET h == flush_head(e, now)
        p == [e EXCEPT !.probe = probe_timer(e, now)]
    IN  acks_out(e) \o probes_out(p, now) \o
        [i \in 1 .. Len(sns) |-> wire(e, "PUSH", sns[i], now, h.snd_buf[sns[i]])]

seg_size(s) == Overhead + Len(s.data)

\* output_segment: segments share a datagram up to the mtu.  The function gives
\* for each segment the first segment of the datagram it goes into.
datagram_start(out) ==
    LET size[i \in 0 .. Len(out)] == IF i = 0 THEN 0 ELSE size[i - 1] + seg_size(out[i])
        first[i \in 1 .. Len(out)] ==
            IF i = 1 THEN 1
            ELSE IF size[i] - size[first[i - 1] - 1] > Mtu THEN i ELSE first[i - 1]
    IN  first

\* The datagrams out is sent in, flush_out_buf sending the last one.
datagrams(out) ==
    LET first == datagram_start(out)
    IN  {SubSeq(out, ij[1], ij[2]) : ij \in
            {ij \in (1 .. Len(out)) \X (1 .. Len(out)) :
                /\ first[ij[2]] = ij[1]
                /\ ij[2] = Len(out) \/ first[ij[2] + 1] = ij[2] + 1}}

-----------------------------------------------------------------------------
(* check and the queries *)

\* The deadlines check() takes the soonest of.
deadlines(e, now) ==
    {Max2(0, time_diff(e.snd_buf[sn].resendts, now)) : sn \in DOMAIN e.snd_buf}
    \cup (IF e.wnd.rmt = 0 /\ e.probe.ts # 0
          THEN {Max2(0, time_diff(e.probe.ts, now))} ELSE {})

check(e, now) ==
    IF e.ack_list # <<>> \/ e.probe.ask_send \/ e.probe.ask_tell THEN 0
    ELSE IF deadlines(e, now) = {} THEN IdleWait
    ELSE CHOOSE d \in deadlines(e, now) : \A x \in deadlines(e, now) : d <= x

has_unsent_data(e) == e.snd_queue # <<>> \/ DOMAIN e.snd_buf # {}
=============================================================================
