------------------------------- MODULE KcpLink -------------------------------
(***************************************************************************)
(* Two engines that talk over UDP.  The network loses, duplicates and      *)
(* reorders datagrams; the peers write, read, flush and receive at any     *)
(* time, and the clock moves on by itself.  When flush returns             *)
(* ConnectionLost the timer, input and write arms of the actor stop; its   *)
(* Flush and Close commands ignore the error and go on with the engine.    *)
(***************************************************************************)
EXTENDS KcpEngine, SequencesExt

CONSTANTS
    A, B,            \* the two peers
    Writers,         \* the peers whose application writes
    Conv,            \* the conversation id both engines use
    Sizes,           \* sizes of the writes
    Isn, Epoch,      \* first sequence number, first timestamp (any words)
    Stray,           \* datagrams of other conversations that may arrive
    MaxSeg,          \* bound: segments a peer numbers or queues
    MaxTime,         \* bound: clock ticks
    MaxNet,          \* bound: datagrams in flight
    MaxDup,          \* bound: datagrams the network repeats
    MaxAck           \* bound: ACKs an engine owes when it takes in a datagram

ASSUME PeerAssumption == A # B /\ Writers \subseteq {A, B}

\* Fewer segments than half the sequence space are sent while a datagram may
\* still be in flight: what makes sequence comparison meaningful.
ASSUME SpaceAssumption ==
    /\ Isn \in Words /\ Epoch \in Words /\ Conv \in Nat
    /\ MaxSeg \in Nat /\ MaxSeg + RcvWnd < Half /\ MaxSeg + SndWnd < Half
    /\ MaxTime \in 0 .. (Word - 1) /\ MaxNet \in Nat /\ MaxDup \in Nat /\ MaxAck \in Nat
    /\ Sizes \subseteq Nat

Peers == {A, B}
other(p) == IF p = A THEN B ELSE A

ASSUME StrayAssumption ==
    \A d \in Stray : /\ d.to \in Peers /\ d.segs \in Seq(WireSeg)
                     /\ \A i \in 1 .. Len(d.segs) : d.segs[i].conv # Conv

VARIABLES
    eng,      \* eng[p]: the engine of peer p
    out_buf,  \* out_buf[p]: segments a failed flush left unsent in p's engine
    net,      \* datagrams in flight
    dups,     \* how many datagrams the network has repeated
    clock,    \* milliseconds since the start
    dead,     \* dead[p]: p's driver stopped, its flush having returned ConnectionLost
    offered,  \* offered[p]: bytes p's application has passed to send()
    wrote,    \* wrote[p]: the writes send() accepted
    numbered, \* numbered[p]: the pieces p gave sequence numbers, in order
    got,      \* got[p]: the messages recv() returned at p, as pieces
    taken     \* taken[p]: how many pieces those messages span

vars == <<eng, out_buf, net, dups, clock, dead, offered, wrote, numbered, got, taken>>

now == WrapAdd(Epoch, clock)

Init ==
    /\ eng = [p \in Peers |-> new(Conv, Isn)]
    /\ out_buf = [p \in Peers |-> <<>>]
    /\ net = Stray
    /\ dups = 0
    /\ clock = 0
    /\ dead = [p \in Peers |-> FALSE]
    /\ offered = [p \in Peers |-> 0]
    /\ wrote = [p \in Peers |-> <<>>]
    /\ numbered = [p \in Peers |-> <<>>]
    /\ got = [p \in Peers |-> <<>>]
    /\ taken = [p \in Peers |-> 0]

\* The application writes size bytes; bytes are numbered so that a misplaced
\* one shows.
Send(p, size) ==
    LET data == [i \in 1 .. size |-> offered[p] + i]
        r    == send(eng[p], data)
    IN  /\ ~dead[p]
        /\ Len(numbered[p]) + Len(r.eng.snd_queue) <= MaxSeg
        /\ offered[p] + size <= MaxSeg * mss
        /\ eng' = [eng EXCEPT ![p] = r.eng]
        /\ offered' = [offered EXCEPT ![p] = @ + size]
        /\ wrote' = [wrote EXCEPT ![p] = IF r.ok THEN Append(@, data) ELSE @]
        /\ UNCHANGED <<out_buf, net, dups, clock, dead, numbered, got, taken>>

\* The application reads a message.
Recv(p) ==
    /\ ~dead[p]
    /\ readable(eng[p])
    /\ eng' = [eng EXCEPT ![p] = recv(@)]
    /\ got' = [got EXCEPT ![p] = Append(@, message(eng[p]))]
    /\ taken' = [taken EXCEPT ![p] = @ + message_span(eng[p].rcv_queue)]
    /\ UNCHANGED <<out_buf, net, dups, clock, dead, offered, wrote, numbered>>

\* A datagram arrives; it may arrive again later.
Input(p) ==
    /\ ~dead[p]
    /\ Len(eng[p].ack_list) <= MaxAck
    /\ \E d \in net :
        /\ d.to = p
        /\ eng' = [eng EXCEPT ![p] = input(@, d.segs, now)]
        /\ \/ net' = net \ {d} /\ UNCHANGED dups
           \/ dups < MaxDup /\ dups' = dups + 1 /\ UNCHANGED net
    /\ UNCHANGED <<out_buf, clock, dead, offered, wrote, numbered, got, taken>>

\* The driver hands datagrams to the network, which may lose any of them.
Transmit(p, sent) ==
    \E kept \in SUBSET sent :
        /\ net' = net \cup {[to |-> other(p), segs |-> d] : d \in kept}
        /\ Cardinality(net') <= MaxNet

\* What every flush does to its engine, and to the numbers given out.
FlushEngine(p) ==
    /\ eng' = [eng EXCEPT ![p] = flush(@, now).eng]
    /\ numbered' = [numbered EXCEPT ![p] =
            @ \o SubSeq(eng[p].snd_queue, 1, move_count(eng[p]))]

\* The segments in p's buffer once a flush has put out the data segments sns.
Buffered(p, sns) == out_buf[p] \o flush_out(eng[p], now, sns)

\* flush() succeeds and leaves nothing in the buffer.
Flush(p) ==
    /\ ~dead[p]
    /\ flush(eng[p], now).ok
    /\ FlushEngine(p)
    /\ \E sns \in Orders(send_indices(flush_head(eng[p], now), now)) :
          Transmit(p, datagrams(Buffered(p, sns)))
    /\ out_buf' = [out_buf EXCEPT ![p] = <<>>]
    /\ UNCHANGED <<dups, clock, dead, offered, wrote, got, taken>>

\* flush() returns ConnectionLost in the timer, input or write arm; the driver
\* stops without draining the output queue.
FlushLost(p) ==
    /\ ~dead[p]
    /\ ~flush(eng[p], now).ok
    /\ FlushEngine(p)
    /\ dead' = [dead EXCEPT ![p] = TRUE]
    /\ UNCHANGED <<out_buf, net, dups, clock, offered, wrote, got, taken>>

\* flush() returns ConnectionLost to a Flush or Close command, which ignores it:
\* the datagrams completed before the error leave, the last one stays in the
\* buffer and leaves with the next flush that succeeds or fills it.
FlushIgnored(p) ==
    /\ ~dead[p]
    /\ ~flush(eng[p], now).ok
    /\ FlushEngine(p)
    /\ LET h == flush_head(eng[p], now) IN
       \E sns \in Orders(send_indices(h, now)) :
       \E n \in 1 .. Len(sns) :
          LET out == Buffered(p, SubSeq(sns, 1, n)) IN
          /\ first_lost(h, now, sns, n)
          /\ \E i \in 1 .. Len(out) :
               /\ i = datagram_start(out)[Len(out)]
               /\ Transmit(p, datagrams(SubSeq(out, 1, i - 1)))
               /\ out_buf' = [out_buf EXCEPT ![p] = SubSeq(out, i, Len(out))]
    /\ UNCHANGED <<dups, clock, dead, offered, wrote, got, taken>>

Tick ==
    /\ clock < MaxTime
    /\ clock' = clock + 1
    /\ UNCHANGED <<eng, out_buf, net, dups, dead, offered, wrote, numbered, got, taken>>

Next ==
    \/ \E p \in Writers : \E size \in Sizes : Send(p, size)
    \/ \E p \in Peers : Recv(p)
    \/ \E p \in Peers : Input(p)
    \/ \E p \in Peers : Flush(p)
    \/ \E p \in Peers : FlushLost(p)
    \/ \E p \in Peers : FlushIgnored(p)
    \/ Tick

Spec == Init /\ [][Next]_vars

-----------------------------------------------------------------------------
(* Properties *)

\* Every variable has its type.
TypeOK ==
    /\ DOMAIN eng = Peers /\ \A p \in Peers : IsEngine(eng[p])
    /\ out_buf \in [Peers -> Seq(WireSeg)]
    /\ \A d \in net : d.to \in Peers /\ d.segs \in Seq(WireSeg)
    /\ dups \in 0 .. MaxDup
    /\ clock \in 0 .. MaxTime
    /\ dead \in [Peers -> BOOLEAN]
    /\ offered \in [Peers -> Nat]
    /\ wrote \in [Peers -> Seq(Bytes)]
    /\ numbered \in [Peers -> Seq(Piece)]
    /\ got \in [Peers -> Seq(Seq(Piece))]
    /\ taken \in [Peers -> Nat]

\* The position of a sequence number in its sender's stream.
index(sn) == WrapSub(sn, Isn)

\* The pieces of the peer's stream that p has accepted and not yet handed to
\* its application, or has handed over.
Holds(p, i) ==
    \/ i < taken[p] + Len(eng[p].rcv_queue)
    \/ WrapAdd(Isn, i) \in DOMAIN eng[p].rcv_buf

\* The receive queue continues the peer's stream exactly where the last read
\* stopped and the reassembly buffer holds the right piece at every sequence
\* number, whatever was lost, repeated or reordered.
PiecesInOrder ==
    \A p \in Peers :
        LET e == eng[p] s == numbered[other(p)] IN
        /\ e.rcv_nxt = WrapAdd(Isn, taken[p] + Len(e.rcv_queue))
        /\ taken[p] + Len(e.rcv_queue) <= Len(s)
        /\ \A i \in 1 .. Len(e.rcv_queue) : e.rcv_queue[i] = s[taken[p] + i]
        /\ \A sn \in DOMAIN e.rcv_buf :
              index(sn) < Len(s) /\ e.rcv_buf[sn] = s[index(sn) + 1]

\* A piece that left the sender's buffer is held by the receiver: nothing is
\* dropped as acknowledged that the peer does not have.
AckedDataHeld ==
    \A p \in Peers : \A i \in 0 .. (Len(numbered[p]) - 1) :
        WrapAdd(Isn, i) \notin DOMAIN eng[p].snd_buf => Holds(other(p), i)

\* Why the two hold, as an inductive invariant.  The send buffer matches the
\* numbers given out, and what is numbered or queued stays within the bound.
Numbering(p) ==
    LET e == eng[p] s == numbered[p] IN
    /\ e.conv = Conv
    /\ Len(s) + Len(e.snd_queue) <= MaxSeg
    /\ e.snd_nxt = WrapAdd(Isn, Len(s))
    /\ \A sn \in DOMAIN e.snd_buf :
          /\ index(sn) < Len(s)
          /\ s[index(sn) + 1] = [frg |-> e.snd_buf[sn].frg, data |-> e.snd_buf[sn].data]

\* p owes acknowledgements only for what it holds.
OwesHeld(p) ==
    \A i \in 1 .. Len(eng[p].ack_list) :
        LET k == index(eng[p].ack_list[i].sn)
        IN  k < Len(numbered[other(p)]) /\ Holds(p, k)

\* A segment on its way to p, sent by q, tells the truth: its una is not above
\* what q accepted, a PUSH carries the piece of that number, and an ACK is for
\* a piece q holds.
Truthful(p, seg) ==
    LET q == other(p) IN
    seg.conv = Conv =>
        /\ index(seg.una) <= taken[q] + Len(eng[q].rcv_queue)
        /\ seg.cmd = "PUSH" =>
              /\ index(seg.sn) < Len(numbered[q])
              /\ numbered[q][index(seg.sn) + 1] = [frg |-> seg.frg, data |-> seg.data]
        /\ seg.cmd = "ACK" =>
              index(seg.sn) < Len(numbered[p]) /\ Holds(q, index(seg.sn))

\* The datagrams in flight and the ones that wait in an engine's buffer.
OnTheWay == net \cup {[to |-> other(p), segs |-> out_buf[p]] : p \in Peers}

\* No datagram of this conversation, however old, misleads the peer it reaches,
\* not even what a failed flush left behind to go out later; the engines'
\* buffers match what was numbered, and so the two hold.
SafetyInv ==
    /\ \A p \in Peers : Numbering(p) /\ OwesHeld(p)
    /\ \A d \in OnTheWay : \A i \in 1 .. Len(d.segs) : Truthful(d.to, d.segs[i])
    /\ PiecesInOrder
    /\ AckedDataHeld

\* A full receive queue always has a complete message at its head: flow
\* control cannot close the window in the middle of a message for ever.
FullQueueReadable ==
    \A p \in Peers : Len(eng[p].rcv_queue) >= RcvWnd => readable(eng[p])

\* The receive side never holds more than a window beyond the read queue and
\* the send side never has more than a send window unacknowledged.
WithinWindows ==
    \A p \in Peers : LET e == eng[p] IN
        /\ Len(e.rcv_queue) <= RcvWnd
        /\ \A sn \in DOMAIN e.rcv_buf : WrapSub(sn, e.rcv_nxt) < RcvWnd
        /\ WrapSub(e.snd_nxt, e.snd_una) <= SndWnd
        /\ \A sn \in DOMAIN e.snd_buf : WrapSub(sn, e.snd_una) < WrapSub(e.snd_nxt, e.snd_una)

\* The congestion window never closes, so an open remote window always lets a
\* segment through.
CwndPositive == \A p \in Peers : eng[p].wnd.cwnd >= 1

\* The liveness query and flush agree on when a connection is given up, also
\* when the driver goes on: is_dead() becomes true in the very flush that
\* reports ConnectionLost and in no other step, every flush that reports it
\* leaves is_dead() true, and only a datagram from the peer makes it false again.
GivingUpAgrees ==
    [][\A p \in Peers :
          LET failed == FlushLost(p) \/ FlushIgnored(p) IN
          /\ failed => is_dead(eng'[p])
          /\ ~is_dead(eng[p]) /\ is_dead(eng'[p]) => failed
          /\ is_dead(eng[p]) /\ ~is_dead(eng'[p]) => Input(p)]_vars

\* After a successful flush an engine with unsent data has a deadline: its
\* driver does not go to sleep for the idle time.
Scheduled ==
    [][\A p \in Peers : Flush(p) /\ has_unsent_data(eng'[p]) =>
          deadlines(eng'[p], now) # {}]_vars

\* What the tests ask of an oversized write: it is rejected up front, leaving
\* nothing behind in the send queue.
RejectedSendLeavesQueue ==
    [][\A p \in Peers : offered'[p] # offered[p] /\ wrote'[p] = wrote[p] =>
          eng'[p].snd_queue = eng[p].snd_queue]_vars

\* One direction as the users see it: whole messages, or bytes in stream mode.
Payload(pieces) == FlattenSeq([i \in 1 .. Len(pieces) |-> pieces[i].data])

Items(msgs) == IF StreamMode THEN FlattenSeq(msgs) ELSE msgs

ReadItems(p) == Items([i \in 1 .. Len(got[p]) |-> Payload(got[p][i])])

AtoB == INSTANCE ReliableChannel WITH written <- Items(wrote[A]), read <- ReadItems(B)
BtoA == INSTANCE ReliableChannel WITH written <- Items(wrote[B]), read <- ReadItems(A)

\* What B's application reads is what A's application wrote, in order and once:
\* send(), the whole exchange and recv() together are a reliable channel.
AtoBReliable == AtoB!Spec

\* The same from B to A.
BtoAReliable == BtoA!Spec
==============================================================================
