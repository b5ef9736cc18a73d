------------------------------ MODULE KcpActor -------------------------------
(***************************************************************************)
(* The engine actor of kcp/actor.rs: one task that owns an engine and      *)
(* serves its timer, the commands and writes of its stream, and the        *)
(* datagrams of its feeder (the client's receive task or the listener).    *)
(*                                                                         *)
(* The engine is what its driver can tell of it: how far its outgoing      *)
(* stream of segments has moved, and the messages it has assembled.        *)
(* KcpLink shows that two engines and a network implement this reliable    *)
(* exchange.                                                               *)
(*                                                                         *)
(* An arm of the select! is one action, since between two steps of an arm  *)
(* other tasks can only use the channels; the loops that take from the     *)
(* send channel are stepwise, because writers go on while they run.        *)
(* select! polls its arms one after another, so a later arm may run while  *)
(* an earlier one has just become ready: any ready arm may run, and the    *)
(* bias shows in the fairness of KcpStream.                                *)
(***************************************************************************)
EXTENDS Integers, Sequences

CONSTANTS
    SendHighWater,  \* send_high_water, in segments
    SndWnd,         \* segments in flight
    RcvWnd,         \* messages the engine holds for the reader
    CmdCap,         \* capacity of the command channel
    SendCap,        \* SEND_CHANNEL_CAPACITY
    InputCap,       \* capacity of the datagram channel
    DataCap,        \* capacity of the channel of assembled messages
    MaxFrags,       \* segments of the largest message send() accepts
    DeadLink        \* the actor may find the connection lost: a segment was sent
                    \* dead_link times, or the peer was silent for too long

ASSUME ActorAssumption ==
    /\ SendHighWater \in Nat \ {0} /\ SndWnd \in Nat \ {0} /\ RcvWnd \in Nat \ {0}
    /\ CmdCap \in Nat \ {0} /\ SendCap \in Nat \ {0} /\ InputCap \in Nat \ {0}
    /\ DataCap \in Nat \ {0} /\ MaxFrags \in Nat \ {0} /\ DeadLink \in BOOLEAN

VARIABLES
    actor,     \* at: "start", "select", "absorb", "close", "ended"; closing;
               \* send_closed; overdue: close_deadline has passed
    eng,       \* the engine
    cmd_rx,    \* commands: "flush", "query" (Stats and IsAlive), "close"
    send_rx,   \* messages written and not yet taken
    input_rx,  \* datagrams
    data_rx,   \* assembled messages for the reader
    reply,     \* the answers to the outstanding "flush" and "query"
    feeder,    \* the source of datagrams: "feeding", "idle" (it keeps its
               \* sender but reads nothing), "gone"
    dropped    \* the stream, with its ends of the channels, is gone

ends == <<reply, feeder, dropped>>

actor_vars == <<actor, eng, cmd_rx, send_rx, input_rx, data_rx, ends>>

-----------------------------------------------------------------------------
(* The engine as its driver sees it *)

smaller(a, b) == IF a < b THEN a ELSE b
larger(a, b)  == IF a < b THEN b ELSE a

\* A message is a sequence of segments.  out holds every segment send() took; the first
\* una are acknowledged, those up to nxt are in snd_buf, the rest in snd_queue;
\* those up to wired have left in a datagram.  rcv_nxt messages of the peer are
\* accepted, acked of them are acknowledged, and rcv_queue holds those not read.
new_engine(rcv_queue) ==
    [out |-> <<>>, una |-> 0, nxt |-> 0, wired |-> 0, rmt_open |-> TRUE,
     rcv_queue |-> rcv_queue, rcv_nxt |-> Len(rcv_queue), acked |-> 0]

send_queue_len(e) == Len(e.out) - e.nxt

\* Variant for mutation: the queue is forgotten.
has_unsent_data_in_flight(e) == e.una < e.nxt

has_unsent_data(e) == send_queue_len(e) > 0 \/ e.una < e.nxt

engine_send(e, msg) == [e EXCEPT !.out = @ \o msg]

\* Variant for mutation: a window that was closed once stays closed.
input_stays_shut(e, d) ==
    LET una == larger(e.una, smaller(d.una, e.nxt))
        new == d.sn = e.rcv_nxt + 1 /\ Len(e.rcv_queue) < RcvWnd
    IN  [e EXCEPT !.una = una, !.rmt_open = @ /\ d.open,
                  !.rcv_queue = IF new THEN Append(@, d.sn) ELSE @,
                  !.rcv_nxt = IF new THEN d.sn ELSE @]

\* A datagram of the peer: what it has received of our segments, a message (0
\* for none), and whether its window is open.
input(e, d) ==
    LET una == larger(e.una, smaller(d.una, e.nxt))
        new == d.sn = e.rcv_nxt + 1 /\ Len(e.rcv_queue) < RcvWnd
    IN  [e EXCEPT !.una = una, !.rmt_open = d.open,
                  !.rcv_queue = IF new THEN Append(@, d.sn) ELSE @,
                  !.rcv_nxt = IF new THEN d.sn ELSE @]

\* move_to_send_buf.
moved(e) ==
    [e EXCEPT !.nxt = IF e.rmt_open THEN larger(@, smaller(Len(e.out), e.una + SndWnd)) ELSE @]

\* flush(), and flush_output() after it: acknowledgements and segments leave.
flushed(e) ==
    LET m == moved(e) IN [m EXCEPT !.wired = larger(@, m.nxt), !.acked = e.rcv_nxt]

\* flush() may fail when a segment in flight has been sent too often; it has
\* moved segments by then.
flush(e) ==
    {[ok |-> TRUE, eng |-> flushed(e)]} \cup
    (IF DeadLink /\ e.una < e.nxt THEN {[ok |-> FALSE, eng |-> moved(e)]} ELSE {})

-----------------------------------------------------------------------------
(* The parts of an arm *)

\* Variant for mutation: no place is reserved.
drained_unreserved(e) == IF dropped THEN 0 ELSE Len(e.rcv_queue)

\* drain_recv moves as many messages as the channel has places for; a closed
\* channel has none.
drained(e) == IF dropped THEN 0 ELSE smaller(DataCap - Len(data_rx), Len(e.rcv_queue))

\* Variant for mutation: a message is taken out before there is a place for it.
drain_engine_unreserved(e, n) == [e EXCEPT !.rcv_queue = SubSeq(@, n + 2, Len(@))]

drain_engine(e, n) == [e EXCEPT !.rcv_queue = SubSeq(@, n + 1, Len(@))]

drain_recv(e) ==
    /\ data_rx' = data_rx \o SubSeq(e.rcv_queue, 1, drained(e))
    /\ eng' = drain_engine(e, drained(e))

\* The check after the select!.
finished(e) == actor.closing /\ (~has_unsent_data(e) \/ actor.overdue)

\* The actor returns: its ends of the channels go, with what they hold.
\* Messages already in the data channel stay for the reader.
End ==
    /\ actor' = [actor EXCEPT !.at = "ended"]
    /\ cmd_rx' = <<>> /\ send_rx' = <<>> /\ input_rx' = <<>>

-----------------------------------------------------------------------------
(* The actor *)

\* The steps before the loop: update() may or may not flush, and what the
\* engine of a server stream took from the first datagram is handed over.
Start ==
    /\ actor.at = "start"
    /\ \E e \in {eng, flushed(eng)} : drain_recv(e)
    /\ actor' = [actor EXCEPT !.at = "select"]
    /\ UNCHANGED <<cmd_rx, send_rx, input_rx, ends>>

\* Variant for mutation: what backpressure left in the engine stays there.
timer_drain_not(e) == eng' = e /\ UNCHANGED data_rx

\* Messages left in the engine for want of room are handed over by the timer.
timer_drain(e) == drain_recv(e)

\* The timer.  When a flush fails or, as KcpKeepAlive has it, the peer has been
\* silent for too long, the actor ends without sending anything.
Timer ==
    /\ actor.at = "select"
    /\ \/ \E r \in flush(eng) :
            /\ r.ok
            /\ timer_drain(r.eng)
            /\ IF finished(r.eng) THEN End
               ELSE UNCHANGED <<actor, cmd_rx, send_rx, input_rx>>
       \/ DeadLink /\ End /\ eng' = moved(eng) /\ UNCHANGED data_rx
    /\ UNCHANGED ends

\* Flush: the answer is the result of the flush, and the loop goes on; what a
\* failed flush had put out before it failed leaves as well.
FlushCmd ==
    /\ actor.at = "select" /\ ~actor.closing
    /\ cmd_rx # <<>> /\ Head(cmd_rx) = "flush"
    /\ cmd_rx' = Tail(cmd_rx)
    /\ \E r \in flush(eng) :
        /\ eng' \in {r.eng, flushed(eng)}
        /\ reply' = [reply EXCEPT !["flush"] = IF r.ok THEN "ok" ELSE "err"]
    /\ UNCHANGED <<actor, send_rx, input_rx, data_rx, feeder, dropped>>

\* Stats and IsAlive.
QueryCmd ==
    /\ actor.at = "select" /\ ~actor.closing
    /\ cmd_rx # <<>> /\ Head(cmd_rx) = "query"
    /\ cmd_rx' = Tail(cmd_rx)
    /\ reply' = [reply EXCEPT !["query"] = "ok"]
    /\ UNCHANGED <<actor, eng, send_rx, input_rx, data_rx, feeder, dropped>>

\* Variant for mutation: only the command counts.
commands_closed_not == FALSE

\* Every command handle is dropped.
commands_closed == cmd_rx = <<>> /\ dropped

\* Close, or no more commands.
CloseCmd ==
    /\ actor.at = "select" /\ ~actor.closing
    /\ \/ cmd_rx # <<>> /\ Head(cmd_rx) = "close" /\ cmd_rx' = Tail(cmd_rx)
       \/ commands_closed /\ UNCHANGED cmd_rx
    /\ actor' = [actor EXCEPT !.at = "close"]
    /\ UNCHANGED <<eng, send_rx, input_rx, data_rx, ends>>

\* The writes that are still buffered are absorbed, whatever their number.
AbsorbAll ==
    /\ actor.at = "close" /\ send_rx # <<>>
    /\ eng' = engine_send(eng, Head(send_rx))
    /\ send_rx' = Tail(send_rx)
    /\ UNCHANGED <<actor, cmd_rx, input_rx, data_rx, ends>>

\* try_recv finds nothing more.
all_absorbed == send_rx = <<>>

\* Draining begins; an error of the flush is ignored.
BeginClosing ==
    /\ actor.at = "close" /\ all_absorbed
    /\ \E r \in flush(eng) :
        /\ eng' = r.eng
        /\ actor' = [at |-> IF has_unsent_data(r.eng) THEN "select" ELSE "ended",
                     closing |-> TRUE, send_closed |-> TRUE, overdue |-> FALSE]
        /\ IF has_unsent_data(r.eng) THEN UNCHANGED <<cmd_rx, send_rx, input_rx>>
           ELSE cmd_rx' = <<>> /\ send_rx' = <<>> /\ input_rx' = <<>>
    /\ UNCHANGED <<data_rx, ends>>

\* A datagram.
Input ==
    /\ actor.at = "select"
    /\ input_rx # <<>>
    /\ \E r \in flush(input(eng, Head(input_rx))) :
        IF ~r.ok
        THEN End /\ eng' = r.eng /\ UNCHANGED data_rx
        ELSE /\ drain_recv(r.eng)
             /\ IF finished(r.eng) THEN End
                ELSE /\ input_rx' = Tail(input_rx)
                     /\ UNCHANGED <<actor, cmd_rx, send_rx>>
    /\ UNCHANGED ends

\* Variant for mutation: the stream's sender counts for all.
input_closed_with_stream == dropped

\* Every sender of datagrams is gone: the feeder's and the stream's.
input_closed == feeder = "gone" /\ dropped

InputClosed ==
    /\ actor.at = "select"
    /\ input_rx = <<>> /\ input_closed
    /\ End
    /\ UNCHANGED <<eng, data_rx, ends>>

\* Variant for mutation: writes are taken whatever is queued.
below_high_water_always == TRUE

below_high_water == send_queue_len(eng) < SendHighWater

\* A write is taken, and then whatever else is in the channel.
Data ==
    /\ \/ actor.at = "select" /\ ~actor.send_closed
       \/ actor.at = "absorb"
    /\ send_rx # <<>> /\ below_high_water
    /\ eng' = engine_send(eng, Head(send_rx))
    /\ send_rx' = Tail(send_rx)
    /\ actor' = [actor EXCEPT !.at = "absorb"]
    /\ UNCHANGED <<cmd_rx, input_rx, data_rx, ends>>

\* The flush at the end of the data arm.
DataFlush ==
    /\ actor.at = "absorb"
    /\ send_rx = <<>> \/ ~below_high_water
    /\ \E r \in flush(eng) :
        /\ eng' = r.eng
        /\ IF r.ok
           THEN actor' = [actor EXCEPT !.at = "select"] /\ UNCHANGED <<cmd_rx, send_rx, input_rx>>
           ELSE End
    /\ UNCHANGED <<data_rx, ends>>

\* Every write handle is dropped.
DataClosed ==
    /\ actor.at = "select" /\ ~actor.send_closed
    /\ send_rx = <<>> /\ dropped /\ below_high_water
    /\ actor' = [actor EXCEPT !.send_closed = TRUE]
    /\ UNCHANGED <<eng, cmd_rx, send_rx, input_rx, data_rx, ends>>

\* Ten seconds have passed since closing began.
DeadlinePasses ==
    /\ actor.closing /\ ~actor.overdue /\ actor.at # "ended"
    /\ actor' = [actor EXCEPT !.overdue = TRUE]
    /\ UNCHANGED <<eng, cmd_rx, send_rx, input_rx, data_rx, ends>>

ActorNext ==
    \/ Start \/ Timer \/ FlushCmd \/ QueryCmd \/ CloseCmd \/ AbsorbAll \/ BeginClosing
    \/ Input \/ InputClosed \/ Data \/ DataFlush \/ DataClosed \/ DeadlinePasses
==============================================================================
