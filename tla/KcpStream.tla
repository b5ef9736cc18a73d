------------------------------ MODULE KcpStream ------------------------------
(***************************************************************************)
(* A stream of kcp/stream.rs with its actor, its feeder and its peer.      *)
(*                                                                         *)
(* The application uses the calls in Calls.  The poll functions run one at *)
(* a time, as they borrow the stream exclusively, but calls that are       *)
(* pending interleave, as the halves of a split stream do; close() keeps   *)
(* its borrow until it returns or is cancelled.  A future that is polled   *)
(* goes on from where it stopped, one step at a time.                      *)
(***************************************************************************)
EXTENDS KcpActor, SequencesExt

CONSTANTS
    Calls,       \* what the application does: "write", "send", "flush", "query",
                 \* "read", "recv", "shutdown", "close", "drop", "cancel"
    IsServer,    \* a stream made by the listener, which feeds it
    FeederFails, \* the socket may fail, the listener may be closed or dropped
    MaxWrites,   \* bound: writes offered
    MaxPeer      \* bound: messages of the peer

ASSUME StreamAssumption ==
    /\ Calls \subseteq {"write", "send", "flush", "query", "read", "recv", "shutdown",
                        "close", "drop", "cancel"}
    /\ IsServer \in BOOLEAN /\ FeederFails \in BOOLEAN
    /\ MaxWrites \in Nat /\ MaxPeer \in Nat

VARIABLES
    stream,  \* closed; has_task: actor_task is Some; read_buf; and the pending
             \* futures: write (the parked message, or <<>>), flush and shutdown
             \* ("none", "send", "wait")
    app,     \* call: the call that holds the stream ("none", "close_send",
             \* "close_wait", "query_send", "query_wait"); writing: the write()
             \* in progress, 0 for none; history of what it was told: offered,
             \* accepted (segments), before_close (how many of them before it
             \* asked for the end), got (bytes), and eof
    peer     \* got: segments received; sent: messages written

vars == <<actor_vars, stream, app, peer>>

\* A message of the peer has two bytes, so that a read may stop inside it.
bytes_of(k) == <<2 * k - 1, 2 * k>>

\* The application has not asked for the end.
NotYet == -1

\* A new stream and its actor, whose engine holds n messages of the peer.
Established(n) ==
    /\ actor = [at |-> "start", closing |-> FALSE, send_closed |-> FALSE, overdue |-> FALSE]
    /\ eng = new_engine([k \in 1 .. n |-> k])
    /\ cmd_rx = <<>> /\ send_rx = <<>> /\ input_rx = <<>> /\ data_rx = <<>>
    /\ reply = [c \in {"flush", "query"} |-> "none"]
    /\ feeder = "feeding" /\ dropped = FALSE
    /\ stream = [closed |-> FALSE, has_task |-> TRUE, read_buf |-> <<>>,
                 write |-> <<>>, flush |-> "none", shutdown |-> "none"]
    /\ app = [call |-> "none", writing |-> 0, offered |-> 0, accepted |-> <<>>,
              before_close |-> NotYet, got |-> <<>>, eof |-> FALSE]
    /\ peer = [got |-> 0, sent |-> n]

\* A client, with a receive task of its own.
new_with_conv == ~IsServer /\ Established(0)

\* A server stream: the first datagram, with a message or without, was given to the
\* engine before.
new_server_stream == IsServer /\ \E n \in {0, 1} : Established(n)

Init == new_with_conv \/ new_server_stream

\* The application may call the stream.
Usable == ~dropped /\ app.call = "none"

Gone == actor.at = "ended"

-----------------------------------------------------------------------------
(* Writing *)

Room == Len(send_rx) < SendCap

\* The write() that is polled: the one in progress or a new one.
current_write == IF app.writing = 0 THEN app.offered + 1 ELSE app.writing

\* Variant for mutation: the chunk is handed over again when the parked future is done.
handed_over_twice(w) == stream.write \o <<w>>

\* What a poll hands over: the parked message if there is one, whatever buffer
\* the caller passes now; otherwise a chunk of one segment.
handed_over(w) == IF stream.write # <<>> THEN stream.write ELSE <<w>>

\* poll_write returns Ok, by the fast path or from the parked future.
WriteReady ==
    /\ "write" \in Calls /\ Usable /\ ~stream.closed
    /\ app.writing # 0 \/ app.offered < MaxWrites
    /\ ~Gone /\ Room
    /\ send_rx' = Append(send_rx, handed_over(current_write))
    /\ stream' = [stream EXCEPT !.write = <<>>]
    /\ app' = [app EXCEPT !.writing = 0, !.offered = larger(@, current_write),
                          !.accepted = Append(@, current_write)]
    /\ UNCHANGED <<actor, eng, cmd_rx, input_rx, data_rx, ends, peer>>

\* poll_write parks its chunk: the channel is full.
WritePending ==
    /\ "write" \in Calls /\ Usable /\ ~stream.closed
    /\ app.writing = 0 /\ app.offered < MaxWrites
    /\ ~Gone /\ ~Room
    /\ stream' = [stream EXCEPT !.write = handed_over(current_write)]
    /\ app' = [app EXCEPT !.writing = current_write, !.offered = current_write]
    /\ UNCHANGED <<actor_vars, peer>>

\* poll_write returns an error: the stream is closed or the actor is gone.
WriteFails ==
    /\ app.writing # 0 /\ Usable
    /\ stream.closed \/ Gone
    /\ stream' = [stream EXCEPT !.write = IF stream.closed THEN @ ELSE <<>>]
    /\ app' = [app EXCEPT !.writing = 0]
    /\ UNCHANGED <<actor_vars, peer>>

\* The write() future is dropped; what it parked stays with the stream.
WriteCancelled ==
    /\ "cancel" \in Calls /\ app.writing # 0
    /\ app' = [app EXCEPT !.writing = 0]
    /\ UNCHANGED <<actor_vars, stream, peer>>

\* send(), which waits for room: a message of up to max_msg bytes.
Send(n) ==
    LET msg == [i \in 1 .. n |-> app.offered + 1] IN
    /\ "send" \in Calls /\ Usable /\ ~stream.closed
    /\ app.writing = 0 /\ app.offered < MaxWrites
    /\ ~Gone /\ Room
    /\ send_rx' = Append(send_rx, msg)
    /\ app' = [app EXCEPT !.offered = @ + 1, !.accepted = @ \o msg]
    /\ UNCHANGED <<actor, eng, cmd_rx, input_rx, data_rx, ends, stream, peer>>

-----------------------------------------------------------------------------
(* Commands *)

\* A command waits for room in the channel; without a receiver it fails at once.
Sends(c) ==
    IF Gone THEN UNCHANGED cmd_rx
    ELSE Len(cmd_rx) < CmdCap /\ cmd_rx' = Append(cmd_rx, c)

\* Variant for mutation: the answer is waited for, whoever is there to give it.
answered_only(c) == reply[c] # "none"

\* The actor has answered, or has ended and dropped the place for the answer.
answered(c) == reply[c] # "none" \/ Gone

\* poll_flush creates its future, unless there is one.
FlushStart ==
    /\ "flush" \in Calls /\ Usable /\ ~stream.closed /\ stream.flush = "none"
    /\ stream' = [stream EXCEPT !.flush = "send"]
    /\ UNCHANGED <<actor_vars, app, peer>>

\* The future sends the Flush command.
FlushSend ==
    /\ Usable /\ ~stream.closed /\ stream.flush = "send"
    /\ Sends("flush")
    /\ reply' = [reply EXCEPT !["flush"] = "none"]
    /\ stream' = [stream EXCEPT !.flush = "wait"]
    /\ UNCHANGED <<actor, eng, send_rx, input_rx, data_rx, feeder, dropped, app, peer>>

\* poll_flush returns the answer, or an error when the actor left without one.
FlushDone ==
    /\ Usable /\ ~stream.closed /\ stream.flush = "wait"
    /\ answered("flush")
    /\ stream' = [stream EXCEPT !.flush = "none"]
    /\ UNCHANGED <<actor_vars, app, peer>>

\* stats() and is_connected().
Query ==
    /\ "query" \in Calls /\ Usable
    /\ app' = [app EXCEPT !.call = "query_send"]
    /\ UNCHANGED <<actor_vars, stream, peer>>

QuerySend ==
    /\ app.call = "query_send"
    /\ Sends("query")
    /\ reply' = [reply EXCEPT !["query"] = "none"]
    /\ app' = [app EXCEPT !.call = "query_wait"]
    /\ UNCHANGED <<actor, eng, send_rx, input_rx, data_rx, feeder, dropped, stream, peer>>

QueryDone ==
    /\ app.call = "query_wait"
    /\ answered("query")
    /\ app' = [app EXCEPT !.call = "none"]
    /\ UNCHANGED <<actor_vars, stream, peer>>

-----------------------------------------------------------------------------
(* Reading *)

\* Variant for mutation: new data replaces what was left in the buffer.
read_from_fresh(b, n) == [read |-> SubSeq(b, 1, n), left |-> <<>>]

\* A read of at most n bytes of b.
read_from(b, n) == [read |-> SubSeq(b, 1, smaller(n, Len(b))),
                    left |-> SubSeq(b, smaller(n, Len(b)) + 1, Len(b))]

Reads(b, n) ==
    /\ stream' = [stream EXCEPT !.read_buf = read_from(b, n).left]
    /\ app' = [app EXCEPT !.got = @ \o read_from(b, n).read]

\* poll_read from the read buffer, closed or not.
ReadBuffered(n) ==
    /\ "read" \in Calls /\ Usable
    /\ stream.read_buf # <<>>
    /\ Reads(stream.read_buf, n)
    /\ UNCHANGED <<actor_vars, peer>>

\* poll_read of the next message.
ReadMessage(n) ==
    /\ "read" \in Calls /\ Usable /\ ~stream.closed
    /\ stream.read_buf = <<>> /\ data_rx # <<>>
    /\ Reads(bytes_of(Head(data_rx)), n)
    /\ data_rx' = Tail(data_rx)
    /\ UNCHANGED <<actor, eng, cmd_rx, send_rx, input_rx, ends, peer>>

\* Variant for mutation: the end of the actor is the end of the stream.
at_end_with_actor == stream.closed \/ Gone

\* The stream is closed, or the actor has ended and what it left is read.
at_end == stream.closed \/ (data_rx = <<>> /\ Gone)

\* poll_read, or recv(), reports the end of the stream.
ReadEof ==
    /\ Usable
    /\ "recv" \in Calls \/ ("read" \in Calls /\ stream.read_buf = <<>>)
    /\ at_end
    /\ app' = [app EXCEPT !.eof = TRUE]
    /\ UNCHANGED <<actor_vars, stream, peer>>

\* recv(), which returns whole messages and knows nothing of the read buffer.
Recv ==
    /\ "recv" \in Calls /\ Usable /\ ~stream.closed
    /\ data_rx # <<>>
    /\ data_rx' = Tail(data_rx)
    /\ app' = [app EXCEPT !.got = @ \o bytes_of(Head(data_rx))]
    /\ UNCHANGED <<actor, eng, cmd_rx, send_rx, input_rx, ends, stream, peer>>

-----------------------------------------------------------------------------
(* Closing *)

\* The end is asked for: what was accepted by now has to reach the peer.
asked == [app EXCEPT !.before_close = IF @ = NotYet THEN Len(app.accepted) ELSE @]

\* poll_shutdown creates its future, which takes the handle of the actor's task.
ShutdownStart ==
    /\ "shutdown" \in Calls /\ Usable /\ ~stream.closed /\ stream.shutdown = "none"
    /\ stream' = [stream EXCEPT !.shutdown = "send", !.has_task = FALSE]
    /\ app' = asked
    /\ UNCHANGED <<actor_vars, peer>>

\* close_graceful.
ShutdownSend ==
    /\ Usable /\ ~stream.closed /\ stream.shutdown = "send"
    /\ Sends("close")
    /\ stream' = [stream EXCEPT !.shutdown = "wait"]
    /\ UNCHANGED <<actor, eng, send_rx, input_rx, data_rx, ends, app, peer>>

\* poll_shutdown returns when the actor has ended.
ShutdownDone ==
    /\ Usable /\ ~stream.closed /\ stream.shutdown = "wait"
    /\ Gone
    /\ stream' = [stream EXCEPT !.shutdown = "none", !.closed = TRUE]
    /\ UNCHANGED <<actor_vars, app, peer>>

\* close() sets the flag first.
Close ==
    /\ "close" \in Calls /\ Usable /\ ~stream.closed
    /\ stream' = [stream EXCEPT !.closed = TRUE]
    /\ app' = [asked EXCEPT !.call = "close_send"]
    /\ UNCHANGED <<actor_vars, peer>>

\* abort_tasks: the handle of the actor's task has been taken by now.
abort_tasks == feeder' = IF IsServer THEN feeder ELSE "gone"

\* close() has sent Close; it waits for the actor if it has its handle.
CloseSend ==
    /\ app.call = "close_send"
    /\ Sends("close")
    /\ stream' = [stream EXCEPT !.has_task = FALSE]
    /\ IF stream.has_task
       THEN app' = [app EXCEPT !.call = "close_wait"] /\ UNCHANGED feeder
       ELSE app' = [app EXCEPT !.call = "none"] /\ abort_tasks
    /\ UNCHANGED <<actor, eng, send_rx, input_rx, data_rx, reply, dropped, peer>>

\* The actor has ended, or five seconds have passed and it goes on by itself.
CloseReturn ==
    /\ app.call = "close_wait"
    /\ app' = [app EXCEPT !.call = "none"]
    /\ abort_tasks
    /\ UNCHANGED <<actor, eng, cmd_rx, send_rx, input_rx, data_rx, reply, dropped, stream, peer>>

\* The close() future is dropped; before it has sent Close, nothing was asked
\* for, unless a shutdown did.
CloseCancelled ==
    /\ "cancel" \in Calls /\ app.call \in {"close_send", "close_wait"}
    /\ app' = [app EXCEPT !.call = "none",
                          !.before_close = IF app.call = "close_send" /\ stream.shutdown # "wait"
                                           THEN NotYet ELSE @]
    /\ UNCHANGED <<actor_vars, stream, peer>>

\* The stream is dropped: Close if there is room for it, then the pending
\* futures and the channels.
Drop ==
    /\ "drop" \in Calls /\ Usable
    /\ cmd_rx' = IF ~Gone /\ Len(cmd_rx) < CmdCap THEN Append(cmd_rx, "close") ELSE cmd_rx
    /\ dropped' = TRUE
    /\ data_rx' = <<>>
    /\ stream' = [stream EXCEPT !.closed = TRUE, !.write = <<>>, !.flush = "none",
                                !.shutdown = "none"]
    /\ app' = [asked EXCEPT !.writing = 0]
    /\ UNCHANGED <<actor, eng, send_rx, input_rx, reply, feeder, peer>>

-----------------------------------------------------------------------------
(* The feeder and the peer *)

\* A datagram of the peer arrives: it tells what the peer has received and
\* may carry a message that is not acknowledged yet.  What is lost, repeated or
\* out of order is the subject of KcpLink.
Datagram == [una : {peer.got}, sn : {0} \cup (eng.acked + 1) .. peer.sent, open : BOOLEAN]

\* The receive task waits for room, the listener drops the datagram.
Receive(d) ==
    /\ feeder = "feeding" /\ ~Gone
    /\ Len(input_rx) < InputCap
    /\ input_rx' = Append(input_rx, d)
    /\ UNCHANGED <<actor, eng, cmd_rx, send_rx, data_rx, ends, stream, app, peer>>

\* recv_from fails: the receive task ends, the listener's task ends but leaves
\* the route.
ReceiveFails ==
    /\ FeederFails /\ feeder = "feeding"
    /\ feeder' = IF IsServer THEN "idle" ELSE "gone"
    /\ UNCHANGED <<actor, eng, cmd_rx, send_rx, input_rx, data_rx, reply, dropped, stream,
                   app, peer>>

\* The listener is dropped, and its routes with it.
ListenerDropped ==
    /\ FeederFails /\ IsServer /\ feeder # "gone"
    /\ feeder' = "gone"
    /\ UNCHANGED <<actor, eng, cmd_rx, send_rx, input_rx, data_rx, reply, dropped, stream,
                   app, peer>>

\* The receive task waits for the closing of its channel too and ends with the actor;
\* the listener's cleanup removes the route.
FeederStops ==
    /\ feeder = "feeding" /\ Gone
    /\ feeder' = "gone"
    /\ UNCHANGED <<actor, eng, cmd_rx, send_rx, input_rx, data_rx, reply, dropped, stream,
                   app, peer>>

\* The peer receives the next segment.
PeerReceives ==
    /\ peer.got < eng.wired
    /\ peer' = [peer EXCEPT !.got = @ + 1]
    /\ UNCHANGED <<actor_vars, stream, app>>

PeerWrites ==
    /\ peer.sent < MaxPeer
    /\ peer' = [peer EXCEPT !.sent = @ + 1]
    /\ UNCHANGED <<actor_vars, stream, app>>

-----------------------------------------------------------------------------

Poll ==
    \/ FlushSend \/ FlushDone \/ QuerySend \/ QueryDone
    \/ ShutdownSend \/ ShutdownDone \/ CloseSend \/ CloseReturn

Next ==
    \/ ActorNext /\ UNCHANGED <<stream, app, peer>>
    \/ WriteReady \/ WritePending \/ WriteFails \/ WriteCancelled
    \/ \E n \in 1 .. MaxFrags : Send(n)
    \/ FlushStart \/ Query
    \/ \E n \in 1 .. 2 : ReadBuffered(n) \/ ReadMessage(n)
    \/ ReadEof \/ Recv
    \/ ShutdownStart \/ Close \/ CloseCancelled \/ Drop
    \/ Poll
    \/ \E d \in Datagram : Receive(d)
    \/ ReceiveFails \/ ListenerDropped \/ FeederStops \/ PeerReceives \/ PeerWrites

Spec == Init /\ [][Next]_vars

\* An arm of the select! is served when it stays ready and the arms before it
\* are, again and again, found with nothing to do; time passes.
Arm(A) == A /\ UNCHANGED <<stream, app, peer>>

NoCommand == cmd_rx = <<>> \/ actor.closing

\* The timer is set anew in every iteration, so it fires only in a pause.
Idle == NoCommand /\ input_rx = <<>>
        /\ (send_rx = <<>> \/ ~below_high_water \/ actor.send_closed)

ActorFairness ==
    /\ WF_vars(Arm(Start)) /\ WF_vars(Idle /\ Arm(Timer)) /\ WF_vars(Arm(DeadlinePasses))
    /\ WF_vars(Arm(FlushCmd \/ QueryCmd \/ CloseCmd))
    /\ WF_vars(Arm(AbsorbAll \/ BeginClosing))
    /\ SF_vars(NoCommand /\ Arm(Input \/ InputClosed))
    /\ SF_vars(NoCommand /\ input_rx = <<>> /\ Arm(Data \/ DataClosed))
    /\ WF_vars(actor.at = "absorb" /\ Arm(Data \/ DataFlush))

\* A call that is awaited is polled; the places of a channel are given out in
\* the order they were asked for.
AppFairness ==
    /\ SF_vars(FlushSend \/ FlushDone) /\ SF_vars(QuerySend \/ QueryDone)
    /\ SF_vars(ShutdownSend \/ ShutdownDone) /\ SF_vars(CloseSend \/ CloseReturn)
    /\ SF_vars(app.writing # 0 /\ (WriteReady \/ WriteFails))
    /\ WF_vars(\E n \in 1 .. 2 : ReadBuffered(n) \/ ReadMessage(n))
    /\ WF_vars(Recv)
    /\ WF_vars(FeederStops)

FairSpec == Spec /\ ActorFairness /\ AppFairness

\* The network and the peer do their part: what is retransmitted arrives, and so
\* do the peer's acknowledgements, its messages and an open window.  When it has
\* nothing to say it is silent.
NextDatagram ==
    [una |-> peer.got, sn |-> IF eng.rcv_nxt < peer.sent THEN eng.rcv_nxt + 1 ELSE 0, open |-> TRUE]

News == eng.una < peer.got \/ eng.rcv_nxt < peer.sent \/ ~eng.rmt_open

DeliverySpec == FairSpec /\ WF_vars(PeerReceives) /\ SF_vars(News /\ Receive(NextDatagram))

-----------------------------------------------------------------------------
(* Properties *)

Message == Seq(Nat)

Actors == [at : {"start", "select", "absorb", "close", "ended"}, closing : BOOLEAN,
           send_closed : BOOLEAN, overdue : BOOLEAN]

Engines == [out : Seq(Nat), una : Nat, nxt : Nat, wired : Nat, rmt_open : BOOLEAN,
            rcv_queue : Seq(Nat), rcv_nxt : Nat, acked : Nat]

Datagrams == [una : Nat, sn : Nat, open : BOOLEAN]

StreamStates == [closed : BOOLEAN, has_task : BOOLEAN, read_buf : Seq(Int), write : Message,
                 flush : {"none", "send", "wait"}, shutdown : {"none", "send", "wait"}]

AppStates == [call : {"none", "close_send", "close_wait", "query_send", "query_wait"},
              writing : Nat, offered : Nat, accepted : Seq(Nat), before_close : Int,
              got : Seq(Int), eof : BOOLEAN]

\* The channels hold what they are for and never more than their capacity, also
\* when the actor moves messages in bulk.
ChannelsOK ==
    /\ cmd_rx \in Seq({"flush", "query", "close"}) /\ Len(cmd_rx) <= CmdCap
    /\ send_rx \in Seq(Message) /\ Len(send_rx) <= SendCap
    /\ input_rx \in Seq(Datagrams) /\ Len(input_rx) <= InputCap
    /\ data_rx \in Seq(Nat) /\ Len(data_rx) <= DataCap

\* The type of the state, with the capacities of the channels.
TypeOK ==
    /\ actor \in Actors
    /\ eng \in Engines
    /\ ChannelsOK
    /\ reply \in [{"flush", "query"} -> {"none", "ok", "err"}]
    /\ feeder \in {"feeding", "idle", "gone"} /\ dropped \in BOOLEAN
    /\ stream \in StreamStates
    /\ app \in AppStates
    /\ peer \in [got : Nat, sent : Nat]

\* An actor that ends because everything is acknowledged leaves nothing behind:
\* all that was accepted before close(), shutdown() or drop has reached the peer,
\* wherever it was when the end was asked for.
GracefulEnd ==
    Gone /\ actor.closing /\ ~has_unsent_data(eng) =>
        IsPrefix(SubSeq(app.accepted, 1, app.before_close), SubSeq(eng.out, 1, peer.got))

\* What is accepted and not acknowledged is bounded as long as the stream is not
\* closing: the channel, the queue up to the high-water mark and one message, and
\* the window.
MemoryBounded ==
    actor.at \in {"select", "absorb"} /\ ~actor.closing =>
        /\ send_queue_len(eng) <= SendHighWater - 1 + MaxFrags
        /\ Len(app.accepted) - eng.una <=
              SendCap * MaxFrags + SendHighWater - 1 + MaxFrags + SndWnd

\* The messages the engine has accepted are, byte for byte and in order, those read,
\* those in the read buffer, those in the channel and those still in the engine.
InboundIntact ==
    LET at_hand == FlattenSeq([i \in 1 .. Len(data_rx) |-> bytes_of(data_rx[i])])
        queued  == FlattenSeq([i \in 1 .. Len(eng.rcv_queue) |-> bytes_of(eng.rcv_queue[i])])
    IN  ~dropped => app.got \o stream.read_buf \o at_hand \o queued
                      = [i \in 1 .. 2 * eng.rcv_nxt |-> i]

Outgoing == INSTANCE ReliableChannel
                WITH written <- app.accepted, read <- SubSeq(eng.out, 1, peer.got)
Incoming == INSTANCE ReliableChannel
                WITH written <- [i \in 1 .. 2 * peer.sent |-> i], read <- app.got

\* What the peer receives is what the application was told is written, once
\* and in order, through parked writes, the channel and the queue.
OutgoingReliable == Outgoing!Spec

\* What the application reads, in pieces of any size, is what the peer wrote.
IncomingReliable == Incoming!Spec

\* The comment on Drop promises that a closing actor goes on until the peer has
\* acknowledged everything or its deadline has passed.  There is one more way
\* out: the feeder ended, and the stream with its sender is dropped too.
\* (With DeadLink it may also find the connection lost.)
Lingers ==
    Gone /\ actor.closing /\ ~DeadLink =>
        ~has_unsent_data(eng) \/ actor.overdue \/ (feeder = "gone" /\ dropped)

\* What the README says: received data is never dropped after being acknowledged.
\* As long as the application has neither closed nor dropped the stream, it can
\* read every message the actor has acknowledged.
NeverDroppedAfterAck ==
    ~dropped /\ ~stream.closed /\ Gone =>
        2 * eng.acked <= Len(app.got) + Len(stream.read_buf) + 2 * Len(data_rx)

\* The end of the stream is final: once it is reported, nothing more is read,
\* although the actor may end and leave messages at any moment.
EofFinal == [][app.eof => app'.got = app.got]_vars

\* Asking for the end ends the actor and the task that reads its socket, whatever
\* the peer does: also by a drop after calls that were cancelled, when the command
\* channel is full, and when the feeder has failed.
EndsWhenAsked ==
    (app.before_close # NotYet)
        ~> ((Gone /\ feeder # "feeding") \/ app.before_close = NotYet)

\* Every call that holds the stream returns, and so does a flush, also when the actor
\* ends or begins to close, and serves no commands, before it has answered.
CallsReturn ==
    /\ (app.call # "none") ~> (app.call = "none")
    /\ (stream.flush # "none") ~> (stream.flush = "none" \/ stream.closed)

\* Every message of the peer is read in the end, also when the channel was full
\* when it came and nothing comes after it.
AllRead == \A k \in 1 .. MaxPeer : (peer.sent >= k) ~> (Len(app.got) >= 2 * k)

\* Every segment the application was told is written reaches the peer.
AllDelivered ==
    \A k \in 1 .. MaxWrites * MaxFrags : (Len(app.accepted) >= k) ~> (peer.got >= k)
==============================================================================
