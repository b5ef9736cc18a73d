--------------------------- MODULE KcpStreamProofs ---------------------------
(***************************************************************************)
(* Theorems about KcpStream, for every capacity, window, set of calls and  *)
(* way of failing.                                                         *)
(***************************************************************************)
EXTENDS KcpStream, SequenceTheorems, TLAPS

-----------------------------------------------------------------------------
(* The engine as its driver sees it *)

\* A part of a sequence.
LEMMA PartType ==
    ASSUME NEW S, NEW s \in Seq(S), NEW m \in Nat \ {0}, NEW n \in Nat, n <= Len(s)
    PROVE  SubSeq(s, m, n) \in Seq(S) /\ Len(SubSeq(s, m, n)) = IF m <= n THEN n - m + 1 ELSE 0
  <1>1. \A i \in m .. n : s[i] \in S BY ElementOfSeq
  <1> QED BY <1>1, SubSeqProperties

\* What a message does to the queue of segments.
LEMMA SendType ==
    ASSUME NEW e \in Engines, NEW msg \in Message PROVE engine_send(e, msg) \in Engines
  <1>1. e.out \o msg \in Seq(Nat) BY ConcatProperties DEF Engines, Message
  <1> QED BY <1>1 DEF engine_send, Engines

\* Moving segments to the send buffer.
LEMMA MovedType == ASSUME NEW e \in Engines PROVE moved(e) \in Engines
  <1>1. /\ e.una \in Nat /\ e.nxt \in Nat /\ Len(e.out) \in Nat /\ SndWnd \in Nat
    BY ActorAssumption, LenProperties DEF Engines
  <1>2. larger(e.nxt, smaller(Len(e.out), e.una + SndWnd)) \in Nat
    BY <1>1 DEF larger, smaller
  <1> HIDE DEF larger, smaller
  <1> QED BY <1>1, <1>2 DEF moved, Engines

\* A flush.
LEMMA FlushedType == ASSUME NEW e \in Engines PROVE flushed(e) \in Engines
  <1>1. moved(e) \in Engines BY MovedType
  <1>2. larger(moved(e).wired, moved(e).nxt) \in Nat BY <1>1 DEF larger, Engines
  <1>3. e.rcv_nxt \in Nat BY DEF Engines
  <1> QED BY <1>1, <1>2, <1>3 DEF flushed, Engines

\* A flush, failed or not.
LEMMA FlushType ==
    ASSUME NEW e \in Engines, NEW r \in flush(e)
    PROVE  r.eng \in Engines /\ r.ok \in BOOLEAN /\ (~DeadLink => r.ok)
  <1>1. \/ r = [ok |-> TRUE, eng |-> flushed(e)]
        \/ DeadLink /\ r = [ok |-> FALSE, eng |-> moved(e)]
    BY DEF flush
  <1>2. CASE r = [ok |-> TRUE, eng |-> flushed(e)] BY <1>2, FlushedType
  <1>3. CASE DeadLink /\ r = [ok |-> FALSE, eng |-> moved(e)] BY <1>3, MovedType
  <1> QED BY <1>1, <1>2, <1>3

\* A datagram.
LEMMA InputType ==
    ASSUME NEW e \in Engines, NEW d \in Datagrams PROVE input(e, d) \in Engines
  <1>1. larger(e.una, smaller(d.una, e.nxt)) \in Nat BY DEF larger, smaller, Engines, Datagrams
  <1>2. Append(e.rcv_queue, d.sn) \in Seq(Nat) BY AppendProperties DEF Engines, Datagrams
  <1>3. d.open \in BOOLEAN /\ d.sn \in Nat BY DEF Datagrams
  <1> QED BY <1>1, <1>2, <1>3 DEF input, Engines

\* Taking assembled messages out leaves the rest of the engine alone.
LEMMA DrainType ==
    ASSUME NEW e \in Engines, NEW n \in Nat, n <= Len(e.rcv_queue)
    PROVE  /\ drain_engine(e, n) \in Engines
           /\ has_unsent_data(drain_engine(e, n)) <=> has_unsent_data(e)
  <1>1. SubSeq(e.rcv_queue, n + 1, Len(e.rcv_queue)) \in Seq(Nat)
    BY PartType, LenProperties DEF Engines
  <1>2. drain_engine(e, n) \in Engines BY <1>1 DEF drain_engine, Engines
  <1>3. /\ drain_engine(e, n).out = e.out /\ drain_engine(e, n).una = e.una
        /\ drain_engine(e, n).nxt = e.nxt
    BY DEF drain_engine, Engines
  <1> QED BY <1>2, <1>3 DEF has_unsent_data, send_queue_len

-----------------------------------------------------------------------------
(* Type correctness *)

\* Handing messages over keeps the engine and the channel well typed and says
\* nothing about the outgoing side.
LEMMA DrainRecv ==
    ASSUME TypeOK, NEW e \in Engines, drain_recv(e)
    PROVE  /\ eng' \in Engines /\ data_rx' \in Seq(Nat) /\ Len(data_rx') <= DataCap
           /\ has_unsent_data(eng') <=> has_unsent_data(e)
  <1>1. Len(data_rx) \in Nat /\ Len(data_rx) <= DataCap /\ DataCap \in Nat /\ data_rx \in Seq(Nat)
    BY ActorAssumption, LenProperties DEF TypeOK, ChannelsOK
  <1>2. e.rcv_queue \in Seq(Nat) /\ Len(e.rcv_queue) \in Nat BY LenProperties DEF Engines
  <1>3. /\ drained(e) \in Nat /\ drained(e) <= DataCap - Len(data_rx)
        /\ drained(e) <= Len(e.rcv_queue)
    BY <1>1, <1>2 DEF drained, smaller
  <1> HIDE DEF drained
  <1>4. /\ SubSeq(e.rcv_queue, 1, drained(e)) \in Seq(Nat)
        /\ Len(SubSeq(e.rcv_queue, 1, drained(e))) = drained(e)
    BY <1>2, <1>3, PartType
  <1>5. /\ data_rx' \in Seq(Nat)
        /\ Len(data_rx') = Len(data_rx) + Len(SubSeq(e.rcv_queue, 1, drained(e)))
    BY <1>1, <1>4, ConcatProperties DEF drain_recv
  <1>6. Len(data_rx') <= DataCap BY <1>1, <1>3, <1>4, <1>5
  <1> QED BY <1>3, <1>5, <1>6, DrainType DEF drain_recv

\* Taking the first item of a channel.
LEMMA TakeType ==
    ASSUME NEW S, NEW s \in Seq(S), NEW n \in Nat, Len(s) <= n, s # <<>>
    PROVE  Head(s) \in S /\ Tail(s) \in Seq(S) /\ Len(Tail(s)) <= n
  BY HeadTailProperties, LenProperties

\* Putting an item into a channel that has room.
LEMMA PutType ==
    ASSUME NEW S, NEW s \in Seq(S), NEW n \in Nat, Len(s) < n, NEW x \in S
    PROVE  Append(s, x) \in Seq(S) /\ Len(Append(s, x)) <= n
  BY AppendProperties, LenProperties

\* The end of the actor.
LEMMA EndType ==
    ASSUME TypeOK, End
    PROVE  /\ actor' \in Actors /\ actor'.at = "ended" /\ actor'.closing = actor.closing
           /\ actor'.overdue = actor.overdue
           /\ cmd_rx' = <<>> /\ send_rx' = <<>> /\ input_rx' = <<>>
  BY DEF End, TypeOK, Actors

\* The capacities.
LEMMA Capacities ==
    /\ CmdCap \in Nat \ {0} /\ SendCap \in Nat \ {0} /\ InputCap \in Nat \ {0} /\ DataCap \in Nat \ {0}
  BY ActorAssumption

\* The channels of an actor that has ended.
LEMMA EndChannels ==
    ASSUME cmd_rx' = <<>>, send_rx' = <<>>, input_rx' = <<>>,
           data_rx' \in Seq(Nat), Len(data_rx') <= DataCap
    PROVE  ChannelsOK'
  <1>1. cmd_rx' \in Seq({"flush", "query", "close"}) /\ Len(cmd_rx') = 0 BY EmptySeq
  <1>2. send_rx' \in Seq(Message) /\ Len(send_rx') = 0 BY EmptySeq
  <1>3. input_rx' \in Seq(Datagrams) /\ Len(input_rx') = 0 BY EmptySeq
  <1> QED BY <1>1, <1>2, <1>3, Capacities DEF ChannelsOK

\* The actor's own steps leave the stream, the application and the peer alone.
Aside == UNCHANGED <<stream, app, peer>>

\* The steps before the loop.
LEMMA TypeStart == ASSUME TypeOK, Start, Aside PROVE TypeOK'
  <1>1. eng \in Engines /\ flushed(eng) \in Engines BY FlushedType DEF TypeOK
  <1>2. eng' \in Engines /\ data_rx' \in Seq(Nat) /\ Len(data_rx') <= DataCap
    BY <1>1, DrainRecv DEF Start
  <1>3. actor' \in Actors BY DEF Start, TypeOK, Actors
  <1> QED BY <1>2, <1>3 DEF Start, Aside, ends, TypeOK, ChannelsOK

\* The timer.
LEMMA TypeTimer == ASSUME TypeOK, Timer, Aside PROVE TypeOK'
  <1>1. eng \in Engines BY DEF TypeOK
  <1>2. CASE \E r \in flush(eng) :
               /\ r.ok
               /\ timer_drain(r.eng)
               /\ IF finished(r.eng) THEN End ELSE UNCHANGED <<actor, cmd_rx, send_rx, input_rx>>
    <2>1. PICK r \in flush(eng) :
               /\ timer_drain(r.eng)
               /\ IF finished(r.eng) THEN End ELSE UNCHANGED <<actor, cmd_rx, send_rx, input_rx>>
      BY <1>2
    <2>2. r.eng \in Engines BY <1>1, FlushType
    <2>3. eng' \in Engines /\ data_rx' \in Seq(Nat) /\ Len(data_rx') <= DataCap
      BY <2>1, <2>2, DrainRecv DEF timer_drain
    <2>4. CASE End
      <3>1. ChannelsOK' /\ actor' \in Actors BY <2>3, <2>4, EndType, EndChannels
      <3> QED BY <2>3, <3>1 DEF Timer, Aside, ends, TypeOK
    <2>5. CASE UNCHANGED <<actor, cmd_rx, send_rx, input_rx>>
      BY <2>3, <2>5 DEF Timer, Aside, ends, TypeOK, ChannelsOK
    <2> QED BY <2>1, <2>4, <2>5
  <1>3. CASE DeadLink /\ End /\ eng' = moved(eng) /\ UNCHANGED data_rx
    <2>1. eng' \in Engines BY <1>1, <1>3, MovedType
    <2>2. data_rx' \in Seq(Nat) /\ Len(data_rx') <= DataCap BY <1>3 DEF TypeOK, ChannelsOK
    <2>3. ChannelsOK' /\ actor' \in Actors BY <1>3, <2>2, EndType, EndChannels
    <2> QED BY <2>1, <2>3 DEF Timer, Aside, ends, TypeOK
  <1> QED BY <1>2, <1>3 DEF Timer

\* The commands.
LEMMA TypeCommands ==
    ASSUME TypeOK, FlushCmd \/ QueryCmd \/ CloseCmd, Aside PROVE TypeOK'
  <1>1. eng \in Engines /\ cmd_rx \in Seq({"flush", "query", "close"}) /\ Len(cmd_rx) <= CmdCap
    BY DEF TypeOK, ChannelsOK
  <1>2. cmd_rx # <<>> => Tail(cmd_rx) \in Seq({"flush", "query", "close"}) /\ Len(Tail(cmd_rx)) <= CmdCap
    BY <1>1, TakeType, Capacities
  <1>3. CASE FlushCmd
    <2>1. eng' \in Engines BY <1>1, <1>3, FlushType, FlushedType DEF FlushCmd
    <2>2. reply' \in [{"flush", "query"} -> {"none", "ok", "err"}] BY <1>3 DEF FlushCmd, TypeOK
    <2> QED BY <1>2, <1>3, <2>1, <2>2 DEF FlushCmd, Aside, TypeOK, ChannelsOK
  <1>4. CASE QueryCmd
    <2>1. reply' \in [{"flush", "query"} -> {"none", "ok", "err"}] BY <1>4 DEF QueryCmd, TypeOK
    <2> QED BY <1>2, <1>4, <2>1 DEF QueryCmd, Aside, TypeOK, ChannelsOK
  <1>5. CASE CloseCmd
    <2>1. actor' \in Actors BY <1>5 DEF CloseCmd, TypeOK, Actors
    <2>2. cmd_rx' \in Seq({"flush", "query", "close"}) /\ Len(cmd_rx') <= CmdCap
      BY <1>1, <1>2, <1>5 DEF CloseCmd
    <2> QED BY <1>5, <2>1, <2>2 DEF CloseCmd, Aside, ends, TypeOK, ChannelsOK
  <1> QED BY <1>3, <1>4, <1>5

\* A write is taken out of the channel.
LEMMA TakeWrite ==
    ASSUME TypeOK, send_rx # <<>>, eng' = engine_send(eng, Head(send_rx)), send_rx' = Tail(send_rx)
    PROVE  eng' \in Engines /\ send_rx' \in Seq(Message) /\ Len(send_rx') <= SendCap
  <1>1. send_rx \in Seq(Message) /\ Len(send_rx) <= SendCap /\ eng \in Engines
    BY DEF TypeOK, ChannelsOK
  <1>2. Head(send_rx) \in Message /\ Tail(send_rx) \in Seq(Message) /\ Len(Tail(send_rx)) <= SendCap
    BY <1>1, TakeType, Capacities
  <1> QED BY <1>1, <1>2, SendType

\* Closing begins.
LEMMA TypeClosing == ASSUME TypeOK, AbsorbAll \/ BeginClosing, Aside PROVE TypeOK'
  <1>1. CASE AbsorbAll
    BY <1>1, TakeWrite DEF AbsorbAll, Aside, ends, TypeOK, ChannelsOK
  <1>2. CASE BeginClosing
    <2>1. PICK r \in flush(eng) :
        /\ eng' = r.eng
        /\ actor' = [at |-> IF has_unsent_data(r.eng) THEN "select" ELSE "ended",
                     closing |-> TRUE, send_closed |-> TRUE, overdue |-> FALSE]
        /\ IF has_unsent_data(r.eng) THEN UNCHANGED <<cmd_rx, send_rx, input_rx>>
           ELSE cmd_rx' = <<>> /\ send_rx' = <<>> /\ input_rx' = <<>>
      BY <1>2 DEF BeginClosing
    <2>2. eng' \in Engines BY <2>1, FlushType DEF TypeOK
    <2>3. actor' \in Actors BY <2>1 DEF Actors
    <2>4. data_rx' \in Seq(Nat) /\ Len(data_rx') <= DataCap
      BY <1>2 DEF BeginClosing, TypeOK, ChannelsOK
    <2>5. ChannelsOK'
      <3>1. CASE has_unsent_data(r.eng)
        BY <1>2, <2>1, <2>4, <3>1 DEF TypeOK, ChannelsOK
      <3>2. CASE ~has_unsent_data(r.eng) BY <2>1, <2>4, <3>2, EndChannels
      <3> QED BY <3>1, <3>2
    <2> QED BY <1>2, <2>2, <2>3, <2>5 DEF BeginClosing, Aside, ends, TypeOK
  <1> QED BY <1>1, <1>2

\* A datagram, or no more of them.
LEMMA TypeInput == ASSUME TypeOK, Input \/ InputClosed, Aside PROVE TypeOK'
  <1>1. CASE Input
    <2>1. /\ input_rx \in Seq(Datagrams) /\ Len(input_rx) <= InputCap /\ input_rx # <<>>
          /\ eng \in Engines
      BY <1>1 DEF TypeOK, ChannelsOK, Input
    <2>2. /\ Head(input_rx) \in Datagrams /\ Tail(input_rx) \in Seq(Datagrams)
          /\ Len(Tail(input_rx)) <= InputCap
      BY <2>1, TakeType, Capacities
    <2>3. PICK r \in flush(input(eng, Head(input_rx))) :
        IF ~r.ok
        THEN End /\ eng' = r.eng /\ UNCHANGED data_rx
        ELSE /\ drain_recv(r.eng)
             /\ IF finished(r.eng) THEN End
                ELSE /\ input_rx' = Tail(input_rx)
                     /\ UNCHANGED <<actor, cmd_rx, send_rx>>
      BY <1>1 DEF Input
    <2>4. r.eng \in Engines BY <2>1, <2>2, InputType, FlushType
    <2>5. eng' \in Engines /\ data_rx' \in Seq(Nat) /\ Len(data_rx') <= DataCap
      <3>1. CASE ~r.ok BY <2>3, <2>4, <3>1 DEF TypeOK, ChannelsOK
      <3>2. CASE r.ok BY <2>3, <2>4, <3>2, DrainRecv
      <3> QED BY <3>1, <3>2
    <2>6. CASE End
      <3>1. ChannelsOK' /\ actor' \in Actors BY <2>5, <2>6, EndType, EndChannels
      <3> QED BY <1>1, <2>5, <3>1 DEF Input, Aside, ends, TypeOK
    <2>7. CASE input_rx' = Tail(input_rx) /\ UNCHANGED <<actor, cmd_rx, send_rx>>
      BY <1>1, <2>2, <2>5, <2>7 DEF Input, Aside, ends, TypeOK, ChannelsOK
    <2> QED BY <2>3, <2>6, <2>7
  <1>2. CASE InputClosed
    <2>1. data_rx' \in Seq(Nat) /\ Len(data_rx') <= DataCap
      BY <1>2 DEF InputClosed, TypeOK, ChannelsOK
    <2>2. ChannelsOK' /\ actor' \in Actors BY <1>2, <2>1, EndType, EndChannels DEF InputClosed
    <2> QED BY <1>2, <2>2 DEF InputClosed, Aside, ends, TypeOK
  <1> QED BY <1>1, <1>2

\* Writes.
LEMMA TypeData == ASSUME TypeOK, Data \/ DataFlush \/ DataClosed, Aside PROVE TypeOK'
  <1>1. CASE Data
    <2>1. actor' \in Actors BY <1>1 DEF Data, TypeOK, Actors
    <2> QED BY <1>1, <2>1, TakeWrite DEF Data, Aside, ends, TypeOK, ChannelsOK
  <1>2. CASE DataFlush
    <2>1. PICK r \in flush(eng) :
        /\ eng' = r.eng
        /\ IF r.ok
           THEN actor' = [actor EXCEPT !.at = "select"] /\ UNCHANGED <<cmd_rx, send_rx, input_rx>>
           ELSE End
      BY <1>2 DEF DataFlush
    <2>2. eng' \in Engines BY <2>1, FlushType DEF TypeOK
    <2>3. CASE End
      <3>1. data_rx' \in Seq(Nat) /\ Len(data_rx') <= DataCap
        BY <1>2 DEF DataFlush, TypeOK, ChannelsOK
      <3>2. ChannelsOK' /\ actor' \in Actors BY <2>3, <3>1, EndType, EndChannels
      <3> QED BY <1>2, <2>2, <3>2 DEF DataFlush, Aside, ends, TypeOK
    <2>4. CASE actor' = [actor EXCEPT !.at = "select"] /\ UNCHANGED <<cmd_rx, send_rx, input_rx>>
      <3>1. actor' \in Actors BY <2>4 DEF TypeOK, Actors
      <3> QED BY <1>2, <2>2, <2>4, <3>1 DEF DataFlush, Aside, ends, TypeOK, ChannelsOK
    <2> QED BY <2>1, <2>3, <2>4
  <1>3. CASE DataClosed
    <2>1. actor' \in Actors BY <1>3 DEF DataClosed, TypeOK, Actors
    <2> QED BY <1>3, <2>1 DEF DataClosed, Aside, ends, TypeOK, ChannelsOK
  <1> QED BY <1>1, <1>2, <1>3

\* A step of the actor keeps the state well typed.
LEMMA TypeActor == ASSUME TypeOK, ActorNext, Aside PROVE TypeOK'
  <1>1. CASE DeadlinePasses
    <2>1. actor' \in Actors BY <1>1 DEF DeadlinePasses, TypeOK, Actors
    <2> QED BY <1>1, <2>1 DEF DeadlinePasses, Aside, ends, TypeOK, ChannelsOK
  <1> QED BY <1>1, TypeStart, TypeTimer, TypeCommands, TypeClosing, TypeInput, TypeData
          DEF ActorNext

\* What a poll hands over is a message.
LEMMA HandedOverType == ASSUME TypeOK, NEW w \in Nat PROVE handed_over(w) \in Message
  <1>1. <<w>> \in Seq(Nat) OBVIOUS
  <1> QED BY <1>1 DEF handed_over, TypeOK, StreamStates, Message

\* Writing.
LEMMA TypeWrite ==
    ASSUME TypeOK, WriteReady \/ WritePending \/ WriteFails \/ WriteCancelled PROVE TypeOK'
  <1>1. /\ app.writing \in Nat /\ app.offered \in Nat /\ app.accepted \in Seq(Nat)
        /\ send_rx \in Seq(Message)
    BY DEF TypeOK, AppStates, ChannelsOK
  <1>2. current_write \in Nat BY <1>1 DEF current_write
  <1> HIDE DEF current_write
  <1>3. handed_over(current_write) \in Message BY <1>2, HandedOverType
  <1> HIDE DEF handed_over
  <1>4. <<>> \in Message BY EmptySeq DEF Message
  <1>5. CASE WriteReady
    <2>1. send_rx' \in Seq(Message) /\ Len(send_rx') <= SendCap
      BY <1>1, <1>3, <1>5, PutType, Capacities DEF WriteReady, Room
    <2>2. Append(app.accepted, current_write) \in Seq(Nat) BY <1>1, <1>2, AppendProperties
    <2>3. larger(app.offered, current_write) \in Nat BY <1>1, <1>2 DEF larger
    <2>4. app' \in AppStates BY <1>5, <2>2, <2>3 DEF WriteReady, TypeOK, AppStates
    <2>5. stream' \in StreamStates BY <1>4, <1>5 DEF WriteReady, TypeOK, StreamStates
    <2> QED BY <1>5, <2>1, <2>4, <2>5 DEF WriteReady, ends, TypeOK, ChannelsOK
  <1>6. CASE WritePending
    <2>1. stream' \in StreamStates BY <1>3, <1>6 DEF WritePending, TypeOK, StreamStates
    <2>2. app' \in AppStates BY <1>2, <1>6 DEF WritePending, TypeOK, AppStates
    <2> QED BY <1>6, <2>1, <2>2 DEF WritePending, actor_vars, ends, TypeOK, ChannelsOK
  <1>7. CASE WriteFails
    <2>1. stream' \in StreamStates BY <1>4, <1>7 DEF WriteFails, TypeOK, StreamStates
    <2>2. app' \in AppStates BY <1>7 DEF WriteFails, TypeOK, AppStates
    <2> QED BY <1>7, <2>1, <2>2 DEF WriteFails, actor_vars, ends, TypeOK, ChannelsOK
  <1>8. CASE WriteCancelled
    <2>1. app' \in AppStates BY <1>8 DEF WriteCancelled, TypeOK, AppStates
    <2> QED BY <1>8, <2>1 DEF WriteCancelled, actor_vars, ends, TypeOK, ChannelsOK
  <1> QED BY <1>5, <1>6, <1>7, <1>8

\* A message whose segments are all the same.
LEMMA SameSegments == ASSUME NEW n \in Nat, NEW x \in Nat PROVE [i \in 1 .. n |-> x] \in Seq(Nat)
  OBVIOUS

\* send().
LEMMA TypeSend == ASSUME TypeOK, NEW n \in 1 .. MaxFrags, Send(n) PROVE TypeOK'
  <1> DEFINE msg == [i \in 1 .. n |-> app.offered + 1]
  <1>1. app.offered \in Nat /\ app.accepted \in Seq(Nat) /\ send_rx \in Seq(Message)
    BY DEF TypeOK, AppStates, ChannelsOK
  <1>2. msg \in Message
    <2>1. n \in Nat /\ app.offered + 1 \in Nat BY <1>1, ActorAssumption
    <2> QED BY <2>1, SameSegments DEF Message
  <1> HIDE DEF msg
  <1>3. send_rx' = Append(send_rx, msg) /\ app' = [app EXCEPT !.offered = @ + 1, !.accepted = @ \o msg]
    BY DEF Send, msg
  <1>4. send_rx' \in Seq(Message) /\ Len(send_rx') <= SendCap
    BY <1>1, <1>2, <1>3, PutType, Capacities DEF Send, Room
  <1> DEFINE all  == app.accepted \o msg
             next == app.offered + 1
  <1>5. all \in Seq(Nat) BY <1>1, <1>2, ConcatProperties DEF Message
  <1>6. next \in Nat /\ app' = [app EXCEPT !.offered = next, !.accepted = all] BY <1>1, <1>3
  <1> HIDE DEF all, next
  <1>7. app' \in AppStates BY <1>1, <1>5, <1>6 DEF TypeOK, AppStates
  <1> QED BY <1>4, <1>7 DEF Send, ends, TypeOK, ChannelsOK

\* A command is sent.
LEMMA SendsType ==
    ASSUME TypeOK, NEW c \in {"flush", "query", "close"}, Sends(c)
    PROVE  cmd_rx' \in Seq({"flush", "query", "close"}) /\ Len(cmd_rx') <= CmdCap
  <1>1. cmd_rx \in Seq({"flush", "query", "close"}) /\ Len(cmd_rx) <= CmdCap
    BY DEF TypeOK, ChannelsOK
  <1> QED BY <1>1, PutType, Capacities DEF Sends

\* Flushes and queries.
LEMMA TypeFlush ==
    ASSUME TypeOK,
           FlushStart \/ FlushSend \/ FlushDone \/ Query \/ QuerySend \/ QueryDone
    PROVE  TypeOK'
  <1>1. CASE FlushStart
    <2>1. stream' \in StreamStates BY <1>1 DEF FlushStart, TypeOK, StreamStates
    <2> QED BY <1>1, <2>1 DEF FlushStart, actor_vars, ends, TypeOK, ChannelsOK
  <1>2. CASE FlushSend
    <2>1. stream' \in StreamStates BY <1>2 DEF FlushSend, TypeOK, StreamStates
    <2>2. reply' \in [{"flush", "query"} -> {"none", "ok", "err"}] BY <1>2 DEF FlushSend, TypeOK
    <2>3. cmd_rx' \in Seq({"flush", "query", "close"}) /\ Len(cmd_rx') <= CmdCap
      BY <1>2, SendsType DEF FlushSend
    <2> QED BY <1>2, <2>1, <2>2, <2>3 DEF FlushSend, TypeOK, ChannelsOK
  <1>3. CASE FlushDone
    <2>1. stream' \in StreamStates BY <1>3 DEF FlushDone, TypeOK, StreamStates
    <2> QED BY <1>3, <2>1 DEF FlushDone, actor_vars, ends, TypeOK, ChannelsOK
  <1>4. CASE Query
    <2>1. app' \in AppStates BY <1>4 DEF Query, TypeOK, AppStates
    <2> QED BY <1>4, <2>1 DEF Query, actor_vars, ends, TypeOK, ChannelsOK
  <1>5. CASE QuerySend
    <2>1. app' \in AppStates BY <1>5 DEF QuerySend, TypeOK, AppStates
    <2>2. reply' \in [{"flush", "query"} -> {"none", "ok", "err"}] BY <1>5 DEF QuerySend, TypeOK
    <2>3. cmd_rx' \in Seq({"flush", "query", "close"}) /\ Len(cmd_rx') <= CmdCap
      BY <1>5, SendsType DEF QuerySend
    <2> QED BY <1>5, <2>1, <2>2, <2>3 DEF QuerySend, TypeOK, ChannelsOK
  <1>6. CASE QueryDone
    <2>1. app' \in AppStates BY <1>6 DEF QueryDone, TypeOK, AppStates
    <2> QED BY <1>6, <2>1 DEF QueryDone, actor_vars, ends, TypeOK, ChannelsOK
  <1> QED BY <1>1, <1>2, <1>3, <1>4, <1>5, <1>6

\* A read of at most n bytes.
LEMMA ReadsType ==
    ASSUME TypeOK, NEW b \in Seq(Int), NEW n \in 1 .. 2, Reads(b, n)
    PROVE  stream' \in StreamStates /\ app' \in AppStates
  <1>1. Len(b) \in Nat BY LenProperties
  <1>2. smaller(n, Len(b)) \in Nat /\ smaller(n, Len(b)) <= Len(b) BY <1>1 DEF smaller
  <1>3. read_from(b, n).read \in Seq(Int) /\ read_from(b, n).left \in Seq(Int)
    <2>1. SubSeq(b, 1, smaller(n, Len(b))) \in Seq(Int) BY <1>1, <1>2, PartType
    <2>2. smaller(n, Len(b)) + 1 \in Nat \ {0} BY <1>2
    <2>3. SubSeq(b, smaller(n, Len(b)) + 1, Len(b)) \in Seq(Int) BY <1>1, <2>2, PartType
    <2> QED BY <2>1, <2>3 DEF read_from
  <1> HIDE DEF read_from
  <1>4. app.got \o read_from(b, n).read \in Seq(Int)
    BY <1>3, ConcatProperties DEF TypeOK, AppStates
  <1>5. stream' \in StreamStates BY <1>3 DEF Reads, TypeOK, StreamStates
  <1> QED BY <1>4, <1>5 DEF Reads, TypeOK, AppStates

\* Reading.
LEMMA TypeRead ==
    ASSUME TypeOK,
           (\E n \in 1 .. 2 : ReadBuffered(n) \/ ReadMessage(n)) \/ ReadEof \/ Recv
    PROVE  TypeOK'
  <1>1. data_rx \in Seq(Nat) /\ Len(data_rx) <= DataCap BY DEF TypeOK, ChannelsOK
  <1>2. data_rx # <<>> => /\ Head(data_rx) \in Nat
                          /\ Tail(data_rx) \in Seq(Nat) /\ Len(Tail(data_rx)) <= DataCap
    BY <1>1, TakeType, Capacities
  <1>3. ASSUME NEW k \in Nat PROVE bytes_of(k) \in Seq(Int) BY DEF bytes_of
  <1>4. CASE \E n \in 1 .. 2 : ReadBuffered(n)
    <2>1. PICK n \in 1 .. 2 : ReadBuffered(n) BY <1>4
    <2>2. stream.read_buf \in Seq(Int) BY DEF TypeOK, StreamStates
    <2>3. stream' \in StreamStates /\ app' \in AppStates
      BY <2>1, <2>2, ReadsType DEF ReadBuffered
    <2> QED BY <2>1, <2>3 DEF ReadBuffered, actor_vars, ends, TypeOK, ChannelsOK
  <1>5. CASE ReadEof
    <2>1. app' \in AppStates BY <1>5 DEF ReadEof, TypeOK, AppStates
    <2> QED BY <1>5, <2>1 DEF ReadEof, actor_vars, ends, TypeOK, ChannelsOK
  <1>6. CASE \E n \in 1 .. 2 : ReadMessage(n)
    <2>1. PICK n \in 1 .. 2 : ReadMessage(n) BY <1>6
    <2>2. data_rx # <<>> /\ data_rx' = Tail(data_rx) BY <2>1 DEF ReadMessage
    <2>3. bytes_of(Head(data_rx)) \in Seq(Int) BY <1>2, <1>3, <2>2
    <2>4. stream' \in StreamStates /\ app' \in AppStates
      BY <2>1, <2>3, ReadsType DEF ReadMessage
    <2> QED BY <1>2, <2>1, <2>2, <2>4 DEF ReadMessage, ends, TypeOK, ChannelsOK
  <1>7. CASE Recv
    <2>1. data_rx # <<>> /\ data_rx' = Tail(data_rx) BY <1>7 DEF Recv
    <2>2. app.got \o bytes_of(Head(data_rx)) \in Seq(Int)
      BY <1>2, <1>3, <2>1, ConcatProperties DEF TypeOK, AppStates
    <2>3. app' \in AppStates BY <1>7, <2>2 DEF Recv, TypeOK, AppStates
    <2> QED BY <1>2, <1>7, <2>1, <2>3 DEF Recv, ends, TypeOK, ChannelsOK
  <1> QED BY <1>4, <1>5, <1>6, <1>7

\* The application asks for the end.
LEMMA AskedType == ASSUME TypeOK PROVE asked \in AppStates
  <1>1. Len(app.accepted) \in Int BY LenProperties DEF TypeOK, AppStates
  <1> QED BY <1>1 DEF asked, TypeOK, AppStates

\* Shutdown, close and drop.
LEMMA TypeClose ==
    ASSUME TypeOK,
           \/ ShutdownStart \/ ShutdownSend \/ ShutdownDone
           \/ Close \/ CloseSend \/ CloseReturn \/ CloseCancelled \/ Drop
    PROVE  TypeOK'
  <1>1. asked \in AppStates BY AskedType
  <1> HIDE DEF asked
  <1>2. CASE ShutdownStart
    <2>1. stream' \in StreamStates BY <1>2 DEF ShutdownStart, TypeOK, StreamStates
    <2> QED BY <1>1, <1>2, <2>1 DEF ShutdownStart, actor_vars, ends, TypeOK, ChannelsOK
  <1>3. CASE ShutdownSend
    <2>1. stream' \in StreamStates BY <1>3 DEF ShutdownSend, TypeOK, StreamStates
    <2>2. cmd_rx' \in Seq({"flush", "query", "close"}) /\ Len(cmd_rx') <= CmdCap
      BY <1>3, SendsType DEF ShutdownSend
    <2> QED BY <1>3, <2>1, <2>2 DEF ShutdownSend, ends, TypeOK, ChannelsOK
  <1>4. CASE ShutdownDone
    <2>1. stream' \in StreamStates BY <1>4 DEF ShutdownDone, TypeOK, StreamStates
    <2> QED BY <1>4, <2>1 DEF ShutdownDone, actor_vars, ends, TypeOK, ChannelsOK
  <1>5. CASE Close
    <2>1. stream' \in StreamStates BY <1>5 DEF Close, TypeOK, StreamStates
    <2>2. app' \in AppStates BY <1>1, <1>5 DEF Close, AppStates
    <2> QED BY <1>5, <2>1, <2>2 DEF Close, actor_vars, ends, TypeOK, ChannelsOK
  <1>6. CASE CloseSend
    <2>1. stream' \in StreamStates BY <1>6 DEF CloseSend, TypeOK, StreamStates
    <2>2. cmd_rx' \in Seq({"flush", "query", "close"}) /\ Len(cmd_rx') <= CmdCap
      BY <1>6, SendsType DEF CloseSend
    <2>3. app' \in AppStates BY <1>6, ZenonT(30) DEF CloseSend, TypeOK, AppStates
    <2>4. feeder' \in {"feeding", "idle", "gone"} BY <1>6 DEF CloseSend, abort_tasks, TypeOK
    <2> QED BY <1>6, <2>1, <2>2, <2>3, <2>4 DEF CloseSend, TypeOK, ChannelsOK
  <1>7. CASE CloseReturn
    <2>1. app' \in AppStates BY <1>7 DEF CloseReturn, TypeOK, AppStates
    <2>2. feeder' \in {"feeding", "idle", "gone"} BY <1>7 DEF CloseReturn, abort_tasks, TypeOK
    <2> QED BY <1>7, <2>1, <2>2 DEF CloseReturn, TypeOK, ChannelsOK
  <1>8. CASE CloseCancelled
    <2>1. NotYet \in Int BY DEF NotYet
    <2>2. app' \in AppStates BY <1>8, <2>1 DEF CloseCancelled, TypeOK, AppStates
    <2> QED BY <1>8, <2>2 DEF CloseCancelled, actor_vars, ends, TypeOK, ChannelsOK
  <1>9. CASE Drop
    <2>1. <<>> \in Message /\ <<>> \in Seq(Nat) /\ Len(<<>>) = 0 BY EmptySeq DEF Message
    <2>2. stream' \in StreamStates BY <1>9, <2>1 DEF Drop, TypeOK, StreamStates
    <2>3. app' \in AppStates BY <1>1, <1>9 DEF Drop, AppStates
    <2>4. cmd_rx' \in Seq({"flush", "query", "close"}) /\ Len(cmd_rx') <= CmdCap
      <3>1. cmd_rx \in Seq({"flush", "query", "close"}) /\ Len(cmd_rx) <= CmdCap
        BY DEF TypeOK, ChannelsOK
      <3> QED BY <1>9, <3>1, PutType, Capacities DEF Drop
    <2>5. data_rx' \in Seq(Nat) /\ Len(data_rx') <= DataCap BY <1>9, <2>1, Capacities DEF Drop
    <2>6. ChannelsOK' BY <1>9, <2>4, <2>5 DEF Drop, TypeOK, ChannelsOK
    <2> QED BY <1>9, <2>2, <2>3, <2>6 DEF Drop, TypeOK
  <1> QED BY <1>2, <1>3, <1>4, <1>5, <1>6, <1>7, <1>8, <1>9

\* The feeder and the peer.
LEMMA TypeWorld ==
    ASSUME TypeOK,
           \/ \E d \in Datagram : Receive(d)
           \/ ReceiveFails \/ ListenerDropped \/ FeederStops \/ PeerReceives \/ PeerWrites
    PROVE  TypeOK'
  <1>1. CASE \E d \in Datagram : Receive(d)
    <2>1. PICK d \in Datagram : Receive(d) BY <1>1
    <2>2. peer.got \in Nat /\ peer.sent \in Nat /\ eng.acked \in Nat BY DEF TypeOK, Engines
    <2>3. d \in Datagrams BY <2>2 DEF Datagram, Datagrams
    <2>4. input_rx \in Seq(Datagrams) BY DEF TypeOK, ChannelsOK
    <2>5. input_rx' \in Seq(Datagrams) /\ Len(input_rx') <= InputCap
      BY <2>1, <2>3, <2>4, PutType, Capacities DEF Receive
    <2> QED BY <2>1, <2>5 DEF Receive, ends, TypeOK, ChannelsOK
  <1>2. CASE ReceiveFails BY <1>2 DEF ReceiveFails, TypeOK, ChannelsOK
  <1>3. CASE ListenerDropped BY <1>3 DEF ListenerDropped, TypeOK, ChannelsOK
  <1>4. CASE FeederStops BY <1>4 DEF FeederStops, TypeOK, ChannelsOK
  <1>5. CASE PeerReceives
    <2>1. peer' \in [got : Nat, sent : Nat] BY <1>5 DEF PeerReceives, TypeOK
    <2> QED BY <1>5, <2>1 DEF PeerReceives, actor_vars, ends, TypeOK, ChannelsOK
  <1>6. CASE PeerWrites
    <2>1. peer' \in [got : Nat, sent : Nat] BY <1>6 DEF PeerWrites, TypeOK
    <2> QED BY <1>6, <2>1 DEF PeerWrites, actor_vars, ends, TypeOK, ChannelsOK
  <1> QED BY <1>1, <1>2, <1>3, <1>4, <1>5, <1>6

\* A new stream is well typed.
LEMMA TypeInit == Init => TypeOK
  <1> SUFFICES ASSUME NEW n \in {0, 1}, Established(n) PROVE TypeOK
    BY DEF Init, new_with_conv, new_server_stream
  <1>1. [k \in 1 .. n |-> k] \in Seq(Nat) /\ Len([k \in 1 .. n |-> k]) \in Nat OBVIOUS
  <1>2. <<>> \in Seq(Nat) /\ <<>> \in Message /\ <<>> \in Seq(Int) BY EmptySeq DEF Message
  <1>3. eng \in Engines BY <1>1, <1>2 DEF Established, new_engine, Engines
  <1>4. actor \in Actors BY DEF Established, Actors
  <1>5. stream \in StreamStates BY <1>2 DEF Established, StreamStates
  <1>6. app \in AppStates BY <1>2 DEF Established, AppStates, NotYet
  <1>7. ChannelsOK
    <2>1. cmd_rx \in Seq({"flush", "query", "close"}) /\ Len(cmd_rx) = 0 BY EmptySeq DEF Established
    <2>2. send_rx \in Seq(Message) /\ Len(send_rx) = 0 BY EmptySeq DEF Established
    <2>3. input_rx \in Seq(Datagrams) /\ Len(input_rx) = 0 BY EmptySeq DEF Established
    <2>4. data_rx \in Seq(Nat) /\ Len(data_rx) = 0 BY EmptySeq DEF Established
    <2> QED BY <2>1, <2>2, <2>3, <2>4, Capacities DEF ChannelsOK
  <1>8. peer \in [got : Nat, sent : Nat] BY DEF Established
  <1> QED BY <1>3, <1>4, <1>5, <1>6, <1>7, <1>8 DEF Established, TypeOK

\* Every step keeps the state well typed.
LEMMA TypeNext == TypeOK /\ [Next]_vars => TypeOK'
  <1> SUFFICES ASSUME TypeOK, [Next]_vars PROVE TypeOK' OBVIOUS
  <1>1. CASE UNCHANGED vars BY <1>1 DEF vars, actor_vars, ends, TypeOK, ChannelsOK
  <1>2. CASE ActorNext /\ UNCHANGED <<stream, app, peer>> BY <1>2, TypeActor DEF Aside
  <1>3. CASE Poll BY <1>3, TypeFlush, TypeClose DEF Poll
  <1> QED BY <1>1, <1>2, <1>3, TypeWrite, TypeSend, TypeFlush, TypeRead, TypeClose, TypeWorld DEF Next

\* The channels between stream, actor and feeder never hold more than their
\* capacity, and every record keeps its type, whatever the calls, the failures and
\* the order of the actor's arms: drain_recv hands over in bulk, and Drop, close()
\* and the feeder add to channels that the actor empties at its own pace.
THEOREM TypeCorrect == Spec => []TypeOK
  BY TypeInit, TypeNext, PTL DEF Spec

-----------------------------------------------------------------------------
(* The closing actor lingers *)

\* An actor that ends while closing has its reasons: the engine is drained, the
\* deadline has passed, or nobody can feed it any more.
LEMMA LingersActor == ASSUME TypeOK, Lingers, ActorNext, Aside PROVE Lingers'
  <1> SUFFICES ASSUME ~DeadLink, Gone', actor'.closing
               PROVE  has_unsent_data(eng') => actor'.overdue \/ (feeder' = "gone" /\ dropped')
    BY DEF Lingers
  <1>1. actor \in Actors /\ eng \in Engines BY DEF TypeOK
  <1>2. ASSUME NEW e \in Engines, drain_recv(e), finished(e), End
        PROVE  has_unsent_data(eng') => actor'.overdue
    BY <1>2, DrainRecv, EndType DEF finished
  <1>3. CASE Timer
    <2>1. PICK r \in flush(eng) :
             /\ timer_drain(r.eng)
             /\ IF finished(r.eng) THEN End ELSE UNCHANGED <<actor, cmd_rx, send_rx, input_rx>>
      BY <1>3 DEF Timer
    <2>2. r.eng \in Engines BY <1>1, FlushType
    <2>3. finished(r.eng) BY <1>3, <2>1 DEF Timer, Gone
    <2> QED BY <1>2, <2>1, <2>2, <2>3 DEF timer_drain
  <1>4. CASE BeginClosing BY <1>4 DEF BeginClosing, Gone
  <1>5. CASE Input
    <2>1. /\ input_rx \in Seq(Datagrams) /\ Len(input_rx) <= InputCap /\ input_rx # <<>>
      BY <1>5 DEF TypeOK, ChannelsOK, Input
    <2>2. Head(input_rx) \in Datagrams BY <2>1, TakeType, Capacities
    <2>3. input(eng, Head(input_rx)) \in Engines BY <1>1, <2>2, InputType
    <2>4. PICK r \in flush(input(eng, Head(input_rx))) :
        IF ~r.ok
        THEN End /\ eng' = r.eng /\ UNCHANGED data_rx
        ELSE /\ drain_recv(r.eng)
             /\ IF finished(r.eng) THEN End
                ELSE /\ input_rx' = Tail(input_rx)
                     /\ UNCHANGED <<actor, cmd_rx, send_rx>>
      BY <1>5 DEF Input
    <2>5. r.eng \in Engines /\ r.ok BY <2>3, FlushType
    <2>6. finished(r.eng) BY <1>5, <2>4, <2>5 DEF Input, Gone
    <2> QED BY <1>2, <2>4, <2>5, <2>6
  <1>6. CASE InputClosed BY <1>6 DEF InputClosed, input_closed, ends
  <1>7. CASE DataFlush
    <2>1. PICK r \in flush(eng) :
           IF r.ok THEN actor' = [actor EXCEPT !.at = "select"] ELSE End
      BY <1>7 DEF DataFlush
    <2>2. r.ok BY <1>1, FlushType
    <2> QED BY <1>1, <2>1, <2>2 DEF Gone, Actors
  <1>8. CASE Start \/ FlushCmd \/ QueryCmd \/ CloseCmd \/ AbsorbAll \/ Data \/ DataClosed \/ DeadlinePasses
    <2>1. actor'.at # "ended"
      BY <1>1, <1>8 DEF Start, FlushCmd, QueryCmd, CloseCmd, AbsorbAll, Data, DataClosed,
                        DeadlinePasses, Actors
    <2> QED BY <2>1 DEF Gone
  <1> QED BY <1>3, <1>4, <1>5, <1>6, <1>7, <1>8 DEF ActorNext

\* What the others do leaves an actor that has ended as it is, its feeder gone and
\* its stream dropped.
LEMMA OthersLeave ==
    ASSUME Next, ~(ActorNext /\ Aside)
    PROVE  /\ UNCHANGED <<actor, eng>>
           /\ feeder = "gone" => feeder' = "gone"
           /\ dropped => dropped'
  <1>1. CASE WriteReady \/ WritePending \/ WriteFails \/ WriteCancelled
    BY <1>1 DEF WriteReady, WritePending, WriteFails, WriteCancelled, actor_vars, ends
  <1>2. CASE \E n \in 1 .. MaxFrags : Send(n) BY <1>2 DEF Send, ends
  <1>3. CASE FlushStart \/ FlushDone \/ Query \/ QueryDone
    BY <1>3 DEF FlushStart, FlushDone, Query, QueryDone, actor_vars, ends
  <1>4. CASE (\E n \in 1 .. 2 : ReadBuffered(n) \/ ReadMessage(n)) \/ ReadEof \/ Recv
    <2>1. CASE \E n \in 1 .. 2 : ReadBuffered(n) BY <2>1 DEF ReadBuffered, actor_vars, ends
    <2>2. CASE \E n \in 1 .. 2 : ReadMessage(n) BY <2>2 DEF ReadMessage, ends
    <2>3. CASE ReadEof BY <2>3 DEF ReadEof, actor_vars, ends
    <2>4. CASE Recv BY <2>4 DEF Recv, ends
    <2> QED BY <1>4, <2>1, <2>2, <2>3, <2>4
  <1>5. CASE ShutdownStart \/ ShutdownSend \/ ShutdownDone \/ Close \/ CloseCancelled \/ Drop
    BY <1>5 DEF ShutdownStart, ShutdownSend, ShutdownDone, Close, CloseCancelled, Drop, actor_vars, ends
  <1>6. CASE CloseSend BY <1>6 DEF CloseSend, abort_tasks
  <1>7. CASE CloseReturn BY <1>7 DEF CloseReturn, abort_tasks
  <1>8. CASE \E d \in Datagram : Receive(d) BY <1>8 DEF Receive, ends
  <1>9. CASE ReceiveFails \/ ListenerDropped \/ FeederStops \/ PeerReceives \/ PeerWrites
    BY <1>9 DEF ReceiveFails, ListenerDropped, FeederStops, PeerReceives, PeerWrites, actor_vars, ends
  <1>10. CASE FlushSend BY <1>10 DEF FlushSend
  <1>11. CASE QuerySend BY <1>11 DEF QuerySend
  <1> QED BY <1>1, <1>2, <1>3, <1>4, <1>5, <1>6, <1>7, <1>8, <1>9, <1>10, <1>11 DEF Next, Poll, Aside

\* The promise of Drop's comment, exactly as far as the code keeps it: whatever the
\* calls and the order of the arms, an actor that is closing ends only when everything
\* is acknowledged, when its deadline has passed, or when feeder and stream are
\* both gone, unless it finds the connection lost.
THEOREM LingersAlways == Spec => []Lingers
  <1>1. Init => Lingers BY DEF Init, new_with_conv, new_server_stream, Established, Lingers, Gone
  <1>2. TypeOK /\ Lingers /\ [Next]_vars => Lingers'
    <2> SUFFICES ASSUME TypeOK, Lingers, [Next]_vars PROVE Lingers' OBVIOUS
    <2>1. CASE UNCHANGED vars
      BY <2>1 DEF vars, actor_vars, ends, Lingers, Gone, has_unsent_data, send_queue_len
    <2>2. CASE ActorNext /\ Aside BY <2>2, LingersActor
    <2>3. CASE Next /\ ~(ActorNext /\ Aside)
      BY <2>3, OthersLeave DEF Lingers, Gone, has_unsent_data, send_queue_len
    <2> QED BY <2>1, <2>2, <2>3
  <1> QED BY <1>1, <1>2, TypeCorrect, PTL DEF Spec

-----------------------------------------------------------------------------
(* The end of the stream is final *)

\* After the end was reported the stream is at its end, and a reader of bytes has
\* nothing left in its buffer.
EofInv == app.eof => at_end /\ ("read" \in Calls => stream.read_buf = <<>>)

\* An actor that has ended takes no step.
LEMMA GoneStops == ASSUME Gone PROVE ~ActorNext
  BY DEF Gone, ActorNext, Start, Timer, FlushCmd, QueryCmd, CloseCmd, AbsorbAll, BeginClosing, Input,
         InputClosed, Data, DataFlush, DataClosed, DeadlinePasses

\* What a step that neither reads nor belongs to the actor leaves.
OutsideReading ==
    /\ app'.eof = app.eof /\ app'.got = app.got
    /\ stream'.read_buf = stream.read_buf
    /\ stream.closed => stream'.closed
    /\ data_rx = <<>> => data_rx' = <<>>
    /\ UNCHANGED actor

\* Writing, flushing and querying do not touch the reading side.
LEMMA CallsOutside ==
    ASSUME TypeOK,
           \/ WriteReady \/ WritePending \/ WriteFails \/ WriteCancelled
           \/ \E n \in 1 .. MaxFrags : Send(n)
           \/ FlushStart \/ FlushSend \/ FlushDone \/ Query \/ QuerySend \/ QueryDone
    PROVE  OutsideReading
  <1>1. stream \in StreamStates /\ app \in AppStates BY DEF TypeOK
  <1>2. CASE WriteReady BY <1>1, <1>2 DEF WriteReady, OutsideReading, StreamStates, AppStates
  <1>3. CASE WritePending
    BY <1>1, <1>3 DEF WritePending, OutsideReading, StreamStates, AppStates, actor_vars
  <1>4. CASE WriteFails
    BY <1>1, <1>4 DEF WriteFails, OutsideReading, StreamStates, AppStates, actor_vars
  <1>5. CASE WriteCancelled
    BY <1>1, <1>5 DEF WriteCancelled, OutsideReading, AppStates, actor_vars
  <1>6. CASE \E n \in 1 .. MaxFrags : Send(n) BY <1>1, <1>6 DEF Send, OutsideReading, AppStates
  <1>7. CASE FlushStart \/ FlushDone
    BY <1>1, <1>7 DEF FlushStart, FlushDone, OutsideReading, StreamStates, actor_vars
  <1>8. CASE FlushSend BY <1>1, <1>8 DEF FlushSend, OutsideReading, StreamStates
  <1>9. CASE Query \/ QueryDone
    BY <1>1, <1>9 DEF Query, QueryDone, OutsideReading, AppStates, actor_vars
  <1>10. CASE QuerySend BY <1>1, <1>10 DEF QuerySend, OutsideReading, AppStates
  <1> QED BY <1>2, <1>3, <1>4, <1>5, <1>6, <1>7, <1>8, <1>9, <1>10

\* Closing sets the flag and takes nothing from the read buffer.
LEMMA CloseOutside ==
    ASSUME TypeOK,
           \/ ShutdownStart \/ ShutdownSend \/ ShutdownDone
           \/ Close \/ CloseSend \/ CloseReturn \/ CloseCancelled \/ Drop
    PROVE  OutsideReading
  <1>1. stream \in StreamStates /\ app \in AppStates BY DEF TypeOK
  <1>2. asked.eof = app.eof /\ asked.got = app.got /\ asked \in AppStates
    BY <1>1, AskedType DEF asked, AppStates
  <1> HIDE DEF asked
  <1>3. CASE ShutdownStart
    BY <1>1, <1>2, <1>3 DEF ShutdownStart, OutsideReading, StreamStates, actor_vars
  <1>4. CASE ShutdownSend BY <1>1, <1>4 DEF ShutdownSend, OutsideReading, StreamStates
  <1>5. CASE ShutdownDone BY <1>1, <1>5 DEF ShutdownDone, OutsideReading, StreamStates, actor_vars
  <1>6. CASE Close
    BY <1>1, <1>2, <1>6 DEF Close, OutsideReading, StreamStates, AppStates, actor_vars
  <1>7. CASE CloseSend BY <1>1, <1>7 DEF CloseSend, OutsideReading, StreamStates, AppStates
  <1>8. CASE CloseReturn BY <1>1, <1>8 DEF CloseReturn, OutsideReading, AppStates
  <1>9. CASE CloseCancelled BY <1>1, <1>9 DEF CloseCancelled, OutsideReading, AppStates, actor_vars
  <1>10. CASE Drop BY <1>1, <1>2, <1>10 DEF Drop, OutsideReading, StreamStates, AppStates
  <1> QED BY <1>3, <1>4, <1>5, <1>6, <1>7, <1>8, <1>9, <1>10

\* Nor do the feeder and the peer.
LEMMA WorldOutside ==
    ASSUME \/ \E d \in Datagram : Receive(d)
           \/ ReceiveFails \/ ListenerDropped \/ FeederStops \/ PeerReceives \/ PeerWrites
    PROVE  OutsideReading
  BY DEF Receive, ReceiveFails, ListenerDropped, FeederStops, PeerReceives, PeerWrites,
         OutsideReading, actor_vars

\* A step keeps the invariant and reads nothing after the end.
LEMMA EofStep ==
    ASSUME ~({"read", "recv"} \subseteq Calls), TypeOK, EofInv, Next
    PROVE  EofInv' /\ (app.eof => app'.got = app.got)
  <1>1. stream \in StreamStates /\ app \in AppStates BY DEF TypeOK
  <1>2. CASE OutsideReading BY <1>2 DEF OutsideReading, EofInv, at_end, Gone
  <1>3. CASE ActorNext /\ Aside
    BY <1>3, GoneStops DEF EofInv, at_end, Aside
  <1>4. CASE ReadEof
    <2>1. app'.eof /\ app'.got = app.got /\ at_end /\ UNCHANGED <<actor, data_rx, stream>>
      BY <1>1, <1>4 DEF ReadEof, AppStates, actor_vars
    <2>2. "read" \in Calls => stream.read_buf = <<>> BY <1>4 DEF ReadEof
    <2> QED BY <2>1, <2>2 DEF EofInv, at_end, Gone
  <1>5. CASE \E n \in 1 .. 2 : ReadBuffered(n)
    <2>1. ~app.eof BY <1>5 DEF ReadBuffered, EofInv
    <2>2. app'.eof = app.eof BY <1>1, <1>5 DEF ReadBuffered, Reads, AppStates
    <2> QED BY <2>1, <2>2, <1>1 DEF EofInv, AppStates
  <1>6. CASE \E n \in 1 .. 2 : ReadMessage(n)
    <2>1. ~app.eof BY <1>6 DEF ReadMessage, EofInv, at_end
    <2>2. app'.eof = app.eof BY <1>1, <1>6 DEF ReadMessage, Reads, AppStates
    <2> QED BY <2>1, <2>2, <1>1 DEF EofInv, AppStates
  <1>7. CASE Recv
    <2>1. ~app.eof BY <1>7 DEF Recv, EofInv, at_end
    <2>2. app'.eof = app.eof BY <1>1, <1>7 DEF Recv, AppStates
    <2> QED BY <2>1, <2>2, <1>1 DEF EofInv, AppStates
  <1> QED BY <1>2, <1>3, <1>4, <1>5, <1>6, <1>7, CallsOutside, CloseOutside, WorldOutside
          DEF Next, Poll, Aside

\* Once poll_read, or recv(), has reported the end of the stream, nothing more is ever
\* read, for every application that keeps to one of the two: the flag, the end of
\* the actor and the messages it leaves in the channel cannot be seen in an
\* order that lets a byte follow the end.
THEOREM EofIsFinal ==
    ASSUME ~({"read", "recv"} \subseteq Calls) PROVE Spec => EofFinal
  <1>1. Init => EofInv BY DEF Init, new_with_conv, new_server_stream, Established, EofInv
  <1>2. TypeOK /\ EofInv /\ [Next]_vars => EofInv' /\ [app.eof => app'.got = app.got]_vars
    <2> SUFFICES ASSUME TypeOK, EofInv, [Next]_vars
                 PROVE  EofInv' /\ [app.eof => app'.got = app.got]_vars
      OBVIOUS
    <2>1. CASE UNCHANGED vars BY <2>1 DEF vars, actor_vars, EofInv, at_end, Gone
    <2>2. CASE Next BY <2>2, EofStep
    <2> QED BY <2>1, <2>2
  <1> QED BY <1>1, <1>2, TypeCorrect, PTL DEF Spec, EofFinal
=============================================================================
