-------------------------- MODULE KcpDeliveryProofs --------------------------
(***************************************************************************)
(* Theorems about what KcpStream carries: the outgoing segments from       *)
(* write() to the peer, the incoming messages from the peer to read(), and *)
(* how much is buffered between them.                                      *)
(***************************************************************************)
EXTENDS KcpStreamProofs, NaturalsInduction, WellFoundedInduction

-----------------------------------------------------------------------------
(* The engine's counters *)

\* The outgoing counters of an engine whose peer has received g segments: what is
\* acknowledged was received, what was received was sent, and no more than a window
\* is in flight.
Sending(e, g) ==
    /\ e.una <= e.nxt /\ e.nxt <= Len(e.out) /\ e.nxt <= e.una + SndWnd
    /\ e.una <= g /\ g <= e.wired /\ e.wired <= e.nxt

\* The incoming messages of an engine whose peer has written k: those not handed
\* over are the last of those accepted.
Receiving(e, k) ==
    /\ Len(e.rcv_queue) <= e.rcv_nxt /\ e.rcv_nxt <= k
    /\ \A i \in 1 .. Len(e.rcv_queue) : e.rcv_queue[i] = e.rcv_nxt - Len(e.rcv_queue) + i

\* x is e after datagrams were taken in and segments were put out.
Worked(e, x) ==
    /\ x.out = e.out /\ x.nxt >= e.nxt
    /\ \/ x.rcv_queue = e.rcv_queue /\ x.rcv_nxt = e.rcv_nxt
       \/ x.rcv_queue = Append(e.rcv_queue, x.rcv_nxt) /\ x.rcv_nxt = e.rcv_nxt + 1

\* The counters are numbers.
LEMMA Counters ==
    ASSUME NEW e \in Engines
    PROVE  /\ e.out \in Seq(Nat) /\ Len(e.out) \in Nat /\ e.una \in Nat /\ e.nxt \in Nat
           /\ e.wired \in Nat /\ e.rcv_queue \in Seq(Nat) /\ Len(e.rcv_queue) \in Nat
           /\ e.rcv_nxt \in Nat /\ SndWnd \in Nat
  BY ActorAssumption, LenProperties DEF Engines

\* Moving segments to the send buffer.
LEMMA MovedWorks ==
    ASSUME NEW e \in Engines, NEW g \in Nat, Sending(e, g)
    PROVE  /\ Sending(moved(e), g) /\ moved(e).out = e.out /\ moved(e).nxt >= e.nxt
           /\ moved(e).rcv_queue = e.rcv_queue /\ moved(e).rcv_nxt = e.rcv_nxt
  <1> DEFINE x == moved(e)
  <1>1. /\ x.out = e.out /\ x.una = e.una /\ x.wired = e.wired
        /\ x.rcv_queue = e.rcv_queue /\ x.rcv_nxt = e.rcv_nxt
        /\ x.nxt = IF e.rmt_open THEN larger(e.nxt, smaller(Len(e.out), e.una + SndWnd)) ELSE e.nxt
    BY DEF moved, Engines
  <1> HIDE DEF x
  <1>2. x.nxt >= e.nxt /\ x.nxt <= Len(e.out) /\ x.nxt <= e.una + SndWnd /\ x.nxt \in Nat
    BY <1>1, Counters DEF Sending, larger, smaller
  <1>3. Sending(x, g)
    BY <1>1, <1>2, Counters DEF Sending
  <1> QED BY <1>1, <1>2, <1>3 DEF x

\* A flush.
LEMMA FlushedWorks ==
    ASSUME NEW e \in Engines, NEW g \in Nat, Sending(e, g)
    PROVE  /\ Sending(flushed(e), g) /\ flushed(e).out = e.out /\ flushed(e).nxt >= e.nxt
           /\ flushed(e).rcv_queue = e.rcv_queue /\ flushed(e).rcv_nxt = e.rcv_nxt
  <1> DEFINE m == moved(e)
             x == flushed(e)
  <1>1. m \in Engines BY MovedType
  <1>2. /\ Sending(m, g) /\ m.out = e.out /\ m.nxt >= e.nxt
        /\ m.rcv_queue = e.rcv_queue /\ m.rcv_nxt = e.rcv_nxt
    BY MovedWorks
  <1>3. x = [m EXCEPT !.wired = larger(@, m.nxt), !.acked = e.rcv_nxt] BY DEF flushed
  <1> HIDE DEF m, x
  <1>4. /\ x.out = m.out /\ x.una = m.una /\ x.nxt = m.nxt /\ x.wired = larger(m.wired, m.nxt)
        /\ x.rcv_queue = m.rcv_queue /\ x.rcv_nxt = m.rcv_nxt
    BY <1>1, <1>3 DEF Engines
  <1>5. Sending(x, g)
    BY <1>1, <1>2, <1>4, Counters DEF Sending, larger
  <1> QED BY <1>2, <1>4, <1>5 DEF x

\* The messages are where they were when queue and count are.
LEMMA ReceivingFrame ==
    ASSUME NEW e, NEW x, NEW k, Receiving(e, k), x.rcv_queue = e.rcv_queue, x.rcv_nxt = e.rcv_nxt
    PROVE  Receiving(x, k)
  BY DEF Receiving

\* A flush, failed or not.
LEMMA FlushWorks ==
    ASSUME NEW e \in Engines, NEW g \in Nat, NEW k \in Nat, Sending(e, g), Receiving(e, k),
           NEW r \in flush(e)
    PROVE  /\ r.eng \in Engines /\ Sending(r.eng, g) /\ Receiving(r.eng, k)
           /\ r.eng.out = e.out /\ r.eng.nxt >= e.nxt
           /\ r.eng.rcv_queue = e.rcv_queue /\ r.eng.rcv_nxt = e.rcv_nxt
  <1>1. r.eng \in {flushed(e), moved(e)} BY DEF flush
  <1>2. r.eng \in Engines BY FlushType
  <1>3. /\ Sending(r.eng, g) /\ r.eng.out = e.out /\ r.eng.nxt >= e.nxt
        /\ r.eng.rcv_queue = e.rcv_queue /\ r.eng.rcv_nxt = e.rcv_nxt
    BY <1>1, FlushedWorks, MovedWorks
  <1>4. Receiving(r.eng, k) BY <1>3, ReceivingFrame
  <1> QED BY <1>2, <1>3, <1>4

\* A datagram that tells the truth.
LEMMA InputWorks ==
    ASSUME NEW e \in Engines, NEW g \in Nat, NEW k \in Nat, Sending(e, g), Receiving(e, k),
           NEW d \in Datagrams, d.una <= g, d.sn <= k
    PROVE  /\ input(e, d) \in Engines /\ Sending(input(e, d), g) /\ Receiving(input(e, d), k)
           /\ Worked(e, input(e, d))
  <1> DEFINE x   == input(e, d)
             q   == e.rcv_queue
             new == d.sn = e.rcv_nxt + 1 /\ Len(e.rcv_queue) < RcvWnd
             una == larger(e.una, smaller(d.una, e.nxt))
             queue == IF new THEN Append(e.rcv_queue, d.sn) ELSE e.rcv_queue
             next == IF new THEN d.sn ELSE e.rcv_nxt
  <1>1. x \in Engines BY InputType
  <1> HIDE DEF new
  <1>2. /\ x.out = e.out /\ x.nxt = e.nxt /\ x.wired = e.wired
        /\ x.una = larger(e.una, smaller(d.una, e.nxt))
        /\ x.rcv_queue = IF new THEN Append(e.rcv_queue, d.sn) ELSE e.rcv_queue
        /\ x.rcv_nxt = IF new THEN d.sn ELSE e.rcv_nxt
    <2>1. x = [e EXCEPT !.una = una, !.rmt_open = d.open, !.rcv_queue = queue, !.rcv_nxt = next]
      BY DEF input, new
    <2> HIDE DEF x, una, queue, next
    <2>2. /\ x.out = e.out /\ x.nxt = e.nxt /\ x.wired = e.wired
          /\ x.una = una /\ x.rcv_queue = queue /\ x.rcv_nxt = next
      BY <2>1 DEF Engines
    <2> QED BY <2>2 DEF una, queue, next
  <1> HIDE DEF x
  <1>3. d.una \in Nat /\ d.sn \in Nat BY DEF Datagrams
  <1>4. Sending(x, g)
    BY <1>2, <1>3, Counters, SMTT(20) DEF Sending, larger, smaller
  <1>5. CASE ~new
    <2>1. x.rcv_queue = e.rcv_queue /\ x.rcv_nxt = e.rcv_nxt BY <1>2, <1>5
    <2>2. Receiving(x, k) BY <2>1, ReceivingFrame
    <2>3. Worked(e, x) BY <1>2, <2>1, Counters DEF Worked
    <2> QED BY <1>1, <1>4, <2>2, <2>3 DEF x
  <1>6. CASE new
    <2>1. x.rcv_queue = Append(q, d.sn) /\ x.rcv_nxt = d.sn /\ d.sn = e.rcv_nxt + 1
      BY <1>2, <1>6 DEF new
    <2>2. q \in Seq(Nat) /\ Len(q) \in Nat /\ e.rcv_nxt \in Nat BY Counters
    <2>3. /\ Len(x.rcv_queue) = Len(q) + 1 /\ x.rcv_queue[Len(q) + 1] = d.sn
          /\ \A i \in 1 .. Len(q) : x.rcv_queue[i] = q[i]
      BY <1>3, <2>1, <2>2, AppendProperties
    <2>4. Len(q) <= e.rcv_nxt /\ \A i \in 1 .. Len(q) : q[i] = e.rcv_nxt - Len(q) + i
      BY DEF Receiving
    <2> HIDE DEF q
    <2>5. ASSUME NEW i \in 1 .. Len(x.rcv_queue)
          PROVE  x.rcv_queue[i] = x.rcv_nxt - Len(x.rcv_queue) + i
      <3>1. CASE i = Len(q) + 1 BY <2>1, <2>2, <2>3, <3>1
      <3>2. CASE i # Len(q) + 1
        <4>1. i \in 1 .. Len(q) BY <2>2, <2>3, <3>2
        <4> QED BY <2>1, <2>2, <2>3, <2>4, <4>1
      <3> QED BY <3>1, <3>2
    <2>6. Receiving(x, k) BY <2>1, <2>2, <2>3, <2>4, <2>5 DEF Receiving
    <2>7. Worked(e, x) BY <1>2, <2>1, Counters, SMTT(20) DEF Worked, q
    <2> QED BY <1>1, <1>4, <2>6, <2>7 DEF x
  <1> QED BY <1>5, <1>6

\* A message of the application.
LEMMA SendWorks ==
    ASSUME NEW e \in Engines, NEW g \in Nat, NEW k \in Nat, Sending(e, g), Receiving(e, k),
           NEW msg \in Message
    PROVE  LET x == engine_send(e, msg) IN
           /\ Sending(x, g) /\ Receiving(x, k) /\ x.out = e.out \o msg /\ x.nxt = e.nxt
           /\ x.una = e.una /\ x.rcv_queue = e.rcv_queue /\ x.rcv_nxt = e.rcv_nxt
  <1> DEFINE x == engine_send(e, msg)
  <1>1. /\ x.out = e.out \o msg /\ x.nxt = e.nxt /\ x.una = e.una /\ x.wired = e.wired
        /\ x.rcv_queue = e.rcv_queue /\ x.rcv_nxt = e.rcv_nxt
    BY DEF engine_send, Engines
  <1> HIDE DEF x
  <1>2. Len(x.out) = Len(e.out) + Len(msg) /\ Len(msg) \in Nat
    BY <1>1, Counters, ConcatProperties, LenProperties DEF Message
  <1>3. Sending(x, g) BY <1>1, <1>2, Counters DEF Sending
  <1>4. Receiving(x, k) BY <1>1, ReceivingFrame
  <1> QED BY <1>1, <1>3, <1>4 DEF x

-----------------------------------------------------------------------------
(* What a step of the actor does *)

\* Engine and peer agree on the counters, and so do the datagrams on their way.
Sync ==
    /\ Sending(eng, peer.got) /\ Receiving(eng, peer.sent)
    /\ \A i \in 1 .. Len(input_rx) : input_rx[i].una <= peer.got /\ input_rx[i].sn <= peer.sent

\* The actor serves its stream and has not begun to close.
Open == actor.at \in {"start", "select", "absorb"} /\ ~actor.closing

\* A write moves from the channel into the engine.
Takes ==
    /\ send_rx # <<>> /\ eng' = engine_send(eng, Head(send_rx)) /\ send_rx' = Tail(send_rx)
    /\ UNCHANGED <<data_rx, input_rx, dropped>>
    /\ ~Gone'
    /\ Open' => below_high_water

\* The engine works, and messages may be handed to the reader.
Works ==
    \E e \in Engines :
        /\ Worked(eng, e) /\ Sending(e, peer.got) /\ Receiving(e, peer.sent)
        /\ drain_recv(e) \/ (eng' = e /\ UNCHANGED data_rx)
        /\ UNCHANGED dropped
        /\ ~Gone' => UNCHANGED send_rx
        /\ \/ input_rx' = input_rx \/ input_rx' = <<>>
           \/ input_rx # <<>> /\ input_rx' = Tail(input_rx)
        /\ Open' => Open

\* An engine that only flushed has worked.
LEMMA FlushIsWork ==
    ASSUME NEW e \in Engines, NEW x, x.out = e.out, x.nxt >= e.nxt,
           x.rcv_queue = e.rcv_queue, x.rcv_nxt = e.rcv_nxt
    PROVE  Worked(e, x)
  BY DEF Worked

\* The end of the actor.
LEMMA EndIsClosed == ASSUME TypeOK, End PROVE Gone' /\ ~Open' /\ input_rx' = <<>>
  BY EndType DEF Gone, Open

\* The actor's steps are of the two kinds.
LEMMA ActorStep == ASSUME TypeOK, Sync, ActorNext, Aside PROVE Takes \/ Works
  <1>1. /\ eng \in Engines /\ actor \in Actors /\ peer.got \in Nat /\ peer.sent \in Nat
        /\ input_rx \in Seq(Datagrams) /\ Len(input_rx) <= InputCap
        /\ Sending(eng, peer.got) /\ Receiving(eng, peer.sent)
    BY DEF TypeOK, ChannelsOK, Sync
  <1>2. Worked(eng, eng) BY <1>1, Counters DEF Worked
  <1>3. ASSUME NEW r \in flush(eng)
        PROVE  /\ r.eng \in Engines /\ Worked(eng, r.eng)
               /\ Sending(r.eng, peer.got) /\ Receiving(r.eng, peer.sent)
    BY <1>1, <1>3, FlushWorks, FlushIsWork
  <1>4. CASE Start
    <2>1. PICK e \in {eng, flushed(eng)} : drain_recv(e) BY <1>4 DEF Start
    <2>2. [ok |-> TRUE, eng |-> flushed(eng)] \in flush(eng) BY DEF flush
    <2>3. /\ flushed(eng) \in Engines /\ Worked(eng, flushed(eng))
          /\ Sending(flushed(eng), peer.got) /\ Receiving(flushed(eng), peer.sent)
      BY <1>3, <2>2
    <2>4. e \in Engines /\ Worked(eng, e) /\ Sending(e, peer.got) /\ Receiving(e, peer.sent)
      BY <1>1, <1>2, <2>3
    <2>5. UNCHANGED <<dropped, send_rx, input_rx>> BY <1>4 DEF Start, ends
    <2>6. Open' => Open BY <1>1, <1>4 DEF Start, Open, Actors
    <2> QED BY <2>1, <2>4, <2>5, <2>6 DEF Works
  <1>5. CASE Timer
    <2>1. CASE \E r \in flush(eng) :
            /\ r.ok
            /\ timer_drain(r.eng)
            /\ IF finished(r.eng) THEN End
               ELSE UNCHANGED <<actor, cmd_rx, send_rx, input_rx>>
      <3>1. PICK r \in flush(eng) :
            /\ drain_recv(r.eng)
            /\ End \/ UNCHANGED <<actor, cmd_rx, send_rx, input_rx>>
        BY <2>1 DEF timer_drain
      <3>2. \/ Gone' /\ ~Open' /\ input_rx' = <<>>
            \/ UNCHANGED <<actor, send_rx, input_rx>>
        BY <3>1, EndIsClosed
      <3>3. Open' => Open BY <3>2 DEF Open
      <3>4. UNCHANGED dropped BY <1>5 DEF Timer, ends
      <3> QED BY <1>3, <3>1, <3>2, <3>3, <3>4 DEF Works
    <2>2. CASE DeadLink /\ End /\ eng' = moved(eng) /\ UNCHANGED data_rx
      <3>1. /\ moved(eng) \in Engines /\ Worked(eng, moved(eng)) /\ Sending(moved(eng), peer.got)
        BY <1>1, MovedType, MovedWorks, FlushIsWork
      <3>2. Receiving(moved(eng), peer.sent) BY <1>1, MovedWorks, ReceivingFrame
      <3>3. Gone' /\ ~Open' /\ input_rx' = <<>> BY <2>2, EndIsClosed
      <3>4. UNCHANGED dropped BY <1>5 DEF Timer, ends
      <3> QED BY <2>2, <3>1, <3>2, <3>3, <3>4 DEF Works
    <2> QED BY <1>5, <2>1, <2>2 DEF Timer
  <1>6. CASE FlushCmd
    <2>1. PICK r \in flush(eng) : eng' \in {r.eng, flushed(eng)} BY <1>6 DEF FlushCmd
    <2>2. [ok |-> TRUE, eng |-> flushed(eng)] \in flush(eng) BY DEF flush
    <2>3. \E s \in flush(eng) : eng' = s.eng BY <2>1, <2>2
    <2>4. UNCHANGED <<actor, send_rx, input_rx, data_rx, dropped>> BY <1>6 DEF FlushCmd
    <2>5. Open' => Open BY <2>4 DEF Open
    <2> QED BY <1>3, <2>3, <2>4, <2>5 DEF Works
  <1>7. CASE QueryCmd \/ CloseCmd \/ DataClosed \/ DeadlinePasses
    <2>1. UNCHANGED <<eng, send_rx, input_rx, data_rx, dropped>>
      BY <1>7 DEF QueryCmd, CloseCmd, DataClosed, DeadlinePasses, ends
    <2>2. Open' => Open
      BY <1>1, <1>7 DEF QueryCmd, CloseCmd, DataClosed, DeadlinePasses, Open, Actors
    <2> QED BY <1>1, <1>2, <2>1, <2>2 DEF Works
  <1>8. CASE AbsorbAll
    <2>1. UNCHANGED <<actor, data_rx, input_rx, dropped>> /\ actor.at = "close"
      BY <1>8 DEF AbsorbAll, ends
    <2>2. ~Gone' /\ ~Open' BY <2>1 DEF Gone, Open
    <2> QED BY <1>8, <2>1, <2>2 DEF AbsorbAll, Takes
  <1>9. CASE BeginClosing
    <2>1. PICK r \in flush(eng) :
        /\ eng' = r.eng
        /\ actor' = [at |-> IF has_unsent_data(r.eng) THEN "select" ELSE "ended",
                     closing |-> TRUE, send_closed |-> TRUE, overdue |-> FALSE]
        /\ IF has_unsent_data(r.eng) THEN UNCHANGED <<cmd_rx, send_rx, input_rx>>
           ELSE cmd_rx' = <<>> /\ send_rx' = <<>> /\ input_rx' = <<>>
      BY <1>9 DEF BeginClosing
    <2>2. UNCHANGED <<data_rx, dropped>> BY <1>9 DEF BeginClosing, ends
    <2>3. ~Open' BY <2>1 DEF Open
    <2>4. \/ UNCHANGED <<send_rx, input_rx>>
          \/ Gone' /\ input_rx' = <<>>
      BY <2>1 DEF Gone
    <2> QED BY <1>3, <2>1, <2>2, <2>3, <2>4 DEF Works
  <1>10. CASE Input
    <2> DEFINE d == Head(input_rx)
    <2>1. input_rx # <<>> BY <1>10 DEF Input
    <2>2. d \in Datagrams BY <1>1, <2>1, TakeType, Capacities
    <2>3. d.una <= peer.got /\ d.sn <= peer.sent
      <3>1. Len(input_rx) \in Nat \ {0} /\ d = input_rx[1] BY <1>1, <2>1, EmptySeq, HeadTailProperties
      <3>2. 1 \in 1 .. Len(input_rx) BY <3>1
      <3> QED BY <3>1, <3>2 DEF Sync
    <2> DEFINE x == input(eng, d)
    <2>4. /\ x \in Engines /\ Sending(x, peer.got) /\ Receiving(x, peer.sent) /\ Worked(eng, x)
      BY <1>1, <2>2, <2>3, InputWorks
    <2>5. PICK r \in flush(x) :
        IF ~r.ok
        THEN End /\ eng' = r.eng /\ UNCHANGED data_rx
        ELSE /\ drain_recv(r.eng)
             /\ IF finished(r.eng) THEN End
                ELSE /\ input_rx' = Tail(input_rx)
                     /\ UNCHANGED <<actor, cmd_rx, send_rx>>
      BY <1>10 DEF Input
    <2> HIDE DEF x, d
    <2>6. /\ r.eng \in Engines /\ Sending(r.eng, peer.got) /\ Receiving(r.eng, peer.sent)
          /\ r.eng.out = x.out /\ r.eng.nxt >= x.nxt
          /\ r.eng.rcv_queue = x.rcv_queue /\ r.eng.rcv_nxt = x.rcv_nxt
      BY <1>1, <2>4, FlushWorks
    <2>7. Worked(eng, r.eng)
      <3>1. eng.nxt \in Nat /\ x.nxt \in Nat /\ r.eng.nxt \in Nat BY <1>1, <2>4, <2>6, Counters
      <3>2. x.out = eng.out /\ x.nxt >= eng.nxt BY <2>4 DEF Worked
      <3>3. r.eng.nxt >= eng.nxt BY <2>6, <3>1, <3>2
      <3> QED BY <2>4, <2>6, <3>2, <3>3 DEF Worked
    <2>8. drain_recv(r.eng) \/ (eng' = r.eng /\ UNCHANGED data_rx) BY <2>5
    <2>9. \/ Gone' /\ ~Open' /\ input_rx' = <<>>
          \/ input_rx' = Tail(input_rx) /\ UNCHANGED <<actor, send_rx>>
      BY <2>5, EndIsClosed
    <2>10. UNCHANGED dropped BY <1>10 DEF Input, ends
    <2>11. Open' => Open BY <2>9 DEF Open
    <2> QED BY <2>1, <2>6, <2>7, <2>8, <2>9, <2>10, <2>11 DEF Works
  <1>11. CASE InputClosed
    <2>1. UNCHANGED <<eng, data_rx, dropped>> /\ End BY <1>11 DEF InputClosed, ends
    <2>2. Gone' /\ ~Open' /\ input_rx' = <<>> BY <2>1, EndIsClosed
    <2> QED BY <1>1, <1>2, <2>1, <2>2 DEF Works
  <1>12. CASE Data
    <2>1. UNCHANGED <<data_rx, input_rx, dropped>> BY <1>12 DEF Data, ends
    <2>2. ~Gone' BY <1>1, <1>12 DEF Data, Gone, Actors
    <2> QED BY <1>12, <2>1, <2>2 DEF Data, Takes
  <1>13. CASE DataFlush
    <2>1. PICK r \in flush(eng) :
        /\ eng' = r.eng
        /\ \/ actor' = [actor EXCEPT !.at = "select"] /\ UNCHANGED <<cmd_rx, send_rx, input_rx>>
           \/ End
      BY <1>13 DEF DataFlush
    <2>2. UNCHANGED <<data_rx, dropped>> /\ actor.at = "absorb" BY <1>13 DEF DataFlush, ends
    <2>3. \/ Gone' /\ ~Open' /\ input_rx' = <<>>
          \/ actor' = [actor EXCEPT !.at = "select"] /\ UNCHANGED <<send_rx, input_rx>>
      BY <2>1, EndIsClosed
    <2>4. Open' => Open BY <1>1, <2>2, <2>3 DEF Open, Actors
    <2> QED BY <1>3, <2>1, <2>2, <2>3, <2>4 DEF Works
  <1> QED BY <1>4, <1>5, <1>6, <1>7, <1>8, <1>9, <1>10, <1>11, <1>12, <1>13 DEF ActorNext

\* Handing over moves the first messages of the engine's queue to the channel.
LEMMA DrainWorks ==
    ASSUME TypeOK, NEW e \in Engines, NEW g \in Nat, NEW k \in Nat, Sending(e, g), Receiving(e, k),
           drain_recv(e)
    PROVE  /\ Sending(eng', g) /\ Receiving(eng', k)
           /\ eng'.out = e.out /\ eng'.nxt = e.nxt /\ eng'.rcv_nxt = e.rcv_nxt
           /\ \E n \in 0 .. Len(e.rcv_queue) :
                 /\ data_rx' = data_rx \o SubSeq(e.rcv_queue, 1, n)
                 /\ eng'.rcv_queue = SubSeq(e.rcv_queue, n + 1, Len(e.rcv_queue))
                 /\ dropped => n = 0
  <1> DEFINE n == drained(e)
             q == e.rcv_queue
             x == eng'
  <1>1. q \in Seq(Nat) /\ Len(q) \in Nat /\ e.rcv_nxt \in Nat BY Counters
  <1>2. n \in 0 .. Len(q) /\ (dropped => n = 0)
    <2>1. Len(data_rx) \in Nat /\ Len(data_rx) <= DataCap /\ DataCap \in Nat
      BY ActorAssumption, LenProperties DEF TypeOK, ChannelsOK
    <2> QED BY <1>1, <2>1 DEF drained, smaller
  <1>3. data_rx' = data_rx \o SubSeq(q, 1, n) /\ x = drain_engine(e, n) BY DEF drain_recv
  <1> HIDE DEF n
  <1>4. /\ x.out = e.out /\ x.una = e.una /\ x.nxt = e.nxt /\ x.wired = e.wired
        /\ x.rcv_nxt = e.rcv_nxt /\ x.rcv_queue = SubSeq(q, n + 1, Len(q))
    BY <1>3 DEF drain_engine, Engines
  <1>5. Sending(x, g) BY <1>4 DEF Sending
  <1> HIDE DEF x, q
  <1>6. /\ Len(x.rcv_queue) = Len(q) - n
        /\ \A i \in 1 .. Len(x.rcv_queue) : x.rcv_queue[i] = q[n + i]
    BY <1>1, <1>2, <1>4
  <1>7. x.rcv_nxt = e.rcv_nxt BY <1>4
  <1>8. Len(q) <= e.rcv_nxt /\ e.rcv_nxt <= k /\ \A i \in 1 .. Len(q) : q[i] = e.rcv_nxt - Len(q) + i
    BY DEF Receiving, q
  <1>9. ASSUME NEW i \in 1 .. Len(x.rcv_queue)
        PROVE  x.rcv_queue[i] = x.rcv_nxt - Len(x.rcv_queue) + i
    <2>1. n + i \in 1 .. Len(q) BY <1>1, <1>2, <1>6
    <2>2. x.rcv_queue[i] = e.rcv_nxt - Len(q) + (n + i) BY <1>6, <1>8, <2>1
    <2> QED BY <1>1, <1>2, <1>6, <1>7, <2>2, SMTT(20)
  <1>10. Receiving(x, k) BY <1>1, <1>2, <1>6, <1>8, <1>9, <1>7 DEF Receiving
  <1> QED BY <1>2, <1>3, <1>4, <1>5, <1>10 DEF x, q

\* What is left of the datagrams on their way is some of them.
LEMMA InputLeft ==
    ASSUME NEW s \in Seq(Datagrams), s # <<>>
    PROVE  \A i \in 1 .. Len(Tail(s)) : i + 1 \in 1 .. Len(s) /\ Tail(s)[i] = s[i + 1]
  <1>1. Len(s) \in Nat \ {0} BY EmptySeq
  <1> QED BY <1>1, HeadTailProperties

\* The actor keeps the counters in step.
LEMMA SyncActor == ASSUME TypeOK, Sync, ActorNext, Aside PROVE Sync'
  <1>1. Takes \/ Works BY ActorStep
  <1>2. /\ eng \in Engines /\ peer.got \in Nat /\ peer.sent \in Nat /\ peer' = peer
        /\ Sending(eng, peer.got) /\ Receiving(eng, peer.sent)
        /\ input_rx \in Seq(Datagrams)
    BY DEF TypeOK, ChannelsOK, Sync, Aside
  <1>3. CASE Takes
    <2>1. Head(send_rx) \in Message
      <3>1. send_rx \in Seq(Message) /\ Len(send_rx) <= SendCap BY DEF TypeOK, ChannelsOK
      <3> QED BY <1>3, <3>1, TakeType, Capacities DEF Takes
    <2>2. Sending(eng', peer.got) /\ Receiving(eng', peer.sent)
      BY <1>2, <1>3, <2>1, SendWorks DEF Takes
    <2> QED BY <1>2, <1>3, <2>2 DEF Takes, Sync
  <1>4. CASE Works
    <2>1. PICK e \in Engines :
        /\ Worked(eng, e) /\ Sending(e, peer.got) /\ Receiving(e, peer.sent)
        /\ drain_recv(e) \/ (eng' = e /\ UNCHANGED data_rx)
        /\ UNCHANGED dropped
        /\ ~Gone' => UNCHANGED send_rx
        /\ \/ input_rx' = input_rx \/ input_rx' = <<>>
           \/ input_rx # <<>> /\ input_rx' = Tail(input_rx)
        /\ Open' => Open
      BY <1>4 DEF Works
    <2>2. Sending(eng', peer.got) /\ Receiving(eng', peer.sent) BY <1>2, <2>1, DrainWorks
    <2>3. ASSUME NEW i \in 1 .. Len(input_rx')
          PROVE  input_rx'[i].una <= peer.got /\ input_rx'[i].sn <= peer.sent
      <3>1. CASE input_rx' = input_rx BY <3>1 DEF Sync
      <3>2. CASE input_rx' = <<>> BY <3>2
      <3>3. CASE input_rx # <<>> /\ input_rx' = Tail(input_rx)
        <4>1. i + 1 \in 1 .. Len(input_rx) /\ input_rx'[i] = input_rx[i + 1]
          BY <1>2, <3>3, InputLeft
        <4> QED BY <4>1 DEF Sync
      <3> QED BY <2>1, <3>1, <3>2, <3>3
    <2> QED BY <1>2, <2>2, <2>3 DEF Sync
  <1> QED BY <1>1, <1>3, <1>4

\* Of the other steps, only these touch the send channel, the datagrams or the peer.
Reaches ==
    \/ WriteReady \/ \E n \in 1 .. MaxFrags : Send(n)
    \/ \E d \in Datagram : Receive(d)
    \/ PeerReceives \/ PeerWrites

\* The rest leaves them alone.
LEMMA OthersQuiet ==
    ASSUME TypeOK, Next, ~(ActorNext /\ Aside), ~Reaches
    PROVE  UNCHANGED <<actor, eng, send_rx, input_rx, peer>> /\ app'.accepted = app.accepted
  <1>1. app \in AppStates BY DEF TypeOK
  <1>2. UNCHANGED <<actor, eng>> BY OthersLeave
  <1>3. asked.accepted = app.accepted /\ asked \in AppStates BY <1>1, AskedType DEF asked, AppStates
  <1>4. CASE WritePending \/ WriteFails \/ WriteCancelled
    BY <1>1, <1>2, <1>4 DEF WritePending, WriteFails, WriteCancelled, actor_vars, AppStates
  <1>5. CASE FlushStart \/ FlushDone \/ Query \/ QueryDone
    BY <1>1, <1>2, <1>5 DEF FlushStart, FlushDone, Query, QueryDone, actor_vars, AppStates
  <1>6. CASE FlushSend \/ QuerySend BY <1>1, <1>2, <1>6 DEF FlushSend, QuerySend, AppStates
  <1>7. CASE \E n \in 1 .. 2 : ReadBuffered(n)
    BY <1>1, <1>2, <1>7 DEF ReadBuffered, Reads, actor_vars, AppStates
  <1>8. CASE \E n \in 1 .. 2 : ReadMessage(n)
    BY <1>1, <1>2, <1>8 DEF ReadMessage, Reads, AppStates
  <1>9. CASE ReadEof BY <1>1, <1>2, <1>9 DEF ReadEof, actor_vars, AppStates
  <1>10. CASE Recv BY <1>1, <1>2, <1>10 DEF Recv, AppStates
  <1> HIDE DEF asked
  <1>11. CASE ShutdownStart \/ Close
    BY <1>1, <1>2, <1>3, <1>11 DEF ShutdownStart, Close, actor_vars, AppStates
  <1>12. CASE ShutdownSend BY <1>1, <1>2, <1>12 DEF ShutdownSend
  <1>13. CASE ShutdownDone \/ CloseCancelled
    BY <1>1, <1>2, <1>13 DEF ShutdownDone, CloseCancelled, actor_vars, AppStates
  <1>14. CASE CloseSend BY <1>1, <1>2, <1>14 DEF CloseSend, AppStates
  <1>15. CASE CloseReturn BY <1>1, <1>2, <1>15 DEF CloseReturn, AppStates
  <1>16. CASE Drop BY <1>1, <1>2, <1>3, <1>16 DEF Drop, AppStates
  <1>17. CASE ReceiveFails \/ ListenerDropped \/ FeederStops
    BY <1>1, <1>2, <1>17 DEF ReceiveFails, ListenerDropped, FeederStops
  <1> QED BY <1>4, <1>5, <1>6, <1>7, <1>8, <1>9, <1>10, <1>11, <1>12, <1>13, <1>14, <1>15, <1>16,
             <1>17 DEF Next, Poll, Aside, Reaches

\* The others keep the counters in step.
LEMMA SyncOthers == ASSUME TypeOK, Sync, Next, ~(ActorNext /\ Aside) PROVE Sync'
  <1>1. /\ eng \in Engines /\ peer \in [got : Nat, sent : Nat] /\ input_rx \in Seq(Datagrams)
    BY DEF TypeOK, ChannelsOK
  <1>2. eng' = eng BY OthersLeave
  <1>3. CASE ~Reaches BY <1>3, OthersQuiet DEF Sync
  <1>4. CASE WriteReady \/ \E n \in 1 .. MaxFrags : Send(n)
    BY <1>4 DEF WriteReady, Send, Sync
  <1>5. CASE \E d \in Datagram : Receive(d)
    <2>1. PICK d \in Datagram : Receive(d) BY <1>5
    <2>2. input_rx' = Append(input_rx, d) /\ peer' = peer BY <2>1 DEF Receive
    <2>3. d.una = peer.got /\ d.sn <= peer.sent /\ d.una \in Nat
      <3>1. peer.got \in Nat /\ peer.sent \in Nat BY <1>1
      <3>2. eng.acked \in Nat BY <1>1 DEF Engines
      <3> QED BY <3>1, <3>2 DEF Datagram
    <2>4. /\ Len(input_rx') = Len(input_rx) + 1 /\ input_rx'[Len(input_rx) + 1] = d
          /\ \A i \in 1 .. Len(input_rx) : input_rx'[i] = input_rx[i]
      <3>1. d \in Datagrams
        <4>1. eng.acked \in Nat BY <1>1 DEF Engines
        <4> QED BY <1>1, <4>1 DEF Datagram, Datagrams
      <3> QED BY <1>1, <2>2, <3>1, AppendProperties
    <2>5. Len(input_rx) \in Nat BY <1>1
    <2>6. ASSUME NEW i \in 1 .. Len(input_rx')
          PROVE  input_rx'[i].una <= peer.got /\ input_rx'[i].sn <= peer.sent
      <3>1. CASE i = Len(input_rx) + 1 BY <1>1, <2>3, <2>4, <3>1
      <3>2. CASE i # Len(input_rx) + 1
        <4>1. i \in 1 .. Len(input_rx) BY <2>4, <2>5, <3>2
        <4> QED BY <2>4, <4>1 DEF Sync
      <3> QED BY <3>1, <3>2
    <2> QED BY <1>2, <2>2, <2>6 DEF Sync
  <1>6. CASE PeerReceives
    <2>1. input_rx' = input_rx /\ peer'.got = peer.got + 1 /\ peer'.sent = peer.sent
          /\ peer.got < eng.wired
      BY <1>1, <1>6 DEF PeerReceives, actor_vars
    <2>2. Sending(eng, peer.got + 1)
      BY <1>1, <2>1, Counters DEF Sync, Sending
    <2>3. ASSUME NEW i \in 1 .. Len(input_rx) PROVE input_rx[i].una <= peer.got + 1
      <3>1. input_rx[i] \in Datagrams BY <1>1
      <3>2. input_rx[i].una \in Nat BY <3>1 DEF Datagrams
      <3> QED BY <1>1, <3>2 DEF Sync
    <2> QED BY <1>2, <2>1, <2>2, <2>3 DEF Sync
  <1>7. CASE PeerWrites
    <2>1. input_rx' = input_rx /\ peer'.got = peer.got /\ peer'.sent = peer.sent + 1
      BY <1>1, <1>7 DEF PeerWrites, actor_vars
    <2>2. Receiving(eng, peer.sent + 1)
      BY <1>1, <2>1, Counters DEF Sync, Receiving
    <2>3. ASSUME NEW i \in 1 .. Len(input_rx) PROVE input_rx[i].sn <= peer.sent + 1
      <3>1. input_rx[i] \in Datagrams BY <1>1
      <3>2. input_rx[i].sn \in Nat BY <3>1 DEF Datagrams
      <3> QED BY <1>1, <3>2 DEF Sync
    <2> QED BY <1>2, <2>1, <2>2, <2>3 DEF Sync
  <1> QED BY <1>3, <1>4, <1>5, <1>6, <1>7 DEF Reaches

\* A new stream is in step, also when its engine has taken in a first message.
LEMMA SyncInit == ASSUME Init PROVE Sync
  <1>1. PICK n \in {0, 1} : Established(n) BY DEF Init, new_with_conv, new_server_stream
  <1> DEFINE q == [k \in 1 .. n |-> k]
  <1>2. q \in Seq(Nat) /\ Len(q) = n /\ n \in Nat /\ \A i \in 1 .. n : q[i] = i OBVIOUS
  <1>3. /\ eng.out = <<>> /\ eng.una = 0 /\ eng.nxt = 0 /\ eng.wired = 0
        /\ eng.rcv_queue = q /\ eng.rcv_nxt = Len(q)
        /\ peer.got = 0 /\ peer.sent = n /\ input_rx = <<>>
    BY <1>1 DEF Established, new_engine
  <1> HIDE DEF q
  <1>4. Sending(eng, peer.got) BY <1>3, ActorAssumption DEF Sending
  <1>5. Receiving(eng, peer.sent) BY <1>2, <1>3 DEF Receiving
  <1> QED BY <1>3, <1>4, <1>5 DEF Sync

\* Engine, datagrams and peer stay in step.
LEMMA InSync == Spec => []Sync
  <1>1. TypeOK /\ Sync /\ [Next]_vars => Sync'
    <2> SUFFICES ASSUME TypeOK, Sync, [Next]_vars PROVE Sync' OBVIOUS
    <2>1. CASE UNCHANGED vars BY <2>1 DEF vars, actor_vars, Sync
    <2> QED BY <2>1, SyncActor, SyncOthers
  <1> QED BY <1>1, SyncInit, TypeCorrect, PTL DEF Spec

-----------------------------------------------------------------------------
(* The outgoing segments *)

\* No write() is dropped before it returns.
Exact == "cancel" \notin Calls

\* c[i] is where, among the accepted segments a, the i-th message of the channel s
\* ends; those before c[0] are in the engine.  When no write is cancelled, the messages
\* have the contents that were accepted.
Cuts(o, s, a, c) ==
    /\ c \in [0 .. Len(s) -> Nat] /\ c[0] = Len(o) /\ c[Len(s)] = Len(a)
    /\ \A i \in 0 .. Len(s) : c[i] <= Len(a) /\ Len(a) <= c[i] + (Len(s) - i) * MaxFrags
    /\ \A i \in 1 .. Len(s) : c[i] = c[i - 1] + Len(s[i]) /\ Len(s[i]) <= MaxFrags
    /\ Exact => \A i \in 1 .. Len(s) : \A k \in 1 .. Len(s[i]) : a[c[i - 1] + k] = s[i][k]

\* The engine has taken the first of the accepted segments.
Ahead(o, a) == Len(o) <= Len(a) /\ (Exact => \A k \in 1 .. Len(o) : o[k] = a[k])

\* A message moves from the channel to the engine.
LEMMA CutTake ==
    ASSUME NEW o \in Seq(Nat), NEW s \in Seq(Message), NEW a \in Seq(Nat), NEW c, s # <<>>,
           Cuts(o, s, a, c), Ahead(o, a)
    PROVE  /\ \E d : Cuts(o \o Head(s), Tail(s), a, d)
           /\ Ahead(o \o Head(s), a) /\ Head(s) \in Message /\ Len(Head(s)) <= MaxFrags
           /\ Len(o \o Head(s)) = Len(o) + Len(Head(s))
  <1> DEFINE h == Head(s)
             t == Tail(s)
             p == o \o h
             n == Len(s)
  <1>1. n \in Nat \ {0} /\ h = s[1] /\ h \in Message /\ Len(t) = n - 1
        /\ \A i \in 1 .. n - 1 : t[i] = s[i + 1]
    BY EmptySeq, HeadTailProperties
  <1>2. Len(h) \in Nat /\ Len(o) \in Nat /\ Len(a) \in Nat BY <1>1, LenProperties DEF Message
  <1>3. /\ Len(p) = Len(o) + Len(h)
        /\ \A k \in 1 .. Len(p) : p[k] = IF k <= Len(o) THEN o[k] ELSE h[k - Len(o)]
    BY <1>1, ConcatProperties DEF Message
  <1>4. /\ c \in [0 .. n -> Nat] /\ c[0] = Len(o) /\ c[n] = Len(a)
        /\ \A i \in 0 .. n : c[i] <= Len(a) /\ Len(a) <= c[i] + (n - i) * MaxFrags
        /\ \A i \in 1 .. n : c[i] = c[i - 1] + Len(s[i]) /\ Len(s[i]) <= MaxFrags
        /\ Exact => \A i \in 1 .. n : \A k \in 1 .. Len(s[i]) : a[c[i - 1] + k] = s[i][k]
    BY DEF Cuts
  <1> DEFINE d == [i \in 0 .. n - 1 |-> c[i + 1]]
  <1> HIDE DEF h, t, p, n
  <1>5. 1 \in 1 .. n /\ 1 - 1 = 0 BY <1>1
  <1>6. c[1] = Len(o) + Len(h) /\ Len(h) <= MaxFrags BY <1>1, <1>4, <1>5
  <1>7. Ahead(p, a)
    <2>1. Len(p) <= Len(a) BY <1>1, <1>3, <1>4, <1>6
    <2>2. ASSUME Exact, NEW k \in 1 .. Len(p) PROVE p[k] = a[k]
      <3>1. CASE k <= Len(o)
        <4>1. k \in 1 .. Len(o) BY <1>2, <3>1
        <4> QED BY <1>3, <2>2, <3>1, <4>1 DEF Ahead
      <3>2. CASE ~(k <= Len(o))
        <4>1. k - Len(o) \in 1 .. Len(h) /\ c[0] + (k - Len(o)) = k BY <1>2, <1>3, <1>4, <3>2
        <4>2. a[c[0] + (k - Len(o))] = h[k - Len(o)] BY <1>1, <1>4, <1>5, <2>2, <4>1
        <4> QED BY <1>3, <3>2, <4>1, <4>2
      <3> QED BY <3>1, <3>2
    <2> QED BY <2>1, <2>2 DEF Ahead
  <1>8. /\ d \in [0 .. Len(t) -> Nat] /\ d[0] = Len(p) /\ d[Len(t)] = Len(a)
    <2>1. \A i \in 0 .. n - 1 : i + 1 \in 0 .. n /\ d[i] = c[i + 1] BY <1>1
    <2>2. d \in [0 .. n - 1 -> Nat] BY <1>4, <2>1
    <2>3. 0 \in 0 .. n - 1 /\ 0 + 1 = 1 /\ n - 1 \in 0 .. n - 1 /\ (n - 1) + 1 = n BY <1>1
    <2>4. d[0] = c[1] /\ d[n - 1] = c[n] BY <2>1, <2>3
    <2> HIDE DEF d
    <2> QED BY <1>1, <1>3, <1>4, <1>6, <2>2, <2>4
  <1>9. ASSUME NEW i \in 0 .. Len(t)
        PROVE  d[i] <= Len(a) /\ Len(a) <= d[i] + (Len(t) - i) * MaxFrags
    <2>1. i + 1 \in 0 .. n /\ n - (i + 1) = Len(t) - i BY <1>1
    <2>2. d[i] = c[i + 1] BY <1>1
    <2> HIDE DEF d
    <2> QED BY <1>4, <2>1, <2>2
  <1>10. ASSUME NEW i \in 1 .. Len(t)
         PROVE  /\ d[i] = d[i - 1] + Len(t[i]) /\ Len(t[i]) <= MaxFrags
                /\ Exact => \A k \in 1 .. Len(t[i]) : a[d[i - 1] + k] = t[i][k]
    <2> DEFINE j == i + 1
    <2>1. j \in 1 .. n /\ j - 1 = i /\ t[i] = s[j] BY <1>1
    <2>2. d[i] = c[j] /\ d[i - 1] = c[i] BY <1>1
    <2> HIDE DEF d, j
    <2>3. c[j] = c[j - 1] + Len(s[j]) /\ Len(s[j]) <= MaxFrags BY <1>4, <2>1
    <2>4. Exact => \A k \in 1 .. Len(s[j]) : a[c[j - 1] + k] = s[j][k] BY <1>4, <2>1
    <2> QED BY <2>1, <2>2, <2>3, <2>4
  <1>11. Cuts(p, t, a, d) BY <1>8, <1>9, <1>10 DEF Cuts
  <1> QED BY <1>1, <1>3, <1>6, <1>7, <1>11 DEF h, t, p

\* A message enters the channel; x is what the application is told it has written.
LEMMA CutPut ==
    ASSUME NEW o \in Seq(Nat), NEW s \in Seq(Message), NEW a \in Seq(Nat), NEW c,
           NEW m \in Message, NEW x \in Seq(Nat), Len(m) = Len(x), Len(m) <= MaxFrags,
           Exact => m = x, Cuts(o, s, a, c), Ahead(o, a)
    PROVE  (\E d : Cuts(o, Append(s, m), a \o x, d)) /\ Ahead(o, a \o x)
  <1> DEFINE t == Append(s, m)
             b == a \o x
             n == Len(s)
  <1>1. n \in Nat /\ Len(t) = n + 1 /\ t[n + 1] = m /\ \A i \in 1 .. n : t[i] = s[i]
    BY AppendProperties, LenProperties
  <1>2. /\ Len(m) \in Nat /\ Len(o) \in Nat /\ Len(a) \in Nat /\ MaxFrags \in Nat
    BY ActorAssumption, LenProperties DEF Message
  <1>3. /\ Len(b) = Len(a) + Len(m) /\ \A k \in 1 .. Len(a) : b[k] = a[k]
        /\ \A k \in 1 .. Len(m) : b[Len(a) + k] = x[k]
    <2>1. Len(b) = Len(a) + Len(x) /\ \A k \in 1 .. Len(a) + Len(x) :
                                         b[k] = IF k <= Len(a) THEN a[k] ELSE x[k - Len(a)]
      BY ConcatProperties
    <2> HIDE DEF b
    <2>2. ASSUME NEW k \in 1 .. Len(a) PROVE b[k] = a[k]
      <3>1. k \in 1 .. Len(a) + Len(x) /\ k <= Len(a) BY <1>2
      <3> QED BY <2>1, <3>1
    <2>3. ASSUME NEW k \in 1 .. Len(m) PROVE b[Len(a) + k] = x[k]
      <3>1. Len(a) + k \in 1 .. Len(a) + Len(x) /\ ~(Len(a) + k <= Len(a))
            /\ (Len(a) + k) - Len(a) = k
        BY <1>2
      <3> QED BY <2>1, <3>1
    <2> QED BY <2>1, <2>2, <2>3
  <1>4. /\ c \in [0 .. n -> Nat] /\ c[0] = Len(o) /\ c[n] = Len(a)
        /\ \A i \in 0 .. n : c[i] <= Len(a) /\ Len(a) <= c[i] + (n - i) * MaxFrags
        /\ \A i \in 1 .. n : c[i] = c[i - 1] + Len(s[i]) /\ Len(s[i]) <= MaxFrags
        /\ Exact => \A i \in 1 .. n : \A k \in 1 .. Len(s[i]) : a[c[i - 1] + k] = s[i][k]
    BY DEF Cuts
  <1> DEFINE d == [i \in 0 .. n + 1 |-> IF i = n + 1 THEN Len(b) ELSE c[i]]
  <1> HIDE DEF t, b, n
  <1>5. (\A i \in 0 .. n : d[i] = c[i] /\ c[i] \in Nat) /\ d[n + 1] = Len(b)
    <2>1. \A i \in 0 .. n : i \in 0 .. n + 1 /\ i # n + 1 BY <1>1
    <2>2. n + 1 \in 0 .. n + 1 BY <1>1
    <2> QED BY <1>4, <2>1, <2>2
  <1>6. d \in [0 .. n + 1 -> Nat]
    <2>1. \A i \in 0 .. n + 1 : i = n + 1 \/ i \in 0 .. n BY <1>1
    <2>2. Len(b) \in Nat BY <1>2, <1>3
    <2> QED BY <1>4, <2>1, <2>2
  <1> HIDE DEF d
  <1>7. d[0] = Len(o) BY <1>1, <1>4, <1>5
  <1>8. ASSUME NEW i \in 0 .. Len(t)
        PROVE  d[i] <= Len(b) /\ Len(b) <= d[i] + (Len(t) - i) * MaxFrags
    <2>1. CASE i = n + 1 BY <1>1, <1>2, <1>3, <1>5, <2>1
    <2>2. CASE i # n + 1
      <3>1. i \in 0 .. n /\ n - i \in Nat BY <1>1, <2>2
      <3>2. c[i] <= Len(a) /\ Len(a) <= c[i] + (n - i) * MaxFrags BY <1>4, <3>1
      <3>3. d[i] = c[i] /\ c[i] \in Nat BY <1>5, <3>1
      <3>4. (Len(t) - i) * MaxFrags = (n - i) * MaxFrags + MaxFrags /\ (n - i) * MaxFrags \in Nat
        <4>1. Len(t) - i = (n - i) + 1 BY <1>1, <3>1
        <4>2. \A u, v \in Nat : (u + 1) * v = u * v + v /\ u * v \in Nat OBVIOUS
        <4> QED BY <1>2, <3>1, <4>1, <4>2
      <3> QED BY <1>2, <1>3, <3>2, <3>3, <3>4, SMTT(20)
    <2> QED BY <2>1, <2>2
  <1>9. ASSUME NEW i \in 1 .. Len(t)
        PROVE  /\ d[i] = d[i - 1] + Len(t[i]) /\ Len(t[i]) <= MaxFrags
               /\ Exact => \A k \in 1 .. Len(t[i]) : b[d[i - 1] + k] = t[i][k]
    <2>1. CASE i = n + 1
      <3>1. i - 1 = n /\ n \in 0 .. n /\ t[i] = m BY <1>1, <2>1
      <3>2. d[i - 1] = Len(a) BY <1>4, <1>5, <3>1
      <3>3. Exact => \A k \in 1 .. Len(m) : b[Len(a) + k] = m[k] BY <1>3
      <3> QED BY <1>2, <1>3, <1>5, <2>1, <3>1, <3>2, <3>3
    <2>2. CASE i # n + 1
      <3>1. i \in 1 .. n /\ i \in 0 .. n /\ i - 1 \in 0 .. n BY <1>1, <2>2
      <3>2. t[i] = s[i] /\ d[i] = c[i] /\ d[i - 1] = c[i - 1] BY <1>1, <1>5, <3>1
      <3>3. c[i] = c[i - 1] + Len(s[i]) /\ Len(s[i]) <= MaxFrags /\ c[i] <= Len(a) BY <1>4, <3>1
      <3>4. ASSUME Exact, NEW k \in 1 .. Len(s[i]) PROVE b[c[i - 1] + k] = s[i][k]
        <4>1. c[i - 1] + k \in 1 .. Len(a)
          <5>1. s[i] \in Message BY <1>1, <3>1, ElementOfSeq DEF n
          <5>2. Len(s[i]) \in Nat BY <5>1, LenProperties DEF Message
          <5>3. c[i - 1] \in Nat BY <1>5, <3>1
          <5>4. c[i - 1] + Len(s[i]) <= Len(a) BY <3>3
          <5>5. \A u, v, w \in Nat : u + v <= w => \A j \in 1 .. v : u + j \in 1 .. w OBVIOUS
          <5> QED BY <1>2, <5>2, <5>3, <5>4, <5>5
        <4> QED BY <1>3, <1>4, <3>1, <3>4, <4>1
      <3> QED BY <3>2, <3>3, <3>4
    <2> QED BY <2>1, <2>2
  <1>10. Cuts(o, t, b, d) BY <1>1, <1>5, <1>6, <1>7, <1>8, <1>9 DEF Cuts
  <1>11. Ahead(o, b)
    <2>1. Len(o) <= Len(b) BY <1>2, <1>3 DEF Ahead
    <2>2. \A k \in 1 .. Len(o) : k \in 1 .. Len(a) BY <1>2 DEF Ahead
    <2> QED BY <1>3, <2>1, <2>2 DEF Ahead
  <1> QED BY <1>10, <1>11 DEF t, b

\* What is parked is the write in progress.
Parked ==
    /\ stream.write = <<>> \/ Len(stream.write) = 1
    /\ Exact /\ ~stream.closed => stream.write = IF app.writing = 0 THEN <<>> ELSE <<app.writing>>

\* The way of the accepted segments: parked, in the channel, in the engine.
Outward ==
    /\ Ahead(eng.out, app.accepted)
    /\ ~Gone => \E c : Cuts(eng.out, send_rx, app.accepted, c)
    /\ Open => send_queue_len(eng) <= SendHighWater - 1 + MaxFrags
    /\ Parked

\* A new stream has nothing on its way.
LEMMA OutInit == ASSUME Init PROVE Outward
  <1>1. PICK n \in {0, 1} : Established(n) BY DEF Init, new_with_conv, new_server_stream
  <1>2. /\ eng.out = <<>> /\ eng.nxt = 0 /\ send_rx = <<>> /\ app.accepted = <<>>
        /\ stream.write = <<>> /\ app.writing = 0
    BY <1>1 DEF Established, new_engine
  <1>3. Len(<<>>) = 0 OBVIOUS
  <1>4. Ahead(eng.out, app.accepted) BY <1>2, <1>3 DEF Ahead
  <1> DEFINE c == [i \in 0 .. 0 |-> 0]
  <1>5. /\ c \in [0 .. 0 -> Nat] /\ c[0] = 0 /\ \A i \in 0 .. 0 : c[i] = 0 /\ i = 0
    OBVIOUS
  <1> HIDE DEF c
  <1>6. 0 <= 0 + (0 - 0) * MaxFrags BY ActorAssumption
  <1>7. Cuts(<<>>, <<>>, <<>>, c)
    BY <1>3, <1>5, <1>6 DEF Cuts
  <1>8. send_queue_len(eng) <= SendHighWater - 1 + MaxFrags
    BY <1>2, <1>3, ActorAssumption DEF send_queue_len
  <1> QED BY <1>2, <1>4, <1>7, <1>8 DEF Outward, Parked

\* The actor.
LEMMA OutActor == ASSUME TypeOK, Sync, Outward, ActorNext, Aside PROVE Outward'
  <1>1. Takes \/ Works BY ActorStep
  <1>2. ~Gone BY GoneStops
  <1>3. /\ eng \in Engines /\ send_rx \in Seq(Message) /\ app.accepted \in Seq(Nat)
        /\ stream' = stream /\ app' = app
        /\ Ahead(eng.out, app.accepted) /\ Parked
    BY DEF TypeOK, ChannelsOK, AppStates, Aside, Outward
  <1>4. PICK c : Cuts(eng.out, send_rx, app.accepted, c) BY <1>2 DEF Outward
  <1>5. Parked' BY <1>3 DEF Parked
  <1>6. CASE Takes
    <2> DEFINE h == Head(send_rx)
               x == engine_send(eng, h)
    <2>1. /\ \E d : Cuts(eng.out \o h, Tail(send_rx), app.accepted, d)
          /\ Ahead(eng.out \o h, app.accepted) /\ h \in Message /\ Len(h) <= MaxFrags
          /\ Len(eng.out \o h) = Len(eng.out) + Len(h)
      <3>1. eng.out \in Seq(Nat) BY <1>3, Counters
      <3> QED BY <1>3, <1>4, <1>6, <3>1, CutTake DEF Takes
    <2> HIDE DEF h
    <2>2. x.out = eng.out \o h /\ x.nxt = eng.nxt BY <1>3 DEF engine_send, Engines
    <2> HIDE DEF x
    <2>3. eng' = x /\ send_rx' = Tail(send_rx) BY <1>6 DEF Takes, x, h
    <2>4. Open' => send_queue_len(x) <= SendHighWater - 1 + MaxFrags
      <3>1. Open' => Len(eng.out) - eng.nxt < SendHighWater
        BY <1>6 DEF Takes, below_high_water, send_queue_len
      <3>2. Len(h) \in Nat /\ Len(eng.out) \in Nat /\ eng.nxt \in Nat
            /\ SendHighWater \in Nat /\ MaxFrags \in Nat
        BY <1>3, <2>1, Counters, LenProperties, ActorAssumption DEF Message
      <3>3. send_queue_len(x) = Len(eng.out) + Len(h) - eng.nxt
        <4>1. Len(x.out) = Len(eng.out) + Len(h) /\ x.nxt = eng.nxt BY <2>1, <2>2
        <4> QED BY <3>2, <4>1 DEF send_queue_len
      <3>4. Len(h) <= MaxFrags BY <2>1
      <3> QED BY <3>1, <3>2, <3>3, <3>4
    <2>5. /\ Ahead(x.out, app.accepted) /\ \E d : Cuts(x.out, Tail(send_rx), app.accepted, d)
      BY <2>1, <2>2
    <2> QED BY <1>3, <1>5, <2>3, <2>4, <2>5 DEF Outward
  <1>7. CASE Works
    <2>1. PICK e \in Engines :
        /\ Worked(eng, e) /\ Sending(e, peer.got) /\ Receiving(e, peer.sent)
        /\ drain_recv(e) \/ (eng' = e /\ UNCHANGED data_rx)
        /\ ~Gone' => UNCHANGED send_rx
        /\ Open' => Open
      BY <1>7 DEF Works
    <2>2. eng'.out = e.out /\ eng'.nxt = e.nxt
      BY <2>1, DrainWorks DEF TypeOK
    <2>3. e.out = eng.out /\ e.nxt >= eng.nxt BY <2>1 DEF Worked
    <2>4. Open' => send_queue_len(eng') <= SendHighWater - 1 + MaxFrags
      <3>1. Open' => Len(eng.out) - eng.nxt <= SendHighWater - 1 + MaxFrags
        BY <2>1 DEF Outward, send_queue_len
      <3>2. Len(eng.out) \in Nat /\ eng.nxt \in Nat /\ e.nxt \in Nat
            /\ SendHighWater \in Nat /\ MaxFrags \in Nat
        BY <1>3, <2>1, Counters, ActorAssumption
      <3>3. send_queue_len(eng') = Len(eng.out) - e.nxt BY <2>2, <2>3 DEF send_queue_len
      <3> QED BY <2>3, <3>1, <3>2, <3>3
    <2>6. ~Gone' => Cuts(eng'.out, send_rx', app.accepted, c) BY <1>4, <2>1, <2>2, <2>3
    <2> QED BY <1>3, <1>5, <2>2, <2>3, <2>4, <2>6 DEF Outward
  <1> QED BY <1>1, <1>6, <1>7

\* What is parked, under the steps of the others.
LEMMA ParkedOthers == ASSUME TypeOK, Parked, Next, ~(ActorNext /\ Aside) PROVE Parked'
  <1>1. /\ stream \in StreamStates /\ app \in AppStates BY DEF TypeOK
  <1>2. \A w : handed_over(w) = stream.write \/ handed_over(w) = <<w>> BY DEF handed_over
  <1>3. current_write \in Nat \ {0} BY <1>1 DEF current_write, AppStates
  <1>4. \A w : Len(<<w>>) = 1 OBVIOUS
  <1>5. CASE WriteReady
    <2>1. stream'.write = <<>> /\ app'.writing = 0 BY <1>1, <1>5 DEF WriteReady, StreamStates, AppStates
    <2> QED BY <2>1 DEF Parked
  <1>6. CASE WritePending
    <2>1. stream'.write = handed_over(current_write) /\ app'.writing = current_write
          /\ stream'.closed = stream.closed /\ app.writing = 0
      BY <1>1, <1>6 DEF WritePending, StreamStates, AppStates
    <2>2. stream'.write = <<>> \/ Len(stream'.write) = 1 BY <1>2, <1>4, <2>1 DEF Parked
    <2>3. Exact /\ ~stream.closed => handed_over(current_write) = <<current_write>>
      BY <2>1 DEF Parked, handed_over
    <2> QED BY <1>3, <2>1, <2>2, <2>3 DEF Parked
  <1>7. CASE WriteFails
    <2>1. /\ stream'.write = IF stream.closed THEN stream.write ELSE <<>>
          /\ stream'.closed = stream.closed /\ app'.writing = 0
      BY <1>1, <1>7 DEF WriteFails, StreamStates, AppStates
    <2> QED BY <2>1 DEF Parked
  <1>8. CASE WriteCancelled
    BY <1>1, <1>8 DEF WriteCancelled, Parked, Exact
  <1> DEFINE Same == stream'.write = stream.write /\ app'.writing = app.writing
                     /\ (stream'.closed = stream.closed \/ stream'.closed = TRUE)
  <1>9. Same => Parked' BY DEF Parked
  <1>10. CASE \E n \in 1 .. MaxFrags : Send(n) BY <1>1, <1>9, <1>10 DEF Send, AppStates
  <1>11. CASE FlushStart \/ FlushSend \/ FlushDone
    BY <1>1, <1>9, <1>11 DEF FlushStart, FlushSend, FlushDone, StreamStates
  <1>12. CASE Query \/ QuerySend \/ QueryDone
    BY <1>1, <1>9, <1>12 DEF Query, QuerySend, QueryDone, AppStates
  <1>13. CASE \E n \in 1 .. 2 : ReadBuffered(n) \/ ReadMessage(n)
    BY <1>1, <1>9, <1>13 DEF ReadBuffered, ReadMessage, Reads, AppStates, StreamStates
  <1>14. CASE ReadEof \/ Recv BY <1>1, <1>9, <1>14 DEF ReadEof, Recv, AppStates
  <1>15. asked.writing = app.writing /\ asked \in AppStates BY <1>1, AskedType DEF asked, AppStates
  <1> HIDE DEF asked
  <1>16. CASE ShutdownStart \/ ShutdownSend \/ ShutdownDone
    BY <1>1, <1>9, <1>15, <1>16 DEF ShutdownStart, ShutdownSend, ShutdownDone, StreamStates
  <1>17. CASE Close BY <1>1, <1>9, <1>15, <1>17 DEF Close, StreamStates, AppStates
  <1>18. CASE CloseSend
    BY <1>1, <1>9, <1>18 DEF CloseSend, StreamStates, AppStates
  <1>19. CASE CloseReturn \/ CloseCancelled
    BY <1>1, <1>9, <1>19 DEF CloseReturn, CloseCancelled, AppStates
  <1>20. CASE Drop
    <2>1. stream'.write = <<>> /\ stream'.closed = TRUE BY <1>1, <1>20 DEF Drop, StreamStates
    <2> QED BY <2>1 DEF Parked
  <1>21. CASE (\E d \in Datagram : Receive(d)) \/ ReceiveFails \/ ListenerDropped \/ FeederStops
               \/ PeerReceives \/ PeerWrites
    BY <1>9, <1>21 DEF Receive, ReceiveFails, ListenerDropped, FeederStops, PeerReceives, PeerWrites
  <1> QED BY <1>5, <1>6, <1>7, <1>8, <1>10, <1>11, <1>12, <1>13, <1>14, <1>16, <1>17, <1>18,
             <1>19, <1>20, <1>21 DEF Next, Poll, Aside

\* What a write puts into the channel has the length the application is told and, when
\* no write is cancelled, the contents.
LEMMA Accepts ==
    ASSUME TypeOK, Parked, WriteReady \/ \E n \in 1 .. MaxFrags : Send(n)
    PROVE  \E m \in Message, x \in Seq(Nat) :
              /\ Len(m) = Len(x) /\ Len(m) <= MaxFrags /\ Len(x) >= 1 /\ (Exact => m = x)
              /\ send_rx' = Append(send_rx, m) /\ app'.accepted = app.accepted \o x
              /\ app'.before_close = app.before_close /\ ~Gone /\ UNCHANGED <<actor, eng, peer>>
  <1>1. stream \in StreamStates /\ app \in AppStates /\ app.accepted \in Seq(Nat)
    BY DEF TypeOK, AppStates
  <1>2. MaxFrags \in Nat \ {0} BY ActorAssumption
  <1>3. CASE WriteReady
    <2> DEFINE w == current_write
               m == handed_over(current_write)
    <2>1. w \in Nat \ {0} /\ (app.writing # 0 => w = app.writing)
      BY <1>1 DEF current_write, AppStates
    <2>2. m \in Message BY <2>1, HandedOverType
    <2>3. Len(m) = 1 /\ (Exact => m = <<w>>)
      <3>1. ~stream.closed BY <1>3 DEF WriteReady
      <3>2. Len(<<w>>) = 1 OBVIOUS
      <3> HIDE DEF w
      <3>3. CASE stream.write = <<>> BY <3>2, <3>3 DEF handed_over, w
      <3>4. CASE stream.write # <<>>
        <4>1. m = stream.write BY <3>4 DEF handed_over
        <4>2. Exact => app.writing # 0 /\ stream.write = <<app.writing>> BY <3>1, <3>4 DEF Parked
        <4> QED BY <2>1, <3>4, <4>1, <4>2 DEF Parked
      <3> QED BY <3>3, <3>4
    <2>4. /\ send_rx' = Append(send_rx, m) /\ app'.accepted = Append(app.accepted, w)
          /\ app'.before_close = app.before_close /\ ~Gone /\ UNCHANGED <<actor, eng, peer>>
      BY <1>1, <1>3 DEF WriteReady, AppStates
    <2> HIDE DEF w, m
    <2>5. <<w>> \in Seq(Nat) /\ Len(<<w>>) = 1 BY <2>1
    <2>6. Append(app.accepted, w) = app.accepted \o <<w>> BY <1>1, <2>1, SMTT(20)
    <2> DEFINE y == <<w>>
    <2>7. /\ y \in Seq(Nat) /\ Len(m) = Len(y) /\ Len(y) = 1 /\ (Exact => m = y)
          /\ app'.accepted = app.accepted \o y
      BY <2>3, <2>4, <2>5, <2>6
    <2> HIDE DEF y
    <2>8. Len(m) <= MaxFrags /\ Len(y) >= 1 BY <1>2, <2>3, <2>7
    <2> QED BY <2>2, <2>4, <2>7, <2>8
  <1>4. ASSUME NEW n \in 1 .. MaxFrags, Send(n)
        PROVE  \E m \in Message, x \in Seq(Nat) :
              /\ Len(m) = Len(x) /\ Len(m) <= MaxFrags /\ Len(x) >= 1 /\ (Exact => m = x)
              /\ send_rx' = Append(send_rx, m) /\ app'.accepted = app.accepted \o x
              /\ app'.before_close = app.before_close /\ ~Gone /\ UNCHANGED <<actor, eng, peer>>
    <2> DEFINE m == [i \in 1 .. n |-> app.offered + 1]
    <2>1. n \in Nat /\ app.offered + 1 \in Nat BY <1>1 DEF AppStates
    <2>2. m \in Seq(Nat) /\ Len(m) = n BY <2>1, SameSegments
    <2>3. /\ send_rx' = Append(send_rx, m) /\ app'.accepted = app.accepted \o m
          /\ app'.before_close = app.before_close /\ ~Gone /\ UNCHANGED <<actor, eng, peer>>
      BY <1>1, <1>4 DEF Send, AppStates
    <2> HIDE DEF m
    <2>4. Len(m) <= MaxFrags /\ Len(m) >= 1 BY <1>2, <2>2
    <2> QED BY <2>2, <2>3, <2>4 DEF Message
  <1> QED BY <1>3, <1>4

\* The others.
LEMMA OutOthers == ASSUME TypeOK, Outward, Next, ~(ActorNext /\ Aside) PROVE Outward'
  <1>1. /\ eng \in Engines /\ send_rx \in Seq(Message) /\ app.accepted \in Seq(Nat)
        /\ eng.out \in Seq(Nat)
    BY Counters DEF TypeOK, ChannelsOK, AppStates
  <1>2. UNCHANGED <<actor, eng>> BY OthersLeave
  <1>3. Parked' BY ParkedOthers DEF Outward
  <1>4. (Gone' <=> Gone) /\ (Open' <=> Open) BY <1>2 DEF Gone, Open
  <1>5. CASE UNCHANGED send_rx /\ app'.accepted = app.accepted
    BY <1>2, <1>3, <1>4, <1>5 DEF Outward
  <1>6. CASE WriteReady \/ \E n \in 1 .. MaxFrags : Send(n)
    <2>1. PICK m \in Message, x \in Seq(Nat) :
              /\ Len(m) = Len(x) /\ Len(m) <= MaxFrags /\ Len(x) >= 1 /\ (Exact => m = x)
              /\ send_rx' = Append(send_rx, m) /\ app'.accepted = app.accepted \o x
              /\ app'.before_close = app.before_close /\ ~Gone /\ UNCHANGED <<actor, eng, peer>>
      BY <1>6, Accepts DEF Outward
    <2>2. PICK c : Cuts(eng.out, send_rx, app.accepted, c) BY <2>1 DEF Outward
    <2>3. Ahead(eng.out, app.accepted) BY DEF Outward
    <2>4. /\ \E d : Cuts(eng.out, Append(send_rx, m), app.accepted \o x, d)
          /\ Ahead(eng.out, app.accepted \o x)
      BY <1>1, <2>1, <2>2, <2>3, CutPut
    <2> QED BY <1>2, <1>3, <1>4, <2>1, <2>4 DEF Outward
  <1>7. CASE (\E d \in Datagram : Receive(d)) \/ PeerReceives \/ PeerWrites
    <2>1. UNCHANGED <<send_rx, app>>
      BY <1>7 DEF Receive, PeerReceives, PeerWrites, actor_vars
    <2> QED BY <1>5, <2>1
  <1> QED BY <1>5, <1>6, <1>7, OthersQuiet DEF Reaches

\* The accepted segments stay on their way.
LEMMA OutgoingHolds == Spec => [](TypeOK /\ Sync /\ Outward)
  <1>1. TypeOK /\ Sync /\ Outward /\ [Next]_vars => Outward'
    <2> SUFFICES ASSUME TypeOK, Sync, Outward, [Next]_vars PROVE Outward' OBVIOUS
    <2>1. CASE UNCHANGED vars BY <2>1 DEF vars, actor_vars, Outward, Open, Gone, Parked
    <2> QED BY <2>1, OutActor, OutOthers
  <1> QED BY <1>1, OutInit, TypeCorrect, InSync, PTL DEF Spec

\* What is accepted and not acknowledged is bounded while the stream is not closing
\* (MemoryBounded of KcpStream), whatever the application does and however its calls are
\* cancelled: a channel of messages, a queue that the actor stops filling at the
\* high-water mark, and a window.
THEOREM BoundedMemory == Spec => []MemoryBounded
  <1>1. TypeOK /\ Sync /\ Outward => MemoryBounded
    <2> SUFFICES ASSUME TypeOK, Sync, Outward, Open, ~Gone
                 PROVE  /\ send_queue_len(eng) <= SendHighWater - 1 + MaxFrags
                        /\ Len(app.accepted) - eng.una <=
                              SendCap * MaxFrags + SendHighWater - 1 + MaxFrags + SndWnd
      BY DEF MemoryBounded, Open, Gone
    <2>1. eng \in Engines /\ send_rx \in Seq(Message) /\ Len(send_rx) <= SendCap
          /\ app.accepted \in Seq(Nat)
      BY DEF TypeOK, ChannelsOK, AppStates
    <2>2. send_queue_len(eng) <= SendHighWater - 1 + MaxFrags BY DEF Outward
    <2>3. PICK c : Cuts(eng.out, send_rx, app.accepted, c) BY DEF Outward
    <2> DEFINE n == Len(send_rx)
    <2>4. n \in Nat /\ n <= SendCap /\ Len(app.accepted) \in Nat BY <2>1, LenProperties
    <2>5. Len(app.accepted) <= Len(eng.out) + n * MaxFrags
      <3>1. 0 \in 0 .. n /\ n - 0 = n BY <2>4
      <3>2. c[0] = Len(eng.out) /\ Len(app.accepted) <= c[0] + (n - 0) * MaxFrags
        BY <2>3, <3>1 DEF Cuts
      <3> HIDE DEF n
      <3> QED BY <3>1, <3>2
    <2> HIDE DEF n
    <2>6. /\ SendCap \in Nat /\ MaxFrags \in Nat /\ SendHighWater \in Nat /\ SndWnd \in Nat
      BY ActorAssumption
    <2>7. n * MaxFrags <= SendCap * MaxFrags /\ n * MaxFrags \in Nat /\ SendCap * MaxFrags \in Nat
      <3>1. \A u, v, w \in Nat : u <= v => u * w <= v * w /\ u * w \in Nat /\ v * w \in Nat
        OBVIOUS
      <3> QED BY <2>4, <2>6, <3>1
    <2>8. eng.nxt <= eng.una + SndWnd BY DEF Sync, Sending
    <2>9. Len(eng.out) \in Nat /\ eng.nxt \in Nat /\ eng.una \in Nat BY <2>1, Counters
    <2>10. Len(eng.out) - eng.nxt <= SendHighWater - 1 + MaxFrags BY <2>2 DEF send_queue_len
    <2> DEFINE held == n * MaxFrags
               most == SendCap * MaxFrags
    <2>11. /\ Len(app.accepted) <= Len(eng.out) + held /\ held <= most
           /\ held \in Nat /\ most \in Nat
      BY <2>5, <2>7
    <2> HIDE DEF held, most
    <2>12. Len(app.accepted) - eng.una <= most + SendHighWater - 1 + MaxFrags + SndWnd
      BY <2>4, <2>6, <2>8, <2>9, <2>10, <2>11, SMTT(20)
    <2> QED BY <2>2, <2>12 DEF most
  <1> QED BY <1>1, OutgoingHolds, PTL

-----------------------------------------------------------------------------
(* Every accepted segment is delivered once and in order *)

\* What the peer has received are the first of the accepted segments.
LEMMA ReceivedPart ==
    ASSUME TypeOK, Sync, Outward, Exact, NEW n \in Nat, n <= eng.wired
    PROVE  SubSeq(eng.out, 1, n) = SubSeq(app.accepted, 1, n) /\ n <= Len(app.accepted)
           /\ Len(SubSeq(eng.out, 1, n)) = n
  <1> DEFINE o == eng.out
             a == app.accepted
  <1>1. o \in Seq(Nat) /\ a \in Seq(Nat) /\ Len(o) \in Nat /\ Len(a) \in Nat
        /\ eng.wired \in Nat /\ eng.nxt \in Nat
    BY Counters, LenProperties DEF TypeOK, AppStates
  <1>2. Len(o) <= Len(a) /\ \A k \in 1 .. Len(o) : o[k] = a[k] BY DEF Outward, Ahead
  <1>3. eng.wired <= eng.nxt /\ eng.nxt <= Len(o) BY DEF Sync, Sending
  <1> HIDE DEF o, a
  <1>4. n <= Len(o) /\ n <= Len(a) BY <1>1, <1>2, <1>3
  <1>5. \A k \in 1 .. n : o[k] = a[k] BY <1>1, <1>2, <1>4
  <1>6. SubSeq(o, 1, n) = [k \in 1 .. n |-> o[k]] /\ SubSeq(a, 1, n) = [k \in 1 .. n |-> a[k]]
        /\ Len(SubSeq(o, 1, n)) = n
    BY <1>1, <1>4
  <1> QED BY <1>4, <1>5, <1>6 DEF o, a

\* What the peer has received stays where it is when the engine's sequence grows.
LEMMA FirstKept ==
    ASSUME NEW s \in Seq(Nat), NEW t \in Seq(Nat), NEW n \in Nat, n <= Len(s)
    PROVE  SubSeq(s \o t, 1, n) = SubSeq(s, 1, n)
  <1>1. Len(s) \in Nat /\ Len(t) \in Nat BY LenProperties
  <1>2. /\ s \o t \in Seq(Nat) /\ Len(s \o t) = Len(s) + Len(t)
        /\ \A k \in 1 .. Len(s) + Len(t) : (s \o t)[k] = IF k <= Len(s) THEN s[k] ELSE t[k - Len(s)]
    BY ConcatProperties
  <1> DEFINE u == s \o t
  <1>3. u \in Seq(Nat) /\ Len(u) \in Nat /\ n <= Len(u) BY <1>1, <1>2
  <1>4. \A k \in 1 .. n : u[k] = s[k]
    <2> TAKE k \in 1 .. n
    <2>1. k \in 1 .. Len(s) + Len(t) /\ k <= Len(s) BY <1>1
    <2> QED BY <1>2, <2>1
  <1> HIDE DEF u
  <1>5. SubSeq(u, 1, n) = [k \in 1 .. n |-> u[k]] /\ SubSeq(s, 1, n) = [k \in 1 .. n |-> s[k]]
    BY <1>1, <1>3
  <1>6. SubSeq(u, 1, n) = SubSeq(s, 1, n) BY <1>4, <1>5
  <1> QED BY <1>6 DEF u

\* The actor moves segments but neither writes nor reads.
LEMMA ActorCarries ==
    ASSUME TypeOK, Sync, ActorNext, Aside
    PROVE  UNCHANGED <<app.accepted, SubSeq(eng.out, 1, peer.got)>>
  <1>1. Takes \/ Works BY ActorStep
  <1>2. eng \in Engines /\ app' = app /\ peer' = peer /\ peer.got \in Nat /\ peer.got <= Len(eng.out)
        /\ eng.out \in Seq(Nat)
    <2>1. eng \in Engines /\ app' = app /\ peer' = peer /\ peer.got \in Nat BY DEF TypeOK, Aside
    <2>2. peer.got <= eng.wired /\ eng.wired <= eng.nxt /\ eng.nxt <= Len(eng.out)
      BY DEF Sync, Sending
    <2> QED BY <2>1, <2>2, Counters
  <1>3. CASE Takes
    <2>1. Head(send_rx) \in Seq(Nat)
      <3>1. send_rx \in Seq(Message) /\ Len(send_rx) <= SendCap BY DEF TypeOK, ChannelsOK
      <3> QED BY <1>3, <3>1, TakeType, Capacities DEF Takes, Message
    <2>2. eng'.out = eng.out \o Head(send_rx) BY <1>2, <1>3 DEF Takes, engine_send, Engines
    <2> QED BY <1>2, <2>1, <2>2, FirstKept
  <1>4. CASE Works
    <2>1. PICK e \in Engines :
        /\ Worked(eng, e) /\ Sending(e, peer.got) /\ Receiving(e, peer.sent)
        /\ drain_recv(e) \/ (eng' = e /\ UNCHANGED data_rx)
      BY <1>4 DEF Works
    <2>2. eng'.out = e.out BY <2>1, DrainWorks DEF TypeOK
    <2>3. eng'.out = eng.out BY <2>1, <2>2 DEF Worked
    <2> QED BY <1>2, <2>3
  <1> QED BY <1>1, <1>3, <1>4

\* Each step writes, reads or does neither.
LEMMA OutgoingStep ==
    ASSUME TypeOK, Sync, Outward, Exact, Next
    PROVE  Outgoing!Next \/ UNCHANGED Outgoing!vars
  <1>1. /\ eng \in Engines /\ app.accepted \in Seq(Nat) /\ peer \in [got : Nat, sent : Nat]
        /\ peer.got \in Nat /\ eng.wired \in Nat
    BY Counters DEF TypeOK, AppStates
  <1>2. peer.got <= eng.wired BY DEF Sync, Sending
  <1>3. CASE ActorNext /\ Aside BY <1>3, ActorCarries DEF Outgoing!vars
  <1>4. CASE WriteReady \/ \E n \in 1 .. MaxFrags : Send(n)
    <2>1. PICK m \in Message, x \in Seq(Nat) :
              /\ Len(x) >= 1 /\ app'.accepted = app.accepted \o x /\ UNCHANGED <<eng, peer>>
      BY <1>4, Accepts DEF Outward
    <2> DEFINE a == app.accepted
               b == app'.accepted
    <2>2. a \in Seq(Nat) /\ b = a \o x /\ Len(a) \in Nat /\ Len(x) \in Nat
      BY <1>1, <2>1, LenProperties
    <2> HIDE DEF a, b
    <2>3. Len(b) = Len(a) + Len(x) BY <2>2, ConcatProperties
    <2>4. Len(b) > Len(a) BY <2>1, <2>2, <2>3
    <2>5. SubSeq(b, 1, Len(a)) = SubSeq(a, 1, Len(a)) BY <2>2, FirstKept
    <2>6. SubSeq(a, 1, Len(a)) = a BY <2>2
    <2>7. SubSeq(eng.out, 1, peer.got)' = SubSeq(eng.out, 1, peer.got) BY <2>1
    <2> QED BY <2>4, <2>5, <2>6, <2>7 DEF Outgoing!Next, Outgoing!Write, a, b
  <1>5. CASE PeerReceives
    <2>1. /\ UNCHANGED <<eng, app>> /\ peer'.got = peer.got + 1 /\ peer.got < eng.wired
      BY <1>1, <1>5 DEF PeerReceives, actor_vars
    <2> DEFINE n == peer.got + 1
    <2>2. n \in Nat /\ n <= eng.wired BY <1>1, <2>1
    <2>3. SubSeq(eng.out, 1, n) = SubSeq(app.accepted, 1, n) /\ n <= Len(app.accepted)
      BY <2>2, ReceivedPart
    <2>4. Len(SubSeq(eng.out, 1, peer.got)) = peer.got BY <1>1, <1>2, ReceivedPart
    <2>5. n \in (Len(SubSeq(eng.out, 1, peer.got)) + 1) .. Len(app.accepted)
      <3>1. Len(app.accepted) \in Nat BY <1>1, LenProperties
      <3> HIDE DEF n
      <3>2. n = peer.got + 1 BY DEF n
      <3> QED BY <1>1, <2>2, <2>3, <2>4, <3>1, <3>2
    <2>6. SubSeq(eng.out, 1, peer.got)' = SubSeq(app.accepted, 1, n) BY <2>1, <2>3
    <2>7. UNCHANGED app.accepted BY <2>1
    <2> HIDE DEF n
    <2> QED BY <2>5, <2>6, <2>7 DEF Outgoing!Next, Outgoing!Read
  <1>6. CASE (\E d \in Datagram : Receive(d)) \/ PeerWrites
    <2>1. UNCHANGED <<eng, app>> /\ peer'.got = peer.got
      BY <1>1, <1>6 DEF Receive, PeerWrites, actor_vars
    <2> QED BY <2>1 DEF Outgoing!vars
  <1>7. CASE ~(ActorNext /\ Aside) /\ ~Reaches
    <2>1. UNCHANGED <<eng, peer>> /\ app'.accepted = app.accepted BY <1>7, OthersQuiet
    <2> QED BY <2>1 DEF Outgoing!vars
  <1> QED BY <1>3, <1>4, <1>5, <1>6, <1>7 DEF Reaches

\* What the peer receives is what the application was told is written, once and in
\* order (OutgoingReliable of KcpStream), for every window, capacity and message size,
\* as long as no write() is dropped before it returns: poll_write hands over the chunk
\* it has parked, whatever the next call passes, so that a cancelled write may be
\* delivered in the place of the one after it.
THEOREM OutgoingDelivered == ASSUME "cancel" \notin Calls PROVE Spec => OutgoingReliable
  <1>1. Exact BY DEF Exact
  <1>2. Init => Outgoing!Init
    <2> SUFFICES ASSUME Init PROVE Outgoing!Init OBVIOUS
    <2>1. eng.out = <<>> /\ peer.got = 0 /\ app.accepted = <<>>
      BY DEF Init, new_with_conv, new_server_stream, Established, new_engine
    <2> QED BY <2>1 DEF Outgoing!Init
  <1>3. TypeOK /\ Sync /\ Outward /\ [Next]_vars => [Outgoing!Next]_Outgoing!vars
    <2> SUFFICES ASSUME TypeOK, Sync, Outward, [Next]_vars PROVE [Outgoing!Next]_Outgoing!vars
      OBVIOUS
    <2>1. CASE UNCHANGED vars BY <2>1 DEF vars, actor_vars, Outgoing!vars
    <2> QED BY <1>1, <2>1, OutgoingStep
  <1> QED BY <1>2, <1>3, OutgoingHolds, PTL DEF Spec, OutgoingReliable, Outgoing!Spec

-----------------------------------------------------------------------------
(* A graceful end leaves nothing behind *)

\* The end is asked for, or has been.
HasClose == \E i \in 1 .. Len(cmd_rx) : cmd_rx[i] = "close"

Asking ==
    \/ dropped \/ HasClose \/ actor.at = "close" \/ actor.closing
    \/ stream.shutdown # "none" \/ app.call = "close_send"

\* Whoever makes the actor close has noted what was accepted by then, and an actor that
\* closes has taken all of it.
Ending ==
    /\ app.before_close \in Nat \cup {NotYet}
    /\ app.before_close <= Len(app.accepted)
    /\ Asking => app.before_close # NotYet
    /\ actor.closing => app.before_close <= Len(eng.out)

\* Taking a command or adding one.
LEMMA CloseKept ==
    ASSUME TypeOK,
           \/ cmd_rx' = cmd_rx \/ cmd_rx' = <<>>
           \/ cmd_rx # <<>> /\ cmd_rx' = Tail(cmd_rx)
           \/ \E c \in {"flush", "query"} : cmd_rx' = Append(cmd_rx, c)
    PROVE  HasClose' => HasClose
  <1>1. cmd_rx \in Seq({"flush", "query", "close"}) /\ Len(cmd_rx) \in Nat
    BY LenProperties DEF TypeOK, ChannelsOK
  <1>2. CASE cmd_rx' = cmd_rx BY <1>2 DEF HasClose
  <1>3. CASE cmd_rx' = <<>> BY <1>3 DEF HasClose
  <1>4. CASE cmd_rx # <<>> /\ cmd_rx' = Tail(cmd_rx)
    <2>1. Len(cmd_rx) # 0 BY <1>1, <1>4, EmptySeq
    <2>2. Len(cmd_rx') = Len(cmd_rx) - 1 /\ \A i \in 1 .. Len(cmd_rx) - 1 : cmd_rx'[i] = cmd_rx[i + 1]
      BY <1>1, <1>4, HeadTailProperties
    <2>3. \A i \in 1 .. Len(cmd_rx) - 1 : i + 1 \in 1 .. Len(cmd_rx) BY <1>1
    <2> QED BY <2>2, <2>3 DEF HasClose
  <1>5. ASSUME NEW c \in {"flush", "query"}, cmd_rx' = Append(cmd_rx, c) PROVE HasClose' => HasClose
    <2>1. Len(cmd_rx') = Len(cmd_rx) + 1 /\ cmd_rx'[Len(cmd_rx) + 1] = c
          /\ \A i \in 1 .. Len(cmd_rx) : cmd_rx'[i] = cmd_rx[i]
      BY <1>1, <1>5, AppendProperties
    <2>2. \A i \in 1 .. Len(cmd_rx) + 1 : i = Len(cmd_rx) + 1 \/ i \in 1 .. Len(cmd_rx) BY <1>1
    <2>3. c # "close" OBVIOUS
    <2> QED BY <2>1, <2>2, <2>3 DEF HasClose
  <1> QED BY <1>2, <1>3, <1>4, <1>5

\* The actor closes when it is asked to.
LEMMA ActorAsked ==
    ASSUME TypeOK, ActorNext, Aside
    PROVE  (Asking' => Asking) /\ (actor'.closing => actor.closing \/ BeginClosing)
  <1>1. actor \in Actors /\ UNCHANGED <<stream, app>> BY DEF TypeOK, Aside
  <1>2. CASE Start
    <2>1. UNCHANGED <<cmd_rx, dropped>> /\ actor'.at # "close" /\ actor'.closing = actor.closing
      BY <1>1, <1>2 DEF Start, ends, Actors
    <2> QED BY <1>1, <2>1 DEF Asking, HasClose
  <1>3. CASE Timer \/ Input \/ InputClosed \/ DataFlush
    <2>1. /\ UNCHANGED dropped
          /\ End \/ (actor'.at # "close" /\ actor'.closing = actor.closing /\ cmd_rx' = cmd_rx)
      <3>1. CASE Timer BY <1>1, <3>1 DEF Timer, ends
      <3>2. CASE Input BY <1>1, <3>2 DEF Input, ends
      <3>3. CASE InputClosed BY <1>1, <3>3 DEF InputClosed, ends
      <3>4. CASE DataFlush BY <1>1, <3>4 DEF DataFlush, ends, Actors
      <3> QED BY <1>3, <3>1, <3>2, <3>3, <3>4
    <2>2. actor'.at # "close" /\ actor'.closing = actor.closing /\ (cmd_rx' = <<>> \/ cmd_rx' = cmd_rx)
      BY <2>1, EndType
    <2> QED BY <1>1, <2>1, <2>2, CloseKept DEF Asking
  <1>4. CASE FlushCmd \/ QueryCmd
    <2>1. UNCHANGED <<actor, dropped>> /\ cmd_rx # <<>> /\ cmd_rx' = Tail(cmd_rx)
      BY <1>4 DEF FlushCmd, QueryCmd
    <2> QED BY <1>1, <2>1, CloseKept DEF Asking
  <1>5. CASE CloseCmd
    <2>1. HasClose \/ dropped
      <3>1. CASE commands_closed BY <3>1 DEF commands_closed
      <3>2. CASE cmd_rx # <<>> /\ Head(cmd_rx) = "close"
        <4>1. cmd_rx \in Seq({"flush", "query", "close"}) /\ Len(cmd_rx) \in Nat
          BY LenProperties DEF TypeOK, ChannelsOK
        <4>2. Len(cmd_rx) # 0 /\ Head(cmd_rx) = cmd_rx[1] BY <3>2, <4>1, EmptySeq, HeadTailProperties
        <4>3. 1 \in 1 .. Len(cmd_rx) BY <4>1, <4>2
        <4> QED BY <3>2, <4>2, <4>3 DEF HasClose
      <3> QED BY <1>5, <3>1, <3>2 DEF CloseCmd
    <2>2. actor'.closing = actor.closing BY <1>1, <1>5 DEF CloseCmd, Actors
    <2> QED BY <2>1, <2>2 DEF Asking
  <1>6. CASE AbsorbAll \/ BeginClosing
    <2>1. actor.at = "close" BY <1>6 DEF AbsorbAll, BeginClosing
    <2>2. AbsorbAll => actor' = actor BY DEF AbsorbAll
    <2> QED BY <1>6, <2>1, <2>2 DEF Asking
  <1>7. CASE Data \/ DataClosed
    <2>1. UNCHANGED <<cmd_rx, dropped>> /\ actor'.at # "close" /\ actor'.closing = actor.closing
      BY <1>1, <1>7 DEF Data, DataClosed, ends, Actors
    <2> QED BY <1>1, <2>1 DEF Asking, HasClose
  <1>8. CASE DeadlinePasses
    <2>1. UNCHANGED <<cmd_rx, dropped>> /\ actor'.at = actor.at /\ actor'.closing = actor.closing
      BY <1>1, <1>8 DEF DeadlinePasses, ends, Actors
    <2> QED BY <1>1, <2>1 DEF Asking, HasClose
  <1> QED BY <1>2, <1>3, <1>4, <1>5, <1>6, <1>7, <1>8 DEF ActorNext

\* The actor only adds to the engine's segments.
LEMMA OutGrows == ASSUME TypeOK, Sync, Outward, ActorNext, Aside PROVE Len(eng'.out) >= Len(eng.out)
  <1>1. Takes \/ Works BY ActorStep
  <1>2. eng \in Engines /\ send_rx \in Seq(Message) /\ app.accepted \in Seq(Nat)
        /\ eng.out \in Seq(Nat) /\ Len(eng.out) \in Nat
    BY Counters DEF TypeOK, ChannelsOK, AppStates
  <1>3. CASE Takes
    <2>1. Head(send_rx) \in Seq(Nat)
      <3>1. Len(send_rx) <= SendCap BY DEF TypeOK, ChannelsOK
      <3> QED BY <1>2, <1>3, <3>1, TakeType, Capacities DEF Takes, Message
    <2>2. eng'.out = eng.out \o Head(send_rx) BY <1>2, <1>3 DEF Takes, engine_send, Engines
    <2>3. Len(eng'.out) = Len(eng.out) + Len(Head(send_rx)) /\ Len(Head(send_rx)) \in Nat
      BY <1>2, <2>1, <2>2, ConcatProperties, LenProperties
    <2> QED BY <1>2, <2>3
  <1>4. CASE Works
    <2>1. PICK e \in Engines :
        /\ Worked(eng, e) /\ Sending(e, peer.got) /\ Receiving(e, peer.sent)
        /\ drain_recv(e) \/ (eng' = e /\ UNCHANGED data_rx)
      BY <1>4 DEF Works
    <2>2. eng'.out = e.out BY <2>1, DrainWorks DEF TypeOK
    <2>3. eng'.out = eng.out BY <2>1, <2>2 DEF Worked
    <2> QED BY <1>2, <2>3
  <1> QED BY <1>1, <1>3, <1>4

\* The actor.
LEMMA EndingActor == ASSUME TypeOK, Sync, Outward, Ending, ActorNext, Aside PROVE Ending'
  <1>1. app' = app /\ app.accepted \in Seq(Nat) /\ Len(app.accepted) \in Nat
        /\ Len(eng.out) \in Nat /\ Len(eng'.out) \in Nat
    <2>1. eng' \in Engines BY TypeActor DEF TypeOK
    <2> QED BY <2>1, Counters, LenProperties DEF Aside, TypeOK, AppStates
  <1>2. /\ app.before_close \in Nat \cup {NotYet} /\ app.before_close <= Len(app.accepted)
        /\ Asking => app.before_close # NotYet
        /\ actor.closing => app.before_close <= Len(eng.out)
    BY DEF Ending
  <1>3. (Asking' => Asking) /\ (actor'.closing => actor.closing \/ BeginClosing) BY ActorAsked
  <1>4. Len(eng'.out) >= Len(eng.out) BY OutGrows
  <1>5. BeginClosing => Len(app.accepted) = Len(eng.out)
    <2> SUFFICES ASSUME BeginClosing PROVE Len(app.accepted) = Len(eng.out) OBVIOUS
    <2>1. send_rx = <<>> /\ ~Gone BY DEF BeginClosing, all_absorbed, Gone
    <2>2. PICK c : Cuts(eng.out, send_rx, app.accepted, c) BY <2>1 DEF Outward
    <2>3. Len(send_rx) = 0 BY <2>1
    <2> QED BY <2>2, <2>3 DEF Cuts
  <1>6. app.before_close \in Int BY <1>2 DEF NotYet
  <1>7. actor'.closing => app.before_close <= Len(eng'.out)
    <2>1. actor.closing \/ BeginClosing => app.before_close <= Len(eng.out) BY <1>2, <1>5
    <2> QED BY <1>1, <1>3, <1>4, <1>6, <2>1
  <1> QED BY <1>1, <1>2, <1>3, <1>7 DEF Ending

\* A command that is sent, or not for want of a receiver.
LEMMA SendsClose ==
    ASSUME TypeOK, NEW c \in {"flush", "query"}, Sends(c) PROVE HasClose' => HasClose
  BY CloseKept DEF Sends

\* Every other step that has the actor close notes what was accepted, and what is noted
\* stays.
LEMMA OthersAsk ==
    ASSUME TypeOK, Exact, Next, ~(ActorNext /\ Aside)
    PROVE  \/ app'.before_close = app.before_close /\ (Asking' => Asking)
           \/ /\ app'.before_close = IF app.before_close = NotYet THEN Len(app.accepted)
                                     ELSE app.before_close
              /\ app'.accepted = app.accepted
  <1>1. stream \in StreamStates /\ app \in AppStates BY DEF TypeOK
  <1>2. UNCHANGED actor BY OthersLeave
  <1> DEFINE Same == /\ app'.before_close = app.before_close
                     /\ app'.call = "close_send" => app.call = "close_send"
                     /\ stream'.shutdown # "none" => stream.shutdown # "none"
                     /\ UNCHANGED dropped
  <1>3. Same /\ (HasClose' => HasClose) => app'.before_close = app.before_close /\ (Asking' => Asking)
    BY <1>2 DEF Asking
  <1>4. UNCHANGED cmd_rx => (HasClose' => HasClose) BY DEF HasClose
  <1>5. CASE WriteReady \/ WritePending \/ WriteFails \/ WriteCancelled
    BY <1>1, <1>3, <1>4, <1>5 DEF WriteReady, WritePending, WriteFails, WriteCancelled, actor_vars,
       ends, AppStates, StreamStates
  <1>6. CASE \E n \in 1 .. MaxFrags : Send(n)
    BY <1>1, <1>3, <1>4, <1>6 DEF Send, ends, AppStates
  <1>7. CASE FlushStart \/ FlushDone \/ Query \/ QueryDone
    BY <1>1, <1>3, <1>4, <1>7 DEF FlushStart, FlushDone, Query, QueryDone, actor_vars,
       ends, AppStates, StreamStates
  <1>8. CASE FlushSend
    <2>1. Sends("flush") /\ UNCHANGED <<dropped, app>> /\ stream'.shutdown = stream.shutdown
      BY <1>1, <1>8 DEF FlushSend, StreamStates
    <2> QED BY <1>3, <2>1, SendsClose
  <1>9. CASE QuerySend
    <2>1. Sends("query") /\ UNCHANGED <<dropped, stream>>
          /\ app'.before_close = app.before_close /\ app'.call # "close_send"
      BY <1>1, <1>9 DEF QuerySend, AppStates
    <2> QED BY <1>3, <2>1, SendsClose
  <1>10. CASE \E n \in 1 .. 2 : ReadBuffered(n)
    BY <1>1, <1>3, <1>4, <1>10 DEF ReadBuffered, Reads, actor_vars, ends, AppStates, StreamStates
  <1>11. CASE \E n \in 1 .. 2 : ReadMessage(n)
    BY <1>1, <1>3, <1>4, <1>11 DEF ReadMessage, Reads, ends, AppStates, StreamStates
  <1>12. CASE ReadEof \/ Recv
    BY <1>1, <1>3, <1>4, <1>12 DEF ReadEof, Recv, actor_vars, ends, AppStates
  <1>13. asked.accepted = app.accepted /\ asked \in AppStates
         /\ asked.before_close = IF app.before_close = NotYet THEN Len(app.accepted)
                                 ELSE app.before_close
    BY <1>1, AskedType DEF asked, AppStates
  <1> HIDE DEF asked
  <1>14. CASE ShutdownStart BY <1>13, <1>14 DEF ShutdownStart
  <1>15. CASE Close BY <1>13, <1>15 DEF Close, AppStates
  <1>16. CASE Drop BY <1>13, <1>16 DEF Drop, AppStates
  <1>17. CASE ShutdownSend
    <2>1. stream.shutdown # "none" /\ UNCHANGED app BY <1>17 DEF ShutdownSend
    <2> QED BY <2>1 DEF Asking
  <1>18. CASE ShutdownDone
    BY <1>1, <1>3, <1>4, <1>18 DEF ShutdownDone, actor_vars, ends, StreamStates
  <1>19. CASE CloseSend
    <2>1. app.call = "close_send" /\ app'.before_close = app.before_close
      BY <1>1, <1>19 DEF CloseSend, AppStates
    <2> QED BY <2>1 DEF Asking
  <1>20. CASE CloseReturn BY <1>1, <1>3, <1>4, <1>20 DEF CloseReturn, AppStates
  <1>21. CASE CloseCancelled BY <1>21 DEF CloseCancelled, Exact
  <1>22. CASE (\E d \in Datagram : Receive(d)) \/ ReceiveFails \/ ListenerDropped \/ FeederStops
              \/ PeerReceives \/ PeerWrites
    BY <1>3, <1>4, <1>22 DEF Receive, ReceiveFails, ListenerDropped, FeederStops, PeerReceives,
       PeerWrites, actor_vars, ends
  <1> QED BY <1>5, <1>6, <1>7, <1>8, <1>9, <1>10, <1>11, <1>12, <1>14, <1>15, <1>16, <1>17, <1>18,
             <1>19, <1>20, <1>21, <1>22 DEF Next, Poll, Aside

\* What is accepted only grows.
LEMMA AcceptedGrows ==
    ASSUME TypeOK, Parked, Next, ~(ActorNext /\ Aside)
    PROVE  Len(app'.accepted) >= Len(app.accepted)
  <1>1. app.accepted \in Seq(Nat) /\ Len(app.accepted) \in Nat
    BY LenProperties DEF TypeOK, AppStates
  <1>2. CASE WriteReady \/ \E n \in 1 .. MaxFrags : Send(n)
    <2>1. PICK m \in Message, x \in Seq(Nat) : app'.accepted = app.accepted \o x BY <1>2, Accepts
    <2>2. Len(app'.accepted) = Len(app.accepted) + Len(x) /\ Len(x) \in Nat
      BY <1>1, <2>1, ConcatProperties, LenProperties
    <2> QED BY <1>1, <2>2
  <1>3. CASE (\E d \in Datagram : Receive(d)) \/ PeerReceives \/ PeerWrites
    <2>1. UNCHANGED app BY <1>3 DEF Receive, PeerReceives, PeerWrites
    <2> QED BY <1>1, <2>1
  <1>4. CASE ~Reaches BY <1>1, <1>4, OthersQuiet
  <1> QED BY <1>2, <1>3, <1>4 DEF Reaches

\* The others.
LEMMA EndingOthers ==
    ASSUME TypeOK, Outward, Exact, Ending, Next, ~(ActorNext /\ Aside) PROVE Ending'
  <1> DEFINE b == app.before_close
             l == Len(app.accepted)
             x == app'.before_close
             m == Len(app'.accepted)
  <1>1. l \in Nat /\ m \in Nat
    <2>1. app'.accepted \in Seq(Nat)
      <3>1. TypeOK' BY TypeNext
      <3> QED BY <3>1 DEF TypeOK, AppStates
    <2> QED BY <2>1, LenProperties DEF TypeOK, AppStates
  <1>2. UNCHANGED <<actor, eng>> BY OthersLeave
  <1>3. m >= l BY AcceptedGrows DEF Outward
  <1>4. /\ b \in Nat \cup {NotYet} /\ b <= l /\ (Asking => b # NotYet)
        /\ (actor.closing => b <= Len(eng.out))
    BY DEF Ending
  <1>5. \/ x = b /\ (Asking' => Asking)
        \/ x = (IF b = NotYet THEN l ELSE b) /\ m = l
    <2>1. app'.accepted = app.accepted => m = l OBVIOUS
    <2> QED BY <2>1, OthersAsk
  <1>6. actor.closing => Asking BY DEF Asking
  <1> HIDE DEF b, l, x, m
  <1>7. x \in Nat \cup {NotYet} /\ x <= m BY <1>1, <1>3, <1>4, <1>5 DEF NotYet
  <1>8. Asking' => x # NotYet
    <2>1. l # NotYet BY <1>1 DEF NotYet
    <2> QED BY <1>4, <1>5, <2>1
  <1>9. actor.closing => x = b BY <1>4, <1>5, <1>6
  <1> QED BY <1>2, <1>4, <1>7, <1>8, <1>9 DEF Ending, b, l, x, m

\* An actor that ends because everything is acknowledged leaves nothing behind
\* (GracefulEnd of KcpStream): all that was accepted before close(), shutdown() or drop
\* has reached the peer, wherever it was when the end was asked for, for every capacity,
\* window and way of failing, as long as no call is cancelled.
THEOREM EndIsGraceful == ASSUME "cancel" \notin Calls PROVE Spec => []GracefulEnd
  <1>1. Exact BY DEF Exact
  <1>2. Init => Ending
    <2> SUFFICES ASSUME Init PROVE Ending OBVIOUS
    <2>1. /\ app.before_close = NotYet /\ app.accepted = <<>> /\ ~dropped /\ cmd_rx = <<>>
          /\ actor.at = "start" /\ ~actor.closing /\ stream.shutdown = "none" /\ app.call = "none"
      BY DEF Init, new_with_conv, new_server_stream, Established
    <2>2. ~Asking BY <2>1 DEF Asking, HasClose
    <2>3. Len(<<>>) = 0 OBVIOUS
    <2> QED BY <2>1, <2>2, <2>3 DEF Ending, NotYet
  <1>3. TypeOK /\ Sync /\ Outward /\ Ending /\ [Next]_vars => Ending'
    <2> SUFFICES ASSUME TypeOK, Sync, Outward, Ending, [Next]_vars PROVE Ending' OBVIOUS
    <2>1. CASE UNCHANGED vars BY <2>1 DEF vars, actor_vars, ends, Ending, Asking, HasClose
    <2> QED BY <1>1, <2>1, EndingActor, EndingOthers
  <1>4. TypeOK /\ Sync /\ Outward /\ Ending => GracefulEnd
    <2> SUFFICES ASSUME TypeOK, Sync, Outward, Ending, actor.closing, ~has_unsent_data(eng)
                 PROVE  IsPrefix(SubSeq(app.accepted, 1, app.before_close),
                                 SubSeq(eng.out, 1, peer.got))
      BY DEF GracefulEnd
    <2> DEFINE a == app.accepted
               b == app.before_close
               g == peer.got
               p == SubSeq(a, 1, b)
               q == SubSeq(a, 1, g)
    <2>1. eng \in Engines /\ a \in Seq(Nat) /\ Len(a) \in Nat /\ g \in Nat
          /\ Len(eng.out) \in Nat /\ eng.una \in Nat /\ eng.nxt \in Nat /\ eng.wired \in Nat
      BY Counters, LenProperties DEF TypeOK, AppStates
    <2>2. b \in Nat /\ b <= Len(a) /\ b <= Len(eng.out) BY DEF Ending, Asking
    <2>3. g = Len(eng.out)
      <3>1. ~(Len(eng.out) - eng.nxt > 0) /\ ~(eng.una < eng.nxt)
        BY DEF has_unsent_data, send_queue_len
      <3>2. eng.nxt <= Len(eng.out) /\ eng.una <= g /\ g <= eng.wired /\ eng.wired <= eng.nxt
        BY DEF Sync, Sending
      <3> HIDE DEF g
      <3> QED BY <2>1, <3>1, <3>2
    <2>4. SubSeq(eng.out, 1, g) = q /\ g <= Len(a)
      <3>1. g <= eng.wired BY DEF Sync, Sending
      <3> QED BY <1>1, <2>1, <3>1, ReceivedPart
    <2> HIDE DEF a, b, g
    <2>5. b <= g BY <2>2, <2>3
    <2>6. /\ p = [k \in 1 .. b |-> a[k]] /\ p \in Seq(Nat) /\ Len(p) = b
          /\ q = [k \in 1 .. g |-> a[k]] /\ q \in Seq(Nat) /\ Len(q) = g
      BY <2>1, <2>2, <2>4, SMTT(20)
    <2> HIDE DEF p, q
    <2>7. SubSeq(p, 1, b) = [k \in 1 .. b |-> p[k]] /\ SubSeq(q, 1, b) = [k \in 1 .. b |-> q[k]]
      BY <2>1, <2>2, <2>5, <2>6
    <2>8. \A k \in 1 .. b : p[k] = a[k] /\ q[k] = a[k]
      <3>1. \A k \in 1 .. b : k \in 1 .. g BY <2>1, <2>2, <2>5
      <3> QED BY <2>6, <3>1
    <2>9. SubSeq(p, 1, b) = SubSeq(q, 1, b) BY <2>7, <2>8
    <2>10. Len(p) = b /\ Len(p) <= Len(q) BY <2>5, <2>6
    <2>11. IsPrefix(p, q) BY <2>9, <2>10, Zenon DEF IsPrefix
    <2> QED BY <2>4, <2>11 DEF a, b, g, p, q
  <1> QED BY <1>2, <1>3, <1>4, OutgoingHolds, PTL DEF Spec

-----------------------------------------------------------------------------
(* Runs of bytes *)

\* The n bytes that follow the first x.
Run(x, n) == [i \in 1 .. n |-> x + i]

\* A run is a sequence of bytes.
LEMMA RunType ==
    ASSUME NEW x \in Nat, NEW n \in Nat
    PROVE  /\ Run(x, n) \in Seq(Int) /\ Len(Run(x, n)) = n
           /\ \A i \in 1 .. n : Run(x, n)[i] = x + i
  <1>1. \A i \in 1 .. n : x + i \in Int OBVIOUS
  <1> QED BY <1>1 DEF Run

\* A sequence that counts on is a run.
LEMMA IsRun ==
    ASSUME NEW s \in Seq(Int), NEW x \in Nat, NEW n \in Nat, Len(s) = n,
           \A i \in 1 .. n : s[i] = x + i
    PROVE  s = Run(x, n)
  <1>1. s = [i \in 1 .. Len(s) |-> s[i]] OBVIOUS
  <1> QED BY <1>1 DEF Run

\* A run and the next.
LEMMA JoinRuns ==
    ASSUME NEW x \in Nat, NEW m \in Nat, NEW n \in Nat
    PROVE  Run(x, m) \o Run(x + m, n) = Run(x, m + n)
  <1> DEFINE s == Run(x, m)
             t == Run(x + m, n)
             u == s \o t
  <1>1. x + m \in Nat /\ m + n \in Nat OBVIOUS
  <1>2. /\ s \in Seq(Int) /\ Len(s) = m /\ \A i \in 1 .. m : s[i] = x + i
        /\ t \in Seq(Int) /\ Len(t) = n /\ \A i \in 1 .. n : t[i] = (x + m) + i
    BY <1>1, RunType
  <1> HIDE DEF s, t
  <1>3. /\ u \in Seq(Int) /\ Len(u) = m + n
        /\ \A i \in 1 .. m + n : u[i] = IF i <= m THEN s[i] ELSE t[i - m]
    <2>1. s \in Seq(Int) /\ t \in Seq(Int) /\ Len(s) = m /\ Len(t) = n BY <1>2
    <2> QED BY <2>1, ConcatProperties
  <1> HIDE DEF u
  <1>4. ASSUME NEW i \in 1 .. m + n PROVE u[i] = x + i
    <2>1. CASE i <= m
      <3>1. i \in 1 .. m BY <2>1
      <3> QED BY <1>2, <1>3, <2>1, <3>1
    <2>2. CASE ~(i <= m)
      <3>1. i - m \in 1 .. n /\ (x + m) + (i - m) = x + i BY <2>2
      <3> QED BY <1>2, <1>3, <2>2, <3>1
    <2> QED BY <2>1, <2>2
  <1>5. u = Run(x, m + n) BY <1>1, <1>3, <1>4, IsRun
  <1> QED BY <1>5 DEF s, t, u

\* The bytes of a message.
LEMMA PairIsRun == ASSUME NEW b \in Nat PROVE bytes_of(b + 1) = Run(2 * b, 2)
  <1> DEFINE s == bytes_of(b + 1)
  <1>1. s = <<2 * (b + 1) - 1, 2 * (b + 1)>> BY DEF bytes_of
  <1>2. 2 * (b + 1) - 1 = 2 * b + 1 /\ 2 * (b + 1) = 2 * b + 2 /\ 2 * b \in Nat OBVIOUS
  <1> HIDE DEF s
  <1>3. s \in Seq(Int) /\ Len(s) = 2 /\ s[1] = 2 * b + 1 /\ s[2] = 2 * b + 2
    <2> DEFINE u == 2 * b + 1
               v == 2 * b + 2
    <2>1. s = <<u, v>> BY <1>1, <1>2
    <2>2. u \in Int /\ v \in Int OBVIOUS
    <2> HIDE DEF u, v
    <2>3. s \in Seq(Int) /\ Len(s) = 2 /\ s[1] = u /\ s[2] = v BY <2>1, <2>2
    <2> QED BY <2>3 DEF u, v
  <1>4. \A i \in 1 .. 2 : s[i] = 2 * b + i
    <2>1. \A i \in 1 .. 2 : i = 1 \/ i = 2 OBVIOUS
    <2> QED BY <1>3, <2>1
  <1>5. s = Run(2 * b, 2) BY <1>2, <1>3, <1>4, IsRun
  <1> QED BY <1>5 DEF s

\* A nonempty set of naturals has a least element.
LEMMA LeastOf ==
    ASSUME NEW T, T \subseteq Nat, T # {} PROVE \E x \in T : \A y \in T : x <= y
  <1> DEFINE Before == {p \in Nat \X Nat : p[1] < p[2]}
  <1>1. IsWellFoundedOn(Before, Nat) BY NatLessThanWellFounded DEF OpToRel
  <1> HIDE DEF Before
  <1>2. PICK x \in T : \A y \in T : ~(<<y, x>> \in Before) BY <1>1, WFMin
  <1>3. ASSUME NEW y \in T PROVE x <= y
    <2>1. <<y, x>> \in Nat \X Nat /\ <<y, x>> \notin Before BY <1>2
    <2>2. <<y, x>>[1] = y /\ <<y, x>>[2] = x OBVIOUS
    <2>3. ~(y < x) BY <2>1, <2>2 DEF Before
    <2> QED BY <2>3
  <1> QED BY <1>3

\* The bytes of messages that follow each other.
LEMMA FlattenPairs ==
    ASSUME NEW b \in Nat, NEW n \in Nat
    PROVE  FlattenSeq([i \in 1 .. n |-> bytes_of(b + i)]) = Run(2 * b, 2 * n)
  <1> DEFINE s == [i \in 1 .. n |-> bytes_of(b + i)]
             R(i) == Run(2 * b, 2 * i)
             Body(f) == [i \in 1 .. n |-> IF i = 1 THEN s[i] ELSE f[i - 1] \o s[i]]
             g == [i \in 1 .. n |-> R(i)]
  <1>1. Len(s) = n OBVIOUS
  <1>2. CASE n = 0
    <2>1. FlattenSeq(s) = s BY <1>1, <1>2 DEF FlattenSeq
    <2>2. s = Run(2 * b, 2 * n) BY <1>2 DEF Run
    <2> QED BY <2>1, <2>2
  <1>3. CASE n # 0
    <2>1. ASSUME NEW i \in 1 .. n PROVE s[i] = Run(2 * b + 2 * (i - 1), 2)
      <3>1. b + (i - 1) \in Nat /\ (b + (i - 1)) + 1 = b + i
            /\ 2 * (b + (i - 1)) = 2 * b + 2 * (i - 1)
        OBVIOUS
      <3>2. bytes_of((b + (i - 1)) + 1) = Run(2 * (b + (i - 1)), 2) BY <3>1, PairIsRun
      <3> QED BY <3>1, <3>2
    <2>2. s[1] = R(1)
      <3>1. 1 \in 1 .. n /\ 2 * b + 2 * (1 - 1) = 2 * b /\ 2 * 1 = 2 BY <1>3
      <3> QED BY <2>1, <3>1
    <2> HIDE DEF s
    <2>3. ASSUME NEW i \in 1 .. n, i # 1 PROVE R(i - 1) \o s[i] = R(i) /\ i - 1 \in 1 .. n
      <3>1. 2 * b \in Nat /\ 2 * (i - 1) \in Nat /\ 2 * (i - 1) + 2 = 2 * i OBVIOUS
      <3>2. Run(2 * b, 2 * (i - 1)) \o Run(2 * b + 2 * (i - 1), 2) = Run(2 * b, 2 * (i - 1) + 2)
        <4>1. \A x, m, k \in Nat : Run(x, m) \o Run(x + m, k) = Run(x, m + k) BY JoinRuns
        <4> DEFINE x == 2 * b
                   m == 2 * (i - 1)
        <4>2. x \in Nat /\ m \in Nat /\ 2 \in Nat BY <3>1
        <4> HIDE DEF x, m
        <4>3. Run(x, m) \o Run(x + m, 2) = Run(x, m + 2) BY <4>1, <4>2
        <4> QED BY <4>3 DEF x, m
      <3>3. i - 1 \in 1 .. n BY <2>3
      <3> QED BY <2>1, <3>1, <3>2, <3>3
    <2> HIDE DEF R
    <2>4. g = Body(g)
      <3>1. ASSUME NEW i \in 1 .. n PROVE g[i] = IF i = 1 THEN s[i] ELSE g[i - 1] \o s[i]
        <4>1. CASE i = 1 BY <2>2, <4>1
        <4>2. CASE i # 1
          <5>1. i - 1 \in 1 .. n /\ R(i - 1) \o s[i] = R(i) BY <2>3, <4>2
          <5> QED BY <4>2, <5>1
        <4> QED BY <4>1, <4>2
      <3> QED BY <3>1
    <2>5. \E f : f = Body(f) BY <2>4
    <2> DEFINE flat == CHOOSE f : f = Body(f)
    <2>6. flat = Body(flat) BY <2>5
    <2>7. FlattenSeq(s) = flat[n] BY <1>1, <1>3 DEF FlattenSeq
    <2> HIDE DEF flat
    <2>8. \A i \in 1 .. n : flat[i] = IF i = 1 THEN s[i] ELSE flat[i - 1] \o s[i] BY <2>6
    <2> DEFINE T == {i \in 1 .. n : flat[i] # R(i)}
    <2>9. T = {}
      <3> SUFFICES ASSUME T # {} PROVE FALSE OBVIOUS
      <3>1. PICK i \in T : \A j \in T : i <= j
        <4>1. T \subseteq Nat OBVIOUS
        <4> HIDE DEF T
        <4> QED BY <4>1, LeastOf
      <3>2. i \in 1 .. n /\ flat[i] # R(i) BY <3>1
      <3>3. i # 1 BY <2>2, <2>8, <3>2
      <3>4. i - 1 \in 1 .. n /\ R(i - 1) \o s[i] = R(i) BY <2>3, <3>2, <3>3
      <3>5. i - 1 \notin T
        <4>1. ~(i <= i - 1) BY <3>2
        <4> HIDE DEF T
        <4> QED BY <3>1, <4>1
      <3>6. flat[i - 1] = R(i - 1) BY <3>4, <3>5
      <3>7. flat[i] = flat[i - 1] \o s[i] BY <2>8, <3>2, <3>3
      <3> QED BY <3>2, <3>4, <3>6, <3>7
    <2>10. flat[n] = R(n)
      <3>1. n \in 1 .. n BY <1>3
      <3>2. n \notin T BY <2>9
      <3> QED BY <3>1, <3>2
    <2> QED BY <2>7, <2>10 DEF s, R
  <1> QED BY <1>2, <1>3

-----------------------------------------------------------------------------
(* The incoming messages *)

\* The first b messages have left the channel d; it holds the next, and the engine e
\* the rest.
Handed(b, e, d) ==
    /\ e.rcv_nxt = b + Len(d) + Len(e.rcv_queue)
    /\ \A i \in 1 .. Len(d) : d[i] = b + i

\* The bytes of the first b messages are those read, g, and those in the buffer r.
ReadUp(b, r, g) ==
    /\ Len(g) + Len(r) = 2 * b
    /\ \A i \in 1 .. Len(g) : g[i] = i
    /\ \A i \in 1 .. Len(r) : r[i] = Len(g) + i

\* The way of the messages: in the engine, in the channel, in the read buffer, read.
Inward ==
    /\ Len(app.got) <= 2 * peer.sent /\ \A i \in 1 .. Len(app.got) : app.got[i] = i
    /\ "read" \notin Calls => stream.read_buf = <<>>
    /\ ~dropped => \E b \in Nat : Handed(b, eng, data_rx) /\ ReadUp(b, stream.read_buf, app.got)

\* A new stream, whose engine may hold a message.
LEMMA InwardInit == ASSUME Init PROVE Inward
  <1>1. PICK n \in {0, 1} : Established(n) BY DEF Init, new_with_conv, new_server_stream
  <1> DEFINE q == [k \in 1 .. n |-> k]
  <1>2. eng.rcv_queue = q /\ eng.rcv_nxt = Len(q) /\ data_rx = <<>> /\ app.got = <<>>
        /\ stream.read_buf = <<>> /\ peer.sent = n
    BY <1>1 DEF Established, new_engine
  <1>3. Len(q) = n /\ n \in Nat OBVIOUS
  <1>4. Len(<<>>) = 0 OBVIOUS
  <1> HIDE DEF q
  <1>5. Handed(0, eng, data_rx) BY <1>2, <1>3, <1>4 DEF Handed
  <1>6. ReadUp(0, stream.read_buf, app.got) BY <1>2, <1>4 DEF ReadUp
  <1>7. Len(app.got) <= 2 * peer.sent BY <1>2, <1>3, <1>4
  <1> QED BY <1>2, <1>4, <1>5, <1>6, <1>7 DEF Inward

\* The actor hands messages on.
LEMMA HandedActor ==
    ASSUME TypeOK, Sync, ActorNext, Aside, NEW b \in Nat, Handed(b, eng, data_rx)
    PROVE  Handed(b, eng', data_rx')
  <1>1. Takes \/ Works BY ActorStep
  <1>2. /\ eng \in Engines /\ peer.got \in Nat /\ peer.sent \in Nat /\ data_rx \in Seq(Nat)
        /\ Len(data_rx) \in Nat
        /\ Sending(eng, peer.got) /\ Receiving(eng, peer.sent)
    BY LenProperties DEF TypeOK, ChannelsOK, Sync
  <1>3. CASE Takes
    <2>1. eng'.rcv_queue = eng.rcv_queue /\ eng'.rcv_nxt = eng.rcv_nxt /\ data_rx' = data_rx
      BY <1>2, <1>3 DEF Takes, engine_send, Engines
    <2> QED BY <2>1 DEF Handed
  <1>4. CASE Works
    <2>1. PICK e \in Engines :
        /\ Worked(eng, e) /\ Sending(e, peer.got) /\ Receiving(e, peer.sent)
        /\ drain_recv(e) \/ (eng' = e /\ UNCHANGED data_rx)
      BY <1>4 DEF Works
    <2> DEFINE q == e.rcv_queue
               d == data_rx
    <2>2. q \in Seq(Nat) /\ Len(q) \in Nat /\ e.rcv_nxt \in Nat
          /\ eng.rcv_queue \in Seq(Nat) /\ Len(eng.rcv_queue) \in Nat /\ eng.rcv_nxt \in Nat
      BY <1>2, <2>1, Counters
    <2>3. e.rcv_nxt = b + Len(d) + Len(q)
      <3>1. eng.rcv_nxt = b + Len(d) + Len(eng.rcv_queue) BY DEF Handed
      <3>2. CASE q = eng.rcv_queue /\ e.rcv_nxt = eng.rcv_nxt BY <3>1, <3>2
      <3>3. CASE q = Append(eng.rcv_queue, e.rcv_nxt) /\ e.rcv_nxt = eng.rcv_nxt + 1
        <4>1. Len(q) = Len(eng.rcv_queue) + 1 BY <2>2, <3>3, AppendProperties
        <4> DEFINE l == Len(d)
                   m == Len(eng.rcv_queue)
        <4>2. l \in Nat /\ m \in Nat /\ Len(q) = m + 1 /\ e.rcv_nxt = (b + l + m) + 1
          BY <1>2, <2>2, <3>1, <3>3, <4>1
        <4> HIDE DEF l, m, q
        <4>3. e.rcv_nxt = b + l + Len(q) BY <4>2
        <4> QED BY <4>3 DEF l
      <3> QED BY <2>1, <3>2, <3>3 DEF Worked
    <2>4. \A i \in 1 .. Len(d) : d[i] = b + i BY DEF Handed
    <2>5. CASE eng' = e /\ UNCHANGED data_rx BY <2>3, <2>4, <2>5 DEF Handed
    <2>6. CASE drain_recv(e)
      <3>1. eng'.rcv_nxt = e.rcv_nxt /\ \E n \in 0 .. Len(q) :
                 /\ data_rx' = data_rx \o SubSeq(q, 1, n)
                 /\ eng'.rcv_queue = SubSeq(q, n + 1, Len(q))
        BY <1>2, <2>1, <2>6, DrainWorks
      <3>2. PICK n \in 0 .. Len(q) :
                 /\ data_rx' = data_rx \o SubSeq(q, 1, n)
                 /\ eng'.rcv_queue = SubSeq(q, n + 1, Len(q))
        BY <3>1
      <3>3. \A i \in 1 .. Len(q) : q[i] = e.rcv_nxt - Len(q) + i BY <2>1 DEF Receiving
      <3> DEFINE p == SubSeq(q, 1, n)
                 x == data_rx'
      <3> HIDE DEF q, d
      <3>4. /\ Len(eng'.rcv_queue) = Len(q) - n
            /\ p \in Seq(Nat) /\ Len(p) = n /\ \A i \in 1 .. n : p[i] = q[i]
        BY <2>2, <3>2
      <3> HIDE DEF p
      <3>5. x = d \o p BY <3>2 DEF d, p
      <3>6. d \in Seq(Nat) /\ Len(d) \in Nat BY <1>2 DEF d
      <3> HIDE DEF x
      <3>7. /\ Len(x) = Len(d) + n
            /\ \A i \in 1 .. Len(d) + n : x[i] = IF i <= Len(d) THEN d[i] ELSE p[i - Len(d)]
        <4>1. p \in Seq(Nat) /\ Len(p) = n BY <3>4
        <4>2. /\ Len(d \o p) = Len(d) + Len(p)
              /\ \A i \in 1 .. Len(d) + Len(p) :
                    (d \o p)[i] = IF i <= Len(d) THEN d[i] ELSE p[i - Len(d)]
          BY <3>6, <4>1, ConcatProperties
        <4> QED BY <3>5, <4>1, <4>2
      <3>8. ASSUME NEW i \in 1 .. Len(x) PROVE x[i] = b + i
        <4>1. CASE i <= Len(d)
          <5>1. i \in 1 .. Len(d) /\ i \in 1 .. Len(d) + n BY <3>6, <3>7, <4>1
          <5> QED BY <2>4, <3>7, <4>1, <5>1
        <4>2. CASE ~(i <= Len(d))
          <5>1. i - Len(d) \in 1 .. n /\ i - Len(d) \in 1 .. Len(q) /\ i \in 1 .. Len(d) + n
            BY <2>2, <3>6, <3>7, <4>2
          <5>2. x[i] = e.rcv_nxt - Len(q) + (i - Len(d)) BY <3>3, <3>4, <3>7, <4>2, <5>1
          <5> QED BY <2>2, <2>3, <3>6, <5>2
        <4> QED BY <4>1, <4>2
      <3>9. eng'.rcv_nxt = b + Len(x) + Len(eng'.rcv_queue)
        <4>1. eng'.rcv_nxt = b + Len(d) + Len(q) BY <2>3, <3>1
        <4>2. Len(eng'.rcv_queue) = Len(q) - n /\ Len(x) = Len(d) + n BY <3>4, <3>7
        <4> QED BY <2>2, <3>6, <4>1, <4>2
      <3> QED BY <3>8, <3>9 DEF Handed, x
    <2> QED BY <2>1, <2>5, <2>6
  <1> QED BY <1>1, <1>3, <1>4

\* A read takes the first k bytes of r.
LEMMA ReadPart ==
    ASSUME NEW g \in Seq(Int), NEW r \in Seq(Int), NEW b \in Nat, ReadUp(b, r, g),
           NEW k \in 0 .. Len(r)
    PROVE  LET h == g \o SubSeq(r, 1, k)
               t == SubSeq(r, k + 1, Len(r))
           IN  ReadUp(b, t, h) /\ Len(h) = Len(g) + k /\ Len(h) <= 2 * b
  <1> DEFINE p == SubSeq(r, 1, k)
             t == SubSeq(r, k + 1, Len(r))
             h == g \o p
  <1>1. Len(g) \in Nat /\ Len(r) \in Nat BY LenProperties
  <1>2. /\ p \in Seq(Int) /\ Len(p) = k /\ \A i \in 1 .. k : p[i] = r[i]
        /\ Len(t) = Len(r) - k /\ \A i \in 1 .. Len(r) - k : t[i] = r[k + i]
    BY <1>1
  <1> HIDE DEF p, t
  <1>3. /\ Len(h) = Len(g) + k
        /\ \A i \in 1 .. Len(g) + k : h[i] = IF i <= Len(g) THEN g[i] ELSE p[i - Len(g)]
    <2>1. p \in Seq(Int) /\ Len(p) = k BY <1>2
    <2> QED BY <2>1, ConcatProperties
  <1> HIDE DEF h
  <1>4. /\ Len(g) + Len(r) = 2 * b /\ \A i \in 1 .. Len(g) : g[i] = i
        /\ \A i \in 1 .. Len(r) : r[i] = Len(g) + i
    BY DEF ReadUp
  <1>5. ASSUME NEW i \in 1 .. Len(h) PROVE h[i] = i
    <2>1. CASE i <= Len(g)
      <3>1. i \in 1 .. Len(g) /\ i \in 1 .. Len(g) + k BY <1>1, <1>3, <2>1
      <3> QED BY <1>3, <1>4, <2>1, <3>1
    <2>2. CASE ~(i <= Len(g))
      <3>1. /\ i - Len(g) \in 1 .. k /\ i - Len(g) \in 1 .. Len(r) /\ i \in 1 .. Len(g) + k
            /\ Len(g) + (i - Len(g)) = i
        BY <1>1, <1>3, <2>2
      <3>2. h[i] = p[i - Len(g)] BY <1>3, <2>2, <3>1
      <3>3. p[i - Len(g)] = r[i - Len(g)] BY <1>2, <3>1
      <3>4. r[i - Len(g)] = Len(g) + (i - Len(g)) BY <1>4, <3>1
      <3> QED BY <3>1, <3>2, <3>3, <3>4
    <2> QED BY <2>1, <2>2
  <1>6. ASSUME NEW i \in 1 .. Len(t) PROVE t[i] = Len(h) + i
    <2>1. i \in 1 .. Len(r) - k /\ k + i \in 1 .. Len(r) BY <1>1, <1>2
    <2>2. t[i] = Len(g) + (k + i) BY <1>2, <1>4, <2>1
    <2> QED BY <1>1, <1>3, <2>2
  <1>7. Len(h) + Len(t) = 2 * b /\ Len(h) <= 2 * b
    <2> DEFINE lg == Len(g)
               lr == Len(r)
               lh == Len(h)
               lt == Len(t)
    <2>1. lg \in Nat /\ lr \in Nat /\ lg + lr = 2 * b BY <1>1, <1>4
    <2>2. lh = lg + k /\ lt = lr - k /\ k \in 0 .. lr BY <1>2, <1>3
    <2> HIDE DEF lg, lr, lh, lt
    <2>3. lh + lt = 2 * b /\ lh <= 2 * b BY <2>1, <2>2
    <2> QED BY <2>3 DEF lh, lt
  <1> QED BY <1>3, <1>5, <1>6, <1>7 DEF ReadUp, h, p, t

\* The next message leaves the channel: its bytes are those that follow.
LEMMA NextMessage ==
    ASSUME TypeOK, NEW b \in Nat, Handed(b, eng, data_rx), data_rx # <<>>,
           NEW g \in Seq(Int), ReadUp(b, <<>>, g)
    PROVE  LET r == bytes_of(Head(data_rx))
           IN  /\ r \in Seq(Int) /\ Len(r) = 2 /\ ReadUp(b + 1, r, g)
               /\ Handed(b + 1, eng, Tail(data_rx))
  <1> DEFINE d == data_rx
             r == bytes_of(Head(data_rx))
  <1>1. d \in Seq(Nat) /\ Len(d) \in Nat \ {0} /\ Len(eng.rcv_queue) \in Nat
    <2>1. d \in Seq(Nat) /\ eng \in Engines BY DEF TypeOK, ChannelsOK
    <2> QED BY <2>1, EmptySeq, LenProperties, Counters
  <1>2. /\ Head(d) = d[1] /\ Len(Tail(d)) = Len(d) - 1
        /\ \A i \in 1 .. Len(d) - 1 : Tail(d)[i] = d[i + 1]
    BY <1>1, HeadTailProperties
  <1>3. eng.rcv_nxt = b + Len(d) + Len(eng.rcv_queue) /\ \A i \in 1 .. Len(d) : d[i] = b + i
    BY DEF Handed
  <1> HIDE DEF d
  <1>4. Head(d) = b + 1
    <2>1. 1 \in 1 .. Len(d) BY <1>1
    <2> QED BY <1>2, <1>3, <2>1
  <1>5. r = Run(2 * b, 2) BY <1>4, PairIsRun DEF d
  <1> HIDE DEF r
  <1>6. r \in Seq(Int) /\ Len(r) = 2 /\ \A i \in 1 .. 2 : r[i] = 2 * b + i
    <2>1. 2 * b \in Nat OBVIOUS
    <2> QED BY <1>5, <2>1, RunType
  <1>7. ReadUp(b + 1, r, g)
    <2>1. Len(g) + 0 = 2 * b /\ \A i \in 1 .. Len(g) : g[i] = i
      <3>1. Len(<<>>) = 0 OBVIOUS
      <3> QED BY <3>1 DEF ReadUp
    <2>2. Len(g) = 2 * b BY <2>1, LenProperties
    <2>3. Len(g) + 2 = 2 * (b + 1) BY <2>2
    <2> QED BY <1>6, <2>1, <2>2, <2>3 DEF ReadUp
  <1>8. Handed(b + 1, eng, Tail(d))
    <2>1. ASSUME NEW i \in 1 .. Len(Tail(d)) PROVE Tail(d)[i] = (b + 1) + i
      <3>1. i \in 1 .. Len(d) - 1 /\ i + 1 \in 1 .. Len(d) BY <1>1, <1>2
      <3>2. Tail(d)[i] = b + (i + 1) BY <1>2, <1>3, <3>1
      <3> QED BY <3>2
    <2>2. eng.rcv_nxt = (b + 1) + Len(Tail(d)) + Len(eng.rcv_queue)
      <3> DEFINE l == Len(d)
                 t == Len(Tail(d))
                 m == Len(eng.rcv_queue)
      <3>1. l \in Nat /\ m \in Nat /\ t = l - 1 /\ eng.rcv_nxt = b + l + m BY <1>1, <1>2, <1>3
      <3> HIDE DEF l, t, m
      <3>2. eng.rcv_nxt = (b + 1) + t + m BY <3>1
      <3> QED BY <3>2 DEF t, m
    <2> QED BY <2>1, <2>2 DEF Handed
  <1> QED BY <1>6, <1>7, <1>8 DEF r, d

\* The application reads.
Reading == (\E n \in 1 .. 2 : ReadBuffered(n) \/ ReadMessage(n)) \/ Recv

\* A read takes at least a byte and keeps the order.
LEMMA ReadingStep ==
    ASSUME ~({"read", "recv"} \subseteq Calls), TypeOK, Sync, Inward, Reading
    PROVE  /\ Inward' /\ Len(app'.got) > Len(app.got) /\ UNCHANGED <<eng, peer, dropped>>
  <1> DEFINE r == stream.read_buf
             g == app.got
  <1>1. /\ stream \in StreamStates /\ app \in AppStates /\ r \in Seq(Int) /\ g \in Seq(Int)
        /\ Len(r) \in Nat /\ Len(g) \in Nat
    BY LenProperties DEF TypeOK, StreamStates, AppStates
  <1>2. ~dropped BY DEF Reading, ReadBuffered, ReadMessage, Recv, Usable
  <1>3. PICK b \in Nat : Handed(b, eng, data_rx) /\ ReadUp(b, r, g) BY <1>2 DEF Inward
  <1>4. ASSUME NEW c \in Nat, Handed(c, eng, data_rx'), ReadUp(c, stream'.read_buf, app'.got),
               Len(app'.got) <= 2 * c, UNCHANGED <<eng, peer, dropped>>,
               "read" \notin Calls => stream'.read_buf = <<>>
        PROVE  Inward'
    <2> DEFINE h == app'.got
               l == Len(h)
    <2>1. c <= eng.rcv_nxt
      <3>1. data_rx' \in Seq(Nat)
        <4>1. Next BY DEF Reading, Next
        <4>2. TypeOK' BY <4>1, TypeNext
        <4> QED BY <4>2 DEF TypeOK, ChannelsOK
      <3>2. Len(data_rx') \in Nat BY <3>1, LenProperties
      <3>3. Len(eng.rcv_queue) \in Nat BY Counters DEF TypeOK
      <3>4. eng.rcv_nxt = c + Len(data_rx') + Len(eng.rcv_queue) BY <1>4 DEF Handed
      <3>5. \A u, v \in Nat : c <= c + u + v OBVIOUS
      <3> QED BY <3>2, <3>3, <3>4, <3>5
    <2>2. eng.rcv_nxt <= peer.sent /\ eng.rcv_nxt \in Nat /\ peer.sent \in Nat
      BY Counters DEF Sync, Receiving, TypeOK
    <2>3. l <= 2 * peer.sent
      <3>1. l \in Nat
        <4>1. Next BY DEF Reading, Next
        <4>2. TypeOK' BY <4>1, TypeNext
        <4>3. h \in Seq(Int) BY <4>2 DEF TypeOK, AppStates
        <4> QED BY <4>3, LenProperties
      <3>2. l <= 2 * c BY <1>4
      <3> HIDE DEF l
      <3> QED BY <2>1, <2>2, <3>1, <3>2
    <2>4. \A i \in 1 .. l : h[i] = i BY <1>4 DEF ReadUp
    <2> QED BY <1>4, <2>3, <2>4 DEF Inward
  <1>5. ASSUME NEW n \in 1 .. 2, NEW s \in Seq(Int), Len(s) # 0
        PROVE  /\ smaller(n, Len(s)) \in 0 .. Len(s) /\ smaller(n, Len(s)) >= 1
    <2>1. Len(s) \in Nat BY LenProperties
    <2> QED BY <1>5, <2>1 DEF smaller
  <1>6. ASSUME NEW n \in 1 .. 2, NEW s \in Seq(Int), Len(s) # 0, NEW c \in Nat, ReadUp(c, s, g),
               Handed(c, eng, data_rx'), Reads(s, n), UNCHANGED <<eng, peer, dropped>>,
               "read" \in Calls
        PROVE  Inward' /\ Len(app'.got) > Len(g)
    <2> DEFINE k == smaller(n, Len(s))
    <2>1. k \in 0 .. Len(s) /\ k >= 1 BY <1>5, <1>6
    <2>2. stream'.read_buf = SubSeq(s, k + 1, Len(s)) /\ app'.got = g \o SubSeq(s, 1, k)
      BY <1>1, <1>6 DEF Reads, read_from, StreamStates, AppStates
    <2> HIDE DEF k, g
    <2>3. /\ ReadUp(c, SubSeq(s, k + 1, Len(s)), g \o SubSeq(s, 1, k))
          /\ Len(g \o SubSeq(s, 1, k)) = Len(g) + k /\ Len(g \o SubSeq(s, 1, k)) <= 2 * c
      BY <1>1, <1>6, <2>1, ReadPart
    <2>4. ReadUp(c, stream'.read_buf, app'.got) /\ Len(app'.got) = Len(g) + k
          /\ Len(app'.got) <= 2 * c
      BY <2>2, <2>3
    <2>5. Inward' BY <1>4, <1>6, <2>4
    <2>6. Len(app'.got) > Len(g)
      <3>1. Len(s) \in Nat BY LenProperties
      <3>2. k \in Nat BY <2>1, <3>1
      <3>3. Len(app'.got) = Len(g) + k BY <2>4
      <3> QED BY <1>1, <2>1, <3>2, <3>3
    <2> QED BY <2>5, <2>6
  <1>7. CASE \E n \in 1 .. 2 : ReadBuffered(n)
    <2>1. PICK n \in 1 .. 2 : ReadBuffered(n) BY <1>7
    <2>2. /\ "read" \in Calls /\ r # <<>> /\ Reads(r, n) /\ UNCHANGED <<eng, data_rx, dropped, peer>>
      BY <2>1 DEF ReadBuffered, actor_vars, ends
    <2>3. Len(r) # 0 BY <1>1, <2>2, EmptySeq
    <2>4. Handed(b, eng, data_rx') BY <1>3, <2>2
    <2> HIDE DEF r
    <2> QED BY <1>1, <1>3, <1>6, <2>2, <2>3, <2>4
  <1>8. CASE \E n \in 1 .. 2 : ReadMessage(n)
    <2>1. PICK n \in 1 .. 2 : ReadMessage(n) BY <1>8
    <2> DEFINE s == bytes_of(Head(data_rx))
    <2>2. /\ "read" \in Calls /\ r = <<>> /\ data_rx # <<>> /\ Reads(s, n)
          /\ data_rx' = Tail(data_rx) /\ UNCHANGED <<eng, dropped, peer>>
      BY <2>1 DEF ReadMessage, ends
    <2>3. /\ s \in Seq(Int) /\ Len(s) = 2 /\ ReadUp(b + 1, s, g)
          /\ Handed(b + 1, eng, Tail(data_rx))
      <3>1. ReadUp(b, <<>>, g) BY <1>3, <2>2
      <3> HIDE DEF g
      <3> QED BY <1>1, <1>3, <2>2, <3>1, NextMessage
    <2> HIDE DEF s
    <2>4. b + 1 \in Nat /\ Len(s) # 0 BY <2>3
    <2>5. Handed(b + 1, eng, data_rx') BY <2>2, <2>3
    <2> QED BY <1>6, <2>2, <2>3, <2>4, <2>5
  <1>9. CASE Recv
    <2> DEFINE s == bytes_of(Head(data_rx))
    <2>1. /\ "recv" \in Calls /\ data_rx # <<>> /\ app'.got = g \o s
          /\ data_rx' = Tail(data_rx) /\ UNCHANGED <<eng, dropped, peer, stream>>
      BY <1>1, <1>9 DEF Recv, ends, AppStates
    <2>2. "read" \notin Calls BY <2>1
    <2>3. r = <<>> BY <2>2 DEF Inward
    <2>4. /\ s \in Seq(Int) /\ Len(s) = 2 /\ ReadUp(b + 1, s, g)
          /\ Handed(b + 1, eng, Tail(data_rx))
      <3>1. ReadUp(b, <<>>, g) BY <1>3, <2>3
      <3> HIDE DEF g
      <3> QED BY <1>1, <1>3, <2>1, <3>1, NextMessage
    <2> HIDE DEF s, g
    <2>5. SubSeq(s, 1, 2) = s /\ SubSeq(s, 3, 2) = <<>> BY <2>4
    <2>6. /\ ReadUp(b + 1, <<>>, g \o s) /\ Len(g \o s) = Len(g) + 2 /\ Len(g \o s) <= 2 * (b + 1)
      <3>1. 2 \in 0 .. Len(s) /\ b + 1 \in Nat /\ 2 + 1 = 3 BY <2>4
      <3>2. /\ ReadUp(b + 1, SubSeq(s, 2 + 1, Len(s)), g \o SubSeq(s, 1, 2))
            /\ Len(g \o SubSeq(s, 1, 2)) = Len(g) + 2
            /\ Len(g \o SubSeq(s, 1, 2)) <= 2 * (b + 1)
        BY <1>1, <2>4, <3>1, ReadPart
      <3> QED BY <2>4, <2>5, <3>1, <3>2
    <2>7. Inward'
      <3>1. stream'.read_buf = <<>> BY <2>1, <2>3
      <3>2. ReadUp(b + 1, stream'.read_buf, app'.got) /\ Len(app'.got) <= 2 * (b + 1)
        BY <2>1, <2>6, <3>1
      <3>3. Handed(b + 1, eng, data_rx') /\ b + 1 \in Nat BY <2>1, <2>4
      <3> QED BY <1>4, <2>1, <3>1, <3>2, <3>3
    <2>8. Len(app'.got) > Len(g) BY <1>1, <2>1, <2>6
    <2> QED BY <2>1, <2>7, <2>8 DEF g
  <1>10. UNCHANGED <<eng, peer, dropped>>
    BY DEF Reading, ReadBuffered, ReadMessage, Recv, actor_vars, ends
  <1>11. (\E n \in 1 .. 2 : ReadBuffered(n)) \/ (\E n \in 1 .. 2 : ReadMessage(n)) \/ Recv
    BY DEF Reading
  <1> QED BY <1>7, <1>8, <1>9, <1>10, <1>11

\* The other steps leave the reading side alone, or drop it.
LEMMA OthersReadNothing ==
    ASSUME TypeOK, Next, ~(ActorNext /\ Aside), ~Reading
    PROVE  /\ app'.got = app.got /\ stream'.read_buf = stream.read_buf
           /\ data_rx' = data_rx \/ dropped'
           /\ peer'.sent = peer.sent \/ PeerWrites
  <1>1. app \in AppStates /\ stream \in StreamStates /\ peer \in [got : Nat, sent : Nat]
    BY DEF TypeOK
  <1>2. app'.got = app.got /\ stream'.read_buf = stream.read_buf
    <2>1. CASE ReadEof BY <1>1, <2>1 DEF ReadEof, AppStates
    <2>2. OutsideReading \/ ReadEof
      BY CallsOutside, CloseOutside, WorldOutside DEF Next, Poll, Aside, Reading
    <2> QED BY <2>1, <2>2 DEF OutsideReading
  <1>3. CASE WriteReady \/ WritePending \/ WriteFails \/ WriteCancelled
    BY <1>2, <1>3 DEF WriteReady, WritePending, WriteFails, WriteCancelled, actor_vars
  <1>4. CASE \E n \in 1 .. MaxFrags : Send(n) BY <1>2, <1>4 DEF Send
  <1>5. CASE FlushStart \/ FlushDone \/ Query \/ QueryDone \/ ReadEof
    BY <1>2, <1>5 DEF FlushStart, FlushDone, Query, QueryDone, ReadEof, actor_vars
  <1>6. CASE FlushSend \/ QuerySend BY <1>2, <1>6 DEF FlushSend, QuerySend
  <1>7. CASE ShutdownStart \/ ShutdownSend \/ ShutdownDone \/ Close \/ CloseCancelled
    BY <1>2, <1>7 DEF ShutdownStart, ShutdownSend, ShutdownDone, Close, CloseCancelled, actor_vars
  <1>8. CASE CloseSend \/ CloseReturn BY <1>2, <1>8 DEF CloseSend, CloseReturn
  <1>9. CASE Drop BY <1>2, <1>9 DEF Drop
  <1>10. CASE \E d \in Datagram : Receive(d) BY <1>2, <1>10 DEF Receive
  <1>11. CASE ReceiveFails \/ ListenerDropped \/ FeederStops
    BY <1>2, <1>11 DEF ReceiveFails, ListenerDropped, FeederStops
  <1>12. CASE PeerReceives BY <1>1, <1>2, <1>12 DEF PeerReceives, actor_vars
  <1>13. CASE PeerWrites BY <1>2, <1>13 DEF PeerWrites, actor_vars
  <1> QED BY <1>3, <1>4, <1>5, <1>6, <1>7, <1>8, <1>9, <1>10, <1>11, <1>12, <1>13
          DEF Next, Poll, Aside, Reading

\* What the peer has written.
LEMMA PeerWritesMore ==
    ASSUME TypeOK, PeerWrites
    PROVE  peer'.sent = peer.sent + 1 /\ peer.sent \in Nat /\ UNCHANGED app
  <1>1. peer \in [got : Nat, sent : Nat] BY DEF TypeOK
  <1> QED BY <1>1 DEF PeerWrites

\* Each step keeps the messages in order.
LEMMA InwardNext ==
    ASSUME ~({"read", "recv"} \subseteq Calls), TypeOK, Sync, Inward, [Next]_vars
    PROVE  Inward'
  <1>1. CASE UNCHANGED vars BY <1>1 DEF vars, actor_vars, ends, Inward
  <1>2. CASE ActorNext /\ Aside
    <2>1. UNCHANGED <<app, stream, peer>> BY <1>2 DEF Aside
    <2>2. dropped' = dropped
      <3>1. Takes \/ Works BY <1>2, ActorStep
      <3> QED BY <3>1 DEF Takes, Works
    <2>3. \A b \in Nat : Handed(b, eng, data_rx) => Handed(b, eng', data_rx') BY <1>2, HandedActor
    <2> QED BY <2>1, <2>2, <2>3 DEF Inward
  <1>3. CASE Reading BY <1>3, ReadingStep
  <1>4. CASE Next /\ ~(ActorNext /\ Aside) /\ ~Reading
    <2>1. /\ app'.got = app.got /\ stream'.read_buf = stream.read_buf
          /\ data_rx' = data_rx \/ dropped'
          /\ peer'.sent = peer.sent \/ PeerWrites
      BY <1>4, OthersReadNothing
    <2>2. eng' = eng /\ (dropped => dropped') BY <1>4, OthersLeave
    <2>3. Len(app.got) <= 2 * peer'.sent
      <3>1. Len(app.got) <= 2 * peer.sent /\ Len(app.got) \in Nat /\ peer.sent \in Nat
        BY LenProperties DEF Inward, TypeOK, AppStates
      <3>2. CASE peer'.sent = peer.sent BY <3>1, <3>2
      <3>3. CASE PeerWrites
        <4>1. peer'.sent = peer.sent + 1 BY <3>3, PeerWritesMore
        <4> QED BY <3>1, <4>1
      <3> QED BY <2>1, <3>2, <3>3
    <2> QED BY <2>1, <2>2, <2>3 DEF Inward
  <1> QED BY <1>1, <1>2, <1>3, <1>4

\* The messages stay in order on their way.
LEMMA IncomingHolds ==
    ASSUME ~({"read", "recv"} \subseteq Calls) PROVE Spec => [](TypeOK /\ Sync /\ Inward)
  <1>1. TypeOK /\ Sync /\ Inward /\ [Next]_vars => Inward' BY InwardNext
  <1> QED BY <1>1, InwardInit, TypeCorrect, InSync, PTL DEF Spec

\* The bytes from the first.
LEMMA FirstRun == ASSUME NEW t \in Nat PROVE Run(0, t) = [i \in 1 .. t |-> i]
  <1>1. \A i \in 1 .. t : 0 + i = i OBVIOUS
  <1> QED BY <1>1 DEF Run

\* The first bytes and the next.
LEMMA JoinFirst ==
    ASSUME NEW k \in Nat, NEW l \in Nat PROVE Run(0, k) \o Run(k, l) = Run(0, k + l)
  <1>1. 0 \in Nat /\ 0 + k = k OBVIOUS
  <1>2. Run(0, k) \o Run(0 + k, l) = Run(0, k + l) BY <1>1, JoinRuns, Zenon
  <1> QED BY <1>1, <1>2, Zenon

\* The bytes of messages that count on from b.
LEMMA BytesOf ==
    ASSUME NEW b \in Nat, NEW s \in Seq(Nat), \A i \in 1 .. Len(s) : s[i] = b + i
    PROVE  FlattenSeq([i \in 1 .. Len(s) |-> bytes_of(s[i])]) = Run(2 * b, 2 * Len(s))
  <1>1. Len(s) \in Nat BY LenProperties
  <1>2. [i \in 1 .. Len(s) |-> bytes_of(s[i])] = [i \in 1 .. Len(s) |-> bytes_of(b + i)]
    OBVIOUS
  <1> QED BY <1>1, <1>2, FlattenPairs

\* The messages the engine has accepted are, byte for byte and in order, those read,
\* those in the read buffer, those in the channel and those still in the engine
\* (InboundIntact of KcpStream), for every capacity and window and through reads that
\* stop inside a message, as long as the application reads in one way: recv() knows
\* nothing of the buffer that read() leaves.
THEOREM InboundStaysIntact == ASSUME ~({"read", "recv"} \subseteq Calls) PROVE Spec => []InboundIntact
  <1>1. TypeOK /\ Sync /\ Inward => InboundIntact
    <2> SUFFICES ASSUME TypeOK, Sync, Inward, ~dropped PROVE InboundIntact BY DEF InboundIntact
    <2> DEFINE g == app.got
               r == stream.read_buf
               d == data_rx
               q == eng.rcv_queue
               k == Len(g)
               l == Len(r)
               m == Len(d)
               n == Len(q)
    <2>1. /\ g \in Seq(Int) /\ r \in Seq(Int) /\ d \in Seq(Nat) /\ q \in Seq(Nat)
          /\ k \in Nat /\ l \in Nat /\ m \in Nat /\ n \in Nat /\ eng.rcv_nxt \in Nat
      BY LenProperties, Counters DEF TypeOK, ChannelsOK, AppStates, StreamStates
    <2>2. PICK b \in Nat : Handed(b, eng, d) /\ ReadUp(b, r, g) BY DEF Inward
    <2>3. /\ eng.rcv_nxt = b + m + n /\ \A i \in 1 .. m : d[i] = b + i
          /\ k + l = 2 * b /\ \A i \in 1 .. k : g[i] = i
          /\ \A i \in 1 .. l : r[i] = k + i
      BY <2>2 DEF Handed, ReadUp
    <2>4. \A i \in 1 .. n : q[i] = eng.rcv_nxt - n + i BY DEF Sync, Receiving
    <2>5. FlattenSeq([i \in 1 .. Len(d) |-> bytes_of(d[i])]) = Run(2 * b, 2 * m)
      BY <2>1, <2>3, BytesOf
    <2>6. FlattenSeq([i \in 1 .. Len(q) |-> bytes_of(q[i])]) = Run(2 * (b + m), 2 * n)
      <3>1. b + m \in Nat BY <2>1
      <3>2. ASSUME NEW i \in 1 .. Len(q) PROVE q[i] = (b + m) + i
        <4>1. i \in 1 .. n /\ q[i] = eng.rcv_nxt - n + i /\ eng.rcv_nxt = b + m + n BY <2>3, <2>4
        <4> HIDE DEF m, n, q
        <4> QED BY <2>1, <4>1
      <3> QED BY <2>1, <3>1, <3>2, BytesOf
    <2> HIDE DEF g, r, k, l
    <2>7. g = Run(0, k)
      <3>1. \A i \in 1 .. k : g[i] = 0 + i
        <4>1. \A i \in 1 .. k : 0 + i = i BY <2>1
        <4> QED BY <2>3, <4>1
      <3>2. Len(g) = k BY DEF k
      <3> QED BY <2>1, <3>1, <3>2, IsRun
    <2>8. r = Run(k, l)
      <3>1. Len(r) = l BY DEF l
      <3> QED BY <2>1, <2>3, <3>1, IsRun
    <2> DEFINE u == 2 * m
               v == 2 * n
               y == 2 * b
               z == 2 * (b + m)
               t == 2 * eng.rcv_nxt
    <2> HIDE DEF m, n, d, q
    <2>9. /\ u \in Nat /\ v \in Nat /\ y \in Nat /\ z \in Nat /\ t \in Nat
          /\ y = k + l /\ z = y + u /\ t = z + v
      BY <2>1, <2>3
    <2>10. /\ FlattenSeq([i \in 1 .. Len(d) |-> bytes_of(d[i])]) = Run(y, u)
           /\ FlattenSeq([i \in 1 .. Len(q) |-> bytes_of(q[i])]) = Run(z, v)
      BY <2>5, <2>6
    <2> HIDE DEF u, v, y, z, t
    <2>11. ((Run(0, k) \o Run(k, l)) \o Run(y, u)) \o Run(z, v) = Run(0, t)
      <3>1. Run(0, k) \o Run(k, l) = Run(0, y)
        <4>1. Run(0, k) \o Run(k, l) = Run(0, k + l) BY <2>1, JoinFirst, Zenon
        <4> QED BY <2>9, <4>1, Zenon
      <3>2. Run(0, y) \o Run(y, u) = Run(0, z)
        <4>1. Run(0, y) \o Run(y, u) = Run(0, y + u) BY <2>9, JoinFirst, Zenon
        <4> QED BY <2>9, <4>1, Zenon
      <3>3. Run(0, z) \o Run(z, v) = Run(0, t)
        <4>1. Run(0, z) \o Run(z, v) = Run(0, z + v) BY <2>9, JoinFirst, Zenon
        <4> QED BY <2>9, <4>1, Zenon
      <3> QED BY <3>1, <3>2, <3>3, Zenon
    <2>12. ((g \o r) \o FlattenSeq([i \in 1 .. Len(d) |-> bytes_of(d[i])]))
              \o FlattenSeq([i \in 1 .. Len(q) |-> bytes_of(q[i])])
             = Run(0, t)
      BY <2>7, <2>8, <2>10, <2>11
    <2>13. Run(0, t) = [i \in 1 .. t |-> i] BY <2>9, FirstRun
    <2> QED BY <2>12, <2>13 DEF InboundIntact, g, r, d, q, t
  <1> QED BY <1>1, IncomingHolds, PTL

\* Each step writes, reads or does neither.
LEMMA IncomingStep ==
    ASSUME ~({"read", "recv"} \subseteq Calls), TypeOK, Sync, Inward, Next
    PROVE  Incoming!Next \/ UNCHANGED Incoming!vars
  <1>1. /\ app.got \in Seq(Int) /\ Len(app.got) \in Nat /\ peer.sent \in Nat
        /\ app'.got \in Seq(Int) /\ Len(app'.got) \in Nat
    <2>1. TypeOK' BY TypeNext
    <2> QED BY <2>1, LenProperties DEF TypeOK, AppStates
  <1> DEFINE W(n) == [i \in 1 .. (2 * n) |-> i]
  <1>2. \A n \in Nat : W(n) \in Seq(Int) /\ Len(W(n)) = 2 * n
    <2> TAKE n \in Nat
    <2>1. 2 * n \in Nat OBVIOUS
    <2>2. \A i \in 1 .. (2 * n) : i \in Int OBVIOUS
    <2> QED BY <2>1, <2>2
  <1>3. ASSUME NEW n \in Nat, NEW k \in Nat, k <= 2 * n
        PROVE  SubSeq(W(n), 1, k) = [i \in 1 .. k |-> i]
    <2>1. SubSeq(W(n), 1, k) = [i \in 1 .. k |-> W(n)[i]]
      <3>1. W(n) \in Seq(Int) /\ Len(W(n)) = 2 * n BY <1>2
      <3> HIDE DEF W
      <3> QED BY <1>3, <3>1
    <2>2. \A i \in 1 .. k : i \in 1 .. (2 * n) BY <1>3
    <2>3. \A i \in 1 .. k : W(n)[i] = i BY <2>2
    <2> HIDE DEF W
    <2> QED BY <2>1, <2>3
  <1>4. CASE ActorNext /\ Aside BY <1>4 DEF Aside, Incoming!vars
  <1>5. CASE Reading
    <2>1. Inward' /\ Len(app'.got) > Len(app.got) /\ UNCHANGED peer BY <1>5, ReadingStep
    <2> DEFINE k == Len(app'.got)
    <2>2. k <= 2 * peer.sent /\ \A i \in 1 .. k : app'.got[i] = i BY <2>1 DEF Inward
    <2>3. app'.got = [i \in 1 .. k |-> i]
      <3>1. app'.got = [i \in 1 .. k |-> app'.got[i]] BY <1>1
      <3> QED BY <2>2, <3>1
    <2>4. app'.got = SubSeq(W(peer.sent), 1, k) BY <1>1, <1>3, <2>2, <2>3
    <2>5. k \in (Len(app.got) + 1) .. Len(W(peer.sent))
      <3>1. Len(W(peer.sent)) = 2 * peer.sent BY <1>1, <1>2
      <3> HIDE DEF W
      <3>2. k > Len(app.got) /\ k \in Nat BY <1>1, <2>1
      <3> HIDE DEF k
      <3> QED BY <1>1, <2>2, <3>1, <3>2
    <2>6. UNCHANGED W(peer.sent) BY <2>1
    <2> HIDE DEF k
    <2>7. \E n \in (Len(app.got) + 1) .. Len(W(peer.sent)) : app'.got = SubSeq(W(peer.sent), 1, n)
      BY <2>4, <2>5
    <2> QED BY <2>6, <2>7 DEF Incoming!Next, Incoming!Read
  <1>6. CASE PeerWrites
    <2>1. peer'.sent = peer.sent + 1 /\ UNCHANGED app BY <1>6, PeerWritesMore
    <2> DEFINE s == peer.sent
    <2>2. s + 1 \in Nat /\ s \in Nat /\ 2 * s \in Nat /\ 2 * s <= 2 * (s + 1) /\ 2 * (s + 1) > 2 * s
      BY <1>1
    <2>3. Len(W(s)) = 2 * s /\ Len(W(s + 1)) = 2 * (s + 1) BY <1>2, <2>2
    <2>4. SubSeq(W(s + 1), 1, 2 * s) = W(s) BY <1>3, <2>2
    <2>5. W(peer'.sent) = W(s + 1) BY <2>1
    <2>6. /\ Len(W(peer'.sent)) > Len(W(s)) /\ SubSeq(W(peer'.sent), 1, Len(W(s))) = W(s)
      <3> HIDE DEF W, s
      <3> QED BY <2>2, <2>3, <2>4, <2>5
    <2>7. app'.got = app.got BY <2>1
    <2> QED BY <2>6, <2>7 DEF Incoming!Next, Incoming!Write
  <1>7. CASE ~(ActorNext /\ Aside) /\ ~Reading /\ ~PeerWrites
    <2>1. app'.got = app.got /\ peer'.sent = peer.sent BY <1>7, OthersReadNothing
    <2> QED BY <2>1 DEF Incoming!vars
  <1> QED BY <1>4, <1>5, <1>6, <1>7

\* What the application reads, in pieces of any size, is what the peer wrote, once and
\* in order (IncomingReliable of KcpStream), for every capacity and window.  A client's
\* connection begins with nothing written; a server's engine may hold a message of the
\* peer when its stream is made.
THEOREM IncomingDelivered ==
    ASSUME ~({"read", "recv"} \subseteq Calls), ~IsServer PROVE Spec => IncomingReliable
  <1>1. Init => Incoming!Init
    <2> SUFFICES ASSUME Init PROVE Incoming!Init OBVIOUS
    <2>1. peer.sent = 0 /\ app.got = <<>> BY DEF Init, new_with_conv, new_server_stream, Established
    <2>2. [i \in 1 .. 2 * peer.sent |-> i] = <<>> BY <2>1
    <2> QED BY <2>1, <2>2 DEF Incoming!Init
  <1>2. TypeOK /\ Sync /\ Inward /\ [Next]_vars => [Incoming!Next]_Incoming!vars
    <2> SUFFICES ASSUME TypeOK, Sync, Inward, [Next]_vars PROVE [Incoming!Next]_Incoming!vars
      OBVIOUS
    <2>1. CASE UNCHANGED vars BY <2>1 DEF vars, actor_vars, Incoming!vars
    <2> QED BY <2>1, IncomingStep
  <1> QED BY <1>1, <1>2, IncomingHolds, PTL DEF Spec, IncomingReliable, Incoming!Spec
=============================================================================
