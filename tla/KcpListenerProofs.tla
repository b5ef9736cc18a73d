-------------------------- MODULE KcpListenerProofs --------------------------
(***************************************************************************)
(* Theorems about KcpListener, for every set of peers, queue length and    *)
(* number of streams.                                                      *)
(***************************************************************************)
EXTENDS KcpListener, FiniteSetTheorems, TLAPS

-----------------------------------------------------------------------------
(* The limits and marks *)

\* Why Bookkeeping holds: only the task adds to pending, so the limit it checked
\* under the read lock still holds when it has the write lock; and the
\* fields of the two program counters.
CountInv ==
    /\ DOMAIN listen = {"at", "addr", "dead"}
    /\ DOMAIN acceptor = {"at", "addr", "stream"}
    /\ IsFiniteSet(pending)
    /\ listen.at = "insert" => Cardinality(pending) < MaxPending
    /\ Bookkeeping

\* Cardinalities are numbers that grow by one at most.
LEMMA PendingSize ==
    ASSUME IsFiniteSet(pending), NEW x
    PROVE  /\ Cardinality(pending) \in Nat
           /\ IsFiniteSet(pending \cup {x}) /\ Cardinality(pending \cup {x}) \in Nat
           /\ Cardinality(pending \cup {x}) <= Cardinality(pending) + 1
  <1>1. Cardinality(pending) \in Nat BY FS_CardinalityType
  <1>2. /\ IsFiniteSet(pending \cup {x})
        /\ Cardinality(pending \cup {x})
             = IF x \in pending THEN Cardinality(pending) ELSE Cardinality(pending) + 1
    BY FS_AddElement
  <1> QED BY <1>1, <1>2

\* A set that is left of pending is not larger.
LEMMA PendingPart ==
    ASSUME IsFiniteSet(pending), NEW T, T \subseteq pending
    PROVE  IsFiniteSet(T) /\ Cardinality(T) \in Nat /\ Cardinality(T) <= Cardinality(pending)
  BY FS_Subset, FS_CardinalityType

\* The steps of the background task.
LEMMA CountTask ==
    ASSUME CountInv,
           \/ \E a \in Addr : Packet(a)
           \/ Check \/ Insert \/ Enqueue \/ Undo \/ Collect \/ Sweep \/ Expire \/ ReceiveFails
    PROVE  CountInv'
  <1>1. /\ DOMAIN listen = {"at", "addr", "dead"} /\ IsFiniteSet(pending)
        /\ Cardinality(pending) <= MaxPending /\ Cardinality(pending) \in Nat /\ MaxPending \in Nat
    BY PendingSize, ListenerAssumption DEF CountInv, Bookkeeping
  <1>2. UNCHANGED <<accepting, acceptor>>
    BY DEF Packet, Check, Insert, Enqueue, Undo, Collect, Sweep, Expire, ReceiveFails, conn_state
  <1>3. DOMAIN listen' = {"at", "addr", "dead"}
    BY <1>1 DEF Packet, Check, Insert, Enqueue, Undo, Collect, Sweep, Expire, ReceiveFails
  <1>4. ASSUME IsFiniteSet(pending'), Cardinality(pending') <= MaxPending,
               listen'.at = "insert" => Cardinality(pending') < MaxPending
        PROVE  CountInv'
    BY <1>2, <1>3, <1>4 DEF CountInv, Bookkeeping
  <1>5. CASE Check
    <2>1. UNCHANGED pending /\ (listen'.at = "insert" => new_connection(listen.addr))
      BY <1>1, <1>5 DEF Check, conn_state
    <2> QED BY <1>1, <1>4, <2>1 DEF new_connection
  <1>6. CASE Insert
    <2>1. pending' = pending \cup {listen.addr} /\ listen'.at = "send" BY <1>1, <1>6 DEF Insert
    <2>2. Cardinality(pending) < MaxPending BY <1>6 DEF Insert, CountInv
    <2>3. /\ IsFiniteSet(pending \cup {listen.addr}) /\ Cardinality(pending \cup {listen.addr}) \in Nat
          /\ Cardinality(pending \cup {listen.addr}) <= Cardinality(pending) + 1
      BY <1>1, PendingSize
    <2>4. Cardinality(pending \cup {listen.addr}) <= MaxPending BY <1>1, <2>2, <2>3
    <2> QED BY <1>4, <2>1, <2>3, <2>4
  <1>7. CASE Undo \/ Expire
    <2>1. pending' \subseteq pending /\ listen'.at = "select" BY <1>1, <1>7 DEF Undo, Expire
    <2>2. IsFiniteSet(pending') /\ Cardinality(pending') <= MaxPending
      BY <1>1, <2>1, PendingPart
    <2> QED BY <1>4, <2>1, <2>2
  <1>8. CASE (\E a \in Addr : Packet(a)) \/ Enqueue \/ Collect \/ Sweep \/ ReceiveFails
    <2>1. UNCHANGED pending /\ listen'.at # "insert"
      BY <1>1, <1>8 DEF Packet, Enqueue, Collect, Sweep, ReceiveFails, conn_state
    <2> QED BY <1>1, <1>4, <2>1
  <1> QED BY <1>5, <1>6, <1>7, <1>8

\* The steps of the application and of the rest of the world.
LEMMA CountApp ==
    ASSUME CountInv,
           \/ Accept \/ Pop \/ Mark \/ Create \/ Route \/ Unmark \/ Close
           \/ \E a \in Addr : RemoveActive(a)
           \/ \E s \in Streams : StreamEnds(s)
           \/ \E a \in Addr : Age(a)
    PROVE  CountInv'
  <1>1. /\ DOMAIN listen = {"at", "addr", "dead"} /\ DOMAIN acceptor = {"at", "addr", "stream"}
        /\ IsFiniteSet(pending) /\ Cardinality(pending) <= MaxPending
        /\ Cardinality(pending) \in Nat /\ MaxPending \in Nat
        /\ accepting = IF acceptor.at \in {"create", "route", "unmark"} THEN {acceptor.addr} ELSE {}
        /\ listen.at = "insert" => Cardinality(pending) < MaxPending
    BY PendingSize, ListenerAssumption DEF CountInv, Bookkeeping
  <1>2. pending' \subseteq pending /\ (listen'.at = "insert" => listen.at = "insert")
    BY <1>1 DEF Accept, Pop, Mark, Create, Route, Unmark, Close, RemoveActive, StreamEnds, Age, conn_state
  <1>3. DOMAIN listen' = {"at", "addr", "dead"} /\ DOMAIN acceptor' = {"at", "addr", "stream"}
    BY <1>1 DEF Accept, Pop, Mark, Create, Route, Unmark, Close, RemoveActive, StreamEnds, Age
  <1>4. /\ IsFiniteSet(pending') /\ Cardinality(pending') <= MaxPending
        /\ listen'.at = "insert" => Cardinality(pending') < MaxPending
    BY <1>1, <1>2, PendingPart
  <1>5. accepting' = IF acceptor'.at \in {"create", "route", "unmark"} THEN {acceptor'.addr} ELSE {}
    <2>1. CASE Accept BY <1>1, <2>1 DEF Accept, conn_state
    <2>2. CASE Pop BY <1>1, <2>2 DEF Pop, conn_state
    <2>3. CASE Mark BY <1>1, <2>3 DEF Mark
    <2>4. CASE Create BY <1>1, <2>4 DEF Create
    <2>5. CASE Route BY <1>1, <2>5 DEF Route, conn_state
    <2>6. CASE Unmark BY <1>1, <2>6 DEF Unmark
    <2>7. CASE \/ Close
               \/ \E a \in Addr : RemoveActive(a)
               \/ \E s \in Streams : StreamEnds(s)
               \/ \E a \in Addr : Age(a)
      BY <1>1, <2>7 DEF Close, RemoveActive, StreamEnds, Age, conn_state
    <2> QED BY <2>1, <2>2, <2>3, <2>4, <2>5, <2>6, <2>7
  <1> QED BY <1>3, <1>4, <1>5 DEF CountInv, Bookkeeping

\* For every number of peers and every limit: pending never exceeds
\* max_pending_connections although it is checked under one lock and extended
\* under another, and a peer is marked exactly while accept() works on it.
THEOREM BookkeepingHolds == Spec => []Bookkeeping
  <1>1. Init => CountInv
    <2> SUFFICES ASSUME Init PROVE CountInv OBVIOUS
    <2>1. IsFiniteSet(pending) /\ Cardinality(pending) = 0 BY FS_EmptySet DEF Init
    <2> QED BY <2>1, ListenerAssumption DEF Init, CountInv, Bookkeeping
  <1>2. CountInv /\ [Next]_vars => CountInv'
    <2> SUFFICES ASSUME CountInv, [Next]_vars PROVE CountInv' OBVIOUS
    <2>1. CASE UNCHANGED vars BY <2>1 DEF vars, CountInv, Bookkeeping
    <2> QED BY <2>1, CountTask, CountApp DEF Next
  <1>3. CountInv => Bookkeeping BY DEF CountInv
  <1> QED BY <1>1, <1>2, <1>3, PTL DEF Spec

-----------------------------------------------------------------------------
(* Routing *)

\* The fields of the two program counters, the streams' table.
Shapes ==
    /\ DOMAIN listen = {"at", "addr", "dead"}
    /\ DOMAIN acceptor = {"at", "addr", "stream"}
    /\ DOMAIN peer = Streams /\ alive \subseteq Streams

\* accept() works on a peer nobody else routes: the mark of an active peer, once
\* set, keeps every route away until accept() has inserted its own.
AcceptsUnrouted ==
    /\ DOMAIN active_streams \subseteq active
    /\ acceptor.at = "create" => acceptor.addr \notin active
    /\ acceptor.at # "route" => acceptor.stream = NoStream
    /\ acceptor.at = "route" =>
        /\ acceptor.addr \in active /\ acceptor.addr \notin DOMAIN active_streams
        /\ acceptor.stream \in alive => peer[acceptor.stream] = acceptor.addr

\* What cleanup_dead_streams collected before it asked for the lock is still dead
\* when it has the lock.
CollectedStayDead ==
    listen.at = "sweep" =>
        \A a \in listen.dead : a \in DOMAIN active_streams /\ active_streams[a] \notin alive

\* The inductive invariant.
RouteInv == Shapes /\ AcceptsUnrouted /\ CollectedStayDead /\ LiveStreamRouted

\* The steps that leave the routes, the streams and accept() alone.
LEMMA RouteTask ==
    ASSUME RouteInv,
           \/ \E a \in Addr : Packet(a)
           \/ Check \/ Insert \/ Enqueue \/ Undo \/ Collect \/ Expire \/ ReceiveFails \/ Close
           \/ \E a \in Addr : Age(a)
    PROVE  RouteInv'
  <1>1. UNCHANGED <<active, active_streams, acceptor, peer, alive>>
    BY DEF Packet, Check, Insert, Enqueue, Undo, Collect, Expire, ReceiveFails, Close, Age, conn_state
  <1>2. DOMAIN listen = {"at", "addr", "dead"} BY DEF RouteInv, Shapes
  <1>3. DOMAIN listen' = {"at", "addr", "dead"}
    BY <1>2 DEF Packet, Check, Insert, Enqueue, Undo, Collect, Expire, ReceiveFails, Close, Age
  <1>4. CASE Collect
    <2>1. listen'.dead = {a \in DOMAIN active_streams : active_streams[a] \notin alive}
      BY <1>2, <1>4 DEF Collect
    <2> QED BY <1>1, <1>3, <2>1 DEF RouteInv, Shapes, AcceptsUnrouted, CollectedStayDead, LiveStreamRouted
  <1>5. CASE \E a \in Addr : Age(a)
    <2>1. UNCHANGED listen BY <1>5 DEF Age
    <2> QED BY <1>1, <2>1 DEF RouteInv, Shapes, AcceptsUnrouted, CollectedStayDead, LiveStreamRouted
  <1>6. CASE \/ \E a \in Addr : Packet(a)
             \/ Check \/ Insert \/ Enqueue \/ Undo \/ Expire \/ ReceiveFails \/ Close
    <2>1. listen'.at # "sweep"
      BY <1>2, <1>6 DEF Packet, Check, Insert, Enqueue, Undo, Expire, ReceiveFails, Close
    <2> QED BY <1>1, <1>3, <2>1 DEF RouteInv, Shapes, AcceptsUnrouted, CollectedStayDead, LiveStreamRouted
  <1> QED BY <1>4, <1>5, <1>6

\* The sweep takes only routes of streams that have ended.
LEMMA RouteSweep ==
    ASSUME RouteInv, Sweep
    PROVE  RouteInv'
  <1>1. /\ DOMAIN listen = {"at", "addr", "dead"} /\ UNCHANGED <<acceptor, peer, alive>>
        /\ active_streams' = [a \in DOMAIN active_streams \ listen.dead |-> active_streams[a]]
        /\ active' = active \ listen.dead
        /\ \A a \in listen.dead : a \in DOMAIN active_streams /\ active_streams[a] \notin alive
    BY DEF RouteInv, Shapes, CollectedStayDead, Sweep, Restrict, swept
  <1>2. DOMAIN listen' = {"at", "addr", "dead"} /\ listen'.at # "sweep" BY <1>1 DEF Sweep
  <1>3. Shapes' /\ CollectedStayDead' BY <1>1, <1>2 DEF RouteInv, Shapes, CollectedStayDead
  <1>4. AcceptsUnrouted' BY <1>1 DEF RouteInv, AcceptsUnrouted
  <1>5. LiveStreamRouted' BY <1>1 DEF RouteInv, LiveStreamRouted
  <1> QED BY <1>3, <1>4, <1>5 DEF RouteInv

\* The steps of accept() that touch neither routes nor streams.
LEMMA RouteWaits ==
    ASSUME RouteInv, Accept \/ Pop \/ Mark \/ Unmark
    PROVE  RouteInv'
  <1>1. UNCHANGED <<active, active_streams, listen, peer, alive>>
    BY DEF Accept, Pop, Mark, Unmark, conn_state
  <1>2. DOMAIN acceptor = {"at", "addr", "stream"} BY DEF RouteInv, Shapes
  <1>3. /\ DOMAIN acceptor' = {"at", "addr", "stream"} /\ acceptor'.stream = acceptor.stream
        /\ acceptor.at # "route" /\ acceptor'.at # "route"
    BY <1>2 DEF Accept, Pop, Mark, Unmark
  <1>4. acceptor'.at = "create" => acceptor'.addr \notin active
    BY <1>2 DEF Accept, Pop, Mark, Unmark, accepts
  <1> QED BY <1>1, <1>2, <1>3, <1>4
          DEF RouteInv, Shapes, AcceptsUnrouted, CollectedStayDead, LiveStreamRouted

\* A stream starts: nothing referred to it, so no dead route comes to life.
LEMMA RouteCreate ==
    ASSUME RouteInv, Create
    PROVE  RouteInv'
  <1>1. PICK s \in Unused :
            /\ peer' = [peer EXCEPT ![s] = acceptor.addr]
            /\ alive' = alive \cup {s}
            /\ acceptor' = [acceptor EXCEPT !.at = "route", !.stream = s]
    BY DEF Create
  <1>2. s \in Streams /\ s \notin alive /\ \A a \in DOMAIN active_streams : active_streams[a] # s
    BY DEF Unused, Range
  <1>3. /\ active' = active \cup {acceptor.addr} /\ UNCHANGED <<active_streams, listen>>
        /\ acceptor.at = "create"
    BY DEF Create
  <1>4. /\ DOMAIN acceptor' = {"at", "addr", "stream"} /\ acceptor'.at = "route"
        /\ acceptor'.stream = s /\ acceptor'.addr = acceptor.addr /\ acceptor.stream = NoStream
    BY <1>1, <1>3 DEF RouteInv, Shapes, AcceptsUnrouted
  <1>5. Shapes' BY <1>1, <1>2, <1>3, <1>4 DEF RouteInv, Shapes
  <1>6. AcceptsUnrouted' BY <1>1, <1>2, <1>3, <1>4 DEF RouteInv, Shapes, AcceptsUnrouted
  <1>7. CollectedStayDead' BY <1>1, <1>2, <1>3 DEF RouteInv, CollectedStayDead
  <1>8. LiveStreamRouted'
    BY <1>1, <1>2, <1>3, <1>4, ListenerAssumption DEF RouteInv, Shapes, LiveStreamRouted
  <1> QED BY <1>5, <1>6, <1>7, <1>8 DEF RouteInv

\* The route is inserted: it replaces none.
LEMMA RouteRoute ==
    ASSUME RouteInv, Route
    PROVE  RouteInv'
  <1>1. /\ active_streams' = [a \in DOMAIN active_streams \cup {acceptor.addr} |->
                IF a = acceptor.addr THEN acceptor.stream ELSE active_streams[a]]
        /\ UNCHANGED <<active, listen, peer, alive>> /\ acceptor.at = "route"
    BY DEF Route, conn_state
  <1>2. DOMAIN acceptor' = {"at", "addr", "stream"} /\ acceptor'.at = "unmark" /\ acceptor'.stream = NoStream
    BY DEF Route, RouteInv, Shapes
  <1>3. /\ acceptor.addr \in active /\ acceptor.addr \notin DOMAIN active_streams
        /\ acceptor.stream \in alive => peer[acceptor.stream] = acceptor.addr
        /\ DOMAIN active_streams \subseteq active
    BY <1>1 DEF RouteInv, AcceptsUnrouted
  <1>4. Shapes' BY <1>1, <1>2 DEF RouteInv, Shapes
  <1>5. AcceptsUnrouted' BY <1>1, <1>2, <1>3 DEF AcceptsUnrouted
  <1>6. CollectedStayDead' BY <1>1, <1>3 DEF RouteInv, CollectedStayDead
  <1>7. LiveStreamRouted' BY <1>1, <1>3 DEF RouteInv, LiveStreamRouted
  <1> QED BY <1>4, <1>5, <1>6, <1>7 DEF RouteInv

\* A stream ends: its route stays behind for the cleanup.
LEMMA RouteEnds ==
    ASSUME RouteInv, NEW s \in Streams, StreamEnds(s)
    PROVE  RouteInv'
  <1>1. /\ alive' = alive \ {s} /\ peer' = [peer EXCEPT ![s] = Nobody]
        /\ UNCHANGED <<active, active_streams, listen, acceptor>>
    BY DEF StreamEnds, conn_state
  <1>2. DOMAIN peer = Streams /\ alive \subseteq Streams BY DEF RouteInv, Shapes
  <1>3. DOMAIN peer' = Streams /\ \A t \in alive' : peer'[t] = peer[t] BY <1>1, <1>2
  <1>4. Shapes' BY <1>1, <1>3 DEF RouteInv, Shapes
  <1>5. AcceptsUnrouted' BY <1>1, <1>3 DEF RouteInv, AcceptsUnrouted
  <1>6. CollectedStayDead' BY <1>1 DEF RouteInv, CollectedStayDead
  <1>7. LiveStreamRouted' BY <1>1, <1>3 DEF RouteInv, LiveStreamRouted
  <1> QED BY <1>4, <1>5, <1>6, <1>7 DEF RouteInv

\* The routing invariant holds as long as remove_active_connection is not called.
LEMMA RoutesHold ==
    ASSUME ~Removes
    PROVE  Spec => []RouteInv
  <1>1. Init => RouteInv
    BY DEF Init, RouteInv, Shapes, AcceptsUnrouted, CollectedStayDead, LiveStreamRouted
  <1>2. RouteInv /\ [Next]_vars => RouteInv'
    <2> SUFFICES ASSUME RouteInv, [Next]_vars PROVE RouteInv' OBVIOUS
    <2>1. CASE UNCHANGED vars
      BY <2>1 DEF vars, RouteInv, Shapes, AcceptsUnrouted, CollectedStayDead, LiveStreamRouted
    <2>2. ~(\E a \in Addr : RemoveActive(a)) BY DEF RemoveActive
    <2> QED
      BY <2>1, <2>2, RouteTask, RouteSweep, RouteWaits, RouteCreate, RouteRoute, RouteEnds DEF Next
  <1> QED BY <1>1, <1>2, PTL DEF Spec

\* For every number of peers and streams: as long as the application does not
\* call remove_active_connection, a running stream keeps its route, although
\* accept() and the cleanup change the routing map without the lock, and no peer
\* has two running streams.
THEOREM LiveStreamsRouted ==
    ASSUME ~Removes
    PROVE  Spec => []LiveStreamRouted
  <1>1. RouteInv => LiveStreamRouted BY DEF RouteInv
  <1> QED BY <1>1, RoutesHold, PTL

\* The comment on cleanup_dead_streams is true of a listener whose application does
\* not call remove_active_connection: the sweep, which collects routes before it has
\* the lock, then removes only routes whose stream has ended.  The run that calls it
\* shows that this is the condition.
THEOREM SweepIsSafe ==
    ASSUME ~Removes
    PROVE  Spec => SweepsOnlyClosed
  <1>1. RouteInv /\ [Next]_vars =>
          [\A a \in DOMAIN active_streams :
              a \notin DOMAIN active_streams' => active_streams[a] \notin alive]_vars
    <2> SUFFICES ASSUME RouteInv, Next, NEW a \in DOMAIN active_streams,
                        a \notin DOMAIN active_streams'
                 PROVE  active_streams[a] \notin alive
      OBVIOUS
    <2>1. CASE Sweep
      <3>1. /\ DOMAIN active_streams' = DOMAIN active_streams \ listen.dead
            /\ \A b \in listen.dead : active_streams[b] \notin alive
        BY <2>1 DEF RouteInv, CollectedStayDead, Sweep, Restrict
      <3> QED BY <3>1
    <2>2. CASE Route
      <3>1. DOMAIN active_streams \subseteq DOMAIN active_streams' BY <2>2 DEF Route
      <3> QED BY <3>1
    <2>3. CASE UNCHANGED active_streams BY <2>3
    <2> QED
      BY <2>1, <2>2, <2>3 DEF Next, Packet, Check, Insert, Enqueue, Undo, Collect, Expire,
         ReceiveFails, Accept, Pop, Mark, Create, Unmark, Close, RemoveActive, StreamEnds, Age
  <1> QED BY <1>1, RoutesHold, PTL DEF Spec, SweepsOnlyClosed
=============================================================================
