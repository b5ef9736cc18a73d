----------------------------- MODULE KcpListener -----------------------------
(***************************************************************************)
(* The listener of kcp/listener.rs: a background task that receives every  *)
(* datagram of the socket, and the application that accepts connections.   *)
(* They share ConnectionState behind a lock, the routing map without one,  *)
(* and a bounded queue.                                                    *)
(*                                                                         *)
(* A step ends where a lock is released or waited for: the other side may  *)
(* run in between.  A stream is its actor: alive until the actor ends.     *)
(* Datagrams that change nothing (not KCP, or routed to a stream) are left *)
(* out.                                                                    *)
(***************************************************************************)
EXTENDS Naturals, Sequences, FiniteSets, Functions

CONSTANTS
    Addr,          \* peer addresses
    MaxPending,    \* config.max_pending_connections
    Streams,       \* bound: streams alive, routed or being accepted at once
    Removes,       \* the application calls remove_active_connection
    Nobody,        \* no address
    NoStream       \* no stream

ASSUME ListenerAssumption ==
    /\ MaxPending \in Nat \ {0} /\ Removes \in BOOLEAN
    /\ IsFiniteSet(Addr) /\ IsFiniteSet(Streams)
    /\ Nobody \notin Addr /\ NoStream \notin Streams

VARIABLES
    pending,          \* ConnectionState.pending, the addresses
    expired,          \* the pending entries older than connect_timeout
    accepting,        \* ConnectionState.accepting
    active,           \* ConnectionState.active
    active_streams,   \* the routing map: address -> stream
    connection_queue, \* addresses queued for accept()
    listen,           \* the background task: where it is and its locals
    acceptor,         \* the application's accept() call and its locals
    peer,             \* peer[s]: the address running stream s was created for
    alive             \* the streams whose actor runs

vars == <<pending, expired, accepting, active, active_streams, connection_queue,
          listen, acceptor, peer, alive>>

conn_state == <<pending, expired, accepting, active>>

\* with_transport: nothing is known and the task waits in its select.
Init ==
    /\ pending = {} /\ expired = {} /\ accepting = {} /\ active = {}
    /\ active_streams = [a \in {} |-> NoStream]
    /\ connection_queue = <<>>
    /\ listen = [at |-> "select", addr |-> Nobody, dead |-> {}]
    /\ acceptor = [at |-> "idle", addr |-> Nobody, stream |-> NoStream]
    /\ peer = [s \in Streams |-> Nobody]
    /\ alive = {}

-----------------------------------------------------------------------------
(* The background task *)

\* Variant for mutation: no limit on pending connections.
new_connection_unlimited(a) == a \notin active /\ a \notin accepting /\ a \notin pending

\* The checks of handle_incoming_packet under the read lock.
new_connection(a) ==
    /\ a \notin active /\ a \notin accepting /\ a \notin pending
    /\ Cardinality(pending) < MaxPending

\* A KCP datagram of an address without a route; the map is read without the
\* lock.
Packet(a) ==
    /\ listen.at = "select"
    /\ a \notin DOMAIN active_streams
    /\ listen' = [listen EXCEPT !.at = "check", !.addr = a]
    /\ UNCHANGED <<conn_state, active_streams, connection_queue, acceptor, peer, alive>>

\* The checks: the datagram opens a connection or is ignored.
Check ==
    /\ listen.at = "check"
    /\ listen' = IF new_connection(listen.addr)
                 THEN [listen EXCEPT !.at = "insert"]
                 ELSE [listen EXCEPT !.at = "select", !.addr = Nobody]
    /\ UNCHANGED <<conn_state, active_streams, connection_queue, acceptor, peer, alive>>

\* The entry is inserted under the write lock.
Insert ==
    /\ listen.at = "insert"
    /\ pending' = pending \cup {listen.addr}
    /\ expired' = expired \ {listen.addr}
    /\ listen' = [listen EXCEPT !.at = "send"]
    /\ UNCHANGED <<accepting, active, active_streams, connection_queue, acceptor, peer, alive>>

\* try_send: the queue has as many places as there may be pending connections.
Enqueue ==
    /\ listen.at = "send"
    /\ IF Len(connection_queue) < MaxPending
       THEN /\ connection_queue' = Append(connection_queue, listen.addr)
            /\ listen' = [listen EXCEPT !.at = "select", !.addr = Nobody]
       ELSE /\ listen' = [listen EXCEPT !.at = "undo"]
            /\ UNCHANGED connection_queue
    /\ UNCHANGED <<conn_state, active_streams, acceptor, peer, alive>>

\* The queue was full: the entry is removed again.
Undo ==
    /\ listen.at = "undo"
    /\ pending' = pending \ {listen.addr}
    /\ expired' = expired \ {listen.addr}
    /\ listen' = [listen EXCEPT !.at = "select", !.addr = Nobody]
    /\ UNCHANGED <<accepting, active, active_streams, connection_queue, acceptor, peer, alive>>

\* The cleanup tick; cleanup_dead_streams collects the routes whose channel is
\* closed before it asks for the lock.
Collect ==
    LET dead == {a \in DOMAIN active_streams : active_streams[a] \notin alive}
    IN  /\ listen.at = "select"
        /\ listen' = [listen EXCEPT !.at = IF dead = {} THEN "expire" ELSE "sweep",
                                    !.dead = dead]
        /\ UNCHANGED <<conn_state, active_streams, connection_queue, acceptor, peer, alive>>

\* Variant for mutation: the addresses stay active.
swept_routes_only(dead) == active

\* The addresses that stay active when the dead ones are swept.
swept(dead) == active \ dead

\* cleanup_dead_streams under the lock.
Sweep ==
    /\ listen.at = "sweep"
    /\ active_streams' = Restrict(active_streams, DOMAIN active_streams \ listen.dead)
    /\ active' = swept(listen.dead)
    /\ listen' = [listen EXCEPT !.at = "expire", !.dead = {}]
    /\ UNCHANGED <<pending, expired, accepting, connection_queue, acceptor, peer, alive>>

\* cleanup_pending_connections.
Expire ==
    /\ listen.at = "expire"
    /\ pending' = pending \ expired
    /\ expired' = {}
    /\ listen' = [listen EXCEPT !.at = "select"]
    /\ UNCHANGED <<accepting, active, active_streams, connection_queue, acceptor, peer, alive>>

\* recv_from fails: the task ends.
ReceiveFails ==
    /\ listen.at = "select"
    /\ listen' = [listen EXCEPT !.at = "stopped"]
    /\ UNCHANGED <<conn_state, active_streams, connection_queue, acceptor, peer, alive>>

-----------------------------------------------------------------------------
(* The application *)

\* accept() is called.  It and close() borrow the listener exclusively.
Accept ==
    /\ acceptor.at = "idle"
    /\ acceptor' = [acceptor EXCEPT !.at = "recv"]
    /\ UNCHANGED <<conn_state, active_streams, connection_queue, listen, peer, alive>>

\* The queue yields a connection.  It is never closed: the listener keeps a
\* sender itself.
Pop ==
    /\ acceptor.at = "recv"
    /\ connection_queue # <<>>
    /\ connection_queue' = Tail(connection_queue)
    /\ acceptor' = [acceptor EXCEPT !.at = "mark", !.addr = Head(connection_queue)]
    /\ UNCHANGED <<conn_state, active_streams, listen, peer, alive>>

\* Variant for mutation: a peer that is active is accepted again.
accepts_always(a) == TRUE

\* accept() goes on with a peer that is not active.
accepts(a) == a \notin active

\* Under the lock: skip an active peer, or mark the peer as being accepted.
Mark ==
    /\ acceptor.at = "mark"
    /\ IF accepts(acceptor.addr)
       THEN /\ accepting' = accepting \cup {acceptor.addr}
            /\ acceptor' = [acceptor EXCEPT !.at = "create"]
       ELSE /\ acceptor' = [acceptor EXCEPT !.at = "recv", !.addr = Nobody]
            /\ UNCHANGED accepting
    /\ UNCHANGED <<pending, expired, active, active_streams, connection_queue, listen, peer, alive>>

\* Streams that nothing refers to any more.
Unused == Streams \ (alive \cup Range(active_streams) \cup {acceptor.stream})

\* create_stream_for_connection: the actor is spawned and the peer becomes
\* active under the lock.  It cannot fail: the datagram it starts from passed
\* the only check that input() may reject it for.
Create ==
    /\ acceptor.at = "create"
    /\ \E s \in Unused :
        /\ s = CHOOSE t \in Unused : TRUE
        /\ peer' = [peer EXCEPT ![s] = acceptor.addr]
        /\ alive' = alive \cup {s}
        /\ acceptor' = [acceptor EXCEPT !.at = "route", !.stream = s]
    /\ pending' = pending \ {acceptor.addr}
    /\ expired' = expired \ {acceptor.addr}
    /\ active' = active \cup {acceptor.addr}
    /\ UNCHANGED <<accepting, active_streams, connection_queue, listen>>

\* The route is inserted, without the lock.
Route ==
    /\ acceptor.at = "route"
    /\ active_streams' = [a \in DOMAIN active_streams \cup {acceptor.addr} |->
            IF a = acceptor.addr THEN acceptor.stream ELSE active_streams[a]]
    /\ acceptor' = [acceptor EXCEPT !.at = "unmark", !.stream = NoStream]
    /\ UNCHANGED <<conn_state, connection_queue, listen, peer, alive>>

\* accept() clears its mark and returns the stream.
Unmark ==
    /\ acceptor.at = "unmark"
    /\ accepting' = accepting \ {acceptor.addr}
    /\ acceptor' = [acceptor EXCEPT !.at = "idle", !.addr = Nobody]
    /\ UNCHANGED <<pending, expired, active, active_streams, connection_queue, listen, peer, alive>>

\* close() aborts the task where it waits.
Close ==
    /\ acceptor.at = "idle"
    /\ listen.at \in {"select", "check", "insert", "undo", "sweep", "expire"}
    /\ listen' = [listen EXCEPT !.at = "stopped"]
    /\ UNCHANGED <<conn_state, active_streams, connection_queue, acceptor, peer, alive>>

Serves(a) == \E s \in alive : peer[s] = a

\* remove_active_connection, called as its comment says when the stream was dropped:
\* its actor has ended, or it still lingers.
RemoveActive(a) ==
    /\ Removes
    /\ acceptor.at = "idle"
    /\ a \in active
    /\ active' = active \ {a}
    /\ UNCHANGED <<pending, expired, accepting, active_streams, connection_queue, listen,
                   acceptor, peer, alive>>

-----------------------------------------------------------------------------
(* The rest of the world *)

\* The actor of a stream ends, for whatever reason.
StreamEnds(s) ==
    /\ s \in alive
    /\ alive' = alive \ {s}
    /\ peer' = [peer EXCEPT ![s] = Nobody]
    /\ UNCHANGED <<conn_state, active_streams, connection_queue, listen, acceptor>>

\* A pending entry reaches connect_timeout.
Age(a) ==
    /\ a \in pending \ expired
    /\ expired' = expired \cup {a}
    /\ UNCHANGED <<pending, accepting, active, active_streams, connection_queue, listen,
                   acceptor, peer, alive>>

Task == Check \/ Insert \/ Enqueue \/ Undo \/ Sweep \/ Expire
App  == Accept \/ Pop \/ Mark \/ Create \/ Route \/ Unmark

Next ==
    \/ \E a \in Addr : Packet(a)
    \/ Check \/ Insert \/ Enqueue \/ Undo
    \/ Collect \/ Sweep \/ Expire \/ ReceiveFails
    \/ Accept \/ Pop \/ Mark \/ Create \/ Route \/ Unmark \/ Close
    \/ \E a \in Addr : RemoveActive(a)
    \/ \E s \in Streams : StreamEnds(s)
    \/ \E a \in Addr : Age(a)

Spec == Init /\ [][Next]_vars

\* The task and accept() run, the application keeps accepting, time passes,
\* every peer keeps sending, and select! picks among its ready branches at
\* random, so that neither datagrams nor the cleanup tick starve.
Fairness ==
    /\ WF_vars(Task) /\ WF_vars(App)
    /\ SF_vars(Collect)
    /\ \A a \in Addr : SF_vars(Packet(a)) /\ WF_vars(Age(a))

FairSpec == Spec /\ Fairness

-----------------------------------------------------------------------------
(* Properties *)

\* A stream whose actor runs receives the datagrams of its peer, unless accept()
\* is just about to insert its route; so no peer has two running streams either.
LiveStreamRouted ==
    \A s \in alive :
        \/ peer[s] \in DOMAIN active_streams /\ active_streams[peer[s]] = s
        \/ acceptor.stream = s

\* The limits and marks hold although they are checked under one lock and
\* acted on under another: pending never exceeds its limit, and a peer is marked
\* as being accepted exactly while accept() works on it.
Bookkeeping ==
    /\ Cardinality(pending) <= MaxPending
    /\ accepting = IF acceptor.at \in {"create", "route", "unmark"} THEN {acceptor.addr} ELSE {}

\* The bound on streams does not stop accept(); without it nothing would.
StreamLeft == acceptor.at = "create" => Unused # {}

\* When streams stop ending, every peer that keeps sending ends up served: no
\* leftover of the bookkeeping, whatever order of expiry, reconnection, cleanup and
\* removal produced it, shuts a peer out for ever.
EveryPeerServed ==
    (<>[][\A s \in Streams : ~StreamEnds(s)]_vars) /\ <>[]StreamLeft =>
        \A a \in Addr : []<>(Serves(a) \/ listen.at = "stopped")

\* What the comment on cleanup_dead_streams says: it removes streams whose input
\* channel has closed, so never one that runs.
SweepsOnlyClosed ==
    [][\A a \in DOMAIN active_streams :
        a \notin DOMAIN active_streams' => active_streams[a] \notin alive]_vars
==============================================================================
