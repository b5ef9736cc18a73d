----------------------------- MODULE KcpKeepAlive -----------------------------
(***************************************************************************)
(* How the engine actor notices that its peer is gone: the loop of         *)
(* kcp/actor.rs with idle_ms(), keep_alive_probe(), the window probes and  *)
(* the retransmission of kcp-core/src/engine.rs.  Time is discrete; the    *)
(* engine's clock is a word that wraps, the actor's own Instants do not.   *)
(*                                                                         *)
(* The oldest segment in flight stands for all of them, and the estimate   *)
(* of the retransmission timeout does not change.  An answer of the peer,  *)
(* to a probe or to data, comes within Rtt, the time it waits for the      *)
(* actor included.                                                         *)
(***************************************************************************)
EXTENDS KcpProtocol

CONSTANTS
    KeepAlive,    \* keep_alive_ms
    Interval,     \* update_interval_ms, and nodelay.interval
    IdleCheck,    \* what check() returns when nothing is scheduled (30 s)
    Rto,          \* rtt.rto
    NoDelay,      \* nodelay.nodelay
    NoCongestion, \* nodelay.no_congestion_control
    ProbeInit,    \* IKCP_PROBE_INIT
    ProbeLimit,   \* IKCP_PROBE_LIMIT
    HighWater,    \* send_high_water
    DeadLinkMax,  \* dead_link
    Rtt,          \* bound: time in which an answer arrives
    Late,         \* bound: how late the actor serves its timer
    MaxLost,      \* bound: probes lost while nothing is received, and transmissions
                  \* of a segment, or the answers to them
    Origins,      \* what the clock shows when the connection begins
    MaxTicks      \* bound: time that passes

ASSUME KeepAliveAssumption ==
    /\ KeepAlive \in Nat \ {0} /\ Interval \in Nat \ {0} /\ IdleCheck \in Nat \ {0}
    /\ Rto \in Nat \ {0} /\ DeadLinkMax \in Nat \ {0} /\ Rtt \in Nat \ {0}
    /\ NoDelay \in BOOLEAN /\ NoCongestion \in BOOLEAN
    /\ ProbeInit \in Nat \ {0} /\ ProbeLimit \in Nat \ {0} /\ HighWater \in Nat \ {0}
    /\ Late \in Nat /\ MaxLost \in Nat /\ MaxTicks \in Nat
    /\ Origins \subseteq Words

VARIABLES
    running,        \* the actor is in its loop
    clock,          \* current_timestamp()
    last_activity,
    last_probe,     \* time since the last keep-alive probe, at most KeepAlive
    timer,          \* time until the timer is due; negative when it is late
    xmit,           \* transmissions of the segment in flight, 0 for none
    rto,            \* its retransmission timeout
    resend,         \* time until it is due again
    open,           \* the remote window is not zero
    queued,         \* segments in snd_queue
    probe_wait,     \* probe.wait
    probe_in,       \* time until probe.ts
    answer,         \* time in which the answer to a "probe" or to "data" arrives,
                    \* 0 when none is under way
    peer_up,        \* the peer is there
    lost,           \* probes, and transmissions of the segment, in vain so far
    gone_for,       \* time since the peer vanished
    quiet_for,      \* time since the application's last write or command
    asked,          \* a command was served during the present silence
    elapsed         \* time since the beginning

segment == <<xmit, rto, resend>>
window  == <<open, queued, probe_wait, probe_in>>
net     == <<answer, peer_up, lost, gone_for>>
app     == <<quiet_for, asked>>
vars    == <<running, clock, last_activity, last_probe, timer, segment, window, net, app,
             elapsed>>

\* What is sent and answered.
Kinds == {"probe", "data"}

idle_cap == Max2(KeepAlive, Max2(Interval, 1))

saturating_sub(a, b) == IF a >= b THEN a - b ELSE 0

idle_ms == saturating_sub(clock, last_activity)

\* The time until a retransmission, or a window probe, is due.
check ==
    Min2(IF xmit > 0 THEN resend ELSE IdleCheck,
         IF ~open /\ probe_wait > 0 THEN probe_in ELSE IdleCheck)

\* Variant for mutation: without the cap.
wait_uncapped == Max2(check, 1)

\* The wait of the next iteration.
wait == Clamp(check, 1, idle_cap)

\* A connection begins; its engine and its actor are made at the same time.
Init ==
    /\ running = TRUE
    /\ clock \in Origins /\ last_activity = clock
    /\ last_probe = 0
    /\ xmit = 0 /\ rto = 0 /\ resend = 0
    /\ open = TRUE /\ queued = 0 /\ probe_wait = 0 /\ probe_in = 0
    /\ timer = wait
    /\ answer = [k \in Kinds |-> 0] /\ lost = [k \in Kinds |-> 0]
    /\ peer_up = TRUE
    /\ gone_for = 0 /\ quiet_for = 0 /\ asked = FALSE /\ elapsed = 0

-----------------------------------------------------------------------------
(* Sending *)

\* What is sent leaves in a datagram, which may be lost, as may the answer to
\* it; a peer that is there answers all that arrives.  Nothing leaves when the
\* actor ends.
Sends(kinds, answer0, lost0) ==
    LET sent == IF running' THEN kinds ELSE {} IN
    /\ \E arrives \in SUBSET sent :
        /\ peer_up => \A k \in sent \ arrives : lost0[k] < MaxLost
        /\ lost' = [k \in Kinds |-> IF peer_up /\ k \in sent \ arrives THEN lost0[k] + 1 ELSE lost0[k]]
        /\ answer' = [k \in Kinds |-> IF peer_up /\ k \in arrives /\ answer0[k] = 0
                                       THEN Rtt ELSE answer0[k]]
    /\ UNCHANGED <<peer_up, gone_for>>

\* The timeout after one more that has passed.
back_off(r) ==
    r + CASE NoDelay /\ NoCongestion  -> Rto \div 2
          [] NoDelay /\ ~NoCongestion -> r \div 2
          [] ~NoDelay                 -> Max2(r, Interval)

\* What the first timeout has on top.
rtomin == IF NoDelay THEN 0 ELSE Rto \div 8

\* With x transmissions of what is in flight and q segments queued: the window
\* lets a first transmission go, or the time for the next one has come.
fresh(x, q) == x = 0 /\ open' /\ q > 0
due(x)      == x > 0 /\ resend <= 0

\* The time to ask for the remote window has come.
window_probe == ~open' /\ probe_wait > 0 /\ probe_in <= 0

\* A flush: the window probe, the queue and the segment in flight, and the wait
\* of the next iteration.
Flush(x, q) ==
    /\ probe_wait' = CASE open'        -> 0
                       [] window_probe -> Min2(probe_wait + probe_wait \div 2, ProbeLimit)
                       [] OTHER        -> IF probe_wait = 0 THEN ProbeInit ELSE probe_wait
    /\ probe_in' = CASE open'                          -> 0
                     [] window_probe \/ probe_wait = 0 -> probe_wait'
                     [] OTHER                          -> probe_in
    /\ queued' = IF open' THEN 0 ELSE q
    /\ xmit' = IF fresh(x, q) \/ due(x) THEN x + 1 ELSE x
    /\ rto' = CASE xmit' = 0   -> 0
                [] fresh(x, q) -> Rto
                [] due(x)      -> back_off(rto)
                [] OTHER       -> rto
    /\ resend' = CASE xmit' = 0   -> 0
                   [] fresh(x, q) -> Rto + rtomin
                   [] due(x)      -> rto'
                   [] OTHER       -> resend
    /\ timer' = wait'

\* The flush finds the link dead.
connection_lost(x, q) == (fresh(x, q) \/ due(x)) /\ x + 1 >= DeadLinkMax

\* What leaves with it.
flushed(x, q) ==
    (IF fresh(x, q) \/ due(x) THEN {"data"} ELSE {}) \cup (IF window_probe THEN {"probe"} ELSE {})

-----------------------------------------------------------------------------
(* The arms *)

\* Three silent keep-alive windows.
peer_silent == idle_ms >= 3 * KeepAlive

\* Variant for mutation: the probe is forgotten.
probe_due_not == FALSE

\* At most one probe in a window.
probe_due == idle_ms >= KeepAlive /\ last_probe >= KeepAlive

\* The timer: a flush, the end of a silent connection, or a probe when it is
\* time for one.
Timer ==
    /\ running /\ timer <= 0
    /\ UNCHANGED open
    /\ Flush(xmit, queued)
    /\ running' = ~(peer_silent \/ connection_lost(xmit, queued))
    /\ Sends(flushed(xmit, queued) \cup (IF probe_due THEN {"probe"} ELSE {}), answer, lost)
    /\ last_probe' = IF probe_due THEN 0 ELSE last_probe
    /\ UNCHANGED <<clock, last_activity, app, elapsed>>

\* Any datagram is an activity, it ends a silence, and it tells the remote window.
Input(kind) ==
    LET x == IF kind = "data" THEN 0 ELSE xmit IN
    /\ running
    /\ last_activity' = clock
    /\ open' \in BOOLEAN
    /\ Flush(x, queued)
    /\ running' = ~connection_lost(x, queued)
    /\ Sends(flushed(x, queued), [k \in Kinds |-> IF k = kind THEN 0 ELSE answer[k]],
                                 [k \in Kinds |-> IF k \in {kind, "probe"} THEN 0 ELSE lost[k]])
    /\ asked' = FALSE
    /\ UNCHANGED <<clock, last_probe, quiet_for, elapsed>>

\* The answer to a probe, or the acknowledgement of the data.
Receive(kind) == answer[kind] > 0 /\ Input(kind)

\* The peer sends of its own accord.
PeerSpeaks == peer_up /\ Input("none")

\* A write, below the high-water mark, is an activity.  One more segment is
\* queued, or none: the write is empty, or merged into the last one.
Write ==
    /\ running /\ queued < HighWater
    /\ last_activity' = clock
    /\ UNCHANGED open
    /\ \E q \in {queued, queued + 1} :
        /\ Flush(xmit, q)
        /\ running' = ~connection_lost(xmit, q)
        /\ Sends(flushed(xmit, q), answer, lost)
    /\ quiet_for' = 0 /\ asked' = FALSE
    /\ UNCHANGED <<clock, last_probe, elapsed>>

\* A command is no activity, but the next iteration has a new timer.
Command ==
    /\ running /\ running' = running
    /\ quiet_for' = 0 /\ asked' = (asked \/ idle_ms > 0)
    /\ UNCHANGED <<clock, last_activity, last_probe, open, elapsed>>

\* The Flush command; it is the application that is told of a dead link.
FlushCmd ==
    /\ Command
    /\ Flush(xmit, queued)
    /\ Sends(flushed(xmit, queued), answer, lost)

\* stats() and is_alive().
Query ==
    /\ Command
    /\ timer' = wait
    /\ UNCHANGED <<segment, window, net>>

-----------------------------------------------------------------------------
(* Time and the peer *)

\* The peer vanishes without a word.
PeerVanishes ==
    /\ peer_up
    /\ peer_up' = FALSE
    /\ UNCHANGED <<running, clock, last_activity, last_probe, timer, segment, window, answer,
                   lost, gone_for, app, elapsed>>

\* A deadline comes closer; that it has passed is all that is looked at.
Closer(t) == Max2(t - 1, -Late)

\* Time passes; neither the timer nor an answer waits longer than its bound.
Tick ==
    /\ elapsed < MaxTicks /\ running
    /\ timer > -Late /\ \A k \in Kinds : answer[k] # 1
    /\ elapsed' = elapsed + 1
    /\ clock' = WrapAdd(clock, 1)
    /\ timer' = timer - 1
    /\ last_probe' = Min2(last_probe + 1, KeepAlive)
    /\ resend' = IF xmit = 0 THEN 0 ELSE Closer(resend)
    /\ probe_in' = IF probe_wait = 0 THEN 0 ELSE Closer(probe_in)
    /\ answer' = [k \in Kinds |-> Max2(answer[k] - 1, 0)]
    /\ gone_for' = IF peer_up THEN 0 ELSE gone_for + 1
    /\ quiet_for' = quiet_for + 1
    /\ UNCHANGED <<running, last_activity, xmit, rto, open, queued, probe_wait, peer_up, lost, asked>>

Next ==
    \/ Timer \/ Write \/ FlushCmd \/ Query
    \/ \E k \in Kinds : Receive(k)
    \/ PeerSpeaks \/ PeerVanishes \/ Tick

Spec == Init /\ [][Next]_vars

-----------------------------------------------------------------------------
(* Properties *)

\* How long it may take: the last answer, and a silence that is noticed one timer
\* late.
DetectionTime == Rtt + 3 * KeepAlive + idle_cap + Late

\* What the comment in the timer arm says: a peer that vanished silently does not
\* leave the actor alive.  The time counts from when the application too is quiet:
\* each of its writes is an activity of the engine, an empty one and one that waits
\* behind a closed window included, and each of its commands puts the timer off.
VanishedPeerDetected == running => Min2(gone_for, quiet_for) <= DetectionTime

\* A peer that is there and answers is never given up, even when MaxLost probes or
\* answers are lost between two signs of it, the timer is served late, the remote
\* window is closed and the retransmissions back off, unless commands put the
\* timer off during the silence.
LivePeerKept == [][running /\ ~running' /\ ~asked => ~peer_up]_vars
===============================================================================
