-------------------------- MODULE KcpKeepAliveProofs --------------------------
(***************************************************************************)
(* Theorems about KcpKeepAlive, for every keep-alive window, timeout,      *)
(* number of transmissions and delay.                                      *)
(***************************************************************************)
EXTENDS KcpKeepAlive, TLAPS

\* The clock does not wrap while the connection lasts: what idle_ms() needs.
NoWrap == \A o \in Origins : o + MaxTicks < Word

-----------------------------------------------------------------------------
(* Arithmetic *)

\* Products of naturals are naturals.
LEMMA TimesNat == \A a, b \in Nat : a * b \in Nat
  OBVIOUS

\* One round more.
LEMMA TimesStep == \A a \in Int : \A b \in Nat : (a + 1) * b = a * b + b
  OBVIOUS

\* More rounds take longer.
LEMMA TimesMonotone == \A a, b, c \in Nat : a <= b => a * c <= b * c
  <1> SUFFICES ASSUME NEW a \in Nat, NEW b \in Nat, NEW c \in Nat, a <= b PROVE a * c <= b * c
    OBVIOUS
  <1>1. b - a \in Nat OBVIOUS
  <1>2. (b - a) * c \in Nat BY <1>1, TimesNat
  <1>3. b * c = a * c + (b - a) * c OBVIOUS
  <1>4. a * c \in Nat /\ b * c \in Nat BY TimesNat
  <1> QED BY <1>2, <1>3, <1>4

\* Differences.
LEMMA MinusNat == \A a, b \in Nat : b <= a => a - b \in Nat
  OBVIOUS

\* The longest wait of the timer.
LEMMA IdleCap == idle_cap \in Nat /\ idle_cap >= 1 /\ idle_cap >= KeepAlive
  BY KeepAliveAssumption DEF idle_cap, Max2

\* The wait for a deadline.
LEMMA WaitFor ==
    \A c \in Int : /\ Clamp(c, 1, idle_cap) \in 1 .. idle_cap
                   /\ c >= 1 => Clamp(c, 1, idle_cap) <= c
                   /\ c < 1 => Clamp(c, 1, idle_cap) = 1
                   /\ Clamp(c, 1, idle_cap) >= c \/ Clamp(c, 1, idle_cap) >= KeepAlive
  BY IdleCap, KeepAliveAssumption DEF Clamp

\* A timeout only grows.
LEMMA BackOffGrows == \A r \in Nat : back_off(r) \in Nat /\ back_off(r) >= r
  <1> SUFFICES ASSUME NEW r \in Nat PROVE back_off(r) \in Nat /\ back_off(r) >= r OBVIOUS
  <1>1. Rto \div 2 \in Nat /\ r \div 2 \in Nat BY KeepAliveAssumption
  <1>2. Max2(r, Interval) \in Nat BY KeepAliveAssumption DEF Max2
  <1> QED BY <1>1, <1>2, KeepAliveAssumption DEF back_off

-----------------------------------------------------------------------------
(* What an arm does *)

\* The engine's part of the state; a segment in flight has a timeout, and nothing is
\* queued behind an open window.
EngineTypes ==
    /\ xmit \in Nat /\ rto \in Nat /\ resend \in Int /\ (xmit > 0 => rto >= Rto)
    /\ open \in BOOLEAN /\ queued \in Nat /\ (open => queued = 0)
    /\ probe_wait \in Nat /\ probe_in \in Int

\* The types.
Types ==
    /\ running \in BOOLEAN /\ peer_up \in BOOLEAN /\ asked \in BOOLEAN
    /\ clock \in Nat /\ last_activity \in Nat /\ elapsed \in Nat
    /\ gone_for \in Nat /\ quiet_for \in Nat
    /\ last_probe \in 0 .. KeepAlive /\ timer \in Int
    /\ answer \in [Kinds -> Nat] /\ lost \in [Kinds -> Nat]
    /\ EngineTypes

\* A wait that ends when the segment in flight is due, or else with the window
\* probe or after a whole keep-alive window.
InTime(t) ==
    /\ t \in 1 .. idle_cap
    /\ xmit > 0 /\ resend >= 1 => t <= resend
    /\ xmit = 0 /\ KeepAlive <= IdleCheck
         => t >= KeepAlive \/ (~open /\ probe_wait > 0 /\ probe_in <= t)

WaitInTime == InTime(wait)

\* The wait of an iteration.
LEMMA Waits == EngineTypes => WaitInTime
  <1> SUFFICES ASSUME EngineTypes PROVE InTime(wait) BY DEF WaitInTime
  <1> DEFINE c1 == IF xmit > 0 THEN resend ELSE IdleCheck
             c2 == IF ~open /\ probe_wait > 0 THEN probe_in ELSE IdleCheck
  <1>1. c1 \in Int /\ c2 \in Int BY KeepAliveAssumption DEF EngineTypes
  <1>2. check \in Int /\ check <= c1 /\ check <= c2 /\ check \in {c1, c2} BY <1>1 DEF check, Min2
  <1>3. /\ wait \in 1 .. idle_cap
        /\ (check >= 1 => wait <= check) /\ (check < 1 => wait = 1)
        /\ wait >= check \/ wait >= KeepAlive
    BY <1>2, WaitFor DEF wait
  <1>4. wait \in Int /\ wait >= 1 BY <1>3, IdleCap
  <1>5. xmit > 0 /\ resend >= 1 => wait <= resend
    BY <1>1, <1>2, <1>3, <1>4
  <1>6. xmit = 0 /\ KeepAlive <= IdleCheck
          => wait >= KeepAlive \/ (~open /\ probe_wait > 0 /\ probe_in <= wait)
    BY <1>1, <1>2, <1>3, <1>4, KeepAliveAssumption
  <1> QED BY <1>3, <1>5, <1>6 DEF InTime

\* What is in flight after a flush.
LEMMA FlushSegment ==
    ASSUME EngineTypes, NEW x \in {0, xmit}, NEW q \in Nat, open' \in BOOLEAN, Flush(x, q)
    PROVE  /\ xmit' \in Nat /\ rto' \in Nat /\ resend' \in Int
           /\ fresh(x, q) => x = 0 /\ xmit' = 1 /\ rto' = Rto /\ resend' = Rto + rtomin
           /\ due(x) => x > 0 /\ x = xmit /\ resend <= 0 /\ xmit' = x + 1
                        /\ rto' = back_off(rto) /\ resend' = rto'
           /\ ~fresh(x, q) /\ ~due(x) => xmit' = x
           /\ ~fresh(x, q) /\ ~due(x) /\ x > 0 => rto' = rto /\ resend' = resend
           /\ xmit' > 0 => rto' >= Rto /\ resend' >= 1
  <1>1. x \in Nat /\ rto \in Nat /\ resend \in Int /\ (x > 0 => x = xmit /\ rto >= Rto)
    BY DEF EngineTypes
  <1>2. rtomin \in Nat /\ Rto \in Nat /\ Rto >= 1
    <2>1. Rto \div 8 \in Nat BY KeepAliveAssumption
    <2> QED BY <2>1, KeepAliveAssumption DEF rtomin
  <1>3. back_off(rto) \in Nat /\ back_off(rto) >= rto BY <1>1, BackOffGrows
  <1>4. /\ xmit' = IF fresh(x, q) \/ due(x) THEN x + 1 ELSE x
        /\ rto' = CASE xmit' = 0   -> 0
                    [] fresh(x, q) -> Rto
                    [] due(x)      -> back_off(rto)
                    [] OTHER       -> rto
        /\ resend' = CASE xmit' = 0   -> 0
                       [] fresh(x, q) -> Rto + rtomin
                       [] due(x)      -> rto'
                       [] OTHER       -> resend
    BY DEF Flush
  <1>5. CASE fresh(x, q)
    <2>1. x = 0 /\ ~due(x) BY <1>5 DEF fresh, due
    <2>2. xmit' = 1 BY <1>4, <1>5, <2>1
    <2>3. rto' = Rto /\ resend' = Rto + rtomin BY <1>4, <1>5, <2>1, <2>2
    <2> QED BY <1>2, <1>5, <2>1, <2>2, <2>3
  <1>6. CASE due(x)
    <2>1. x > 0 /\ resend <= 0 /\ ~fresh(x, q) BY <1>1, <1>6 DEF fresh, due
    <2>2. xmit' = x + 1 /\ xmit' # 0 BY <1>1, <1>4, <1>6
    <2>3. rto' = back_off(rto) /\ resend' = rto' BY <1>4, <1>6, <2>1, <2>2
    <2> QED BY <1>1, <1>2, <1>3, <1>6, <2>1, <2>2, <2>3
  <1>7. CASE ~fresh(x, q) /\ ~due(x)
    <2>1. xmit' = x BY <1>4, <1>7
    <2>2. CASE x = 0
      <3>1. rto' = 0 /\ resend' = 0 BY <1>4, <2>1, <2>2
      <3> QED BY <1>7, <2>1, <2>2, <3>1
    <2>3. CASE x > 0
      <3>1. rto' = rto /\ resend' = resend BY <1>4, <1>7, <2>1, <2>3
      <3>2. resend >= 1 BY <1>1, <1>7, <2>3 DEF due
      <3> QED BY <1>1, <1>7, <2>1, <2>3, <3>1, <3>2
    <2> QED BY <1>1, <2>2, <2>3
  <1> QED BY <1>5, <1>6, <1>7

\* The window probe after a flush.
LEMMA FlushWindow ==
    ASSUME EngineTypes, NEW x \in {0, xmit}, NEW q \in Nat, open' \in BOOLEAN, Flush(x, q)
    PROVE  queued' \in Nat /\ (open' => queued' = 0) /\ probe_wait' \in Nat /\ probe_in' \in Int
  <1>1. queued' = IF open' THEN 0 ELSE q BY DEF Flush
  <1>2. probe_wait \in Nat /\ probe_in \in Int /\ window_probe \in BOOLEAN
    BY DEF EngineTypes, window_probe
  <1>3. probe_wait \div 2 \in Nat /\ ProbeLimit \in Nat /\ ProbeInit \in Nat
    BY <1>2, KeepAliveAssumption
  <1>4. Min2(probe_wait + probe_wait \div 2, ProbeLimit) \in Nat BY <1>2, <1>3 DEF Min2
  <1>5. probe_wait' \in Nat BY <1>2, <1>3, <1>4 DEF Flush
  <1>6. probe_in' \in {0, probe_wait', probe_in} BY <1>2 DEF Flush
  <1> QED BY <1>1, <1>2, <1>5, <1>6

\* A flush, and the wait after it.
LEMMA FlushTypes ==
    ASSUME EngineTypes, NEW x \in {0, xmit}, NEW q \in Nat, open' \in BOOLEAN, Flush(x, q)
    PROVE  EngineTypes' /\ InTime(timer)'
  <1>1. EngineTypes' BY FlushSegment, FlushWindow DEF EngineTypes
  <1>2. WaitInTime' BY <1>1, Waits, PTL
  <1>3. timer' = wait' BY DEF Flush
  <1>4. InTime(timer)' <=> WaitInTime' BY <1>3 DEF InTime, WaitInTime
  <1> QED BY <1>1, <1>2, <1>4

\* What leaves with it, when the actor goes on: each datagram is lost or answered.
LEMMA SendsEffect ==
    ASSUME NEW kinds \in SUBSET Kinds, NEW a \in [Kinds -> Nat], NEW l \in [Kinds -> Nat],
           Sends(kinds, a, l), peer_up \in BOOLEAN
    PROVE  /\ answer' \in [Kinds -> Nat] /\ lost' \in [Kinds -> Nat]
           /\ UNCHANGED <<peer_up, gone_for>>
           /\ ~peer_up => answer' = a
           /\ \A k \in Kinds : answer'[k] \in {a[k], Rtt}
           /\ \A k \in Kinds : k \notin kinds => answer'[k] = a[k] /\ lost'[k] = l[k]
           /\ running' /\ peer_up => \A k \in kinds :
                \/ answer'[k] = (IF a[k] = 0 THEN Rtt ELSE a[k]) /\ lost'[k] = l[k]
                \/ answer'[k] = a[k] /\ lost'[k] = l[k] + 1 /\ l[k] < MaxLost
  <1> DEFINE sent == IF running' THEN kinds ELSE {}
  <1>1. PICK arrives \in SUBSET sent :
        /\ peer_up => \A k \in sent \ arrives : l[k] < MaxLost
        /\ lost' = [k \in Kinds |-> IF peer_up /\ k \in sent \ arrives THEN l[k] + 1 ELSE l[k]]
        /\ answer' = [k \in Kinds |-> IF peer_up /\ k \in arrives /\ a[k] = 0
                                       THEN Rtt ELSE a[k]]
    BY DEF Sends
  <1>2. UNCHANGED <<peer_up, gone_for>> BY DEF Sends
  <1>3. Rtt \in Nat BY KeepAliveAssumption
  <1>4. answer' \in [Kinds -> Nat] /\ lost' \in [Kinds -> Nat] BY <1>1, <1>3
  <1>5. arrives \subseteq kinds /\ (~running' => arrives = {} /\ sent = {}) BY <1>1
  <1>6. ~peer_up => answer' = a BY <1>1, <1>5
  <1>7. \A k \in Kinds : k \notin kinds => answer'[k] = a[k] /\ lost'[k] = l[k] BY <1>1, <1>5
  <1>8. running' /\ peer_up => \A k \in kinds :
                \/ answer'[k] = (IF a[k] = 0 THEN Rtt ELSE a[k]) /\ lost'[k] = l[k]
                \/ answer'[k] = a[k] /\ lost'[k] = l[k] + 1 /\ l[k] < MaxLost
    BY <1>1, <1>5
  <1>9. \A k \in Kinds : answer'[k] \in {a[k], Rtt} BY <1>1
  <1> QED BY <1>2, <1>4, <1>6, <1>7, <1>8, <1>9

\* The arms in one shape: x transmissions of what is in flight, q segments queued, a
\* the answers under way and l what was lost, all before the flush, and kinds
\* what is sent.
TimerArm(x, q, kinds, a, l) ==
    /\ timer <= 0 /\ (running' => ~peer_silent)
    /\ x = xmit /\ q = queued /\ a = answer /\ l = lost
    /\ UNCHANGED <<last_activity, open, quiet_for, asked>>
    /\ window_probe \/ probe_due => "probe" \in kinds
    /\ last_probe' = IF probe_due THEN 0 ELSE last_probe
    /\ ~running' => peer_silent \/ connection_lost(x, q)

WriteArm(x, q, kinds, a, l) ==
    /\ last_activity' = clock /\ quiet_for' = 0 /\ asked' = FALSE
    /\ UNCHANGED last_probe
    /\ x = xmit /\ a = answer /\ l = lost
    /\ ~running' => connection_lost(x, q)

InputArm(k, x, q, kinds, a, l) ==
    /\ last_activity' = clock /\ UNCHANGED quiet_for /\ asked' = FALSE
    /\ UNCHANGED last_probe
    /\ IF k \in Kinds THEN answer[k] > 0 ELSE peer_up
    /\ x = IF k = "data" THEN 0 ELSE xmit
    /\ a = [j \in Kinds |-> IF j = k THEN 0 ELSE answer[j]]
    /\ l = [j \in Kinds |-> IF j \in {k, "probe"} THEN 0 ELSE lost[j]]
    /\ ~running' => connection_lost(x, q)

CommandArm(x, q, kinds, a, l) ==
    /\ running' /\ quiet_for' = 0 /\ asked' = (asked \/ idle_ms > 0)
    /\ UNCHANGED <<last_activity, last_probe, open>>
    /\ x = xmit /\ q = queued /\ a = answer /\ l = lost

Arm(x, q, kinds, a, l) ==
    /\ running /\ running' \in BOOLEAN /\ open' \in BOOLEAN
    /\ Flush(x, q) /\ Sends(kinds, a, l)
    /\ UNCHANGED <<clock, elapsed>>
    /\ fresh(x, q) \/ due(x) <=> "data" \in kinds
    /\ \/ TimerArm(x, q, kinds, a, l)
       \/ WriteArm(x, q, kinds, a, l)
       \/ \E k \in Kinds \cup {"none"} : InputArm(k, x, q, kinds, a, l)
       \/ CommandArm(x, q, kinds, a, l)

\* What a flush sends.
LEMMA Flushed ==
    ASSUME NEW x, NEW q
    PROVE  /\ flushed(x, q) \in SUBSET Kinds
           /\ "data" \in flushed(x, q) <=> fresh(x, q) \/ due(x)
           /\ "probe" \in flushed(x, q) <=> window_probe
  BY DEF flushed, Kinds

\* Every arm but a query has this shape.
LEMMA Arms ==
    ASSUME Types, Timer \/ Write \/ FlushCmd \/ (\E k \in Kinds : Receive(k)) \/ PeerSpeaks
    PROVE  \E x \in {0, xmit}, q \in Nat, kinds \in SUBSET Kinds,
              a \in [Kinds -> Nat], l \in [Kinds -> Nat] : Arm(x, q, kinds, a, l)
  <1>0. /\ xmit \in {0, xmit} /\ queued \in Nat /\ queued + 1 \in Nat /\ open \in BOOLEAN
        /\ answer \in [Kinds -> Nat] /\ lost \in [Kinds -> Nat] /\ running \in BOOLEAN
    BY DEF Types, EngineTypes
  <1>1. CASE Timer
    <2> DEFINE kinds == flushed(xmit, queued) \cup (IF probe_due THEN {"probe"} ELSE {})
    <2>1. Flush(xmit, queued) /\ Sends(kinds, answer, lost) BY <1>1 DEF Timer
    <2>2. /\ kinds \in SUBSET Kinds
          /\ fresh(xmit, queued) \/ due(xmit) <=> "data" \in kinds
          /\ window_probe \/ probe_due => "probe" \in kinds
      BY Flushed DEF Kinds
    <2> HIDE DEF kinds
    <2>3. running' = ~(peer_silent \/ connection_lost(xmit, queued)) BY <1>1 DEF Timer
    <2>4. /\ running' \in BOOLEAN /\ (running' => ~peer_silent)
          /\ ~running' => peer_silent \/ connection_lost(xmit, queued)
      BY <2>3, Zenon
    <2>5. /\ running /\ timer <= 0 /\ UNCHANGED <<clock, elapsed, last_activity, open, quiet_for, asked>>
          /\ last_probe' = IF probe_due THEN 0 ELSE last_probe
      BY <1>1 DEF Timer, app
    <2>6. TimerArm(xmit, queued, kinds, answer, lost) BY <2>2, <2>4, <2>5 DEF TimerArm
    <2>7. Arm(xmit, queued, kinds, answer, lost) BY <1>0, <2>1, <2>2, <2>4, <2>5, <2>6 DEF Arm
    <2> QED BY <1>0, <2>2, <2>7
  <1>2. CASE Write
    <2>1. PICK q \in {queued, queued + 1} :
            /\ Flush(xmit, q)
            /\ running' = ~connection_lost(xmit, q)
            /\ Sends(flushed(xmit, q), answer, lost)
      BY <1>2 DEF Write
    <2>2. q \in Nat BY <1>0, <2>1
    <2>3. running' \in BOOLEAN /\ (~running' => connection_lost(xmit, q)) BY <2>1, Zenon
    <2>4. /\ running /\ last_activity' = clock /\ quiet_for' = 0 /\ asked' = FALSE
          /\ UNCHANGED <<clock, last_probe, elapsed, open>>
      BY <1>2 DEF Write
    <2>5. WriteArm(xmit, q, flushed(xmit, q), answer, lost) BY <2>3, <2>4 DEF WriteArm
    <2>6. Arm(xmit, q, flushed(xmit, q), answer, lost)
      BY <1>0, <2>1, <2>3, <2>4, <2>5, Flushed DEF Arm
    <2> QED BY <1>0, <2>2, <2>6, Flushed
  <1>3. CASE FlushCmd
    <2>1. Flush(xmit, queued) /\ Sends(flushed(xmit, queued), answer, lost) BY <1>3 DEF FlushCmd
    <2>2. /\ running /\ running' = running /\ quiet_for' = 0 /\ asked' = (asked \/ idle_ms > 0)
          /\ UNCHANGED <<clock, last_activity, last_probe, open, elapsed>>
      BY <1>3 DEF FlushCmd, Command
    <2>3. CommandArm(xmit, queued, flushed(xmit, queued), answer, lost) BY <2>2 DEF CommandArm
    <2>4. Arm(xmit, queued, flushed(xmit, queued), answer, lost)
      BY <1>0, <2>1, <2>2, <2>3, Flushed DEF Arm
    <2> QED BY <1>0, <2>4, Flushed
  <1>4. ASSUME NEW k \in Kinds \cup {"none"}, Input(k),
               IF k \in Kinds THEN answer[k] > 0 ELSE peer_up
        PROVE  \E x \in {0, xmit}, q \in Nat, kinds \in SUBSET Kinds,
                  a \in [Kinds -> Nat], l \in [Kinds -> Nat] : Arm(x, q, kinds, a, l)
    <2> DEFINE x == IF k = "data" THEN 0 ELSE xmit
               a == [j \in Kinds |-> IF j = k THEN 0 ELSE answer[j]]
               l == [j \in Kinds |-> IF j \in {k, "probe"} THEN 0 ELSE lost[j]]
    <2>1. /\ Flush(x, queued) /\ Sends(flushed(x, queued), a, l)
          /\ running' = ~connection_lost(x, queued) /\ open' \in BOOLEAN
      BY <1>4 DEF Input
    <2>2. running' \in BOOLEAN /\ (~running' => connection_lost(x, queued)) BY <2>1, Zenon
    <2>3. /\ running /\ last_activity' = clock /\ asked' = FALSE
          /\ UNCHANGED <<clock, elapsed, last_probe, quiet_for>>
      BY <1>4 DEF Input
    <2>4. x \in {0, xmit} /\ a \in [Kinds -> Nat] /\ l \in [Kinds -> Nat] BY <1>0
    <2>5. InputArm(k, x, queued, flushed(x, queued), a, l) BY <1>4, <2>2, <2>3 DEF InputArm
    <2> HIDE DEF x, a, l
    <2>6. Arm(x, queued, flushed(x, queued), a, l)
      BY <2>1, <2>2, <2>3, <2>5, Flushed DEF Arm
    <2> QED BY <1>0, <2>4, <2>6, Flushed
  <1>5. CASE \E k \in Kinds : Receive(k)
    <2>1. PICK k \in Kinds : answer[k] > 0 /\ Input(k) BY <1>5 DEF Receive
    <2> QED BY <1>4, <2>1
  <1>6. CASE PeerSpeaks
    <2>1. peer_up /\ Input("none") /\ "none" \notin Kinds BY <1>6 DEF PeerSpeaks, Kinds
    <2> QED BY <1>4, <2>1
  <1> QED BY <1>1, <1>2, <1>3, <1>5, <1>6

-----------------------------------------------------------------------------
(* The invariants *)

idle == clock - last_activity

\* The clock has run without a wrap.
Clocks ==
    /\ elapsed <= MaxTicks /\ clock - elapsed \in Origins
    /\ last_activity <= clock

\* The timer is armed: a silence of the engine and of the application is noticed by
\* it at the latest.
Armed ==
    /\ -Late <= timer /\ timer <= idle_cap
    /\ Min2(idle, quiet_for) + timer <= 3 * KeepAlive - 1 + idle_cap
    /\ \A k \in Kinds : answer[k] <= Rtt

\* Since the peer vanished: the answers that were under way arrive within Rtt, so
\* the last activity was no later, or it was the application's.
Vanished ==
    /\ \A k \in Kinds : answer[k] > 0 => gone_for + answer[k] <= Rtt
    /\ gone_for <= Rtt + idle \/ quiet_for <= idle

DetectInv ==
    /\ Types /\ Clocks
    /\ peer_up => gone_for = 0
    /\ running => Armed /\ (~peer_up => Vanished)

-----------------------------------------------------------------------------
(* A vanished peer is detected *)

\* Without a wrap, idle_ms() is the time since the last activity.
LEMMA IdleMs == ASSUME Types, Clocks PROVE idle_ms = idle /\ idle \in Nat
  BY DEF Types, Clocks, idle_ms, idle, saturating_sub

\* An arm is an activity, the timer, or a command.
LEMMA ArmIdle ==
    ASSUME Types, Clocks, NEW x \in {0, xmit}, NEW q \in Nat, NEW kinds \in SUBSET Kinds,
           NEW a \in [Kinds -> Nat], NEW l \in [Kinds -> Nat], Arm(x, q, kinds, a, l)
    PROVE  \/ idle' = 0 /\ ~asked' /\ (WriteArm(x, q, kinds, a, l)
                \/ \E k \in Kinds \cup {"none"} : InputArm(k, x, q, kinds, a, l))
           \/ idle' = idle /\ TimerArm(x, q, kinds, a, l)
           \/ idle' = idle /\ CommandArm(x, q, kinds, a, l)
  <1>1. clock' = clock /\ clock - clock = 0 BY DEF Arm, Types
  <1>2. ASSUME last_activity' = clock PROVE idle' = 0 BY <1>1, <1>2 DEF idle
  <1>3. CASE TimerArm(x, q, kinds, a, l) BY <1>1, <1>3 DEF TimerArm, idle
  <1>4. CASE CommandArm(x, q, kinds, a, l) BY <1>1, <1>4 DEF CommandArm, idle
  <1>5. CASE WriteArm(x, q, kinds, a, l) BY <1>2, <1>5 DEF WriteArm
  <1>6. CASE \E k \in Kinds \cup {"none"} : InputArm(k, x, q, kinds, a, l)
    <2>1. last_activity' = clock /\ ~asked' BY <1>6 DEF InputArm
    <2> QED BY <1>2, <1>6, <2>1
  <1> QED BY <1>3, <1>4, <1>5, <1>6 DEF Arm

\* Types and clocks after an arm.
LEMMA ArmClocks ==
    ASSUME Types, Clocks, NEW x \in {0, xmit}, NEW q \in Nat, NEW kinds \in SUBSET Kinds,
           NEW a \in [Kinds -> Nat], NEW l \in [Kinds -> Nat], Arm(x, q, kinds, a, l)
    PROVE  Types' /\ Clocks' /\ InTime(timer)'
  <1>1. EngineTypes' /\ InTime(timer)' BY FlushTypes DEF Arm, Types
  <1>2. answer' \in [Kinds -> Nat] /\ lost' \in [Kinds -> Nat] /\ UNCHANGED <<peer_up, gone_for>>
    BY SendsEffect DEF Arm, Types
  <1>3. UNCHANGED <<clock, elapsed>> /\ running' \in BOOLEAN BY DEF Arm
  <1>4. last_activity' \in {last_activity, clock} /\ last_probe' \in {0, last_probe}
    BY DEF Arm, TimerArm, WriteArm, InputArm, CommandArm
  <1>5. last_probe' \in 0 .. KeepAlive BY <1>4, KeepAliveAssumption DEF Types
  <1>6. quiet_for' \in {0, quiet_for} /\ asked' \in BOOLEAN
    <2>1. asked \in BOOLEAN /\ (asked \/ idle_ms > 0) \in BOOLEAN BY DEF Types
    <2> QED BY <2>1, Zenon DEF Arm, TimerArm, WriteArm, InputArm, CommandArm
  <1>7. timer' \in Int BY <1>1, IdleCap DEF InTime
  <1>8. Types' BY <1>1, <1>2, <1>3, <1>4, <1>5, <1>6, <1>7 DEF Types
  <1> QED BY <1>1, <1>3, <1>4, <1>8 DEF Types, Clocks

\* Types and clocks after a query.
LEMMA QueryClocks ==
    ASSUME Types, Clocks, Query
    PROVE  /\ Types' /\ Clocks' /\ InTime(timer)' /\ InTime(timer') /\ idle' = idle
           /\ running /\ running' /\ quiet_for' = 0 /\ asked' = (asked \/ idle_ms > 0)
           /\ UNCHANGED <<last_probe, xmit, rto, resend, open, probe_wait, probe_in>>
           /\ UNCHANGED <<answer, lost, peer_up, gone_for>>
  <1>1. /\ UNCHANGED <<last_probe, xmit, rto, resend, open, queued, probe_wait, probe_in>>
        /\ UNCHANGED <<answer, lost, peer_up, gone_for, clock, last_activity, elapsed>>
        /\ running /\ running' = running /\ quiet_for' = 0 /\ timer' = wait
        /\ asked' = (asked \/ idle_ms > 0)
    BY DEF Query, Command, segment, window, net
  <1>2. InTime(timer') BY <1>1, Waits DEF Types, WaitInTime
  <1>3. InTime(timer)' BY <1>1, <1>2 DEF InTime
  <1>4. timer' \in Int /\ asked' \in BOOLEAN
    <2>1. timer' \in Int BY <1>2, IdleCap DEF InTime
    <2>2. asked' \in BOOLEAN BY <1>1, Zenon
    <2> QED BY <2>1, <2>2
  <1>5. EngineTypes' BY <1>1 DEF EngineTypes, Types
  <1>6. Types' BY <1>1, <1>4, <1>5 DEF Types
  <1>7. Clocks' BY <1>1 DEF Clocks
  <1>8. idle' = idle BY <1>1 DEF idle
  <1> QED BY <1>1, <1>2, <1>3, <1>6, <1>7, <1>8

\* Types and clocks after a tick.
LEMMA TickClocks == ASSUME NoWrap, Types, Clocks, Tick PROVE Types' /\ Clocks' /\ idle' = idle + 1
  <1>1. elapsed < MaxTicks /\ elapsed' = elapsed + 1 /\ clock' = WrapAdd(clock, 1) BY DEF Tick
  <1>2. PICK o \in Origins : clock - elapsed = o BY DEF Clocks
  <1>3. o \in Nat /\ o + MaxTicks < Word /\ MaxTicks \in Nat /\ Word \in Int
    BY KeepAliveAssumption, HalfAssumption DEF NoWrap, Words, Word
  <1>4. clock + 1 < Word BY <1>1, <1>2, <1>3 DEF Types
  <1>5. clock' = clock + 1 BY <1>1, <1>3, <1>4 DEF WrapAdd, Types
  <1>6. Clocks' BY <1>1, <1>2, <1>3, <1>5 DEF Clocks, Types, Tick
  <1>7. answer' \in [Kinds -> Nat]
    <2>1. \A k \in Kinds : answer[k] \in Nat BY DEF Types
    <2>2. \A k \in Kinds : Max2(answer[k] - 1, 0) \in Nat BY <2>1 DEF Max2
    <2>3. answer' = [k \in Kinds |-> Max2(answer[k] - 1, 0)] BY DEF Tick
    <2> QED BY <2>2, <2>3
  <1>8. last_probe' \in 0 .. KeepAlive BY KeepAliveAssumption DEF Tick, Types, Min2
  <1>9. /\ timer' \in Int /\ gone_for' \in Nat /\ quiet_for' \in Nat
        /\ elapsed' \in Nat /\ clock' \in Nat
    BY <1>1, <1>5 DEF Tick, Types
  <1>10. UNCHANGED <<running, last_activity, xmit, rto, open, queued, probe_wait, peer_up, lost, asked>>
    BY DEF Tick
  <1>11. resend' \in Int /\ probe_in' \in Int
    BY KeepAliveAssumption DEF Tick, Types, EngineTypes, Closer, Max2
  <1>12. EngineTypes' BY <1>10, <1>11 DEF Types, EngineTypes
  <1>13. Types' BY <1>7, <1>8, <1>9, <1>10, <1>12 DEF Types
  <1>14. idle' = idle + 1 BY <1>5, <1>10 DEF idle, Types
  <1> QED BY <1>6, <1>13, <1>14

\* The answers under way after an arm.
LEMMA ArmAnswers ==
    ASSUME DetectInv, running, NEW x \in {0, xmit}, NEW q \in Nat, NEW kinds \in SUBSET Kinds,
           NEW a \in [Kinds -> Nat], NEW l \in [Kinds -> Nat], Arm(x, q, kinds, a, l)
    PROVE  /\ \A k \in Kinds : answer'[k] <= Rtt
           /\ ~peer_up => \A k \in Kinds : answer'[k] > 0 => gone_for + answer'[k] <= Rtt
  <1>1. Types /\ Armed BY DEF DetectInv
  <1>2. \A k \in Kinds : a[k] \in {0, answer[k]}
    BY <1>1 DEF Arm, TimerArm, WriteArm, InputArm, CommandArm, Types
  <1>3. \A k \in Kinds : a[k] <= Rtt BY <1>1, <1>2, KeepAliveAssumption DEF Armed
  <1>4. (\A k \in Kinds : answer'[k] \in {a[k], Rtt}) /\ (~peer_up => answer' = a)
    BY <1>1, SendsEffect DEF Arm, Types
  <1>5. \A k \in Kinds : answer'[k] <= Rtt BY <1>3, <1>4, KeepAliveAssumption
  <1>6. ASSUME ~peer_up, NEW k \in Kinds, answer'[k] > 0 PROVE gone_for + answer'[k] <= Rtt
    <2>1. answer'[k] = answer[k] BY <1>2, <1>4, <1>6
    <2> QED BY <1>6, <2>1 DEF DetectInv, Vanished
  <1> QED BY <1>5, <1>6

\* An arm arms the timer again.
LEMMA ArmArmed ==
    ASSUME DetectInv, running', NEW x \in {0, xmit}, NEW q \in Nat, NEW kinds \in SUBSET Kinds,
           NEW a \in [Kinds -> Nat], NEW l \in [Kinds -> Nat], Arm(x, q, kinds, a, l)
    PROVE  Armed'
  <1>1. Types /\ Clocks /\ Armed /\ running BY DEF DetectInv, Arm
  <1>2. timer' \in 1 .. idle_cap /\ Types' /\ Clocks' BY <1>1, ArmClocks DEF InTime
  <1>3. idle_ms = idle /\ idle \in Nat BY <1>1, IdleMs
  <1>4. idle' \in Nat
    <2>1. clock' \in Nat /\ last_activity' \in Nat /\ last_activity' <= clock'
      BY <1>2 DEF Types, Clocks
    <2> QED BY <2>1, MinusNat DEF idle
  <1>5. quiet_for' \in Nat BY <1>2 DEF Types
  <1>6. idle' <= 3 * KeepAlive - 1 \/ quiet_for' = 0
    <2>1. CASE idle' = 0 BY <2>1, KeepAliveAssumption
    <2>2. CASE idle' = idle /\ TimerArm(x, q, kinds, a, l)
      <3>1. ~peer_silent BY <2>2 DEF TimerArm
      <3> QED BY <1>3, <2>2, <3>1, KeepAliveAssumption DEF peer_silent
    <2>3. CASE CommandArm(x, q, kinds, a, l) BY <2>3 DEF CommandArm
    <2> QED BY <1>1, <2>1, <2>2, <2>3, ArmIdle
  <1>7. Min2(idle', quiet_for') <= 3 * KeepAlive - 1 BY <1>4, <1>5, <1>6, KeepAliveAssumption DEF Min2
  <1>8. Min2(idle', quiet_for') \in Nat BY <1>4, <1>5 DEF Min2
  <1>9. /\ -Late <= timer' /\ timer' <= idle_cap
        /\ Min2(idle', quiet_for') + timer' <= 3 * KeepAlive - 1 + idle_cap
    BY <1>2, <1>7, <1>8, IdleCap, KeepAliveAssumption
  <1> QED BY <1>1, <1>9, ArmAnswers DEF Armed

\* The peer is gone: an arm finds an answer that was under way, or it does not count.
LEMMA ArmVanished ==
    ASSUME DetectInv, running', ~peer_up,
           NEW x \in {0, xmit}, NEW q \in Nat, NEW kinds \in SUBSET Kinds,
           NEW a \in [Kinds -> Nat], NEW l \in [Kinds -> Nat], Arm(x, q, kinds, a, l)
    PROVE  Vanished'
  <1>1. Types /\ Clocks /\ Armed /\ Vanished /\ running BY DEF DetectInv, Arm
  <1>2. Types' /\ Clocks' BY <1>1, ArmClocks
  <1>3. idle' \in Nat /\ gone_for \in Nat /\ Rtt \in Nat
    <2>1. clock' \in Nat /\ last_activity' \in Nat /\ last_activity' <= clock'
      BY <1>2 DEF Types, Clocks
    <2>2. idle' \in Nat BY <2>1, MinusNat DEF idle
    <2> QED BY <1>1, <2>2, KeepAliveAssumption DEF Types
  <1>4. gone_for' = gone_for BY <1>1 DEF Arm, Sends
  <1>5. \A k \in Kinds : answer'[k] > 0 => gone_for' + answer'[k] <= Rtt BY <1>1, <1>4, ArmAnswers
  <1>6. gone_for' <= Rtt + idle' \/ quiet_for' <= idle'
    <2>1. CASE WriteArm(x, q, kinds, a, l) \/ CommandArm(x, q, kinds, a, l)
      <3>1. quiet_for' = 0 BY <2>1 DEF WriteArm, CommandArm
      <3> QED BY <1>3, <3>1
    <2>2. CASE \E k \in Kinds \cup {"none"} : InputArm(k, x, q, kinds, a, l)
      <3>1. PICK k \in Kinds : answer[k] > 0 BY <1>1, <2>2 DEF InputArm
      <3>2. gone_for + answer[k] <= Rtt /\ answer[k] \in Nat BY <1>1, <3>1 DEF Vanished, Types
      <3>3. \A i \in Nat : gone_for <= Rtt + i BY <1>3, <3>2
      <3>4. gone_for <= Rtt + idle' BY <1>3, <3>3
      <3> QED BY <1>4, <3>4
    <2>3. CASE idle' = idle /\ TimerArm(x, q, kinds, a, l)
      <3>1. quiet_for' = quiet_for BY <2>3 DEF TimerArm
      <3> QED BY <1>1, <1>4, <2>3, <3>1 DEF Vanished
    <2> QED BY <1>1, <2>1, <2>2, <2>3, ArmIdle
  <1> QED BY <1>5, <1>6 DEF Vanished

\* A query arms the timer again, and counts as the application's.
LEMMA QueryDetect == ASSUME DetectInv, Query PROVE DetectInv'
  <1>1. Types /\ Clocks /\ running BY DEF DetectInv, Query, Command
  <1>2. /\ Types' /\ Clocks' /\ InTime(timer)' /\ idle' = idle /\ quiet_for' = 0
        /\ UNCHANGED <<answer, peer_up, gone_for>>
    BY <1>1, QueryClocks
  <1>3. Armed BY <1>1 DEF DetectInv
  <1>4. idle \in Nat BY <1>1, IdleMs
  <1>5. timer' \in 1 .. idle_cap BY <1>2 DEF InTime
  <1>6. Min2(idle', quiet_for') = 0 BY <1>2, <1>4 DEF Min2
  <1>7. /\ -Late <= timer' /\ timer' <= idle_cap
        /\ Min2(idle', quiet_for') + timer' <= 3 * KeepAlive - 1 + idle_cap
    <2>1. \A t \in 1 .. idle_cap : -Late <= t /\ t <= idle_cap /\ 0 + t <= 3 * KeepAlive - 1 + idle_cap
      BY IdleCap, KeepAliveAssumption
    <2> QED BY <1>5, <1>6, <2>1
  <1>8. Armed' BY <1>2, <1>3, <1>7 DEF Armed
  <1>9. ~peer_up => Vanished'
    <2>1. quiet_for' <= idle' BY <1>2, <1>4
    <2> QED BY <1>1, <1>2, <2>1 DEF DetectInv, Vanished
  <1> QED BY <1>2, <1>8, <1>9 DEF DetectInv

\* Time passes.
LEMMA TickDetect == ASSUME NoWrap, DetectInv, Tick PROVE DetectInv'
  <1>1. Types /\ Clocks /\ Armed /\ running BY DEF DetectInv, Tick
  <1>2. Types' /\ Clocks' /\ idle' = idle + 1 BY <1>1, TickClocks
  <1>3. /\ UNCHANGED <<running, peer_up>>
        /\ timer > -Late /\ timer' = timer - 1 /\ quiet_for' = quiet_for + 1
        /\ gone_for' = IF peer_up THEN 0 ELSE gone_for + 1
        /\ answer' = [k \in Kinds |-> Max2(answer[k] - 1, 0)] /\ \A k \in Kinds : answer[k] # 1
    BY DEF Tick
  <1>4. /\ idle \in Nat /\ quiet_for \in Nat /\ timer \in Int /\ gone_for \in Nat
        /\ Rtt \in Nat /\ Late \in Nat /\ KeepAlive \in Nat
    BY <1>1, IdleMs, KeepAliveAssumption DEF Types
  <1>5. ASSUME NEW k \in Kinds
        PROVE  answer'[k] <= answer[k] /\ (answer'[k] > 0 => answer[k] > 0 /\ answer'[k] = answer[k] - 1)
    BY <1>1, <1>3 DEF Max2, Types
  <1>6. Armed'
    <2>1. \A k \in Kinds : answer'[k] <= Rtt
      BY <1>1, <1>2, <1>4, <1>5 DEF Armed, Types
    <2>2. Min2(idle', quiet_for') = Min2(idle, quiet_for) + 1 BY <1>2, <1>3, <1>4 DEF Min2
    <2>3. Min2(idle, quiet_for) \in Nat BY <1>4 DEF Min2
    <2>4. /\ -Late <= timer /\ timer <= idle_cap
          /\ Min2(idle, quiet_for) + timer <= 3 * KeepAlive - 1 + idle_cap
      BY <1>1 DEF Armed
    <2>5. /\ -Late <= timer' /\ timer' <= idle_cap
          /\ Min2(idle', quiet_for') + timer' <= 3 * KeepAlive - 1 + idle_cap
      BY <1>3, <1>4, <2>2, <2>3, <2>4, IdleCap
    <2> QED BY <2>1, <2>5 DEF Armed
  <1>7. ASSUME ~peer_up' PROVE Vanished'
    <2>1. Vanished /\ gone_for' = gone_for + 1 BY <1>1, <1>3, <1>7 DEF DetectInv
    <2>2. \A k \in Kinds : answer'[k] > 0 => gone_for' + answer'[k] <= Rtt
      BY <1>1, <1>4, <1>5, <2>1 DEF Vanished, Types
    <2>3. gone_for' <= Rtt + idle' \/ quiet_for' <= idle'
      BY <1>2, <1>3, <1>4, <2>1 DEF Vanished
    <2> QED BY <2>2, <2>3 DEF Vanished
  <1>8. peer_up' => gone_for' = 0 BY <1>3
  <1> QED BY <1>2, <1>6, <1>7, <1>8 DEF DetectInv

\* The peer vanishes.
LEMMA VanishDetect == ASSUME DetectInv, PeerVanishes PROVE DetectInv'
  <1>1. /\ UNCHANGED <<running, clock, last_activity, last_probe, timer, answer, lost, gone_for, elapsed>>
        /\ UNCHANGED <<xmit, rto, resend, open, queued, probe_wait, probe_in, quiet_for, asked>>
        /\ peer_up' = FALSE /\ gone_for = 0
    BY DEF PeerVanishes, DetectInv, segment, window, app
  <1>2. Types' /\ Clocks' BY <1>1 DEF DetectInv, Types, EngineTypes, Clocks
  <1>3. ASSUME running PROVE Armed /\ Armed' BY <1>1, <1>3 DEF DetectInv, Armed, idle
  <1>4. ASSUME running PROVE Vanished'
    <2>1. Types /\ Clocks /\ Armed BY <1>3, <1>4 DEF DetectInv
    <2>2. idle \in Nat /\ idle' = idle BY <1>1, <2>1, IdleMs DEF idle
    <2>3. \A k \in Kinds : answer[k] > 0 => gone_for + answer[k] <= Rtt
      BY <1>1, <2>1 DEF Armed, Types
    <2>4. gone_for <= Rtt + idle BY <1>1, <2>2, KeepAliveAssumption
    <2> QED BY <1>1, <2>2, <2>3, <2>4 DEF Vanished
  <1> QED BY <1>1, <1>2, <1>3, <1>4 DEF DetectInv

\* In the initial state nothing has happened yet.
LEMMA InitDetect == ASSUME Init PROVE DetectInv /\ InTime(timer) /\ idle = 0
  <1>1. clock \in Nat /\ clock \in Origins BY KeepAliveAssumption DEF Init, Words
  <1>2. EngineTypes BY DEF Init, EngineTypes
  <1>3. InTime(timer)
    <2>1. InTime(wait) BY <1>2, Waits DEF WaitInTime
    <2> QED BY <2>1 DEF Init
  <1>4. timer \in 1 .. idle_cap BY <1>3 DEF InTime
  <1>5. Types
    <2>1. timer \in Int BY <1>4, IdleCap
    <2>2. last_probe \in 0 .. KeepAlive BY KeepAliveAssumption DEF Init
    <2>3. answer \in [Kinds -> Nat] /\ lost \in [Kinds -> Nat] BY DEF Init
    <2> QED BY <1>1, <1>2, <2>1, <2>2, <2>3 DEF Init, Types
  <1>6. Clocks BY <1>1, KeepAliveAssumption DEF Init, Clocks
  <1>7. idle = 0 BY <1>1 DEF Init, idle
  <1>8. Armed BY <1>4, <1>7, IdleCap, KeepAliveAssumption DEF Init, Armed, Min2
  <1> QED BY <1>3, <1>5, <1>6, <1>7, <1>8 DEF DetectInv, Init

\* The invariant of every step.
LEMMA NextDetect == ASSUME NoWrap, DetectInv, [Next]_vars PROVE DetectInv'
  <1>1. CASE Timer \/ Write \/ FlushCmd \/ (\E k \in Kinds : Receive(k)) \/ PeerSpeaks
    <2>1. PICK x \in {0, xmit}, q \in Nat, kinds \in SUBSET Kinds,
              a \in [Kinds -> Nat], l \in [Kinds -> Nat] : Arm(x, q, kinds, a, l)
      BY <1>1, Arms DEF DetectInv
    <2>2. Types' /\ Clocks' BY <2>1, ArmClocks DEF DetectInv
    <2>3. running' => Armed' BY <2>1, ArmArmed
    <2>4. running' /\ ~peer_up => Vanished' BY <2>1, ArmVanished
    <2>5. UNCHANGED <<peer_up, gone_for>> BY <2>1 DEF Arm, Sends
    <2> QED BY <2>2, <2>3, <2>4, <2>5 DEF DetectInv
  <1>2. CASE Query BY <1>2, QueryDetect
  <1>3. CASE Tick BY <1>3, TickDetect
  <1>4. CASE PeerVanishes BY <1>4, VanishDetect
  <1>5. CASE UNCHANGED vars
    <2>1. /\ UNCHANGED <<running, clock, last_activity, last_probe, timer, elapsed, peer_up>>
          /\ UNCHANGED <<xmit, rto, resend, open, queued, probe_wait, probe_in>>
          /\ UNCHANGED <<answer, lost, gone_for, quiet_for, asked>>
      BY <1>5 DEF vars, segment, window, net, app
    <2> QED BY <2>1 DEF DetectInv, Types, EngineTypes, Clocks, Armed, Vanished, idle
  <1> QED BY <1>1, <1>2, <1>3, <1>4, <1>5 DEF Next

\* The bound follows.
LEMMA DetectTime == ASSUME DetectInv PROVE VanishedPeerDetected
  <1> SUFFICES ASSUME running PROVE Min2(gone_for, quiet_for) <= DetectionTime
    BY DEF VanishedPeerDetected
  <1>1. Types /\ Clocks /\ Armed BY DEF DetectInv
  <1>2. /\ idle \in Nat /\ gone_for \in Nat /\ quiet_for \in Nat /\ timer \in Int /\ peer_up \in BOOLEAN
        /\ Rtt \in Nat /\ Late \in Nat /\ KeepAlive \in Nat
    BY <1>1, IdleMs, KeepAliveAssumption DEF Types
  <1>3. DetectionTime = Rtt + 3 * KeepAlive + idle_cap + Late /\ DetectionTime \in Nat
    BY <1>2, IdleCap DEF DetectionTime
  <1>4. CASE peer_up
    <2>1. gone_for = 0 BY <1>4 DEF DetectInv
    <2> QED BY <1>2, <1>3, <2>1 DEF Min2
  <1>5. CASE ~peer_up
    <2>1. gone_for <= Rtt + idle \/ quiet_for <= idle BY <1>5 DEF DetectInv, Vanished
    <2>2. Min2(idle, quiet_for) + timer <= 3 * KeepAlive - 1 + idle_cap /\ -Late <= timer
      BY <1>1 DEF Armed
    <2>3. Min2(idle, quiet_for) \in Nat BY <1>2 DEF Min2
    <2>4. Min2(gone_for, quiet_for) <= Rtt + Min2(idle, quiet_for) BY <1>2, <2>1 DEF Min2
    <2>5. Min2(gone_for, quiet_for) \in Nat BY <1>2 DEF Min2
    <2> QED BY <1>2, <1>3, <2>2, <2>3, <2>4, <2>5, IdleCap
  <1> QED BY <1>2, <1>4, <1>5

\* For every keep-alive window, timeout and number of transmissions, and however late
\* the timer is served: as long as the clock does not wrap, an actor whose peer
\* vanished has ended DetectionTime after that and after the application's last
\* write or command, whether or not the remote window is open.
THEOREM VanishDetected == ASSUME NoWrap PROVE Spec => []VanishedPeerDetected
  <1>1. Init => DetectInv BY InitDetect
  <1>2. DetectInv /\ [Next]_vars => DetectInv' BY NextDetect
  <1>3. DetectInv => VanishedPeerDetected BY DetectTime
  <1> QED BY <1>1, <1>2, <1>3, PTL DEF Spec

-----------------------------------------------------------------------------
(* A peer that is there is kept *)

\* The timeouts of the transmissions of a segment, of which at most MaxLost pass:
\* b[n] after the n-th of them, and R is as long as any of these takes.
Timeouts(b, R) ==
    /\ R \in Nat /\ b \in [Nat -> Nat]
    /\ b[1] = Rto /\ \A n \in Nat \ {0} : b[n + 1] = back_off(b[n])
    /\ \A n \in 1 .. MaxLost : b[n] + rtomin <= R

\* The losses and delays the settings leave room for: an answer comes before the next
\* transmission, MaxLost transmissions in vain do not use up those of a segment,
\* and neither these nor MaxLost probes in vain take three windows.
Tolerant(R) ==
    /\ Rtt <= Rto /\ KeepAlive <= IdleCheck
    /\ MaxLost + 1 < DeadLinkMax
    /\ MaxLost * (R + Late) + Rtt <= 3 * KeepAlive
    /\ (MaxLost + 1) * (idle_cap + Late) + Rtt <= 3 * KeepAlive

\* What is in flight to a peer that is there: every transmission but the last is lost,
\* and the last is answered before the next one.
Transmitted(b, R) ==
    /\ lost["data"] <= MaxLost /\ lost["probe"] <= MaxLost
    /\ answer["data"] = 0 => xmit <= lost["data"]
    /\ answer["data"] > 0 =>
        /\ 0 < xmit /\ xmit <= lost["data"] + 1
        /\ resend >= answer["data"] + Rto - Rtt
    /\ xmit \in 1 .. MaxLost => rto = b[xmit] /\ resend <= R
    /\ xmit > 0 /\ idle = 0 => resend >= 1

\* With data in flight the silence is as long as its transmissions took.
DataInTime(R) ==
    xmit > 0 =>
        /\ timer <= resend
        /\ answer["data"] = 0 => idle <= (xmit - 1) * (R + Late) + R - resend
        /\ answer["data"] > 0 => idle <= (xmit - 1) * (R + Late) + Rtt - answer["data"]

\* With nothing in flight every timer sends a probe, because the window's is due or the
\* keep-alive's; all but the last are lost.
ProbesInTime ==
    xmit = 0 =>
        /\ \/ ~open /\ probe_wait > 0 /\ probe_in <= timer
           \/ /\ idle + timer >= KeepAlive
              /\ last_probe + timer >= KeepAlive \/ last_probe = KeepAlive
        /\ answer["probe"] = 0 => idle + timer <= lost["probe"] * (idle_cap + Late) + idle_cap
        /\ answer["probe"] > 0 =>
             idle <= lost["probe"] * (idle_cap + Late) + idle_cap + Late + Rtt - answer["probe"]

KeptInv(b, R) ==
    /\ DetectInv
    /\ running /\ peer_up =>
        /\ Transmitted(b, R)
        /\ ~asked => DataInTime(R) /\ ProbesInTime

\* The numbers in these invariants.
LEMMA KeptFacts ==
    ASSUME NEW b, NEW R, Timeouts(b, R), KeptInv(b, R), running, peer_up
    PROVE  /\ Types /\ Clocks /\ Armed /\ Transmitted(b, R)
           /\ ~asked => DataInTime(R) /\ ProbesInTime
           /\ idle_ms = idle /\ idle \in Nat
           /\ xmit \in Nat /\ resend \in Int /\ timer \in Int /\ -Late <= timer
           /\ answer["data"] \in Nat /\ answer["probe"] \in Nat
           /\ lost["data"] \in Nat /\ lost["probe"] \in Nat
           /\ answer["data"] <= Rtt /\ answer["probe"] <= Rtt
           /\ R \in Nat /\ R + Late \in Nat /\ idle_cap + Late \in Nat
  <1>1. /\ Types /\ Clocks /\ Armed /\ Transmitted(b, R)
        /\ ~asked => DataInTime(R) /\ ProbesInTime
    BY DEF KeptInv, DetectInv
  <1>2. "data" \in Kinds /\ "probe" \in Kinds BY DEF Kinds
  <1>3. /\ xmit \in Nat /\ resend \in Int /\ timer \in Int /\ -Late <= timer
        /\ answer["data"] \in Nat /\ answer["probe"] \in Nat
        /\ lost["data"] \in Nat /\ lost["probe"] \in Nat
        /\ answer["data"] <= Rtt /\ answer["probe"] <= Rtt
    BY <1>1, <1>2 DEF Types, EngineTypes, Armed
  <1>4. R \in Nat /\ R + Late \in Nat /\ idle_cap + Late \in Nat
    BY IdleCap, KeepAliveAssumption DEF Timeouts
  <1> QED BY <1>1, <1>3, <1>4, IdleMs

\* A timer that comes in time does not find a silence of three windows.
LEMMA NotSilent ==
    ASSUME NEW b, NEW R, Timeouts(b, R), Tolerant(R), KeptInv(b, R), running, peer_up, ~asked,
           timer <= 0
    PROVE  ~peer_silent
  <1>1. /\ Transmitted(b, R) /\ DataInTime(R) /\ ProbesInTime
        /\ idle_ms = idle /\ idle \in Nat
        /\ xmit \in Nat /\ resend \in Int /\ timer \in Int /\ -Late <= timer
        /\ answer["data"] \in Nat /\ answer["probe"] \in Nat
        /\ lost["data"] \in Nat /\ lost["probe"] \in Nat
        /\ R \in Nat /\ R + Late \in Nat /\ idle_cap + Late \in Nat
    BY KeptFacts
  <1>2. MaxLost \in Nat /\ KeepAlive \in Nat /\ Late \in Nat /\ Rtt \in Nat /\ Rtt >= 1
    BY KeepAliveAssumption
  <1>3. lost["probe"] <= MaxLost /\ lost["data"] <= MaxLost BY <1>1 DEF Transmitted
  <1>4. idle < 3 * KeepAlive
    <2>1. CASE xmit = 0
      <3>1. lost["probe"] * (idle_cap + Late) <= MaxLost * (idle_cap + Late)
        BY <1>1, <1>2, <1>3, TimesMonotone
      <3>2. (MaxLost + 1) * (idle_cap + Late) = MaxLost * (idle_cap + Late) + (idle_cap + Late)
        BY <1>1, <1>2, TimesStep
      <3>3. lost["probe"] * (idle_cap + Late) \in Nat /\ MaxLost * (idle_cap + Late) \in Nat
        BY <1>1, <1>2, TimesNat
      <3>4. (MaxLost + 1) * (idle_cap + Late) + Rtt <= 3 * KeepAlive BY DEF Tolerant
      <3>5. CASE answer["probe"] = 0
        <4>1. idle + timer <= lost["probe"] * (idle_cap + Late) + idle_cap
          BY <1>1, <2>1, <3>5 DEF ProbesInTime
        <4> QED BY <1>1, <1>2, <3>1, <3>2, <3>3, <3>4, <4>1, IdleCap
      <3>6. CASE answer["probe"] > 0
        <4>1. idle <= lost["probe"] * (idle_cap + Late) + idle_cap + Late + Rtt - answer["probe"]
          BY <1>1, <2>1, <3>6 DEF ProbesInTime
        <4> QED BY <1>1, <1>2, <3>1, <3>2, <3>3, <3>4, <3>6, <4>1, IdleCap
      <3> QED BY <1>1, <3>5, <3>6
    <2>2. CASE xmit > 0
      <3>1. xmit - 1 \in Nat /\ timer <= resend BY <1>1, <2>2 DEF DataInTime
      <3>2. /\ (xmit - 1) * (R + Late) \in Nat /\ xmit * (R + Late) \in Nat
            /\ MaxLost * (R + Late) \in Nat
        BY <1>1, <1>2, <3>1, TimesNat
      <3>3. MaxLost * (R + Late) + Rtt <= 3 * KeepAlive BY DEF Tolerant
      <3>4. CASE answer["data"] = 0
        <4>1. xmit <= MaxLost BY <1>1, <1>2, <1>3, <3>4 DEF Transmitted
        <4>2. xmit * (R + Late) <= MaxLost * (R + Late) BY <1>1, <1>2, <4>1, TimesMonotone
        <4>3. xmit * (R + Late) = (xmit - 1) * (R + Late) + (R + Late)
          BY <1>1, <3>1, TimesStep
        <4>4. idle <= (xmit - 1) * (R + Late) + R - resend BY <1>1, <2>2, <3>4 DEF DataInTime
        <4>5. idle <= (xmit - 1) * (R + Late) + (R + Late) BY <1>1, <1>2, <3>1, <3>2, <4>4
        <4> QED BY <1>1, <1>2, <3>2, <3>3, <4>2, <4>3, <4>5
      <3>5. CASE answer["data"] > 0
        <4>1. xmit - 1 <= MaxLost BY <1>1, <1>2, <1>3, <3>5 DEF Transmitted
        <4>2. (xmit - 1) * (R + Late) <= MaxLost * (R + Late)
          BY <1>1, <1>2, <3>1, <4>1, TimesMonotone
        <4>3. idle <= (xmit - 1) * (R + Late) + Rtt - answer["data"]
          BY <1>1, <2>2, <3>5 DEF DataInTime
        <4> QED BY <1>1, <1>2, <3>2, <3>3, <3>5, <4>2, <4>3
      <3> QED BY <1>1, <3>4, <3>5
    <2> QED BY <1>1, <2>1, <2>2
  <1> QED BY <1>1, <1>2, <1>4 DEF peer_silent

\* The answers and losses of the data before the flush of an arm.
LEMMA BeforeFlush ==
    ASSUME NEW b, NEW R, Timeouts(b, R), KeptInv(b, R), peer_up,
           NEW x \in {0, xmit}, NEW q \in Nat, NEW kinds \in SUBSET Kinds,
           NEW a \in [Kinds -> Nat], NEW l \in [Kinds -> Nat], Arm(x, q, kinds, a, l)
    PROVE  /\ x \in Nat
           /\ \/ x = 0 /\ a["data"] = 0
              \/ x > 0 /\ x = xmit /\ a["data"] = answer["data"] /\ l["data"] = lost["data"]
           /\ l["data"] \in Nat /\ l["data"] <= MaxLost
           /\ l["probe"] \in Nat /\ l["probe"] <= MaxLost
           /\ a["data"] \in Nat /\ a["probe"] \in Nat
  <1>1. /\ Transmitted(b, R) /\ xmit \in Nat /\ answer["data"] \in Nat
        /\ lost["data"] \in Nat /\ lost["probe"] \in Nat /\ MaxLost \in Nat
    BY KeptFacts, KeepAliveAssumption DEF Arm
  <1>2. "data" \in Kinds /\ "probe" \in Kinds BY DEF Kinds
  <1>3. \/ x = xmit /\ a["data"] = answer["data"] /\ l["data"] = lost["data"]
        \/ x = 0 /\ a["data"] = 0 /\ l["data"] = 0
    <2>1. CASE TimerArm(x, q, kinds, a, l) BY <2>1 DEF TimerArm
    <2>2. CASE WriteArm(x, q, kinds, a, l) BY <2>2 DEF WriteArm
    <2>3. CASE CommandArm(x, q, kinds, a, l) BY <2>3 DEF CommandArm
    <2>4. CASE \E k \in Kinds \cup {"none"} : InputArm(k, x, q, kinds, a, l)
      <3>1. PICK k \in Kinds \cup {"none"} : InputArm(k, x, q, kinds, a, l) BY <2>4
      <3>2. CASE k = "data" BY <1>2, <3>1, <3>2 DEF InputArm
      <3>3. CASE k # "data" BY <1>2, <3>1, <3>3 DEF InputArm
      <3> QED BY <3>2, <3>3
    <2> QED BY <2>1, <2>2, <2>3, <2>4 DEF Arm
  <1>4. l["probe"] \in {0, lost["probe"]} BY <1>2 DEF Arm, TimerArm, WriteArm, InputArm, CommandArm
  <1>5. l["data"] \in Nat /\ l["data"] <= MaxLost /\ l["probe"] \in Nat /\ l["probe"] <= MaxLost
    BY <1>1, <1>3, <1>4 DEF Transmitted
  <1>6. a["data"] \in Nat /\ a["probe"] \in Nat BY <1>2
  <1>7. xmit = 0 => answer["data"] = 0 BY <1>1 DEF Transmitted
  <1>8. x \in Nat BY <1>1
  <1>9. \/ x = 0 /\ a["data"] = 0
        \/ x > 0 /\ x = xmit /\ a["data"] = answer["data"] /\ l["data"] = lost["data"]
    BY <1>1, <1>3, <1>7, <1>8
  <1> QED BY <1>5, <1>6, <1>8, <1>9

\* What is transmitted has no answer under way, and it is not the last transmission.
LEMMA Retransmission ==
    ASSUME NEW b, NEW R, Timeouts(b, R), Tolerant(R), KeptInv(b, R), peer_up,
           NEW x \in {0, xmit}, NEW q \in Nat, NEW kinds \in SUBSET Kinds,
           NEW a \in [Kinds -> Nat], NEW l \in [Kinds -> Nat], Arm(x, q, kinds, a, l)
    PROVE  /\ fresh(x, q) \/ due(x) => a["data"] = 0 /\ x <= l["data"]
           /\ ~connection_lost(x, q)
  <1>1. /\ Transmitted(b, R) /\ answer["data"] \in Nat /\ resend \in Int
        /\ MaxLost \in Nat /\ DeadLinkMax \in Nat /\ Rto \in Nat /\ Rtt \in Nat /\ Rtt <= Rto
        /\ MaxLost + 1 < DeadLinkMax
    BY KeptFacts, KeepAliveAssumption DEF Arm, Tolerant
  <1>2. /\ x \in Nat /\ l["data"] \in Nat /\ l["data"] <= MaxLost
        /\ \/ x = 0 /\ a["data"] = 0
           \/ x > 0 /\ x = xmit /\ a["data"] = answer["data"] /\ l["data"] = lost["data"]
    BY BeforeFlush
  <1>3. CASE fresh(x, q)
    <2>1. x = 0 BY <1>3 DEF fresh
    <2>2. a["data"] = 0 /\ x <= l["data"] BY <1>2, <2>1
    <2>3. ~(x + 1 >= DeadLinkMax) BY <1>1, <2>1
    <2> QED BY <2>2, <2>3 DEF connection_lost
  <1>4. CASE due(x)
    <2>1. x > 0 /\ resend <= 0 BY <1>4 DEF due
    <2>2. a["data"] = answer["data"] /\ l["data"] = lost["data"] /\ x = xmit BY <1>2, <2>1
    <2>3. answer["data"] = 0 BY <1>1, <2>1 DEF Transmitted
    <2>4. x <= l["data"] BY <1>1, <2>2, <2>3 DEF Transmitted
    <2>5. ~(x + 1 >= DeadLinkMax) BY <1>1, <1>2, <2>4
    <2> QED BY <2>2, <2>3, <2>4, <2>5 DEF connection_lost
  <1> QED BY <1>3, <1>4 DEF connection_lost

\* No arm gives up, unless commands put the timer off.
LEMMA ArmGoesOn ==
    ASSUME NEW b, NEW R, Timeouts(b, R), Tolerant(R), KeptInv(b, R), peer_up, ~asked,
           NEW x \in {0, xmit}, NEW q \in Nat, NEW kinds \in SUBSET Kinds,
           NEW a \in [Kinds -> Nat], NEW l \in [Kinds -> Nat], Arm(x, q, kinds, a, l)
    PROVE  running'
  <1>1. ~connection_lost(x, q) /\ running BY Retransmission DEF Arm
  <1>2. CASE TimerArm(x, q, kinds, a, l)
    <2>1. ~peer_silent BY <1>1, <1>2, NotSilent DEF TimerArm
    <2> QED BY <1>1, <1>2, <2>1 DEF TimerArm
  <1>3. CASE ~TimerArm(x, q, kinds, a, l)
    BY <1>1, <1>3 DEF Arm, WriteArm, InputArm, CommandArm
  <1> QED BY <1>2, <1>3

\* What an arm of a live connection sends is lost or answered.
LEMMA AfterFlush ==
    ASSUME NEW b, NEW R, Timeouts(b, R), Tolerant(R), KeptInv(b, R), peer_up, running',
           NEW x \in {0, xmit}, NEW q \in Nat, NEW kinds \in SUBSET Kinds,
           NEW a \in [Kinds -> Nat], NEW l \in [Kinds -> Nat], Arm(x, q, kinds, a, l)
    PROVE  /\ fresh(x, q) \/ due(x) =>
                \/ answer'["data"] = Rtt /\ lost'["data"] = l["data"]
                \/ answer'["data"] = 0 /\ lost'["data"] = l["data"] + 1 /\ l["data"] < MaxLost
           /\ ~fresh(x, q) /\ ~due(x) => answer'["data"] = a["data"] /\ lost'["data"] = l["data"]
           /\ \/ lost'["probe"] = l["probe"]
              \/ lost'["probe"] = l["probe"] + 1 /\ l["probe"] < MaxLost
           /\ answer'["probe"] \in {a["probe"], Rtt}
           /\ "probe" \in kinds =>
                \/ answer'["probe"] = (IF a["probe"] = 0 THEN Rtt ELSE a["probe"])
                       /\ lost'["probe"] = l["probe"]
                \/ answer'["probe"] = a["probe"] /\ lost'["probe"] = l["probe"] + 1
  <1>1. Sends(kinds, a, l) /\ peer_up \in BOOLEAN /\ (fresh(x, q) \/ due(x) <=> "data" \in kinds)
    BY DEF Arm, KeptInv, DetectInv, Types
  <1>2. /\ \A k \in Kinds : answer'[k] \in {a[k], Rtt}
        /\ \A k \in Kinds : k \notin kinds => answer'[k] = a[k] /\ lost'[k] = l[k]
        /\ \A k \in kinds :
                \/ answer'[k] = (IF a[k] = 0 THEN Rtt ELSE a[k]) /\ lost'[k] = l[k]
                \/ answer'[k] = a[k] /\ lost'[k] = l[k] + 1 /\ l[k] < MaxLost
    BY <1>1, SendsEffect, ZenonT(30)
  <1>3. "data" \in Kinds /\ "probe" \in Kinds BY DEF Kinds
  <1>4. fresh(x, q) \/ due(x) => a["data"] = 0 BY Retransmission
  <1>5. fresh(x, q) \/ due(x) =>
                \/ answer'["data"] = Rtt /\ lost'["data"] = l["data"]
                \/ answer'["data"] = 0 /\ lost'["data"] = l["data"] + 1 /\ l["data"] < MaxLost
    BY <1>1, <1>2, <1>4
  <1>6. ~fresh(x, q) /\ ~due(x) => answer'["data"] = a["data"] /\ lost'["data"] = l["data"]
    BY <1>1, <1>2, <1>3
  <1>7. \/ lost'["probe"] = l["probe"]
        \/ lost'["probe"] = l["probe"] + 1 /\ l["probe"] < MaxLost
    BY <1>2, <1>3
  <1> QED BY <1>2, <1>3, <1>5, <1>6, <1>7

\* The transmissions after an arm.
LEMMA ArmTransmitted ==
    ASSUME NEW b, NEW R, Timeouts(b, R), Tolerant(R), KeptInv(b, R), peer_up, running',
           NEW x \in {0, xmit}, NEW q \in Nat, NEW kinds \in SUBSET Kinds,
           NEW a \in [Kinds -> Nat], NEW l \in [Kinds -> Nat], Arm(x, q, kinds, a, l)
    PROVE  Transmitted(b, R)'
  <1>1. /\ Types /\ Transmitted(b, R) /\ xmit \in Nat /\ resend \in Int /\ R \in Nat
        /\ MaxLost \in Nat /\ Rto \in Nat /\ Rtt \in Nat /\ Rtt >= 1 /\ rto \in Nat
    BY KeptFacts, KeepAliveAssumption DEF Arm, Types, EngineTypes
  <1>2. /\ xmit' \in Nat /\ rto' \in Nat /\ resend' \in Int
        /\ fresh(x, q) => x = 0 /\ xmit' = 1 /\ rto' = Rto /\ resend' = Rto + rtomin
        /\ due(x) => x > 0 /\ x = xmit /\ resend <= 0 /\ xmit' = x + 1
                     /\ rto' = back_off(rto) /\ resend' = rto'
        /\ ~fresh(x, q) /\ ~due(x) => xmit' = x
        /\ ~fresh(x, q) /\ ~due(x) /\ x > 0 => rto' = rto /\ resend' = resend
        /\ xmit' > 0 => rto' >= Rto /\ resend' >= 1
    BY <1>1, FlushSegment DEF Arm, Types
  <1>3. /\ x \in Nat /\ l["data"] \in Nat /\ l["data"] <= MaxLost
        /\ l["probe"] \in Nat /\ l["probe"] <= MaxLost
        /\ \/ x = 0 /\ a["data"] = 0
           \/ x > 0 /\ x = xmit /\ a["data"] = answer["data"] /\ l["data"] = lost["data"]
    BY BeforeFlush
  <1>4. rtomin \in Nat
    <2>1. Rto \div 8 \in Nat BY <1>1
    <2> QED BY <2>1 DEF rtomin
  <1>5. lost'["probe"] <= MaxLost
    <2>1. \/ lost'["probe"] = l["probe"]
          \/ lost'["probe"] = l["probe"] + 1 /\ l["probe"] < MaxLost
      BY AfterFlush
    <2> QED BY <1>1, <1>3, <2>1
  <1>6. CASE fresh(x, q) \/ due(x)
    <2>1. \/ answer'["data"] = Rtt /\ lost'["data"] = l["data"]
          \/ answer'["data"] = 0 /\ lost'["data"] = l["data"] + 1 /\ l["data"] < MaxLost
      BY <1>6, AfterFlush
    <2>2. x <= l["data"] BY <1>6, Retransmission
    <2>3. xmit' = x + 1 /\ xmit' > 0
      <3>1. CASE fresh(x, q) BY <1>2, <3>1
      <3>2. CASE due(x) BY <1>2, <1>3, <3>2
      <3> QED BY <1>6, <3>1, <3>2
    <2>4. resend' >= Rto
      <3>1. CASE fresh(x, q) BY <1>1, <1>2, <1>4, <3>1
      <3>2. CASE due(x) BY <1>2, <2>3, <3>2
      <3> QED BY <1>6, <3>1, <3>2
    <2>5. xmit' \in 1 .. MaxLost => rto' = b[xmit'] /\ resend' <= R
      <3> SUFFICES ASSUME x + 1 \in 1 .. MaxLost PROVE rto' = b[x + 1] /\ resend' <= R
        BY <2>3
      <3>1. b[x + 1] + rtomin <= R /\ b[x + 1] \in Nat BY <1>3 DEF Timeouts
      <3>2. CASE fresh(x, q)
        <4>1. x + 1 = 1 /\ b[1] = Rto BY <1>2, <3>2 DEF Timeouts
        <4> QED BY <1>2, <3>1, <3>2, <4>1
      <3>3. CASE due(x)
        <4>1. x \in 1 .. MaxLost /\ x \in Nat \ {0} BY <1>1, <1>2, <1>3, <2>2, <3>3
        <4>2. rto = b[x] BY <1>1, <1>2, <3>3, <4>1 DEF Transmitted
        <4>3. b[x + 1] = back_off(b[x]) BY <4>1 DEF Timeouts
        <4>4. rto' = b[x + 1] /\ resend' = b[x + 1] BY <1>2, <3>3, <4>2, <4>3
        <4> QED BY <1>1, <1>4, <3>1, <4>4
      <3> QED BY <1>6, <3>2, <3>3
    <2>6. CASE answer'["data"] = Rtt /\ lost'["data"] = l["data"]
      <3>1. /\ lost'["data"] <= MaxLost /\ answer'["data"] # 0
            /\ 0 < xmit' /\ xmit' <= lost'["data"] + 1
        BY <1>1, <1>3, <2>2, <2>3, <2>6
      <3>2. resend' >= answer'["data"] + Rto - Rtt
        <4>1. answer'["data"] + Rto - Rtt = Rto BY <1>1, <2>6
        <4> QED BY <2>4, <4>1
      <3> QED BY <1>2, <1>5, <2>5, <3>1, <3>2 DEF Transmitted
    <2>7. CASE answer'["data"] = 0 /\ lost'["data"] = l["data"] + 1 /\ l["data"] < MaxLost
      <3>1. lost'["data"] <= MaxLost /\ xmit' <= lost'["data"] /\ ~(answer'["data"] > 0)
        BY <1>1, <1>3, <2>2, <2>3, <2>7
      <3> QED BY <1>2, <1>5, <2>5, <3>1 DEF Transmitted
    <2> QED BY <2>1, <2>6, <2>7
  <1>7. CASE ~fresh(x, q) /\ ~due(x)
    <2>1. answer'["data"] = a["data"] /\ lost'["data"] = l["data"] BY <1>7, AfterFlush
    <2>2. xmit' = x BY <1>2, <1>7
    <2>3. CASE x = 0 /\ a["data"] = 0
      <3>1. /\ lost'["data"] <= MaxLost /\ xmit' = 0 /\ answer'["data"] = 0 /\ xmit' <= lost'["data"]
            /\ ~(answer'["data"] > 0) /\ ~(xmit' > 0) /\ xmit' \notin 1 .. MaxLost
        BY <1>1, <1>3, <2>1, <2>2, <2>3
      <3> QED BY <1>5, <3>1 DEF Transmitted
    <2>4. CASE x > 0 /\ x = xmit /\ a["data"] = answer["data"] /\ l["data"] = lost["data"]
      <3>1. rto' = rto /\ resend' = resend BY <1>2, <1>7, <2>4
      <3>2. xmit' = xmit /\ answer'["data"] = answer["data"] /\ lost'["data"] = lost["data"]
        BY <2>1, <2>2, <2>4
      <3>3. resend' >= 1 BY <1>2, <2>2, <2>4
      <3> QED BY <1>1, <1>5, <3>1, <3>2, <3>3 DEF Transmitted
    <2> QED BY <1>3, <2>3, <2>4
  <1> QED BY <1>6, <1>7

\* The silence after an arm: none, or that of a timer in time.
LEMMA ArmSilence ==
    ASSUME NEW b, NEW R, Timeouts(b, R), KeptInv(b, R), peer_up, ~asked',
           NEW x \in {0, xmit}, NEW q \in Nat, NEW kinds \in SUBSET Kinds,
           NEW a \in [Kinds -> Nat], NEW l \in [Kinds -> Nat], Arm(x, q, kinds, a, l)
    PROVE  idle' = 0 \/ (idle' = idle /\ ~asked /\ TimerArm(x, q, kinds, a, l))
  <1>1. Types /\ Clocks /\ idle_ms = idle /\ idle \in Nat BY KeptFacts DEF Arm
  <1>2. CASE TimerArm(x, q, kinds, a, l) /\ idle' = idle BY <1>2 DEF TimerArm
  <1>3. CASE CommandArm(x, q, kinds, a, l) /\ idle' = idle
    <2>1. ~(idle_ms > 0) BY <1>3 DEF CommandArm
    <2> QED BY <1>1, <1>3, <2>1
  <1> QED BY <1>1, <1>2, <1>3, ArmIdle

\* The data after an arm.
LEMMA ArmData ==
    ASSUME NEW b, NEW R, Timeouts(b, R), Tolerant(R), KeptInv(b, R), peer_up, running', ~asked',
           NEW x \in {0, xmit}, NEW q \in Nat, NEW kinds \in SUBSET Kinds,
           NEW a \in [Kinds -> Nat], NEW l \in [Kinds -> Nat], Arm(x, q, kinds, a, l)
    PROVE  DataInTime(R)'
  <1> SUFFICES ASSUME xmit' > 0
               PROVE  /\ timer' <= resend'
                      /\ answer'["data"] = 0 => idle' <= (xmit' - 1) * (R + Late) + R - resend'
                      /\ answer'["data"] > 0
                           => idle' <= (xmit' - 1) * (R + Late) + Rtt - answer'["data"]
    BY DEF DataInTime
  <1>1. /\ Types /\ Clocks /\ Transmitted(b, R) /\ (~asked => DataInTime(R)) /\ idle \in Nat
        /\ xmit \in Nat /\ resend \in Int /\ timer \in Int /\ -Late <= timer /\ running
        /\ answer["data"] \in Nat /\ answer["data"] <= Rtt /\ R \in Nat /\ R + Late \in Nat
        /\ MaxLost \in Nat /\ Rto \in Nat /\ Rtt \in Nat /\ Late \in Nat
    BY KeptFacts, KeepAliveAssumption DEF Arm
  <1>2. /\ xmit' \in Nat /\ resend' \in Int /\ resend' >= 1
        /\ fresh(x, q) => x = 0 /\ xmit' = 1
        /\ due(x) => x > 0 /\ x = xmit /\ resend <= 0 /\ xmit' = x + 1
        /\ ~fresh(x, q) /\ ~due(x) => xmit' = x
        /\ ~fresh(x, q) /\ ~due(x) /\ x > 0 => resend' = resend
    BY <1>1, FlushSegment DEF Arm, Types
  <1>3. timer' <= resend'
    <2>1. InTime(timer)' BY <1>1, ArmClocks
    <2> QED BY <1>2, <2>1 DEF InTime
  <1>4. Transmitted(b, R)' BY ArmTransmitted
  <1>5. answer'["data"] \in Nat /\ answer'["data"] <= Rtt /\ lost'["data"] \in Nat
    <2>1. Types' BY <1>1, ArmClocks
    <2>2. \A k \in Kinds : answer'[k] <= Rtt BY <1>1, ArmAnswers DEF KeptInv
    <2> QED BY <2>1, <2>2 DEF Types, Kinds
  <1>6. (xmit' - 1) * (R + Late) \in Nat
    <2>1. \A n \in Nat : n > 0 => (n - 1) * (R + Late) \in Nat
      <3> SUFFICES ASSUME NEW n \in Nat, n > 0 PROVE (n - 1) * (R + Late) \in Nat OBVIOUS
      <3>1. n - 1 \in Nat OBVIOUS
      <3> QED BY <1>1, <3>1, TimesNat
    <2> QED BY <1>2, <2>1
  <1>7. answer'["data"] = 0 => resend' <= R
    <2> SUFFICES ASSUME answer'["data"] = 0 PROVE resend' <= R OBVIOUS
    <2>1. xmit' <= lost'["data"] /\ lost'["data"] <= MaxLost BY <1>4 DEF Transmitted
    <2>2. \A n, m \in Nat : n <= m /\ m <= MaxLost /\ n > 0 => n \in 1 .. MaxLost BY <1>1
    <2>3. xmit' \in 1 .. MaxLost BY <1>2, <1>5, <2>1, <2>2
    <2> QED BY <1>4, <2>3 DEF Transmitted
  <1>8. CASE idle' = 0
    <2>1. \A m \in Nat, r \in Int : r <= R => 0 <= m + R - r BY <1>1
    <2>2. \A m, r \in Nat : r <= Rtt => 0 <= m + Rtt - r BY <1>1
    <2>3. answer'["data"] = 0 => idle' <= (xmit' - 1) * (R + Late) + R - resend'
      BY <1>2, <1>6, <1>7, <1>8, <2>1
    <2>4. idle' <= (xmit' - 1) * (R + Late) + Rtt - answer'["data"]
      BY <1>5, <1>6, <1>8, <2>2
    <2> QED BY <1>3, <2>3, <2>4
  <1>9. CASE idle' = idle /\ ~asked /\ TimerArm(x, q, kinds, a, l)
    <2>1. x = xmit /\ a = answer /\ l = lost /\ DataInTime(R) BY <1>1, <1>9 DEF TimerArm
    <2>2. ~fresh(x, q)
      <3>1. open' = open /\ q = queued BY <1>9 DEF TimerArm
      <3>2. open => queued = 0 BY <1>1 DEF Types, EngineTypes
      <3>3. ~(0 > 0) OBVIOUS
      <3> QED BY <3>1, <3>2, <3>3 DEF fresh
    <2>3. CASE due(x)
      <3>1. x > 0 /\ resend <= 0 /\ xmit' = x + 1 BY <1>2, <2>3
      <3>2. answer["data"] = 0 BY <2>1, <2>3, Retransmission
      <3>3. idle <= (x - 1) * (R + Late) + R - resend /\ timer <= resend
        BY <2>1, <3>1, <3>2 DEF DataInTime
      <3>4. x - 1 \in Nat /\ x \in Nat BY <1>1, <2>1, <3>1
      <3>5. (x - 1) * (R + Late) \in Nat /\ x * (R + Late) \in Nat BY <1>1, <3>4, TimesNat
      <3>6. x * (R + Late) = (x - 1) * (R + Late) + (R + Late) BY <1>1, <3>4, TimesStep
      <3>7. idle <= x * (R + Late) BY <1>1, <3>3, <3>5, <3>6
      <3>8. xmit' - 1 = x BY <3>1, <3>4
      <3>9. answer'["data"] = 0 => idle' <= (xmit' - 1) * (R + Late) + R - resend'
        <4>1. \A r \in Int : r <= R => idle <= x * (R + Late) + R - r BY <1>1, <3>5, <3>7
        <4> QED BY <1>2, <1>7, <1>9, <3>8, <4>1
      <3>10. idle' <= (xmit' - 1) * (R + Late) + Rtt - answer'["data"]
        <4>1. \A r \in Nat : r <= Rtt => idle <= x * (R + Late) + Rtt - r BY <1>1, <3>5, <3>7
        <4> QED BY <1>5, <1>9, <3>8, <4>1
      <3> QED BY <1>3, <3>9, <3>10
    <2>4. CASE ~due(x)
      <3>1. xmit' = xmit /\ xmit > 0 /\ resend' = resend BY <1>2, <2>1, <2>2, <2>4
      <3>2. answer'["data"] = answer["data"] BY <2>1, <2>2, <2>4, AfterFlush
      <3> QED BY <1>3, <1>9, <2>1, <3>1, <3>2 DEF DataInTime
    <2> QED BY <2>3, <2>4
  <1> QED BY <1>8, <1>9, ArmSilence

\* The probes after an arm.
LEMMA ArmProbes ==
    ASSUME NEW b, NEW R, Timeouts(b, R), Tolerant(R), KeptInv(b, R), peer_up, running', ~asked',
           NEW x \in {0, xmit}, NEW q \in Nat, NEW kinds \in SUBSET Kinds,
           NEW a \in [Kinds -> Nat], NEW l \in [Kinds -> Nat], Arm(x, q, kinds, a, l)
    PROVE  ProbesInTime'
  <1> DEFINE c == idle_cap + Late
  <1> SUFFICES ASSUME xmit' = 0
               PROVE
        /\ \/ ~open' /\ probe_wait' > 0 /\ probe_in' <= timer'
           \/ /\ idle' + timer' >= KeepAlive
              /\ last_probe' + timer' >= KeepAlive \/ last_probe' = KeepAlive
        /\ answer'["probe"] = 0 => idle' + timer' <= lost'["probe"] * c + idle_cap
        /\ answer'["probe"] > 0 => idle' <= lost'["probe"] * c + idle_cap + Late + Rtt - answer'["probe"]
    BY DEF ProbesInTime
  <1>1. /\ Types /\ Clocks /\ Transmitted(b, R) /\ (~asked => ProbesInTime) /\ idle \in Nat
        /\ idle_ms = idle /\ running
        /\ xmit \in Nat /\ timer \in Int /\ -Late <= timer
        /\ answer["probe"] \in Nat /\ answer["probe"] <= Rtt /\ lost["probe"] \in Nat
        /\ c \in Nat /\ KeepAlive \in Nat /\ Rtt \in Nat /\ Rtt >= 1 /\ Late \in Nat
    BY KeptFacts, KeepAliveAssumption DEF Arm
  <1>2. Types' /\ Clocks' /\ InTime(timer)' BY <1>1, ArmClocks
  <1>3. /\ timer' \in 1 .. idle_cap
        /\ timer' >= KeepAlive \/ (~open' /\ probe_wait' > 0 /\ probe_in' <= timer')
    BY <1>2 DEF InTime, Tolerant
  <1>4. idle' \in Nat /\ last_probe' \in Nat
    <2>1. clock' \in Nat /\ last_activity' \in Nat /\ last_activity' <= clock'
      BY <1>2 DEF Types, Clocks
    <2>2. idle' \in Nat BY <2>1, MinusNat DEF idle
    <2>3. \A n \in 0 .. KeepAlive : n \in Nat BY <1>1
    <2>4. last_probe' \in 0 .. KeepAlive BY <1>2 DEF Types
    <2> QED BY <2>2, <2>3, <2>4
  <1>5. /\ \/ ~open' /\ probe_wait' > 0 /\ probe_in' <= timer'
           \/ idle' + timer' >= KeepAlive /\ last_probe' + timer' >= KeepAlive
    <2>1. \A n \in Nat, t \in 1 .. idle_cap : t >= KeepAlive => n + t >= KeepAlive
      BY <1>1, IdleCap
    <2> QED BY <1>3, <1>4, <2>1
  <1>6. /\ answer'["probe"] \in Nat /\ answer'["probe"] <= Rtt /\ lost'["probe"] \in Nat
        /\ lost'["probe"] * c \in Nat
    <2>1. \A k \in Kinds : answer'[k] <= Rtt BY <1>1, ArmAnswers DEF KeptInv
    <2>2. answer'["probe"] \in Nat /\ answer'["probe"] <= Rtt /\ lost'["probe"] \in Nat
      BY <1>2, <2>1 DEF Types, Kinds
    <2> QED BY <1>1, <2>2, TimesNat
  <1>7. CASE idle' = 0
    <2>1. \A m \in Nat, t \in 1 .. idle_cap : 0 + t <= m + idle_cap BY IdleCap
    <2>2. \A m, r \in Nat : r <= Rtt => 0 <= m + idle_cap + Late + Rtt - r BY <1>1, IdleCap
    <2>3. idle' + timer' <= lost'["probe"] * c + idle_cap BY <1>3, <1>6, <1>7, <2>1
    <2>4. idle' <= lost'["probe"] * c + idle_cap + Late + Rtt - answer'["probe"]
      BY <1>6, <1>7, <2>2
    <2> QED BY <1>5, <2>3, <2>4
  <1>8. CASE idle' = idle /\ ~asked /\ TimerArm(x, q, kinds, a, l)
    <2>1. /\ x = xmit /\ a = answer /\ l = lost /\ open' = open /\ timer <= 0
          /\ window_probe \/ probe_due => "probe" \in kinds
      BY <1>8 DEF TimerArm
    <2>2. xmit = 0
      <3>1. /\ fresh(x, q) => xmit' = 1
            /\ due(x) => x > 0 /\ xmit' = x + 1
            /\ ~fresh(x, q) /\ ~due(x) => xmit' = x
        BY <1>1, FlushSegment DEF Arm, Types
      <3> QED BY <1>1, <2>1, <3>1
    <2>3. /\ \/ ~open /\ probe_wait > 0 /\ probe_in <= timer
             \/ /\ idle + timer >= KeepAlive
                /\ last_probe + timer >= KeepAlive \/ last_probe = KeepAlive
          /\ answer["probe"] = 0 => idle + timer <= lost["probe"] * c + idle_cap
          /\ answer["probe"] > 0 => idle <= lost["probe"] * c + idle_cap + Late + Rtt - answer["probe"]
      BY <1>1, <1>8, <2>2 DEF ProbesInTime
    <2>4. "probe" \in kinds
      <3>1. CASE ~open /\ probe_wait > 0 /\ probe_in <= timer
        <4>1. probe_in <= 0 BY <1>1, <2>1, <3>1 DEF Types, EngineTypes
        <4> QED BY <2>1, <3>1, <4>1 DEF window_probe
      <3>2. CASE /\ idle + timer >= KeepAlive
                 /\ last_probe + timer >= KeepAlive \/ last_probe = KeepAlive
        <4>1. idle >= KeepAlive /\ last_probe >= KeepAlive BY <1>1, <2>1, <3>2 DEF Types
        <4> QED BY <1>1, <2>1, <4>1 DEF probe_due
      <3> QED BY <2>3, <3>1, <3>2
    <2>5. \/ answer'["probe"] = (IF answer["probe"] = 0 THEN Rtt ELSE answer["probe"])
                /\ lost'["probe"] = lost["probe"]
          \/ answer'["probe"] = answer["probe"] /\ lost'["probe"] = lost["probe"] + 1
      BY <2>1, <2>4, AfterFlush
    <2>6. lost["probe"] * c \in Nat /\ (lost["probe"] + 1) * c = lost["probe"] * c + c
      BY <1>1, TimesNat, TimesStep
    <2> HIDE DEF c
    <2>7. c = idle_cap + Late BY DEF c
    <2>8. CASE answer["probe"] = 0
      <3>1. idle <= lost["probe"] * c + idle_cap + Late BY <1>1, <2>3, <2>6, <2>8, IdleCap
      <3>2. CASE answer'["probe"] = Rtt /\ lost'["probe"] = lost["probe"]
        <4>1. idle <= lost["probe"] * c + idle_cap + Late + Rtt - Rtt
          BY <1>1, <2>6, <3>1, IdleCap
        <4>2. answer'["probe"] # 0 BY <1>1, <3>2
        <4> QED BY <1>5, <1>8, <3>2, <4>1, <4>2
      <3>3. CASE answer'["probe"] = 0 /\ lost'["probe"] = lost["probe"] + 1
        <4>1. \A t \in 1 .. idle_cap : idle + t <= (lost["probe"] + 1) * c + idle_cap
          BY <1>1, <2>6, <2>7, <3>1, IdleCap
        <4>2. idle' + timer' <= lost'["probe"] * c + idle_cap BY <1>3, <1>8, <3>3, <4>1
        <4>3. ~(answer'["probe"] > 0) BY <3>3
        <4> QED BY <1>5, <4>2, <4>3
      <3> QED BY <2>5, <2>8, <3>2, <3>3
    <2>9. CASE answer["probe"] > 0
      <3>1. idle <= lost["probe"] * c + idle_cap + Late + Rtt - answer["probe"] BY <2>3, <2>9
      <3>2. idle <= (lost["probe"] + 1) * c + idle_cap + Late + Rtt - answer["probe"]
        BY <1>1, <2>6, <3>1, IdleCap
      <3>3. /\ answer'["probe"] = answer["probe"] /\ answer'["probe"] # 0
            /\ lost'["probe"] \in {lost["probe"], lost["probe"] + 1}
        BY <1>1, <2>5, <2>9
      <3> QED BY <1>5, <1>8, <3>1, <3>2, <3>3
    <2> QED BY <1>1, <2>8, <2>9
  <1> QED BY <1>7, <1>8, ArmSilence

\* A query during a silence counts as asked; otherwise the new wait is in time.
LEMMA QueryKept ==
    ASSUME NEW b, NEW R, Timeouts(b, R), Tolerant(R), KeptInv(b, R), Query, peer_up
    PROVE  Transmitted(b, R)' /\ (~asked' => DataInTime(R)' /\ ProbesInTime')
  <1>1. /\ Types /\ Clocks /\ Transmitted(b, R) /\ (~asked => DataInTime(R) /\ ProbesInTime)
        /\ idle_ms = idle /\ idle \in Nat
        /\ xmit \in Nat /\ resend \in Int
        /\ answer["data"] \in Nat /\ answer["probe"] \in Nat /\ lost["probe"] \in Nat
        /\ answer["probe"] <= Rtt /\ idle_cap + Late \in Nat
        /\ KeepAlive \in Nat /\ Rtt \in Nat /\ Late \in Nat
    BY KeptFacts, KeepAliveAssumption DEF Query, Command
  <1>2. /\ InTime(timer)' /\ idle' = idle /\ asked' = (asked \/ idle_ms > 0)
        /\ UNCHANGED <<last_probe, xmit, rto, resend, open, probe_wait, probe_in>>
        /\ UNCHANGED <<answer, lost>>
    BY <1>1, QueryClocks
  <1>3. Transmitted(b, R)' BY <1>1, <1>2 DEF Transmitted
  <1>4. ASSUME ~asked' PROVE DataInTime(R)' /\ ProbesInTime'
    <2>1. ~asked /\ ~(idle_ms > 0) BY <1>2, <1>4
    <2>2. idle = 0 /\ idle' = 0 BY <1>1, <1>2, <2>1
    <2>3. DataInTime(R)'
      <3> SUFFICES ASSUME xmit > 0 PROVE DataInTime(R)' BY <1>2 DEF DataInTime
      <3>1. resend >= 1 BY <1>1, <2>2 DEF Transmitted
      <3>2. timer' <= resend' BY <1>2, <3>1 DEF InTime
      <3> QED BY <1>1, <1>2, <2>1, <3>2 DEF DataInTime
    <2>4. ProbesInTime'
      <3> DEFINE c == idle_cap + Late
      <3> SUFFICES ASSUME xmit = 0 PROVE ProbesInTime' BY <1>2 DEF ProbesInTime
      <3>1. /\ timer' \in 1 .. idle_cap
            /\ timer' >= KeepAlive \/ (~open' /\ probe_wait' > 0 /\ probe_in' <= timer')
        BY <1>2 DEF InTime, Tolerant
      <3>2. last_probe \in Nat BY <1>1 DEF Types
      <3>3. \/ ~open' /\ probe_wait' > 0 /\ probe_in' <= timer'
            \/ idle' + timer' >= KeepAlive /\ last_probe' + timer' >= KeepAlive
        <4>1. \A n \in Nat, t \in 1 .. idle_cap : t >= KeepAlive => n + t >= KeepAlive
          BY <1>1, IdleCap
        <4> QED BY <1>1, <1>2, <3>1, <3>2, <4>1
      <3>4. lost["probe"] * c \in Nat BY <1>1, TimesNat
      <3>5. idle' + timer' <= lost'["probe"] * c + idle_cap
        <4>1. \A m \in Nat, t \in 1 .. idle_cap : 0 + t <= m + idle_cap BY IdleCap
        <4> QED BY <1>2, <2>2, <3>1, <3>4, <4>1
      <3>6. idle' <= lost'["probe"] * c + idle_cap + Late + Rtt - answer'["probe"]
        <4>1. \A m, r \in Nat : r <= Rtt => 0 <= m + idle_cap + Late + Rtt - r BY <1>1, IdleCap
        <4> QED BY <1>1, <1>2, <2>2, <3>4, <4>1
      <3> QED BY <3>3, <3>5, <3>6 DEF ProbesInTime
    <2> QED BY <2>3, <2>4
  <1> QED BY <1>3, <1>4

\* Time passes.
LEMMA TickKept ==
    ASSUME NoWrap, NEW b, NEW R, Timeouts(b, R), Tolerant(R), KeptInv(b, R), Tick, peer_up
    PROVE  Transmitted(b, R)' /\ (~asked' => DataInTime(R)' /\ ProbesInTime')
  <1>1. /\ Types /\ Clocks /\ Transmitted(b, R) /\ (~asked => DataInTime(R) /\ ProbesInTime)
        /\ idle \in Nat /\ xmit \in Nat /\ resend \in Int /\ timer \in Int
        /\ answer["data"] \in Nat /\ answer["probe"] \in Nat
        /\ lost["data"] \in Nat /\ lost["probe"] \in Nat
        /\ R \in Nat /\ R + Late \in Nat /\ idle_cap + Late \in Nat
    BY KeptFacts DEF Tick
  <1>2. MaxLost \in Nat /\ Rto \in Nat /\ Late \in Nat /\ Rtt \in Nat /\ KeepAlive \in Nat /\ Rtt <= Rto
    BY KeepAliveAssumption DEF Tolerant
  <1>3. idle' = idle + 1 BY <1>1, TickClocks
  <1>4. /\ UNCHANGED <<xmit, rto, lost, open, probe_wait, asked>>
        /\ timer > -Late /\ timer' = timer - 1
        /\ resend' = IF xmit = 0 THEN 0 ELSE Closer(resend)
        /\ probe_in' = IF probe_wait = 0 THEN 0 ELSE Closer(probe_in)
        /\ last_probe' = Min2(last_probe + 1, KeepAlive)
        /\ answer' = [k \in Kinds |-> Max2(answer[k] - 1, 0)] /\ \A k \in Kinds : answer[k] # 1
    BY DEF Tick
  <1>5. last_probe \in 0 .. KeepAlive /\ probe_wait \in Nat /\ probe_in \in Int
    BY <1>1 DEF Types, EngineTypes
  <1>6. /\ answer["data"] = 0 => answer'["data"] = 0
        /\ answer["data"] > 0 => answer["data"] > 1 /\ answer'["data"] > 0 /\ answer'["data"] = answer["data"] - 1
        /\ answer["probe"] = 0 => answer'["probe"] = 0
        /\ answer["probe"] > 0 => answer'["probe"] > 0 /\ answer'["probe"] = answer["probe"] - 1
    BY <1>1, <1>4 DEF Kinds, Max2
  <1>7. xmit > 0 /\ resend > -Late => resend' = resend - 1
    BY <1>1, <1>2, <1>4 DEF Closer, Max2
  <1>8. Transmitted(b, R)'
    <2>1. lost'["data"] <= MaxLost /\ lost'["probe"] <= MaxLost BY <1>1, <1>4 DEF Transmitted
    <2>2. answer'["data"] = 0 => xmit' <= lost'["data"] BY <1>1, <1>4, <1>6 DEF Transmitted
    <2>3. answer'["data"] > 0 =>
            /\ 0 < xmit' /\ xmit' <= lost'["data"] + 1
            /\ resend' >= answer'["data"] + Rto - Rtt
      <3> SUFFICES ASSUME answer["data"] > 0
                   PROVE  /\ 0 < xmit /\ xmit <= lost["data"] + 1
                          /\ resend' >= answer["data"] - 1 + Rto - Rtt
        BY <1>1, <1>4, <1>6
      <3>1. /\ 0 < xmit /\ xmit <= lost["data"] + 1
            /\ resend >= answer["data"] + Rto - Rtt
        BY <1>1 DEF Transmitted
      <3>2. resend > -Late BY <1>1, <1>2, <1>6, <3>1
      <3>3. resend' = resend - 1 BY <1>7, <3>1, <3>2
      <3> QED BY <1>1, <1>2, <3>1, <3>3
    <2>4. xmit' \in 1 .. MaxLost => rto' = b[xmit'] /\ resend' <= R
      <3> SUFFICES ASSUME xmit \in 1 .. MaxLost PROVE rto = b[xmit] /\ resend' <= R BY <1>4
      <3>1. rto = b[xmit] /\ resend <= R /\ xmit > 0 BY <1>1, <1>2 DEF Transmitted
      <3>2. resend' = Closer(resend) BY <1>1, <1>4, <3>1
      <3>3. \A r \in Int : r <= R => Closer(r) <= R BY <1>1, <1>2 DEF Closer, Max2
      <3> QED BY <1>1, <3>1, <3>2, <3>3
    <2>5. idle' # 0 BY <1>1, <1>3
    <2> QED BY <2>1, <2>2, <2>3, <2>4, <2>5 DEF Transmitted
  <1>9. ASSUME ~asked' PROVE DataInTime(R)'
    <2> SUFFICES ASSUME xmit > 0 PROVE DataInTime(R)' BY <1>4 DEF DataInTime
    <2>1. /\ timer <= resend
          /\ answer["data"] = 0 => idle <= (xmit - 1) * (R + Late) + R - resend
          /\ answer["data"] > 0 => idle <= (xmit - 1) * (R + Late) + Rtt - answer["data"]
      BY <1>1, <1>4, <1>9 DEF DataInTime
    <2>2. resend > -Late BY <1>1, <1>2, <1>4, <2>1
    <2>3. resend' = resend - 1 /\ timer' <= resend' BY <1>1, <1>4, <1>7, <2>1, <2>2
    <2>4. (xmit - 1) * (R + Late) \in Nat
      <3>1. xmit - 1 \in Nat BY <1>1
      <3> QED BY <1>1, <3>1, TimesNat
    <2>5. answer'["data"] = 0 => idle' <= (xmit - 1) * (R + Late) + R - resend'
      BY <1>1, <1>3, <1>6, <2>1, <2>3, <2>4
    <2>6. answer'["data"] > 0 => idle' <= (xmit - 1) * (R + Late) + Rtt - answer'["data"]
      BY <1>1, <1>2, <1>3, <1>6, <2>1, <2>4
    <2> QED BY <1>4, <2>3, <2>5, <2>6 DEF DataInTime
  <1>10. ASSUME ~asked' PROVE ProbesInTime'
    <2> DEFINE c == idle_cap + Late
    <2> SUFFICES ASSUME xmit = 0 PROVE ProbesInTime' BY <1>4 DEF ProbesInTime
    <2>1. /\ \/ ~open /\ probe_wait > 0 /\ probe_in <= timer
             \/ /\ idle + timer >= KeepAlive
                /\ last_probe + timer >= KeepAlive \/ last_probe = KeepAlive
          /\ answer["probe"] = 0 => idle + timer <= lost["probe"] * c + idle_cap
          /\ answer["probe"] > 0 => idle <= lost["probe"] * c + idle_cap + Late + Rtt - answer["probe"]
      BY <1>1, <1>4, <1>10 DEF ProbesInTime
    <2>2. idle' + timer' = idle + timer BY <1>1, <1>3, <1>4
    <2>3. ~open /\ probe_wait > 0 /\ probe_in <= timer => probe_in' <= timer'
      BY <1>1, <1>2, <1>4, <1>5 DEF Closer, Max2
    <2>4. last_probe + timer >= KeepAlive \/ last_probe = KeepAlive
            => last_probe' + timer' >= KeepAlive \/ last_probe' = KeepAlive
      BY <1>1, <1>2, <1>4, <1>5 DEF Min2
    <2>5. lost["probe"] * c \in Nat BY <1>1, TimesNat
    <2>6. answer'["probe"] = 0 => idle' + timer' <= lost'["probe"] * c + idle_cap
      BY <1>1, <1>4, <1>6, <2>1, <2>2
    <2>7. answer'["probe"] > 0
            => idle' <= lost'["probe"] * c + idle_cap + Late + Rtt - answer'["probe"]
      BY <1>1, <1>2, <1>3, <1>4, <1>6, <2>1, <2>5, IdleCap
    <2> QED BY <1>4, <2>1, <2>2, <2>3, <2>4, <2>6, <2>7 DEF ProbesInTime
  <1> QED BY <1>8, <1>9, <1>10

\* In the initial state nothing has been sent.
LEMMA InitKept ==
    ASSUME NEW b, NEW R, Timeouts(b, R), Tolerant(R), Init
    PROVE  KeptInv(b, R)
  <1>1. DetectInv /\ InTime(timer) /\ idle = 0 BY InitDetect
  <1>2. /\ xmit = 0 /\ answer["data"] = 0 /\ answer["probe"] = 0 /\ open
        /\ lost["data"] = 0 /\ lost["probe"] = 0 /\ last_probe = 0
    BY DEF Init, Kinds
  <1>3. timer \in 1 .. idle_cap /\ timer >= KeepAlive BY <1>1, <1>2 DEF InTime, Tolerant
  <1>4. Transmitted(b, R) BY <1>2, KeepAliveAssumption DEF Transmitted
  <1>5. DataInTime(R) BY <1>2 DEF DataInTime
  <1>6. 0 * (idle_cap + Late) = 0 BY IdleCap, KeepAliveAssumption
  <1>7. ProbesInTime BY <1>1, <1>2, <1>3, <1>6, IdleCap, KeepAliveAssumption DEF ProbesInTime
  <1> QED BY <1>1, <1>4, <1>5, <1>7 DEF KeptInv

\* The invariant of every step, and no step gives up a peer that is there.
LEMMA NextKept ==
    ASSUME NoWrap, NEW b, NEW R, Timeouts(b, R), Tolerant(R), KeptInv(b, R), [Next]_vars
    PROVE  KeptInv(b, R)' /\ (running /\ peer_up /\ ~asked => running')
  <1>1. DetectInv' BY NextDetect DEF KeptInv
  <1>2. CASE Timer \/ Write \/ FlushCmd \/ (\E k \in Kinds : Receive(k)) \/ PeerSpeaks
    <2>1. PICK x \in {0, xmit}, q \in Nat, kinds \in SUBSET Kinds,
              a \in [Kinds -> Nat], l \in [Kinds -> Nat] : Arm(x, q, kinds, a, l)
      BY <1>2, Arms DEF KeptInv, DetectInv
    <2>2. peer_up' = peer_up BY <2>1 DEF Arm, Sends
    <2>3. peer_up /\ ~asked => running' BY <2>1, ArmGoesOn
    <2>4. peer_up /\ running' => Transmitted(b, R)' BY <2>1, ArmTransmitted
    <2>5. peer_up /\ running' /\ ~asked' => DataInTime(R)' /\ ProbesInTime'
      BY <2>1, ArmData, ArmProbes
    <2> QED BY <1>1, <2>2, <2>3, <2>4, <2>5 DEF KeptInv
  <1>3. CASE Query
    <2>1. running' = running /\ peer_up' = peer_up BY <1>3 DEF Query, Command, net
    <2> QED BY <1>1, <1>3, <2>1, QueryKept DEF KeptInv
  <1>4. CASE Tick
    <2>1. running' = running /\ peer_up' = peer_up BY <1>4 DEF Tick
    <2> QED BY <1>1, <1>4, <2>1, TickKept DEF KeptInv
  <1>5. CASE PeerVanishes
    <2>1. running' = running /\ ~peer_up' BY <1>5 DEF PeerVanishes
    <2> QED BY <1>1, <2>1 DEF KeptInv
  <1>6. CASE UNCHANGED vars
    <2>1. /\ UNCHANGED <<running, clock, last_activity, last_probe, timer, peer_up, asked>>
          /\ UNCHANGED <<xmit, rto, resend, open, queued, probe_wait, probe_in, answer, lost>>
      BY <1>6 DEF vars, segment, window, net, app
    <2>2. running' /\ peer_up' => Transmitted(b, R)' /\ (~asked' => DataInTime(R)' /\ ProbesInTime')
      BY <2>1 DEF KeptInv, Transmitted, DataInTime, ProbesInTime, idle
    <2> QED BY <1>1, <2>1, <2>2 DEF KeptInv
  <1> QED BY <1>2, <1>3, <1>4, <1>5, <1>6 DEF Next

\* For every setting that leaves room for the losses and delays assumed, whichever way
\* the retransmission timeout backs off and whether or not the remote window is open:
\* an actor whose peer is there and answers does not end, neither for three silent
\* windows nor for a dead link, as long as the clock does not wrap and no command
\* puts its timer off during a silence.
THEOREM PeerKept ==
    ASSUME NEW b, NEW R, NoWrap, Timeouts(b, R), Tolerant(R)
    PROVE  Spec => LivePeerKept
  <1>1. Init => KeptInv(b, R) BY InitKept
  <1>2. KeptInv(b, R) /\ [Next]_vars => KeptInv(b, R)' BY NextKept
  <1>3. KeptInv(b, R) /\ [Next]_vars => [running /\ ~running' /\ ~asked => ~peer_up]_vars
    <2> SUFFICES ASSUME KeptInv(b, R), [Next]_vars
                 PROVE  running /\ ~running' /\ ~asked => ~peer_up
      OBVIOUS
    <2> QED BY NextKept
  <1> QED BY <1>1, <1>2, <1>3, PTL DEF Spec, LivePeerKept

===============================================================================
