--------------------------- MODULE FeedLink_proofs ---------------------------
(***************************************************************************)
(* What holds of FeedLink for every number of connections, keys, tunnels,  *)
(* views and lines in a chunk, whatever the publisher says.                *)
(***************************************************************************)
EXTENDS FeedLink, SequenceTheorems, TLAPS

Up == {"connecting", "proving", "live"}

TaskShape ==
  /\ phase \in [Conns -> {"free", "connecting", "reading", "closing"}]
  /\ current \in Conns \cup {None} /\ held \in Conns \cup {None}

\* LinkIsServed and OneDescriptor need to know in addition that a connection being
\* closed is not the one served, and that lines still being dispatched come from
\* one that is read, unless the machine has already given it up.
ServedInv ==
  /\ TaskShape /\ LinkIsServed /\ OneDescriptor
  /\ \A c \in Conns : phase[c] = "closing" => c # current
  /\ ~ Free /\ state \in Up => phase[current] = "reading"

LEMMA NoneApart == None \notin Conns /\ None \notin Keys /\ Doublings \in Nat
BY LinkAssumption

\* Opening a connection leaves none that is read: the one held is dropped.
LEMMA OpenedAlone ==
  ASSUME TaskShape, OneDescriptor, OpenConnection
  PROVE  /\ phase' \in [Conns -> {"free", "connecting", "reading", "closing"}]
         /\ current' \in Conns /\ held' = None /\ phase'[current'] = "connecting"
         /\ \A c \in Conns : phase'[c] # "reading"
         /\ \A c \in Conns : phase'[c] = "closing" => c # current'
<1>1. PICK n \in Conns : /\ phase' = [Dropped EXCEPT ![n] = "connecting"]
                         /\ current' = n /\ held' = None
  BY DEF OpenConnection
<1>2. \A c \in Conns :
        phase'[c] = IF c = n THEN "connecting"
                    ELSE IF c = held /\ phase[c] = "reading" THEN "closing"
                    ELSE phase[c]
  BY <1>1 DEF Dropped
<1>3. phase' \in [Conns -> {"free", "connecting", "reading", "closing"}]
  BY <1>1 DEF Dropped, TaskShape
<1> QED BY <1>1, <1>2, <1>3 DEF OneDescriptor

LEMMA ClosedAlone ==
  ASSUME TaskShape, OneDescriptor, CloseConnection
  PROVE  /\ phase' \in [Conns -> {"free", "connecting", "reading", "closing"}]
         /\ current' = None /\ held' = None
         /\ \A c \in Conns : phase'[c] # "reading"
<1>1. phase' = Dropped /\ current' = None /\ held' = None
  BY DEF CloseConnection
<1>2. \A c \in Conns :
        phase'[c] = IF c = held /\ phase[c] = "reading" THEN "closing" ELSE phase[c]
  BY <1>1 DEF Dropped
<1>3. phase' \in [Conns -> {"free", "connecting", "reading", "closing"}]
  BY <1>1 DEF Dropped, TaskShape
<1> QED BY <1>1, <1>2, <1>3 DEF OneDescriptor

LEMMA ServedInit == Init => ServedInv
BY NoneApart DEF Init, ServedInv, TaskShape, LinkIsServed, OneDescriptor, Free, Up

LEMMA ServedStep == ServedInv /\ [Next]_vars => ServedInv'
<1> SUFFICES ASSUME ServedInv, [Next]_vars PROVE ServedInv'
  OBVIOUS
<1>a. TaskShape /\ OneDescriptor
  BY DEF ServedInv
<1> USE NoneApart DEF ServedInv, TaskShape, LinkIsServed, OneDescriptor, Free, Up
<1>o. ASSUME OpenConnection, state' = "connecting", chunk' = chunk, Free
      PROVE  ServedInv'
  BY <1>a, <1>o, OpenedAlone
<1>c. ASSUME CloseConnection, state' \notin Up PROVE ServedInv'
  BY <1>a, <1>c, ClosedAlone
<1>1. CASE Application
  <2>1. CASE Start
    BY <1>o, <2>1 DEF Start
  <2>2. CASE Stop
    BY <1>c, <2>2 DEF Stop
  <2>3. CASE Nudge \/ RetryByHand \/ ForgetAndRetry
    BY <1>o, <2>3 DEF Nudge, RetryByHand, ForgetAndRetry, Again, ByHand
  <2>4. CASE ForgetOnly
    BY <2>4 DEF ForgetOnly, tasks
  <2>5. CASE WatchNothing
    BY <2>5 DEF WatchNothing, tasks
  <2>6. CASE Relaunch
    BY <2>6 DEF Relaunch
  <2>7. ASSUME NEW t \in Tunnels, Watch(t) PROVE ServedInv'
    BY <2>7 DEF Watch, tasks
  <2> QED BY <1>1, <2>1, <2>2, <2>3, <2>4, <2>5, <2>6, <2>7 DEF Application
<1>2. CASE Timers
  <2>1. CASE RetryTimerFires
    BY <1>o, <2>1 DEF RetryTimerFires, Again
  <2>2. CASE AuthTimesOut
    BY <1>c, <2>2 DEF AuthTimesOut
  <2>3. CASE AuthTimerIsLate
    BY <2>3 DEF AuthTimerIsLate, tasks
  <2> QED BY <1>2, <2>1, <2>2, <2>3 DEF Timers
<1>3. CASE Dispatch
  <2>1. CASE HelloAccepted
    BY <2>1 DEF HelloAccepted, Takes, tasks
  <2>2. CASE HelloRefused
    BY <1>c, <2>2 DEF HelloRefused
  <2>3. CASE AuthHolds
    BY <2>3 DEF AuthHolds, Takes, tasks
  <2>4. CASE AuthFails
    BY <1>c, <2>4 DEF AuthFails
  <2>5. CASE StateIsHeld
    BY <2>5 DEF StateIsHeld, Takes, tasks
  <2>6. CASE StateIsShown
    BY <2>6 DEF StateIsShown, Takes, tasks
  <2>7. CASE Goodbye
    BY <1>c, <2>7 DEF Goodbye, ScheduleRetry
  <2>8. CASE IgnoresLine
    BY <2>8 DEF IgnoresLine, Takes, tasks
  <2> QED BY <1>3, <2>1, <2>2, <2>3, <2>4, <2>5, <2>6, <2>7, <2>8 DEF Dispatch
<1>4. ASSUME NEW c \in Conns, Task(c) PROVE ServedInv'
  <2>1. CASE Connects(c)
    BY <2>1 DEF Connects
  <2>2. CASE ConnectFails(c)
    BY <2>2 DEF ConnectFails, ScheduleRetry
  <2>3. CASE ConnectIsLate(c)
    BY <2>3 DEF ConnectIsLate
  <2>4. CASE Read(c)
    BY <2>4 DEF Read, tasks
  <2>5. CASE StreamEnds(c)
    BY <2>5 DEF StreamEnds, ScheduleRetry
  <2>6. CASE Abandoned(c)
    BY <2>6 DEF Abandoned
  <2> QED BY <1>4, <2>1, <2>2, <2>3, <2>4, <2>5, <2>6 DEF Task
<1>5. CASE UNCHANGED vars
  BY <1>5 DEF vars, tasks
<1> QED BY <1>1, <1>2, <1>3, <1>4, <1>5 DEF Next

LEMMA Served == Spec => []ServedInv
<1> QED BY ServedInit, ServedStep, PTL DEF Spec

\* The machine believes in a link exactly while a task serves one: no state waits
\* for a connection nobody reads, no tail of another connection knocks one down,
\* and at most one descriptor is read, the one being served
\* (FeedSupervisor.swift:26-37, 161-231).
THEOREM OneLinkIsServed == Spec => []OneLink
<1>1. ServedInv => OneLink
  BY DEF ServedInv, OneLink
<1> QED BY <1>1, Served, PTL

-----------------------------------------------------------------------------
(* The timers.                                                             *)

TimersInv == TimersFitTheState /\ retry \in BOOLEAN /\ proof \in BOOLEAN

LEMMA TimersInit == Init => TimersInv
BY DEF Init, TimersInv, TimersFitTheState

LEMMA TimersStep == TimersInv /\ [Next]_vars => TimersInv'
<1> SUFFICES ASSUME TimersInv, [Next]_vars PROVE TimersInv'
  OBVIOUS
\* The three ways a step may treat the timers.
<1>u. ASSUME state' = state, retry' = retry, proof' = proof PROVE TimersInv'
  BY <1>u DEF TimersInv, TimersFitTheState
<1>r. ASSUME state' = "retrying", retry' = TRUE, proof' = proof PROVE TimersInv'
  BY <1>r DEF TimersInv, TimersFitTheState
<1>e. ASSUME state' \in {"idle", "connecting", "live", "blocked", "unproven"},
             retry' = FALSE, proof' \in {proof, FALSE}
      PROVE  TimersInv'
  BY <1>e DEF TimersInv, TimersFitTheState
<1>n. state # "retrying" => retry = FALSE
  BY DEF TimersInv, TimersFitTheState
<1>1. CASE Application
  <2>1. CASE Start
    BY <1>n, <1>e, <2>1 DEF Start
  <2>2. CASE Stop
    BY <1>e, <2>2 DEF Stop
  <2>3. CASE Nudge \/ RetryByHand \/ ForgetAndRetry
    BY <1>n, <1>e, <2>3 DEF Nudge, RetryByHand, ForgetAndRetry, Again, ByHand
  <2>4. CASE ForgetOnly \/ WatchNothing
    BY <1>u, <2>4 DEF ForgetOnly, WatchNothing
  <2>5. CASE Relaunch
    BY <1>e, <2>5 DEF Relaunch
  <2>6. ASSUME NEW t \in Tunnels, Watch(t) PROVE TimersInv'
    BY <1>u, <2>6 DEF Watch
  <2> QED BY <1>1, <2>1, <2>2, <2>3, <2>4, <2>5, <2>6 DEF Application
<1>2. CASE Timers
  <2>1. CASE RetryTimerFires
    BY <1>e, <2>1 DEF RetryTimerFires, Again
  <2>2. CASE AuthTimesOut
    BY <1>n, <1>e, <2>2 DEF AuthTimesOut
  <2>3. CASE AuthTimerIsLate
    <3>1. state' = state /\ retry' = retry /\ proof' = FALSE /\ state # "proving"
      BY <2>3 DEF AuthTimerIsLate
    <3> QED BY <3>1 DEF TimersInv, TimersFitTheState
  <2> QED BY <1>2, <2>1, <2>2, <2>3 DEF Timers
<1>3. CASE Dispatch
  <2>1. CASE HelloAccepted
    <3>1. /\ state = "connecting" /\ state' = "proving"
          /\ retry' = retry /\ proof' = TRUE
      BY <2>1 DEF HelloAccepted
    <3> QED BY <1>n, <3>1 DEF TimersInv, TimersFitTheState
  <2>2. CASE HelloRefused
    BY <1>n, <1>e, <2>2 DEF HelloRefused
  <2>3. CASE AuthHolds \/ AuthFails
    BY <1>n, <1>e, <2>3 DEF AuthHolds, AuthFails
  <2>4. CASE StateIsHeld \/ StateIsShown \/ IgnoresLine
    BY <1>u, <2>4 DEF StateIsHeld, StateIsShown, IgnoresLine
  <2>5. CASE Goodbye
    BY <1>r, <2>5 DEF Goodbye, ScheduleRetry
  <2> QED BY <1>3, <2>1, <2>2, <2>3, <2>4, <2>5 DEF Dispatch
<1>4. ASSUME NEW c \in Conns, Task(c) PROVE TimersInv'
  <2>1. CASE ConnectFails(c) \/ StreamEnds(c)
    BY <1>r, <2>1 DEF ConnectFails, StreamEnds, ScheduleRetry
  <2>2. CASE Connects(c) \/ ConnectIsLate(c) \/ Read(c) \/ Abandoned(c)
    BY <1>u, <2>2 DEF Connects, ConnectIsLate, Read, Abandoned
  <2> QED BY <1>4, <2>1, <2>2 DEF Task
<1>5. CASE UNCHANGED vars
  BY <1>u, <1>5 DEF vars
<1> QED BY <1>1, <1>2, <1>3, <1>4, <1>5 DEF Next

\* A link that waits to retry has a timer to wake it and no other has; one that
\* waits for a proof has its deadline (LinkMachine.swift:152-154, 180-193, 270-284,
\* FeedSupervisor.swift:127-152).
THEOREM EveryWaitHasItsTimer == Spec => []TimersFitTheState
<1>1. TimersInv => TimersFitTheState
  BY DEF TimersInv
<1> QED BY <1>1, TimersInit, TimersStep, PTL DEF Spec

-----------------------------------------------------------------------------
(* The keys.                                                               *)

\* What has been trusted is the key that is pinned, and the keychain agrees: with
\* less, a relaunch could pin another key than the one shown before it.
KeyInv ==
  /\ pinned = store /\ trusted \subseteq {pinned} /\ None \notin trusted
  /\ state \in {"proving", "live"} => offered # None
  /\ signed = [c \in Conns |-> signed[c]]
  /\ LiveIsProven

LEMMA KeyInit == Init => KeyInv
BY DEF Init, KeyInv, LiveIsProven

LEMMA KeyStep == ServedInv /\ KeyInv /\ [Next]_vars => KeyInv'
<1> SUFFICES ASSUME ServedInv, KeyInv, [Next]_vars PROVE KeyInv'
  OBVIOUS
<1> USE DEF KeyInv, LiveIsProven
<1>d. ASSUME UNCHANGED keyring, state' \notin {"proving", "live"},
             signed' = [c \in Conns |-> signed'[c]]
      PROVE  KeyInv'
  BY <1>d DEF keyring
<1>s. ASSUME UNCHANGED <<keyring, state, signed, current>> PROVE KeyInv'
  BY <1>s DEF keyring
<1>o. OpenConnection => signed' = [c \in Conns |-> signed'[c]]
  BY DEF OpenConnection
<1>1. CASE Application
  <2>1. CASE Start
    BY <1>d, <1>o, <2>1 DEF Start
  <2>2. CASE Stop
    BY <1>d, <2>2 DEF Stop
  <2>3. CASE Nudge \/ RetryByHand
    BY <1>d, <1>o, <2>3 DEF Nudge, RetryByHand, Again, ByHand
  <2>4. CASE ForgetAndRetry
    BY <1>o, <2>4 DEF ForgetAndRetry, Forget, Again, ByHand
  <2>5. CASE ForgetOnly
    BY <2>5 DEF ForgetOnly, Forget, tasks
  <2>6. CASE WatchNothing
    BY <1>s, <2>6 DEF WatchNothing, tasks
  <2>7. CASE Relaunch
    BY <2>7 DEF Relaunch
  <2>8. ASSUME NEW t \in Tunnels, Watch(t) PROVE KeyInv'
    BY <1>s, <2>8 DEF Watch, tasks
  <2> QED BY <1>1, <2>1, <2>2, <2>3, <2>4, <2>5, <2>6, <2>7, <2>8 DEF Application
<1>2. CASE Timers
  <2>1. CASE RetryTimerFires
    BY <1>d, <1>o, <2>1 DEF RetryTimerFires, Again
  <2>2. CASE AuthTimesOut
    BY <1>d, <2>2 DEF AuthTimesOut
  <2>3. CASE AuthTimerIsLate
    BY <1>s, <2>3 DEF AuthTimerIsLate, tasks
  <2> QED BY <1>2, <2>1, <2>2, <2>3 DEF Timers
<1>3. CASE Dispatch
  <2>1. CASE HelloAccepted
    BY <2>1 DEF HelloAccepted
  <2>2. CASE HelloRefused
    BY <2>2 DEF HelloRefused
  <2>3. CASE AuthHolds
    <3> DEFINE key == IF pinned = None THEN offered ELSE pinned
    <3>1. /\ current \in Conns /\ current' = current
          /\ state = "proving" /\ offered' = offered
      BY <2>3, NoneApart DEF AuthHolds, tasks, ServedInv, TaskShape, LinkIsServed
    <3>2. /\ signed' = [signed EXCEPT ![current] = key]
          /\ pinned' = key /\ trusted' = trusted \cup {key}
      BY <2>3 DEF AuthHolds, Holds, Sign
    <3>3. store' = key
      BY <2>3 DEF AuthHolds
    <3>4. key # None /\ signed'[current] = key
      BY <3>1, <3>2
    <3> QED BY <3>1, <3>2, <3>3, <3>4
  <2>4. CASE AuthFails
    BY <1>d, <2>4 DEF AuthFails, Sign
  <2>5. CASE StateIsHeld \/ StateIsShown \/ IgnoresLine
    BY <1>s, <2>5 DEF StateIsHeld, StateIsShown, IgnoresLine, tasks
  <2>6. CASE Goodbye
    BY <1>d, <2>6 DEF Goodbye, ScheduleRetry
  <2> QED BY <1>3, <2>1, <2>2, <2>3, <2>4, <2>5, <2>6 DEF Dispatch
<1>4. ASSUME NEW c \in Conns, Task(c) PROVE KeyInv'
  <2>1. CASE ConnectFails(c) \/ StreamEnds(c)
    BY <1>d, <2>1 DEF ConnectFails, StreamEnds, ScheduleRetry
  <2>2. CASE Connects(c) \/ ConnectIsLate(c) \/ Read(c) \/ Abandoned(c)
    BY <1>s, <2>2 DEF Connects, ConnectIsLate, Read, Abandoned, tasks
  <2> QED BY <1>4, <2>1, <2>2 DEF Task
<1>5. CASE UNCHANGED vars
  BY <1>s, <1>5 DEF vars, tasks
<1> QED BY <1>1, <1>2, <1>3, <1>4, <1>5 DEF Next

LEMMA Keyed == Spec => []KeyInv
<1> QED BY KeyInit, KeyStep, Served, PTL DEF Spec

\* A publisher is live only if it answered the challenge of this very connection,
\* with the key that is pinned unless the user has just forgotten it
\* (LinkMachine.swift:106-142).
THEOREM OnlyTheProvenAreLive == Spec => []LiveIsProven
<1>1. KeyInv => LiveIsProven
  BY DEF KeyInv
<1> QED BY <1>1, Keyed, PTL

\* Between two times the user forgets the key, across any number of relaunches,
\* everything shown as live holds one and the same key (LinkMachine.swift:106-146).
THEOREM OneKeyIsTrusted == Spec => []OneKeyUntilForgotten
<1>1. KeyInv => OneKeyUntilForgotten
  BY DEF KeyInv, OneKeyUntilForgotten
<1> QED BY <1>1, Keyed, PTL

-----------------------------------------------------------------------------
(* The watches.                                                            *)

\* Nothing is asked of a publisher before it has proved itself, so that what is
\* asked then is all it has been asked.
WatchInv == WatchesAgree /\ (state \in {"connecting", "proving"} => told = {})

LEMMA WatchInit == Init => WatchInv
BY DEF Init, WatchInv, WatchesAgree

LEMMA WatchStep == WatchInv /\ [Next]_vars => WatchInv'
<1> SUFFICES ASSUME WatchInv, [Next]_vars PROVE WatchInv'
  OBVIOUS
<1> USE DEF WatchInv, WatchesAgree
<1>d. ASSUME state' \notin {"connecting", "proving", "live"} PROVE WatchInv'
  BY <1>d
<1>s. ASSUME UNCHANGED <<state, watching, told>> PROVE WatchInv'
  BY <1>s
<1>o. ASSUME OpenConnection, state' = "connecting" PROVE WatchInv'
  BY <1>o DEF OpenConnection, NewPublisher
<1>1. CASE Application
  <2>1. CASE Start \/ Nudge \/ RetryByHand \/ ForgetAndRetry
    BY <1>o, <2>1 DEF Start, Nudge, RetryByHand, ForgetAndRetry, Again, ByHand
  <2>2. CASE Stop \/ Relaunch
    BY <1>d, <2>2 DEF Stop, Relaunch
  <2>3. CASE ForgetOnly
    BY <1>s, <2>3 DEF ForgetOnly, publisher
  <2>4. CASE WatchNothing
    BY <2>4 DEF WatchNothing
  <2>5. ASSUME NEW t \in Tunnels, Watch(t) PROVE WatchInv'
    BY <2>5 DEF Watch
  <2> QED BY <1>1, <2>1, <2>2, <2>3, <2>4, <2>5 DEF Application
<1>2. CASE Timers
  <2>1. CASE RetryTimerFires
    BY <1>o, <2>1 DEF RetryTimerFires, Again
  <2>2. CASE AuthTimesOut
    BY <1>d, <2>2 DEF AuthTimesOut
  <2>3. CASE AuthTimerIsLate
    BY <1>s, <2>3 DEF AuthTimerIsLate, publisher
  <2> QED BY <1>2, <2>1, <2>2, <2>3 DEF Timers
<1>3. CASE Dispatch
  <2>1. CASE HelloAccepted \/ AuthHolds
    BY <2>1 DEF HelloAccepted, AuthHolds
  <2>2. CASE HelloRefused \/ AuthFails \/ Goodbye
    BY <1>d, <2>2 DEF HelloRefused, AuthFails, Goodbye, ScheduleRetry
  <2>3. CASE StateIsHeld \/ StateIsShown \/ IgnoresLine
    BY <1>s, <2>3 DEF StateIsHeld, StateIsShown, IgnoresLine
  <2> QED BY <1>3, <2>1, <2>2, <2>3 DEF Dispatch
<1>4. ASSUME NEW c \in Conns, Task(c) PROVE WatchInv'
  <2>1. CASE ConnectFails(c) \/ StreamEnds(c)
    BY <1>d, <2>1 DEF ConnectFails, StreamEnds, ScheduleRetry
  <2>2. CASE Connects(c) \/ ConnectIsLate(c) \/ Read(c) \/ Abandoned(c)
    BY <1>s, <2>2 DEF Connects, ConnectIsLate, Read, Abandoned, publisher
  <2> QED BY <1>4, <2>1, <2>2 DEF Task
<1>5. CASE UNCHANGED vars
  BY <1>s, <1>5 DEF vars, publisher
<1> QED BY <1>1, <1>2, <1>3, <1>4, <1>5 DEF Next

\* A live publisher watches what the window watches, whatever was looked at while
\* the link was down (LinkMachine.swift:35-44, 133-136, 255-268).
THEOREM LivePublisherWatches == Spec => []WatchesAgree
<1>1. WatchInv => WatchesAgree
  BY DEF WatchInv
<1> QED BY <1>1, WatchInit, WatchStep, PTL DEF Spec

-----------------------------------------------------------------------------
(* The ladder.                                                             *)

\* While a connection is tried the counter is already past the failures, unless it
\* has reached the last rung.
LadderInv ==
  /\ attempt \in 0..Doublings /\ failed \in 0..(Doublings + 1)
  /\ state = "idle" => failed = 0
  /\ state = "connecting" => failed <= attempt \/ attempt = Doublings
  /\ LadderClimbs

LEMMA Climbing ==
  ASSUME NEW a \in 0..Doublings, NEW f \in 0..(Doublings + 1)
  PROVE  /\ Least(a + 1, Doublings) \in 0..Doublings
         /\ Least(f + 1, Doublings + 1) \in 0..(Doublings + 1)
         /\ f <= a \/ a = Doublings => a + 1 >= Least(f + 1, Doublings + 1)
         /\ a + 1 >= f => \/ f <= Least(a + 1, Doublings)
                          \/ Least(a + 1, Doublings) = Doublings
BY NoneApart DEF Least

LEMMA AboveGround == \A a \in 0..Doublings : 0 <= a /\ a + 1 >= 0
BY NoneApart

LEMMA LadderInit == Init => LadderInv
BY NoneApart DEF Init, LadderInv, LadderClimbs

LEMMA LadderStep == LadderInv /\ [Next]_vars => LadderInv'
<1> SUFFICES ASSUME LadderInv, [Next]_vars PROVE LadderInv'
  OBVIOUS
<1>t. /\ Doublings \in Nat
      /\ attempt \in 0..Doublings /\ failed \in 0..(Doublings + 1)
  BY NoneApart DEF LadderInv
<1>s. ASSUME UNCHANGED <<state, attempt, failed>> PROVE LadderInv'
  BY <1>s DEF LadderInv, LadderClimbs
<1>d. ASSUME UNCHANGED <<attempt, failed>>,
             state' \notin {"idle", "connecting", "retrying"}
      PROVE  LadderInv'
  BY <1>d DEF LadderInv, LadderClimbs
<1>z. ASSUME attempt' \in {attempt, 0}, failed' = 0 PROVE LadderInv'
  <2>1. attempt' \in 0..Doublings
    <3>1. CASE attempt' = attempt
      BY <1>t, <3>1
    <3>2. CASE attempt' = 0
      BY <1>t, <3>2
    <3> QED BY <1>z, <3>1, <3>2
  <2>3. 0 <= attempt' /\ attempt' + 1 >= 0
    BY <2>1, AboveGround
  <2>2. failed' = 0 /\ 0 \in 0..(Doublings + 1)
    BY <1>t, <1>z
  <2> QED BY <2>1, <2>2, <2>3 DEF LadderInv, LadderClimbs
<1>r. ASSUME ScheduleRetry, attempt' = attempt PROVE LadderInv'
  <2>1. CASE state = "connecting"
    BY <1>r, <1>t, <2>1, Climbing DEF ScheduleRetry, LadderInv, LadderClimbs
  <2>2. CASE state # "connecting"
    BY <1>r, <1>z, <2>2 DEF ScheduleRetry
  <2> QED BY <2>1, <2>2
<1>a. ASSUME Again PROVE LadderInv'
  BY <1>a, <1>t, Climbing DEF Again, LadderInv, LadderClimbs
<1>1. CASE Application
  <2>1. CASE Start
    BY <1>z, <2>1 DEF Start, LadderInv
  <2>2. CASE Stop \/ Relaunch
    BY <1>z, <2>2 DEF Stop, Relaunch
  <2>3. CASE Nudge \/ RetryByHand \/ ForgetAndRetry
    BY <1>a, <1>z, <2>3 DEF Nudge, RetryByHand, ForgetAndRetry, ByHand
  <2>4. CASE ForgetOnly \/ WatchNothing
    BY <1>s, <2>4 DEF ForgetOnly, WatchNothing
  <2>5. ASSUME NEW t \in Tunnels, Watch(t) PROVE LadderInv'
    BY <1>s, <2>5 DEF Watch
  <2> QED BY <1>1, <2>1, <2>2, <2>3, <2>4, <2>5 DEF Application
<1>2. CASE Timers
  <2>1. CASE RetryTimerFires
    BY <1>a, <2>1 DEF RetryTimerFires
  <2>2. CASE AuthTimesOut
    BY <1>d, <2>2 DEF AuthTimesOut
  <2>3. CASE AuthTimerIsLate
    BY <1>s, <2>3 DEF AuthTimerIsLate
  <2> QED BY <1>2, <2>1, <2>2, <2>3 DEF Timers
<1>3. CASE Dispatch
  <2>1. CASE HelloAccepted
    BY <1>z, <2>1 DEF HelloAccepted
  <2>2. CASE HelloRefused \/ AuthHolds \/ AuthFails
    BY <1>d, <2>2 DEF HelloRefused, AuthHolds, AuthFails
  <2>3. CASE StateIsHeld \/ StateIsShown \/ IgnoresLine
    BY <1>s, <2>3 DEF StateIsHeld, StateIsShown, IgnoresLine
  <2>4. CASE Goodbye
    BY <1>r, <2>4 DEF Goodbye
  <2> QED BY <1>3, <2>1, <2>2, <2>3, <2>4 DEF Dispatch
<1>4. ASSUME NEW c \in Conns, Task(c) PROVE LadderInv'
  <2>1. CASE ConnectFails(c) \/ StreamEnds(c)
    BY <1>r, <2>1 DEF ConnectFails, StreamEnds
  <2>2. CASE Connects(c) \/ ConnectIsLate(c) \/ Read(c) \/ Abandoned(c)
    BY <1>s, <2>2 DEF Connects, ConnectIsLate, Read, Abandoned
  <2> QED BY <1>4, <2>1, <2>2 DEF Task
<1>5. CASE UNCHANGED vars
  BY <1>s, <1>5 DEF vars
<1> QED BY <1>1, <1>2, <1>3, <1>4, <1>5 DEF Next

\* However many rungs the ladder has, connections in a row that fail, or are closed
\* before a hello was accepted, make the next retry wait longer.  It is not said of
\* those that follow an accepted hello, which starts the ladder again whether a
\* proof comes or not (LinkMachine.swift:28-33, 180).
THEOREM RetriesSlowDown == Spec => []LadderClimbs
<1>1. LadderInv => LadderClimbs
  BY DEF LadderInv
<1> QED BY <1>1, LadderInit, LadderStep, PTL DEF Spec

-----------------------------------------------------------------------------
(* The shape of the state.  The boolean variables have lemmas of their own. *)

States == {"idle", "connecting", "proving", "live", "retrying", "blocked",
           "unproven"}

\* What TypeOK says of the keys, the views and the tunnels.
ValueShape ==
  /\ state \in States
  /\ {offered, pinned, store} \subseteq Keys \cup {None} /\ trusted \subseteq Keys
  /\ {pending, snapshot} \subseteq View \cup {NoView}
  /\ watching \subseteq Tunnels /\ told \subseteq Tunnels
  /\ chunk \in Seq(Line) /\ arrived \in Nat
  /\ signed \in [Conns -> Keys \cup {None}]

FlagShape == sawState \in BOOLEAN /\ greeted \in BOOLEAN

LEMMA Lines ==
  ASSUME NEW line \in Line
  PROVE  /\ line.type = "hello" => line.key \in Keys \cup {None}
         /\ line.type = "auth" => line.by \in Keys
BY DEF Line

LEMMA LineTaken ==
  ASSUME chunk \in Seq(Line), NEW type, Takes(type)
  PROVE  /\ chunk' \in Seq(Line) /\ Head(chunk) \in Line
         /\ Head(chunk).type = type
<1>1. chunk # <<>> /\ chunk' = Tail(chunk) /\ Head(chunk).type = type
  BY DEF Takes, Free
<1>2. Head(chunk) \in Line /\ Tail(chunk) \in Seq(Line)
  BY <1>1, HeadTailProperties
<1> QED BY <1>1, <1>2

LEMMA ValueInit == Init => ValueShape
BY NoneApart DEF Init, ValueShape, States, View, NoView

LEMMA ValueStep == ServedInv /\ KeyInv /\ ValueShape /\ [Next]_vars => ValueShape'
<1> SUFFICES ASSUME ServedInv, KeyInv, ValueShape, [Next]_vars PROVE ValueShape'
  OBVIOUS
<1> USE DEF ValueShape, keyring, shown
<1>c. CloseConnection => told' \subseteq Tunnels /\ arrived' \in Nat
  BY DEF CloseConnection, NewPublisher
<1>o. OpenConnection => /\ told' \subseteq Tunnels /\ arrived' \in Nat
                        /\ signed' \in [Conns -> Keys \cup {None}]
  BY DEF OpenConnection, NewPublisher
<1>a. Again \/ ByHand => state' = "connecting" /\ OpenConnection
                         /\ UNCHANGED <<watching, shown, chunk>>
  BY DEF Again, ByHand
<1>1. CASE Application
  <2>1. CASE Start
    BY <1>o, <2>1 DEF Start, States
  <2>2. CASE Stop
    BY <1>c, <2>2 DEF Stop, States
  <2>3. CASE Nudge \/ RetryByHand
    BY <1>a, <1>o, <2>3 DEF Nudge, RetryByHand, States
  <2>4. CASE ForgetAndRetry
    BY <1>a, <1>o, <2>4 DEF ForgetAndRetry, Forget, States
  <2>5. CASE ForgetOnly
    BY <2>5 DEF ForgetOnly, Forget, publisher
  <2>6. CASE WatchNothing
    BY <2>6 DEF WatchNothing
  <2>7. CASE Relaunch
    <3>1. chunk' \in Seq(Line) /\ signed' \in [Conns -> Keys \cup {None}]
      BY <2>7 DEF Relaunch
    <3> QED BY <2>7, <3>1 DEF Relaunch, NewPublisher, States
  <2>8. ASSUME NEW t \in Tunnels, Watch(t) PROVE ValueShape'
    BY <2>8 DEF Watch
  <2> QED BY <1>1, <2>1, <2>2, <2>3, <2>4, <2>5, <2>6, <2>7, <2>8 DEF Application
<1>2. CASE Timers
  <2>1. CASE RetryTimerFires
    BY <1>a, <1>o, <2>1 DEF RetryTimerFires, States
  <2>2. CASE AuthTimesOut
    BY <1>c, <2>2 DEF AuthTimesOut, States
  <2>3. CASE AuthTimerIsLate
    BY <2>3 DEF AuthTimerIsLate, publisher
  <2> QED BY <1>2, <2>1, <2>2, <2>3 DEF Timers
<1>3. CASE Dispatch
  <2>0. \A type : Takes(type) => /\ chunk' \in Seq(Line) /\ Head(chunk) \in Line
                                 /\ Head(chunk).type = type
    BY LineTaken
  <2>a. \A type : Arrives(type) => arrived' \in Nat
    BY DEF Arrives
  <2>v. state \in Up => Carried \in View
    BY NoneApart DEF Carried, View, ServedInv, TaskShape, LinkIsServed, Up
  <2>1. CASE HelloAccepted
    BY <2>0, <2>a, <2>1, Lines DEF HelloAccepted, States
  <2>2. CASE HelloRefused
    BY <1>c, <2>0, <2>2, Lines DEF HelloRefused, States
  <2>3. CASE AuthHolds
    <3>1. Head(chunk).by \in Keys
      BY <2>0, <2>3, Lines DEF AuthHolds
    <3>2. signed' \in [Conns -> Keys \cup {None}] /\ trusted' \subseteq Keys
      BY <2>3, <3>1 DEF AuthHolds, Sign
    <3>3. {pending', snapshot'} \subseteq View \cup {NoView}
      BY <2>3 DEF AuthHolds, Show
    <3> QED BY <2>0, <2>3, <3>2, <3>3 DEF AuthHolds, States
  <2>4. CASE AuthFails
    <3>1. Head(chunk).by \in Keys
      BY <2>0, <2>4, Lines DEF AuthFails
    <3>2. signed' \in [Conns -> Keys \cup {None}]
      BY <2>4, <3>1 DEF AuthFails, Sign
    <3> QED BY <1>c, <2>0, <2>4, <3>2 DEF AuthFails, States
  <2>5. CASE StateIsHeld
    BY <2>0, <2>a, <2>v, <2>5 DEF StateIsHeld, Up
  <2>6. CASE StateIsShown
    BY <2>0, <2>a, <2>v, <2>6 DEF StateIsShown, Show, Up
  <2>7. CASE Goodbye
    BY <1>c, <2>0, <2>7 DEF Goodbye, ScheduleRetry, States
  <2>8. CASE IgnoresLine
    BY <2>0, <2>a, <2>8 DEF IgnoresLine
  <2> QED BY <1>3, <2>1, <2>2, <2>3, <2>4, <2>5, <2>6, <2>7, <2>8 DEF Dispatch
<1>4. ASSUME NEW c \in Conns, Task(c) PROVE ValueShape'
  <2>1. CASE ConnectFails(c) \/ StreamEnds(c)
    BY <2>1 DEF ConnectFails, StreamEnds, ScheduleRetry, publisher, States
  <2>2. CASE Read(c)
    <3>1. PICK n \in 1..MaxChunk : chunk' \in [1..n -> Line]
      BY <2>2 DEF Read
    <3>2. chunk' \in Seq(Line)
      BY <3>1, NoneApart
    <3> QED BY <2>2, <3>2 DEF Read, publisher
  <2>3. CASE Connects(c) \/ ConnectIsLate(c) \/ Abandoned(c)
    BY <2>3 DEF Connects, ConnectIsLate, Abandoned, publisher
  <2> QED BY <1>4, <2>1, <2>2, <2>3 DEF Task
<1>5. CASE UNCHANGED vars
  BY <1>5 DEF vars, publisher
<1> QED BY <1>1, <1>2, <1>3, <1>4, <1>5 DEF Next

LEMMA FlagInit == Init => FlagShape
BY DEF Init, FlagShape

LEMMA FlagStep == FlagShape /\ [Next]_vars => FlagShape'
<1> SUFFICES ASSUME FlagShape, [Next]_vars PROVE FlagShape'
  OBVIOUS
<1>u. ASSUME UNCHANGED <<sawState, greeted>> PROVE FlagShape'
  BY <1>u DEF FlagShape
<1>p. ASSUME sawState' = sawState, NewPublisher PROVE FlagShape'
  BY <1>p DEF FlagShape, NewPublisher
<1>a. ASSUME NEW type, Arrives(type), sawState' \in {sawState, TRUE} PROVE FlagShape'
  BY <1>a DEF FlagShape, Arrives
<1>o. OpenConnection \/ CloseConnection => NewPublisher
  BY DEF OpenConnection, CloseConnection
<1>1. CASE Application
  <2>1. CASE Start \/ Stop
    BY <1>o, <1>p, <2>1 DEF Start, Stop, shown
  <2>2. CASE Nudge \/ RetryByHand \/ ForgetAndRetry
    BY <1>o, <1>p, <2>2 DEF Nudge, RetryByHand, ForgetAndRetry, Again, ByHand, shown
  <2>3. CASE ForgetOnly
    BY <1>u, <2>3 DEF ForgetOnly, shown, publisher
  <2>4. CASE WatchNothing
    BY <1>u, <2>4 DEF WatchNothing, shown
  <2>5. CASE Relaunch
    BY <2>5 DEF Relaunch, FlagShape, NewPublisher
  <2>6. ASSUME NEW t \in Tunnels, Watch(t) PROVE FlagShape'
    BY <1>u, <2>6 DEF Watch, shown
  <2> QED BY <1>1, <2>1, <2>2, <2>3, <2>4, <2>5, <2>6 DEF Application
<1>2. CASE Timers
  <2>1. CASE RetryTimerFires \/ AuthTimesOut
    BY <1>o, <1>p, <2>1 DEF RetryTimerFires, Again, AuthTimesOut, shown
  <2>2. CASE AuthTimerIsLate
    BY <1>u, <2>2 DEF AuthTimerIsLate, shown, publisher
  <2> QED BY <1>2, <2>1, <2>2 DEF Timers
<1>3. CASE Dispatch
  <2>1. CASE HelloAccepted \/ StateIsHeld
    BY <1>a, <2>1 DEF HelloAccepted, StateIsHeld, shown
  <2>2. CASE HelloRefused \/ AuthFails \/ Goodbye
    BY <1>o, <1>p, <2>2 DEF HelloRefused, AuthFails, Goodbye, shown
  <2>3. CASE AuthHolds
    <3>1. sawState' \in {TRUE, FALSE} /\ greeted' = greeted
      BY <2>3 DEF AuthHolds, Show
    <3> QED BY <3>1 DEF FlagShape
  <2>4. CASE StateIsShown
    BY <1>a, <2>4 DEF StateIsShown, Show
  <2>5. CASE IgnoresLine
    BY <1>a, <2>5 DEF IgnoresLine, shown
  <2> QED BY <1>3, <2>1, <2>2, <2>3, <2>4, <2>5 DEF Dispatch
<1>4. ASSUME NEW c \in Conns, Task(c) PROVE FlagShape'
  <2>1. CASE ConnectFails(c) \/ StreamEnds(c)
    BY <1>u, <2>1 DEF ConnectFails, StreamEnds, shown, publisher
  <2>2. CASE Connects(c) \/ ConnectIsLate(c) \/ Read(c) \/ Abandoned(c)
    BY <1>u, <2>2 DEF Connects, ConnectIsLate, Read, Abandoned, shown, publisher
  <2> QED BY <1>4, <2>1, <2>2 DEF Task
<1>5. CASE UNCHANGED vars
  BY <1>u, <1>5 DEF vars, shown, publisher
<1> QED BY <1>1, <1>2, <1>3, <1>4, <1>5 DEF Next

\* The state keeps its shape, and nobody is asked for a proof, or shown, who has
\* offered no key (LinkMachine.swift:173-184).
THEOREM LinkTypeCorrect == Spec => []TypeOK
<1>1. ServedInv /\ KeyInv /\ LadderInv /\ TimersInv /\ ValueShape /\ FlagShape => TypeOK
  BY DEF ServedInv, TaskShape, KeyInv, LadderInv, TimersInv, ValueShape, FlagShape,
         States, TypeOK
<1> QED BY <1>1, Served, Keyed, LadderInit, LadderStep, TimersInit, TimersStep,
           ValueInit, ValueStep, FlagInit, FlagStep, PTL DEF Spec

-----------------------------------------------------------------------------
(* What is shown.                                                          *)

\* A view that came before the proof is held, and a publisher that has not said
\* hello has said nothing that counts.
ShowInv ==
  /\ arrived \in Nat
  /\ state = "connecting" => greeted = FALSE /\ arrived = 0
  /\ state \in {"proving", "live"} => greeted = TRUE
  /\ state = "proving" /\ arrived > 0
       => pending = [from |-> current, nth |-> arrived]
  /\ state = "live" /\ arrived > 0
       => sawState = TRUE /\ snapshot = [from |-> current, nth |-> arrived]

LEMMA ShowInit == Init => ShowInv
BY DEF Init, ShowInv

LEMMA ShowStep == ServedInv /\ ShowInv /\ [Next]_vars => ShowInv'
<1> SUFFICES ASSUME ServedInv, ShowInv, [Next]_vars PROVE ShowInv'
  OBVIOUS
<1>u. ASSUME UNCHANGED <<state, shown, current, publisher>> PROVE ShowInv'
  BY <1>u DEF ShowInv, shown, publisher
<1>d. ASSUME state' \notin Up, arrived' \in {arrived, 0} PROVE ShowInv'
  BY <1>d DEF ShowInv, Up
<1>o. ASSUME OpenConnection, state' = "connecting" PROVE ShowInv'
  BY <1>o DEF ShowInv, OpenConnection, NewPublisher
<1>c. CloseConnection => arrived' = 0
  BY DEF CloseConnection, NewPublisher
<1>n. state \in Up => current \in Conns
  BY NoneApart DEF ServedInv, TaskShape, LinkIsServed, Up
<1>1. CASE Application
  <2>1. CASE Start \/ Nudge \/ RetryByHand \/ ForgetAndRetry
    BY <1>o, <2>1 DEF Start, Nudge, RetryByHand, ForgetAndRetry, Again, ByHand
  <2>2. CASE Stop \/ Relaunch
    BY <1>d, <1>c, <2>2 DEF Stop, Relaunch, NewPublisher, Up
  <2>3. CASE ForgetOnly
    BY <1>u, <2>3 DEF ForgetOnly, tasks
  <2>4. CASE WatchNothing
    BY <2>4 DEF WatchNothing, ShowInv, shown, tasks
  <2>5. ASSUME NEW t \in Tunnels, Watch(t) PROVE ShowInv'
    BY <2>5 DEF Watch, ShowInv, shown, tasks
  <2> QED BY <1>1, <2>1, <2>2, <2>3, <2>4, <2>5 DEF Application
<1>2. CASE Timers
  <2>1. CASE RetryTimerFires
    BY <1>o, <2>1 DEF RetryTimerFires, Again
  <2>2. CASE AuthTimesOut
    BY <1>d, <1>c, <2>2 DEF AuthTimesOut, Up
  <2>3. CASE AuthTimerIsLate
    BY <1>u, <2>3 DEF AuthTimerIsLate, tasks
  <2> QED BY <1>2, <2>1, <2>2, <2>3 DEF Timers
<1>3. CASE Dispatch
  <2>1. CASE HelloAccepted
    <3>1. /\ state = "connecting" /\ state' = "proving"
          /\ greeted' = TRUE /\ arrived' = arrived
      BY <2>1 DEF HelloAccepted, Arrives
    <3> QED BY <3>1 DEF ShowInv
  <2>2. CASE HelloRefused \/ AuthFails \/ Goodbye
    BY <1>d, <1>c, <2>2 DEF HelloRefused, AuthFails, Goodbye, ScheduleRetry, Up
  <2>3. CASE AuthHolds
    <3>1. /\ state = "proving" /\ state' = "live"
          /\ UNCHANGED <<current, greeted, arrived>>
      BY <2>3 DEF AuthHolds, tasks
    <3>2. CASE arrived > 0
      <4>1. pending # NoView /\ pending = [from |-> current, nth |-> arrived]
        BY <1>n, <3>1, <3>2, NoneApart DEF ShowInv, NoView, Up
      <4>2. snapshot' = pending /\ sawState' = TRUE
        BY <2>3, <4>1 DEF AuthHolds, Show
      <4> QED BY <3>1, <4>1, <4>2 DEF ShowInv
    <3> QED BY <3>1, <3>2 DEF ShowInv
  <2>4. CASE StateIsHeld
    <3>1. /\ state = "proving" /\ state' = state /\ current' = current
          /\ pending' = [from |-> current, nth |-> arrived + 1]
      BY <2>4 DEF StateIsHeld, Carried, tasks
    <3>2. greeted' = TRUE /\ arrived' = arrived + 1
      BY <2>4, <3>1 DEF StateIsHeld, Arrives, ShowInv
    <3> QED BY <3>1, <3>2 DEF ShowInv
  <2>5. CASE StateIsShown
    <3>1. /\ state = "live" /\ state' = state /\ current' = current
          /\ snapshot' = [from |-> current, nth |-> arrived + 1]
          /\ sawState' = TRUE
      BY <2>5 DEF StateIsShown, Show, Carried, tasks
    <3>2. greeted' = TRUE /\ arrived' = arrived + 1
      BY <2>5, <3>1 DEF StateIsShown, Arrives, ShowInv
    <3> QED BY <3>1, <3>2 DEF ShowInv
  <2>6. CASE IgnoresLine
    <3>1. /\ UNCHANGED <<state, shown, current>>
          /\ state \in Up => \E type \in {"hello", "auth", "state", "bye"} \ Expected :
                              Arrives(type)
      BY <2>6 DEF IgnoresLine, tasks
    <3>2. CASE state = "connecting"
      <4>1. \E type \in {"auth", "state", "bye"} : Arrives(type)
        BY <3>1, <3>2 DEF Expected, Up
      <4>2. greeted' = FALSE /\ arrived' = 0
        BY <3>2, <4>1 DEF Arrives, ShowInv
      <4> QED BY <3>1, <3>2, <4>2 DEF ShowInv, shown
    <3>3. CASE state \in {"proving", "live"}
      <4>1. \E type \in {"hello", "auth", "bye"} : Arrives(type)
        BY <3>1, <3>3 DEF Expected, Up
      <4>2. greeted' = TRUE /\ arrived' = arrived
        BY <3>3, <4>1 DEF Arrives, ShowInv
      <4> QED BY <3>1, <3>3, <4>2 DEF ShowInv, shown
    <3>4. CASE state \notin Up
      <4>1. arrived' \in Nat
        BY <2>6 DEF IgnoresLine, Arrives, ShowInv
      <4> QED BY <3>1, <3>4, <4>1 DEF ShowInv, Up
    <3> QED BY <3>2, <3>3, <3>4 DEF Up
  <2> QED BY <1>3, <2>1, <2>2, <2>3, <2>4, <2>5, <2>6 DEF Dispatch
<1>4. ASSUME NEW c \in Conns, Task(c) PROVE ShowInv'
  <2>1. CASE ConnectFails(c) \/ StreamEnds(c)
    BY <1>d, <2>1 DEF ConnectFails, StreamEnds, ScheduleRetry, publisher, Up
  <2>2. CASE Connects(c) \/ ConnectIsLate(c) \/ Read(c) \/ Abandoned(c)
    BY <1>u, <2>2 DEF Connects, ConnectIsLate, Read, Abandoned, tasks
  <2> QED BY <1>4, <2>1, <2>2 DEF Task
<1>5. CASE UNCHANGED vars
  BY <1>u, <1>5 DEF vars, tasks
<1> QED BY <1>1, <1>2, <1>3, <1>4, <1>5 DEF Next

\* However many views a publisher says, before its proof or after, a live one is
\* shown as it last described itself (LinkMachine.swift:68-71, 137-140, 196-198).
THEOREM LatestIsShown == Spec => []ShowsTheLatest
<1>1. ShowInv => ShowsTheLatest
  BY DEF ShowInv, ShowsTheLatest
<1> QED BY <1>1, ShowInit, ShowStep, Served, PTL DEF Spec

-----------------------------------------------------------------------------
(* What the link comes to, FeedTrust.                                      *)

\* Nothing on display or held back is of a connection that has said nothing: with
\* less, its first view could follow one that was numbered later.
FreshInv == state \in Up /\ arrived = 0 => current \notin {snapshot.from, pending.from}

LEMMA FreshInit == Init => FreshInv
BY DEF Init, FreshInv, Up

LEMMA FreshStep == ServedInv /\ ShowInv /\ FreshInv /\ [Next]_vars => FreshInv'
<1> SUFFICES ASSUME ServedInv, ShowInv, FreshInv, [Next]_vars PROVE FreshInv'
  OBVIOUS
<1>u. ASSUME UNCHANGED <<state, shown, current>>, arrived' \in {arrived, arrived + 1} PROVE FreshInv'
  BY <1>u DEF FreshInv, ShowInv, shown
<1>d. ASSUME state' \notin Up PROVE FreshInv'
  BY <1>d DEF FreshInv
<1>o. ASSUME OpenConnection, UNCHANGED shown PROVE FreshInv'
  BY <1>o DEF OpenConnection, FreshInv, shown
<1>n. state \in Up => current \in Conns
  BY NoneApart DEF ServedInv, TaskShape, LinkIsServed, Up
<1>1. CASE Application
  <2>1. CASE Start \/ Nudge \/ RetryByHand \/ ForgetAndRetry
    BY <1>o, <2>1 DEF Start, Nudge, RetryByHand, ForgetAndRetry, Again, ByHand
  <2>2. CASE Stop \/ Relaunch
    BY <1>d, <2>2 DEF Stop, Relaunch, Up
  <2>3. CASE ForgetOnly \/ WatchNothing
    BY <1>u, <2>3 DEF ForgetOnly, WatchNothing, tasks, publisher
  <2>4. ASSUME NEW t \in Tunnels, Watch(t) PROVE FreshInv'
    BY <1>u, <2>4 DEF Watch, tasks
  <2> QED BY <1>1, <2>1, <2>2, <2>3, <2>4 DEF Application
<1>2. CASE Timers
  <2>1. CASE RetryTimerFires
    BY <1>o, <2>1 DEF RetryTimerFires, Again
  <2>2. CASE AuthTimesOut
    BY <1>d, <2>2 DEF AuthTimesOut, Up
  <2>3. CASE AuthTimerIsLate
    BY <1>u, <2>3 DEF AuthTimerIsLate, tasks, publisher
  <2> QED BY <1>2, <2>1, <2>2, <2>3 DEF Timers
<1>3. CASE Dispatch
  <2>1. CASE HelloAccepted
    <3>1. UNCHANGED <<shown, current>> /\ state = "connecting" /\ arrived' = arrived
      BY <2>1 DEF HelloAccepted, Arrives, tasks
    <3> QED BY <3>1 DEF FreshInv, shown, Up
  <2>2. CASE HelloRefused \/ AuthFails \/ Goodbye
    BY <1>d, <2>2 DEF HelloRefused, AuthFails, Goodbye, ScheduleRetry, Up
  <2>3. CASE AuthHolds
    <3>1. /\ state = "proving" /\ current' = current /\ arrived' = arrived
          /\ pending' = NoView /\ snapshot' \in {snapshot, pending}
      BY <2>3 DEF AuthHolds, Show, tasks
    <3>2. current \in Conns /\ NoView.from = None
      BY <1>n, <3>1 DEF Up, NoView
    <3> QED BY <3>1, <3>2, NoneApart DEF FreshInv, Up
  <2>4. CASE StateIsHeld \/ StateIsShown
    <3>1. arrived' = arrived + 1 /\ arrived \in Nat
      BY <2>4 DEF StateIsHeld, StateIsShown, Arrives, ShowInv
    <3> QED BY <3>1 DEF FreshInv
  <2>5. CASE IgnoresLine
    BY <1>u, <2>5 DEF IgnoresLine, Arrives, tasks
  <2> QED BY <1>3, <2>1, <2>2, <2>3, <2>4, <2>5 DEF Dispatch
<1>4. ASSUME NEW c \in Conns, Task(c) PROVE FreshInv'
  <2>1. CASE ConnectFails(c) \/ StreamEnds(c)
    BY <1>d, <2>1 DEF ConnectFails, StreamEnds, ScheduleRetry, Up
  <2>2. CASE Connects(c) \/ ConnectIsLate(c) \/ Read(c) \/ Abandoned(c)
    BY <1>u, <2>2 DEF Connects, ConnectIsLate, Read, Abandoned, tasks, publisher
  <2> QED BY <1>4, <2>1, <2>2 DEF Task
<1>5. CASE UNCHANGED vars
  BY <1>u, <1>5 DEF vars, tasks, publisher
<1> QED BY <1>1, <1>2, <1>3, <1>4, <1>5 DEF Next

\* A step after which nobody has become live, and that shows what was shown.
LEMMA NobodyNew ==
  ASSUME UNCHANGED <<pinned, snapshot>>,
         state' # "live" \/ UNCHANGED <<state, current, signed>>, ServedInv
  PROVE  [Trust!Next]_Trust!trust
<1>1. state = "live" => current # None
  BY DEF ServedInv, LinkIsServed
<1> QED BY <1>1 DEF Trust!Next, Trust!Lose, Trust!trust

LEMMA TrustStep ==
  ServedInv /\ KeyInv /\ ValueShape /\ ShowInv /\ FreshInv /\ [Next]_vars
    => [Trust!Next]_Trust!trust
<1> SUFFICES ASSUME ServedInv, KeyInv, ValueShape, ShowInv, FreshInv, [Next]_vars
             PROVE  [Trust!Next]_Trust!trust
  OBVIOUS
<1>n. state \in Up => current \in Conns /\ current # None
  BY NoneApart DEF ServedInv, TaskShape, LinkIsServed, Up
<1>v. Trust!View = View /\ Trust!NoView = NoView
  BY DEF Trust!View, View, Trust!NoView, NoView
<1>f. ASSUME Forget, snapshot' = snapshot,
             (state # "live" /\ state' # "live") \/ UNCHANGED <<state, current, signed>>
      PROVE  [Trust!Next]_Trust!trust
  BY <1>f DEF Forget, Trust!Next, Trust!Forget, Trust!trust
<1>1. CASE Application
  <2>1. CASE Start \/ Stop \/ Nudge \/ RetryByHand
    BY <2>1, NobodyNew DEF Start, Stop, Nudge, RetryByHand, Again, ByHand, keyring, shown
  <2>2. CASE ForgetAndRetry
    BY <1>f, <2>2 DEF ForgetAndRetry, Again, ByHand, shown
  <2>3. CASE ForgetOnly
    BY <1>f, <2>3 DEF ForgetOnly, tasks, shown
  <2>4. CASE WatchNothing
    BY <2>4, NobodyNew DEF WatchNothing, tasks, keyring, shown
  <2>5. CASE Relaunch
    BY <1>v, <2>5 DEF Relaunch, KeyInv, Trust!Next, Trust!Relaunch
  <2>6. ASSUME NEW t \in Tunnels, Watch(t) PROVE [Trust!Next]_Trust!trust
    BY <2>6, NobodyNew DEF Watch, tasks, keyring, shown
  <2> QED BY <1>1, <2>1, <2>2, <2>3, <2>4, <2>5, <2>6 DEF Application
<1>2. CASE Timers
  BY <1>2, NobodyNew DEF Timers, RetryTimerFires, Again, AuthTimesOut, AuthTimerIsLate, tasks, keyring, shown
<1>3. CASE Dispatch
  <2>1. CASE HelloAccepted \/ HelloRefused \/ AuthFails \/ Goodbye
    BY <2>1, NobodyNew DEF HelloAccepted, HelloRefused, AuthFails, Goodbye, ScheduleRetry, keyring, shown
  <2>2. CASE AuthHolds
    <3> DEFINE k == IF pinned = None THEN offered ELSE pinned
    <3>1. /\ state = "proving" /\ state' = "live" /\ current' = current /\ current \in Conns
          /\ pinned' = k /\ signed' = [signed EXCEPT ![current] = k]
      BY <1>n, <2>2 DEF AuthHolds, Holds, Sign, tasks, Up
    <3>2. k \in Keys /\ pinned \in {None, k}
      BY <3>1 DEF KeyInv, ValueShape
    <3>3. signed'[current] = k
      BY <3>1 DEF KeyInv
    <3>4. snapshot' \in View \cup {snapshot}
      BY <2>2 DEF AuthHolds, Show, ValueShape
    <3>5. Trust!Trust
      BY <1>v, <3>1, <3>2, <3>3, <3>4 DEF Trust!Trust
    <3> QED BY <3>5 DEF Trust!Next
  <2>3. CASE StateIsHeld \/ IgnoresLine
    BY <2>3, NobodyNew DEF StateIsHeld, IgnoresLine, tasks, keyring, shown
  <2>4. CASE StateIsShown
    <3>1. /\ state = "live" /\ UNCHANGED <<state, current, pinned, signed>>
          /\ snapshot' = [from |-> current, nth |-> arrived + 1]
      BY <2>4 DEF StateIsShown, Show, Carried, tasks, keyring
    <3>2. current \in Conns /\ current # None /\ arrived \in Nat
      BY <1>n, <3>1 DEF ShowInv, Up
    <3>3. snapshot.from = current => snapshot.nth < arrived + 1
      <4>1. CASE arrived = 0
        BY <3>1, <4>1 DEF FreshInv, Up
      <4>2. CASE arrived > 0
        BY <3>1, <3>2, <4>2 DEF ShowInv
      <4> QED BY <3>2, <4>1, <4>2
    <3>4. snapshot' \in View
      BY <3>1, <3>2 DEF View
    <3>5. Trust!Show
      BY <1>v, <3>1, <3>2, <3>3, <3>4 DEF Trust!Show
    <3> QED BY <3>5 DEF Trust!Next
  <2> QED BY <1>3, <2>1, <2>2, <2>3, <2>4 DEF Dispatch
<1>4. ASSUME NEW c \in Conns, Task(c) PROVE [Trust!Next]_Trust!trust
  BY <1>4, NobodyNew
     DEF Task, Connects, ConnectFails, ConnectIsLate, Read, StreamEnds, Abandoned, ScheduleRetry,
         tasks, keyring, shown
<1>5. CASE UNCHANGED vars
  BY <1>5, NobodyNew DEF vars, tasks, keyring, shown
<1> QED BY <1>1, <1>2, <1>3, <1>4, <1>5 DEF Next

\* Whatever publishers say and whoever sits at the screen does, the application
\* keeps the ssh bargain: one key is trusted, who is live has proven to hold it on
\* this connection, and the display moves on with its views alone
\* (LinkMachine.swift:106-142, 196-218).
THEOREM LinkKeepsTrust == Spec => KeepsTrust
<1>1. Init => Trust!Init
  BY DEF Init, Trust!Init, Trust!NoView, NoView
<1> QED BY <1>1, TrustStep, Served, Keyed, FreshInit, FreshStep, ValueInit, ValueStep,
           ShowInit, ShowStep, PTL DEF Spec, KeepsTrust, Trust!Spec
=============================================================================
