------------------------------ MODULE FeedLink ------------------------------
(***************************************************************************)
(* The application's end of the feed: LinkMachine decides, FeedSupervisor  *)
(* carries out.                                                            *)
(*                                                                         *)
(* Everything here happens on the main actor: a step is one event together *)
(* with the actions the machine answered it with, or one line of a chunk   *)
(* being read.  Between the lines of a chunk nothing else runs, and nobody *)
(* looks whether the connection is still the one being served.             *)
(*                                                                         *)
(* A connection is named by its number (FeedSupervisor.generation), which  *)
(* is given again once nothing refers to it any more.                      *)
(*                                                                         *)
(* What is abstracted: a view is the connection it came from and its place *)
(* among the views of that connection; a signature is the key that made it *)
(* and whether it answers the nonce of this connection; a delay is the     *)
(* number of doublings behind it.  What a publisher said and nobody has    *)
(* read yet is not kept: a chunk is said when it is read.  Left out, since *)
(* nothing else depends on them: reasons, versions, readings, results of   *)
(* probes, and the requests for a refresh or a probe.  The keychain does   *)
(* what it is told.                                                        *)
(***************************************************************************)
EXTENDS Naturals, Sequences, FiniteSets

CONSTANTS
  Conns,      \* connection numbers
  Keys,       \* publisher keys
  Tunnels,    \* tunnels the window watches
  None,       \* no connection, no key
  Doublings,  \* how often a retry's delay doubles: 8 in ReconnectPolicy
  MaxViews,   \* bound: views said on one connection
  MaxChunk    \* bound: lines of one chunk

ASSUME LinkAssumption ==
  /\ None \notin Conns /\ None \notin Keys
  /\ Doublings \in Nat /\ MaxViews \in Nat /\ MaxChunk \in Nat

VARIABLES
  \* LinkMachine
  state, sawState, attempt, offered, pinned, pending, snapshot, watching,
  \* FeedSupervisor
  current,   \* the connection being served: whose number is `generation`
  held,      \* `connection`
  phase,     \* per connection, how far the task that reads it has got
  retry,     \* whether the retry timer runs
  proof,     \* whether the timer behind the challenge runs
  chunk,     \* lines of the chunk being dispatched
  store,     \* the keychain's entry for this socket
  \* The publisher of the connection being served
  greeted,   \* whether it has said hello
  arrived,   \* how many views it has said since
  told,      \* the tunnels it has been asked to watch and not to unwatch
  \* History
  signed,    \* per connection, the key whose holder answered its challenge
  trusted,   \* keys shown as live since the pin was last forgotten
  failed     \* connects in a row without an accepted hello

keyring   == <<offered, pinned, store, trusted>>
shown     == <<sawState, pending, snapshot>>
publisher == <<greeted, arrived, told>>
tasks     == <<current, held, phase>>
vars == <<state, attempt, failed, watching, keyring, shown, tasks, retry, proof,
          chunk, publisher, signed>>

NoView == [from |-> None, nth |-> 0]
View   == [from : Conns, nth : Nat]

Line ==
  [type : {"hello"}, ours : BOOLEAN, key : Keys \cup {None}]
  \cup [type : {"auth"}, fresh : BOOLEAN, by : Keys]
  \cup [type : {"state", "bye"}]

Init ==
  /\ state = "idle" /\ attempt = 0 /\ watching = {}
  /\ offered = None /\ pinned = None /\ store = None
  /\ sawState = FALSE /\ pending = NoView /\ snapshot = NoView
  /\ current = None /\ held = None /\ phase = [c \in Conns |-> "free"]
  /\ retry = FALSE /\ proof = FALSE /\ chunk = <<>>
  /\ greeted = FALSE /\ arrived = 0 /\ told = {}
  /\ signed = [c \in Conns |-> None] /\ trusted = {} /\ failed = 0

Least(a, b) == IF a < b THEN a ELSE b

\* The main actor is between two events.
Free == chunk = <<>>

-----------------------------------------------------------------------------
(* What the supervisor does for the machine.                               *)

NewPublisher == greeted' = FALSE /\ arrived' = 0 /\ told' = {}

\* The connection held is closed; its task will find out.
Dropped == [c \in Conns |->
  IF c = held /\ phase[c] = "reading" THEN "closing" ELSE phase[c]]

\* perform(.closeConnection).
CloseConnection ==
  /\ phase' = Dropped
  /\ current' = None /\ held' = None
  /\ NewPublisher

\* openConnection: a number nothing refers to any more.
OpenConnection ==
  \E c \in Conns :
    /\ phase[c] = "free" /\ c \notin {snapshot.from, pending.from}
    /\ phase' = [Dropped EXCEPT ![c] = "connecting"]
    /\ current' = c /\ held' = None
    /\ signed' = [d \in Conns |->
         IF d \in {snapshot.from, pending.from} THEN signed[d] ELSE None]
    /\ NewPublisher

\* Mutant: only a link that was up is retried.
ScheduleRetry_IfItWasUp ==
  /\ state' = "retrying" /\ retry' = (state # "connecting")
  /\ failed' = IF state = "connecting" THEN Least(failed + 1, Doublings + 1)
               ELSE 0

\* retry(because:) and perform(.scheduleRetry).
ScheduleRetry ==
  /\ state' = "retrying" /\ retry' = TRUE
  /\ failed' = IF state = "connecting" THEN Least(failed + 1, Doublings + 1)
               ELSE 0

-----------------------------------------------------------------------------
(* Events of the application and its timers.                               *)

Start ==
  /\ Free /\ state = "idle"
  /\ state' = "connecting"
  /\ OpenConnection
  /\ UNCHANGED <<attempt, failed, watching, keyring, shown, retry, proof, chunk>>

Stop ==
  /\ Free /\ state # "idle"
  /\ state' = "idle" /\ retry' = FALSE /\ failed' = 0
  /\ CloseConnection
  /\ UNCHANGED <<attempt, watching, keyring, shown, proof, chunk, signed>>

\* Mutant: the timer is not cancelled when something else retries first.
Again_LeavesTimer ==
  /\ state = "retrying"
  /\ attempt' = Least(attempt + 1, Doublings)
  /\ state' = "connecting"
  /\ OpenConnection
  /\ UNCHANGED <<failed, watching, shown, retry, proof, chunk>>

Again ==
  /\ state = "retrying"
  /\ attempt' = Least(attempt + 1, Doublings)
  /\ state' = "connecting" /\ retry' = FALSE
  /\ OpenConnection
  /\ UNCHANGED <<failed, watching, shown, proof, chunk>>

ByHand ==
  /\ state \in {"blocked", "unproven"}
  /\ attempt' = 0 /\ failed' = 0
  /\ state' = "connecting"
  /\ OpenConnection
  /\ UNCHANGED <<watching, shown, retry, proof, chunk>>

RetryTimerFires == Free /\ retry /\ Again /\ UNCHANGED keyring

\* systemDidWake, menuWillOpen, userAskedToRetry.
Nudge == Free /\ Again /\ UNCHANGED keyring

RetryByHand == Free /\ ByHand /\ UNCHANGED keyring

\* forgetPinnedKey, whose panel may be answered long after the refusal.
Forget ==
  /\ store' = None /\ pinned' = None /\ trusted' = {}
  /\ UNCHANGED offered

ForgetAndRetry == Free /\ Forget /\ (Again \/ ByHand)

ForgetOnly ==
  /\ Free /\ Forget
  /\ state \notin {"retrying", "blocked", "unproven"}
  /\ pinned # None
  /\ UNCHANGED <<state, attempt, failed, watching, shown, tasks, retry, proof,
                 chunk, publisher, signed>>

AuthTimesOut ==
  /\ Free /\ proof /\ state = "proving"
  /\ proof' = FALSE
  /\ state' = "unproven"
  /\ CloseConnection
  /\ UNCHANGED <<attempt, failed, watching, keyring, shown, retry, chunk, signed>>

\* The timer of a connection that ended before it was answered is left running.
AuthTimerIsLate ==
  /\ Free /\ proof /\ state # "proving"
  /\ proof' = FALSE
  /\ UNCHANGED <<state, attempt, failed, watching, keyring, shown, tasks, retry,
                 chunk, publisher, signed>>

Watch(t) ==
  /\ Free /\ t \notin watching
  /\ watching' = watching \cup {t}
  /\ told' = IF state = "live" THEN told \cup {t} ELSE told
  /\ UNCHANGED <<state, attempt, failed, keyring, shown, tasks, retry, proof, chunk,
                 greeted, arrived, signed>>

WatchNothing ==
  /\ Free /\ watching # {}
  /\ watching' = {}
  /\ told' = IF state = "live" THEN told \ watching ELSE told
  /\ UNCHANGED <<state, attempt, failed, keyring, shown, tasks, retry, proof, chunk,
                 greeted, arrived, signed>>

\* The application ends, in whatever way, and is launched again.
Relaunch ==
  /\ state' = "idle" /\ attempt' = 0 /\ failed' = 0 /\ watching' = {}
  /\ offered' = None /\ pinned' = store
  /\ sawState' = FALSE /\ pending' = NoView /\ snapshot' = NoView
  /\ current' = None /\ held' = None /\ phase' = [c \in Conns |-> "free"]
  /\ retry' = FALSE /\ proof' = FALSE /\ chunk' = <<>>
  /\ signed' = [c \in Conns |-> None]
  /\ NewPublisher
  /\ UNCHANGED <<store, trusted>>

-----------------------------------------------------------------------------
(* The task that reads a connection.                                       *)

\* Mutant: a connect that succeeds is enough to start the ladder again.
Connects_Resets(c) ==
  /\ Free /\ phase[c] = "connecting" /\ c = current
  /\ phase' = [phase EXCEPT ![c] = "reading"] /\ held' = c
  /\ attempt' = 0
  /\ UNCHANGED <<state, failed, watching, keyring, shown, current, retry,
                 proof, chunk, publisher, signed>>

Connects(c) ==
  /\ Free /\ phase[c] = "connecting" /\ c = current
  /\ phase' = [phase EXCEPT ![c] = "reading"] /\ held' = c
  /\ UNCHANGED <<state, attempt, failed, watching, keyring, shown, current, retry,
                 proof, chunk, publisher, signed>>

\* connectFailed, publisherNotRoot and streamFailed.
ConnectFails(c) ==
  /\ Free /\ phase[c] = "connecting" /\ c = current
  /\ phase' = [phase EXCEPT ![c] = "free"]
  /\ ScheduleRetry
  /\ UNCHANGED <<attempt, watching, keyring, shown, current, held, proof, chunk,
                 publisher, signed>>

\* Mutant: what was opened for nobody is read.
ConnectIsLate_Kept(c) ==
  /\ Free /\ phase[c] = "connecting" /\ c # current
  /\ phase' = [phase EXCEPT ![c] = "reading"]
  /\ UNCHANGED <<state, attempt, failed, watching, keyring, shown, current, held,
                 retry, proof, chunk, publisher, signed>>

\* The answer to a connect nobody waits for any more: what was opened is closed.
ConnectIsLate(c) ==
  /\ Free /\ phase[c] = "connecting" /\ c # current
  /\ phase' = [phase EXCEPT ![c] = "free"]
  /\ UNCHANGED <<state, attempt, failed, watching, keyring, shown, current, held,
                 retry, proof, chunk, publisher, signed>>

\* One chunk: the lines whole in it.  Nobody answers a challenge before it is sent.
Read(c) ==
  /\ Free /\ phase[c] = "reading" /\ c = current
  /\ \E n \in 1..MaxChunk : \E lines \in [1..n -> Line] :
       /\ chunk' = lines
       /\ arrived + Cardinality({i \in 1..n : lines[i].type = "state"}) <= MaxViews
       /\ \A i \in 1..n :
            lines[i].type = "auth" /\ lines[i].fresh => state = "proving"
  /\ UNCHANGED <<state, attempt, failed, watching, keyring, shown, tasks, retry,
                 proof, publisher, signed>>

\* endOfStream and streamFailed: the publisher closed, was killed, dropped this
\* client, or a read failed.
StreamEnds(c) ==
  /\ Free /\ phase[c] = "reading" /\ c = current
  /\ phase' = [phase EXCEPT ![c] = "free"]
  /\ ScheduleRetry
  /\ UNCHANGED <<attempt, watching, keyring, shown, current, held, proof, chunk,
                 publisher, signed>>

\* Mutant: the end of a connection nobody serves is passed on.
Abandoned_Reported(c) ==
  /\ Free /\ phase[c] = "closing" /\ c # current
  /\ phase' = [phase EXCEPT ![c] = "free"]
  /\ IF state \in {"connecting", "proving", "live"} THEN ScheduleRetry
     ELSE UNCHANGED <<state, retry, failed>>
  /\ UNCHANGED <<attempt, watching, keyring, shown, current, held, proof, chunk,
                 publisher, signed>>

\* What a connection says once its number has moved is not passed on.
Abandoned(c) ==
  /\ Free /\ phase[c] = "closing" /\ c # current
  /\ phase' = [phase EXCEPT ![c] = "free"]
  /\ UNCHANGED <<state, attempt, failed, watching, keyring, shown, current, held,
                 retry, proof, chunk, publisher, signed>>

-----------------------------------------------------------------------------
(* One line.                                                               *)

Takes(type) ==
  /\ ~ Free /\ Head(chunk).type = type
  /\ chunk' = Tail(chunk)

\* What has come from this publisher, whatever is done with it.
Arrives(type) ==
  /\ greeted' = (greeted \/ type = "hello")
  /\ arrived' = IF type = "state" /\ greeted THEN arrived + 1 ELSE arrived

\* Mutants: a hello without a key is asked for a proof all the same; the deadline
\* is forgotten.
HelloAccepted_NoKey ==
  /\ state = "connecting" /\ Takes("hello") /\ Arrives("hello")
  /\ Head(chunk).ours
  /\ offered' = Head(chunk).key
  /\ attempt' = 0 /\ failed' = 0
  /\ state' = "proving" /\ proof' = TRUE
  /\ UNCHANGED <<watching, pinned, store, trusted, shown, tasks, retry, told,
                 signed>>

HelloAccepted_NoDeadline ==
  /\ state = "connecting" /\ Takes("hello") /\ Arrives("hello")
  /\ Head(chunk).ours /\ Head(chunk).key # None
  /\ offered' = Head(chunk).key
  /\ attempt' = 0 /\ failed' = 0
  /\ state' = "proving"
  /\ UNCHANGED <<watching, pinned, store, trusted, shown, tasks, retry, proof, told,
                 signed>>

HelloAccepted ==
  /\ state = "connecting" /\ Takes("hello") /\ Arrives("hello")
  /\ Head(chunk).ours /\ Head(chunk).key # None
  /\ offered' = Head(chunk).key
  /\ attempt' = 0 /\ failed' = 0
  /\ state' = "proving" /\ proof' = TRUE
  /\ UNCHANGED <<watching, pinned, store, trusted, shown, tasks, retry, told,
                 signed>>

\* A schema of another build, or no key to prove.
HelloRefused ==
  /\ state = "connecting" /\ Takes("hello")
  /\ ~ Head(chunk).ours \/ Head(chunk).key = None
  /\ offered' = Head(chunk).key
  /\ state' = IF Head(chunk).ours THEN "unproven" ELSE "blocked"
  /\ CloseConnection
  /\ UNCHANGED <<attempt, failed, watching, pinned, store, trusted, shown, retry,
                 proof, signed>>

\* Mutants: an answer given to another challenge will do; the key is the one the
\* publisher offers.
Holds_Replayed(line) == line.by = IF pinned = None THEN offered ELSE pinned
Holds_AsOffered(line) == line.fresh /\ line.by = offered

\* Verified with the key pinned, and with the one offered only the first time.
Holds(line) == line.fresh /\ line.by = IF pinned = None THEN offered ELSE pinned

Sign(line) ==
  signed' = IF line.fresh THEN [signed EXCEPT ![current] = line.by] ELSE signed

Show(view) == snapshot' = view /\ sawState' = TRUE

\* Mutant: what the window watches is not asked for again.
AuthHolds_NoWatches ==
  /\ state = "proving" /\ Takes("auth") /\ Holds(Head(chunk))
  /\ Sign(Head(chunk))
  /\ state' = "live" /\ proof' = FALSE
  /\ pinned' = IF pinned = None THEN offered ELSE pinned
  /\ store' = IF pinned = None THEN offered ELSE store
  /\ trusted' = trusted \cup {Head(chunk).by}
  /\ pending' = NoView
  /\ IF pending # NoView THEN Show(pending)
     ELSE sawState' = FALSE /\ UNCHANGED snapshot
  /\ UNCHANGED <<attempt, failed, watching, offered, tasks, retry, publisher>>

\* settle, the proof holds: watches are renewed and what was held is shown.
AuthHolds ==
  /\ state = "proving" /\ Takes("auth") /\ Holds(Head(chunk))
  /\ Sign(Head(chunk))
  /\ state' = "live" /\ proof' = FALSE
  /\ pinned' = IF pinned = None THEN offered ELSE pinned
  /\ store' = IF pinned = None THEN offered ELSE store
  /\ trusted' = trusted \cup {Head(chunk).by}
  /\ told' = told \cup watching
  /\ pending' = NoView
  /\ IF pending # NoView THEN Show(pending)
     ELSE sawState' = FALSE /\ UNCHANGED snapshot
  /\ UNCHANGED <<attempt, failed, watching, offered, tasks, retry, greeted,
                 arrived>>

AuthFails ==
  /\ state = "proving" /\ Takes("auth") /\ ~ Holds(Head(chunk))
  /\ Sign(Head(chunk))
  /\ state' = "unproven" /\ proof' = FALSE
  /\ CloseConnection
  /\ UNCHANGED <<attempt, failed, watching, keyring, shown, retry>>

\* The view a state line carries.
Carried == [from |-> current, nth |-> arrived + 1]

\* Mutant: what comes before the proof is thrown away.
StateIsHeld_Dropped ==
  /\ state = "proving" /\ Takes("state") /\ Arrives("state")
  /\ UNCHANGED <<state, attempt, failed, watching, keyring, shown, tasks, retry,
                 proof, told, signed>>

StateIsHeld ==
  /\ state = "proving" /\ Takes("state") /\ Arrives("state")
  /\ pending' = Carried
  /\ UNCHANGED <<state, attempt, failed, watching, keyring, sawState, snapshot,
                 tasks, retry, proof, told, signed>>

StateIsShown ==
  /\ state = "live" /\ Takes("state") /\ Arrives("state")
  /\ Show(Carried)
  /\ UNCHANGED <<state, attempt, failed, watching, keyring, pending, tasks, retry,
                 proof, told, signed>>

Goodbye ==
  /\ state = "live" /\ Takes("bye")
  /\ CloseConnection
  /\ ScheduleRetry
  /\ UNCHANGED <<attempt, watching, keyring, shown, proof, signed>>

\* The lines each state has a use for.
Expected ==
  CASE state = "connecting" -> {"hello"}
    [] state = "proving"    -> {"auth", "state"}
    [] state = "live"       -> {"state", "bye"}
    [] OTHER                -> {}

IgnoresLine ==
  /\ \E type \in {"hello", "auth", "state", "bye"} \ Expected :
       Takes(type) /\ Arrives(type)
  /\ UNCHANGED <<state, attempt, failed, watching, keyring, shown, tasks, retry,
                 proof, told, signed>>

-----------------------------------------------------------------------------
Application ==
  \/ Start \/ Stop \/ Nudge \/ RetryByHand \/ ForgetAndRetry \/ ForgetOnly
  \/ WatchNothing \/ Relaunch
  \/ \E t \in Tunnels : Watch(t)

Timers == RetryTimerFires \/ AuthTimesOut \/ AuthTimerIsLate

Task(c) ==
  \/ Connects(c) \/ ConnectFails(c) \/ ConnectIsLate(c)
  \/ Read(c) \/ StreamEnds(c) \/ Abandoned(c)

Dispatch ==
  \/ HelloAccepted \/ HelloRefused \/ AuthHolds \/ AuthFails \/ StateIsHeld
  \/ StateIsShown \/ Goodbye \/ IgnoresLine

Next == Application \/ Timers \/ Dispatch \/ \E c \in Conns : Task(c)

Spec == Init /\ [][Next]_vars

\* Timers fire, a connect is answered, and the main actor gets on with what it
\* has: a timer that is due has its turn between two chunks.  Nothing is asked of
\* the publisher, or of whoever sits at the screen.
Fairness ==
  /\ WF_vars(Dispatch) /\ WF_vars(RetryTimerFires) /\ SF_vars(AuthTimesOut)
  /\ \A c \in Conns :
       WF_vars(Connects(c) \/ ConnectFails(c) \/ ConnectIsLate(c) \/ Abandoned(c))

FairSpec == Spec /\ Fairness

-----------------------------------------------------------------------------
(* What the link comes to for somebody who looks at it.                    *)

Trust == INSTANCE FeedTrust WITH
  Peers <- Conns, pin <- pinned, view <- snapshot,
  peer <- IF state = "live" THEN current ELSE None,
  key  <- IF state = "live" THEN signed[current] ELSE None

-----------------------------------------------------------------------------
(* Properties.                                                             *)

\* The shape of the state; and a publisher that is asked for a proof, or shown,
\* has offered a key (LinkMachine.swift:173-184).
TypeOK ==
  /\ state \in {"idle", "connecting", "proving", "live", "retrying", "blocked",
                "unproven"}
  /\ attempt \in 0..Doublings /\ failed \in 0..(Doublings + 1)
  /\ offered \in Keys \cup {None} /\ pinned \in Keys \cup {None}
  /\ state \in {"proving", "live"} => offered # None
  /\ store \in Keys \cup {None} /\ trusted \subseteq Keys
  /\ sawState \in BOOLEAN /\ {pending, snapshot} \subseteq View \cup {NoView}
  /\ watching \subseteq Tunnels /\ told \subseteq Tunnels
  /\ {current, held} \subseteq Conns \cup {None}
  /\ phase \in [Conns -> {"free", "connecting", "reading", "closing"}]
  /\ retry \in BOOLEAN /\ proof \in BOOLEAN /\ chunk \in Seq(Line)
  /\ greeted \in BOOLEAN /\ arrived \in Nat
  /\ signed \in [Conns -> Keys \cup {None}]

\* The machine believes in a link exactly while a task serves one: no state waits
\* for a connection nobody reads, and none is knocked down by the tail of another
\* (FeedSupervisor.swift:26-37, 161-231).
LinkIsServed ==
  /\ state \in {"connecting", "proving", "live"}
       <=> current # None /\ phase[current] # "free"
  /\ state \in {"proving", "live"} => phase[current] = "reading"

\* At most one descriptor is read, and it is the one being served: a connection
\* that arrives too late, or is replaced, is closed (FeedSupervisor.swift:161-199).
OneDescriptor ==
  \A c \in Conns : phase[c] = "reading" => c = held /\ c = current

\* One connection is read, and the machine believes in that one.
OneLink == LinkIsServed /\ OneDescriptor

\* A link that waits to retry has a timer to wake it, nothing retries by itself in
\* any other state, and one that waits for a proof has its deadline
\* (LinkMachine.swift:152-154, 180-193, 270-284, FeedSupervisor.swift:127-152).
TimersFitTheState ==
  /\ retry <=> state = "retrying"
  /\ state = "proving" => proof

\* A publisher is live only if it answered the challenge of this very connection,
\* with the key that is pinned unless the user has just forgotten it
\* (LinkMachine.swift:106-142).
LiveIsProven ==
  state = "live" => signed[current] # None /\ pinned \in {None, signed[current]}

\* Between two times the user forgets the key, across relaunches, everything shown
\* as live holds one and the same key (LinkMachine.swift:106-146,
\* FeedSupervisor.swift:54-55, 82-86, 154-157).
OneKeyUntilForgotten == \A j, k \in trusted : j = k

\* What is shown as live has proven itself on this very connection with the one
\* key that is trusted, across forgetting and relaunches, and what is on display
\* moves on with its views and with nothing else (LinkMachine.swift:106-142,
\* 196-218, FeedSupervisor.swift:54-55, 82-86, 154-157): FeedTrust.
KeepsTrust == Trust!Spec

\* A live publisher watches what the window watches, whatever was looked at while
\* the link was down (LinkMachine.swift:35-44, 133-136, 255-268).
WatchesAgree == state = "live" => told = watching

\* Once a chunk is read, a live publisher is shown as it last described itself,
\* although its first view may have come before its proof (LinkMachine.swift:68-71,
\* 137-140, 196-198, 210-218).
ShowsTheLatest ==
  state = "live" /\ Free /\ arrived > 0
    => sawState /\ snapshot = [from |-> current, nth |-> arrived]

\* Connections that fail, or are closed before a hello was accepted, make the
\* next retry wait longer.  An accepted hello starts again from nothing, whether a
\* proof follows or not (LinkMachine.swift:28-33, 160-164, 180, 206-208, 270-276).
LadderClimbs == state = "retrying" => attempt + 1 >= failed

\* A link that waits to retry does, and a publisher that says anything but its
\* proof does not hold it (FeedSupervisor.swift:143-149, 233-243,
\* LinkMachine.swift:189-201).
WaitsEnd ==
  /\ state = "retrying" ~> state # "retrying"
  /\ state = "proving" ~> state # "proving"
=============================================================================
