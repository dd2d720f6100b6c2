-------------------------------- MODULE Tui --------------------------------
(***************************************************************************)
(* The terminal interface: the flags of the Bubble Tea model, the commands *)
(* that are out, and the batches of wg-quick runs it starts.               *)
(*                                                                         *)
(* Update handles one message at a time; everything else - a read of the   *)
(* system, a probe, a batch, a timer, a publication - runs on a goroutine  *)
(* of its own and comes back in any order.  How rows are made, sorted,     *)
(* selected and drawn is in TunnelView: a view is here the set of tunnels  *)
(* that have a row and the set of those that are not down.                 *)
(***************************************************************************)
EXTENDS Integers, Sequences, FiniteSets

CONSTANTS
    N,              \* the tunnels are 1..N, in the order of the table
    All, Needed,    \* the members of the two groups, as lists
    Keys,           \* the keys somebody presses
    Requests,       \* what feed clients ask: a subset of {"refresh", "ping"}
    MaxRequests,    \* bound: requests waiting in the channel
    MaxBatches,     \* bound: batches running at once
    MaxReads,       \* bound: reads of the system out at once
    HasFeed,        \* whether the feed is on: off is the ordinary case
    OutsideChanges, \* whether something else brings tunnels up and down
    ReadsFail       \* whether a read of the system may fail

Tunnels == 1..N
Batches == 1..MaxBatches
Reads == 1..MaxReads

ASSUME SizeAssumption ==
    N \in Nat \ {0} /\ MaxRequests \in Nat /\ MaxBatches \in Nat /\ MaxReads \in Nat \ {0}
ASSUME GroupsAssumption == All \in Seq(1..N) /\ Needed \in Seq(1..N)
ASSUME SwitchAssumption ==
    HasFeed \in BOOLEAN /\ OutsideChanges \in BOOLEAN /\ ReadsFail \in BOOLEAN

VARIABLES
    up,             \* the machine: the tunnels that are live
    view,           \* Model.view
    inFlight,       \* Model.inFlight: what is happening to each tunnel
    batches,        \* Model.batches
    refreshing,     \* Model.refreshing
    pinging,        \* Model.pinging: a probe round is out
    batch,          \* the RunBatch goroutines: steps, how far, their channel
    read,           \* the refresh commands out
    timer,          \* the tick command is out
    beating,        \* a heartbeat command is out
    listening,      \* a nextRequest command is out
    requests,       \* the channel of the feed's requests
    publishing,     \* the publications not yet made
    feed,           \* what the feed was last given
    doubted         \* history: the last read may have missed a change

screen == <<view, inFlight, pinging>>
work == <<batch, batches>>
reading == <<read, refreshing, doubted>>
asking == <<requests, listening>>
feeding == <<publishing, feed>>
vars == <<up, screen, work, reading, timer, beating, asking, feeding>>

View == [rows : SUBSET Tunnels, live : SUBSET Tunnels]
NoView == [rows |-> {}, live |-> {}]
Step == [at : Nat, tunnel : Tunnels, action : {"up", "down"}]
Event == [phase : {"started", "finished"}, tunnel : Tunnels, action : {"up", "down"}]
NewBatch(steps) == [steps |-> steps, launched |-> {}, over |-> {}, events |-> <<>>]
NoBatch == NewBatch({})
NoRead == [at |-> "idle", seen |-> NoView]

\* What a read of the whole system shows.
Machine == [rows |-> Tunnels, live |-> up]

ReadsOut == {r \in Reads : read[r].at # "idle"}
Live(b) == batch[b].steps # {}

\* busy: what keeps the working indicator moving.
Busy == batches > 0 \/ refreshing

-----------------------------------------------------------------------------
\* Plans: the steps of a list of names, each with its place in the list.  Names
\* the table does not know are skipped.

Plan(names, wanted) ==
    {[at |-> i, tunnel |-> names[i],
      action |-> IF names[i] \in view.live THEN "down" ELSE "up"] :
        i \in {j \in 1..Len(names) : names[j] \in view.rows \cap wanted}}

PlanUp(names) == Plan(names, Tunnels \ view.live)
PlanDown(names) == Plan(names, view.live)

\* The enter key: the checked rows, or the one under the cursor, which are some
\* of the rows in the order of the table.
PlanToggle(wanted) == Plan([i \in Tunnels |-> i], wanted)

\* The s key: tear everything down, or start what is needed, which is the n key.
StopStart == IF view.live # {} THEN PlanDown(All) ELSE PlanUp(Needed)

\* idle: the steps whose tunnel is not being worked on, as far as the
\* interface has heard.
Idle(steps) == {s \in steps : inFlight[s.tunnel] = "none"}

-----------------------------------------------------------------------------
\* newModel, New and Init of the model: a first read, the tick and the next
\* request are asked for; refreshing is not set.
Init ==
    /\ up \in SUBSET Tunnels
    /\ view = NoView /\ inFlight = [t \in Tunnels |-> "none"] /\ pinging = FALSE
    /\ batches = 0 /\ batch = [b \in Batches |-> NoBatch]
    /\ refreshing = FALSE /\ doubted = FALSE
    /\ read = [r \in Reads |-> IF r = 1 THEN [NoRead EXCEPT !.at = "asked"] ELSE NoRead]
    /\ timer = TRUE /\ beating = FALSE
    /\ listening = HasFeed /\ requests = <<>>
    /\ publishing = {} /\ feed = NoView

\* A command that reads the whole system is sent off, in the first free slot.
Refresh ==
    /\ refreshing' = TRUE
    /\ \E r \in Reads :
          /\ read[r].at = "idle" /\ \A q \in 1..(r - 1) : read[q].at # "idle"
          /\ read' = [read EXCEPT ![r] = [NoRead EXCEPT !.at = "asked"]]
    /\ doubted' = (ReadsOut # {})

\* What r, the tick and a request do: nothing while the flag says a read is out.
RefreshUnlessOut ==
    IF refreshing THEN UNCHANGED <<reading, beating>> ELSE Refresh /\ beating' = TRUE

\* Mutant: the timer is only set again by a tick that refreshes.
Tick_OnlyWhenRefreshing ==
    /\ timer /\ timer' = ~refreshing
    /\ RefreshUnlessOut
    /\ UNCHANGED <<up, screen, work, asking, feeding>>

\* tickMsg: a read unless one is out, and the next tick either way.
Tick ==
    /\ timer /\ timer' = TRUE
    /\ RefreshUnlessOut
    /\ UNCHANGED <<up, screen, work, asking, feeding>>

\* Mutant: r reads whether or not a read is out.
KeyRefresh_Always ==
    /\ "r" \in Keys
    /\ Refresh /\ beating' = TRUE
    /\ UNCHANGED <<up, screen, work, timer, asking, feeding>>

KeyRefresh ==
    /\ "r" \in Keys /\ ~refreshing
    /\ Refresh /\ beating' = TRUE
    /\ UNCHANGED <<up, screen, work, timer, asking, feeding>>

\* The refresh command: App.View, in one step here, succeeds or fails.
ReadSystem(r) ==
    /\ read[r].at = "asked"
    /\ read' = [read EXCEPT ![r] = [at |-> "read", seen |-> Machine]]
    /\ UNCHANGED <<up, screen, work, refreshing, timer, beating, asking, feeding, doubted>>

FailToRead(r) ==
    /\ ReadsFail /\ read[r].at = "asked"
    /\ read' = [read EXCEPT ![r].at = "failed"]
    /\ UNCHANGED <<up, screen, work, refreshing, timer, beating, asking, feeding, doubted>>

Shows(v) ==
    /\ view' = v
    /\ publishing' = IF HasFeed THEN publishing \cup {v} ELSE publishing

\* Mutant: an error is returned before the flag is cleared.
OnView_ErrorKeepsTheFlag(r) ==
    /\ read[r].at \in {"read", "failed"}
    /\ read' = [read EXCEPT ![r] = NoRead]
    /\ IF read[r].at = "read"
       THEN Shows(read[r].seen) /\ refreshing' = FALSE /\ UNCHANGED doubted
       ELSE doubted' = TRUE /\ UNCHANGED <<view, publishing, refreshing>>
    /\ UNCHANGED <<up, inFlight, pinging, work, timer, beating, asking, feed>>

\* onView: the flag is cleared whatever came back; a view replaces the table
\* and goes to the feed.
OnView(r) ==
    /\ read[r].at \in {"read", "failed"}
    /\ read' = [read EXCEPT ![r] = NoRead]
    /\ refreshing' = FALSE
    /\ IF read[r].at = "read"
       THEN Shows(read[r].seen) /\ UNCHANGED doubted
       ELSE doubted' = TRUE /\ UNCHANGED <<view, publishing>>
    /\ UNCHANGED <<up, inFlight, pinging, work, timer, beating, asking, feed>>

\* Feed.Publish, on a goroutine of its own: two may run in either order.
Publish(v) ==
    /\ v \in publishing
    /\ publishing' = publishing \ {v} /\ feed' = v
    /\ UNCHANGED <<up, screen, work, reading, timer, beating, asking>>

-----------------------------------------------------------------------------
\* Probes, the heartbeat, and what the feed's clients ask.

KeyPing ==
    /\ "p" \in Keys /\ ~pinging
    /\ pinging' = TRUE /\ beating' = TRUE
    /\ UNCHANGED <<up, view, inFlight, work, reading, timer, asking, feeding>>

\* pingMsg: every host answered or timed out.
OnPing ==
    /\ pinging /\ pinging' = FALSE
    /\ UNCHANGED <<up, view, inFlight, work, reading, timer, beating, asking, feeding>>

\* Mutant: only a batch keeps the indicator moving.
Beat_OnlyForBatches ==
    /\ beating
    /\ beating' \in IF batches > 0 \/ pinging THEN {TRUE} ELSE BOOLEAN
    /\ UNCHANGED <<up, screen, work, reading, timer, asking, feeding>>

\* heartbeatMsg: asked for again while there is something to report on.  One
\* that is not may leave another out: each start of something sent its own.
Beat ==
    /\ beating
    /\ beating' \in IF Busy \/ pinging THEN {TRUE} ELSE BOOLEAN
    /\ UNCHANGED <<up, screen, work, reading, timer, asking, feeding>>

Ask(kind) ==
    /\ HasFeed /\ Len(requests) < MaxRequests
    /\ requests' = Append(requests, kind)
    /\ UNCHANGED <<up, screen, work, reading, timer, beating, listening, feeding>>

Answer ==
    \/ /\ Head(requests) = "ping" /\ UNCHANGED reading
       /\ pinging' = TRUE /\ beating' = (beating \/ ~pinging)
    \/ /\ Head(requests) = "refresh" /\ UNCHANGED pinging
       /\ RefreshUnlessOut

\* Mutant: a request that finds its work under way is not followed by another.
OnRequest_DeafWhenBusy ==
    /\ listening /\ requests # <<>>
    /\ requests' = Tail(requests)
    /\ listening' = IF Head(requests) = "ping" THEN ~pinging ELSE ~refreshing
    /\ Answer
    /\ UNCHANGED <<up, view, inFlight, work, timer, feeding>>

\* requestMsg: the next request is listened for whatever becomes of this one,
\* which is left at that when the work it asks for is already out.
OnRequest ==
    /\ listening /\ requests # <<>>
    /\ requests' = Tail(requests) /\ listening' = TRUE
    /\ Answer
    /\ UNCHANGED <<up, view, inFlight, work, timer, feeding>>

-----------------------------------------------------------------------------
\* Batches.

\* startBatch: what is left of the plan is handed to RunBatch and counted; its
\* tunnels become busy only when their started events are handled.
StartBatch(steps) ==
    /\ Idle(steps) # {}
    /\ \E b \in Batches :
          /\ ~Live(b) /\ \A c \in 1..(b - 1) : Live(c)
          /\ batch' = [batch EXCEPT ![b] = NewBatch(Idle(steps))]
    /\ batches' = batches + 1 /\ beating' = TRUE
    /\ UNCHANGED <<up, screen, reading, timer, asking, feeding>>

KeyEnter == "enter" \in Keys /\ \E wanted \in SUBSET view.rows : StartBatch(PlanToggle(wanted))
KeyStopStart == "s" \in Keys /\ StartBatch(StopStart)
KeyNeeded == "n" \in Keys /\ StartBatch(PlanUp(Needed))

\* The steps whose wg-quick has been started and is not over.
Running(b) == batch[b].launched \ batch[b].over

Told(b, phase, s) ==
    Append(batch[b].events, [phase |-> phase, tunnel |-> s.tunnel, action |-> s.action])

\* RunBatch: the steps are launched one after another, a stagger apart, each on
\* a goroutine of its own that says it has started.
Launch(b) ==
    /\ \E s \in batch[b].steps \ batch[b].launched :
          /\ \A z \in batch[b].steps \ batch[b].launched : s.at <= z.at
          /\ batch' = [batch EXCEPT ![b].launched = @ \cup {s},
                                    ![b].events = Told(b, "started", s)]
    /\ UNCHANGED <<up, screen, batches, reading, timer, beating, asking, feeding>>

\* Controller.Up, Down and run: the tunnel changes, or does not - its check
\* address answers already, the binary is refused, or wg-quick fails, as it
\* does on a tunnel that is already what it is asked to become.  The finished
\* event is sent in the same step: Update may take it as late as it likes.
Finish(b, s) ==
    /\ s \in Running(b)
    /\ up' \in {up, IF s.action = "up" THEN up \cup {s.tunnel} ELSE up \ {s.tunnel}}
    /\ batch' = [batch EXCEPT ![b].over = @ \cup {s}, ![b].events = Told(b, "finished", s)]
    /\ UNCHANGED <<screen, batches, reading, timer, beating, asking, feeding>>

\* eventMsg and onEvent, then nextEvent again.
OnEvent(b) ==
    /\ batch[b].events # <<>>
    /\ LET e == Head(batch[b].events)
       IN  inFlight' = [inFlight EXCEPT ![e.tunnel] =
                            IF e.phase = "started" THEN e.action ELSE "none"]
    /\ batch' = [batch EXCEPT ![b].events = Tail(@)]
    /\ UNCHANGED <<up, view, pinging, batches, reading, timer, beating, asking, feeding>>

\* Mutant: the channel is closed without waiting for the runs still under way.
Drained_NoWait(b) ==
    Live(b) /\ batch[b].events = <<>> /\ batch[b].launched = batch[b].steps

\* The channel is closed once every step is over, and everything it carried has
\* been read.
Drained(b) ==
    Live(b) /\ batch[b].events = <<>> /\ batch[b].over = batch[b].steps

\* Mutant: the end of a batch is counted twice, and not held at nothing.
Closes_Twice(b) ==
    /\ batch' = [batch EXCEPT ![b] = NoBatch]
    /\ batches' = batches - 2

Closes(b) ==
    /\ batch' = [batch EXCEPT ![b] = NoBatch]
    /\ batches' = IF batches > 0 THEN batches - 1 ELSE 0

\* Mutant: the read that follows the last batch is forgotten.
OnBatchDone_NoRead(b) ==
    /\ Drained(b) /\ Closes(b)
    /\ doubted' = (doubted \/ (batches' = 0 /\ refreshing))
    /\ UNCHANGED <<up, screen, read, refreshing, timer, beating, asking, feeding>>

\* onBatchDone: the last batch to end reads the system, unless a read is out
\* already - one that may have been made before the batch ended.
OnBatchDone(b) ==
    /\ Drained(b) /\ Closes(b)
    /\ IF batches' > 0
       THEN UNCHANGED reading
       ELSE IF refreshing
            THEN doubted' = TRUE /\ UNCHANGED <<read, refreshing>>
            ELSE Refresh
    /\ UNCHANGED <<up, screen, timer, beating, asking, feeding>>

\* Another program brings a tunnel up or down.
ChangeMachine ==
    /\ OutsideChanges
    /\ \E t \in Tunnels : up' \in {up \cup {t}, up \ {t}} \ {up}
    /\ doubted' = TRUE
    /\ UNCHANGED <<screen, work, read, refreshing, timer, beating, asking, feeding>>

-----------------------------------------------------------------------------

Next ==
    \/ Tick \/ Beat \/ OnPing \/ OnRequest
    \/ KeyRefresh \/ KeyPing \/ KeyEnter \/ KeyStopStart \/ KeyNeeded
    \/ \E r \in Reads : ReadSystem(r) \/ FailToRead(r) \/ OnView(r)
    \/ \E v \in publishing : Publish(v)
    \/ \E kind \in Requests : Ask(kind)
    \/ \E b \in Batches : Launch(b) \/ OnEvent(b) \/ OnBatchDone(b)
    \/ \E b \in Batches : \E s \in Running(b) : Finish(b, s)
    \/ ChangeMachine

Spec == Init /\ [][Next]_vars

\* Every command runs on a goroutine of its own and the event loop takes every
\* message; a timer fires; a wg-quick run ends.  Reads do not all fail for ever.
Fairness ==
    /\ WF_vars(Tick) /\ WF_vars(OnPing) /\ WF_vars(OnRequest)
    /\ \A r \in Reads : /\ WF_vars(ReadSystem(r) \/ FailToRead(r))
                        /\ SF_vars(ReadSystem(r))
                        /\ WF_vars(OnView(r))
    /\ \A v \in View : WF_vars(Publish(v))
    /\ \A b \in Batches : /\ WF_vars(Launch(b)) /\ WF_vars(OnEvent(b))
                          /\ WF_vars(OnBatchDone(b))
                          /\ WF_vars(\E s \in Running(b) : Finish(b, s))

FairSpec == Spec /\ Fairness

-----------------------------------------------------------------------------
\* The types of the model's fields and of what the goroutines hold.
TypeOK ==
    /\ up \in SUBSET Tunnels /\ view \in View
    /\ inFlight \in [Tunnels -> {"none", "up", "down"}]
    /\ batches \in Nat
    /\ batch \in [Batches -> [steps : SUBSET Step, launched : SUBSET Step,
                               over : SUBSET Step, events : Seq(Event)]]
    /\ read \in [Reads -> [at : {"idle", "asked", "read", "failed"}, seen : View]]
    /\ refreshing \in BOOLEAN /\ pinging \in BOOLEAN /\ timer \in BOOLEAN
    /\ beating \in BOOLEAN /\ listening \in BOOLEAN /\ doubted \in BOOLEAN
    /\ requests \in Seq(Requests)
    /\ publishing \in SUBSET View /\ feed \in View

\* The tunnels a batch is to tell the interface it is over with, and those it
\* has started on and not yet told it.
Finished(b) ==
    {batch[b].events[i].tunnel : i \in {j \in 1..Len(batch[b].events) :
                                            batch[b].events[j].phase = "finished"}}

Unfinished(b) ==
    {s.tunnel : s \in Running(b)} \cup Finished(b)

\* A tunnel shown as being worked on is worked on by a batch that has yet to say
\* it is over with it, and the count of batches is the number of them: when it
\* is back at nothing no tunnel is left spinning, or refused to the next batch
\* (update.go:137-151, 185-189; batch.go:136-164).
NothingLeftSpinning ==
    /\ batches = Cardinality({b \in Batches : Live(b)})
    /\ \A t \in Tunnels : inFlight[t] # "none" => \E b \in Batches : t \in Unfinished(b)

\* Whatever keeps the program busy, a heartbeat is out to move the frame, even
\* for the read after a batch, which sends none of its own (update.go:57-64,
\* 185-197).
KeepsMoving == Busy \/ pinging => beating

\* At most two reads of the system are out, and one when the flag is down: the
\* read of Init is the only one started without it, and every one that comes
\* back lowers it (model.go:163-165; update.go:24-29, 107-108).
AtMostTwoReads ==
    /\ refreshing => Cardinality(ReadsOut) \in {1, 2}
    /\ ~refreshing => Cardinality(ReadsOut) <= 1

\* With nothing running and nothing being read the table shows the machine,
\* unless a read failed, the last batch ended under a read already out, two
\* reads overlapped, or something else changed the machine (update.go:185-197).
RightUnlessDoubted == batches = 0 /\ ReadsOut = {} /\ ~doubted => view = Machine

\* Once the machine stops changing, the table comes to show it and the feed to
\* say what the table shows, and both stay so: whatever was read or published
\* out of order, the timer reads again (update.go:24-29, 115-122).
TableCatchesUp ==
    <>[][FALSE]_up => <>[](view = Machine /\ (HasFeed => feed = view))

\* What is shown as under way ends - a refresh, a probe, a batch - and what a feed
\* client asked for is taken up, also while the work it asks for is under way
\* (update.go:34-39, 69-87, 107-108, 137-151).
WorkEnds ==
    /\ requests # <<>> ~> requests = <<>>
    /\ refreshing ~> ~refreshing
    /\ pinging ~> ~pinging
    /\ \A b \in Batches : Live(b) ~> ~Live(b)

\* "Two wg-quick runs on the same tunnel is the one overlap that is never
\* wanted" (update.go:321-322).
OneRunPerTunnel ==
    \A b, c \in Batches : \A s \in Running(b), z \in Running(c) :
        s.tunnel = z.tunnel => b = c /\ s = z
=============================================================================
