----------------------------- MODULE Tui_proofs -----------------------------
(***************************************************************************)
(* Theorems about the terminal interface, for any number of tunnels,       *)
(* batches and reads, any two groups and any keys and requests.            *)
(***************************************************************************)
EXTENDS Tui, FiniteSetTheorems, SequenceTheorems, TLAPS

Reading == [at : {"idle", "asked", "read", "failed"}, seen : View]
Batch == [steps : SUBSET Step, launched : SUBSET Step, over : SUBSET Step,
          events : Seq(Event)]

-----------------------------------------------------------------------------
(* The types.                                                              *)

\* A plan of known tunnels is a set of steps, and so is what is left of it.
LEMMA PlanType ==
  ASSUME NEW names \in Seq(Tunnels), NEW wanted
  PROVE  Plan(names, wanted) \in SUBSET Step
<1> SUFFICES ASSUME NEW j \in 1..Len(names)
             PROVE  [at |-> j, tunnel |-> names[j],
                     action |-> IF names[j] \in view.live THEN "down" ELSE "up"] \in Step
  BY DEF Plan
<1>1. names[j] \in Tunnels
  BY ElementOfSeq
<1>2. j \in Nat
  OBVIOUS
<1> QED
  BY <1>1, <1>2 DEF Step

LEMMA PlansAreSteps ==
  /\ StopStart \in SUBSET Step
  /\ PlanUp(Needed) \in SUBSET Step
  /\ \A wanted : PlanToggle(wanted) \in SUBSET Step
<1>1. All \in Seq(Tunnels) /\ Needed \in Seq(Tunnels)
  BY GroupsAssumption DEF Tunnels
<1>2. [i \in Tunnels |-> i] \in Seq(Tunnels)
  BY SizeAssumption, SeqDef DEF Tunnels
<1> QED
  BY <1>1, <1>2, PlanType DEF StopStart, PlanUp, PlanDown, PlanToggle

\* Starting a read keeps the types of what it touches.
LEMMA RefreshType ==
  ASSUME TypeOK, Refresh
  PROVE  /\ read' \in [Reads -> Reading]
         /\ refreshing' \in BOOLEAN /\ doubted' \in BOOLEAN
         /\ refreshing' = TRUE
<1>1. PICK r \in Reads : read' = [read EXCEPT ![r] = [NoRead EXCEPT !.at = "asked"]]
  BY DEF Refresh
<1>2. [NoRead EXCEPT !.at = "asked"] \in Reading
  BY DEF NoRead, NoView, Reading, View
<1> QED
  BY <1>1, <1>2 DEF Refresh, TypeOK, Reading

LEMMA EventType ==
  ASSUME TypeOK, NEW b \in Batches, NEW s \in Step, NEW phase \in {"started", "finished"}
  PROVE  Told(b, phase, s) \in Seq(Event)
<1>1. [phase |-> phase, tunnel |-> s.tunnel, action |-> s.action] \in Event
  BY DEF Event, Step
<1>2. batch[b].events \in Seq(Event)
  BY DEF TypeOK
<1> QED
  BY <1>1, <1>2, AppendProperties DEF Told

\* What the batches' goroutines change keeps their type.
LEMMA LaunchCell ==
  ASSUME batch \in [Batches -> Batch], NEW b \in Batches,
         NEW gone \in SUBSET Step, NEW told \in Seq(Event)
  PROVE  /\ [batch EXCEPT ![b].launched = gone, ![b].events = told] \in [Batches -> Batch]
         /\ [batch EXCEPT ![b].over = gone, ![b].events = told] \in [Batches -> Batch]
  BY DEF Batch

LEMMA NewBatchType ==
  ASSUME NEW left \in SUBSET Step
  PROVE  NewBatch(left) \in Batch
<1>1. <<>> \in Seq(Event) /\ {} \in SUBSET Step
  OBVIOUS
<1> QED
  BY <1>1 DEF NewBatch, Batch

LEMMA RefreshUnlessOutType ==
  ASSUME TypeOK, RefreshUnlessOut
  PROVE  /\ read' \in [Reads -> Reading] /\ refreshing' \in BOOLEAN
         /\ doubted' \in BOOLEAN /\ beating' \in BOOLEAN
<1>1. CASE refreshing
  BY <1>1 DEF RefreshUnlessOut, reading, TypeOK, Reading
<1>2. CASE ~refreshing
  BY <1>2, RefreshType DEF RefreshUnlessOut
<1> QED
  BY <1>1, <1>2

LEMMA InitType == Init => TypeOK
<1> SUFFICES ASSUME Init PROVE TypeOK
  OBVIOUS
<1>1. NoView \in View /\ NoRead \in Reading /\ [NoRead EXCEPT !.at = "asked"] \in Reading
  BY DEF NoView, View, NoRead, Reading
<1>2. NoBatch \in Batch
  BY NewBatchType DEF NoBatch
<1>3. requests \in Seq(Requests)
  BY DEF Init
<1>4. listening \in BOOLEAN
  BY SwitchAssumption DEF Init
<1> QED
  BY <1>1, <1>2, <1>3, <1>4 DEF Init, TypeOK, Reading, Batch

LEMMA NextType == TypeOK /\ [Next]_vars => TypeOK'
<1> SUFFICES ASSUME TypeOK, [Next]_vars PROVE TypeOK'
  OBVIOUS
<1> USE DEF Reading, Batch
<1>s. ASSUME NEW steps \in SUBSET Step, StartBatch(steps)
      PROVE  TypeOK'
  <2>1. PICK b \in Batches : batch' = [batch EXCEPT ![b] = NewBatch(Idle(steps))]
    BY <1>s DEF StartBatch
  <2>2. batch' \in [Batches -> Batch]
    <3>1. Idle(steps) \in SUBSET Step
      BY DEF Idle
    <3> QED
      BY <2>1, <3>1, NewBatchType DEF TypeOK
  <2>3. batches' \in Nat /\ beating' \in BOOLEAN
    BY <1>s DEF StartBatch, TypeOK
  <2>4. UNCHANGED <<up, screen, reading, timer, asking, feeding>>
    BY <1>s DEF StartBatch
  <2> QED
    BY <2>2, <2>3, <2>4 DEF TypeOK, screen, reading, asking, feeding
<1>1. CASE Tick
  BY <1>1, RefreshUnlessOutType DEF Tick, TypeOK, screen, work, asking, feeding
<1>2. CASE Beat
  BY <1>2 DEF Beat, TypeOK, screen, work, reading, asking, feeding
<1>3. CASE OnPing
  BY <1>3 DEF OnPing, TypeOK, work, reading, asking, feeding
<1>4. CASE OnRequest
  <2>1. /\ read' \in [Reads -> Reading] /\ refreshing' \in BOOLEAN
        /\ doubted' \in BOOLEAN /\ beating' \in BOOLEAN /\ pinging' \in BOOLEAN
    <3>1. CASE RefreshUnlessOut /\ UNCHANGED pinging
      <4>1. pinging' \in BOOLEAN
        BY <3>1 DEF TypeOK
      <4> QED
        BY <3>1, <4>1, RefreshUnlessOutType
    <3>2. CASE UNCHANGED reading /\ pinging' = TRUE /\ beating' = (beating \/ ~pinging)
      BY <3>2 DEF TypeOK, reading
    <3> QED
      BY <1>4, <3>1, <3>2 DEF OnRequest, Answer
  <2>2. requests' \in Seq(Requests)
    BY <1>4, HeadTailProperties DEF OnRequest, TypeOK
  <2> QED
    BY <1>4, <2>1, <2>2 DEF OnRequest, TypeOK, work, feeding
<1>5. CASE KeyRefresh
  BY <1>5, RefreshType DEF KeyRefresh, TypeOK, screen, work, asking, feeding
<1>6. CASE KeyPing
  BY <1>6 DEF KeyPing, TypeOK, work, reading, asking, feeding
<1>7. CASE KeyEnter \/ KeyStopStart \/ KeyNeeded
  BY <1>7, <1>s, PlansAreSteps DEF KeyEnter, KeyStopStart, KeyNeeded
<1>8. CASE \E r \in Reads : ReadSystem(r)
  <2>1. PICK r \in Reads : ReadSystem(r)
    BY <1>8
  <2>2. [at |-> "read", seen |-> Machine] \in Reading
    BY DEF Machine, View, TypeOK
  <2> QED
    BY <2>1, <2>2 DEF ReadSystem, TypeOK, screen, work, asking, feeding
<1>9. CASE \E r \in Reads : FailToRead(r)
  <2>1. PICK r \in Reads : FailToRead(r)
    BY <1>9
  <2> QED
    BY <2>1 DEF FailToRead, TypeOK, screen, work, asking, feeding
<1>10. CASE \E r \in Reads : OnView(r)
  <2>1. PICK r \in Reads : OnView(r)
    BY <1>10
  <2>2. NoRead \in Reading
    BY DEF NoRead, NoView, View
  <2>3. read' \in [Reads -> Reading] /\ refreshing' \in BOOLEAN /\ doubted' \in BOOLEAN
    BY <2>1, <2>2 DEF OnView, TypeOK
  <2>4. view' \in View /\ publishing' \in SUBSET View
    BY <2>1 DEF OnView, Shows, TypeOK
  <2> QED
    BY <2>1, <2>3, <2>4 DEF OnView, TypeOK, work, asking
<1>11. CASE \E v \in publishing : Publish(v)
  BY <1>11 DEF Publish, TypeOK, screen, work, reading, asking
<1>12. CASE \E kind \in Requests : Ask(kind)
  <2>1. requests' \in Seq(Requests)
    BY <1>12 DEF Ask, TypeOK
  <2> QED
    BY <1>12, <2>1 DEF Ask, TypeOK, screen, work, reading, feeding
<1>13. CASE \E b \in Batches : Launch(b)
  <2>1. PICK b \in Batches : Launch(b)
    BY <1>13
  <2>2. PICK s \in batch[b].steps :
            batch' = [batch EXCEPT ![b].launched = @ \cup {s},
                                   ![b].events = Told(b, "started", s)]
    BY <2>1 DEF Launch
  <2>3. s \in Step
    BY DEF TypeOK
  <2>4. batch' \in [Batches -> Batch]
    <3>1. Told(b, "started", s) \in Seq(Event) /\ batch[b].launched \cup {s} \in SUBSET Step
      BY <2>3, EventType DEF TypeOK
    <3> QED
      BY <2>2, <3>1, LaunchCell DEF TypeOK
  <2> QED
    BY <2>1, <2>4 DEF Launch, TypeOK, screen, reading, asking, feeding
<1>14. CASE \E b \in Batches : OnEvent(b)
  <2>1. PICK b \in Batches : OnEvent(b)
    BY <1>14
  <2>2. Head(batch[b].events) \in Event /\ Tail(batch[b].events) \in Seq(Event)
    BY <2>1, HeadTailProperties DEF OnEvent, TypeOK
  <2>3. batch' \in [Batches -> Batch]
    BY <2>1, <2>2, ZenonT(60) DEF OnEvent, TypeOK
  <2>4. inFlight' \in [Tunnels -> {"none", "up", "down"}]
    BY <2>1, <2>2 DEF OnEvent, TypeOK, Event
  <2> QED
    BY <2>1, <2>3, <2>4 DEF OnEvent, TypeOK, reading, asking, feeding
<1>15. CASE \E b \in Batches : OnBatchDone(b)
  <2>1. PICK b \in Batches : OnBatchDone(b)
    BY <1>15
  <2>2. NoBatch \in Batch
    BY NewBatchType DEF NoBatch
  <2>3. batch' \in [Batches -> Batch] /\ batches' \in Nat
    BY <2>1, <2>2 DEF OnBatchDone, Closes, TypeOK
  <2>4. read' \in [Reads -> Reading] /\ refreshing' \in BOOLEAN /\ doubted' \in BOOLEAN
    BY <2>1, RefreshType DEF OnBatchDone, TypeOK, reading
  <2> QED
    BY <2>1, <2>3, <2>4 DEF OnBatchDone, TypeOK, screen, asking, feeding
<1>16. CASE \E b \in Batches : \E s \in Running(b) : Finish(b, s)
  <2>b. PICK b \in Batches : \E s \in Running(b) : Finish(b, s)
    BY <1>16
  <2>1. PICK s \in Running(b) : Finish(b, s)
    BY <2>b
  <2>2. s \in Step
    BY DEF TypeOK, Running
  <2>3. batch' \in [Batches -> Batch]
    <3>1. Told(b, "finished", s) \in Seq(Event) /\ batch[b].over \cup {s} \in SUBSET Step
      BY <2>2, EventType DEF TypeOK
    <3> QED
      BY <2>1, <3>1, LaunchCell DEF Finish, TypeOK
  <2>4. up' \in SUBSET Tunnels
    BY <2>1, <2>2 DEF Finish, TypeOK, Step
  <2> QED
    BY <2>1, <2>3, <2>4 DEF Finish, TypeOK, screen, reading, asking, feeding
<1>17. CASE ChangeMachine
  BY <1>17 DEF ChangeMachine, TypeOK, screen, work, asking, feeding
<1>18. CASE UNCHANGED vars
  BY <1>18 DEF vars, screen, work, reading, asking, feeding, TypeOK
<1> QED
  BY <1>1, <1>2, <1>3, <1>4, <1>5, <1>6, <1>7, <1>8, <1>9, <1>10, <1>11, <1>12, <1>13,
     <1>14, <1>15, <1>16, <1>17, <1>18 DEF Next

\* The model's fields and the goroutines' state keep their types, for any
\* number of tunnels, batches and reads (model.go:90-140).
THEOREM TuiTypeCorrect == Spec => []TypeOK
<1> QED
  BY InitType, NextType, PTL DEF Spec

-----------------------------------------------------------------------------
(* Reads of the system.                                                    *)

LEMMA ReadsAreFinite == IsFiniteSet(ReadsOut) /\ Cardinality(ReadsOut) \in Nat
<1>1. IsFiniteSet(Reads)
  BY FS_Interval, SizeAssumption DEF Reads
<1>2. ReadsOut \subseteq Reads
  BY DEF ReadsOut
<1> QED
  BY <1>1, <1>2, FS_Subset, FS_CardinalityType

\* Starting a read puts one more out.
LEMMA RefreshAddsOne ==
  ASSUME TypeOK, Refresh
  PROVE  Cardinality(ReadsOut') = Cardinality(ReadsOut) + 1
<1>1. PICK r \in Reads : /\ read[r].at = "idle"
                         /\ read' = [read EXCEPT ![r] = [NoRead EXCEPT !.at = "asked"]]
  BY DEF Refresh
<1>2. [NoRead EXCEPT !.at = "asked"].at = "asked"
  BY DEF NoRead
<1>3. read'[r].at = "asked" /\ \A q \in Reads : q # r => read'[q] = read[q]
  BY <1>1, <1>2 DEF TypeOK
<1>4. ReadsOut' = ReadsOut \cup {r} /\ r \notin ReadsOut
  BY <1>1, <1>3 DEF ReadsOut
<1> QED
  BY <1>4, ReadsAreFinite, FS_AddElement

LEMMA NextReads == TypeOK /\ AtMostTwoReads /\ [Next]_vars => AtMostTwoReads'
<1> SUFFICES ASSUME TypeOK, AtMostTwoReads, [Next]_vars PROVE AtMostTwoReads'
  OBVIOUS
<1>t. refreshing \in BOOLEAN /\ Cardinality(ReadsOut) \in Nat
  BY ReadsAreFinite DEF TypeOK
\* The three things a step may do to the reads.
<1>u. ASSUME ReadsOut' = ReadsOut, refreshing' = refreshing
      PROVE  AtMostTwoReads'
  BY <1>u DEF AtMostTwoReads
<1>a. ASSUME Refresh, ~refreshing
      PROVE  AtMostTwoReads'
  <2>1. refreshing' = TRUE /\ Cardinality(ReadsOut') = Cardinality(ReadsOut) + 1
    BY <1>a, RefreshAddsOne DEF Refresh
  <2> QED
    BY <1>a, <1>t, <2>1 DEF AtMostTwoReads
<1>r. ASSUME RefreshUnlessOut
      PROVE  AtMostTwoReads'
  BY <1>r, <1>a, <1>u DEF RefreshUnlessOut, reading, ReadsOut
<1>0. ASSUME UNCHANGED reading
      PROVE  AtMostTwoReads'
  BY <1>0, <1>u DEF reading, ReadsOut
<1>1. CASE Tick
  BY <1>1, <1>r DEF Tick
<1>2. CASE Beat \/ OnPing \/ KeyPing
  BY <1>2, <1>0 DEF Beat, OnPing, KeyPing
<1>3. CASE OnRequest
  BY <1>3, <1>r, <1>0 DEF OnRequest, Answer
<1>4. CASE KeyRefresh
  BY <1>4, <1>a DEF KeyRefresh
<1>5. CASE KeyEnter \/ KeyStopStart \/ KeyNeeded
  BY <1>5, <1>0 DEF KeyEnter, KeyStopStart, KeyNeeded, StartBatch
<1>6. CASE \E r \in Reads : ReadSystem(r) \/ FailToRead(r)
  <2>1. PICK r \in Reads : ReadSystem(r) \/ FailToRead(r)
    BY <1>6
  <2>2. \A q \in Reads : read'[q].at # "idle" <=> read[q].at # "idle"
    BY <2>1 DEF ReadSystem, FailToRead, TypeOK
  <2> QED
    BY <2>1, <2>2, <1>u DEF ReadSystem, FailToRead, ReadsOut
<1>7. CASE \E r \in Reads : OnView(r)
  <2>1. PICK r \in Reads : OnView(r)
    BY <1>7
  <2>2. NoRead.at = "idle"
    BY DEF NoRead
  <2>3. r \in ReadsOut /\ ReadsOut' = ReadsOut \ {r}
    BY <2>1, <2>2 DEF OnView, ReadsOut, TypeOK
  <2>4. Cardinality(ReadsOut') = Cardinality(ReadsOut) - 1
    BY <2>3, ReadsAreFinite, FS_RemoveElement
  <2>5. refreshing' = FALSE
    BY <2>1 DEF OnView
  <2> QED
    BY <2>4, <2>5, <1>t DEF AtMostTwoReads
<1>8. CASE \E v \in publishing : Publish(v)
  BY <1>8, <1>0 DEF Publish
<1>9. CASE \E kind \in Requests : Ask(kind)
  BY <1>9, <1>0 DEF Ask
<1>10. CASE \E b \in Batches : Launch(b) \/ OnEvent(b)
  BY <1>10, <1>0 DEF Launch, OnEvent
<1>11. CASE \E b \in Batches : \E s \in Running(b) : Finish(b, s)
  BY <1>11, <1>0 DEF Finish
<1>12. CASE \E b \in Batches : OnBatchDone(b)
  <2>1. PICK b \in Batches : OnBatchDone(b)
    BY <1>12
  <2>2. CASE batches' > 0
    BY <2>1, <2>2, <1>0 DEF OnBatchDone
  <2>3. CASE ~(batches' > 0) /\ refreshing
    BY <2>1, <2>3, <1>u DEF OnBatchDone, ReadsOut
  <2>4. CASE ~(batches' > 0) /\ ~refreshing
    BY <2>1, <2>4, <1>a DEF OnBatchDone
  <2> QED
    BY <2>2, <2>3, <2>4
<1>13. CASE ChangeMachine
  BY <1>13, <1>u DEF ChangeMachine, ReadsOut
<1>14. CASE UNCHANGED vars
  BY <1>14, <1>0 DEF vars
<1> QED
  BY <1>1, <1>2, <1>3, <1>4, <1>5, <1>6, <1>7, <1>8, <1>9, <1>10, <1>11, <1>12, <1>13,
     <1>14 DEF Next

\* However many reads there is room for, no more than two are ever out, and
\* one when the flag is down (model.go:163-165; update.go:24-29, 107-108).
THEOREM AtMostTwoReadsAreOut == Spec => []AtMostTwoReads
<1>1. Init => AtMostTwoReads
  <2> SUFFICES ASSUME Init PROVE AtMostTwoReads
    OBVIOUS
  <2>1. ReadsOut = {1} /\ refreshing = FALSE
    BY SizeAssumption DEF Init, ReadsOut, NoRead, Reads
  <2>2. Cardinality(ReadsOut) = 1
    BY <2>1, FS_Singleton
  <2> QED
    BY <2>1, <2>2 DEF AtMostTwoReads
<1> QED
  BY <1>1, TuiTypeCorrect, NextReads, PTL DEF Spec

-----------------------------------------------------------------------------
(* Batches: the count, and the tunnels they are working on.                *)

LiveBatches == {b \in Batches : Live(b)}
CountIsRight == batches = Cardinality(LiveBatches)

Runs(b, t) == \E s \in Running(b) : s.tunnel = t
Announced(b, t, k) ==
  \E j \in k..Len(batch[b].events) :
    batch[b].events[j].phase = "finished" /\ batch[b].events[j].tunnel = t

\* The inductive form of NothingLeftSpinning: what is over was launched; a slot
\* nobody uses has nothing to say; a started event the interface has not
\* handled is about a run that is still under way, or has its finished event
\* behind it; and so is whatever the interface shows as being worked on.
SpinInv ==
  /\ \A b \in Batches : /\ batch[b].over \subseteq batch[b].launched
                        /\ batch[b].launched \subseteq batch[b].steps
                        /\ batch[b].steps = {} => batch[b].events = <<>>
  /\ \A b \in Batches : \A k \in 1..Len(batch[b].events) :
       batch[b].events[k].phase = "started" =>
         \/ Runs(b, batch[b].events[k].tunnel)
         \/ Announced(b, batch[b].events[k].tunnel, k)
  /\ \A t \in Tunnels : inFlight[t] # "none" =>
       \E b \in Batches : Runs(b, t) \/ Announced(b, t, 1)

LEMMA BatchesAreFinite == IsFiniteSet(LiveBatches) /\ Cardinality(LiveBatches) \in Nat
<1>1. IsFiniteSet(Batches)
  BY FS_Interval, SizeAssumption DEF Batches
<1>2. LiveBatches \subseteq Batches
  BY DEF LiveBatches
<1> QED
  BY <1>1, <1>2, FS_Subset, FS_CardinalityType

LEMMA SpinIsLeftByNobody == CountIsRight /\ SpinInv => NothingLeftSpinning
<1> SUFFICES ASSUME CountIsRight, SpinInv PROVE NothingLeftSpinning
  OBVIOUS
<1>1. ASSUME NEW b \in Batches, NEW t, Runs(b, t) \/ Announced(b, t, 1)
      PROVE  t \in Unfinished(b)
  BY <1>1 DEF Runs, Announced, Unfinished, Finished
<1>2. \A t \in Tunnels : inFlight[t] # "none" => \E b \in Batches : t \in Unfinished(b)
  BY <1>1 DEF SpinInv
<1> QED
  BY <1>2 DEF NothingLeftSpinning, CountIsRight, LiveBatches

\* A plan started in a free slot makes one more batch.
LEMMA StartCounts ==
  ASSUME TypeOK, CountIsRight, NEW steps, StartBatch(steps)
  PROVE  CountIsRight'
<1>1. PICK b \in Batches : ~Live(b) /\ batch' = [batch EXCEPT ![b] = NewBatch(Idle(steps))]
  BY DEF StartBatch
<1>2. batch'[b].steps # {} /\ \A c \in Batches : c # b => batch'[c] = batch[c]
  BY <1>1 DEF StartBatch, NewBatch, TypeOK
<1>3. LiveBatches' = LiveBatches \cup {b} /\ b \notin LiveBatches
  BY <1>1, <1>2 DEF LiveBatches, Live
<1>4. Cardinality(LiveBatches') = Cardinality(LiveBatches) + 1
  BY <1>3, BatchesAreFinite, FS_AddElement
<1> QED
  BY <1>4 DEF CountIsRight, StartBatch

\* The end of a batch makes one less, and there was one.
LEMMA DoneCounts ==
  ASSUME TypeOK, CountIsRight, NEW b \in Batches, OnBatchDone(b)
  PROVE  CountIsRight' /\ batches > 0
<1>1. Live(b) /\ batch' = [batch EXCEPT ![b] = NoBatch]
      /\ batches' = IF batches > 0 THEN batches - 1 ELSE 0
  BY DEF OnBatchDone, Drained, Closes
<1>2. batch'[b].steps = {} /\ \A c \in Batches : c # b => batch'[c] = batch[c]
  BY <1>1 DEF NoBatch, NewBatch, TypeOK
<1>3. LiveBatches' = LiveBatches \ {b} /\ b \in LiveBatches
  BY <1>1, <1>2 DEF LiveBatches, Live
<1>4. Cardinality(LiveBatches') = Cardinality(LiveBatches) - 1
  BY <1>3, BatchesAreFinite, FS_RemoveElement
<1>5. Cardinality(LiveBatches) # 0
  BY <1>3, BatchesAreFinite, FS_EmptySet
<1>6. batches > 0
  BY <1>5, BatchesAreFinite DEF CountIsRight
<1> QED
  BY <1>1, <1>4, <1>6 DEF CountIsRight

LEMMA NextCounts == TypeOK /\ CountIsRight /\ [Next]_vars => CountIsRight'
<1> SUFFICES ASSUME TypeOK, CountIsRight, [Next]_vars PROVE CountIsRight'
  OBVIOUS
<1>u. ASSUME batches' = batches, \A c \in Batches : batch'[c].steps = batch[c].steps
      PROVE  CountIsRight'
  BY <1>u DEF CountIsRight, LiveBatches, Live
<1>0. ASSUME UNCHANGED work
      PROVE  CountIsRight'
  BY <1>0, <1>u DEF work
<1>1. CASE Tick \/ Beat \/ OnPing \/ OnRequest \/ KeyRefresh \/ KeyPing
  BY <1>1, <1>0 DEF Tick, Beat, OnPing, OnRequest, KeyRefresh, KeyPing
<1>2. CASE KeyEnter \/ KeyStopStart \/ KeyNeeded
  BY <1>2, StartCounts DEF KeyEnter, KeyStopStart, KeyNeeded
<1>3. CASE \E r \in Reads : ReadSystem(r) \/ FailToRead(r) \/ OnView(r)
  BY <1>3, <1>0 DEF ReadSystem, FailToRead, OnView
<1>4. CASE \E v \in publishing : Publish(v)
  BY <1>4, <1>0 DEF Publish
<1>5. CASE \E kind \in Requests : Ask(kind)
  BY <1>5, <1>0 DEF Ask
<1>6. CASE \E b \in Batches : Launch(b)
  BY <1>6, <1>u DEF Launch, TypeOK
<1>7. CASE \E b \in Batches : OnEvent(b)
  BY <1>7, <1>u DEF OnEvent, TypeOK
<1>8. CASE \E b \in Batches : OnBatchDone(b)
  BY <1>8, DoneCounts
<1>9. CASE \E b \in Batches : \E s \in Running(b) : Finish(b, s)
  BY <1>9, <1>u DEF Finish, TypeOK
<1>10. CASE ChangeMachine
  BY <1>10, <1>0 DEF ChangeMachine
<1>11. CASE UNCHANGED vars
  BY <1>11, <1>0 DEF vars
<1> QED
  BY <1>1, <1>2, <1>3, <1>4, <1>5, <1>6, <1>7, <1>8, <1>9, <1>10, <1>11 DEF Next

LEMMA NextMoves ==
  TypeOK /\ CountIsRight /\ KeepsMoving /\ [Next]_vars => KeepsMoving'
<1> SUFFICES ASSUME TypeOK, CountIsRight, KeepsMoving, [Next]_vars PROVE KeepsMoving'
  OBVIOUS
<1>t. refreshing \in BOOLEAN /\ pinging \in BOOLEAN /\ beating \in BOOLEAN
  BY DEF TypeOK
\* A step sends a heartbeat off, or starts nothing.
<1>b. ASSUME beating' = TRUE
      PROVE  KeepsMoving'
  BY <1>b DEF KeepsMoving
<1>u. ASSUME beating' = beating, batches' = batches,
             refreshing' = refreshing \/ refreshing' = FALSE,
             pinging' = pinging \/ pinging' = FALSE
      PROVE  KeepsMoving'
  BY <1>t, <1>u DEF KeepsMoving, Busy
<1>r. ASSUME RefreshUnlessOut, UNCHANGED <<batches, pinging>>
      PROVE  KeepsMoving'
  BY <1>r, <1>u, <1>b DEF RefreshUnlessOut, reading
<1>1. CASE Tick
  BY <1>1, <1>r DEF Tick, screen, work
<1>2. CASE Beat
  <2>1. CASE Busy \/ pinging
    BY <1>2, <2>1, <1>b DEF Beat
  <2>2. CASE ~(Busy \/ pinging)
    BY <1>2, <2>2 DEF Beat, KeepsMoving, Busy, screen, work, reading
  <2> QED
    BY <2>1, <2>2
<1>3. CASE OnPing
  BY <1>3, <1>u DEF OnPing, work, reading
<1>4. CASE OnRequest
  <2>1. CASE RefreshUnlessOut /\ UNCHANGED pinging
    BY <1>4, <2>1, <1>r DEF OnRequest, work
  <2>2. CASE UNCHANGED reading /\ pinging' = TRUE /\ beating' = (beating \/ ~pinging)
    <3>1. CASE pinging
      BY <3>1, <1>t, <1>b, <2>2 DEF KeepsMoving
    <3>2. CASE ~pinging
      BY <3>2, <1>b, <2>2
    <3> QED
      BY <3>1, <3>2
  <2> QED
    BY <1>4, <2>1, <2>2 DEF OnRequest, Answer
<1>5. CASE KeyRefresh \/ KeyPing
  BY <1>5, <1>b DEF KeyRefresh, KeyPing
<1>6. CASE KeyEnter \/ KeyStopStart \/ KeyNeeded
  BY <1>6, <1>b DEF KeyEnter, KeyStopStart, KeyNeeded, StartBatch
<1>7. CASE \E r \in Reads : ReadSystem(r) \/ FailToRead(r) \/ OnView(r)
  BY <1>7, <1>u DEF ReadSystem, FailToRead, OnView, screen, work
<1>8. CASE \E v \in publishing : Publish(v)
  BY <1>8, <1>u DEF Publish, screen, work, reading
<1>9. CASE \E kind \in Requests : Ask(kind)
  BY <1>9, <1>u DEF Ask, screen, work, reading
<1>10. CASE \E b \in Batches : Launch(b) \/ OnEvent(b)
  BY <1>10, <1>u DEF Launch, OnEvent, screen, reading
<1>11. CASE \E b \in Batches : \E s \in Running(b) : Finish(b, s)
  BY <1>11, <1>u DEF Finish, screen, reading
<1>12. CASE \E b \in Batches : OnBatchDone(b)
  <2>1. PICK b \in Batches : OnBatchDone(b)
    BY <1>12
  <2>2. batches > 0
    BY <2>1, DoneCounts
  <2>3. beating = TRUE
    BY <2>2, <1>t DEF KeepsMoving, Busy
  <2> QED
    BY <2>1, <2>3, <1>b DEF OnBatchDone
<1>13. CASE ChangeMachine
  BY <1>13, <1>u DEF ChangeMachine, screen, work
<1>14. CASE UNCHANGED vars
  BY <1>14, <1>u DEF vars, screen, work, reading
<1> QED
  BY <1>1, <1>2, <1>3, <1>4, <1>5, <1>6, <1>7, <1>8, <1>9, <1>10, <1>11, <1>12, <1>13,
     <1>14 DEF Next

LEMMA InitCounts == Init => CountIsRight /\ KeepsMoving /\ SpinInv
<1> SUFFICES ASSUME Init PROVE CountIsRight /\ KeepsMoving /\ SpinInv
  OBVIOUS
<1>1. \A b \in Batches : batch[b] = [steps |-> {}, launched |-> {}, over |-> {}, events |-> <<>>]
  BY DEF Init, NoBatch, NewBatch
<1>2. LiveBatches = {}
  BY <1>1 DEF LiveBatches, Live
<1>3. CountIsRight
  BY <1>2, FS_EmptySet DEF CountIsRight, Init
<1>4. KeepsMoving
  BY DEF Init, KeepsMoving, Busy
<1>5. SpinInv
  BY <1>1 DEF Init, SpinInv
<1> QED
  BY <1>3, <1>4, <1>5

\* Whatever is running, being read or being probed, a heartbeat is out, for any
\* number of batches and reads (update.go:57-64, 185-197).
THEOREM SomethingAlwaysMoves == Spec => []KeepsMoving
<1> QED
  BY InitCounts, TuiTypeCorrect, NextCounts, NextMoves, PTL DEF Spec

-----------------------------------------------------------------------------
(* What the interface shows as under way.                                  *)

\* What a goroutine says goes behind what it said before.
LEMMA ToldGoesLast ==
  ASSUME TypeOK, NEW b \in Batches, NEW s \in Step, NEW phase \in {"started", "finished"}
  PROVE  LET n == Len(batch[b].events)
             told == Told(b, phase, s)
         IN  /\ Len(told) = n + 1 /\ n \in Nat
             /\ told[n + 1].phase = phase /\ told[n + 1].tunnel = s.tunnel
             /\ \A i \in 1..n : told[i] = batch[b].events[i]
<1> DEFINE e == [phase |-> phase, tunnel |-> s.tunnel, action |-> s.action]
<1>1. batch[b].events \in Seq(Event) /\ e \in Event
  BY DEF TypeOK, Event, Step
<1>2. e.phase = phase /\ e.tunnel = s.tunnel
  OBVIOUS
<1> HIDE DEF e
<1>3. Told(b, phase, s) = Append(batch[b].events, e)
  BY DEF Told, e
<1> QED
  BY <1>1, <1>2, <1>3, AppendProperties

\* A step started: whatever was accounted for still is, and so is the news.
LEMMA LaunchKeeps ==
  ASSUME TypeOK, SpinInv, NEW b \in Batches, Launch(b)
  PROVE  SpinInv'
<1>1. PICK s \in batch[b].steps \ batch[b].launched :
          batch' = [batch EXCEPT ![b].launched = @ \cup {s},
                                 ![b].events = Told(b, "started", s)]
  BY DEF Launch
<1> DEFINE n == Len(batch[b].events)
<1>2. s \in Step
  BY DEF TypeOK
<1>3. /\ batch'[b].launched = batch[b].launched \cup {s}
      /\ batch'[b].over = batch[b].over /\ batch'[b].steps = batch[b].steps
      /\ batch'[b].events = Told(b, "started", s)
      /\ \A c \in Batches : c # b => batch'[c] = batch[c]
  BY <1>1 DEF TypeOK
<1>4. /\ Len(batch'[b].events) = n + 1 /\ n \in Nat
      /\ batch'[b].events[n + 1].tunnel = s.tunnel
      /\ batch'[b].events[n + 1].phase = "started"
      /\ \A i \in 1..n : batch'[b].events[i] = batch[b].events[i]
  BY <1>2, <1>3, ToldGoesLast
<1> HIDE DEF n
<1>5. \A c \in Batches : Running(c) \subseteq Running(c)'
  BY <1>3 DEF Running
<1>6. \A c \in Batches : \A t : Runs(c, t) => Runs(c, t)'
  BY <1>5 DEF Runs
<1>7. ASSUME NEW c \in Batches, NEW t, NEW k \in Nat, Announced(c, t, k), k >= 1
      PROVE  Announced(c, t, k)'
  <2>1. PICK j \in k..Len(batch[c].events) :
          batch[c].events[j].phase = "finished" /\ batch[c].events[j].tunnel = t
    BY <1>7 DEF Announced
  <2>2. j \in k..Len(batch'[c].events) /\ batch'[c].events[j] = batch[c].events[j]
    BY <1>3, <1>4, <1>7, SMTT(30) DEF n
  <2> QED
    BY <2>1, <2>2 DEF Announced
<1>8. s \in Running(b)'
  BY <1>3 DEF Running, SpinInv
<1>9. Runs(b, s.tunnel)'
  BY <1>8 DEF Runs
<1>10. \A c \in Batches : /\ batch'[c].over \subseteq batch'[c].launched
                          /\ batch'[c].launched \subseteq batch'[c].steps
                          /\ batch'[c].steps = {} => batch'[c].events = <<>>
  BY <1>3 DEF SpinInv
<1>11. ASSUME NEW c \in Batches, NEW k \in 1..Len(batch'[c].events),
              batch'[c].events[k].phase = "started"
       PROVE  (Runs(c, batch[c].events[k].tunnel) \/ Announced(c, batch[c].events[k].tunnel, k))'
  <2>1. CASE c = b /\ k = n + 1
    BY <2>1, <1>4, <1>9
  <2>2. CASE ~(c = b /\ k = n + 1)
    <3>1. k \in 1..Len(batch[c].events) /\ batch'[c].events[k] = batch[c].events[k] /\ k \in Nat
      BY <2>2, <1>3, <1>4, <1>11 DEF n
    <3> QED
      BY <3>1, <1>6, <1>7, <1>11 DEF SpinInv
  <2> QED
    BY <2>1, <2>2
<1>12. ASSUME NEW t \in Tunnels, inFlight'[t] # "none"
       PROVE  \E c \in Batches : Runs(c, t)' \/ Announced(c, t, 1)'
  <2>1. inFlight[t] # "none"
    BY <1>12 DEF Launch, screen
  <2> QED
    BY <2>1, <1>6, <1>7 DEF SpinInv
<1> QED
  BY <1>10, <1>11, <1>12 DEF SpinInv

\* A step over: what it accounted for is announced.
LEMMA FinishKeeps ==
  ASSUME TypeOK, SpinInv, NEW b \in Batches, NEW s \in Running(b), Finish(b, s)
  PROVE  SpinInv'
<1> DEFINE n == Len(batch[b].events)
<1>1. batch' = [batch EXCEPT ![b].over = @ \cup {s}, ![b].events = Told(b, "finished", s)]
  BY DEF Finish
<1>2. s \in Step /\ s \in batch[b].launched
  BY DEF TypeOK, Running
<1>3. /\ batch'[b].over = batch[b].over \cup {s}
      /\ batch'[b].launched = batch[b].launched /\ batch'[b].steps = batch[b].steps
      /\ batch'[b].events = Told(b, "finished", s)
      /\ \A c \in Batches : c # b => batch'[c] = batch[c]
  BY <1>1 DEF TypeOK
<1>4. /\ Len(batch'[b].events) = n + 1 /\ n \in Nat
      /\ batch'[b].events[n + 1].tunnel = s.tunnel
      /\ batch'[b].events[n + 1].phase = "finished"
      /\ \A i \in 1..n : batch'[b].events[i] = batch[b].events[i]
  BY <1>2, <1>3, ToldGoesLast
<1> HIDE DEF n
<1>5. \A k \in 1..(n + 1) : Announced(b, s.tunnel, k)'
  BY <1>4 DEF Announced
<1>6. \A c \in Batches : \A z \in Running(c) : z \in Running(c)' \/ (c = b /\ z = s)
  BY <1>3 DEF Running
<1>7. \A c \in Batches : \A t : Runs(c, t) => Runs(c, t)' \/ (c = b /\ t = s.tunnel)
  BY <1>6 DEF Runs
<1>8. ASSUME NEW c \in Batches, NEW t, NEW k \in Nat, Announced(c, t, k), k >= 1
      PROVE  Announced(c, t, k)'
  <2>1. PICK j \in k..Len(batch[c].events) :
          batch[c].events[j].phase = "finished" /\ batch[c].events[j].tunnel = t
    BY <1>8 DEF Announced
  <2>2. j \in k..Len(batch'[c].events) /\ batch'[c].events[j] = batch[c].events[j]
    BY <1>3, <1>4, <1>8, SMTT(30) DEF n
  <2> QED
    BY <2>1, <2>2 DEF Announced
<1>10. \A c \in Batches : /\ batch'[c].over \subseteq batch'[c].launched
                          /\ batch'[c].launched \subseteq batch'[c].steps
                          /\ batch'[c].steps = {} => batch'[c].events = <<>>
  BY <1>2, <1>3 DEF SpinInv
<1>11. ASSUME NEW c \in Batches, NEW k \in 1..Len(batch'[c].events),
              batch'[c].events[k].phase = "started"
       PROVE  (Runs(c, batch[c].events[k].tunnel) \/ Announced(c, batch[c].events[k].tunnel, k))'
  <2>1. ~(c = b /\ k = n + 1)
    BY <1>4, <1>11
  <2>2. k \in 1..Len(batch[c].events) /\ batch'[c].events[k] = batch[c].events[k] /\ k \in Nat
    BY <2>1, <1>3, <1>4, <1>11, SMTT(30) DEF n
  <2>3. c = b => k \in 1..(n + 1)
    BY <2>2, <1>4 DEF n
  <2> QED
    BY <2>2, <2>3, <1>5, <1>7, <1>8, <1>11 DEF SpinInv
<1>12. ASSUME NEW t \in Tunnels, inFlight'[t] # "none"
       PROVE  \E c \in Batches : Runs(c, t)' \/ Announced(c, t, 1)'
  <2>1. inFlight[t] # "none"
    BY <1>12 DEF Finish, screen
  <2>2. 1 \in 1..(n + 1)
    BY <1>4
  <2> QED
    BY <2>1, <2>2, <1>5, <1>7, <1>8 DEF SpinInv
<1> QED
  BY <1>10, <1>11, <1>12 DEF SpinInv

\* An event handled: the others account for what they accounted for, and the
\* one handled for what is now shown.
LEMMA EventKeeps ==
  ASSUME TypeOK, SpinInv, NEW b \in Batches, OnEvent(b)
  PROVE  SpinInv'
<1> DEFINE old == batch[b].events
           e == Head(old)
<1>1. old \in Seq(Event) /\ old # <<>>
  BY DEF OnEvent, TypeOK
<1>2. /\ e \in Event /\ e = old[1] /\ Len(old) \in Nat /\ Len(old) > 0
      /\ Len(Tail(old)) = Len(old) - 1
      /\ \A i \in 1..(Len(old) - 1) : Tail(old)[i] = old[i + 1]
  BY <1>1, HeadTailProperties, EmptySeq
<1>3. /\ batch'[b].events = Tail(old)
      /\ batch'[b].over = batch[b].over /\ batch'[b].launched = batch[b].launched
      /\ batch'[b].steps = batch[b].steps
      /\ \A c \in Batches : c # b => batch'[c] = batch[c]
  BY DEF OnEvent, TypeOK
<1>4. /\ \A t \in Tunnels : t # e.tunnel => inFlight'[t] = inFlight[t]
      /\ e.tunnel \in Tunnels /\ (e.phase # "started" => inFlight'[e.tunnel] = "none")
  BY <1>2 DEF OnEvent, TypeOK, Event
<1> HIDE DEF old, e
<1>5. \A c \in Batches : \A t : Runs(c, t) => Runs(c, t)'
  BY <1>3 DEF Runs, Running
<1>6. \A c \in Batches : \A t : \A k \in Nat : c # b /\ Announced(c, t, k) => Announced(c, t, k)'
  BY <1>3 DEF Announced
<1>7. ASSUME NEW t, NEW k \in Nat, k >= 1, Announced(b, t, k + 1)
      PROVE  Announced(b, t, k)'
  <2>1. PICK j \in (k + 1)..Len(old) : old[j].phase = "finished" /\ old[j].tunnel = t
    BY <1>7 DEF Announced, old
  <2>2. j - 1 \in k..Len(Tail(old)) /\ Tail(old)[j - 1] = old[j]
    BY <2>1, <1>2, <1>7
  <2>3. \E i \in k..Len(Tail(old)) : Tail(old)[i].phase = "finished" /\ Tail(old)[i].tunnel = t
    BY <2>1, <2>2
  <2> QED
    BY <2>3, <1>3 DEF Announced
<1>8. ASSUME NEW t, Announced(b, t, 1), ~(e.phase = "finished" /\ e.tunnel = t)
      PROVE  Announced(b, t, 2)
  BY <1>2, <1>8 DEF Announced, old
<1>10. \A c \in Batches : /\ batch'[c].over \subseteq batch'[c].launched
                          /\ batch'[c].launched \subseteq batch'[c].steps
                          /\ batch'[c].steps = {} => batch'[c].events = <<>>
  BY <1>1, <1>3 DEF SpinInv, old
<1>11. ASSUME NEW c \in Batches, NEW k \in 1..Len(batch'[c].events),
              batch'[c].events[k].phase = "started"
       PROVE  (Runs(c, batch[c].events[k].tunnel) \/ Announced(c, batch[c].events[k].tunnel, k))'
  <2>1. CASE c # b
    BY <2>1, <1>3, <1>5, <1>6, <1>11 DEF SpinInv
  <2>2. CASE c = b
    <3>1. k + 1 \in 1..Len(old) /\ batch'[b].events[k] = old[k + 1] /\ k \in Nat /\ k >= 1
      BY <2>2, <1>2, <1>3, <1>11
    <3>2. Runs(b, old[k + 1].tunnel) \/ Announced(b, old[k + 1].tunnel, k + 1)
      BY <3>1, <2>2, <1>11 DEF SpinInv, old
    <3> QED
      BY <3>1, <3>2, <2>2, <1>5, <1>7
  <2> QED
    BY <2>1, <2>2
<1>12. ASSUME NEW t \in Tunnels, inFlight'[t] # "none"
       PROVE  \E c \in Batches : Runs(c, t)' \/ Announced(c, t, 1)'
  <2>1. CASE e.tunnel = t
    <3>1. e.phase = "started" /\ 1 \in 1..Len(old)
      BY <2>1, <1>2, <1>4, <1>12
    <3>2. Runs(b, t) \/ Announced(b, t, 1)
      BY <2>1, <3>1, <1>2 DEF SpinInv, old
    <3>3. Runs(b, t) \/ Announced(b, t, 2)
      BY <3>1, <3>2, <1>8
    <3> QED
      BY <3>3, <1>5, <1>7
  <2>2. CASE e.tunnel # t
    <3>1. PICK c \in Batches : Runs(c, t) \/ Announced(c, t, 1)
      BY <2>2, <1>4, <1>12 DEF SpinInv
    <3>2. CASE c # b
      BY <3>1, <3>2, <1>5, <1>6
    <3>3. CASE c = b
      BY <3>1, <3>3, <2>2, <1>5, <1>7, <1>8
    <3> QED
      BY <3>2, <3>3
  <2> QED
    BY <2>1, <2>2
<1> QED
  BY <1>10, <1>11, <1>12 DEF SpinInv

\* A slot taken or given back accounted for nothing.
LEMMA SlotKeeps ==
  ASSUME TypeOK, SpinInv, NEW b \in Batches, NEW steps,
         batch' = [batch EXCEPT ![b] = NewBatch(steps)], UNCHANGED inFlight,
         batch[b].events = <<>>, Running(b) = {}
  PROVE  SpinInv'
<1>1. /\ batch'[b] = [steps |-> steps, launched |-> {}, over |-> {}, events |-> <<>>]
      /\ \A c \in Batches : c # b => batch'[c] = batch[c]
  BY DEF NewBatch, TypeOK
<1>2. \A t, k : ~Runs(b, t)
  BY DEF Runs
<1>3. \A t : \A k \in Nat : ~(k >= 1 /\ Announced(b, t, k))
  BY DEF Announced
<1>4. \A c \in Batches : \A t : \A k \in Nat :
        c # b => (Runs(c, t) => Runs(c, t)') /\ (Announced(c, t, k) => Announced(c, t, k)')
  BY <1>1 DEF Runs, Running, Announced
<1>5. \A c \in Batches : /\ batch'[c].over \subseteq batch'[c].launched
                         /\ batch'[c].launched \subseteq batch'[c].steps
                         /\ batch'[c].steps = {} => batch'[c].events = <<>>
  BY <1>1 DEF SpinInv
<1>6. ASSUME NEW c \in Batches, NEW k \in 1..Len(batch'[c].events),
             batch'[c].events[k].phase = "started"
      PROVE  (Runs(c, batch[c].events[k].tunnel) \/ Announced(c, batch[c].events[k].tunnel, k))'
  <2>1. c # b
    BY <1>1, <1>6
  <2> QED
    BY <2>1, <1>1, <1>4, <1>6 DEF SpinInv
<1>7. ASSUME NEW t \in Tunnels, inFlight'[t] # "none"
      PROVE  \E c \in Batches : Runs(c, t)' \/ Announced(c, t, 1)'
  <2>1. PICK c \in Batches : Runs(c, t) \/ Announced(c, t, 1)
    BY <1>7 DEF SpinInv
  <2>2. c # b
    BY <2>1, <1>2, <1>3
  <2> QED
    BY <2>1, <2>2, <1>4
<1> QED
  BY <1>5, <1>6, <1>7 DEF SpinInv

LEMMA StartKeeps ==
  ASSUME TypeOK, SpinInv, NEW steps, StartBatch(steps)
  PROVE  SpinInv'
<1>1. PICK b \in Batches : ~Live(b) /\ batch' = [batch EXCEPT ![b] = NewBatch(Idle(steps))]
  BY DEF StartBatch
<1>2. batch[b].events = <<>> /\ Running(b) = {}
  BY <1>1 DEF SpinInv, Live, Running
<1>3. UNCHANGED inFlight
  BY DEF StartBatch, screen
<1> QED
  BY <1>1, <1>2, <1>3, SlotKeeps

LEMMA DoneKeeps ==
  ASSUME TypeOK, SpinInv, NEW b \in Batches, OnBatchDone(b)
  PROVE  SpinInv'
<1>1. batch' = [batch EXCEPT ![b] = NewBatch({})]
  BY DEF OnBatchDone, Closes, NoBatch
<1>2. batch[b].events = <<>> /\ Running(b) = {}
  BY DEF OnBatchDone, Drained, SpinInv, Running
<1>3. UNCHANGED inFlight
  BY DEF OnBatchDone, screen
<1> QED
  BY <1>1, <1>2, <1>3, SlotKeeps

LEMMA NextSpins == TypeOK /\ SpinInv /\ [Next]_vars => SpinInv'
<1> SUFFICES ASSUME TypeOK, SpinInv, [Next]_vars PROVE SpinInv'
  OBVIOUS
<1>0. ASSUME UNCHANGED <<batch, inFlight>>
      PROVE  SpinInv'
  BY <1>0, SMTT(30) DEF SpinInv, Runs, Running, Announced
<1>1. CASE Tick \/ Beat \/ OnPing \/ OnRequest \/ KeyRefresh \/ KeyPing
  BY <1>1, <1>0 DEF Tick, Beat, OnPing, OnRequest, KeyRefresh, KeyPing, work, screen
<1>2. CASE KeyEnter \/ KeyStopStart \/ KeyNeeded
  BY <1>2, StartKeeps DEF KeyEnter, KeyStopStart, KeyNeeded
<1>3. CASE \E r \in Reads : ReadSystem(r) \/ FailToRead(r) \/ OnView(r)
  BY <1>3, <1>0 DEF ReadSystem, FailToRead, OnView, work, screen
<1>4. CASE \E v \in publishing : Publish(v)
  BY <1>4, <1>0 DEF Publish, work, screen
<1>5. CASE \E kind \in Requests : Ask(kind)
  BY <1>5, <1>0 DEF Ask, work, screen
<1>6. CASE \E b \in Batches : Launch(b)
  BY <1>6, LaunchKeeps
<1>7. CASE \E b \in Batches : OnEvent(b)
  BY <1>7, EventKeeps
<1>8. CASE \E b \in Batches : OnBatchDone(b)
  BY <1>8, DoneKeeps
<1>9. CASE \E b \in Batches : \E s \in Running(b) : Finish(b, s)
  BY <1>9, FinishKeeps
<1>10. CASE ChangeMachine
  BY <1>10, <1>0 DEF ChangeMachine, work, screen
<1>11. CASE UNCHANGED vars
  BY <1>11, <1>0 DEF vars, work, screen
<1> QED
  BY <1>1, <1>2, <1>3, <1>4, <1>5, <1>6, <1>7, <1>8, <1>9, <1>10, <1>11 DEF Next

\* However many batches overlap, and whatever they work on, a tunnel shown as
\* being worked on has a run under way or an end still to be heard of, and the
\* count of batches is their number (update.go:137-151, 185-189;
\* batch.go:136-164).
THEOREM NothingIsLeftSpinning == Spec => []NothingLeftSpinning
<1> QED
  BY InitCounts, TuiTypeCorrect, NextCounts, NextSpins, SpinIsLeftByNobody, PTL DEF Spec

-----------------------------------------------------------------------------
(* What the table shows once everything is quiet.                          *)

\* The inductive form of RightUnlessDoubted: without a doubt at most one read
\* is out, and when no batch is running what it saw, or with none out what is
\* shown, is the machine.
RightInv ==
  doubted = FALSE =>
    /\ \A q, r \in ReadsOut : q = r
    /\ batches = 0 => /\ \A r \in Reads : read[r].at = "read" => read[r].seen = Machine
                      /\ ReadsOut = {} => view = Machine

\* A run under way belongs to a batch that is counted.
LEMMA RunningIsCounted ==
  ASSUME CountIsRight, SpinInv, NEW b \in Batches, NEW s \in Running(b)
  PROVE  batches # 0
<1>1. b \in LiveBatches
  BY DEF LiveBatches, Live, Running, SpinInv
<1> QED
  BY <1>1, BatchesAreFinite, FS_EmptySet DEF CountIsRight

\* A read that starts with none out is the only one, and has yet to see.
LEMMA RefreshIsRight ==
  ASSUME TypeOK, Refresh
  PROVE  RightInv'
<1>1. PICK r \in Reads : read' = [read EXCEPT ![r] = [NoRead EXCEPT !.at = "asked"]]
  BY DEF Refresh
<1>2. [NoRead EXCEPT !.at = "asked"].at = "asked"
  BY DEF NoRead
<1>3. read'[r].at = "asked" /\ \A q \in Reads : q # r => read'[q] = read[q]
  BY <1>1, <1>2 DEF TypeOK
<1>4. doubted' = FALSE => \A q \in Reads : q # r => read'[q].at = "idle"
  BY <1>3 DEF Refresh, ReadsOut
<1>5. doubted' = FALSE => ReadsOut' = {r}
  BY <1>3, <1>4 DEF ReadsOut
<1> QED
  BY <1>3, <1>4, <1>5 DEF RightInv

LEMMA NextRight ==
  TypeOK /\ CountIsRight /\ SpinInv /\ RightInv /\ [Next]_vars => RightInv'
<1> SUFFICES ASSUME TypeOK, CountIsRight, SpinInv, RightInv, [Next]_vars
             PROVE  RightInv'
  OBVIOUS
<1>t. refreshing \in BOOLEAN /\ batches \in Nat
  BY DEF TypeOK
<1>d. ASSUME doubted' = TRUE
      PROVE  RightInv'
  BY <1>d DEF RightInv
\* The machine, the table and the reads as they were, and nothing made quiet.
<1>0. ASSUME UNCHANGED <<up, view, read, doubted>>, batches' = 0 => batches = 0
      PROVE  RightInv'
  BY <1>0 DEF RightInv, ReadsOut, Machine
<1>r. ASSUME RefreshUnlessOut, UNCHANGED <<up, view, batches>>
      PROVE  RightInv'
  BY <1>r, <1>0, RefreshIsRight DEF RefreshUnlessOut, reading
<1>1. CASE Tick
  BY <1>1, <1>r DEF Tick, screen, work
<1>2. CASE Beat \/ OnPing \/ KeyPing
  BY <1>2, <1>0 DEF Beat, OnPing, KeyPing, screen, work, reading
<1>3. CASE OnRequest
  BY <1>3, <1>r, <1>0 DEF OnRequest, Answer, work, reading
<1>4. CASE KeyRefresh
  BY <1>4, RefreshIsRight DEF KeyRefresh
<1>5. ASSUME NEW steps, StartBatch(steps)
      PROVE  RightInv'
  BY <1>5, <1>t, <1>0 DEF StartBatch, screen, reading
<1>6. CASE KeyEnter \/ KeyStopStart \/ KeyNeeded
  BY <1>6, <1>5 DEF KeyEnter, KeyStopStart, KeyNeeded
<1>7. CASE \E r \in Reads : ReadSystem(r) \/ FailToRead(r)
  <2>1. PICK r \in Reads : ReadSystem(r) \/ FailToRead(r)
    BY <1>7
  <2>2. UNCHANGED <<up, view, batches, doubted>>
    BY <2>1 DEF ReadSystem, FailToRead, screen, work
  <2>3. read'[r].at = "failed" \/ (read'[r].at = "read" /\ read'[r].seen = Machine)
    BY <2>1 DEF ReadSystem, FailToRead, TypeOK
  <2>4. read[r].at = "asked" /\ \A q \in Reads : q # r => read'[q] = read[q]
    BY <2>1 DEF ReadSystem, FailToRead, TypeOK
  <2>5. ReadsOut' = ReadsOut
    BY <2>3, <2>4 DEF ReadsOut
  <2>6. r \in ReadsOut
    BY <2>4 DEF ReadsOut
  <2> QED
    BY <2>2, <2>3, <2>4, <2>5, <2>6 DEF RightInv, Machine
<1>8. CASE \E r \in Reads : OnView(r)
  <2>1. PICK r \in Reads : OnView(r)
    BY <1>8
  <2>2. CASE read[r].at = "failed"
    BY <2>1, <2>2, <1>d DEF OnView
  <2>3. CASE read[r].at = "read"
    <3>1. UNCHANGED <<up, batches, doubted>> /\ view' = read[r].seen
      BY <2>1, <2>3 DEF OnView, Shows, work
    <3>2. NoRead.at = "idle"
      BY DEF NoRead
    <3>3. read'[r].at = "idle" /\ \A q \in Reads : q # r => read'[q] = read[q]
      BY <2>1, <3>2 DEF OnView, TypeOK
    <3>4. r \in ReadsOut
      BY <2>3 DEF ReadsOut
    <3>5. ReadsOut' \subseteq ReadsOut
      BY <3>3 DEF ReadsOut
    <3>6. ASSUME doubted' = FALSE, batches' = 0
          PROVE  read[r].seen = Machine
      BY <3>6, <3>1, <2>3 DEF RightInv
    <3>7. \A q \in Reads : read'[q].at = "read" => read'[q] = read[q]
      BY <3>3
    <3> QED
      BY <3>1, <3>5, <3>6, <3>7 DEF RightInv, Machine
  <2> QED
    BY <2>1, <2>2, <2>3 DEF OnView
<1>9. CASE \E v \in publishing : Publish(v)
  BY <1>9, <1>0 DEF Publish, screen, work, reading
<1>10. CASE \E kind \in Requests : Ask(kind)
  BY <1>10, <1>0 DEF Ask, screen, work, reading
<1>11. CASE \E b \in Batches : Launch(b) \/ OnEvent(b)
  BY <1>11, <1>0 DEF Launch, OnEvent, screen, reading
<1>12. CASE \E b \in Batches : \E s \in Running(b) : Finish(b, s)
  <2>1. batches' = batches /\ batches # 0 /\ UNCHANGED reading
    BY <1>12, RunningIsCounted DEF Finish
  <2> QED
    BY <2>1 DEF RightInv, reading, ReadsOut
<1>13. CASE \E b \in Batches : OnBatchDone(b)
  <2>1. PICK b \in Batches : OnBatchDone(b)
    BY <1>13
  <2>2. batches' \in Nat
    BY <2>1, <1>t DEF OnBatchDone, Closes
  <2>3. CASE batches' > 0
    BY <2>1, <2>2, <2>3, <1>0 DEF OnBatchDone, screen, reading
  <2>4. CASE ~(batches' > 0) /\ refreshing
    BY <2>1, <2>4, <1>d DEF OnBatchDone
  <2>5. CASE ~(batches' > 0) /\ ~refreshing
    BY <2>1, <2>5, RefreshIsRight DEF OnBatchDone
  <2> QED
    BY <2>3, <2>4, <2>5
<1>14. CASE ChangeMachine
  BY <1>14, <1>d DEF ChangeMachine
<1>15. CASE UNCHANGED vars
  BY <1>15, <1>0 DEF vars, screen, work, reading
<1> QED
  BY <1>1, <1>2, <1>3, <1>4, <1>6, <1>7, <1>8, <1>9, <1>10, <1>11, <1>12, <1>13, <1>14,
     <1>15 DEF Next

\* For any number of tunnels, batches and reads, once nothing runs and nothing
\* is read the table shows the machine, but for the cases the property
\* names (update.go:185-197).
THEOREM QuietIsRight == Spec => []RightUnlessDoubted
<1>1. Init => RightInv
  <2> SUFFICES ASSUME Init PROVE RightInv
    OBVIOUS
  <2>1. ReadsOut = {1} /\ \A r \in Reads : read[r].at # "read"
    BY SizeAssumption DEF Init, ReadsOut, NoRead, Reads
  <2> QED
    BY <2>1 DEF RightInv
<1>2. TypeOK /\ RightInv => RightUnlessDoubted
  BY DEF TypeOK, RightInv, RightUnlessDoubted
<1> QED
  BY <1>1, <1>2, InitCounts, TuiTypeCorrect, NextCounts, NextSpins, NextRight, PTL DEF Spec
=============================================================================
