-------------------------- MODULE FeedSeats_proofs --------------------------
(***************************************************************************)
(* Seats, sampling loops and replayed views of FeedServer, for every       *)
(* number of clients, publish commands, loops and tunnels: what MaxClients, *)
(* the retick and shutdown promise together, and that nobody sits blank.   *)
(***************************************************************************)
EXTENDS FeedServer_proofs, FiniteSetTheorems

-----------------------------------------------------------------------------
(* The inductive invariants.                                               *)

\* add counts the clients before it registers one: whatever goes on in between
\* only takes clients off.
SeatInv ==
  /\ IsFiniteSet(live) /\ Cardinality(live) <= MaxClients
  /\ pc[Acceptor] = "register" => Cardinality(live) < MaxClients

\* From its first critical section on, shutdown has left nobody to watch; from
\* its second on, no loop to be told.
DownInv ==
  /\ closing <=> pc[Stopper] \in {"farewell", "unlink", "down"}
  /\ closing => live = {}
  /\ pc[Stopper] \in {"unlink", "down"} => sampling = None

LoopInv ==
  /\ sampling # None => pc[sampling] # "off" /\ ~ stopped[sampling]
  /\ \A l \in Loops : pc[l] # "off" /\ l # sampling => stopped[l]

\* A client that is not yet registered watches nothing, so that registering it
\* does not change whether anything is watched.
WatchInv ==
  /\ \A c \in Clients : pc[c] = "off" => watch[c] = {}
  /\ ((sampling # None) <=> Watched) \/ RetickPending \/ pc[Stopper] = "farewell"

SamplingInv == DownInv /\ LoopInv /\ WatchInv

\* The typing the lemmas need.
SeatTypes ==
  /\ LifeTypes /\ StopperInv /\ FreshInv
  /\ closing \in BOOLEAN
  /\ sampling \in Loops \cup {None}
  /\ stopped \in [Loops -> BOOLEAN]
  /\ watch \in [Clients -> SUBSET Tunnels]

LEMMA SeatTyped == TypeInv /\ CloseInv => SeatTypes
BY LifeTyped DEF TypeInv, TypeOK, CloseInv, SeatTypes

LEMMA SeatInit == Init => SeatInv /\ SamplingInv
<1> SUFFICES ASSUME Init PROVE SeatInv /\ SamplingInv
  OBVIOUS
<1>1. IsFiniteSet(live) /\ Cardinality(live) = 0 /\ MaxClients \in Nat
  BY FS_EmptySet, ConstantsAssumption DEF Init
<1>2. SeatInv
  BY <1>1, ProcsApart DEF SeatInv, Init
<1>3. SamplingInv
  BY ProcsApart DEF SamplingInv, DownInv, LoopInv, WatchInv, Watched, Init
<1> QED BY <1>2, <1>3

-----------------------------------------------------------------------------
(* Seats.                                                                  *)

\* Taking clients off a server keeps it within its bound.
LEMMA FewerSeats ==
  ASSUME SeatInv, live' \subseteq live, pc'[Acceptor] = "register" => pc[Acceptor] = "register"
  PROVE  SeatInv'
<1>1. IsFiniteSet(live') /\ Cardinality(live') <= Cardinality(live)
  BY FS_Subset DEF SeatInv
<1>2. Cardinality(live) \in Nat /\ Cardinality(live') \in Nat /\ MaxClients \in Nat
  BY <1>1, FS_CardinalityType, ConstantsAssumption DEF SeatInv
<1> QED BY <1>1, <1>2 DEF SeatInv

LEMMA SeatStep == SeatTypes /\ SeatInv /\ [Next]_vars => SeatInv'
<1> SUFFICES ASSUME SeatTypes, SeatInv, [Next]_vars PROVE SeatInv'
  OBVIOUS
<1> USE ProcsApart
    DEF SeatTypes, LifeTypes, desk, ticking, asks, queue, wire, client, procs, world
<1> DEFINE Kept == /\ live' \subseteq live
                   /\ pc'[Acceptor] = "register" => pc[Acceptor] = "register"
<1>1. ASSUME NEW p \in Procs, Call(p) PROVE Kept
  <2>1. CASE SendToGone(p) \/ Enqueue(p) \/ Overflow(p)
    <3>1. \E place \in {"send", "gone", "reading", "tick", "idle", "drop"} :
            pc' = [pc EXCEPT ![p] = place]
      BY <2>1, ResumePlaces DEF SendToGone, Enqueue, Overflow
    <3>2. live' = live
      BY <2>1 DEF SendToGone, Enqueue, Overflow
    <3> QED BY <3>1, <3>2
  <2>2. CASE DropFirst(p) \/ DropAgain(p) \/ CloseClient(p)
    BY <2>2, ResumePlaces DEF DropFirst, DropAgain, CloseClient
  <2>3. CASE StartLoop(p) \/ StopLoop(p) \/ KeepLoop(p)
    BY <2>3, ResumePlaces DEF StartLoop, StopLoop, KeepLoop, RetickKeeps
  <2> QED BY <1>1, <2>1, <2>2, <2>3 DEF Call
<1>2. CASE Register
  <2>1. target[Acceptor] \in Clients /\ live' = live \cup {target[Acceptor]}
    BY <1>2 DEF Register
  <2>2. pc'[Acceptor] = "send"
    BY <1>2, <2>1 DEF Register
  <2>3. IsFiniteSet(live') /\ Cardinality(live') <= Cardinality(live) + 1
    <3> DEFINE c == target[Acceptor]
    <3>1. IsFiniteSet(live) /\ Cardinality(live) \in Nat
      BY FS_CardinalityType DEF SeatInv
    <3>2. /\ IsFiniteSet(live \cup {c})
          /\ Cardinality(live \cup {c}) \in {Cardinality(live), Cardinality(live) + 1}
      BY <3>1, FS_AddElement, Zenon
    <3> QED BY <2>1, <3>1, <3>2
  <2>4. Cardinality(live) \in Nat /\ Cardinality(live') \in Nat /\ MaxClients \in Nat
    BY <2>3, FS_CardinalityType, ConstantsAssumption DEF SeatInv
  <2>5. Cardinality(live) < MaxClients
    BY <1>2 DEF Register, SeatInv
  <2> QED BY <2>2, <2>3, <2>4, <2>5 DEF SeatInv
<1>3. CASE \E c \in Clients : Admit(c)
  BY <1>3 DEF Admit, SeatInv
<1>4. CASE Accepting /\ ~ Register /\ ~ \E c \in Clients : Admit(c)
  <2>1. Kept
    BY <1>4 DEF Accepting, Refuse, TurnAway, RegisterTooLate, AcceptFails, ServeReturns
  <2> QED BY <2>1, FewerSeats
<1>5. ASSUME NEW c \in Clients, Writing(c) \/ Reading(c) PROVE Kept
  BY <1>5 DEF Writing, Write, WriteFails, WriterEnds, Reading, ScanEnds, Stamp, PutRequest, Challenge,
     Watch, Unwatch, Ask
<1>6. CASE Interface \/ Floors
  <2>1. Kept
    BY <1>6, ResumePlaces DEF Interface, TakeMeasure, Publish, PublishPings, FanOut, TakeRequest,
       Floors, FloorPasses, ChallengeFloorPasses
  <2> QED BY <2>1, FewerSeats
<1>7. ASSUME NEW l \in Loops, Looping(l) PROVE Kept
  <2>1. CASE StartRound(l) \/ LoopEnds(l)
    BY <2>1 DEF StartRound, LoopEnds
  <2>2. CASE \E t \in Tunnels : ReadCounters(l, t)
    BY <2>2 DEF ReadCounters
  <2>3. CASE \E t \in Tunnels : NoCounters(l, t)
    BY <2>3, ResumePlaces DEF NoCounters
  <2> QED BY <1>7, <2>1, <2>2, <2>3 DEF Looping
<1>8. CASE Stopping \/ Exit \/ UNCHANGED vars
  <2>1. Kept
    BY <1>8 DEF Stopping, Cancel, TakeAll, Farewell, HushSampling, Close, Exit, vars
  <2> QED BY <2>1, FewerSeats
<1> QED
  BY <1>1, <1>2, <1>3, <1>4, <1>5, <1>6, <1>7, <1>8, FewerSeats DEF Next, Running, Ended

-----------------------------------------------------------------------------
(* Sampling loops.  What disturbs them is few: a change of who is watched, a *)
(* retick, the end of a loop, the second critical section of shutdown.       *)

\* A step that leaves the clients, what they watch and the loops alone, and
\* takes nobody out of the gap before a retick.
Aside ==
  /\ UNCHANGED <<live, closing, sampling, stopped, watch>>
  /\ \A p \in Procs : pc[p] \in {"close", "retick"} => pc'[p] \in {"close", "retick"}
  /\ \A l \in Loops : pc'[l] = "off" <=> pc[l] = "off"
  /\ \A c \in Clients : pc'[c] = "off" => pc[c] = "off"
  /\ \/ pc'[Stopper] = pc[Stopper]
     \/ pc[Stopper] \in {"up", "stopping"} /\ pc'[Stopper] \in {"up", "stopping"}
     \/ pc[Stopper] \in {"unlink", "down"} /\ pc'[Stopper] \in {"unlink", "down"}

LEMMA AsideKeeps ==
  ASSUME SeatTypes, SamplingInv, Aside
  PROVE  SamplingInv'
<1> USE ProcsApart DEF SeatTypes, LifeTypes, Aside
<1>1. DownInv'
  BY DEF SamplingInv, DownInv
<1>2. LoopInv'
  BY DEF SamplingInv, LoopInv
<1>3. WatchInv'
  <2>1. Watched' = Watched
    BY DEF Watched
  <2>2. RetickPending => RetickPending'
    BY DEF RetickPending
  <2> QED BY <2>1, <2>2 DEF SamplingInv, WatchInv
<1> QED BY <1>1, <1>2, <1>3 DEF SamplingInv

LEMMA SamplingCalls ==
  ASSUME SeatTypes, SamplingInv, NEW p \in Procs, Call(p)
  PROVE  SamplingInv'
<1> USE ProcsApart
    DEF SeatTypes, LifeTypes, desk, ticking, asks, queue, wire, client, procs, world
<1>1. CASE SendToGone(p) \/ Enqueue(p) \/ Overflow(p) \/ DropAgain(p) \/ CloseClient(p)
  <2>1. PICK place \in {"send", "gone", "reading", "tick", "idle", "drop", "retick"} :
          /\ pc' = [pc EXCEPT ![p] = place]
          /\ pc[p] \in {"send", "drop", "close"}
          /\ pc[p] = "close" => place = "retick"
    BY <1>1, ResumePlaces DEF SendToGone, Enqueue, Overflow, DropAgain, CloseClient
  <2>2. UNCHANGED <<live, closing, sampling, stopped, watch>>
    BY <1>1 DEF SendToGone, Enqueue, Overflow, DropAgain, CloseClient
  <2>3. Aside
    BY <2>1, <2>2 DEF Aside, StopperInv
  <2> QED BY <2>3, AsideKeeps
<1>2. CASE DropFirst(p)
  <2>1. RetickPending'
    BY <1>2 DEF DropFirst, RetickPending
  <2> QED BY <1>2, <2>1 DEF DropFirst, SamplingInv, DownInv, LoopInv, WatchInv, StopperInv
<1>3. CASE StartLoop(p)
  <2>1. PICK l \in Loops :
          /\ pc[l] = "off" /\ sampling' = l
          /\ stopped' = [stopped EXCEPT ![l] = FALSE]
          /\ pc' = [pc EXCEPT ![p] = Resume(p, todo[p]), ![l] = "tick"]
    BY <1>3 DEF StartLoop
  <2>2. /\ Watched /\ sampling = None /\ pc[p] = "retick"
        /\ UNCHANGED <<live, closing, watch>>
    BY <1>3 DEF StartLoop, RetickKeeps
  <2>3. live # {} /\ ~ closing /\ p # Stopper /\ p # l /\ l # Stopper
    BY <2>1, <2>2 DEF Watched, SamplingInv, DownInv, StopperInv
  <2>4. /\ pc'[Stopper] = pc[Stopper] /\ pc'[l] = "tick"
        /\ \A q \in Procs \ {l} : pc'[q] = "off" <=> pc[q] = "off"
    <3>1. Resume(p, todo[p]) # "off"
      BY ResumePlaces
    <3> QED BY <2>1, <2>2, <2>3, <3>1
  <2>5. Watched'
    BY <2>2 DEF Watched
  <2>6. DownInv'
    BY <2>2, <2>3, <2>4 DEF SamplingInv, DownInv
  <2>7. LoopInv'
    BY <2>1, <2>2, <2>4 DEF SamplingInv, LoopInv
  <2>8. WatchInv'
    BY <2>1, <2>2, <2>4, <2>5 DEF SamplingInv, WatchInv
  <2> QED BY <2>6, <2>7, <2>8 DEF SamplingInv
<1>4. CASE StopLoop(p) \/ KeepLoop(p)
  <2>1. /\ pc[p] = "retick" /\ pc' = [pc EXCEPT ![p] = Resume(p, todo[p])]
        /\ UNCHANGED <<live, closing, watch>>
        /\ \/ ~ Watched /\ sampling # None /\ sampling' = None
              /\ stopped' = [stopped EXCEPT ![sampling] = TRUE]
           \/ (Watched <=> sampling # None) /\ UNCHANGED <<sampling, stopped>>
    BY <1>4 DEF StopLoop, KeepLoop, RetickKeeps
  <2>2. p # Stopper /\ pc'[Stopper] = pc[Stopper]
        /\ \A q \in Procs : pc'[q] = "off" <=> pc[q] = "off"
    BY <2>1, ResumePlaces DEF StopperInv
  <2>3. Watched' = Watched
    BY <2>1 DEF Watched
  <2>4. DownInv'
    BY <2>1, <2>2 DEF SamplingInv, DownInv
  <2>5. LoopInv'
    BY <2>1, <2>2 DEF SamplingInv, LoopInv
  <2>6. WatchInv'
    BY <2>1, <2>2, <2>3 DEF SamplingInv, WatchInv
  <2> QED BY <2>4, <2>5, <2>6 DEF SamplingInv
<1> QED BY <1>1, <1>2, <1>3, <1>4 DEF Call

LEMMA SamplingAccepting ==
  ASSUME SeatTypes, SamplingInv, Accepting
  PROVE  SamplingInv'
<1> USE ProcsApart
    DEF SeatTypes, LifeTypes, desk, ticking, asks, queue, wire, client, procs, world
<1>1. CASE Register
  <2> DEFINE c == target[Acceptor]
  <2>1. /\ c \in Clients /\ pc[c] = "off" /\ pc[Acceptor] = "register" /\ ~ closing
        /\ live' = live \cup {c} /\ pc' = [pc EXCEPT ![Acceptor] = "send", ![c] = "reading"]
        /\ UNCHANGED <<closing, sampling, stopped, watch>>
    BY <1>1 DEF Register, FreshInv, Fresh
  <2> HIDE DEF c
  <2>2. watch[c] = {} /\ Watched' = Watched
    BY <2>1 DEF SamplingInv, WatchInv, Watched
  <2>3. RetickPending => RetickPending'
    BY <2>1 DEF RetickPending
  <2>4. DownInv'
    BY <2>1 DEF SamplingInv, DownInv
  <2>5. LoopInv'
    BY <2>1 DEF SamplingInv, LoopInv
  <2>6. WatchInv'
    BY <2>1, <2>2, <2>3 DEF SamplingInv, WatchInv
  <2> QED BY <2>4, <2>5, <2>6 DEF SamplingInv
<1>2. CASE \E c \in Clients : Refuse(c) \/ TurnAway(c) \/ Admit(c)
  <2>1. Aside
    BY <1>2 DEF Refuse, TurnAway, Admit, Aside
  <2> QED BY <2>1, AsideKeeps
<1>3. CASE RegisterTooLate \/ AcceptFails \/ ServeReturns
  <2>1. Aside
    BY <1>3 DEF RegisterTooLate, AcceptFails, ServeReturns, Aside
  <2> QED BY <2>1, AsideKeeps
<1> QED BY <1>1, <1>2, <1>3 DEF Accepting

LEMMA SamplingReading ==
  ASSUME SeatTypes, SamplingInv, NEW c \in Clients, Reading(c)
  PROVE  SamplingInv'
<1> USE ProcsApart
    DEF SeatTypes, LifeTypes, desk, ticking, asks, queue, wire, client, procs, world
<1>1. CASE \E t \in Tunnels : Watch(c, t) \/ Unwatch(c, t)
  <2>1. /\ pc[c] = "reading" /\ pc' = [pc EXCEPT ![c] = "retick"]
        /\ UNCHANGED <<live, closing, sampling, stopped>>
        /\ \A k \in Clients \ {c} : watch'[k] = watch[k]
    BY <1>1 DEF Watch, Unwatch
  <2>2. RetickPending'
    BY <2>1 DEF RetickPending
  <2>3. DownInv'
    BY <2>1 DEF SamplingInv, DownInv
  <2>4. LoopInv'
    BY <2>1 DEF SamplingInv, LoopInv
  <2>5. WatchInv'
    BY <2>1, <2>2 DEF SamplingInv, WatchInv
  <2> QED BY <2>3, <2>4, <2>5 DEF SamplingInv
<1>2. CASE ~ \E t \in Tunnels : Watch(c, t) \/ Unwatch(c, t)
  <2>1. PICK place \in {"drop", "reading", "send", "ask", "offer"} :
          /\ pc[c] \in {"reading", "ask", "offer"} /\ pc' = [pc EXCEPT ![c] = place]
          /\ UNCHANGED <<live, closing, sampling, stopped, watch>>
    BY <1>2 DEF Reading, ScanEnds, Stamp, PutRequest, Challenge, Ask
  <2>2. Aside
    BY <2>1 DEF Aside
  <2> QED BY <2>2, AsideKeeps
<1> QED BY <1>1, <1>2

LEMMA SamplingLooping ==
  ASSUME SeatTypes, SamplingInv, NEW l \in Loops, Looping(l)
  PROVE  SamplingInv'
<1> USE ProcsApart
    DEF SeatTypes, LifeTypes, desk, ticking, asks, queue, wire, client, procs, world
<1>1. CASE LoopEnds(l)
  <2>1. /\ pc[l] = "tick" /\ stopped[l] /\ pc' = [pc EXCEPT ![l] = "off"]
        /\ UNCHANGED <<live, closing, sampling, stopped, watch>>
    BY <1>1 DEF LoopEnds
  <2>2. sampling # l
    BY <2>1 DEF SamplingInv, LoopInv
  <2>3. Watched' = Watched /\ (RetickPending => RetickPending')
    BY <2>1 DEF Watched, RetickPending
  <2>4. DownInv'
    BY <2>1 DEF SamplingInv, DownInv
  <2>5. LoopInv'
    BY <2>1, <2>2 DEF SamplingInv, LoopInv
  <2>6. WatchInv'
    BY <2>1, <2>3 DEF SamplingInv, WatchInv
  <2> QED BY <2>4, <2>5, <2>6 DEF SamplingInv
<1>2. CASE ~ LoopEnds(l)
  <2>1. UNCHANGED <<live, closing, sampling, stopped, watch>> /\ pc[l] \in {"tick", "send"}
    <3>1. CASE StartRound(l)
      BY <3>1 DEF StartRound
    <3>2. CASE \E t \in Tunnels : ReadCounters(l, t)
      BY <3>2 DEF ReadCounters
    <3>3. CASE \E t \in Tunnels : NoCounters(l, t)
      BY <3>3 DEF NoCounters
    <3> QED BY <1>2, <3>1, <3>2, <3>3 DEF Looping
  <2>2. \E place \in {"tick", "send", "gone", "reading", "idle"} : pc' = [pc EXCEPT ![l] = place]
    <3>1. CASE StartRound(l)
      BY <3>1 DEF StartRound
    <3>2. CASE \E t \in Tunnels : ReadCounters(l, t)
      <4>1. pc' = pc /\ pc[l] = "send"
        BY <3>2 DEF ReadCounters
      <4> QED BY <4>1
    <3>3. CASE \E t \in Tunnels : NoCounters(l, t)
      BY <3>3, ResumePlaces DEF NoCounters
    <3> QED BY <1>2, <3>1, <3>2, <3>3 DEF Looping
  <2>3. Aside
    BY <2>1, <2>2 DEF Aside
  <2> QED BY <2>3, AsideKeeps
<1> QED BY <1>1, <1>2

LEMMA SamplingStopping ==
  ASSUME SeatTypes, SamplingInv, Stopping
  PROVE  SamplingInv'
<1> USE ProcsApart
    DEF SeatTypes, LifeTypes, desk, ticking, asks, queue, wire, client, procs, world
<1>1. CASE TakeAll
  <2>1. /\ closing' = TRUE /\ live' = {} /\ pc' = [pc EXCEPT ![Stopper] = "farewell"]
        /\ UNCHANGED <<sampling, stopped, watch>>
    BY <1>1 DEF TakeAll
  <2> QED BY <2>1 DEF SamplingInv, DownInv, LoopInv, WatchInv
<1>2. CASE HushSampling
  <2>1. /\ pc[Stopper] = "farewell" /\ pc' = [pc EXCEPT ![Stopper] = "unlink"]
        /\ stopped' = [l \in Loops |-> stopped[l] \/ l = sampling] /\ sampling' = None
        /\ UNCHANGED <<live, closing, watch>>
    BY <1>2 DEF HushSampling
  <2>2. live' = {} /\ ~ Watched'
    BY <2>1 DEF SamplingInv, DownInv, Watched
  <2> QED BY <2>1, <2>2 DEF SamplingInv, DownInv, LoopInv, WatchInv
<1>3. CASE Cancel \/ Farewell \/ Close
  <2>1. Aside
    BY <1>3 DEF Cancel, Farewell, Close, Aside
  <2> QED BY <2>1, AsideKeeps
<1> QED BY <1>1, <1>2, <1>3 DEF Stopping

LEMMA SamplingStep == SeatTypes /\ SamplingInv /\ [Next]_vars => SamplingInv'
<1> SUFFICES ASSUME SeatTypes, SamplingInv, [Next]_vars PROVE SamplingInv'
  OBVIOUS
<1> USE ProcsApart
    DEF SeatTypes, LifeTypes, desk, ticking, asks, queue, wire, client, procs, world
<1>1. ASSUME NEW c \in Clients, Writing(c) PROVE Aside
  BY <1>1 DEF Writing, Write, WriteFails, WriterEnds, Aside
<1>2. Interface => Aside
  <2>1. (\E p \in Publishers : TakeMeasure(p)) \/ TakeRequest => Aside
    BY DEF TakeMeasure, TakeRequest, Aside
  <2>2. ASSUME NEW p \in Publishers, Publish(p) \/ PublishPings(p) PROVE Aside
    BY <2>2, ResumePlaces DEF Publish, PublishPings, FanOut, Aside
  <2> QED BY <2>1, <2>2 DEF Interface
<1>3. Floors \/ Exit \/ UNCHANGED vars => Aside
  BY DEF Floors, FloorPasses, ChallengeFloorPasses, Exit, vars, Aside
<1> QED
  BY <1>1, <1>2, <1>3, AsideKeeps, SamplingCalls, SamplingAccepting, SamplingReading,
     SamplingLooping, SamplingStopping DEF Next, Running, Ended

-----------------------------------------------------------------------------
LEMMA SeatsAlways == Spec => [](SeatInv /\ SamplingInv)
BY SeatInit, SeatStep, SamplingStep, SeatTyped, TypeAlways, CloseAlways, PTL DEF Spec

\* A client has a seat only if one was free and only while the server is up
\* (add 540-569, full 218-222, shutdown 892-925), for every bound.
THEOREM NoSeatIsOverbooked == Spec => []SeatsAreKept
<1>1. SeatInv /\ SamplingInv => SeatsAreKept
  <2> SUFFICES ASSUME SeatInv, SamplingInv, pc[Stopper] \in {"unlink", "down"}
               PROVE  \A l \in Loops : pc[l] # "off" => stopped[l]
    BY DEF SeatInv, SamplingInv, DownInv, SeatsAreKept
  <2> QED BY ProcsApart DEF SamplingInv, DownInv, LoopInv
<1> QED BY SeatsAlways, <1>1, PTL

\* One loop exactly while something is watched (retick and sampleLoop 768-809),
\* however many readers change their minds at once.
THEOREM OneLoopWhileWatched == Spec => []SamplingFollowsWatches
<1>1. SamplingInv => SamplingFollowsWatches
  BY DEF SamplingInv, LoopInv, WatchInv, SamplingFollowsWatches
<1> QED BY SeatsAlways, <1>1, PTL

-----------------------------------------------------------------------------
(* Nobody sits blank.  Once there is a view, every client has read one, or  *)
(* has one in its queue, or is owed one, or is about to be dropped.          *)

HasState(q) == \E i \in 1..Len(q) : q[i].kind = "state"

Promised(c) == \E p \in Procs : \E d \in todo[p] : d.to = c /\ d.msg.kind = "state"
Doomed(c)   == \E p \in Procs : pc[p] = "drop" /\ target[p] = c
Shows(c)    == heard[c].view > 0 \/ HasState(out[c]) \/ Promised(c) \/ Doomed(c)

\* A goroutine that is in no call owes nothing, so that a new fan-out replaces
\* no send that was promised.
BlankInv ==
  /\ \A p \in Procs : todo[p] # {} => pc[p] \in {"send", "drop", "close", "retick", "farewell"}
  /\ \A c \in live : view > 0 /\ writer[c] = "on" => Shows(c)

BlankTypes ==
  /\ LifeTypes /\ CloseInv /\ view \in 0..Len(Script)
  /\ out \in [Clients -> Seq(Message)]
  /\ heard \in [Clients -> [view : 0..Len(Script), bye : BOOLEAN]]
  /\ \A p \in Publishers : carry[p] \in 0..Len(Script) /\ (pc[p] = "publish" => carry[p] # 0)

LEMMA BlankTyped == TypeInv /\ CloseInv => BlankTypes
BY LifeTyped DEF TypeInv, TypeOK, BlankTypes

LEMMA AppendHasState ==
  ASSUME NEW q \in Seq(Message), NEW m \in Message, HasState(q) \/ m.kind = "state"
  PROVE  HasState(Append(q, m))
<1>1. /\ Len(Append(q, m)) = Len(q) + 1 /\ Len(q) \in Nat
      /\ \A i \in 1..Len(q) : Append(q, m)[i] = q[i]
      /\ Append(q, m)[Len(q) + 1] = m
  BY AppendProperties, LenProperties
<1> QED BY <1>1 DEF HasState

LEMMA TailHasState ==
  ASSUME NEW q \in Seq(Message), q # <<>>, HasState(q), Head(q).kind # "state"
  PROVE  HasState(Tail(q))
<1>1. /\ Len(Tail(q)) \in Nat /\ Len(q) = Len(Tail(q)) + 1 /\ Head(q) = q[1]
      /\ \A i \in 1..Len(Tail(q)) : Tail(q)[i] = q[i + 1]
  BY HeadTailProperties, EmptySeq, LenProperties
<1>2. PICK i \in 1..Len(q) : q[i].kind = "state"
  BY DEF HasState
<1>3. i # 1 /\ i - 1 \in 1..Len(Tail(q)) /\ Tail(q)[i - 1] = q[i]
  BY <1>1, <1>2
<1> QED BY <1>2, <1>3 DEF HasState

LEMMA StateDeliveries ==
  ASSUME NEW d \in Delivery, d.msg.kind = "state"
  PROVE  d.to \in Clients /\ d.msg \in Message /\ d.msg.n > 0 /\ d.msg.tunnel = None
<1>1. d.to \in Clients /\ d.msg \in Message
  BY DEF Delivery
<1>2. Len(Script) \in Nat
  BY ConstantsAssumption
<1> QED BY <1>1, <1>2 DEF Message

LEMMA BlankInit == Init => BlankInv
BY DEF Init, BlankInv

\* What the invariant asks of a step, client by client.
LEMMA BlankFrame ==
  ASSUME BlankInv, UNCHANGED view,
         \A p \in Procs : todo'[p] # {} =>
            pc'[p] \in {"send", "drop", "close", "retick", "farewell"},
         \A c \in live' : writer'[c] = "on" =>
            /\ c \in live /\ writer[c] = "on"
            /\ heard[c].view > 0 => Shows(c)'
            /\ HasState(out[c]) => Shows(c)'
            /\ Promised(c) => Shows(c)'
            /\ Doomed(c) => Shows(c)'
  PROVE  BlankInv'
BY DEF BlankInv, Shows

\* A step that takes nothing away.
Gentle ==
  /\ UNCHANGED <<view, heard, out>> /\ live' \subseteq live
  /\ \A c \in Clients : writer'[c] = "on" => writer[c] = "on"
  /\ \A p \in Procs : todo'[p] # {} => pc'[p] \in {"send", "drop", "close", "retick", "farewell"}
  /\ \A p \in Procs : \A d \in todo[p] :
        d.msg.kind = "state" => d \in todo'[p] \/ d.to \notin live'
  /\ \A p \in Procs : pc[p] = "drop" =>
        (pc'[p] = "drop" /\ target'[p] = target[p]) \/ target[p] \notin live'

LEMMA GentleKeeps ==
  ASSUME BlankTypes, BlankInv, Gentle
  PROVE  BlankInv'
<1>1. ASSUME NEW c \in live', Promised(c) PROVE Promised(c)'
  BY <1>1 DEF Gentle, Promised
<1>2. ASSUME NEW c \in live', Doomed(c) PROVE Doomed(c)'
  BY <1>2 DEF Gentle, Doomed
<1>3. live' \subseteq Clients
  BY DEF Gentle, BlankTypes, LifeTypes
<1> QED
  BY <1>1, <1>2, <1>3, BlankFrame DEF Gentle, Shows

LEMMA BlankCalls ==
  ASSUME BlankTypes, BlankInv, NEW p \in Procs, Call(p)
  PROVE  BlankInv'
<1> USE ProcsApart
    DEF BlankTypes, LifeTypes, desk, ticking, asks, queue, wire, client, procs, world
<1>1. CASE SendToGone(p)
  <2>1. PICK d \in todo[p] :
          /\ pc[p] = "send" /\ d.to \notin live
          /\ todo' = [todo EXCEPT ![p] = @ \ {d}]
          /\ pc' = [pc EXCEPT ![p] = Resume(p, todo[p] \ {d})]
          /\ UNCHANGED <<live, view, heard, out, writer, target>>
    BY <1>1 DEF SendToGone, Ready
  <2>2. todo'[p] # {} => pc'[p] = "send"
    BY <2>1 DEF Resume
  <2>3. Gentle
    BY <2>1, <2>2 DEF Gentle, BlankInv
  <2> QED BY <2>3, GentleKeeps
<1>2. CASE Enqueue(p)
  <2>1. PICK d \in todo[p] :
          /\ pc[p] = "send" /\ d.to \in live
          /\ out' = [out EXCEPT ![d.to] = Append(@, d.msg)]
          /\ todo' = [todo EXCEPT ![p] = @ \ {d}]
          /\ pc' = [pc EXCEPT ![p] = Resume(p, todo[p] \ {d})]
          /\ UNCHANGED <<live, view, heard, writer, target>>
    BY <1>2 DEF Enqueue, Ready
  <2>2. d.to \in Clients /\ d.msg \in Message
    BY <2>1 DEF Delivery
  <2>3. todo'[p] # {} => pc'[p] = "send"
    BY <2>1 DEF Resume
  <2>4. \A q \in Procs : todo'[q] # {} =>
          pc'[q] \in {"send", "drop", "close", "retick", "farewell"}
    BY <2>1, <2>3 DEF BlankInv
  <2>5. ASSUME NEW c \in live, HasState(out[c]) PROVE HasState(out'[c])
    <3>1. CASE c = d.to
      BY <2>1, <2>2, <2>5, <3>1, AppendHasState
    <3>2. CASE c # d.to
      BY <2>1, <2>5, <3>2
    <3> QED BY <3>1, <3>2
  <2>6. ASSUME NEW c \in live, Promised(c) PROVE Promised(c)' \/ HasState(out'[c])
    <3>0. PICK q \in Procs : \E e \in todo[q] : e.to = c /\ e.msg.kind = "state"
      BY <2>6 DEF Promised
    <3>1. PICK e \in todo[q] : e.to = c /\ e.msg.kind = "state"
      BY <3>0
    <3>2. CASE q = p /\ e = d
      BY <2>1, <2>2, <3>1, <3>2, AppendHasState
    <3>3. CASE ~ (q = p /\ e = d)
      <4>1. e \in todo'[q]
        BY <2>1, <3>1, <3>3
      <4> QED BY <3>1, <4>1 DEF Promised
    <3> QED BY <3>2, <3>3
  <2>7. ASSUME NEW c \in live, Doomed(c) PROVE Doomed(c)'
    BY <2>1, <2>7 DEF Doomed
  <2> QED BY <2>1, <2>4, <2>5, <2>6, <2>7, BlankFrame DEF Shows
<1>3. CASE Overflow(p)
  <2>1. PICK d \in todo[p] :
          /\ pc[p] = "send" /\ d.to \in live
          /\ todo' = [todo EXCEPT ![p] = @ \ {d}]
          /\ target' = [target EXCEPT ![p] = d.to]
          /\ pc' = [pc EXCEPT ![p] = "drop"]
          /\ UNCHANGED <<live, view, heard, out, writer>>
    BY <1>3 DEF Overflow, Ready
  <2>2. \A q \in Procs : todo'[q] # {} =>
          pc'[q] \in {"send", "drop", "close", "retick", "farewell"}
    BY <2>1 DEF BlankInv
  <2>3. ASSUME NEW c \in live, Promised(c) PROVE Promised(c)' \/ Doomed(c)'
    <3>0. PICK q \in Procs : \E e \in todo[q] : e.to = c /\ e.msg.kind = "state"
      BY <2>3 DEF Promised
    <3>1. PICK e \in todo[q] : e.to = c /\ e.msg.kind = "state"
      BY <3>0
    <3>2. CASE q = p /\ e = d
      <4>1. pc'[p] = "drop" /\ target'[p] = c
        BY <2>1, <3>1, <3>2
      <4> QED BY <4>1 DEF Doomed
    <3>3. CASE ~ (q = p /\ e = d)
      <4>1. e \in todo'[q]
        BY <2>1, <3>1, <3>3
      <4> QED BY <3>1, <4>1 DEF Promised
    <3> QED BY <3>2, <3>3
  <2>4. ASSUME NEW c \in live, Doomed(c) PROVE Doomed(c)'
    BY <2>1, <2>4 DEF Doomed
  <2> QED BY <2>1, <2>2, <2>3, <2>4, BlankFrame DEF Shows
<1>4. CASE DropFirst(p) \/ DropAgain(p)
  <2>1. /\ pc[p] = "drop" /\ live' \subseteq live /\ target[p] \notin live'
        /\ UNCHANGED <<view, heard, out, writer, todo>>
        /\ \A q \in Procs \ {p} : pc'[q] = pc[q] /\ target'[q] = target[q]
        /\ pc'[p] = "close" \/ pc'[p] = Resume(p, todo[p])
    BY <1>4 DEF DropFirst, DropAgain
  <2>2. todo'[p] # {} => pc'[p] \in {"send", "close"}
    BY <2>1 DEF Resume
  <2>3. Gentle
    BY <2>1, <2>2 DEF Gentle, BlankInv
  <2> QED BY <2>3, GentleKeeps
<1>5. CASE CloseClient(p)
  <2>1. Gentle
    BY <1>5 DEF CloseClient, Gentle, BlankInv
  <2> QED BY <2>1, GentleKeeps
<1>6. CASE StartLoop(p) \/ StopLoop(p) \/ KeepLoop(p)
  <2>1. /\ pc[p] = "retick" /\ pc'[p] = Resume(p, todo[p])
        /\ UNCHANGED <<live, view, heard, out, writer, todo, target>>
        /\ \A q \in Procs \ {p} : pc'[q] = pc[q] \/ pc[q] = "off"
    BY <1>6 DEF StartLoop, StopLoop, KeepLoop, RetickKeeps
  <2>2. todo'[p] # {} => pc'[p] = "send"
    BY <2>1 DEF Resume
  <2>3. Gentle
    BY <2>1, <2>2 DEF Gentle, BlankInv
  <2> QED BY <2>3, GentleKeeps
<1> QED BY <1>1, <1>2, <1>3, <1>4, <1>5, <1>6 DEF Call

LEMMA BlankAccepting ==
  ASSUME BlankTypes, BlankInv, Accepting
  PROVE  BlankInv'
<1> USE ProcsApart
    DEF BlankTypes, LifeTypes, desk, ticking, asks, queue, wire, client, procs, world
<1>1. CASE Register
  <2>1. PICK c \in Clients :
        /\ pc[Acceptor] = "register" /\ live' = live \cup {c} /\ pc[c] = "off"
        /\ writer' = [writer EXCEPT ![c] = "on"]
        /\ pc' = [pc EXCEPT ![Acceptor] = "send", ![c] = "reading"]
        /\ todo' = [todo EXCEPT ![Acceptor] = Greeting(c)]
        /\ target' = [target EXCEPT ![Acceptor] = None]
        /\ UNCHANGED <<view, heard, out>>
    BY <1>1 DEF Register, CloseInv, FreshInv, Fresh
  <2>2. todo[Acceptor] = {} /\ todo[c] = {}
    BY <2>1 DEF BlankInv
  <2>3. \A q \in Procs : todo'[q] # {} =>
          pc'[q] \in {"send", "drop", "close", "retick", "farewell"}
    BY <2>1, <2>2 DEF BlankInv
  <2>4. view > 0 => Promised(c)'
    <3>1. SUFFICES ASSUME view > 0 PROVE Promised(c)'
      OBVIOUS
    <3> DEFINE d == [to |-> c, msg |-> State(view)]
    <3>2. d \in Greeting(c) /\ d.to = c /\ d.msg.kind = "state"
      BY <3>1, MessageKinds DEF Greeting, ToAll
    <3>3. d \in todo'[Acceptor]
      BY <2>1, <3>2
    <3> QED BY <3>2, <3>3 DEF Promised
  <2>5. ASSUME NEW k \in live, k # c, Shows(k) PROVE Shows(k)'
    <3>1. Promised(k) => Promised(k)'
      BY <2>1, <2>2 DEF Promised
    <3>2. Doomed(k) => Doomed(k)'
      BY <2>1 DEF Doomed
    <3> QED BY <2>1, <2>5, <3>1, <3>2 DEF Shows
  <2>6. \A k \in live \ {c} : view > 0 /\ writer[k] = "on" => Shows(k)'
    BY <2>5 DEF BlankInv
  <2>7. view > 0 => Shows(c)'
    BY <2>4 DEF Shows
  <2> QED BY <2>1, <2>3, <2>6, <2>7 DEF BlankInv
<1>2. CASE \E c \in Clients : TurnAway(c)
  <2>1. PICK c \in Clients : TurnAway(c)
    BY <1>2
  <2>2. /\ heard' = [heard EXCEPT ![c] = Hearing(@, Plain("refused"))]
        /\ UNCHANGED <<live, view, out, writer, pc, todo, target>>
    BY <2>1 DEF TurnAway
  <2>3. \A k \in Clients : heard'[k].view = heard[k].view
    BY <2>2 DEF Hearing, Plain
  <2>4. \A k \in Clients : Shows(k) => Shows(k)'
    BY <2>2, <2>3 DEF Shows, Promised, Doomed
  <2> QED BY <2>2, <2>4 DEF BlankInv
<1>3. CASE ~ Register /\ ~ \E c \in Clients : TurnAway(c)
  <2>1. /\ UNCHANGED <<live, view, heard, out, writer, todo>>
        /\ \A q \in Procs \ {Acceptor, Stopper} : pc'[q] = pc[q] /\ target'[q] = target[q]
        /\ pc[Acceptor] \in {"idle", "register", "waiting"}
        /\ pc'[Stopper] = pc[Stopper] \/ pc[Stopper] = "up"
    BY <1>3 DEF Accepting, Refuse, Admit, RegisterTooLate, AcceptFails, ServeReturns
  <2>2. todo[Acceptor] = {} /\ pc[Stopper] # "drop"
    BY <2>1 DEF BlankInv, CloseInv, StopperInv
  <2>3. Gentle
    BY <2>1, <2>2 DEF Gentle, BlankInv
  <2> QED BY <2>3, GentleKeeps
<1> QED BY <1>1, <1>2, <1>3

LEMMA BlankWriting ==
  ASSUME BlankTypes, BlankInv, NEW c \in Clients, Writing(c)
  PROVE  BlankInv'
<1> USE ProcsApart
    DEF BlankTypes, LifeTypes, desk, ticking, asks, queue, wire, client, procs, world
<1>1. CASE Write(c)
  <2>1. /\ out[c] # <<>>
        /\ heard' = [heard EXCEPT ![c] = Hearing(@, Head(out[c]))]
        /\ out' = [out EXCEPT ![c] = Tail(@)]
        /\ UNCHANGED <<live, view, writer, pc, todo, target>>
    BY <1>1 DEF Write
  <2>2. Head(out[c]) \in Message /\ Len(Script) \in Nat
    BY <2>1, ConstantsAssumption, HeadTailProperties
  <2>3. heard[c].view > 0 => heard'[c].view > 0
    BY <2>1, <2>2, MessageFields DEF Hearing
  <2>4. HasState(out[c]) => heard'[c].view > 0 \/ HasState(out'[c])
    <3>1. CASE Head(out[c]).kind = "state"
      BY <2>1, <2>2, <3>1, MessageFields DEF Hearing
    <3>2. CASE Head(out[c]).kind # "state"
      BY <2>1, <3>2, TailHasState
    <3> QED BY <3>1, <3>2
  <2>5. ASSUME NEW k \in Clients, Shows(k) PROVE Shows(k)'
    <3>1. CASE k = c
      BY <2>1, <2>3, <2>4, <2>5, <3>1 DEF Shows, Promised, Doomed
    <3>2. CASE k # c
      BY <2>1, <2>5, <3>2 DEF Shows, Promised, Doomed
    <3> QED BY <3>1, <3>2
  <2> QED BY <2>1, <2>5 DEF BlankInv
<1>2. CASE WriteFails(c)
  <2>1. /\ out' = [out EXCEPT ![c] = Tail(@)] /\ writer' = [writer EXCEPT ![c] = "gone"]
        /\ UNCHANGED <<live, view, heard, pc, todo, target>>
    BY <1>2 DEF WriteFails
  <2>2. \A k \in Clients \ {c} : Shows(k) => Shows(k)'
    BY <2>1 DEF Shows, Promised, Doomed
  <2> QED BY <2>1, <2>2 DEF BlankInv
<1>3. CASE WriterEnds(c)
  <2>1. Gentle
    BY <1>3 DEF WriterEnds, Gentle, BlankInv
  <2> QED BY <2>1, GentleKeeps
<1> QED BY <1>1, <1>2, <1>3 DEF Writing

LEMMA BlankReading ==
  ASSUME BlankTypes, BlankInv, NEW c \in Clients, Reading(c)
  PROVE  BlankInv'
<1> USE ProcsApart
    DEF BlankTypes, LifeTypes, desk, ticking, asks, queue, wire, client, procs, world
<1>1. /\ UNCHANGED <<live, view, heard, out, writer>>
      /\ pc[c] \in {"reading", "ask", "offer"}
      /\ \A q \in Procs \ {c} : /\ pc'[q] = pc[q] /\ target'[q] = target[q]
                                /\ todo'[q] = todo[q]
      /\ todo' = todo \/ pc'[c] = "send"
  BY DEF Reading, ScanEnds, Stamp, PutRequest, Challenge, Watch, Unwatch, Ask
<1>2. todo[c] = {}
  BY <1>1 DEF BlankInv
<1>3. Gentle
  BY <1>1, <1>2 DEF Gentle, BlankInv
<1> QED BY <1>3, GentleKeeps

LEMMA BlankInterface ==
  ASSUME BlankTypes, BlankInv, Interface
  PROVE  BlankInv'
<1> USE ProcsApart
    DEF BlankTypes, LifeTypes, desk, ticking, asks, queue, wire, client, procs, world
<1>1. ASSUME NEW p \in Publishers, Publish(p)
      PROVE  BlankInv'
  <2>1. /\ pc[p] = "publish" /\ view' = carry[p]
        /\ todo' = [todo EXCEPT ![p] = ToAll(live, State(carry[p]))]
        /\ pc' = [pc EXCEPT ![p] = Resume(p, ToAll(live, State(carry[p])))]
        /\ UNCHANGED <<live, heard, out, writer, target>>
    BY <1>1 DEF Publish, FanOut
  <2>2. todo'[p] # {} => pc'[p] = "send"
    BY <2>1 DEF Resume
  <2>3. \A q \in Procs : todo'[q] # {} =>
          pc'[q] \in {"send", "drop", "close", "retick", "farewell"}
    BY <2>1, <2>2 DEF BlankInv
  <2>4. ASSUME NEW c \in live PROVE Promised(c)'
    <3> DEFINE d == [to |-> c, msg |-> State(carry[p])]
    <3>1. d \in todo'[p] /\ d.to = c /\ d.msg.kind = "state"
      BY <2>1, MessageKinds DEF ToAll
    <3> QED BY <3>1 DEF Promised
  <2> QED BY <2>1, <2>3, <2>4 DEF BlankInv, Shows
<1>2. ASSUME NEW p \in Publishers, TakeMeasure(p) \/ PublishPings(p)
      PROVE  BlankInv'
  <2>1. /\ UNCHANGED <<live, view, heard, out, writer, target>>
        /\ pc[p] \in {"idle", "publish"}
        /\ \A q \in Procs \ {p} : pc'[q] = pc[q] /\ todo'[q] = todo[q]
        /\ todo' = todo \/ pc'[p] = Resume(p, todo'[p])
    BY <1>2 DEF TakeMeasure, PublishPings, FanOut
  <2>2. todo[p] = {}
    BY <2>1 DEF BlankInv
  <2>3. todo'[p] # {} => pc'[p] = "send"
    BY <2>1, <2>2 DEF Resume
  <2>4. Gentle
    BY <2>1, <2>2, <2>3 DEF Gentle, BlankInv
  <2> QED BY <2>4, GentleKeeps
<1>3. CASE TakeRequest
  <2>1. Gentle
    BY <1>3 DEF TakeRequest, Gentle, BlankInv
  <2> QED BY <2>1, GentleKeeps
<1> QED BY <1>1, <1>2, <1>3 DEF Interface

LEMMA BlankLooping ==
  ASSUME BlankTypes, BlankInv, NEW l \in Loops, Looping(l)
  PROVE  BlankInv'
<1> USE ProcsApart
    DEF BlankTypes, LifeTypes, desk, ticking, asks, queue, wire, client, procs, world
<1>1. CASE StartRound(l)
  <2>1. /\ pc[l] = "tick" /\ pc' = [pc EXCEPT ![l] = "send"]
        /\ \A q \in Procs \ {l} : todo'[q] = todo[q]
        /\ UNCHANGED <<live, view, heard, out, writer, target>>
    BY <1>1 DEF StartRound
  <2>2. todo[l] = {}
    BY <2>1 DEF BlankInv
  <2>3. Gentle
    BY <2>1, <2>2 DEF Gentle, BlankInv
  <2> QED BY <2>3, GentleKeeps
<1>2. ASSUME NEW t \in Tunnels, ReadCounters(l, t) \/ NoCounters(l, t)
      PROVE  BlankInv'
  <2>1. /\ UNCHANGED <<live, view, heard, out, writer, target>>
        /\ pc[l] = "send" /\ \A q \in Procs \ {l} : todo'[q] = todo[q] /\ pc'[q] = pc[q]
        /\ \A d \in todo[l] : d.msg.tunnel # t => d \in todo'[l]
        /\ pc' = pc \/ pc'[l] = Resume(l, todo'[l])
    <3>1. CASE ReadCounters(l, t)
      BY <3>1 DEF ReadCounters
    <3>2. CASE NoCounters(l, t)
      BY <3>2 DEF NoCounters
    <3> QED BY <1>2, <3>1, <3>2
  <2>2. \A d \in todo[l] : d.msg.kind = "state" => d.msg.tunnel # t
    BY StateDeliveries
  <2>3. todo'[l] # {} => pc'[l] = "send"
    BY <2>1 DEF Resume
  <2>4. Gentle
    BY <2>1, <2>2, <2>3 DEF Gentle, BlankInv
  <2> QED BY <2>4, GentleKeeps
<1>3. CASE LoopEnds(l)
  <2>1. Gentle
    BY <1>3 DEF LoopEnds, Gentle, BlankInv
  <2> QED BY <2>1, GentleKeeps
<1> QED BY <1>1, <1>2, <1>3 DEF Looping

LEMMA BlankStopping ==
  ASSUME BlankTypes, BlankInv, Stopping \/ Exit
  PROVE  BlankInv'
<1> USE ProcsApart
    DEF BlankTypes, LifeTypes, desk, ticking, asks, queue, wire, client, procs, world
<1>1. CASE TakeAll
  BY <1>1 DEF TakeAll, BlankInv
<1>2. CASE Farewell
  <2>1. PICK d \in todo[Stopper] :
          /\ \A c \in Clients \ {d.to} : out'[c] = out[c]
          /\ todo' = [todo EXCEPT ![Stopper] = @ \ {d}]
          /\ pc[Stopper] = "farewell"
          /\ UNCHANGED <<live, view, heard, writer, pc, target>>
    BY <1>2 DEF Farewell
  <2>2. d.to \notin live
    BY <2>1 DEF CloseInv, Owed, Delivery
  <2>3. ASSUME NEW c \in live, Promised(c) PROVE Promised(c)'
    BY <2>1, <2>2, <2>3 DEF Promised
  <2>4. \A c \in live : out'[c] = out[c]
    BY <2>1, <2>2
  <2>5. \A c \in live : Shows(c) => Shows(c)'
    BY <2>1, <2>3, <2>4 DEF Shows, Doomed
  <2>6. \A q \in Procs : todo'[q] # {} =>
          pc'[q] \in {"send", "drop", "close", "retick", "farewell"}
    BY <2>1 DEF BlankInv
  <2> QED BY <2>1, <2>5, <2>6 DEF BlankInv
<1>3. CASE Cancel \/ HushSampling \/ Close \/ Exit
  <2>1. Gentle
    BY <1>3 DEF Cancel, HushSampling, Close, Exit, Gentle, BlankInv
  <2> QED BY <2>1, GentleKeeps
<1> QED BY <1>1, <1>2, <1>3 DEF Stopping

LEMMA BlankStep == BlankTypes /\ BlankInv /\ [Next]_vars => BlankInv'
<1> SUFFICES ASSUME BlankTypes, BlankInv, [Next]_vars PROVE BlankInv'
  OBVIOUS
<1>1. Floors \/ UNCHANGED vars => Gentle
  BY DEF Floors, FloorPasses, ChallengeFloorPasses, vars, Gentle, BlankInv, desk, ticking, asks,
     queue, wire, client, procs, world
<1> QED
  BY <1>1, GentleKeeps, BlankCalls, BlankAccepting, BlankWriting, BlankReading, BlankInterface,
     BlankLooping, BlankStopping DEF Next, Running, Ended

\* Whoever connects between two refreshes does not sit blank until the next one
\* (server.go:579-583), whatever is dropped, published or stopped meanwhile.
THEOREM NobodySitsBlank == Spec => []NobodyIsBlank
<1>1. BlankTypes /\ BlankInv => NobodyIsBlank
  <2> SUFFICES ASSUME BlankTypes, BlankInv, Quiet, view > 0, NEW c \in live,
                      out[c] = <<>>, writer[c] = "on"
               PROVE  heard[c].view > 0
    BY DEF NobodyIsBlank
  <2>1. Shows(c)
    BY DEF BlankInv
  <2>2. ~ Promised(c) /\ ~ Doomed(c)
    BY DEF Quiet, Promised, Doomed
  <2>3. ~ HasState(out[c])
    BY DEF HasState
  <2> QED BY <2>1, <2>2, <2>3 DEF Shows
<1> QED
  BY BlankInit, BlankStep, BlankTyped, TypeAlways, CloseAlways, <1>1, PTL DEF Spec
=============================================================================
