------------------------- MODULE FeedStream_proofs -------------------------
(***************************************************************************)
(* FeedServer implements FeedStream: what a peer is promised is kept for   *)
(* every number of clients, publish commands, loops and tunnels, every     *)
(* queue length and every script.                                          *)
(***************************************************************************)
EXTENDS FeedSeats_proofs

-----------------------------------------------------------------------------
(* What the mapping needs to know of the server: nothing is done for a      *)
(* client before its writer is started; hello is owed by the acceptor, once; *)
(* what the stopper owes, and nobody else, is a goodbye; a connection that   *)
(* is about to be registered is open.                                       *)

BornInv ==
  /\ \A c \in live : writer[c] # "off"
  /\ \A d \in todo[Stopper] : writer[d.to] # "off"
  /\ \A p \in Procs : pc[p] = "close" => writer[target[p]] # "off"
  /\ \A c \in Clients : out[c] # <<>> => writer[c] # "off"

\* What a goroutine may owe.
Proper(p, d) ==
  /\ d.msg.kind # "refused"
  /\ d.msg.kind = "bye" <=> p = Stopper
  /\ d.msg.kind = "hello" => p = Acceptor /\ d.msg = Plain("hello")

OwedInv == \A p \in Procs : \A d \in todo[p] : Proper(p, d)

AdmitInv == pc[Acceptor] = "register" => conn[target[Acceptor]] # "closed"

StreamInv == BornInv /\ OwedInv /\ AdmitInv

StreamTypes == BlankTypes /\ BlankInv

LEMMA StreamInit == Init => StreamInv
BY ProcsApart DEF Init, StreamInv, BornInv, OwedInv, AdmitInv

\* A step that does nothing for a client that is not born.
Bearing ==
  /\ \A c \in Clients : writer'[c] = "off" => writer[c] = "off"
  /\ \A c \in live' : c \in live \/ writer'[c] # "off"
  /\ \A d \in todo'[Stopper] : d \in todo[Stopper] \/ d.to \in live
  /\ \A p \in Procs : pc'[p] = "close" =>
       (pc[p] = "close" /\ target'[p] = target[p]) \/ target'[p] \in live
  /\ \A c \in Clients : out'[c] # <<>> => out[c] # <<>> \/ writer[c] # "off"

LEMMA BearingKeeps ==
  ASSUME StreamTypes, BornInv, Bearing, live' \subseteq Clients
  PROVE  BornInv'
<1> USE ProcsApart DEF StreamTypes, BlankTypes, LifeTypes, BornInv, Bearing
<1>1. \A c \in Clients : writer[c] # "off" => writer'[c] # "off"
  OBVIOUS
<1>2. \A c \in live' : writer'[c] # "off"
  BY <1>1
<1>3. \A d \in todo'[Stopper] : writer'[d.to] # "off"
  <2> SUFFICES ASSUME NEW d \in todo'[Stopper] PROVE writer'[d.to] # "off"
    OBVIOUS
  <2>1. CASE d \in todo[Stopper]
    <3>1. d.to \in Clients
      BY <2>1 DEF Delivery
    <3> QED BY <1>1, <2>1, <3>1
  <2>2. CASE d.to \in live
    BY <1>1, <2>2
  <2> QED BY <2>1, <2>2
<1>4. ASSUME NEW p \in Procs, pc'[p] = "close" PROVE writer'[target'[p]] # "off"
  <2>1. CASE pc[p] = "close" /\ target'[p] = target[p]
    <3>1. target[p] \in Clients
      BY <2>1 DEF CloseInv, CloserInv
    <3> QED BY <1>1, <2>1, <3>1
  <2>2. CASE target'[p] \in live
    BY <1>1, <2>2
  <2> QED BY <1>4, <2>1, <2>2
<1>5. \A c \in Clients : out'[c] # <<>> => writer'[c] # "off"
  BY <1>1
<1> QED BY <1>2, <1>3, <1>4, <1>5

LEMMA BornStep == StreamTypes /\ BornInv /\ [Next]_vars => BornInv'
<1> SUFFICES ASSUME StreamTypes, BornInv, [Next]_vars PROVE BornInv'
  OBVIOUS
<1> USE ProcsApart
    DEF StreamTypes, BlankTypes, LifeTypes, desk, ticking, asks, queue, wire, client, procs, world
<1> DEFINE Same == UNCHANGED <<live, writer, out, target>> /\ todo'[Stopper] = todo[Stopper]
<1>1. ASSUME NEW p \in Procs, Call(p) PROVE Bearing /\ live' \subseteq Clients
  <2>1. pc[p] \in {"send", "drop", "close", "retick"} => p # Stopper
    BY DEF CloseInv, StopperInv
  <2>2. CASE SendToGone(p) \/ Overflow(p)
    <3>1. /\ p # Stopper /\ UNCHANGED <<live, writer, out>>
          /\ todo'[Stopper] = todo[Stopper]
          /\ \A q \in Procs \ {p} : pc'[q] = pc[q] /\ target'[q] = target[q]
          /\ pc'[p] # "close"
      <4>1. PICK place \in {"send", "gone", "reading", "tick", "idle", "drop"} :
              pc' = [pc EXCEPT ![p] = place]
        BY <2>2, ResumePlaces DEF SendToGone, Overflow
      <4>2. pc[p] = "send" /\ UNCHANGED <<live, writer, out>>
        BY <2>2 DEF SendToGone, Overflow
      <4>3. \A q \in Procs \ {p} : todo'[q] = todo[q] /\ target'[q] = target[q]
        BY <2>2 DEF SendToGone, Overflow
      <4> QED BY <2>1, <4>1, <4>2, <4>3
    <3> QED BY <3>1 DEF Bearing
  <2>3. CASE Enqueue(p)
    <3>1. PICK d \in todo[p] :
            /\ d.to \in live /\ out' = [out EXCEPT ![d.to] = Append(@, d.msg)]
            /\ UNCHANGED <<live, writer, target>> /\ pc[p] = "send"
            /\ pc' = [pc EXCEPT ![p] = Resume(p, todo[p] \ {d})]
            /\ todo' = [todo EXCEPT ![p] = @ \ {d}]
      BY <2>3 DEF Enqueue, Ready
    <3>2. todo'[Stopper] = todo[Stopper]
      BY <2>1, <3>1
    <3>3. \A q \in Procs : pc'[q] = "close" => pc[q] = "close"
      BY <3>1, ResumePlaces
    <3>4. \A c \in Clients : out'[c] # <<>> => out[c] # <<>> \/ c \in live
      BY <3>1
    <3> QED BY <3>1, <3>2, <3>3, <3>4 DEF Bearing, BornInv
  <2>4. CASE DropFirst(p) \/ DropAgain(p) \/ CloseClient(p)
    <3>1. /\ live' \subseteq live /\ UNCHANGED <<writer, out, todo>>
          /\ \A q \in Procs \ {p} : pc'[q] = pc[q] /\ target'[q] = target[q]
          /\ pc'[p] = "close" => target'[p] \in live
      BY <2>4, ResumePlaces, SMTT(30) DEF DropFirst, DropAgain, CloseClient
    <3> QED BY <3>1 DEF Bearing
  <2>5. CASE StartLoop(p) \/ StopLoop(p) \/ KeepLoop(p)
    <3>1. /\ UNCHANGED <<live, writer, out, target, todo>>
          /\ \A q \in Procs : pc'[q] = "close" => pc[q] = "close"
      BY <2>5, ResumePlaces DEF StartLoop, StopLoop, KeepLoop, RetickKeeps
    <3> QED BY <3>1 DEF Bearing
  <2> QED BY <1>1, <2>2, <2>3, <2>4, <2>5 DEF Call
<1>2. CASE Register
  <2>1. /\ target[Acceptor] \in Clients /\ live' = live \cup {target[Acceptor]}
        /\ writer' = [writer EXCEPT ![target[Acceptor]] = "on"]
        /\ out' = out /\ todo'[Stopper] = todo[Stopper]
        /\ \A q \in Procs : pc'[q] = "close" => pc[q] = "close" /\ q # Acceptor
        /\ target' = [target EXCEPT ![Acceptor] = None]
    BY <1>2 DEF Register
  <2> QED BY <2>1, BearingKeeps DEF Bearing
<1>3. CASE Accepting /\ ~ Register
  <2>1. /\ UNCHANGED <<live, writer, out, todo>>
        /\ \A q \in Procs \ {Acceptor, Stopper} : pc'[q] = pc[q]
        /\ \A q \in Procs \ {Acceptor} : target'[q] = target[q]
        /\ pc'[Stopper] = pc[Stopper] \/ pc'[Stopper] = "stopping"
        /\ pc'[Acceptor] # "close"
    BY <1>3 DEF Accepting, Refuse, TurnAway, Admit, RegisterTooLate, AcceptFails, ServeReturns
  <2> QED BY <2>1, BearingKeeps DEF Bearing
<1>4. ASSUME NEW c \in Clients, Writing(c) PROVE Bearing /\ live' \subseteq Clients
  <2>1. /\ UNCHANGED <<live, pc, target, todo>> /\ writer[c] = "on"
        /\ \A k \in Clients \ {c} : writer'[k] = writer[k] /\ out'[k] = out[k]
        /\ writer'[c] \in {"on", "gone"}
    BY <1>4 DEF Writing, Write, WriteFails, WriterEnds
  <2> QED BY <2>1 DEF Bearing
<1>5. ASSUME NEW c \in Clients, Reading(c) PROVE Bearing /\ live' \subseteq Clients
  <2>1. /\ UNCHANGED <<live, writer, out>> /\ todo'[Stopper] = todo[Stopper]
        /\ \A q \in Procs : pc'[q] = "close" => pc[q] = "close" /\ target'[q] = target[q]
    BY <1>5 DEF Reading, ScanEnds, Stamp, PutRequest, Challenge, Watch, Unwatch, Ask
  <2> QED BY <2>1 DEF Bearing
<1>6. CASE Interface \/ Floors
  <2>1. Same /\ \A q \in Procs : pc'[q] = "close" => pc[q] = "close"
    <3>1. CASE \E p \in Publishers : Publish(p) \/ PublishPings(p)
      <4>0. PICK p \in Publishers : Publish(p) \/ PublishPings(p)
        BY <3>1
      <4>1. PICK m \in {State(carry[p]), Plain("ping")} :
              FanOut(p, m) /\ UNCHANGED <<live, writer, out, target>>
        BY <4>0 DEF Publish, PublishPings
      <4>2. Resume(p, ToAll(live, m)) # "close"
        BY ResumePlaces
      <4> QED BY <4>1, <4>2 DEF FanOut
    <3>2. CASE \E p \in Publishers : TakeMeasure(p)
      BY <3>2 DEF TakeMeasure
    <3>3. CASE TakeRequest \/ Floors
      BY <3>3 DEF TakeRequest, Floors, FloorPasses, ChallengeFloorPasses
    <3> QED BY <1>6, <3>1, <3>2, <3>3 DEF Interface
  <2> QED BY <2>1, BearingKeeps DEF Bearing
<1>7. ASSUME NEW l \in Loops, Looping(l) PROVE Bearing /\ live' \subseteq Clients
  <2>1. Same /\ \A q \in Procs : pc'[q] = "close" => pc[q] = "close"
    <3>1. CASE StartRound(l) \/ LoopEnds(l)
      BY <3>1 DEF StartRound, LoopEnds
    <3>2. CASE \E t \in Tunnels : ReadCounters(l, t)
      BY <3>2 DEF ReadCounters
    <3>3. CASE \E t \in Tunnels : NoCounters(l, t)
      <4>1. PICK rest : /\ pc' = [pc EXCEPT ![l] = Resume(l, rest)]
                        /\ todo' = [todo EXCEPT ![l] = rest]
                        /\ UNCHANGED <<live, writer, out, target>>
        BY <3>3 DEF NoCounters
      <4>2. Resume(l, rest) # "close"
        BY ResumePlaces
      <4> QED BY <4>1, <4>2
    <3> QED BY <1>7, <3>1, <3>2, <3>3 DEF Looping
  <2> QED BY <2>1 DEF Bearing
<1>8. CASE TakeAll
  <2>1. todo'[Stopper] = ToAll(live, Plain("bye")) /\ live' = {}
        /\ UNCHANGED <<writer, out, target>> /\ pc' = [pc EXCEPT ![Stopper] = "farewell"]
    BY <1>8 DEF TakeAll
  <2>2. \A d \in todo'[Stopper] : d.to \in live
    BY <2>1 DEF ToAll
  <2> QED BY <2>1, <2>2, BearingKeeps DEF Bearing
<1>9. CASE Farewell
  <2>1. PICK d \in todo[Stopper] :
          /\ \A c \in Clients \ {d.to} : out'[c] = out[c]
          /\ todo' = [todo EXCEPT ![Stopper] = @ \ {d}]
          /\ UNCHANGED <<live, writer, pc, target>>
    BY <1>9 DEF Farewell
  <2>2. writer[d.to] # "off"
    BY DEF BornInv
  <2>3. todo'[Stopper] \subseteq todo[Stopper]
    BY <2>1
  <2> QED BY <2>1, <2>2, <2>3, BearingKeeps DEF Bearing
<1>10. CASE Cancel \/ HushSampling \/ Close \/ Exit \/ UNCHANGED vars
  <2>1. Same /\ \A q \in Procs : pc'[q] = "close" => pc[q] = "close"
    BY <1>10 DEF Cancel, HushSampling, Close, Exit, vars
  <2> QED BY <2>1, BearingKeeps DEF Bearing
<1> QED
  BY <1>1, <1>2, <1>3, <1>4, <1>5, <1>6, <1>7, <1>8, <1>9, <1>10, BearingKeeps
     DEF Next, Running, Ended, Stopping

\* A send is owed properly whoever takes it over.
LEMMA OwedStep == StreamTypes /\ OwedInv /\ [Next]_vars => OwedInv'
<1> SUFFICES ASSUME StreamTypes, OwedInv, [Next]_vars PROVE OwedInv'
  OBVIOUS
<1> USE ProcsApart DEF StreamTypes, BlankTypes, LifeTypes, OwedInv, procs
<1>0. ASSUME \A p \in Procs : \A d \in todo'[p] : d \in todo[p] \/ Proper(p, d)
      PROVE  OwedInv'
  BY <1>0 DEF Proper
<1>1. ASSUME NEW p \in Procs, Call(p)
      PROVE  \A q \in Procs : \A d \in todo'[q] : d \in todo[q] \/ Proper(q, d)
  <2>1. todo' = todo \/ \E d : todo' = [todo EXCEPT ![p] = @ \ {d}]
    BY <1>1 DEF Call, SendToGone, Enqueue, Overflow, DropFirst, DropAgain,
       CloseClient, StartLoop, StopLoop, KeepLoop, RetickKeeps
  <2>2. CASE todo' = todo
    BY <2>2
  <2>3. ASSUME NEW d, todo' = [todo EXCEPT ![p] = @ \ {d}]
        PROVE  \A q \in Procs : todo'[q] \subseteq todo[q]
    BY <2>3
  <2> QED BY <2>1, <2>2, <2>3
<1>2. CASE Accepting
  <2>1. CASE Register
    <3>1. todo' = [todo EXCEPT ![Acceptor] = Greeting(target[Acceptor])]
      BY <2>1 DEF Register
    <3>2. \A d \in Greeting(target[Acceptor]) : d.msg = Plain("hello") \/ d.msg = State(view)
      BY ToAllKinds DEF Greeting
    <3>3. \A d \in Greeting(target[Acceptor]) : Proper(Acceptor, d)
      BY <3>2, MessageKinds DEF Proper
    <3> QED BY <1>0, <3>1, <3>3
  <2>2. CASE ~ Register
    <3>1. todo' = todo
      BY <1>2, <2>2 DEF Accepting, Refuse, TurnAway, Admit, RegisterTooLate, AcceptFails,
         ServeReturns
    <3> QED BY <1>0, <3>1
  <2> QED BY <2>1, <2>2
<1>3. ASSUME NEW c \in Clients, Writing(c) \/ Reading(c)
      PROVE  \A q \in Procs : \A d \in todo'[q] : d \in todo[q] \/ Proper(q, d)
  <2>1. todo' = todo \/ todo' = [todo EXCEPT ![c] = ToAll({c}, Plain("auth"))]
    BY <1>3 DEF Writing, Reading, Write, WriteFails, WriterEnds, ScanEnds, Stamp, PutRequest,
       Challenge, Watch, Unwatch, Ask
  <2>2. \A d \in ToAll({c}, Plain("auth")) : Proper(c, d)
    BY ToAllKinds, MessageKinds DEF Proper
  <2>3. \A q \in Procs \ {c} : todo'[q] = todo[q]
    BY <2>1
  <2>4. c \in Procs /\ (todo'[c] = todo[c] \/ todo'[c] = ToAll({c}, Plain("auth")))
    BY <2>1
  <2>5. \A d \in todo'[c] : d \in todo[c] \/ Proper(c, d)
    <3>1. CASE todo'[c] = todo[c]
      BY <3>1
    <3>2. CASE todo'[c] = ToAll({c}, Plain("auth"))
      BY <2>2, <3>2
    <3> QED BY <2>4, <3>1, <3>2
  <2> QED BY <2>3, <2>5
<1>4. CASE Interface
  <2>1. CASE \E p \in Publishers : Publish(p) \/ PublishPings(p)
    <3>1. PICK p \in Publishers : FanOut(p, State(carry[p])) \/ FanOut(p, Plain("ping"))
      BY <2>1 DEF Publish, PublishPings
    <3>2. PICK m \in {State(carry[p]), Plain("ping")} : FanOut(p, m)
      BY <3>1
    <3>3. \A d \in ToAll(live, m) : Proper(p, d)
      BY ToAllKinds, MessageKinds DEF Proper
    <3> QED BY <1>0, <3>2, <3>3 DEF FanOut
  <2>2. CASE TakeRequest \/ \E p \in Publishers : TakeMeasure(p)
    BY <1>0, <2>2 DEF TakeRequest, TakeMeasure
  <2> QED BY <1>4, <2>1, <2>2 DEF Interface
<1>5. ASSUME NEW l \in Loops, Looping(l)
      PROVE  \A q \in Procs : \A d \in todo'[q] : d \in todo[q] \/ Proper(q, d)
  <2>1. \A q \in Procs \ {l} : todo'[q] = todo[q]
    <3>1. CASE StartRound(l) \/ LoopEnds(l)
      BY <3>1 DEF StartRound, LoopEnds
    <3>2. CASE \E t \in Tunnels : ReadCounters(l, t) \/ NoCounters(l, t)
      BY <3>2 DEF ReadCounters, NoCounters
    <3> QED BY <1>5, <3>1, <3>2 DEF Looping
  <2>2. \A d \in todo'[l] : d \in todo[l] \/ d.msg.kind = "sample"
    <3>1. CASE StartRound(l)
      BY <3>1, MessageKinds DEF StartRound
    <3>2. CASE \E t \in Tunnels : ReadCounters(l, t)
      BY <3>2, MessageKinds DEF ReadCounters
    <3>3. CASE \E t \in Tunnels : NoCounters(l, t)
      BY <3>3 DEF NoCounters
    <3>4. CASE LoopEnds(l)
      BY <3>4 DEF LoopEnds
    <3> QED BY <1>5, <3>1, <3>2, <3>3, <3>4 DEF Looping
  <2> QED BY <2>1, <2>2 DEF Proper
<1>6. CASE TakeAll
  <2>1. todo' = [todo EXCEPT ![Stopper] = ToAll(live, Plain("bye"))]
    BY <1>6 DEF TakeAll
  <2>2. \A d \in ToAll(live, Plain("bye")) : Proper(Stopper, d)
    BY ToAllKinds, MessageKinds DEF Proper
  <2> QED BY <1>0, <2>1, <2>2
<1>7. CASE Farewell
  <2>1. \A p \in Procs : todo'[p] \subseteq todo[p]
    BY <1>7 DEF Farewell
  <2> QED BY <1>0, <2>1
<1>8. CASE Cancel \/ HushSampling \/ Close \/ Floors \/ Exit \/ UNCHANGED vars
  <2>1. todo' = todo
    BY <1>8 DEF Cancel, HushSampling, Close, Floors, FloorPasses, ChallengeFloorPasses, Exit, vars
  <2> QED BY <1>0, <2>1
<1> QED
  BY <1>0, <1>1, <1>2, <1>3, <1>4, <1>5, <1>6, <1>7, <1>8 DEF Next, Running, Ended, Stopping

\* Nobody closes a connection between its admission and its registration.
LEMMA AdmitStep == StreamTypes /\ AdmitInv /\ [Next]_vars => AdmitInv'
<1> SUFFICES ASSUME StreamTypes, AdmitInv, [Next]_vars, pc'[Acceptor] = "register"
             PROVE  conn'[target'[Acceptor]] # "closed"
  BY DEF AdmitInv
<1> USE ProcsApart
    DEF StreamTypes, BlankTypes, LifeTypes, desk, ticking, asks, queue, wire, client, procs, world
<1>1. CASE \E c \in Clients : Admit(c)
  BY <1>1 DEF Admit
\* A step after which the acceptor is where it was, about to register the same
\* client, and that client's connection is as it was.
<1> DEFINE Kept == /\ pc[Acceptor] = "register" /\ target'[Acceptor] = target[Acceptor]
                   /\ conn'[target[Acceptor]] = conn[target[Acceptor]]
<1>0. Kept => conn'[target'[Acceptor]] # "closed"
  BY DEF AdmitInv
<1>f. pc[Acceptor] = "register" =>
        /\ target[Acceptor] \in Clients /\ writer[target[Acceptor]] = "off"
        /\ ~ Owed(target[Acceptor]) /\ \A p \in Procs : ~ Closes(p, target[Acceptor])
  BY DEF CloseInv, FreshInv, Fresh
<1>2. ASSUME NEW p \in Procs, Call(p) PROVE Kept
  <2>1. CASE CloseClient(p)
    <3>1. /\ pc[p] = "close" /\ conn' = [conn EXCEPT ![target[p]] = "closed"]
          /\ pc' = [pc EXCEPT ![p] = "retick"] /\ target' = [target EXCEPT ![p] = None]
      BY <2>1 DEF CloseClient
    <3>2. p # Acceptor /\ pc[Acceptor] = "register"
      BY <3>1
    <3>3. target[p] # target[Acceptor]
      BY <3>1, <3>2, <1>f DEF Closes
    <3> QED BY <1>f, <3>1, <3>2, <3>3
  <2>2. CASE SendToGone(p) \/ Enqueue(p) \/ Overflow(p) \/ DropFirst(p) \/ DropAgain(p)
    <3>1. PICK place \in {"send", "gone", "reading", "tick", "idle", "drop", "close"} :
            pc' = [pc EXCEPT ![p] = place]
      BY <2>2, ResumePlaces DEF SendToGone, Enqueue, Overflow, DropFirst, DropAgain
    <3>2. conn' = conn /\ \A q \in Procs \ {p} : target'[q] = target[q]
      BY <2>2 DEF SendToGone, Enqueue, Overflow, DropFirst, DropAgain
    <3> QED BY <3>1, <3>2
  <2>3. CASE StartLoop(p) \/ StopLoop(p) \/ KeepLoop(p)
    <3>1. conn' = conn /\ target' = target
      BY <2>3 DEF StartLoop, StopLoop, KeepLoop, RetickKeeps
    <3>2. \A q \in Procs : pc'[q] = "register" => pc[q] = "register"
      BY <2>3, ResumePlaces DEF StartLoop, StopLoop, KeepLoop
    <3> QED BY <3>1, <3>2
  <2> QED BY <1>2, <2>1, <2>2, <2>3 DEF Call
<1>3. CASE Accepting /\ ~ \E k \in Clients : Admit(k)
  <2>1. FALSE
    BY <1>3 DEF Accepting, Refuse, TurnAway, Register, RegisterTooLate, AcceptFails, ServeReturns
  <2> QED BY <2>1
<1>4. ASSUME NEW k \in Clients, Writing(k) PROVE Kept
  <2>1. /\ UNCHANGED procs /\ writer[k] = "on"
        /\ \A c \in Clients \ {k} : conn'[c] = conn[c]
    BY <1>4 DEF Writing, Write, WriteFails, WriterEnds
  <2> QED BY <1>f, <2>1
<1>5. ASSUME NEW k \in Clients, Reading(k) PROVE Kept
  <2>1. /\ conn' = conn /\ \A q \in Procs \ {k} : target'[q] = target[q] /\ pc'[q] = pc[q]
    BY <1>5 DEF Reading, ScanEnds, Stamp, PutRequest, Challenge, Watch, Unwatch, Ask
  <2> QED BY <2>1
<1>6. CASE Interface \/ Floors
  <2>1. conn' = conn /\ target' = target /\ pc'[Acceptor] = pc[Acceptor]
    BY <1>6 DEF Interface, TakeMeasure, Publish, PublishPings, FanOut, TakeRequest,
       Floors, FloorPasses, ChallengeFloorPasses
  <2> QED BY <2>1, <1>0
<1>7. ASSUME NEW l \in Loops, Looping(l) PROVE Kept
  <2>1. conn' = conn /\ target' = target /\ pc'[Acceptor] = pc[Acceptor]
    <3>1. CASE StartRound(l) \/ LoopEnds(l)
      BY <3>1 DEF StartRound, LoopEnds
    <3>2. CASE \E t \in Tunnels : ReadCounters(l, t) \/ NoCounters(l, t)
      BY <3>2 DEF ReadCounters, NoCounters
    <3> QED BY <1>7, <3>1, <3>2 DEF Looping
  <2> QED BY <2>1
<1>8. CASE Farewell
  <2>1. PICK d \in todo[Stopper] : \A k \in Clients \ {d.to} : conn'[k] = conn[k]
    BY <1>8 DEF Farewell
  <2>2. pc[Acceptor] = "register" /\ target' = target
    BY <1>8 DEF Farewell
  <2>3. d.to # target[Acceptor]
    BY <2>2, <1>f DEF Owed
  <2> QED BY <1>f, <2>1, <2>2, <2>3, <1>0
<1>9. CASE Cancel \/ TakeAll \/ HushSampling \/ Close \/ Exit \/ UNCHANGED vars
  <2>1. conn' = conn /\ target' = target /\ pc'[Acceptor] \in {pc[Acceptor], "exited"}
    BY <1>9 DEF Cancel, TakeAll, HushSampling, Close, Exit, vars
  <2> QED BY <2>1, <1>0
<1> QED
  BY <1>0, <1>1, <1>2, <1>3, <1>4, <1>5, <1>6, <1>7, <1>8, <1>9 DEF Next, Running, Ended, Stopping

LEMMA StreamStep == StreamTypes /\ StreamInv /\ [Next]_vars => StreamInv'
BY BornStep, OwedStep, AdmitStep DEF StreamInv

-----------------------------------------------------------------------------
(* The mapping, connection by connection.                                   *)

Greeted(c) == writer[c] # "off" /\ ~ HelloOwed(c)
Waiting(c) == IF writer[c] = "on" THEN out[c] ELSE <<>>

PhaseMap   == [c \in Clients |-> Phase(c)]
GreetedMap == [c \in Clients |-> writer[c] # "off" /\ ~ HelloOwed(c)]
WaitingMap == [c \in Clients |-> IF writer[c] = "on" THEN out[c] ELSE <<>>]
LeftMap    == [c \in Clients |-> heard[c].bye]

SameFor(c) ==
  /\ Phase(c)' = Phase(c) /\ Greeted(c)' = Greeted(c) /\ Waiting(c)' = Waiting(c)
  /\ heard'[c].bye = heard[c].bye

\* Nothing that the mapping looks at has changed for any other connection.
OnlyFor(c) == \A k \in Clients \ {c} : SameFor(k)

LEMMA Kept ==
  /\ (\A c \in Clients : Phase(c)' = Phase(c)) => UNCHANGED PhaseMap
  /\ (\A c \in Clients : Greeted(c)' = Greeted(c)) => UNCHANGED GreetedMap
  /\ (\A c \in Clients : Waiting(c)' = Waiting(c)) => UNCHANGED WaitingMap
  /\ (\A c \in Clients : heard'[c].bye = heard[c].bye) => UNCHANGED LeftMap
<1>1. (\A c \in Clients : Phase(c)' = Phase(c)) => UNCHANGED PhaseMap
  BY DEF PhaseMap
<1>2. (\A c \in Clients : Greeted(c)' = Greeted(c)) => UNCHANGED GreetedMap
  BY DEF GreetedMap, Greeted
<1>3. (\A c \in Clients : Waiting(c)' = Waiting(c)) => UNCHANGED WaitingMap
  BY DEF WaitingMap, Waiting
<1>4. (\A c \in Clients : heard'[c].bye = heard[c].bye) => UNCHANGED LeftMap
  BY DEF LeftMap
<1> QED BY <1>1, <1>2, <1>3, <1>4

LEMMA Moved ==
  ASSUME NEW c \in Clients, OnlyFor(c)
  PROVE  /\ PhaseMap' = [PhaseMap EXCEPT ![c] = Phase(c)']
         /\ GreetedMap' = [GreetedMap EXCEPT ![c] = Greeted(c)']
         /\ WaitingMap' = [WaitingMap EXCEPT ![c] = Waiting(c)']
         /\ LeftMap' = [LeftMap EXCEPT ![c] = heard'[c].bye]
<1>1. PhaseMap' = [PhaseMap EXCEPT ![c] = Phase(c)']
  BY DEF PhaseMap, OnlyFor, SameFor
<1>2. GreetedMap' = [GreetedMap EXCEPT ![c] = Greeted(c)']
  BY DEF GreetedMap, OnlyFor, SameFor, Greeted
<1>3. WaitingMap' = [WaitingMap EXCEPT ![c] = Waiting(c)']
  BY DEF WaitingMap, OnlyFor, SameFor, Waiting
<1>4. LeftMap' = [LeftMap EXCEPT ![c] = heard'[c].bye]
  BY DEF LeftMap, OnlyFor, SameFor
<1> QED BY <1>1, <1>2, <1>3, <1>4

LEMMA Now ==
  ASSUME NEW c \in Clients
  PROVE  /\ PhaseMap[c] = Phase(c) /\ GreetedMap[c] = Greeted(c)
         /\ WaitingMap[c] = Waiting(c) /\ LeftMap[c] = heard[c].bye
BY DEF PhaseMap, GreetedMap, WaitingMap, LeftMap, Greeted, Waiting

\* The abstract actions, over the four maps.
LEMMA Promises ==
  /\ Stream!promise = <<PhaseMap, GreetedMap, WaitingMap, LeftMap>>
  /\ \A r, from, to :
       Stream!Move(r, from, to) <=> PhaseMap[r] \in from /\ PhaseMap' = [PhaseMap EXCEPT ![r] = to]
BY DEF Stream!promise, Stream!Move, PhaseMap, GreetedMap, WaitingMap, LeftMap

LEMMA Stutters ==
  ASSUME \A c \in Clients : SameFor(c)
  PROVE  UNCHANGED Stream!promise
BY Kept DEF SameFor, Stream!promise, PhaseMap, GreetedMap, WaitingMap, LeftMap

LEMMA MapsOpen ==
  ASSUME NEW c \in Clients, OnlyFor(c), Phase(c) = "absent", Phase(c)' = "open",
         Greeted(c)' = Greeted(c), Waiting(c)' = Waiting(c), heard'[c].bye = heard[c].bye
  PROVE  Stream!Next
<1>1. UNCHANGED <<GreetedMap, WaitingMap, LeftMap>>
  BY Kept DEF OnlyFor, SameFor
<1>2. Stream!Move(c, {"absent"}, "open")
  BY Moved, Now, Promises
<1>3. Stream!Open(c)
  BY <1>1, <1>2 DEF Stream!Open, GreetedMap, WaitingMap, LeftMap
<1> QED BY <1>3 DEF Stream!Next

LEMMA MapsTurnAway ==
  ASSUME NEW c \in Clients, OnlyFor(c), Phase(c) = "absent", Phase(c)' = "over",
         Greeted(c)' = Greeted(c), Waiting(c)' = Waiting(c), heard'[c].bye = heard[c].bye
  PROVE  Stream!Next
<1>1. UNCHANGED <<GreetedMap, WaitingMap, LeftMap>>
  BY Kept DEF OnlyFor, SameFor
<1>2. Stream!Move(c, {"absent"}, "over")
  BY Moved, Now, Promises
<1>3. Stream!TurnAway(c)
  BY <1>1, <1>2 DEF Stream!TurnAway, GreetedMap, WaitingMap, LeftMap
<1> QED BY <1>3 DEF Stream!Next

LEMMA MapsSkipHello ==
  ASSUME NEW c \in Clients, OnlyFor(c), Phase(c) \in {"open", "ending", "over"},
         ~ Greeted(c), Greeted(c)',
         Phase(c)' = Phase(c), Waiting(c)' = Waiting(c), heard'[c].bye = heard[c].bye
  PROVE  Stream!Next
<1>1. UNCHANGED <<PhaseMap, WaitingMap, LeftMap>>
  BY Kept DEF OnlyFor, SameFor
<1>2. GreetedMap' = [GreetedMap EXCEPT ![c] = TRUE]
  <2>1. Greeted(c)' = TRUE
    BY DEF Greeted
  <2>2. GreetedMap' = [GreetedMap EXCEPT ![c] = Greeted(c)']
    BY Moved
  <2> QED BY <2>1, <2>2
<1>3. PhaseMap[c] \in {"open", "ending", "over"} /\ ~ GreetedMap[c]
  BY Now
<1>4. Stream!SkipHello(c)
  BY <1>1, <1>2, <1>3 DEF Stream!SkipHello, PhaseMap, GreetedMap, WaitingMap, LeftMap
<1> QED BY <1>4 DEF Stream!Next

LEMMA MapsCutOff ==
  ASSUME NEW c \in Clients, OnlyFor(c), Phase(c) = "open", Phase(c)' = "ending",
         Greeted(c)' = Greeted(c), Waiting(c)' = Waiting(c), heard'[c].bye = heard[c].bye
  PROVE  Stream!Next
<1>1. UNCHANGED <<GreetedMap, WaitingMap, LeftMap>>
  BY Kept DEF OnlyFor, SameFor
<1>2. Stream!Move(c, {"open"}, "ending")
  BY Moved, Now, Promises
<1>3. Stream!CutOff(c)
  BY <1>1, <1>2 DEF Stream!CutOff, GreetedMap, WaitingMap, LeftMap
<1> QED BY <1>3 DEF Stream!Next

LEMMA MapsEnd ==
  ASSUME NEW c \in Clients, OnlyFor(c), Phase(c) \in {"open", "ending"}, Phase(c)' = "over",
         Greeted(c)' = Greeted(c), Waiting(c)' = <<>>, heard'[c].bye = heard[c].bye
  PROVE  Stream!Next
<1>1. UNCHANGED <<GreetedMap, LeftMap>>
  BY Kept DEF OnlyFor, SameFor
<1>2. Stream!Move(c, {"open", "ending"}, "over")
  BY Moved, Now, Promises
<1>3. WaitingMap' = [WaitingMap EXCEPT ![c] = <<>>]
  BY Moved
<1>4. Stream!End(c)
  BY <1>1, <1>2, <1>3 DEF Stream!End, GreetedMap, WaitingMap, LeftMap
<1> QED BY <1>4 DEF Stream!Next

LEMMA MapsRead ==
  ASSUME NEW c \in Clients, OnlyFor(c), Phase(c) \in {"open", "ending"}, Waiting(c) # <<>>,
         Waiting(c)' = Tail(Waiting(c)),
         heard'[c].bye = (heard[c].bye \/ Head(Waiting(c)).kind = "bye"),
         Phase(c)' = Phase(c), Greeted(c)' = Greeted(c)
  PROVE  Stream!Next
<1>1. UNCHANGED <<PhaseMap, GreetedMap>>
  BY Kept DEF OnlyFor, SameFor
<1>2. PhaseMap[c] \in {"open", "ending"} /\ WaitingMap[c] # <<>>
  BY Now
<1>3. WaitingMap' = [WaitingMap EXCEPT ![c] = Tail(@)]
  <2>1. WaitingMap' = [WaitingMap EXCEPT ![c] = Tail(Waiting(c))]
    BY Moved
  <2> QED BY <2>1, Now
<1>4. LeftMap' = [LeftMap EXCEPT ![c] = @ \/ Head(WaitingMap[c]).kind = "bye"]
  <2>1. LeftMap' = [LeftMap EXCEPT ![c] = heard[c].bye \/ Head(Waiting(c)).kind = "bye"]
    BY Moved
  <2> QED BY <2>1, Now
<1>5. Stream!Read(c)
  BY <1>1, <1>2, <1>3, <1>4 DEF Stream!Read, PhaseMap, GreetedMap, WaitingMap, LeftMap
<1> QED BY <1>5 DEF Stream!Next

LEMMA MapsSay ==
  ASSUME NEW c \in Clients, NEW m \in Message, OnlyFor(c), Phase(c) = "open",
         m.kind \notin {"bye", "refused"}, m.kind = "hello" => ~ Greeted(c),
         Len(Waiting(c)) < SendQueue, Waiting(c)' = Append(Waiting(c), m),
         Greeted(c)' = (Greeted(c) \/ m.kind = "hello"),
         Phase(c)' = Phase(c), heard'[c].bye = heard[c].bye
  PROVE  Stream!Next
<1>1. UNCHANGED <<PhaseMap, LeftMap>>
  BY Kept DEF OnlyFor, SameFor
<1>2. /\ PhaseMap[c] = "open" /\ Len(WaitingMap[c]) < SendQueue
      /\ m.kind = "hello" => ~ GreetedMap[c]
  BY Now
<1>3. WaitingMap' = [WaitingMap EXCEPT ![c] = Append(@, m)]
  <2>1. WaitingMap' = [WaitingMap EXCEPT ![c] = Append(Waiting(c), m)]
    BY Moved
  <2> QED BY <2>1, Now
<1>4. GreetedMap' = [GreetedMap EXCEPT ![c] = @ \/ m.kind = "hello"]
  <2>1. GreetedMap' = [GreetedMap EXCEPT ![c] = Greeted(c) \/ m.kind = "hello"]
    BY Moved
  <2> QED BY <2>1, Now
<1>5. Stream!Say(c, m)
  BY <1>1, <1>2, <1>3, <1>4 DEF Stream!Say, PhaseMap, GreetedMap, WaitingMap, LeftMap
<1> QED BY <1>5 DEF Stream!Next

LEMMA MapsGoodbye ==
  ASSUME NEW c \in Clients, NEW m \in Message, OnlyFor(c), m.kind = "bye",
         Phase(c) = "open", Phase(c)' = "ending",
         Waiting(c)' = IF Len(Waiting(c)) < SendQueue THEN Append(Waiting(c), m) ELSE Waiting(c),
         Greeted(c)' = Greeted(c), heard'[c].bye = heard[c].bye
  PROVE  Stream!Next
<1>1. UNCHANGED <<GreetedMap, LeftMap>>
  BY Kept DEF OnlyFor, SameFor
<1>2. Stream!Move(c, {"open"}, "ending")
  BY Moved, Now, Promises
<1>3. WaitingMap' = [WaitingMap EXCEPT ![c] = IF Len(@) < SendQueue THEN Append(@, m) ELSE @]
  <2>1. WaitingMap' = [WaitingMap EXCEPT ![c] =
           IF Len(Waiting(c)) < SendQueue THEN Append(Waiting(c), m) ELSE Waiting(c)]
    BY Moved
  <2> QED BY <2>1, Now
<1>4. Stream!Goodbye(c, m)
  BY <1>1, <1>2, <1>3 DEF Stream!Goodbye, GreetedMap, WaitingMap, LeftMap
<1> QED BY <1>4 DEF Stream!Next

-----------------------------------------------------------------------------
(* The steps of the server.                                                 *)

Simulated == Stream!Next \/ UNCHANGED Stream!promise

\* What leaves one connection as it was.
LEMMA Alike ==
  ASSUME NEW k \in Clients,
         writer'[k] = writer[k], out'[k] = out[k], heard'[k].bye = heard[k].bye,
         (k \in live') = (k \in live),
         Owed(k)' = Owed(k), HelloOwed(k)' = HelloOwed(k),
         writer[k] = "off" => (conn'[k] = "closed") = (conn[k] = "closed")
  PROVE  SameFor(k)
<1>1. Phase(k)' = Phase(k)
  BY DEF Phase
<1>2. Greeted(k)' = Greeted(k) /\ Waiting(k)' = Waiting(k)
  BY DEF Greeted, Waiting
<1> QED BY <1>1, <1>2 DEF SameFor

LEMMA DebtsAlike ==
  /\ todo'[Stopper] = todo[Stopper] => \A k \in Clients : Owed(k)' = Owed(k)
  /\ todo'[Acceptor] = todo[Acceptor] => \A k \in Clients : HelloOwed(k)' = HelloOwed(k)
BY DEF Owed, HelloOwed

\* Neither the acceptor nor the stopper, and nothing a peer can see.
Calm ==
  /\ UNCHANGED <<live, writer, out, heard>>
  /\ todo'[Stopper] = todo[Stopper] /\ todo'[Acceptor] = todo[Acceptor]
  /\ \A k \in Clients : writer[k] = "off" => (conn'[k] = "closed") = (conn[k] = "closed")

LEMMA CalmStutters ==
  ASSUME Calm
  PROVE  Simulated
<1>1. ASSUME NEW k \in Clients PROVE SameFor(k)
  BY DebtsAlike, Alike DEF Calm
<1> QED BY <1>1, Stutters DEF Simulated

LEMMA SameDelivery ==
  ASSUME NEW T, NEW d \in [to : Clients, msg : T], NEW e \in [to : Clients, msg : T],
         d.to = e.to, d.msg = e.msg
  PROVE  d = e
OBVIOUS

\* A send leaves the hands of the goroutine that owed it.
LEMMA SendLeaves ==
  ASSUME StreamTypes, OwedInv, NEW p \in Procs \ {Stopper}, NEW d \in todo[p],
         todo' = [todo EXCEPT ![p] = @ \ {d}]
  PROVE  /\ d.to \in Clients /\ d.msg \in Message /\ todo'[Stopper] = todo[Stopper]
         /\ d.msg.kind \notin {"bye", "refused"}
         /\ \A k \in Clients \ {d.to} : HelloOwed(k)' = HelloOwed(k)
         /\ d.msg.kind # "hello" => HelloOwed(d.to)' = HelloOwed(d.to)
         /\ d.msg.kind = "hello" => HelloOwed(d.to) /\ ~ HelloOwed(d.to)'
<1> USE ProcsApart DEF StreamTypes, BlankTypes, LifeTypes
<1>1. d.to \in Clients /\ d.msg \in Message /\ todo'[Stopper] = todo[Stopper]
  BY DEF Delivery
<1>2. d.msg.kind \notin {"bye", "refused"}
  BY DEF OwedInv, Proper
<1>3. \A e \in todo'[Acceptor] : e \in todo[Acceptor]
  OBVIOUS
<1>4. \A e \in todo[Acceptor] : e # d => e \in todo'[Acceptor]
  OBVIOUS
<1>5. \A k \in Clients \ {d.to} : HelloOwed(k)' = HelloOwed(k)
  BY <1>3, <1>4 DEF HelloOwed
<1>6. d.msg.kind # "hello" => HelloOwed(d.to)' = HelloOwed(d.to)
  BY <1>3, <1>4 DEF HelloOwed
<1>7. ASSUME d.msg.kind = "hello" PROVE HelloOwed(d.to) /\ ~ HelloOwed(d.to)'
  <2>1. p = Acceptor /\ d.msg = Plain("hello")
    BY <1>7 DEF OwedInv, Proper
  <2>2. \A e \in todo[Acceptor] : e.to = d.to /\ e.msg.kind = "hello" => e = d
    <3> SUFFICES ASSUME NEW e \in todo[Acceptor], e.to = d.to, e.msg.kind = "hello" PROVE e = d
      OBVIOUS
    <3>1. e.msg = d.msg
      BY <2>1 DEF OwedInv, Proper
    <3>2. e \in Delivery /\ d \in Delivery
      BY <2>1
    <3> QED BY <3>1, <3>2, SameDelivery DEF Delivery
  <2>3. d \notin todo'[Acceptor]
    BY <2>1
  <2> QED BY <1>3, <1>7, <2>1, <2>2, <2>3 DEF HelloOwed
<1> QED BY <1>1, <1>2, <1>5, <1>6, <1>7

\* A send that queues nothing.
LEMMA SendLost ==
  ASSUME StreamTypes, OwedInv, NEW p \in Procs \ {Stopper}, NEW d \in todo[p],
         todo' = [todo EXCEPT ![p] = @ \ {d}],
         UNCHANGED <<live, writer, heard, conn>>,
         \A k \in Clients : Waiting(k)' = Waiting(k)
  PROVE  Simulated
<1>1. /\ d.to \in Clients /\ todo'[Stopper] = todo[Stopper]
      /\ \A k \in Clients \ {d.to} : HelloOwed(k)' = HelloOwed(k)
      /\ d.msg.kind # "hello" => HelloOwed(d.to)' = HelloOwed(d.to)
      /\ d.msg.kind = "hello" => HelloOwed(d.to) /\ ~ HelloOwed(d.to)'
  BY SendLeaves
<1>2. \A k \in Clients : Phase(k)' = Phase(k)
  BY <1>1, DebtsAlike DEF Phase
<1>3. \A k \in Clients : HelloOwed(k)' = HelloOwed(k) \/ writer[k] = "off" => SameFor(k)
  BY <1>2 DEF SameFor, Greeted
<1>4. CASE d.msg.kind = "hello" /\ writer[d.to] # "off"
  <2>1. OnlyFor(d.to)
    BY <1>1, <1>3 DEF OnlyFor
  <2>2. ~ Greeted(d.to) /\ Greeted(d.to)'
    BY <1>1, <1>4 DEF Greeted
  <2>3. Phase(d.to) \in {"open", "ending", "over"}
    BY <1>4 DEF Phase
  <2> QED BY <1>1, <1>2, <2>1, <2>2, <2>3, MapsSkipHello DEF Simulated
<1>5. CASE ~ (d.msg.kind = "hello" /\ writer[d.to] # "off")
  <2>1. \A k \in Clients : SameFor(k)
    BY <1>1, <1>3, <1>5
  <2> QED BY <2>1, Stutters DEF Simulated
<1> QED BY <1>4, <1>5

LEMMA CallsSimulated ==
  ASSUME StreamTypes, StreamInv, NEW p \in Procs, Call(p)
  PROVE  Simulated
<1> USE ProcsApart
    DEF StreamTypes, BlankTypes, LifeTypes, StreamInv, desk, ticking, asks, queue, wire, client,
        procs, world
<1>0. p # Stopper
  BY DEF Call, SendToGone, Enqueue, Overflow, DropFirst, DropAgain, CloseClient, StartLoop,
     StopLoop, KeepLoop, CloseInv, StopperInv
<1>1. CASE SendToGone(p) \/ Overflow(p)
  <2>1. PICK d \in todo[p] :
          /\ todo' = [todo EXCEPT ![p] = @ \ {d}]
          /\ UNCHANGED <<live, writer, heard, conn, out>>
    BY <1>1 DEF SendToGone, Overflow, Ready
  <2> QED BY <1>0, <2>1, SendLost DEF Waiting
<1>2. CASE Enqueue(p)
  <2>1. PICK d \in todo[p] :
          /\ d.to \in live /\ Len(out[d.to]) < SendQueue
          /\ out' = [out EXCEPT ![d.to] = Append(@, d.msg)]
          /\ todo' = [todo EXCEPT ![p] = @ \ {d}]
          /\ UNCHANGED <<live, writer, heard, conn>>
    BY <1>2 DEF Enqueue, Ready
  <2>2. CASE writer[d.to] # "on"
    <3>1. \A k \in Clients : Waiting(k)' = Waiting(k)
      BY <2>1, <2>2 DEF Waiting
    <3> QED BY <1>0, <2>1, <3>1, SendLost
  <2>3. CASE writer[d.to] = "on"
    <3>1. /\ d.to \in Clients /\ d.msg \in Message /\ todo'[Stopper] = todo[Stopper]
          /\ d.msg.kind \notin {"bye", "refused"}
          /\ \A k \in Clients \ {d.to} : HelloOwed(k)' = HelloOwed(k)
          /\ d.msg.kind # "hello" => HelloOwed(d.to)' = HelloOwed(d.to)
          /\ d.msg.kind = "hello" => HelloOwed(d.to) /\ ~ HelloOwed(d.to)'
      BY <1>0, <2>1, SendLeaves
    <3>2. OnlyFor(d.to)
      <4> SUFFICES ASSUME NEW k \in Clients \ {d.to} PROVE SameFor(k)
        BY DEF OnlyFor
      <4>1. out'[k] = out[k] /\ Owed(k)' = Owed(k) /\ HelloOwed(k)' = HelloOwed(k)
        BY <2>1, <3>1, DebtsAlike
      <4> QED BY <2>1, <4>1, Alike
    <3>3. Phase(d.to) = "open" /\ Phase(d.to)' = Phase(d.to)
      BY <2>1, <2>3, <3>1 DEF Phase
    <3>4. /\ Len(Waiting(d.to)) < SendQueue
          /\ Waiting(d.to)' = Append(Waiting(d.to), d.msg)
      BY <2>1, <2>3, <3>1 DEF Waiting
    <3>5. /\ d.msg.kind = "hello" => ~ Greeted(d.to)
          /\ Greeted(d.to)' = (Greeted(d.to) \/ d.msg.kind = "hello")
      BY <2>1, <2>3, <3>1 DEF Greeted
    <3>6. heard'[d.to].bye = heard[d.to].bye
      BY <2>1
    <3> QED BY <3>1, <3>2, <3>3, <3>4, <3>5, <3>6, MapsSay DEF Simulated
  <2> QED BY <2>2, <2>3
<1>3. CASE DropFirst(p)
  <2>1. PICK c \in Clients :
          /\ c \in live /\ live' = live \ {c}
          /\ UNCHANGED <<writer, out, heard, conn, todo>>
    BY <1>3 DEF DropFirst
  <2>2. writer[c] # "off" /\ ~ Owed(c)
    BY <2>1 DEF BornInv, CloseInv
  <2>3. \A k \in Clients : Owed(k)' = Owed(k) /\ HelloOwed(k)' = HelloOwed(k)
    BY <2>1, DebtsAlike
  <2>4. OnlyFor(c)
    <3> SUFFICES ASSUME NEW k \in Clients \ {c} PROVE SameFor(k)
      BY DEF OnlyFor
    <3>1. (k \in live') = (k \in live) /\ writer'[k] = writer[k] /\ out'[k] = out[k]
      BY <2>1
    <3> QED BY <2>1, <2>3, <3>1, Alike
  <2>5. Greeted(c)' = Greeted(c) /\ Waiting(c)' = Waiting(c) /\ heard'[c].bye = heard[c].bye
    BY <2>1, <2>2, <2>3 DEF Greeted, Waiting
  <2>6. CASE writer[c] = "on"
    <3>1. Phase(c) = "open" /\ Phase(c)' = "ending"
      BY <2>1, <2>2, <2>3, <2>6 DEF Phase
    <3> QED BY <2>2, <2>4, <2>5, <3>1, MapsCutOff DEF Simulated
  <2>7. CASE writer[c] = "gone"
    <3>1. Phase(c)' = Phase(c)
      BY <2>1, <2>7 DEF Phase
    <3>2. \A k \in Clients : SameFor(k)
      BY <2>4, <2>5, <3>1 DEF OnlyFor, SameFor
    <3> QED BY <3>2, Stutters DEF Simulated
  <2> QED BY <2>2, <2>6, <2>7 DEF WriterStates
<1>4. CASE CloseClient(p)
  <2>1. /\ conn' = [conn EXCEPT ![target[p]] = "closed"] /\ pc[p] = "close"
        /\ UNCHANGED <<live, writer, out, heard, todo>>
    BY <1>4 DEF CloseClient
  <2>2. writer[target[p]] # "off"
    BY <2>1 DEF BornInv
  <2>3. Calm
    BY <2>1, <2>2 DEF Calm
  <2> QED BY <2>3, CalmStutters
<1>5. CASE DropAgain(p) \/ StartLoop(p) \/ StopLoop(p) \/ KeepLoop(p)
  <2>1. Calm
    BY <1>5 DEF DropAgain, StartLoop, StopLoop, KeepLoop, RetickKeeps, Calm
  <2> QED BY <2>1, CalmStutters
<1> QED BY <1>1, <1>2, <1>3, <1>4, <1>5 DEF Call

LEMMA AcceptingSimulated ==
  ASSUME StreamTypes, StreamInv, Accepting
  PROVE  Simulated
<1> USE ProcsApart
    DEF StreamTypes, BlankTypes, LifeTypes, StreamInv, desk, ticking, asks, queue, wire, client,
        procs, world
<1>1. ASSUME NEW c \in Clients, Refuse(c) \/ TurnAway(c)
      PROVE  Simulated
  <2>1. /\ conn[c] = "none" /\ conn' = [conn EXCEPT ![c] = "closed"]
        /\ UNCHANGED <<live, writer, out, todo>>
        /\ heard' = heard \/ heard' = [heard EXCEPT ![c] = Hearing(@, Plain("refused"))]
    BY <1>1 DEF Refuse, TurnAway
  <2>2. writer[c] = "off"
    BY <2>1 DEF CloseInv, FreshInv, Fresh
  <2>3. \A k \in Clients : heard'[k].bye = heard[k].bye
    BY <2>1 DEF Hearing, Plain
  <2>4. \A k \in Clients : Owed(k)' = Owed(k) /\ HelloOwed(k)' = HelloOwed(k)
    BY <2>1, DebtsAlike
  <2>5. OnlyFor(c)
    BY <2>1, <2>3, <2>4, Alike DEF OnlyFor
  <2>6. Phase(c) = "absent" /\ Phase(c)' = "over"
    BY <2>1, <2>2 DEF Phase
  <2>7. Greeted(c)' = Greeted(c) /\ Waiting(c)' = Waiting(c)
    BY <2>1, <2>2, <2>4 DEF Greeted, Waiting
  <2> QED BY <2>3, <2>5, <2>6, <2>7, MapsTurnAway DEF Simulated
<1>2. CASE \E c \in Clients : Admit(c)
  <2>1. Calm
    BY <1>2 DEF Admit, Calm
  <2> QED BY <2>1, CalmStutters
<1>3. CASE Register
  <2>1. PICK c \in Clients :
          /\ pc[Acceptor] = "register" /\ c = target[Acceptor]
          /\ live' = live \cup {c} /\ writer' = [writer EXCEPT ![c] = "on"]
          /\ todo' = [todo EXCEPT ![Acceptor] = Greeting(c)]
          /\ UNCHANGED <<out, conn, heard>>
    BY <1>3 DEF Register
  <2>2. writer[c] = "off" /\ conn[c] # "closed" /\ out[c] = <<>> /\ todo[Acceptor] = {}
    BY <2>1 DEF CloseInv, FreshInv, Fresh, AdmitInv, BornInv, BlankInv
  <2>3. \A k \in Clients : Owed(k)' = Owed(k)
    BY <2>1, DebtsAlike
  <2>4. \A k \in Clients : ~ HelloOwed(k)
    BY <2>2 DEF HelloOwed
  <2>5. \A k \in Clients \ {c} : ~ HelloOwed(k)'
    <3>1. \A d \in Greeting(c) : d.to = c
      BY DEF Greeting, ToAll
    <3> QED BY <2>1, <3>1 DEF HelloOwed
  <2>6. HelloOwed(c)'
    <3> DEFINE d == [to |-> c, msg |-> Plain("hello")]
    <3>1. d \in Greeting(c) /\ d.to = c /\ d.msg.kind = "hello"
      BY MessageKinds DEF Greeting, ToAll
    <3>2. d \in todo'[Acceptor]
      BY <2>1, <3>1
    <3> QED BY <3>1, <3>2 DEF HelloOwed
  <2>7. OnlyFor(c)
    <3> SUFFICES ASSUME NEW k \in Clients \ {c} PROVE SameFor(k)
      BY DEF OnlyFor
    <3>1. /\ HelloOwed(k)' = HelloOwed(k) /\ (k \in live') = (k \in live)
          /\ writer'[k] = writer[k]
      BY <2>1, <2>4, <2>5 DEF HelloOwed
    <3> QED BY <2>1, <2>3, <3>1, Alike
  <2>8. Phase(c) = "absent" /\ Phase(c)' = "open"
    BY <2>1, <2>2 DEF Phase
  <2>9. Greeted(c)' = Greeted(c) /\ Waiting(c)' = Waiting(c)
    BY <2>1, <2>2, <2>6 DEF Greeted, Waiting
  <2> QED BY <2>1, <2>7, <2>8, <2>9, MapsOpen DEF Simulated
<1>4. CASE RegisterTooLate
  <2>1. PICK c \in Clients :
          /\ pc[Acceptor] = "register" /\ c = target[Acceptor]
          /\ conn' = [conn EXCEPT ![c] = "closed"]
          /\ UNCHANGED <<live, writer, out, todo, heard>>
    BY <1>4 DEF RegisterTooLate
  <2>2. writer[c] = "off" /\ conn[c] # "closed"
    BY <2>1 DEF CloseInv, FreshInv, Fresh, AdmitInv
  <2>3. \A k \in Clients : Owed(k)' = Owed(k) /\ HelloOwed(k)' = HelloOwed(k)
    BY <2>1, DebtsAlike
  <2>4. OnlyFor(c)
    BY <2>1, <2>3, Alike DEF OnlyFor
  <2>5. Phase(c) = "absent" /\ Phase(c)' = "over"
    BY <2>1, <2>2 DEF Phase
  <2>6. Greeted(c)' = Greeted(c) /\ Waiting(c)' = Waiting(c)
    BY <2>1, <2>2, <2>3 DEF Greeted, Waiting
  <2> QED BY <2>1, <2>4, <2>5, <2>6, MapsTurnAway DEF Simulated
<1>5. CASE AcceptFails \/ ServeReturns
  <2>1. Calm
    BY <1>5 DEF AcceptFails, ServeReturns, Calm
  <2> QED BY <2>1, CalmStutters
<1> QED BY <1>1, <1>2, <1>3, <1>4, <1>5 DEF Accepting

LEMMA WritingSimulated ==
  ASSUME StreamTypes, StreamInv, NEW c \in Clients, Writing(c)
  PROVE  Simulated
<1> USE DEF StreamTypes, BlankTypes, LifeTypes, desk, ticking, asks, queue, wire, client, procs,
        world
<1>1. writer[c] = "on" /\ UNCHANGED <<live, todo>>
  BY DEF Writing, Write, WriteFails, WriterEnds
<1>2. \A k \in Clients : Owed(k)' = Owed(k) /\ HelloOwed(k)' = HelloOwed(k)
  BY <1>1, DebtsAlike
<1>3. \A k \in Clients \ {c} :
        writer'[k] = writer[k] /\ out'[k] = out[k] /\ heard'[k] = heard[k] /\ conn'[k] = conn[k]
  BY DEF Writing, Write, WriteFails, WriterEnds
<1>4. OnlyFor(c)
  BY <1>1, <1>2, <1>3, Alike DEF OnlyFor
<1>5. Phase(c) \in {"open", "ending"} /\ Waiting(c) = out[c]
  BY <1>1 DEF Phase, Waiting
<1>6. CASE Write(c)
  <2>1. /\ out[c] # <<>> /\ out'[c] = Tail(out[c]) /\ writer'[c] = "on"
        /\ heard'[c] = Hearing(heard[c], Head(out[c])) /\ conn' = conn
    BY <1>1, <1>6 DEF Write
  <2>2. Phase(c)' = Phase(c) /\ Greeted(c)' = Greeted(c)
    BY <1>1, <1>2, <2>1 DEF Phase, Greeted
  <2>3. Waiting(c)' = Tail(Waiting(c))
    BY <1>5, <2>1 DEF Waiting
  <2>4. heard'[c].bye = (heard[c].bye \/ Head(Waiting(c)).kind = "bye")
    BY <1>5, <2>1 DEF Hearing
  <2> QED BY <1>4, <1>5, <2>1, <2>2, <2>3, <2>4, MapsRead DEF Simulated
<1>7. CASE WriteFails(c) \/ WriterEnds(c)
  <2>1. writer'[c] = "gone" /\ heard' = heard
    BY <1>7 DEF WriteFails, WriterEnds
  <2>2. Phase(c)' = "over" /\ Greeted(c)' = Greeted(c) /\ Waiting(c)' = <<>>
    BY <1>1, <1>2, <2>1 DEF Phase, Greeted, Waiting
  <2> QED BY <1>4, <1>5, <2>1, <2>2, MapsEnd DEF Simulated
<1> QED BY <1>6, <1>7 DEF Writing

LEMMA ReadingSimulated ==
  ASSUME StreamTypes, NEW c \in Clients, Reading(c)
  PROVE  Simulated
<1>1. Calm
  BY ProcsApart
     DEF StreamTypes, BlankTypes, LifeTypes, Reading, ScanEnds, Stamp, PutRequest, Challenge, Watch,
         Unwatch, Ask, Calm, desk, queue, wire, procs
<1> QED BY <1>1, CalmStutters

LEMMA InterfaceSimulated ==
  ASSUME StreamTypes, Interface \/ Floors \/ Exit \/ UNCHANGED vars
  PROVE  Simulated
<1> USE ProcsApart
    DEF StreamTypes, BlankTypes, LifeTypes, desk, queue, wire, procs
<1>1. CASE \E p \in Publishers : Publish(p) \/ PublishPings(p)
  <2>1. Calm
    BY <1>1 DEF Publish, PublishPings, FanOut, Calm
  <2> QED BY <2>1, CalmStutters
<1>2. CASE ~ \E p \in Publishers : Publish(p) \/ PublishPings(p)
  <2>1. Calm
    BY <1>2 DEF Interface, TakeMeasure, TakeRequest, Floors, FloorPasses, ChallengeFloorPasses,
       Exit, vars, Calm
  <2> QED BY <2>1, CalmStutters
<1> QED BY <1>1, <1>2

LEMMA LoopingSimulated ==
  ASSUME StreamTypes, NEW l \in Loops, Looping(l)
  PROVE  Simulated
<1> USE ProcsApart
    DEF StreamTypes, BlankTypes, LifeTypes, desk, queue, wire, procs
<1>1. UNCHANGED <<live, writer, out, heard, conn>> /\ \A q \in Procs \ {l} : todo'[q] = todo[q]
  <2>1. CASE StartRound(l) \/ LoopEnds(l)
    BY <2>1 DEF StartRound, LoopEnds
  <2>2. CASE \E t \in Tunnels : ReadCounters(l, t) \/ NoCounters(l, t)
    BY <2>2 DEF ReadCounters, NoCounters
  <2> QED BY <2>1, <2>2 DEF Looping
<1>2. Calm
  BY <1>1 DEF Calm
<1> QED BY <1>2, CalmStutters

LEMMA StoppingSimulated ==
  ASSUME StreamTypes, StreamInv, Stopping
  PROVE  Simulated
<1> USE ProcsApart
    DEF StreamTypes, BlankTypes, LifeTypes, StreamInv, desk, ticking, asks, queue, wire, client,
        procs, world
\* The clients that were on the server are those that are owed a goodbye.
<1>1. CASE TakeAll
  <2>1. /\ pc[Stopper] = "stopping" /\ live' = {}
        /\ todo' = [todo EXCEPT ![Stopper] = ToAll(live, Plain("bye"))]
        /\ UNCHANGED <<writer, out, heard, conn>>
    BY <1>1 DEF TakeAll
  <2>2. \A k \in Clients : ~ Owed(k) /\ (Owed(k)' <=> k \in live) /\ k \notin live'
    <3>1. todo[Stopper] = {}
      BY <2>1 DEF CloseInv, StopperInv
    <3>2. \A k \in Clients : (\E d \in ToAll(live, Plain("bye")) : d.to = k) <=> k \in live
      <4>1. \A k \in Clients : k \in live =>
              \E d \in ToAll(live, Plain("bye")) : d.to = k
        <5> SUFFICES ASSUME NEW k \in live
                     PROVE  \E d \in ToAll(live, Plain("bye")) : d.to = k
          OBVIOUS
        <5> DEFINE d == [to |-> k, msg |-> Plain("bye")]
        <5>1. d \in ToAll(live, Plain("bye")) /\ d.to = k
          BY DEF ToAll
        <5> QED BY <5>1
      <4>2. \A d \in ToAll(live, Plain("bye")) : d.to \in live
        BY DEF ToAll
      <4> QED BY <4>1, <4>2
    <3>3. todo'[Stopper] = ToAll(live, Plain("bye"))
      BY <2>1
    <3> QED BY <2>1, <3>1, <3>2, <3>3 DEF Owed
  <2>3. \A k \in Clients : HelloOwed(k)' = HelloOwed(k)
    BY <2>1, DebtsAlike
  <2>4. \A k \in Clients : SameFor(k)
    BY <2>1, <2>2, <2>3 DEF SameFor, Phase, Greeted, Waiting
  <2> QED BY <2>4, Stutters DEF Simulated
<1>2. CASE Farewell
  <2>1. PICK d \in todo[Stopper] :
          /\ out' = [out EXCEPT ![d.to] =
                       IF Len(@) < SendQueue THEN Append(@, d.msg) ELSE @]
          /\ conn' = [conn EXCEPT ![d.to] = IF @ = "closed" THEN @ ELSE "deadline"]
          /\ todo' = [todo EXCEPT ![Stopper] = @ \ {d}]
          /\ UNCHANGED <<live, writer, heard>>
    BY <1>2 DEF Farewell
  <2>2. PICK c \in Clients : c = d.to
    BY DEF Delivery
  <2>3. /\ Owed(c) /\ c \notin live /\ writer[c] # "off"
        /\ d.msg \in Message /\ d.msg.kind = "bye"
    BY <2>2 DEF CloseInv, Owed, BornInv, OwedInv, Proper, Delivery
  <2>4. \A k \in Clients : HelloOwed(k)' = HelloOwed(k)
    BY <2>1, DebtsAlike
  <2>5. todo'[Stopper] = todo[Stopper] \ {d}
    BY <2>1
  <2>6. ~ Owed(c)' /\ \A k \in Clients \ {c} : Owed(k)' = Owed(k)
    BY <2>2, <2>5 DEF Owed, CloseInv, StopperInv
  <2>7. OnlyFor(c)
    <3> SUFFICES ASSUME NEW k \in Clients \ {c} PROVE SameFor(k)
      BY DEF OnlyFor
    <3>1. out'[k] = out[k] /\ conn'[k] = conn[k]
      BY <2>1, <2>2
    <3> QED BY <2>1, <2>4, <2>6, <3>1, Alike
  <2>8. Greeted(c)' = Greeted(c) /\ heard'[c].bye = heard[c].bye
    BY <2>1, <2>4 DEF Greeted
  <2>9. CASE writer[c] = "on"
    <3>1. Phase(c) = "open" /\ Phase(c)' = "ending"
      BY <2>1, <2>3, <2>6, <2>9 DEF Phase
    <3>2. Waiting(c)' = IF Len(Waiting(c)) < SendQueue THEN Append(Waiting(c), d.msg)
                        ELSE Waiting(c)
      BY <2>1, <2>2, <2>9 DEF Waiting
    <3> QED BY <2>3, <2>7, <2>8, <3>1, <3>2, MapsGoodbye DEF Simulated
  <2>10. CASE writer[c] = "gone"
    <3>1. Phase(c)' = Phase(c) /\ Waiting(c)' = Waiting(c)
      BY <2>1, <2>10 DEF Phase, Waiting
    <3>2. \A k \in Clients : SameFor(k)
      BY <2>7, <2>8, <3>1 DEF OnlyFor, SameFor
    <3> QED BY <3>2, Stutters DEF Simulated
  <2> QED BY <2>3, <2>9, <2>10 DEF WriterStates
<1>3. CASE Cancel \/ HushSampling \/ Close
  <2>1. Calm
    BY <1>3 DEF Cancel, HushSampling, Close, Calm
  <2> QED BY <2>1, CalmStutters
<1> QED BY <1>1, <1>2, <1>3 DEF Stopping

-----------------------------------------------------------------------------
LEMMA StreamStarts == Init => Stream!Init
<1> SUFFICES ASSUME Init PROVE Stream!Init
  OBVIOUS
<1>1. \A c \in Clients : /\ writer[c] = "off" /\ conn[c] = "none"
                         /\ heard[c].bye = FALSE
  BY DEF Init, Silence
<1>2. [c \in Clients |-> Phase(c)] = [c \in Clients |-> "absent"]
  BY <1>1 DEF Phase
<1>3. [c \in Clients |-> writer[c] # "off" /\ ~ HelloOwed(c)] = [c \in Clients |-> FALSE]
  BY <1>1
<1>4. [c \in Clients |-> IF writer[c] = "on" THEN out[c] ELSE <<>>] = [c \in Clients |-> <<>>]
  BY <1>1
<1>5. [c \in Clients |-> heard[c].bye] = [c \in Clients |-> FALSE]
  BY <1>1
<1> QED BY <1>2, <1>3, <1>4, <1>5 DEF Stream!Init

LEMMA StreamMoves == StreamTypes /\ StreamInv /\ [Next]_vars => [Stream!Next]_(Stream!promise)
<1> SUFFICES ASSUME StreamTypes, StreamInv, [Next]_vars PROVE Simulated
  BY DEF Simulated
<1> QED
  BY CallsSimulated, AcceptingSimulated, WritingSimulated, ReadingSimulated, InterfaceSimulated,
     LoopingSimulated, StoppingSimulated DEF Next, Running, Ended

\* Every connection of the server is an ordered stream that loses nothing but
\* its end, with at most one hello and bye last (server.go:540-569, 855-925,
\* 1015-1046), whatever every other goroutine does meanwhile.
THEOREM ServerKeepsItsPromise == Spec => KeepsPromise
<1>1. Spec => [](StreamTypes /\ StreamInv)
  <2>1. Spec => []BlankTypes
    BY BlankTyped, TypeAlways, CloseAlways, PTL
  <2>2. Spec => []BlankInv
    BY <2>1, BlankInit, BlankStep, PTL DEF Spec
  <2>3. BlankTypes /\ BlankInv => StreamTypes
    BY DEF StreamTypes
  <2> QED BY <2>1, <2>2, <2>3, StreamInit, StreamStep, PTL DEF Spec
<1> QED BY <1>1, StreamStarts, StreamMoves, PTL DEF Spec, KeepsPromise, Stream!Spec
=============================================================================
