-------------------------- MODULE FeedServer_proofs --------------------------
(***************************************************************************)
(* What holds of FeedServer for every number of clients, publish commands, *)
(* sampling loops and tunnels, every queue length and every script.        *)
(***************************************************************************)
EXTENDS FeedServer, SequenceTheorems, TLAPS

-----------------------------------------------------------------------------
(* Typing.  TypeOK is not inductive by itself: what publish, ask, offer and *)
(* register are about to use has to be there.                              *)

TypeInv ==
  /\ TypeOK
  /\ \A p \in Publishers : pc[p] = "publish" => carry[p] # 0
  /\ \A c \in Clients : pc[c] \in {"ask", "offer"} => offer[c] \in Request
  /\ pc[Acceptor] = "register" => target[Acceptor] \in Clients

LEMMA ProcsApart ==
  /\ Acceptor \in Procs /\ Stopper \in Procs /\ Acceptor # Stopper
  /\ Clients \subseteq Procs /\ Publishers \subseteq Procs /\ Loops \subseteq Procs
  /\ Acceptor \notin Clients /\ Acceptor \notin Publishers /\ Acceptor \notin Loops
  /\ Stopper \notin Clients /\ Stopper \notin Publishers /\ Stopper \notin Loops
  /\ None \notin Clients /\ None \notin Loops /\ None \notin Tunnels
  /\ Clients \cap Publishers = {} /\ Clients \cap Loops = {}
  /\ Publishers \cap Loops = {}
BY ConstantsAssumption DEF Procs

LEMMA ScriptRows ==
  ASSUME NEW v \in 0..Len(Script)
  PROVE  Names(v) \subseteq Tunnels
<1>1. Script \in Seq([kind : {"state", "ping"}, rows : SUBSET Tunnels])
  BY ConstantsAssumption DEF ConstantsAssumption
<1>2. CASE v = 0
  BY <1>2 DEF Names
<1>3. CASE v # 0
  <2>1. Len(Script) \in Nat /\ v \in 1..Len(Script)
    BY <1>1, <1>3
  <2>2. Script[v] \in [kind : {"state", "ping"}, rows : SUBSET Tunnels]
    BY <1>1, <2>1, ElementOfSeq
  <2> QED BY <1>3, <2>2 DEF Names
<1> QED BY <1>2, <1>3

LEMMA PlainMessages ==
  ASSUME NEW kind \in Kinds \ {"state"}
  PROVE  Plain(kind) \in Message
BY DEF Plain, Message

LEMMA StateMessages ==
  ASSUME NEW v \in 1..Len(Script)
  PROVE  State(v) \in Message
BY DEF State, Message

LEMMA SampleMessages ==
  ASSUME NEW t \in Tunnels, NEW n \in {0, 1}
  PROVE  Sample(t, n) \in Message
BY DEF Sample, Message, Kinds

LEMMA ToAllDeliveries ==
  ASSUME NEW cs \in SUBSET Clients, NEW m \in Message
  PROVE  ToAll(cs, m) \in SUBSET Delivery
BY DEF ToAll, Delivery

LEMMA MessageFields ==
  ASSUME NEW m \in Message
  PROVE  /\ m.kind \in Kinds
         /\ m.kind = "state" => m.n \in 1..Len(Script)
BY DEF Message, Kinds

LEMMA HearingType ==
  ASSUME NEW h \in [view : 0..Len(Script), bye : BOOLEAN],
         NEW m \in Message
  PROVE  Hearing(h, m) \in
           [view : 0..Len(Script), bye : BOOLEAN]
<1>1. m.kind \in Kinds /\ (m.kind = "state" => m.n \in 0..Len(Script))
  BY MessageFields, ConstantsAssumption
<1> QED BY <1>1 DEF Hearing

LEMMA ResumePlaces ==
  ASSUME NEW p \in Procs, NEW owed
  PROVE  Resume(p, owed) \in {"send", "gone", "reading", "tick", "idle"}
BY DEF Resume, Home

LEMMA TypeInit == Init => TypeInv
<1> SUFFICES ASSUME Init PROVE TypeInv
  OBVIOUS
<1> USE ProcsApart DEF Init
<1>1. Len(Script) \in Nat
  BY ConstantsAssumption
<1>2. out \in [Clients -> Seq(Message)] /\ requests \in Seq(Request)
  OBVIOUS
<1>3. heard \in [Clients -> [view : 0..Len(Script), bye : BOOLEAN]]
  BY <1>1 DEF Silence
<1>4. pc \in [Procs -> PcStates]
  BY DEF PcStates
<1>5. /\ conn \in [Clients -> ConnStates] /\ writer \in [Clients -> WriterStates]
      /\ offer \in [Clients -> Request \cup {None}]
      /\ todo \in [Procs -> SUBSET Delivery]
      /\ target \in [Procs -> Clients \cup {None}]
      /\ watch \in [Clients -> SUBSET Tunnels]
  BY DEF ConnStates, WriterStates
<1>6. /\ \A p \in Publishers : pc[p] # "publish"
      /\ \A c \in Clients : pc[c] \notin {"ask", "offer"}
      /\ pc[Acceptor] # "register"
  OBVIOUS
<1>7. /\ view \in 0..Len(Script) /\ issued \in 0..Len(Script)
      /\ carry \in [Publishers -> 0..Len(Script)]
  BY <1>1
<1> QED
  BY <1>2, <1>3, <1>4, <1>5, <1>6, <1>7 DEF TypeInv, TypeOK

LEMMA TodoFields ==
  ASSUME TypeOK, NEW p \in Procs, NEW d \in todo[p]
  PROVE  d.to \in Clients /\ d.msg \in Message
<1>1. d \in Delivery
  BY DEF TypeOK
<1> QED BY <1>1 DEF Delivery

LEMMA TypeCalls ==
  ASSUME TypeInv, NEW p \in Procs, Call(p)
  PROVE  TypeInv'
<1> USE ProcsApart, ResumePlaces DEF TypeInv, TypeOK, PcStates, ConnStates, desk, ticking, asks, queue, wire, client, procs, world
<1>1. CASE SendToGone(p)
  <2>1. PICK d \in Ready(p) :
           /\ todo' = [todo EXCEPT ![p] = @ \ {d}]
           /\ pc' = [pc EXCEPT ![p] = Resume(p, todo[p] \ {d})]
    BY <1>1 DEF SendToGone
  <2> QED BY <1>1, <2>1 DEF SendToGone
<1>2. CASE Enqueue(p)
  <2>1. PICK d \in Ready(p) :
           /\ out' = [out EXCEPT ![d.to] = Append(@, d.msg)]
           /\ todo' = [todo EXCEPT ![p] = @ \ {d}]
           /\ pc' = [pc EXCEPT ![p] = Resume(p, todo[p] \ {d})]
    BY <1>2 DEF Enqueue
  <2>2. d.to \in Clients /\ d.msg \in Message
    BY TodoFields DEF Ready
  <2>3. Append(out[d.to], d.msg) \in Seq(Message)
    BY <2>2
  <2>4. out' \in [Clients -> Seq(Message)]
    BY <2>1, <2>2, <2>3
  <2>5. panicked' \in BOOLEAN
    BY <1>2, <2>2, TodoFields DEF Enqueue, Ready
  <2> QED BY <1>2, <2>1, <2>4, <2>5 DEF Enqueue
<1>3. CASE Overflow(p)
  <2>1. PICK d \in Ready(p) :
           /\ todo' = [todo EXCEPT ![p] = @ \ {d}]
           /\ target' = [target EXCEPT ![p] = d.to]
    BY <1>3 DEF Overflow
  <2>2. d.to \in Clients
    BY TodoFields DEF Ready
  <2> QED BY <1>3, <2>1, <2>2 DEF Overflow
<1>4. CASE DropFirst(p)
  BY <1>4 DEF DropFirst
<1>5. CASE DropAgain(p)
  BY <1>5 DEF DropAgain
<1>6. CASE CloseClient(p)
  BY <1>6 DEF CloseClient
<1>7. CASE StartLoop(p)
  <2>1. PICK l \in Loops :
           /\ sampling' = l
           /\ stopped' = [stopped EXCEPT ![l] = FALSE]
           /\ pc' = [pc EXCEPT ![p] = Resume(p, todo[p]), ![l] = "tick"]
    BY <1>7 DEF StartLoop
  <2>2. pc' \in [Procs -> PcStates]
    BY <2>1
  <2>3. \A q \in Procs : pc'[q] \in {"register", "publish", "ask", "offer"} => pc'[q] = pc[q]
    BY <2>1
  <2> QED BY <1>7, <2>1, <2>2, <2>3 DEF StartLoop, RetickKeeps
<1>8. CASE StopLoop(p)
  BY <1>8 DEF StopLoop, RetickKeeps
<1>9. CASE KeepLoop(p)
  BY <1>9 DEF KeepLoop, RetickKeeps
<1> QED BY <1>1, <1>2, <1>3, <1>4, <1>5, <1>6, <1>7, <1>8, <1>9, Call(p) DEF Call

LEMMA TypeAccepting ==
  ASSUME TypeInv, Accepting
  PROVE  TypeInv'
<1> USE ProcsApart DEF TypeInv, TypeOK, PcStates, ConnStates, WriterStates,
      desk, ticking, asks, queue, wire, client, procs, world
<1>1. CASE \E c \in Clients : Refuse(c)
  BY <1>1 DEF Refuse
<1>2. CASE \E c \in Clients : TurnAway(c)
  <2>1. PICK c \in Clients : TurnAway(c)
    BY <1>2
  <2>2. Plain("refused") \in Message
    BY PlainMessages DEF Kinds
  <2>3. heard' \in [Clients -> [view : 0..Len(Script), bye : BOOLEAN]]
    BY <2>1, <2>2, HearingType DEF TurnAway
  <2> QED BY <2>1, <2>3 DEF TurnAway
<1>3. CASE \E c \in Clients : Admit(c)
  BY <1>3 DEF Admit
<1>4. CASE Register
  <2> DEFINE c == target[Acceptor]
  <2>1. c \in Clients
    BY <1>4 DEF Register
  <2>2. Greeting(c) \in SUBSET Delivery
    <3>1. Plain("hello") \in Message
      BY PlainMessages DEF Kinds
    <3>2. view > 0 => State(view) \in Message
      BY StateMessages
    <3> QED BY <2>1, <3>1, <3>2, ToAllDeliveries DEF Greeting
  <2>3. pc' \in [Procs -> PcStates]
    BY <1>4, <2>1 DEF Register
  <2>4. \A q \in Procs : pc'[q] \in {"register", "publish", "ask", "offer"} => pc'[q] = pc[q]
    BY <1>4, <2>1 DEF Register
  <2> HIDE DEF c
  <2> QED BY <1>4, <2>1, <2>2, <2>3, <2>4 DEF Register, c
<1>5. CASE RegisterTooLate
  BY <1>5 DEF RegisterTooLate
<1>6. CASE AcceptFails
  BY <1>6 DEF AcceptFails
<1>7. CASE ServeReturns
  BY <1>7 DEF ServeReturns
<1> QED
  BY <1>1, <1>2, <1>3, <1>4, <1>5, <1>6, <1>7 DEF Accepting

LEMMA TypeWriting ==
  ASSUME TypeInv, NEW c \in Clients, Writing(c)
  PROVE  TypeInv'
<1> USE ProcsApart DEF TypeInv, TypeOK, PcStates, ConnStates, WriterStates,
      desk, ticking, asks, queue, wire, client, procs, world
<1>1. CASE Write(c)
  <2>1. Head(out[c]) \in Message /\ Tail(out[c]) \in Seq(Message)
    BY <1>1, HeadTailProperties DEF Write
  <2>2. heard' \in [Clients -> [view : 0..Len(Script), bye : BOOLEAN]]
    BY <1>1, <2>1, HearingType DEF Write
  <2> QED BY <1>1, <2>1, <2>2 DEF Write
<1>2. CASE WriteFails(c)
  <2>1. Tail(out[c]) \in Seq(Message)
    BY <1>2, HeadTailProperties DEF WriteFails
  <2> QED BY <1>2, <2>1 DEF WriteFails
<1>3. CASE WriterEnds(c)
  BY <1>3 DEF WriterEnds
<1> QED
  BY <1>1, <1>2, <1>3 DEF Writing

LEMMA TypeReading ==
  ASSUME TypeInv, NEW c \in Clients, Reading(c)
  PROVE  TypeInv'
<1> USE ProcsApart DEF TypeInv, TypeOK, PcStates, ConnStates, WriterStates,
      desk, ticking, asks, queue, wire, client, procs, world
<1>1. CASE ScanEnds(c)
  BY <1>1 DEF ScanEnds
<1>2. CASE PutRequest(c)
  <2>1. offer[c] \in Request
    BY <1>2 DEF PutRequest
  <2>2. requests' \in Seq(Request)
    BY <1>2, <2>1 DEF PutRequest
  <2> QED BY <1>2, <2>2 DEF PutRequest
<1>3. CASE Challenge(c)
  <2>1. ToAll({c}, Plain("auth")) \in SUBSET Delivery
    BY PlainMessages, ToAllDeliveries DEF Kinds
  <2> QED BY <1>3, <2>1 DEF Challenge
<1>4. CASE \E t \in Tunnels : Watch(c, t)
  BY <1>4 DEF Watch
<1>5. CASE \E t \in Tunnels : Unwatch(c, t)
  BY <1>5 DEF Unwatch
<1>6. CASE \E kind \in {"refresh", "ping"}, t \in Tunnels \cup {None} : Ask(c, kind, t)
  <2>1. PICK kind \in {"refresh", "ping"}, t \in Tunnels \cup {None} : Ask(c, kind, t)
    BY <1>6
  <2> DEFINE r == [kind |-> kind, tunnel |-> IF kind = "ping" THEN t ELSE None]
  <2>2. r \in Request
    BY DEF Request
  <2> HIDE DEF r
  <2> QED BY <2>1, <2>2 DEF Ask, r
<1>7. CASE Stamp(c)
  <2>0. PICK kind \in {"refresh", "ping"} : offer[c].kind = kind /\ offer[c] \in Request
    BY <1>7 DEF Stamp, Request
  <2>1. \/ /\ pc' = [pc EXCEPT ![c] = "reading"] /\ offer' = [offer EXCEPT ![c] = None]
           /\ recent' = recent
        \/ /\ pc' = [pc EXCEPT ![c] = "offer"] /\ offer' = offer
           /\ recent' = [recent EXCEPT ![kind] = TRUE]
    BY <1>7, <2>0 DEF Stamp
  <2>2. pc' \in [Procs -> PcStates]
    BY <2>1
  <2>3. offer' \in [Clients -> Request \cup {None}]
    <3>1. offer \in [Clients -> Request \cup {None}] /\ None \in Request \cup {None}
      OBVIOUS
    <3>2. [offer EXCEPT ![c] = None] \in [Clients -> Request \cup {None}]
      BY <3>1
    <3> QED BY <2>1, <3>1, <3>2
  <2>4. recent' \in [{"refresh", "ping"} -> BOOLEAN]
    <3>1. recent \in [{"refresh", "ping"} -> BOOLEAN]
      OBVIOUS
    <3>2. CASE recent' = [recent EXCEPT ![kind] = TRUE]
      BY <3>1, <3>2, Zenon
    <3> QED BY <2>1, <3>1, <3>2
  <2>5. /\ \A q \in Procs : pc'[q] \in {"register", "publish"} => pc'[q] = pc[q]
        /\ \A k \in Clients : pc'[k] \in {"ask", "offer"} => offer'[k] \in Request
    <3>1. \A q \in Procs : q # c => pc'[q] = pc[q]
      BY <2>1
    <3>2. pc'[c] \in {"reading", "offer"}
      BY <2>1
    <3>3. \A k \in Clients : k # c => offer'[k] = offer[k]
      BY <2>1
    <3>4. pc'[c] = "offer" => offer'[c] = offer[c]
      BY <2>1
    <3> QED BY <2>0, <3>1, <3>2, <3>3, <3>4
  <2>6. UNCHANGED <<desk, ticking, requests, queue, wire, watch, asked, eof, todo, target, world>>
    BY <1>7 DEF Stamp
  <2> QED BY <2>2, <2>3, <2>4, <2>5, <2>6
<1> QED
  BY <1>1, <1>2, <1>3, <1>4, <1>5, <1>6, <1>7 DEF Reading

LEMMA TypeInterface ==
  ASSUME TypeInv, Interface
  PROVE  TypeInv'
<1> USE ProcsApart DEF TypeInv, TypeOK, PcStates, ConnStates, WriterStates,
      desk, ticking, asks, queue, wire, client, procs, world
<1>1. CASE \E p \in Publishers : TakeMeasure(p)
  <2>1. PICK p \in Publishers : TakeMeasure(p)
    BY <1>1
  <2>2. Len(Script) \in Nat /\ issued + 1 \in 1..Len(Script)
    BY <2>1, ConstantsAssumption DEF TakeMeasure
  <2> QED BY <2>1, <2>2 DEF TakeMeasure
<1>2. CASE \E p \in Publishers : Publish(p)
  <2>1. PICK p \in Publishers : Publish(p)
    BY <1>2
  <2>2. carry[p] \in 1..Len(Script)
    BY <2>1, ConstantsAssumption DEF Publish
  <2>3. ToAll(live, State(carry[p])) \in SUBSET Delivery
    BY <2>2, StateMessages, ToAllDeliveries
  <2>4. Resume(p, ToAll(live, State(carry[p]))) \in {"send", "gone", "reading", "tick", "idle"}
    BY <2>1, ResumePlaces
  <2> QED BY <2>1, <2>2, <2>3, <2>4, ConstantsAssumption DEF Publish, FanOut
<1>3. CASE \E p \in Publishers : PublishPings(p)
  <2>1. PICK p \in Publishers : PublishPings(p)
    BY <1>3
  <2>2. ToAll(live, Plain("ping")) \in SUBSET Delivery
    BY PlainMessages, ToAllDeliveries DEF Kinds
  <2>3. Resume(p, ToAll(live, Plain("ping"))) \in {"send", "gone", "reading", "tick", "idle"}
    BY <2>1, ResumePlaces
  <2> QED BY <2>1, <2>2, <2>3, ConstantsAssumption DEF PublishPings, FanOut
<1>4. CASE TakeRequest
  BY <1>4 DEF TakeRequest
<1> QED
  BY <1>1, <1>2, <1>3, <1>4 DEF Interface

LEMMA TypeLooping ==
  ASSUME TypeInv, NEW l \in Loops, Looping(l)
  PROVE  TypeInv'
<1> USE ProcsApart DEF TypeInv, TypeOK, PcStates, ConnStates, WriterStates,
      desk, ticking, asks, queue, wire, client, procs, world
<1>1. CASE StartRound(l)
  <2> DEFINE round == {[to |-> c, msg |-> Sample(t, 0)] : c \in live, t \in Names(view)}
             due   == {d \in round : d.msg.tunnel \in watch[d.to]}
  <2>1. todo' = [todo EXCEPT ![l] = due]
    BY <1>1 DEF StartRound
  <2>2. \A c \in live, t \in Names(view) : [to |-> c, msg |-> Sample(t, 0)] \in Delivery
    BY ScriptRows, SampleMessages DEF Delivery
  <2>3. due \in SUBSET Delivery
    BY <2>2
  <2> HIDE DEF due
  <2> QED BY <1>1, <2>1, <2>3 DEF StartRound
<1>2. CASE \E t \in Tunnels : ReadCounters(l, t)
  <2>1. PICK t \in Tunnels : ReadCounters(l, t)
    BY <1>2
  <2>2. PICK due \in SUBSET todo[l] :
          todo' = [todo EXCEPT ![l] =
            (@ \ due) \cup {[to |-> d.to, msg |-> Sample(t, 1)] : d \in due}]
    BY <2>1 DEF ReadCounters
  <2>3. \A d \in due : [to |-> d.to, msg |-> Sample(t, 1)] \in Delivery
    BY <2>2, TodoFields, SampleMessages DEF Delivery
  <2>4. todo' \in [Procs -> SUBSET Delivery]
    BY <2>2, <2>3
  <2> QED BY <2>1, <2>4 DEF ReadCounters
<1>3. CASE \E t \in Tunnels : NoCounters(l, t)
  <2>1. PICK rest \in SUBSET todo[l] :
          /\ todo' = [todo EXCEPT ![l] = rest]
          /\ pc' = [pc EXCEPT ![l] = Resume(l, rest)]
    BY <1>3 DEF NoCounters
  <2> QED BY <1>3, <2>1, ResumePlaces DEF NoCounters
<1>4. CASE LoopEnds(l)
  BY <1>4 DEF LoopEnds
<1> QED
  BY <1>1, <1>2, <1>3, <1>4 DEF Looping

LEMMA TypeStopping ==
  ASSUME TypeInv, Stopping
  PROVE  TypeInv'
<1> USE ProcsApart DEF TypeInv, TypeOK, PcStates, ConnStates, WriterStates,
      desk, ticking, asks, queue, wire, client, procs, world
<1>1. CASE Cancel
  BY <1>1 DEF Cancel
<1>2. CASE TakeAll
  <2>1. ToAll(live, Plain("bye")) \in SUBSET Delivery
    BY PlainMessages, ToAllDeliveries DEF Kinds
  <2> QED BY <1>2, <2>1 DEF TakeAll
<1>3. CASE Farewell
  <2>1. PICK d \in todo[Stopper] :
          /\ out' = [out EXCEPT ![d.to] =
                       IF Len(@) < SendQueue THEN Append(@, d.msg) ELSE @]
          /\ panicked' = (panicked \/ shut[d.to])
          /\ shut' = [shut EXCEPT ![d.to] = TRUE]
          /\ conn' = [conn EXCEPT ![d.to] = IF @ = "closed" THEN @ ELSE "deadline"]
          /\ todo' = [todo EXCEPT ![Stopper] = @ \ {d}]
    BY <1>3 DEF Farewell
  <2>2. d.to \in Clients /\ d.msg \in Message
    BY TodoFields
  <2>3. Append(out[d.to], d.msg) \in Seq(Message)
    BY <2>2
  <2>4. out' \in [Clients -> Seq(Message)]
    BY <2>1, <2>2, <2>3
  <2> QED BY <1>3, <2>1, <2>2, <2>4 DEF Farewell
<1>4. CASE HushSampling
  BY <1>4 DEF HushSampling
<1>5. CASE Close
  BY <1>5 DEF Close
<1> QED
  BY <1>1, <1>2, <1>3, <1>4, <1>5 DEF Stopping

LEMMA TypeStep == TypeInv /\ [Next]_vars => TypeInv'
<1> SUFFICES ASSUME TypeInv, [Next]_vars PROVE TypeInv'
  OBVIOUS
<1>1. CASE \E p \in Procs : Call(p)
  BY <1>1, TypeCalls
<1>2. CASE Accepting
  BY <1>2, TypeAccepting
<1>3. CASE \E c \in Clients : Writing(c) \/ Reading(c)
  BY <1>3, TypeWriting, TypeReading
<1>4. CASE Floors
  <2> USE DEF TypeInv, TypeOK, desk, ticking, asks, queue, wire, client, procs, world
  <2>1. CASE \E kind \in {"refresh", "ping"} : FloorPasses(kind)
    BY <2>1 DEF FloorPasses
  <2>2. CASE \E c \in Clients : ChallengeFloorPasses(c)
    BY <2>2 DEF ChallengeFloorPasses
  <2> QED BY <1>4, <2>1, <2>2 DEF Floors
<1>5. CASE Interface
  BY <1>5, TypeInterface
<1>6. CASE \E l \in Loops : Looping(l)
  BY <1>6, TypeLooping
<1>7. CASE Stopping
  BY <1>7, TypeStopping
<1>8. CASE Exit
  BY <1>8, ProcsApart DEF Exit, TypeInv, TypeOK, PcStates,
     desk, ticking, asks, queue, wire, client, procs, world
<1>9. CASE UNCHANGED vars
  BY <1>9 DEF TypeInv, TypeOK, vars, desk, ticking, asks, queue, wire, client,
     procs, world
<1> QED
  BY <1>1, <1>2, <1>3, <1>4, <1>5, <1>6, <1>7, <1>8, <1>9 DEF Next, Running, Ended

LEMMA TypeAlways == Spec => []TypeInv
BY TypeInit, TypeStep, PTL DEF Spec

\* The state keeps its shape: Server and client (server.go:128-180, 451-459).
THEOREM TypeCorrect == Spec => []TypeOK
<1>1. TypeInv => TypeOK
  BY DEF TypeInv
<1> QED BY TypeAlways, <1>1, PTL

-----------------------------------------------------------------------------
(* Who closes a queue.  NeverPanics and OneCloser say what a reader cares    *)
(* about; what makes them inductive is where each client is in its life:    *)
(* fresh until add registers it, then live, then in the hands of exactly    *)
(* one closer (a drop, or the stopper that owes it a goodbye), then shut.   *)

Fresh(c) ==
  /\ c \notin live /\ ~ shut[c] /\ ~ Owed(c)
  /\ writer[c] = "off" /\ pc[c] = "off"
  /\ \A p \in Procs : ~ Closes(p, c)

StopperInv ==
  /\ pc[Stopper] \in {"up", "stopping", "farewell", "unlink", "down"}
  /\ pc[Stopper] # "farewell" => todo[Stopper] = {}
  /\ \A d, e \in todo[Stopper] : d.to = e.to => d = e

CloserInv ==
  /\ \A p \in Procs : pc[p] = "close" =>
       /\ target[p] \in Clients \ live
       /\ ~ shut[target[p]] /\ ~ Owed(target[p])
  /\ \A p, q \in Procs :
       pc[p] = "close" /\ pc[q] = "close" /\ target[p] = target[q] => p = q

FreshInv ==
  /\ \A c \in Clients : conn[c] = "none" => Fresh(c)
  /\ pc[Acceptor] = "register" =>
       Fresh(target[Acceptor]) /\ conn[target[Acceptor]] # "none"

CloseInv ==
  /\ ~ panicked
  /\ StopperInv /\ CloserInv /\ FreshInv
  /\ \A c \in live : ~ shut[c]
  /\ \A c \in Clients : Owed(c) => c \notin live /\ ~ shut[c]
  /\ \A c \in Clients :
       writer[c] # "off" /\ c \notin live /\ ~ shut[c] =>
         Owed(c) \/ \E p \in Procs : Closes(p, c)

\* The typing the lemmas below need, and no more.
LifeTypes ==
  /\ live \in SUBSET Clients
  /\ conn \in [Clients -> ConnStates]
  /\ writer \in [Clients -> WriterStates]
  /\ shut \in [Clients -> BOOLEAN]
  /\ pc \in [Procs -> PcStates]
  /\ todo \in [Procs -> SUBSET Delivery]
  /\ target \in [Procs -> Clients \cup {None}]
  /\ pc[Acceptor] = "register" => target[Acceptor] \in Clients

LEMMA CloseInit == Init => CloseInv
BY ProcsApart
   DEF Init, CloseInv, StopperInv, CloserInv, FreshInv, Fresh, Owed, Closes

LEMMA CloseCalls ==
  ASSUME LifeTypes, CloseInv, NEW p \in Procs, Call(p)
  PROVE  CloseInv'
<1> USE ProcsApart
    DEF CloseInv, StopperInv, CloserInv, FreshInv, Fresh, Owed, Closes, LifeTypes,
        desk, ticking, asks, queue, wire, client, procs, world
<1>1. CASE SendToGone(p)
  BY <1>1, ResumePlaces, SMTT(30) DEF SendToGone, Ready
<1>2. CASE Enqueue(p)
  BY <1>2, ResumePlaces, SMTT(30) DEF Enqueue, Ready
<1>3. CASE Overflow(p)
  BY <1>3, ResumePlaces DEF Overflow, Ready
<1>4. CASE DropFirst(p)
  BY <1>4 DEF DropFirst
<1>5. CASE DropAgain(p)
  BY <1>5, ResumePlaces DEF DropAgain
<1>6. CASE CloseClient(p)
  BY <1>6 DEF CloseClient
<1>7. CASE StartLoop(p)
  BY <1>7, ResumePlaces, SMTT(30) DEF StartLoop, RetickKeeps
<1>8. CASE StopLoop(p)
  BY <1>8, ResumePlaces DEF StopLoop, RetickKeeps
<1>9. CASE KeepLoop(p)
  BY <1>9, ResumePlaces DEF KeepLoop, RetickKeeps
<1> QED
  BY <1>1, <1>2, <1>3, <1>4, <1>5, <1>6, <1>7, <1>8, <1>9 DEF Call

LEMMA CloseAccepting ==
  ASSUME LifeTypes, CloseInv, Accepting
  PROVE  CloseInv'
<1> USE ProcsApart
    DEF CloseInv, StopperInv, CloserInv, FreshInv, Fresh, Owed, Closes, LifeTypes,
        desk, ticking, asks, queue, wire, client, procs, world
<1>1. CASE \E c \in Clients : Refuse(c)
  BY <1>1 DEF Refuse
<1>2. CASE \E c \in Clients : TurnAway(c)
  BY <1>2 DEF TurnAway
<1>3. CASE \E c \in Clients : Admit(c)
  BY <1>3 DEF Admit
<1>4. CASE Register
  BY <1>4 DEF Register
<1>5. CASE RegisterTooLate
  BY <1>5 DEF RegisterTooLate
<1>6. CASE AcceptFails
  BY <1>6 DEF AcceptFails
<1>7. CASE ServeReturns
  BY <1>7 DEF ServeReturns
<1> QED
  BY <1>1, <1>2, <1>3, <1>4, <1>5, <1>6, <1>7 DEF Accepting

LEMMA CloseWriting ==
  ASSUME LifeTypes, CloseInv, NEW c \in Clients, Writing(c)
  PROVE  CloseInv'
<1> USE ProcsApart
    DEF CloseInv, StopperInv, CloserInv, FreshInv, Fresh, Owed, Closes, LifeTypes,
        desk, ticking, asks, queue, wire, client, procs, world
<1>1. CASE Write(c)
  BY <1>1 DEF Write
<1>2. CASE WriteFails(c)
  BY <1>2 DEF WriteFails
<1>3. CASE WriterEnds(c)
  BY <1>3 DEF WriterEnds
<1> QED
  BY <1>1, <1>2, <1>3 DEF Writing

LEMMA CloseReading ==
  ASSUME LifeTypes, CloseInv, NEW c \in Clients, Reading(c)
  PROVE  CloseInv'
<1> USE ProcsApart
    DEF CloseInv, StopperInv, CloserInv, FreshInv, Fresh, Owed, Closes, LifeTypes,
        desk, ticking, asks, queue, wire, client, procs, world
<1>1. CASE ScanEnds(c)
  BY <1>1 DEF ScanEnds
<1>2. CASE PutRequest(c)
  BY <1>2 DEF PutRequest
<1>3. CASE Challenge(c)
  BY <1>3 DEF Challenge
<1>4. CASE \E t \in Tunnels : Watch(c, t)
  BY <1>4 DEF Watch
<1>5. CASE \E t \in Tunnels : Unwatch(c, t)
  BY <1>5 DEF Unwatch
<1>6. CASE \E kind \in {"refresh", "ping"}, t \in Tunnels \cup {None} : Ask(c, kind, t)
  BY <1>6 DEF Ask
<1>7. CASE Stamp(c)
  BY <1>7 DEF Stamp
<1> QED
  BY <1>1, <1>2, <1>3, <1>4, <1>5, <1>6, <1>7 DEF Reading

LEMMA CloseInterface ==
  ASSUME LifeTypes, CloseInv, Interface
  PROVE  CloseInv'
<1> USE ProcsApart
    DEF CloseInv, StopperInv, CloserInv, FreshInv, Fresh, Owed, Closes, LifeTypes,
        desk, ticking, asks, queue, wire, client, procs, world
<1>1. CASE \E p \in Publishers : TakeMeasure(p)
  BY <1>1 DEF TakeMeasure
<1>2. CASE \E p \in Publishers : Publish(p)
  BY <1>2, ResumePlaces DEF Publish, FanOut
<1>3. CASE \E p \in Publishers : PublishPings(p)
  BY <1>3, ResumePlaces DEF PublishPings, FanOut
<1>4. CASE TakeRequest
  BY <1>4 DEF TakeRequest
<1> QED
  BY <1>1, <1>2, <1>3, <1>4 DEF Interface

LEMMA CloseLooping ==
  ASSUME LifeTypes, CloseInv, NEW l \in Loops, Looping(l)
  PROVE  CloseInv'
<1> USE ProcsApart
    DEF CloseInv, StopperInv, CloserInv, FreshInv, Fresh, Owed, Closes, LifeTypes,
        desk, ticking, asks, queue, wire, client, procs, world
<1>1. CASE StartRound(l)
  BY <1>1 DEF StartRound
<1>2. CASE \E t \in Tunnels : ReadCounters(l, t)
  BY <1>2 DEF ReadCounters
<1>3. CASE \E t \in Tunnels : NoCounters(l, t)
  BY <1>3, ResumePlaces, SMTT(30) DEF NoCounters
<1>4. CASE LoopEnds(l)
  BY <1>4 DEF LoopEnds
<1> QED
  BY <1>1, <1>2, <1>3, <1>4 DEF Looping

LEMMA CloseStopping ==
  ASSUME LifeTypes, CloseInv, Stopping
  PROVE  CloseInv'
<1> USE ProcsApart
    DEF CloseInv, StopperInv, CloserInv, FreshInv, Fresh, Owed, Closes, LifeTypes,
        desk, ticking, asks, queue, wire, client, procs, world
<1>1. CASE Cancel
  BY <1>1 DEF Cancel
<1>2. CASE TakeAll
  <2>1. \A d \in todo'[Stopper] : d.to \in live
    BY <1>2 DEF TakeAll, ToAll
  <2>2. \A d, e \in todo'[Stopper] : d.to = e.to => d = e
    BY <1>2 DEF TakeAll, ToAll
  <2>3. ASSUME NEW c \in live
        PROVE  \E d \in todo'[Stopper] : d.to = c
    <3> DEFINE d == [to |-> c, msg |-> Plain("bye")]
    <3>1. todo'[Stopper] = ToAll(live, Plain("bye"))
      BY <1>2 DEF TakeAll
    <3>2. d \in todo'[Stopper] /\ d.to = c
      BY <3>1 DEF ToAll
    <3> QED BY <3>2
  <2>4. StopperInv'
    BY <1>2, <2>2 DEF TakeAll
  <2>5. CloserInv'
    BY <1>2, <2>1 DEF TakeAll
  <2>6. FreshInv'
    BY <1>2, <2>1 DEF TakeAll
  <2>7. \A c \in Clients : Owed(c)' => c \notin live' /\ ~ shut'[c]
    BY <1>2, <2>1 DEF TakeAll
  <2>8. ASSUME NEW c \in Clients, writer'[c] # "off", c \notin live', ~ shut'[c]
        PROVE  Owed(c)' \/ \E p \in Procs : Closes(p, c)'
    <3>1. CASE c \in live
      BY <2>3, <3>1
    <3>2. CASE c \notin live
      <4>1. PICK p \in Procs : Closes(p, c)
        BY <1>2, <2>8, <3>2 DEF TakeAll
      <4>2. Closes(p, c)'
        BY <1>2, <4>1 DEF TakeAll
      <4> QED BY <4>2
    <3> QED BY <3>1, <3>2
  <2> QED BY <1>2, <2>4, <2>5, <2>6, <2>7, <2>8 DEF TakeAll
<1>3. CASE Farewell
  <2>1. PICK d \in todo[Stopper] :
          /\ panicked' = (panicked \/ shut[d.to])
          /\ shut' = [shut EXCEPT ![d.to] = TRUE]
          /\ conn' = [conn EXCEPT ![d.to] = IF @ = "closed" THEN @ ELSE "deadline"]
          /\ todo' = [todo EXCEPT ![Stopper] = @ \ {d}]
    BY <1>3 DEF Farewell
  <2>2. d.to \in Clients /\ Owed(d.to)
    BY <2>1 DEF Delivery
  <2>3. \A c : Owed(c)' <=> Owed(c) /\ c # d.to
    BY <2>1
  <2>4. StopperInv'
    BY <1>3, <2>1 DEF Farewell
  <2>5. CloserInv'
    BY <1>3, <2>1, <2>2, <2>3 DEF Farewell
  <2>6. FreshInv'
    BY <1>3, <2>1, <2>2, <2>3 DEF Farewell, ConnStates
  <2>7. \A c \in live' : ~ shut'[c]
    BY <1>3, <2>1, <2>2 DEF Farewell
  <2>8. \A c \in Clients : Owed(c)' => c \notin live' /\ ~ shut'[c]
    BY <1>3, <2>1, <2>2, <2>3 DEF Farewell
  <2>9. ASSUME NEW c \in Clients, writer'[c] # "off", c \notin live', ~ shut'[c]
        PROVE  Owed(c)' \/ \E p \in Procs : Closes(p, c)'
    BY <1>3, <2>1, <2>2, <2>3, <2>9 DEF Farewell
  <2> QED BY <1>3, <2>1, <2>2, <2>4, <2>5, <2>6, <2>7, <2>8, <2>9 DEF Farewell
<1>4. CASE HushSampling
  BY <1>4 DEF HushSampling
<1>5. CASE Close
  BY <1>5 DEF Close
<1> QED
  BY <1>1, <1>2, <1>3, <1>4, <1>5 DEF Stopping

LEMMA CloseStep == LifeTypes /\ CloseInv /\ [Next]_vars => CloseInv'
<1> SUFFICES ASSUME LifeTypes, CloseInv, [Next]_vars PROVE CloseInv'
  OBVIOUS
<1>1. CASE \E p \in Procs : Call(p)
  BY <1>1, CloseCalls
<1>2. CASE Accepting
  BY <1>2, CloseAccepting
<1>3. CASE \E c \in Clients : Writing(c) \/ Reading(c)
  BY <1>3, CloseWriting, CloseReading
<1>4. CASE Interface
  BY <1>4, CloseInterface
<1>5. CASE \E l \in Loops : Looping(l)
  BY <1>5, CloseLooping
<1>6. CASE Stopping
  BY <1>6, CloseStopping
<1>7. CASE Floors \/ Exit \/ UNCHANGED vars
  <2> USE ProcsApart
      DEF CloseInv, StopperInv, CloserInv, FreshInv, Fresh, Owed, Closes, LifeTypes,
          desk, ticking, asks, queue, wire, client, procs, world
  <2>1. CASE Floors
    BY <2>1 DEF Floors, FloorPasses, ChallengeFloorPasses
  <2>2. CASE Exit
    BY <2>2 DEF Exit
  <2>3. CASE UNCHANGED vars
    BY <2>3 DEF vars
  <2> QED BY <1>7, <2>1, <2>2, <2>3
<1> QED
  BY <1>1, <1>2, <1>3, <1>4, <1>5, <1>6, <1>7 DEF Next, Running, Ended

LEMMA LifeTyped == TypeInv => LifeTypes
BY DEF TypeInv, TypeOK, LifeTypes

LEMMA CloseAlways == Spec => []CloseInv
BY CloseInit, CloseStep, LifeTyped, TypeAlways, PTL DEF Spec

\* No goroutine ever sends on, or closes, a queue that is already closed
\* (sendTo 855-873, drop 876-889, shutdown 892-915), for any number of readers,
\* publish commands and sampling loops dropping the same clients at once.
THEOREM ServerNeverPanics == Spec => []NeverPanics
<1>1. CloseInv => NeverPanics
  BY DEF CloseInv, NeverPanics
<1> QED BY CloseAlways, <1>1, PTL

\* Whoever takes a client off the server is the one to close it, and somebody
\* does (drop 876-889, shutdown 892-915): no writer is left waiting for ever.
THEOREM ServerHasOneCloser == Spec => []OneCloser
<1>1. CloseInv => OneCloser
  <2> SUFFICES ASSUME CloseInv, NEW c \in Clients,
                      writer[c] # "off", c \notin live, ~ shut[c]
               PROVE  \/ Owed(c) /\ \A p \in Procs : ~ Closes(p, c)
                      \/ ~ Owed(c) /\ \E p \in Procs :
                           Closes(p, c) /\ \A q \in Procs : Closes(q, c) => q = p
    BY DEF OneCloser
  <2>1. CASE Owed(c)
    BY <2>1 DEF CloseInv, CloserInv, Closes
  <2>2. CASE ~ Owed(c)
    BY <2>2 DEF CloseInv, CloserInv, Closes
  <2> QED BY <2>1, <2>2
<1> QED BY CloseAlways, <1>1, PTL

\* The typing the lemmas on bye need.
ByeTypes ==
  /\ LifeTypes
  /\ out \in [Clients -> Seq(Message)]
  /\ heard \in [Clients -> [view : 0..Len(Script), bye : BOOLEAN]]

\* bye is in a queue only once the queue is closed, and behind it is nothing.
NoByeOwed == \A p \in Procs \ {Stopper} : \A d \in todo[p] : d.msg.kind # "bye"
ByeCloses ==
  \A c \in Clients : \A i \in 1..Len(out[c]) :
    out[c][i].kind = "bye" => i = Len(out[c]) /\ shut[c]
ByeHeard == \A c \in Clients : heard[c].bye => out[c] = <<>> /\ shut[c]

LEMMA MessageKinds ==
  /\ \A kind : Plain(kind).kind = kind
  /\ \A v : State(v).kind = "state"
  /\ \A t, n : Sample(t, n).kind = "sample"
BY DEF Plain, State, Sample

LEMMA ToAllKinds ==
  ASSUME NEW cs, NEW m, NEW d \in ToAll(cs, m)
  PROVE  d.msg = m
BY DEF ToAll

\* A goroutine other than the stopper never has a bye to send.
LEMMA ByeOwedStep == ByeTypes /\ CloseInv /\ NoByeOwed /\ [Next]_vars => NoByeOwed'
<1> SUFFICES ASSUME ByeTypes, CloseInv, NoByeOwed, [Next]_vars PROVE NoByeOwed'
  OBVIOUS
<1> USE ProcsApart DEF ByeTypes, LifeTypes, NoByeOwed, procs
<1>1. CASE \E p \in Procs : Call(p)
  <2>1. PICK p \in Procs : Call(p)
    BY <1>1
  <2>2. todo' = todo \/ \E d : todo' = [todo EXCEPT ![p] = @ \ {d}]
    BY <2>1 DEF Call, SendToGone, Enqueue, Overflow, DropFirst, DropAgain,
       CloseClient, StartLoop, StopLoop, KeepLoop, RetickKeeps
  <2>3. \A q \in Procs : todo'[q] \subseteq todo[q]
    BY <2>2
  <2> QED BY <2>3
<1>2. CASE Accepting
  <2>1. CASE Register
    <3>1. todo' = [todo EXCEPT ![Acceptor] = Greeting(target[Acceptor])]
      BY <2>1 DEF Register
    <3>2. \A d \in Greeting(target[Acceptor]) : d.msg.kind # "bye"
      BY ToAllKinds, MessageKinds DEF Greeting
    <3> QED BY <3>1, <3>2
  <2>2. CASE ~ Register
    <3>1. todo' = todo
      BY <1>2, <2>2 DEF Accepting, Refuse, TurnAway, Admit, RegisterTooLate, AcceptFails,
         ServeReturns
    <3> QED BY <3>1
  <2> QED BY <2>1, <2>2
<1>3. CASE \E c \in Clients : Writing(c) \/ Reading(c)
  <2>1. PICK c \in Clients : Writing(c) \/ Reading(c)
    BY <1>3
  <2>2. todo' = todo \/ todo' = [todo EXCEPT ![c] = ToAll({c}, Plain("auth"))]
    BY <2>1 DEF Writing, Reading, Write, WriteFails, WriterEnds, ScanEnds, Stamp, PutRequest,
       Challenge, Watch, Unwatch, Ask
  <2>3. \A d \in ToAll({c}, Plain("auth")) : d.msg.kind # "bye"
    BY ToAllKinds, MessageKinds
  <2> QED BY <2>2, <2>3
<1>4. CASE Interface
  <2>1. CASE \E p \in Publishers : Publish(p) \/ PublishPings(p)
    <3>1. PICK p \in Publishers :
            FanOut(p, State(carry[p])) \/ FanOut(p, Plain("ping"))
      BY <2>1 DEF Publish, PublishPings
    <3>2. PICK m \in {State(carry[p]), Plain("ping")} : FanOut(p, m)
      BY <3>1
    <3>3. \A d \in ToAll(live, m) : d.msg.kind # "bye"
      BY ToAllKinds, MessageKinds
    <3> QED BY <3>2, <3>3 DEF FanOut
  <2>2. CASE TakeRequest \/ \E p \in Publishers : TakeMeasure(p)
    BY <2>2 DEF TakeRequest, TakeMeasure
  <2> QED BY <1>4, <2>1, <2>2 DEF Interface
<1>5. CASE \E l \in Loops : Looping(l)
  <2>1. PICK l \in Loops : Looping(l)
    BY <1>5
  <2>2. CASE StartRound(l)
    <3>1. \A d \in todo'[l] : d.msg.kind = "sample"
      BY <2>2, MessageKinds DEF StartRound
    <3>2. \A q \in Procs \ {l} : todo'[q] = todo[q]
      BY <2>2 DEF StartRound
    <3> QED BY <3>1, <3>2
  <2>3. CASE \E t \in Tunnels : ReadCounters(l, t)
    <3>1. \A d \in todo'[l] : d \in todo[l] \/ d.msg.kind = "sample"
      BY <2>3, MessageKinds DEF ReadCounters
    <3> QED BY <2>3, <3>1 DEF ReadCounters
  <2>4. CASE \E t \in Tunnels : NoCounters(l, t)
    BY <2>4 DEF NoCounters
  <2>5. CASE LoopEnds(l)
    BY <2>5 DEF LoopEnds
  <2> QED BY <2>1, <2>2, <2>3, <2>4, <2>5 DEF Looping
<1>6. CASE Stopping
  <2>1. \A p \in Procs \ {Stopper} : todo'[p] = todo[p]
    BY <1>6 DEF Stopping, Cancel, TakeAll, Farewell, HushSampling, Close
  <2> QED BY <2>1
<1>7. CASE Floors \/ Exit \/ UNCHANGED vars
  BY <1>7 DEF Floors, FloorPasses, ChallengeFloorPasses, Exit, vars
<1> QED
  BY <1>1, <1>2, <1>3, <1>4, <1>5, <1>6, <1>7 DEF Next, Running, Ended

LEMMA TailKeepsBye ==
  ASSUME NEW q \in Seq(Message), q # <<>>, NEW closed,
         \A i \in 1..Len(q) : q[i].kind = "bye" => i = Len(q) /\ closed
  PROVE  \A i \in 1..Len(Tail(q)) :
           Tail(q)[i].kind = "bye" => i = Len(Tail(q)) /\ closed
<1> DEFINE tl == Tail(q)
<1>1. /\ Len(tl) \in Nat /\ Len(q) = Len(tl) + 1
      /\ \A i \in 1..Len(tl) : tl[i] = q[i+1]
  BY HeadTailProperties, EmptySeq, LenProperties
<1> HIDE DEF tl
<1>2. SUFFICES ASSUME NEW i \in 1..Len(tl), tl[i].kind = "bye"
               PROVE  i = Len(tl) /\ closed
  BY DEF tl
<1>3. i + 1 \in 1..Len(q) /\ q[i+1].kind = "bye"
  BY <1>1, <1>2
<1>4. i + 1 = Len(q) /\ closed
  BY <1>3
<1> QED BY <1>1, <1>4

\* A queue grows by one line that is no bye, while it is open; or by the bye
\* that closes it; or it only shrinks, from the front.
LEMMA ByeQueueStep ==
  ByeTypes /\ CloseInv /\ NoByeOwed /\ ByeCloses /\ ByeHeard /\ [Next]_vars
    => ByeCloses' /\ ByeHeard'
<1> SUFFICES ASSUME ByeTypes, CloseInv, NoByeOwed, ByeCloses, ByeHeard, [Next]_vars
             PROVE  ByeCloses' /\ ByeHeard'
  OBVIOUS
<1> USE ProcsApart DEF ByeTypes, LifeTypes, NoByeOwed, ByeCloses, ByeHeard
<1>1. ASSUME NEW p \in Procs, Enqueue(p)
      PROVE  ByeCloses' /\ ByeHeard'
  <2>1. PICK d \in todo[p] :
          d.to \in live /\ out' = [out EXCEPT ![d.to] = Append(@, d.msg)]
    BY <1>1 DEF Enqueue, Ready
  <2>2. shut' = shut /\ heard' = heard
    BY <1>1 DEF Enqueue, wire
  <2>3. p # Stopper /\ d.msg.kind # "bye" /\ d.msg \in Message
    BY <1>1, <2>1 DEF Enqueue, CloseInv, StopperInv, Delivery
  <2>4. d.to \in Clients /\ ~ shut[d.to]
    BY <2>1 DEF CloseInv
  <2>5. \A i \in 1..Len(out[d.to]) : out[d.to][i].kind # "bye"
    BY <2>4
  <2>6. \A i \in 1..Len(out'[d.to]) : out'[d.to][i].kind # "bye"
    BY <2>1, <2>3, <2>4, <2>5, AppendProperties
  <2>7. ByeCloses'
    BY <2>1, <2>2, <2>6
  <2>8. ByeHeard'
    BY <2>1, <2>2, <2>4
  <2> QED BY <2>7, <2>8
<1>2. CASE Farewell
  <2>1. PICK d \in todo[Stopper] :
          /\ out' = [out EXCEPT ![d.to] =
                       IF Len(@) < SendQueue THEN Append(@, d.msg) ELSE @]
          /\ shut' = [shut EXCEPT ![d.to] = TRUE]
    BY <1>2 DEF Farewell
  <2>2. heard' = heard
    BY <1>2 DEF Farewell
  <2>3. d.to \in Clients /\ ~ shut[d.to] /\ d.msg \in Message
    BY <2>1 DEF CloseInv, Owed, Delivery
  <2>4. \A i \in 1..Len(out[d.to]) : out[d.to][i].kind # "bye"
    BY <2>3
  <2>5. \A i \in 1..Len(out'[d.to]) :
          out'[d.to][i].kind = "bye" => i = Len(out'[d.to]) /\ shut'[d.to]
    <3> DEFINE q == out[d.to]
    <3>1. q \in Seq(Message) /\ Len(q) \in Nat
      BY <2>3
    <3>2. shut'[d.to]
      BY <2>1, <2>3
    <3>3. CASE out'[d.to] = q
      BY <2>4, <3>3
    <3>4. CASE out'[d.to] = Append(q, d.msg)
      <4>1. /\ Len(out'[d.to]) = Len(q) + 1
            /\ \A i \in 1..Len(q) : out'[d.to][i] = q[i]
        BY <2>3, <3>1, <3>4, AppendProperties
      <4>2. \A i \in 1..Len(out'[d.to]) : i \in 1..Len(q) \/ i = Len(out'[d.to])
        BY <3>1, <4>1
      <4>3. \A i \in 1..Len(q) : out'[d.to][i].kind # "bye"
        BY <2>4, <4>1
      <4> QED BY <3>2, <4>2, <4>3
    <3> QED BY <2>1, <2>3, <3>3, <3>4
  <2>6. ByeCloses'
    BY <2>1, <2>5
  <2>7. ByeHeard'
    BY <2>1, <2>2, <2>3
  <2> QED BY <2>6, <2>7
<1>3. ASSUME NEW c \in Clients, Write(c)
      PROVE  ByeCloses' /\ ByeHeard'
  <2>1. /\ out[c] # <<>>
        /\ out' = [out EXCEPT ![c] = Tail(@)]
        /\ heard' = [heard EXCEPT ![c] = Hearing(@, Head(out[c]))]
        /\ shut' = shut
    BY <1>3 DEF Write
  <2>0. /\ out[c] \in Seq(Message) /\ Len(out[c]) \in Nat \ {0}
        /\ Len(Tail(out[c])) = Len(out[c]) - 1
        /\ \A i \in 1..Len(Tail(out[c])) : Tail(out[c])[i] = out[c][i+1]
    BY <2>1, HeadTailProperties, EmptySeq
  <2>2. ByeCloses'
    <3>1. \A i \in 1..Len(Tail(out[c])) :
            Tail(out[c])[i].kind = "bye" => i = Len(Tail(out[c])) /\ shut[c]
      BY <2>0, <2>1, TailKeepsBye
    <3>2. out'[c] = Tail(out[c]) /\ \A k \in Clients \ {c} : out'[k] = out[k]
      BY <2>1
    <3> QED BY <2>1, <3>1, <3>2
  <2>3. ~ heard[c].bye
    BY <2>1
  <2>4. heard'[c].bye => out[c][1].kind = "bye"
    BY <2>1, <2>3 DEF Hearing
  <2>5. heard'[c].bye => out'[c] = <<>> /\ shut[c]
    <3>1. SUFFICES ASSUME heard'[c].bye PROVE out'[c] = <<>> /\ shut[c]
      OBVIOUS
    <3>2. Len(out[c]) = 1 /\ shut[c]
      <4>1. 1 \in 1..Len(out[c])
        BY <2>0
      <4>2. out[c][1].kind = "bye"
        BY <2>4, <3>1
      <4> QED BY <4>1, <4>2
    <3>3. Tail(out[c]) \in Seq(Message) /\ Len(Tail(out[c])) = 0
      BY <2>0, <2>1, <3>2, HeadTailProperties
    <3>4. Tail(out[c]) = <<>>
      BY <3>3, EmptySeq
    <3> QED BY <2>1, <3>2, <3>4
  <2>6. ByeHeard'
    BY <2>1, <2>5
  <2> QED BY <2>2, <2>6
<1>4. ASSUME NEW c \in Clients, WriteFails(c)
      PROVE  ByeCloses' /\ ByeHeard'
  <2>1. /\ out[c] # <<>>
        /\ out' = [out EXCEPT ![c] = Tail(@)]
        /\ heard' = heard
        /\ shut' = shut
    BY <1>4 DEF WriteFails
  <2>0. /\ out[c] \in Seq(Message) /\ Len(out[c]) \in Nat \ {0}
        /\ Len(Tail(out[c])) = Len(out[c]) - 1
        /\ \A i \in 1..Len(Tail(out[c])) : Tail(out[c])[i] = out[c][i+1]
    BY <2>1, HeadTailProperties, EmptySeq
  <2>2. ByeCloses'
    <3>1. \A i \in 1..Len(Tail(out[c])) :
            Tail(out[c])[i].kind = "bye" => i = Len(Tail(out[c])) /\ shut[c]
      BY <2>0, <2>1, TailKeepsBye
    <3>2. out'[c] = Tail(out[c]) /\ \A k \in Clients \ {c} : out'[k] = out[k]
      BY <2>1
    <3> QED BY <2>1, <3>1, <3>2
  <2>3. ByeHeard'
    BY <2>1
  <2> QED BY <2>2, <2>3
<1>5. ASSUME NEW c \in Clients, TurnAway(c)
      PROVE  ByeCloses' /\ ByeHeard'
  <2>1. /\ out' = out /\ shut' = shut
        /\ heard' = [heard EXCEPT ![c] = Hearing(@, Plain("refused"))]
    BY <1>5 DEF TurnAway, queue
  <2>2. heard'[c].bye = heard[c].bye
    BY <2>1 DEF Hearing, Plain
  <2> QED BY <2>1, <2>2
<1>6. ASSUME NEW p \in Procs, CloseClient(p)
      PROVE  ByeCloses' /\ ByeHeard'
  BY <1>6 DEF CloseClient
<1>7. CASE UNCHANGED <<out, shut, heard>>
  BY <1>7
<1>8. \A p \in Procs : Call(p) /\ ~ Enqueue(p) /\ ~ CloseClient(p) =>
        UNCHANGED <<out, shut, heard>>
  BY DEF Call, SendToGone, Overflow, DropFirst, DropAgain, StartLoop, StopLoop, KeepLoop,
     RetickKeeps, queue, wire
<1>9. Accepting /\ ~ (\E c \in Clients : TurnAway(c)) => UNCHANGED <<out, shut, heard>>
  BY DEF Accepting, Refuse, Admit, Register, RegisterTooLate, AcceptFails, ServeReturns,
     queue, wire
<1>10. \A c \in Clients : (Writing(c) \/ Reading(c)) /\ ~ Write(c) /\ ~ WriteFails(c) =>
         UNCHANGED <<out, shut, heard>>
  BY DEF Writing, Reading, WriterEnds, ScanEnds, Stamp, PutRequest, Challenge, Watch, Unwatch,
     Ask, queue, wire
<1>11. Floors \/ Interface => UNCHANGED <<out, shut, heard>>
  BY DEF Floors, FloorPasses, ChallengeFloorPasses, Interface, TakeMeasure, Publish,
     PublishPings, TakeRequest, queue, wire
<1>12. \A l \in Loops : Looping(l) => UNCHANGED <<out, shut, heard>>
  <2> USE DEF queue, wire
  <2>1. \A l \in Loops : StartRound(l) => UNCHANGED <<out, shut, heard>>
    BY DEF StartRound
  <2>2. \A l \in Loops, t \in Tunnels : ReadCounters(l, t) => UNCHANGED <<out, shut, heard>>
    BY DEF ReadCounters
  <2>3. \A l \in Loops, t \in Tunnels : NoCounters(l, t) => UNCHANGED <<out, shut, heard>>
    BY DEF NoCounters
  <2>4. \A l \in Loops : LoopEnds(l) => UNCHANGED <<out, shut, heard>>
    BY DEF LoopEnds
  <2> QED BY <2>1, <2>2, <2>3, <2>4 DEF Looping
<1>13. (Stopping \/ Exit) /\ ~ Farewell => UNCHANGED <<out, shut, heard>>
  BY DEF Stopping, Cancel, TakeAll, HushSampling, Close, Exit, queue, wire
<1>14. UNCHANGED vars => UNCHANGED <<out, shut, heard>>
  BY DEF vars, queue, wire
<1> QED
  BY <1>1, <1>2, <1>3, <1>4, <1>5, <1>6, <1>7, <1>8, <1>9, <1>10, <1>11, <1>12, <1>13,
     <1>14 DEF Next, Running, Ended

LEMMA ByeInit == Init => NoByeOwed /\ ByeCloses /\ ByeHeard
<1> SUFFICES ASSUME Init PROVE NoByeOwed /\ ByeCloses /\ ByeHeard
  OBVIOUS
<1>1. NoByeOwed /\ ByeHeard
  BY DEF Init, NoByeOwed, ByeHeard, Silence
<1>2. \A c \in Clients : Len(out[c]) = 0
  BY DEF Init
<1> QED BY <1>1, <1>2 DEF ByeCloses

\* Nothing is queued behind bye and nothing is read after it (message.go:84-88,
\* shutdown 902-909), however many fan-outs shutdown finds under way.
THEOREM ByeComesLast == Spec => []ByeIsLast
<1>1. TypeInv => ByeTypes
  BY LifeTyped DEF ByeTypes, TypeInv, TypeOK
<1>2. ByeTypes => LifeTypes
  BY DEF ByeTypes
<1>3. NoByeOwed /\ ByeCloses /\ ByeHeard => ByeIsLast
  BY DEF ByeCloses, ByeHeard, ByeIsLast
<1> QED
  BY TypeAlways, CloseAlways, ByeInit, ByeOwedStep, ByeQueueStep, <1>1, <1>2, <1>3, PTL
  DEF Spec

=============================================================================
