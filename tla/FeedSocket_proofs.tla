-------------------------- MODULE FeedSocket_proofs --------------------------
(***************************************************************************)
(* What holds of FeedSocket for every number of processes, however they     *)
(* overlap and wherever they are killed.                                   *)
(***************************************************************************)
EXTENDS FeedSocket, SequenceTheorems, TLAPS

\* Where the process is whose socket is at the path.  NothingLeftBehind alone is
\* not inductive: Close leaves the file where it is when it differs from the one
\* recorded, so a process has to have recorded its own, or nothing.
OwnerInv ==
  path \in Sockets =>
    /\ path \in 1..Len(maker)
    /\ \/ path \in excused
       \/ /\ bound[maker[path]] = path
          /\ \/ pc[maker[path]] # "serving"
             \/ recorded[maker[path]] \in {path, Absent}
       \/ /\ pc[maker[path]] \in {"compare", "remove"}
          /\ recorded[maker[path]] \in {path, Absent}

LEMMA PathsApart ==
  /\ MaxBinds \in Nat /\ Absent \notin Sockets /\ Foreign \notin Sockets
  /\ Absent # Foreign /\ Sockets \subseteq Nat
BY SocketAssumption DEF Absent, Foreign, Sockets

LEMMA SocketNumbers ==
  /\ \A n \in Sockets : n \in Nat /\ 1 <= n /\ n <= MaxBinds
  /\ \A k \in Nat : k <= MaxBinds => 1..k \subseteq Sockets
BY SocketAssumption DEF Sockets

LEMMA BindAppends ==
  ASSUME Shape, NEW p \in Processes, Bind(p)
  PROVE  /\ maker' \in Seq(Processes)
         /\ Len(maker) \in Nat /\ Len(maker') = Len(maker) + 1
         /\ maker'[Len(maker) + 1] = p
         /\ \A n \in 1..Len(maker) : maker'[n] = maker[n]
         /\ Len(maker') \in Sockets
<1>1. maker' = Append(maker, p) /\ Len(maker) < MaxBinds
  BY DEF Bind
<1>2. maker \in Seq(Processes) /\ Len(maker) \in Nat
  <2>1. maker \in Seq(Processes)
    BY DEF Shape
  <2> QED BY <2>1, LenProperties
<1>3. /\ maker' \in Seq(Processes) /\ Len(maker') = Len(maker) + 1
      /\ maker'[Len(maker) + 1] = p
      /\ \A n \in 1..Len(maker) : maker'[n] = maker[n]
  BY <1>1, <1>2, AppendProperties
<1>4. Len(maker) + 1 \in 1..MaxBinds
  BY <1>1, <1>2, PathsApart
<1> QED BY <1>2, <1>3, <1>4 DEF Sockets

LEMMA ShapeInit == Init => Shape
BY PathsApart DEF Init, Shape, Places

LEMMA ShapeStep == Shape /\ [Next]_vars => Shape'
<1> SUFFICES ASSUME Shape, [Next]_vars PROVE Shape'
  OBVIOUS
<1> USE PathsApart DEF Shape, Places, Goto, GotoBlindly, Moves, Ends, rest, history
<1>1. CASE PutForeign
  BY <1>1 DEF PutForeign
<1>2. ASSUME NEW p \in Processes, Listen(p) PROVE Shape'
  <2>1. CASE Start(p)
    BY <2>1 DEF Start
  <2>2. CASE Look(p)
    BY <2>2 DEF Look
  <2>3. CASE Unlink(p)
    BY <2>3 DEF Unlink
  <2>4. CASE UnlinkFails(p)
    BY <2>4 DEF UnlinkFails
  <2>5. CASE Bind(p)
    <3>1. maker' \in Seq(Processes) /\ Len(maker') \in Sockets
      BY <2>5, BindAppends
    <3>2. Len(maker') <= MaxBinds
      BY <3>1, SocketNumbers
    <3>3. /\ path' = Len(maker') /\ bound' = [bound EXCEPT ![p] = Len(maker')]
          /\ pc[p] = "bind" /\ pc' = [pc EXCEPT ![p] = "hand over"]
          /\ taker' = p /\ recorded' = recorded /\ excused' = excused
      BY <2>5 DEF Bind
    <3> QED BY <3>1, <3>2, <3>3
  <2>6. CASE BindFails(p)
    BY <2>6 DEF BindFails
  <2>7. CASE HandOver(p)
    BY <2>7 DEF HandOver
  <2>8. CASE HandOverFails(p)
    BY <2>8 DEF HandOverFails
  <2>9. CASE Abandon(p)
    BY <2>9 DEF Abandon
  <2>10. CASE Record(p)
    BY <2>10 DEF Record
  <2>11. CASE LookFails(p)
    BY <2>11 DEF LookFails
  <2>12. CASE RecordFails(p)
    BY <2>12 DEF RecordFails
  <2> QED
    BY <1>2, <2>1, <2>2, <2>3, <2>4, <2>5, <2>6, <2>7, <2>8, <2>9, <2>10, <2>11,
       <2>12 DEF Listen
<1>3. ASSUME NEW p \in Processes, Close(p) PROVE Shape'
  <2>1. CASE CloseListener(p)
    BY <2>1 DEF CloseListener
  <2>2. CASE CompareSame(p)
    BY <2>2 DEF CompareSame, Differs
  <2>5. CASE CompareOther(p)
    BY <2>5 DEF CompareOther, Differs
  <2>6. CASE CompareFails(p)
    BY <2>6 DEF CompareFails, Differs
  <2>3. CASE Remove(p)
    BY <2>3 DEF Remove
  <2>4. CASE RemoveFails(p)
    BY <2>4 DEF RemoveFails
  <2> QED BY <1>3, <2>1, <2>2, <2>3, <2>4, <2>5, <2>6 DEF Close
<1>4. ASSUME NEW p \in Processes, Crash(p) PROVE Shape'
  <2>1. {n \in DOMAIN maker : maker[n] = p} \subseteq Sockets
    <3>1. DOMAIN maker = 1..Len(maker) /\ Len(maker) \in Nat
      BY LenProperties
    <3> QED BY <3>1, SocketNumbers
  <2> QED BY <1>4, <2>1 DEF Crash
<1>5. CASE UNCHANGED vars
  BY <1>5 DEF vars
<1> QED BY <1>1, <1>2, <1>3, <1>4, <1>5 DEF Next

LEMMA LastIndex == \A k \in Nat : k + 1 \in 1..(k + 1)
OBVIOUS

LEMMA OwnerInit == Init => OwnerInv
BY PathsApart DEF Init, OwnerInv

LEMMA OwnerStep == Shape /\ OwnerInv /\ [Next]_vars => OwnerInv'
<1> SUFFICES ASSUME Shape, OwnerInv, [Next]_vars PROVE OwnerInv'
  OBVIOUS
<1> USE PathsApart DEF Shape, OwnerInv, Goto, GotoBlindly, Moves, Ends, rest, history
<1>0. path \in Sockets => maker[path] \in Processes
  BY ElementOfSeq
<1>1. CASE PutForeign
  BY <1>1 DEF PutForeign
<1>2. ASSUME NEW p \in Processes, Listen(p) PROVE OwnerInv'
  <2>1. CASE Start(p)
    BY <1>0, <2>1 DEF Start
  <2>2. CASE Look(p)
    BY <1>0, <2>2 DEF Look
  <2>3. CASE Unlink(p)
    BY <2>3 DEF Unlink
  <2>4. CASE UnlinkFails(p)
    BY <1>0, <2>4 DEF UnlinkFails
  <2>5. CASE Bind(p)
    <3>1. /\ path' = Len(maker') /\ Len(maker') = Len(maker) + 1
          /\ Len(maker) \in Nat /\ maker'[Len(maker) + 1] = p
      BY <2>5, BindAppends DEF Bind
    <3>2. bound'[p] = path' /\ pc'[p] = "hand over"
      BY <2>5 DEF Bind
    <3>3. path' \in 1..Len(maker')
      BY <3>1, LastIndex
    <3> QED BY <3>1, <3>2, <3>3
  <2>6. CASE BindFails(p)
    BY <1>0, <2>6 DEF BindFails
  <2>7. CASE HandOver(p)
    BY <1>0, <2>7 DEF HandOver
  <2>8. CASE HandOverFails(p)
    BY <1>0, <2>8 DEF HandOverFails
  <2>9. CASE Abandon(p)
    BY <2>9 DEF Abandon
  <2>10. CASE Record(p)
    BY <1>0, <2>10 DEF Record
  <2>11. CASE LookFails(p)
    BY <1>0, <2>11 DEF LookFails
  <2>12. CASE RecordFails(p)
    BY <1>0, <2>12 DEF RecordFails
  <2> QED
    BY <1>2, <2>1, <2>2, <2>3, <2>4, <2>5, <2>6, <2>7, <2>8, <2>9, <2>10, <2>11,
       <2>12 DEF Listen
<1>3. ASSUME NEW p \in Processes, Close(p) PROVE OwnerInv'
  <2>1. CASE CloseListener(p)
    BY <1>0, <2>1 DEF CloseListener
  <2>2. CASE CompareSame(p)
    BY <1>0, <2>2 DEF CompareSame, Differs
  <2>5. CASE CompareOther(p)
    BY <1>0, <2>5 DEF CompareOther, Differs
  <2>6. CASE CompareFails(p)
    BY <1>0, <2>6 DEF CompareFails, Differs
  <2>3. CASE Remove(p)
    BY <2>3 DEF Remove
  <2>4. CASE RemoveFails(p)
    BY <1>0, <2>4 DEF RemoveFails
  <2> QED BY <1>3, <2>1, <2>2, <2>3, <2>4, <2>5, <2>6 DEF Close
<1>4. ASSUME NEW p \in Processes, Crash(p) PROVE OwnerInv'
  <2>1. path \in Sockets => path \in DOMAIN maker
    BY LenProperties
  <2> QED BY <1>0, <1>4, <2>1 DEF Crash
<1>5. CASE UNCHANGED vars
  BY <1>5 DEF vars
<1> QED BY <1>1, <1>2, <1>3, <1>4, <1>5 DEF Next

LEMMA DisturbedStep == TypeOK /\ [Next]_vars => (disturbed \in BOOLEAN)'
<1> SUFFICES ASSUME TypeOK, [Next]_vars PROVE disturbed' \in BOOLEAN
  OBVIOUS
<1>1. disturbed \in BOOLEAN
  BY DEF TypeOK
<1>2. disturbed' = disturbed \/ disturbed' = TRUE
  BY DEF Next, vars, PutForeign, Listen, Close, Crash, Start, Look, LookFails,
     Unlink, UnlinkFails, Bind, BindFails, HandOver, HandOverFails, Abandon,
     Record, RecordFails, CloseListener, CompareSame, CompareOther, CompareFails,
     Remove, RemoveFails, Goto, GotoBlindly
<1> QED BY <1>1, <1>2

\* The state keeps its shape, and listeners are held exactly from the bind until
\* abandon or Close gives them up (Listen 236-282, abandon 402-406, Close 411-429).
THEOREM SocketTypeCorrect == Spec => []TypeOK
<1>1. Init => TypeOK
  BY ShapeInit DEF Init, TypeOK
<1>2. TypeOK /\ [Next]_vars => TypeOK'
  BY ShapeStep, DisturbedStep DEF TypeOK
<1> QED BY <1>1, <1>2, PTL DEF Spec

\* However many processes overlap over the path, only one that was killed, or was
\* refused the removal, leaves its socket there (Listen 234-235, Close 411-429).
THEOREM SocketsAreNotLeftBehind == Spec => []NothingLeftBehind
<1>1. OwnerInv => NothingLeftBehind
  BY DEF OwnerInv, NothingLeftBehind
<1>2. TypeOK => Shape
  BY DEF TypeOK
<1> QED BY SocketTypeCorrect, OwnerInit, OwnerStep, <1>1, <1>2, PTL DEF Spec

-----------------------------------------------------------------------------
(* The last to take the path.  While processes start and stop one at a time  *)
(* and see what is at the path, a listener is known by the file it bound.    *)

Own(p, n) == n \in 1..Len(maker) /\ maker[n] = p

\* What a process holds, or will compare with, is a socket it bound itself.
HeldInv ==
  /\ \A p \in Processes : bound[p] # Absent => Own(p, bound[p])
  /\ ~ disturbed => \A p \in Processes :
       pc[p] \in {"serving", "compare"} => Own(p, recorded[p])

TakerInv ==
  ~ disturbed =>
    /\ \A p, q \in Busy : p = q
    /\ \A p \in Processes : pc[p] \in {"hand over", "abandon", "record"} =>
         taker = p /\ path = bound[p]
    /\ \A p \in Processes : taker = p /\ pc[p] = "serving" =>
         /\ path = bound[p]
         /\ \A q \in Processes : pc[q] # "remove"

LEMMA TakerInit == Init => HeldInv /\ TakerInv
BY DEF Init, HeldInv, TakerInv, Busy

\* A step that sees the path and disturbs nobody is made with all others at rest.
LEMMA Alone ==
  ASSUME Shape, NEW p \in Processes, NEW from, NEW to, Goto(p, from, to), ~ disturbed'
  PROVE  /\ ~ disturbed /\ pc[p] = from /\ pc'[p] = to
         /\ \A q \in Processes \ {p} : pc[q] \in {"down", "serving"} /\ pc'[q] = pc[q]
<1>1. Busy \subseteq {p} /\ ~ disturbed
  BY DEF Goto
<1>2. \A q \in Processes \ {p} : pc[q] \in {"down", "serving"}
  BY <1>1 DEF Busy
<1>3. pc \in [Processes -> Places] /\ pc[p] = from /\ pc' = [pc EXCEPT ![p] = to]
  BY DEF Goto, Moves, Shape
<1> QED BY <1>1, <1>2, <1>3

LEMMA OwnGrows ==
  ASSUME Shape, NEW p \in Processes, Bind(p)
  PROVE  /\ Own(p, path)' /\ bound'[p] = path'
         /\ \A q \in Processes : bound[q] # Absent /\ Own(q, bound[q]) => Own(q, bound[q])'
         /\ \A q \in Processes : Own(q, recorded[q]) => Own(q, recorded[q])'
<1>1. /\ Len(maker) \in Nat /\ Len(maker') = Len(maker) + 1
      /\ maker'[Len(maker) + 1] = p
      /\ \A n \in 1..Len(maker) : maker'[n] = maker[n]
  BY BindAppends
<1>2. /\ path' = Len(maker') /\ bound' = [bound EXCEPT ![p] = Len(maker')]
      /\ recorded' = recorded /\ pc[p] = "bind"
  BY DEF Bind, Goto, Moves
<1>3. bound \in [Processes -> {Absent} \cup Sockets] /\ bound[p] = Absent
  BY <1>2 DEF Shape
<1>4. \A n : n \in 1..Len(maker) => n \in 1..Len(maker') /\ maker'[n] = maker[n]
  BY <1>1
<1> QED BY <1>1, <1>2, <1>3, <1>4 DEF Own

LEMMA HeldStep == Shape /\ HeldInv /\ TakerInv /\ [Next]_vars => HeldInv'
<1> SUFFICES ASSUME Shape, HeldInv, TakerInv, [Next]_vars PROVE HeldInv'
  OBVIOUS
<1> USE PathsApart
<1>1. ASSUME NEW p \in Processes, Bind(p) PROVE HeldInv'
  <2>1. /\ \A q \in Processes \ {p} : bound'[q] = bound[q] /\ pc'[q] = pc[q]
        /\ pc'[p] = "hand over" /\ recorded' = recorded /\ (~ disturbed' => ~ disturbed)
    BY <1>1 DEF Bind, Shape, Goto, Moves
  <2> QED BY <1>1, <2>1, OwnGrows DEF HeldInv
<1>2. ASSUME UNCHANGED maker, ~ disturbed' => ~ disturbed,
             \A q \in Processes : bound'[q] \in {bound[q], Absent},
             ~ disturbed' => \A q \in Processes : pc'[q] \in {"serving", "compare"} =>
               recorded'[q] = recorded[q] /\ pc[q] \in {"serving", "compare"}
      PROVE  HeldInv'
  BY <1>2 DEF HeldInv, Own
<1>3. ASSUME NEW p \in Processes, Record(p) PROVE HeldInv'
  <2>1. /\ UNCHANGED <<maker, bound, path>> /\ recorded' = [recorded EXCEPT ![p] = path]
        /\ pc[p] = "record" /\ pc' = [pc EXCEPT ![p] = "serving"] /\ (~ disturbed' => ~ disturbed)
    BY <1>3 DEF Record, Goto, Moves
  <2>2. ~ disturbed => Own(p, path)
    BY <2>1 DEF TakerInv, HeldInv, Shape
  <2> QED BY <2>1, <2>2 DEF HeldInv, Own, Shape
<1>4. ASSUME NEW p \in Processes, Listen(p), ~ Bind(p), ~ Record(p) PROVE HeldInv'
  <2>1. UNCHANGED maker /\ (~ disturbed' => ~ disturbed)
    BY <1>4 DEF Listen, Start, Look, LookFails, Unlink, UnlinkFails, BindFails, HandOver,
       HandOverFails, Abandon, RecordFails, Goto, GotoBlindly, rest
  <2>2. \A q \in Processes : bound'[q] \in {bound[q], Absent}
    BY <1>4 DEF Listen, Start, Look, LookFails, Unlink, UnlinkFails, BindFails, HandOver,
       HandOverFails, Abandon, RecordFails, Ends, rest, Shape
  <2>3. ~ disturbed' => \A q \in Processes : pc'[q] \in {"serving", "compare"} =>
          recorded'[q] = recorded[q] /\ pc[q] \in {"serving", "compare"}
    BY <1>4 DEF Listen, Start, Look, LookFails, Unlink, UnlinkFails, BindFails, HandOver,
       HandOverFails, Abandon, RecordFails, Goto, GotoBlindly, Moves, Ends, rest, Shape
  <2> QED BY <1>2, <2>1, <2>2, <2>3
<1>5. ASSUME NEW p \in Processes, Close(p) \/ Crash(p) PROVE HeldInv'
  <2>1. UNCHANGED maker /\ (~ disturbed' => ~ disturbed)
    <3>1. UNCHANGED maker
      BY <1>5 DEF Close, CloseListener, CompareSame, CompareOther, CompareFails, Remove,
         RemoveFails, Crash, rest
    <3>2. ~ disturbed' => ~ disturbed
      BY <1>5 DEF Close, CloseListener, CompareSame, CompareOther, CompareFails, Remove,
         RemoveFails, Crash, Goto, GotoBlindly
    <3> QED BY <3>1, <3>2
  <2>2. \A q \in Processes : bound'[q] \in {bound[q], Absent}
    BY <1>5 DEF Close, CloseListener, CompareSame, CompareOther, CompareFails, Remove,
       RemoveFails, Crash, Ends, rest, Shape
  <2>3. ~ disturbed' => \A q \in Processes : pc'[q] \in {"serving", "compare"} =>
          recorded'[q] = recorded[q] /\ pc[q] \in {"serving", "compare"}
    <3>1. ASSUME NEW q \in Processes, q # p
          PROVE  pc'[q] = pc[q] /\ recorded'[q] = recorded[q]
      BY <1>5, <3>1 DEF Close, CloseListener, CompareSame, CompareOther, CompareFails,
         Remove, RemoveFails, Crash, Goto, GotoBlindly, Moves, Ends, rest, Shape
    <3>2. pc'[p] \in {"serving", "compare"} =>
            recorded'[p] = recorded[p] /\ pc[p] \in {"serving", "compare"}
      BY <1>5 DEF Close, CloseListener, CompareSame, CompareOther, CompareFails,
         Remove, RemoveFails, Crash, Goto, GotoBlindly, Moves, Ends, rest, Shape
    <3> QED BY <3>1, <3>2
  <2> QED BY <1>2, <2>1, <2>2, <2>3
<1>6. CASE PutForeign \/ UNCHANGED vars
  BY <1>2, <1>6 DEF PutForeign, vars, rest
<1> QED BY <1>1, <1>3, <1>4, <1>5, <1>6 DEF Next

LEMMA TakerStep == Shape /\ HeldInv /\ TakerInv /\ [Next]_vars => TakerInv'
<1> SUFFICES ASSUME Shape, HeldInv, TakerInv, [Next]_vars, ~ disturbed' PROVE TakerInv'
  BY DEF TakerInv
<1> USE PathsApart DEF rest, history
<1>s. /\ pc \in [Processes -> Places] /\ bound \in [Processes -> {Absent} \cup Sockets]
      /\ path \in {Absent, Foreign} \cup Sockets
      /\ \A p \in Processes :
           bound[p] # Absent <=> pc[p] \in {"hand over", "abandon", "record", "serving"}
  BY DEF Shape
\* All others at rest, what is to be shown is about p and about whoever took the path.
<1>1. ASSUME NEW p \in Processes, NEW from, NEW to, Goto(p, from, to),
             to \in {"hand over", "abandon", "record"} => taker' = p /\ path' = bound'[p],
             to = "remove" => ~ (taker' \in Processes /\ pc[taker'] = "serving"),
             \A q \in Processes : taker' = q /\ pc'[q] = "serving" => path' = bound'[q]
      PROVE  TakerInv'
  <2>1. /\ pc'[p] = to
        /\ \A q \in Processes \ {p} : pc[q] \in {"down", "serving"} /\ pc'[q] = pc[q]
    BY <1>1, Alone
  <2>2. \A q, k \in Busy' : q = k
    BY <2>1 DEF Busy
  <2>3. ASSUME NEW q \in Processes, pc'[q] \in {"hand over", "abandon", "record"}
        PROVE  taker' = q /\ path' = bound'[q]
    BY <1>1, <2>1, <2>3
  <2>4. ASSUME NEW q \in Processes, taker' = q, pc'[q] = "serving", NEW k \in Processes
        PROVE  pc'[k] # "remove"
    BY <1>1, <2>1, <2>4
  <2> QED BY <1>1, <2>2, <2>3, <2>4 DEF TakerInv
<1>2. ASSUME NEW p \in Processes, Listen(p) PROVE TakerInv'
  <2>f. \A q \in Processes : pc[q] \in {"hand over", "abandon", "record"} => taker = q /\ path = bound[q]
    BY <1>2, Alone DEF TakerInv, Listen, Start, Look, LookFails, Unlink, UnlinkFails, Bind, BindFails,
       HandOver, HandOverFails, Abandon, Record, RecordFails, GotoBlindly
  <2>g. ~ disturbed /\ \A q \in Processes : taker = q /\ pc[q] = "serving" => path = bound[q]
    BY <1>2, Alone DEF TakerInv, Listen, Start, Look, LookFails, Unlink, UnlinkFails, Bind, BindFails,
       HandOver, HandOverFails, Abandon, Record, RecordFails, GotoBlindly
  <2>1. CASE Start(p) \/ LookFails(p) \/ UnlinkFails(p) \/ BindFails(p)
    <3>1. PICK from \in {"down", "look", "unlink", "bind"}, to \in {"look", "down"} :
            Goto(p, from, to)
      BY <2>1 DEF Start, LookFails, UnlinkFails, BindFails
    <3>2. UNCHANGED <<path, bound, taker>>
      BY <2>1 DEF Start, LookFails, UnlinkFails, BindFails
    <3>3. pc'[p] = to /\ \A q \in Processes \ {p} : pc'[q] = pc[q]
      BY <3>1, Alone
    <3>4. \A q \in Processes : taker' = q /\ pc'[q] = "serving" => path' = bound'[q]
      BY <3>1, <3>2, <3>3, <2>g
    <3> QED BY <1>1, <3>1, <3>4
  <2>2. CASE Look(p)
    <3>1. PICK to \in {"bind", "down", "unlink"} : Goto(p, "look", to)
      BY <2>2 DEF Look
    <3>2. UNCHANGED <<path, bound, taker>>
      BY <2>2 DEF Look
    <3>3. pc[p] = "look" /\ pc'[p] = to /\ \A q \in Processes \ {p} : pc'[q] = pc[q]
      BY <3>1, Alone
    <3>4. \A q \in Processes : taker' = q /\ pc'[q] = "serving" => path' = bound'[q]
      BY <3>1, <3>2, <3>3, <2>g
    <3> QED BY <1>1, <3>1, <3>4
  <2>3. CASE Unlink(p)
    <3>1. Goto(p, "unlink", "bind") /\ taker' = p
      BY <2>3 DEF Unlink
    <3>2. pc'[p] = "bind"
      BY <3>1, Alone
    <3> QED BY <1>1, <3>1, <3>2
  <2>4. CASE Bind(p)
    BY <1>s, <1>1, <2>4, <2>g, Alone, OwnGrows DEF Bind
  <2>5. CASE HandOver(p) \/ HandOverFails(p)
    <3>1. PICK to \in {"record", "abandon"} : Goto(p, "hand over", to)
      BY <2>5 DEF HandOver, HandOverFails
    <3>2. UNCHANGED <<path, bound, taker>>
      BY <2>5 DEF HandOver, HandOverFails
    <3>3. taker = p /\ path = bound[p] /\ pc'[p] = to
      BY <3>1, <2>f, Alone
    <3> QED BY <1>1, <3>1, <3>2, <3>3
  <2>6. CASE Abandon(p)
    <3>1. Goto(p, "abandon", "down") /\ taker' = taker
      BY <2>6 DEF Abandon
    <3>2. taker = p /\ pc'[p] = "down"
      BY <3>1, <2>f, Alone
    <3> QED BY <1>1, <3>1, <3>2
  <2>7. CASE Record(p)
    <3>1. Goto(p, "record", "serving") /\ UNCHANGED <<taker, bound, path>>
      BY <2>7 DEF Record
    <3>2. taker = p /\ path = bound[p]
      BY <3>1, <2>f, Alone
    <3> QED BY <1>1, <3>1, <3>2
  <2>8. CASE RecordFails(p)
    BY <2>8 DEF RecordFails, GotoBlindly
  <2> QED BY <1>2, <2>1, <2>2, <2>3, <2>4, <2>5, <2>6, <2>7, <2>8 DEF Listen
<1>3. ASSUME NEW p \in Processes, Close(p) PROVE TakerInv'
  <2>1. CASE CloseListener(p)
    <3>1. /\ Goto(p, "serving", "compare") /\ UNCHANGED <<taker, path>>
          /\ bound' = [bound EXCEPT ![p] = Absent]
      BY <2>1 DEF CloseListener
    <3>2. ~ disturbed /\ pc'[p] = "compare" /\ \A q \in Processes \ {p} : pc'[q] = pc[q]
      BY <3>1, Alone
    <3>3. \A q \in Processes : taker' = q /\ pc'[q] = "serving" => path' = bound'[q]
      BY <1>s, <3>1, <3>2 DEF TakerInv
    <3> QED BY <1>1, <3>1, <3>3
  <2>2. CASE CompareSame(p)
    <3>1. Goto(p, "compare", "remove") /\ UNCHANGED <<path, taker, bound>> /\ ~ Differs(p)
      BY <2>2 DEF CompareSame
    <3>2. /\ ~ disturbed /\ pc[p] = "compare" /\ pc'[p] = "remove"
          /\ \A q \in Processes \ {p} : pc'[q] = pc[q]
      BY <3>1, Alone
    <3>3. ASSUME taker \in Processes, pc[taker] = "serving" PROVE FALSE
      <4>1. taker # p /\ path = bound[taker] /\ bound[taker] # Absent
        BY <1>s, <3>2, <3>3 DEF TakerInv
      <4>2. Own(taker, path) /\ Own(p, recorded[p])
        BY <3>2, <4>1, <3>3 DEF HeldInv
      <4>3. recorded[p] # path /\ recorded[p] # Absent
        <5>1. maker[path] = taker /\ maker[recorded[p]] = p /\ recorded[p] \in 1..Len(maker)
          BY <4>2 DEF Own
        <5>2. Len(maker) \in Nat
          BY LenProperties DEF Shape
        <5> QED BY <4>1, <5>1, <5>2 DEF Absent
      <4> QED BY <3>1, <4>1, <4>3 DEF Differs
    <3>4. \A q \in Processes : taker' = q /\ pc'[q] = "serving" => path' = bound'[q]
      BY <3>1, <3>2, <3>3
    <3> QED BY <1>1, <3>1, <3>3, <3>4
  <2>3. CASE CompareOther(p)
    <3>1. /\ Goto(p, "compare", "down") /\ UNCHANGED <<taker, path>>
          /\ bound' = [bound EXCEPT ![p] = Absent]
      BY <2>3 DEF CompareOther, Ends
    <3>2. ~ disturbed /\ pc'[p] = "down" /\ \A q \in Processes \ {p} : pc'[q] = pc[q]
      BY <3>1, Alone
    <3>3. \A q \in Processes : taker' = q /\ pc'[q] = "serving" => path' = bound'[q]
      BY <1>s, <3>1, <3>2 DEF TakerInv
    <3> QED BY <1>1, <3>1, <3>3
  <2>4. CASE CompareFails(p)
    BY <2>4 DEF CompareFails, GotoBlindly
  <2>5. CASE Remove(p)
    BY <1>s, <1>1, <2>5, Alone, ZenonT(60) DEF Remove, TakerInv, Ends
  <2>6. CASE RemoveFails(p)
    <3>1. /\ pc' = [pc EXCEPT ![p] = "down"] /\ bound' = [bound EXCEPT ![p] = Absent]
          /\ UNCHANGED <<path, taker, disturbed>>
      BY <2>6 DEF RemoveFails, Ends
    <3> QED BY <1>s, <3>1 DEF TakerInv, Busy
  <2> QED BY <1>3, <2>1, <2>2, <2>3, <2>4, <2>5, <2>6 DEF Close
<1>4. ASSUME NEW p \in Processes, Crash(p) PROVE TakerInv'
  <2>1. /\ pc' = [pc EXCEPT ![p] = "down"] /\ bound' = [bound EXCEPT ![p] = Absent]
        /\ UNCHANGED <<path, taker, disturbed>>
    BY <1>4 DEF Crash, Ends
  <2> QED BY <1>s, <2>1 DEF TakerInv, Busy
<1>5. CASE PutForeign
  BY <1>s, <1>5 DEF PutForeign, TakerInv, Busy
<1>6. CASE UNCHANGED vars
  BY <1>6 DEF vars, TakerInv, Busy
<1> QED BY <1>2, <1>3, <1>4, <1>5, <1>6 DEF Next

\* Whoever took the path last and is serving can be reached there: those it took
\* the path from leave it alone when they close (Close 411-429), as long as
\* processes start and stop one at a time and see what is at the path.
THEOREM TheTakerIsReachable == Spec => []TakerIsReachable
<1>1. TakerInv => TakerIsReachable
  BY DEF TakerInv, TakerIsReachable
<1>2. TypeOK => Shape
  BY DEF TypeOK
<1> QED BY SocketTypeCorrect, TakerInit, HeldStep, TakerStep, <1>1, <1>2, PTL DEF Spec
=============================================================================
