----------------------------- MODULE FeedSocket -----------------------------
(***************************************************************************)
(* The file the status feed listens on: Listen and Close of                *)
(* internal/feed/server.go, run by several tun-manager processes over one  *)
(* path.                                                                   *)
(*                                                                         *)
(* One step is one system call on the path.  Every one of them takes the   *)
(* path and not the file, so what it finds there may be another process's. *)
(* A process may be killed between any two of them and started again.      *)
(*                                                                         *)
(* What is abstracted: checkKey and checkDirectory, which leave the path   *)
(* alone, are a start that does not happen; chmod and chown are one step,   *)
(* since neither changes what is at the path; a socket is the number of    *)
(* the bind that made it, so file identities are never reused.             *)
(***************************************************************************)
EXTENDS Naturals, Sequences

CONSTANTS
  Processes,    \* tun-manager processes
  Nobody,       \* none of them
  MaxBinds      \* bound: how many sockets are made in a behaviour

ASSUME SocketAssumption == MaxBinds \in Nat /\ Nobody \notin Processes

Absent  == 0             \* nothing at the path
Foreign == MaxBinds + 1  \* a file there that is no socket
Sockets == 1..MaxBinds

VARIABLES
  path,      \* what is at Server.Path
  maker,     \* maker[n] is the process that bound the n-th socket
  pc,        \* per process, where it is
  bound,     \* per process, the socket its listener holds; Absent for none
  recorded,  \* per process, Server.socket: what Lstat found after the bind
  taker,     \* history: the last process to clear the path or to bind there
  excused,   \* history: the sockets whose process was killed, or could not
             \* remove them
  disturbed  \* history: two processes were at it at once, or one could not see
             \* what is at the path and took it for its own

history == <<taker, excused>>
rest == <<path, maker, bound, recorded, history>>
vars == <<pc, rest, disturbed>>

Places == {"down", "look", "unlink", "bind", "hand over", "abandon", "record",
           "serving", "compare", "remove"}

Init ==
  /\ path = Absent /\ maker = <<>>
  /\ pc = [p \in Processes |-> "down"]
  /\ bound = [p \in Processes |-> Absent]
  /\ recorded = [p \in Processes |-> Absent]
  /\ taker = Nobody /\ excused = {} /\ disturbed = FALSE

\* Processes in the middle of Listen or Close.
Busy == {p \in Processes : pc[p] \notin {"down", "serving"}}

Moves(p, from, to) == pc[p] = from /\ pc' = [pc EXCEPT ![p] = to]

Goto(p, from, to) ==
  /\ Moves(p, from, to)
  /\ disturbed' = IF Busy \subseteq {p} THEN disturbed ELSE TRUE

GotoBlindly(p, from, to) == Moves(p, from, to) /\ disturbed' = TRUE

\* Whatever a process was doing, it holds no listener any more.
Ends(p) ==
  /\ bound' = [bound EXCEPT ![p] = Absent]
  /\ recorded' = [recorded EXCEPT ![p] = Absent]

-----------------------------------------------------------------------------
(* Listen.                                                                 *)

Start(p) ==
  Goto(p, "down", "look") /\ UNCHANGED rest

\* clearStaleSocket, the Lstat: a file that is no socket is not ours to remove.
Look(p) ==
  /\ Goto(p, "look", CASE path = Absent -> "bind"
                       [] path = Foreign -> "down"
                       [] OTHER -> "unlink")
  /\ UNCHANGED rest

\* clearStaleSocket, the Lstat: an answer that tells nothing.
LookFails(p) ==
  Goto(p, "look", "down") /\ UNCHANGED rest

\* clearStaleSocket, the Remove: of what is at the path by now, or it fails.
Unlink(p) ==
  /\ Goto(p, "unlink", "bind")
  /\ path' = Absent /\ taker' = p
  /\ UNCHANGED <<maker, bound, recorded, excused>>

UnlinkFails(p) ==
  Goto(p, "unlink", "down") /\ UNCHANGED rest

\* bindPrivately: the file exists with mode 0600 from here on.
Bind(p) ==
  /\ Goto(p, "bind", "hand over")
  /\ path = Absent /\ Len(maker) < MaxBinds
  /\ maker' = Append(maker, p)
  /\ path' = Len(maker')
  /\ bound' = [bound EXCEPT ![p] = Len(maker')]
  /\ taker' = p
  /\ UNCHANGED <<recorded, excused>>

\* The address is in use.
BindFails(p) ==
  /\ Goto(p, "bind", "down")
  /\ path # Absent
  /\ UNCHANGED rest

HandOver(p) ==
  /\ Goto(p, "hand over", "record")
  /\ path # Absent
  /\ UNCHANGED rest

\* Mutant: a listener nobody may read is given up without being closed.
HandOverFails_Returns(p) ==
  Goto(p, "hand over", "down") /\ UNCHANGED rest

\* chmod or chown fails, for certain when there is nothing at the path.
HandOverFails(p) ==
  Goto(p, "hand over", "abandon") /\ UNCHANGED rest

\* Mutant: the listener is closed and its file left.
Abandon_LeavesFile(p) ==
  Goto(p, "abandon", "down") /\ Ends(p) /\ UNCHANGED <<path, maker, history>>

\* abandon removes by path: what it finds there may be no longer its own.
Abandon(p) ==
  /\ Goto(p, "abandon", "down") /\ Ends(p)
  /\ path' = Absent
  /\ UNCHANGED <<maker, history>>

\* The Lstat behind Server.socket; that of a path by now empty records nothing.
Record(p) ==
  /\ Goto(p, "record", "serving")
  /\ recorded' = [recorded EXCEPT ![p] = path]
  /\ UNCHANGED <<path, maker, bound, history>>

\* Nor does one that fails, and Listen carries on.
RecordFails(p) ==
  /\ GotoBlindly(p, "record", "serving")
  /\ path # Absent
  /\ recorded' = [recorded EXCEPT ![p] = Absent]
  /\ UNCHANGED <<path, maker, bound, history>>

-----------------------------------------------------------------------------
(* Close.                                                                  *)

CloseListener(p) ==
  /\ Goto(p, "serving", "compare")
  /\ bound' = [bound EXCEPT ![p] = Absent]
  /\ UNCHANGED <<path, maker, recorded, history>>

\* Mutant: the path is taken for ours without being looked at.
CompareSame_Trusts(p) ==
  Goto(p, "compare", "remove") /\ UNCHANGED rest

\* Whether ours finds another file at the path than the one recorded.
Differs(p) == recorded[p] # Absent /\ path \notin {Absent, recorded[p]}

\* ours: nothing recorded, or nothing there to compare with, counts as ours.
CompareSame(p) ==
  /\ Goto(p, "compare", "remove")
  /\ ~ Differs(p)
  /\ UNCHANGED rest

CompareOther(p) ==
  /\ Goto(p, "compare", "down") /\ Ends(p)
  /\ Differs(p)
  /\ UNCHANGED <<path, maker, history>>

\* So does a file that cannot be looked at.
CompareFails(p) ==
  /\ GotoBlindly(p, "compare", "remove")
  /\ Differs(p)
  /\ UNCHANGED rest

Remove(p) ==
  /\ Goto(p, "remove", "down") /\ Ends(p)
  /\ path' = Absent
  /\ UNCHANGED <<maker, history>>

\* The last call of abandon or of Close fails, and its file stays.
RemoveFails(p) ==
  /\ pc[p] \in {"abandon", "remove"} /\ path # Absent
  /\ pc' = [pc EXCEPT ![p] = "down"] /\ Ends(p)
  /\ excused' = excused \cup ({path} \ {Foreign})
  /\ UNCHANGED <<path, maker, taker, disturbed>>

-----------------------------------------------------------------------------
(* The world.                                                              *)

\* A killed process loses its listener; its file stays.
Crash(p) ==
  /\ pc[p] # "down"
  /\ pc' = [pc EXCEPT ![p] = "down"]
  /\ excused' = excused \cup {n \in DOMAIN maker : maker[n] = p}
  /\ Ends(p)
  /\ UNCHANGED <<path, maker, taker, disturbed>>

\* Somebody puts a file of theirs where the configuration points.
PutForeign ==
  /\ path = Absent
  /\ path' = Foreign
  /\ UNCHANGED <<maker, pc, bound, recorded, history, disturbed>>

Listen(p) ==
  \/ Start(p) \/ Look(p) \/ LookFails(p) \/ Unlink(p) \/ UnlinkFails(p)
  \/ Bind(p) \/ BindFails(p) \/ HandOver(p) \/ HandOverFails(p)
  \/ Abandon(p) \/ Record(p) \/ RecordFails(p)

Close(p) ==
  \/ CloseListener(p) \/ CompareSame(p) \/ CompareOther(p) \/ CompareFails(p)
  \/ Remove(p) \/ RemoveFails(p)

Next == PutForeign \/ \E p \in Processes : Listen(p) \/ Close(p) \/ Crash(p)

Spec == Init /\ [][Next]_vars

-----------------------------------------------------------------------------
(* Properties.                                                             *)

\* The shape of the state; a process holds a listener from its bind until
\* abandon or Close gives it up, and at no other time (Server.ln, Listen 247-281).
Shape ==
  /\ path \in {Absent, Foreign} \cup Sockets
  /\ maker \in Seq(Processes) /\ Len(maker) <= MaxBinds
  /\ pc \in [Processes -> Places]
  /\ bound \in [Processes -> {Absent} \cup Sockets]
  /\ recorded \in [Processes -> {Absent, Foreign} \cup Sockets]
  /\ \A p \in Processes :
       bound[p] # Absent
         <=> pc[p] \in {"hand over", "abandon", "record", "serving"}
  /\ taker \in Processes \cup {Nobody} /\ excused \subseteq Sockets

TypeOK == Shape /\ disturbed \in BOOLEAN

\* Whoever took the path last and is serving can be reached there: a process it
\* took the path from leaves it alone when it closes, whether or not others
\* were killed meanwhile (Close 411-429).  As long as processes start and stop
\* one at a time and see what is at the path.
TakerIsReachable ==
  ~ disturbed /\ Busy = {} =>
    \A p \in Processes : taker = p /\ pc[p] = "serving" => path = bound[p]

\* Only a process that was killed, or that was refused the removal, leaves its
\* socket behind, however processes overlap: one that stops, or gives up
\* starting, does not, since "a path left behind would look like a feed that
\* works and serve nobody" (Listen 234-235, abandon 401-405, Close 411-429).
NothingLeftBehind ==
  path \in Sockets =>
    \/ path \in excused
    \/ bound[maker[path]] = path
    \/ pc[maker[path]] \in {"compare", "remove"}
=============================================================================
