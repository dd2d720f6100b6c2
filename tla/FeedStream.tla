----------------------------- MODULE FeedStream -----------------------------
(***************************************************************************)
(* What the status feed promises whoever reads one of its connections, and *)
(* nothing about how: no mutex, no goroutine, no other connection.         *)
(*                                                                         *)
(*   - lines are read in the order they were queued, never twice;          *)
(*   - at most one hello;                                                  *)
(*   - at most QueueLimit lines wait; a reader that is further behind than *)
(*     that is cut off, and is owed nothing more than what was queued;     *)
(*   - bye comes last, and only to a connection that has not been cut off; *)
(*   - a connection that is over stays over.                               *)
(*                                                                         *)
(* FeedServer implements it (FeedServer!Stream).  A reader of the feed can *)
(* be composed with this module instead of with the server.                *)
(***************************************************************************)
EXTENDS Naturals, Sequences

CONSTANTS
  Readers,     \* connections
  Line,        \* everything the feed can say: records with a field kind
  QueueLimit   \* how many lines may wait

VARIABLES
  phase,    \* "absent", "open", "ending" nothing more will be queued, "over"
  greeted,  \* hello was queued, or will never be
  lines,    \* what is queued and not read
  left      \* bye has been read

promise == <<phase, greeted, lines, left>>

Init ==
  /\ phase = [r \in Readers |-> "absent"]
  /\ greeted = [r \in Readers |-> FALSE]
  /\ lines = [r \in Readers |-> <<>>]
  /\ left = [r \in Readers |-> FALSE]

Move(r, from, to) == phase[r] \in from /\ phase' = [phase EXCEPT ![r] = to]

Open(r) == Move(r, {"absent"}, "open") /\ UNCHANGED <<greeted, lines, left>>

\* Turned away, or the publisher was going away already.
TurnAway(r) == Move(r, {"absent"}, "over") /\ UNCHANGED <<greeted, lines, left>>

Say(r, m) ==
  /\ phase[r] = "open"
  /\ m.kind \notin {"bye", "refused"}
  /\ m.kind = "hello" => ~ greeted[r]
  /\ Len(lines[r]) < QueueLimit
  /\ lines' = [lines EXCEPT ![r] = Append(@, m)]
  /\ greeted' = [greeted EXCEPT ![r] = @ \/ m.kind = "hello"]
  /\ UNCHANGED <<phase, left>>

\* The hello is given up on: the connection has gone before it was queued.
SkipHello(r) ==
  /\ phase[r] \in {"open", "ending", "over"} /\ ~ greeted[r]
  /\ greeted' = [greeted EXCEPT ![r] = TRUE]
  /\ UNCHANGED <<phase, lines, left>>

CutOff(r) == Move(r, {"open"}, "ending") /\ UNCHANGED <<greeted, lines, left>>

Goodbye(r, m) ==
  /\ Move(r, {"open"}, "ending")
  /\ m.kind = "bye"
  /\ lines' = [lines EXCEPT ![r] = IF Len(@) < QueueLimit THEN Append(@, m) ELSE @]
  /\ UNCHANGED <<greeted, left>>

Read(r) ==
  /\ phase[r] \in {"open", "ending"} /\ lines[r] # <<>>
  /\ left' = [left EXCEPT ![r] = @ \/ Head(lines[r]).kind = "bye"]
  /\ lines' = [lines EXCEPT ![r] = Tail(@)]
  /\ UNCHANGED <<phase, greeted>>

\* The connection ends, with whatever had not been read.
End(r) ==
  /\ Move(r, {"open", "ending"}, "over")
  /\ lines' = [lines EXCEPT ![r] = <<>>]
  /\ UNCHANGED <<greeted, left>>

Next ==
  \E r \in Readers :
    \/ Open(r) \/ TurnAway(r) \/ SkipHello(r) \/ CutOff(r) \/ Read(r) \/ End(r)
    \/ \E m \in Line : Say(r, m) \/ Goodbye(r, m)

Spec == Init /\ [][Next]_promise
=============================================================================
