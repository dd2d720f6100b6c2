---------------------------- MODULE MCFeedServer ----------------------------
(***************************************************************************)
(* Small instances of FeedServer for TLC.                                  *)
(***************************************************************************)
EXTENDS FeedServer, TLC

CONSTANTS c1, c2, t1, t2, l1, l2

View(rows) == [kind |-> "state", rows |-> rows]
Round      == [kind |-> "ping", rows |-> {}]

\* The second view has lost the tunnel the first one names.
TwoViews     == <<View({t1}), View({})>>
ViewAndRound == <<View({t1}), Round>>
OneView      == <<View({t1})>>

Line(type, t) == [type |-> type, tunnel |-> t]

Watching     == {Line("watch", t1), Line("unwatch", t1)}
Pinging      == {Line("ping", t1)}
Proving      == {Line("challenge", None)}

\* A state FeedServer reaches: every client is connected, has read its hello
\* and the one view there is, and nothing is going on.  The runs with two
\* watchers start here and leave shutdown to the others.
Connected ==
  /\ live = Clients /\ view = 1 /\ issued = 1 /\ closing = FALSE
  /\ sampling = None /\ stopped = [l \in Loops |-> FALSE]
  /\ requests = <<>> /\ recent = [k \in {"refresh", "ping"} |-> FALSE]
  /\ out = [c \in Clients |-> <<>>] /\ shut = [c \in Clients |-> FALSE]
  /\ panicked = FALSE
  /\ conn = [c \in Clients |-> "open"] /\ writer = [c \in Clients |-> "on"]
  /\ heard = [c \in Clients |-> [view |-> 1, bye |-> FALSE]]
  /\ watch = [c \in Clients |-> {}] /\ asked = [c \in Clients |-> FALSE]
  /\ eof = [c \in Clients |-> FALSE] /\ offer = [c \in Clients |-> None]
  /\ pc = [p \in Procs |-> CASE p \in Clients -> "reading" [] p \in Loops -> "off"
                             [] p = Stopper -> "up" [] OTHER -> "idle"]
  /\ todo = [p \in Procs |-> {}] /\ target = [p \in Procs |-> None]
  /\ carry = [p \in Publishers |-> 0]

ConnectedSpec == Connected /\ [][Next]_vars

FairConnectedSpec == ConnectedSpec /\ Fairness

StillUp == pc[Stopper] = "up"

Symmetry == Permutations({c1, c2}) \cup Permutations({l1, l2})
=============================================================================
