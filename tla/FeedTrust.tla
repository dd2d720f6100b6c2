------------------------------ MODULE FeedTrust ------------------------------
(***************************************************************************)
(* What somebody who looks at the application may believe, and nothing of  *)
(* how: no socket, no challenge, no timer, no chunk.                       *)
(*                                                                         *)
(*   - the first publisher to prove itself is the one trusted, until the   *)
(*     key is forgotten: no other becomes live, whatever it offers;        *)
(*   - who is live does not change but by being lost first;                *)
(*   - what is on display changes when a publisher becomes live, and while *)
(*     it is by its own views only, each one later than the one before;    *)
(*   - a link that is lost leaves the last view on display.                *)
(*                                                                         *)
(* It does not promise that the view a publisher becomes live with is its  *)
(* own: see Trust.  FeedLink implements this (FeedLink!Trust).             *)
(***************************************************************************)
EXTENDS Naturals

CONSTANTS
  Peers,    \* connections to publishers
  Keys,     \* what publishers hold
  None      \* nobody, no key

VARIABLES
  pin,      \* the key that is trusted
  peer,     \* who is live
  key,      \* the key it proved to hold
  view      \* what is on display, from whom and which of its views

trust == <<pin, peer, key, view>>

NoView == [from |-> None, nth |-> 0]
View   == [from : Peers, nth : Nat]

Init == pin = None /\ peer = None /\ key = None /\ view = NoView

\* The ssh bargain.  A view that was held back comes on display with the proof,
\* and may be older than the connection that proved itself.
Trust ==
  /\ peer = None /\ peer' \in Peers
  /\ key' \in Keys /\ pin \in {None, key'} /\ pin' = key'
  /\ view' \in View \cup {view}

Show ==
  /\ peer # None
  /\ view' \in View /\ view'.from = peer
  /\ view.from = peer => view'.nth > view.nth
  /\ UNCHANGED <<pin, peer, key>>

Lose == peer # None /\ peer' = None /\ key' = None /\ UNCHANGED <<pin, view>>

\* Whoever is live stays live.
Forget == pin # None /\ pin' = None /\ UNCHANGED <<peer, key, view>>

\* Nothing but the pin outlives the application.
Relaunch == peer' = None /\ key' = None /\ view' = NoView /\ UNCHANGED pin

Next == Trust \/ Show \/ Lose \/ Forget \/ Relaunch

Spec == Init /\ [][Next]_trust
=============================================================================
