----------------------------- MODULE FeedServer -----------------------------
(***************************************************************************)
(* The publisher of the status feed: internal/feed/server.go.              *)
(*                                                                         *)
(* One step is one critical section of Server.mu, or one operation on a    *)
(* channel or a connection made outside it.  A process is a goroutine:     *)
(*                                                                         *)
(*   Acceptor    Serve's accept loop, which also runs add                  *)
(*   Stopper     the goroutine of Serve that waits for the context and     *)
(*               then runs shutdown                                        *)
(*   Publishers  the commands of the interface that call Publish and       *)
(*               PublishPings, each on a goroutine of its own              *)
(*   Clients     the reader of that client's connection (Server.read)      *)
(*   Loops       the sampling loops retick starts                          *)
(*                                                                         *)
(* The writer of a client (client.write) keeps its state in "writer": it   *)
(* never takes the mutex.                                                  *)
(*                                                                         *)
(* What is abstracted: a view is its place in Script, which says what set  *)
(* of tunnels it names; the payload of a line is not kept, only its kind and, *)
(* for a state, the view it carries, so a reading has no value; a floor    *)
(* between two requests is the fact that one was made too recently; the    *)
(* line a writer has taken off its queue and not finished writing counts   *)
(* as still queued.                                                        *)
(***************************************************************************)
EXTENDS Integers, Sequences, FiniteSets

CONSTANTS
  Clients,      \* connections peers open; each is used once
  Served,       \* the ones whose peer credentials "serves" accepts
  Tunnels,      \* tunnel names a client may send
  Publishers,   \* goroutines running the interface's publish commands
  Loops,        \* identities for sampling loops; bounds how many coexist
  Acceptor, Stopper,
  None,         \* no client, no tunnel, no loop
  Script,       \* what the interface publishes, in the order it measured it:
                \* views with the tunnels they name, and rounds of probes
  MaxClients,   \* maxClients
  MaxWatch,     \* maxWatch
  SendQueue,    \* sendQueue
  Lines         \* what clients send: [type, tunnel] records

Verbs == {"watch", "unwatch", "challenge", "refresh", "ping"}
Procs == Clients \cup Publishers \cup Loops \cup {Acceptor, Stopper}

ASSUME ConstantsAssumption ==
  /\ Served \subseteq Clients
  /\ Clients \cap Publishers = {} /\ Clients \cap Loops = {}
  /\ Publishers \cap Loops = {}
  /\ Acceptor \notin Clients \cup Publishers \cup Loops
  /\ Stopper \notin Clients \cup Publishers \cup Loops \cup {Acceptor}
  /\ None \notin Procs \cup Tunnels
  /\ Script \in Seq([kind : {"state", "ping"}, rows : SUBSET Tunnels])
  /\ MaxClients \in Nat /\ MaxWatch \in Nat
  /\ SendQueue \in Nat \ {0}
  /\ Lines \subseteq [type : Verbs, tunnel : Tunnels \cup {None}]

-----------------------------------------------------------------------------
(* Messages, and what a peer has read of them.                             *)

Kinds == {"hello", "state", "ping", "sample", "auth", "refused", "bye"}

\* n is the view a state shows; for a sample, 1 once its counters are read.
Message ==
  [kind : {"state"}, tunnel : {None}, n : 1..Len(Script)] \cup
  [kind : Kinds \ {"state"}, tunnel : Tunnels \cup {None}, n : {0, 1}]
Delivery == [to : Clients, msg : Message]
Request  == [kind : {"refresh", "ping"}, tunnel : Tunnels \cup {None}]

Plain(kind)  == [kind |-> kind, tunnel |-> None, n |-> 0]
State(v)     == [kind |-> "state", tunnel |-> None, n |-> v]
Sample(t, n) == [kind |-> "sample", tunnel |-> t, n |-> n]

ToAll(cs, m) == {[to |-> c, msg |-> m] : c \in cs}

Silence == [view |-> 0, bye |-> FALSE]

\* What is kept of a connection's lines once the peer has read one more: the
\* view it shows, and whether it was told goodbye.
Hearing(h, m) ==
  [view |-> IF m.kind = "state" THEN m.n ELSE h.view, bye |-> h.bye \/ m.kind = "bye"]

-----------------------------------------------------------------------------
VARIABLES
  live,      \* Server.clients
  view,      \* Server.view; 0 while haveView is false
  closing,   \* Server.closing
  sampling,  \* Server.sampling: the loop whose stop channel is held
  stopped,   \* per loop: its stop channel is closed
  requests,  \* the channel of capacity one behind Requests()
  recent,    \* per verb: lastRefresh, lastPing within their floor
  out,       \* client.out, the queue
  shut,      \* client.out has been closed
  panicked,  \* there was a send on, or a close of, a closed channel
  conn,      \* "none" not accepted, "open", "deadline" a write deadline is
             \* set, "closed"
  writer,    \* "off" not started, "on", "gone" returned
  heard,     \* what each peer has read
  watch,     \* client.watch
  asked,     \* client.lastChallenge within challengeFloor
  eof,       \* the reader's scan has ended
  offer,     \* the request a reader is about to put on the channel
  pc,        \* where each goroutine is
  todo,      \* the sends a goroutine still has to make in this call
  target,    \* the client a goroutine is adding or dropping
  carry,     \* what a publish command was handed: its place in Script
  issued     \* how far the interface is along Script

desk    == <<live, view, closing>>
ticking == <<sampling, stopped>>
asks    == <<requests, recent>>
queue   == <<out, shut, panicked>>
wire    == <<conn, writer, heard>>
client  == <<watch, asked, eof, offer>>
procs   == <<pc, todo, target>>
world   == <<carry, issued>>
vars == <<desk, ticking, asks, queue, wire, client, procs, world>>

Init ==
  /\ live = {} /\ view = 0 /\ closing = FALSE
  /\ sampling = None /\ requests = <<>>
  /\ recent = [k \in {"refresh", "ping"} |-> FALSE]
  /\ watch = [c \in Clients |-> {}]
  /\ asked = [c \in Clients |-> FALSE]
  /\ out = [c \in Clients |-> <<>>]
  /\ shut = [c \in Clients |-> FALSE]
  /\ conn = [c \in Clients |-> "none"]
  /\ writer = [c \in Clients |-> "off"]
  /\ eof = [c \in Clients |-> FALSE]
  /\ offer = [c \in Clients |-> None]
  /\ heard = [c \in Clients |-> Silence]
  /\ stopped = [l \in Loops |-> FALSE]
  /\ pc = [p \in Procs |->
             IF p \in Clients \cup Loops THEN "off"
             ELSE IF p = Stopper THEN "up" ELSE "idle"]
  /\ todo = [p \in Procs |-> {}]
  /\ target = [p \in Procs |-> None]
  /\ carry = [p \in Publishers |-> 0]
  /\ issued = 0
  /\ panicked = FALSE

\* Server.closed: the listener is closed, and Accept fails.
Closed == pc[Stopper] = "down"
\* main has returned, and nothing of the process is left.
Exited == pc[Acceptor] = "exited"

Watched == \E c \in live : watch[c] # {}
Names(v) == IF v = 0 THEN {} ELSE Script[v].rows

\* Where a goroutine goes once a call into the server returns: on with the
\* sends it still owes, or back to its loop.
Home(p) ==
  CASE p \in Clients -> IF eof[p] THEN "gone" ELSE "reading"
    [] p \in Loops   -> "tick"
    [] OTHER         -> "idle"
Resume(p, owed) == IF owed = {} THEN Home(p) ELSE "send"

-----------------------------------------------------------------------------
(* sendTo, drop and retick, which every goroutine but the stopper calls.   *)

\* What p may send next.  add sends hello before the state; the sampler
\* sends nothing it has not read.
Ready(p) ==
  {d \in todo[p] : /\ d.msg.kind = "sample" => d.msg.n > 0
                   /\ d.msg.kind = "state" =>
                        ~ \E e \in todo[p] : e.msg.kind = "hello"}

\* sendTo for a client that is no longer in s.clients.
SendToGone(p) ==
  /\ pc[p] = "send"
  /\ \E d \in Ready(p) :
       /\ d.to \notin live
       /\ todo' = [todo EXCEPT ![p] = @ \ {d}]
       /\ pc' = [pc EXCEPT ![p] = Resume(p, todo[p] \ {d})]
  /\ UNCHANGED <<desk, ticking, asks, queue, wire, client, target, world>>

\* Mutant: the send waits for room instead of dropping the client.
Overflow_Blocks(p) == FALSE /\ UNCHANGED vars

\* sendTo with room in the queue.  A send on a closed channel panics.
Enqueue(p) ==
  /\ pc[p] = "send"
  /\ \E d \in Ready(p) :
       /\ d.to \in live
       /\ Len(out[d.to]) < SendQueue
       /\ out' = [out EXCEPT ![d.to] = Append(@, d.msg)]
       /\ panicked' = (panicked \/ shut[d.to])
       /\ todo' = [todo EXCEPT ![p] = @ \ {d}]
       /\ pc' = [pc EXCEPT ![p] = Resume(p, todo[p] \ {d})]
  /\ UNCHANGED <<desk, ticking, asks, shut, wire, client, target, world>>

\* sendTo to a queue that is full: the mutex is released before drop is called.
Overflow(p) ==
  /\ pc[p] = "send"
  /\ \E d \in Ready(p) :
       /\ d.to \in live
       /\ Len(out[d.to]) >= SendQueue
       /\ todo' = [todo EXCEPT ![p] = @ \ {d}]
       /\ target' = [target EXCEPT ![p] = d.to]
  /\ pc' = [pc EXCEPT ![p] = "drop"]
  /\ UNCHANGED <<desk, ticking, asks, queue, wire, client, world>>

\* Mutant: the check that the client is still live is lost.
DropFirst_Unchecked(p) ==
  /\ pc[p] = "drop"
  /\ live' = live \ {target[p]}
  /\ pc' = [pc EXCEPT ![p] = "close"]
  /\ UNCHANGED <<view, closing, ticking, asks, queue, wire, client, todo,
                 target, world>>

\* drop, under the mutex: whoever removes the client is the one to close it.
DropFirst(p) ==
  /\ pc[p] = "drop"
  /\ target[p] \in live
  /\ live' = live \ {target[p]}
  /\ pc' = [pc EXCEPT ![p] = "close"]
  /\ UNCHANGED <<view, closing, ticking, asks, queue, wire, client, todo,
                 target, world>>

DropAgain(p) ==
  /\ pc[p] = "drop"
  /\ target[p] \notin live
  /\ pc' = [pc EXCEPT ![p] = Resume(p, todo[p])]
  /\ target' = [target EXCEPT ![p] = None]
  /\ UNCHANGED <<desk, ticking, asks, queue, wire, client, todo, world>>

\* Mutants: the queue is left open; the retick is forgotten.
CloseClient_LeavesQueue(p) ==
  /\ pc[p] = "close"
  /\ conn' = [conn EXCEPT ![target[p]] = "closed"]
  /\ pc' = [pc EXCEPT ![p] = "retick"]
  /\ target' = [target EXCEPT ![p] = None]
  /\ UNCHANGED <<desk, ticking, asks, queue, writer, heard, client, todo, world>>
CloseClient_NoRetick(p) ==
  /\ pc[p] = "close"
  /\ shut' = [shut EXCEPT ![target[p]] = TRUE]
  /\ conn' = [conn EXCEPT ![target[p]] = "closed"]
  /\ pc' = [pc EXCEPT ![p] = Resume(p, todo[p])]
  /\ target' = [target EXCEPT ![p] = None]
  /\ UNCHANGED <<desk, ticking, asks, out, panicked, writer, heard, client, todo,
                 world>>

\* drop, outside the mutex: close(c.out), conn.Close.
CloseClient(p) ==
  /\ pc[p] = "close"
  /\ shut' = [shut EXCEPT ![target[p]] = TRUE]
  /\ panicked' = (panicked \/ shut[target[p]])
  /\ conn' = [conn EXCEPT ![target[p]] = "closed"]
  /\ pc' = [pc EXCEPT ![p] = "retick"]
  /\ target' = [target EXCEPT ![p] = None]
  /\ UNCHANGED <<desk, ticking, asks, out, writer, heard, client, todo, world>>

RetickKeeps == UNCHANGED <<desk, asks, queue, wire, client, todo, target, world>>

\* Mutant: a loop is started although one is held.
StartLoop_Again(p) ==
  /\ pc[p] = "retick" /\ Watched
  /\ \E l \in Loops :
       /\ pc[l] = "off"
       /\ sampling' = l
       /\ stopped' = [stopped EXCEPT ![l] = FALSE]
       /\ pc' = [pc EXCEPT ![p] = Resume(p, todo[p]), ![l] = "tick"]
  /\ RetickKeeps

\* retick, with a first tunnel watched.
StartLoop(p) ==
  /\ pc[p] = "retick"
  /\ Watched /\ sampling = None
  /\ \E l \in Loops :
       /\ pc[l] = "off"
       /\ sampling' = l
       /\ stopped' = [stopped EXCEPT ![l] = FALSE]
       /\ pc' = [pc EXCEPT ![p] = Resume(p, todo[p]), ![l] = "tick"]
  /\ RetickKeeps

\* retick, with the last tunnel released.
StopLoop(p) ==
  /\ pc[p] = "retick"
  /\ ~ Watched /\ sampling # None
  /\ stopped' = [stopped EXCEPT ![sampling] = TRUE]
  /\ sampling' = None
  /\ pc' = [pc EXCEPT ![p] = Resume(p, todo[p])]
  /\ RetickKeeps

KeepLoop(p) ==
  /\ pc[p] = "retick"
  /\ Watched <=> sampling # None
  /\ pc' = [pc EXCEPT ![p] = Resume(p, todo[p])]
  /\ UNCHANGED <<sampling, stopped>>
  /\ RetickKeeps

-----------------------------------------------------------------------------
(* Serve and add.                                                          *)

\* The peer is root, the owner of the socket or this process: credentials that
\* cannot be read are nobody's.
Serves(c) == c \in Served

\* A connection "serves" refuses is closed having been told nothing.
Refuse(c) ==
  /\ pc[Acceptor] = "idle" /\ ~ Closed
  /\ conn[c] = "none" /\ ~ Serves(c)
  /\ conn' = [conn EXCEPT ![c] = "closed"]
  /\ UNCHANGED <<desk, ticking, asks, queue, writer, heard, client, procs,
                 world>>

\* A publisher that is full says why before it closes.
TurnAway(c) ==
  /\ pc[Acceptor] = "idle" /\ ~ Closed
  /\ conn[c] = "none" /\ Serves(c)
  /\ Cardinality(live) >= MaxClients
  /\ conn' = [conn EXCEPT ![c] = "closed"]
  /\ heard' = [heard EXCEPT ![c] = Hearing(@, Plain("refused"))]
  /\ UNCHANGED <<desk, ticking, asks, queue, writer, client, procs, world>>

\* Mutant: one client too many.
Admit_OneMore(c) ==
  /\ pc[Acceptor] = "idle" /\ ~ Closed
  /\ conn[c] = "none" /\ Serves(c)
  /\ Cardinality(live) <= MaxClients
  /\ conn' = [conn EXCEPT ![c] = "open"]
  /\ pc' = [pc EXCEPT ![Acceptor] = "register"]
  /\ target' = [target EXCEPT ![Acceptor] = c]
  /\ UNCHANGED <<desk, ticking, asks, queue, writer, heard, client, todo, world>>

Admit(c) ==
  /\ pc[Acceptor] = "idle" /\ ~ Closed
  /\ conn[c] = "none" /\ Serves(c)
  /\ Cardinality(live) < MaxClients
  /\ conn' = [conn EXCEPT ![c] = "open"]
  /\ pc' = [pc EXCEPT ![Acceptor] = "register"]
  /\ target' = [target EXCEPT ![Acceptor] = c]
  /\ UNCHANGED <<desk, ticking, asks, queue, writer, heard, client, todo,
                 world>>

\* Mutants: no replay of the view; a replay although there is no view.
Greeting_HelloOnly(c) == ToAll({c}, Plain("hello"))
Greeting_AnyView(c)   == ToAll({c}, Plain("hello")) \cup ToAll({c}, State(view))

\* What add sends once the client is registered: the view is the one copied
\* under the mutex, not the one known when the send is made.
Greeting(c) ==
  ToAll({c}, Plain("hello")) \cup
  (IF view > 0 THEN ToAll({c}, State(view)) ELSE {})

\* Mutant: shutdown is not looked at.
Register_WhileClosing ==
  /\ pc[Acceptor] = "register"
  /\ LET c == target[Acceptor] IN
       /\ live' = live \cup {c}
       /\ writer' = [writer EXCEPT ![c] = "on"]
       /\ pc' = [pc EXCEPT ![Acceptor] = "send", ![c] = "reading"]
       /\ todo' = [todo EXCEPT ![Acceptor] = Greeting(c)]
  /\ target' = [target EXCEPT ![Acceptor] = None]
  /\ UNCHANGED <<view, closing, ticking, asks, queue, conn, heard, client, world>>

\* add, under the mutex; then the reader and the writer are started.
Register ==
  /\ pc[Acceptor] = "register"
  /\ ~ closing /\ ~ Closed
  /\ LET c == target[Acceptor] IN
       /\ live' = live \cup {c}
       /\ writer' = [writer EXCEPT ![c] = "on"]
       /\ pc' = [pc EXCEPT ![Acceptor] = "send", ![c] = "reading"]
       /\ todo' = [todo EXCEPT ![Acceptor] = Greeting(c)]
  /\ target' = [target EXCEPT ![Acceptor] = None]
  /\ UNCHANGED <<view, closing, ticking, asks, queue, conn, heard, client,
                 world>>

\* add, when shutdown got there first.
RegisterTooLate ==
  /\ pc[Acceptor] = "register"
  /\ closing \/ Closed
  /\ conn' = [conn EXCEPT ![target[Acceptor]] = "closed"]
  /\ pc' = [pc EXCEPT ![Acceptor] = "idle"]
  /\ target' = [target EXCEPT ![Acceptor] = None]
  /\ UNCHANGED <<desk, ticking, asks, queue, writer, heard, client, todo,
                 world>>

\* Accept returns an error: the listener was closed, or the accept failed.
\* Either way Serve cancels its context and waits for shutdown.
AcceptFails ==
  /\ pc[Acceptor] = "idle"
  /\ pc' = [pc EXCEPT ![Acceptor] = "waiting",
                      ![Stopper] = IF @ = "up" THEN "stopping" ELSE @]
  /\ UNCHANGED <<desk, ticking, asks, queue, wire, client, todo, target,
                 world>>

ServeReturns ==
  /\ pc[Acceptor] = "waiting" /\ pc[Stopper] = "down"
  /\ pc' = [pc EXCEPT ![Acceptor] = "returned"]
  /\ UNCHANGED <<desk, ticking, asks, queue, wire, client, todo, target,
                 world>>

\* runTUI waits for Serve and returns; the process ends with it.
Exit ==
  /\ pc[Acceptor] = "returned"
  /\ pc' = [pc EXCEPT ![Acceptor] = "exited"]
  /\ UNCHANGED <<desk, ticking, asks, queue, wire, client, todo, target,
                 world>>
-----------------------------------------------------------------------------
(* The writer of one connection.                                           *)

\* One line onto the connection.
Write(c) ==
  /\ writer[c] = "on" /\ out[c] # <<>>
  /\ conn[c] # "closed"
  /\ heard' = [heard EXCEPT ![c] = Hearing(@, Head(out[c]))]
  /\ out' = [out EXCEPT ![c] = Tail(@)]
  /\ UNCHANGED <<desk, ticking, asks, shut, panicked, conn, writer, client,
                 procs, world>>

\* Mutant: the writer carries on after a line that failed.
WriteFails_CarriesOn(c) ==
  /\ writer[c] = "on" /\ out[c] # <<>>
  /\ out' = [out EXCEPT ![c] = Tail(@)]
  /\ UNCHANGED <<desk, ticking, asks, shut, panicked, wire, client, procs, world>>

\* Encode fails: the peer has gone, the deadline has passed, or the connection
\* was closed under the writer.
WriteFails(c) ==
  /\ writer[c] = "on" /\ out[c] # <<>>
  /\ out' = [out EXCEPT ![c] = Tail(@)]
  /\ writer' = [writer EXCEPT ![c] = "gone"]
  /\ conn' = [conn EXCEPT ![c] = "closed"]
  /\ UNCHANGED <<desk, ticking, asks, shut, panicked, heard, client, procs,
                 world>>

\* The queue is closed and drained.
WriterEnds(c) ==
  /\ writer[c] = "on" /\ out[c] = <<>> /\ shut[c]
  /\ writer' = [writer EXCEPT ![c] = "gone"]
  /\ conn' = [conn EXCEPT ![c] = "closed"]
  /\ UNCHANGED <<desk, ticking, asks, queue, heard, client, procs, world>>

-----------------------------------------------------------------------------
(* The reader of one connection.  Lines already buffered are still acted on *)
(* after the connection is closed, so nothing here asks whether it is.      *)

\* The scan ends: the peer hung up, the connection was closed, or a line was
\* longer than maxLine.  The deferred drop runs next.
ScanEnds(c) ==
  /\ pc[c] = "reading"
  /\ eof' = [eof EXCEPT ![c] = TRUE]
  /\ pc' = [pc EXCEPT ![c] = "drop"]
  /\ target' = [target EXCEPT ![c] = c]
  /\ UNCHANGED <<desk, ticking, asks, queue, wire, watch, asked, offer, todo,
                 world>>

\* A name is taken on trust only while no view is known.
Known(t) == view = 0 \/ t \in Names(view)

Watch(c, t) ==
  /\ pc[c] = "reading"
  /\ [type |-> "watch", tunnel |-> t] \in Lines /\ t # None
  /\ Known(t)
  /\ Cardinality(watch[c]) < MaxWatch
  /\ watch' = [watch EXCEPT ![c] = @ \cup {t}]
  /\ pc' = [pc EXCEPT ![c] = "retick"]
  /\ UNCHANGED <<desk, ticking, asks, queue, wire, asked, eof, offer, todo,
                 target, world>>

Unwatch(c, t) ==
  /\ pc[c] = "reading"
  /\ [type |-> "unwatch", tunnel |-> t] \in Lines
  /\ watch' = [watch EXCEPT ![c] = @ \ {t}]
  /\ pc' = [pc EXCEPT ![c] = "retick"]
  /\ UNCHANGED <<desk, ticking, asks, queue, wire, asked, eof, offer, todo,
                 target, world>>

\* allowChallenge stamps under the mutex; the signature is sent after it.
Challenge(c) ==
  /\ pc[c] = "reading"
  /\ \E l \in Lines : l.type = "challenge"
  /\ ~ asked[c]
  /\ asked' = [asked EXCEPT ![c] = TRUE]
  /\ todo' = [todo EXCEPT ![c] = ToAll({c}, Plain("auth"))]
  /\ pc' = [pc EXCEPT ![c] = "send"]
  /\ UNCHANGED <<desk, ticking, asks, queue, wire, watch, eof, offer, target,
                 world>>

\* A ping for one tunnel is filtered by name, under the mutex.
Ask(c, kind, t) ==
  /\ pc[c] = "reading"
  /\ [type |-> kind, tunnel |-> t] \in Lines
  /\ kind = "ping" => t = None \/ Known(t)
  /\ offer' = [offer EXCEPT ![c] =
                 [kind |-> kind, tunnel |-> IF kind = "ping" THEN t ELSE None]]
  /\ pc' = [pc EXCEPT ![c] = "ask"]
  /\ UNCHANGED <<desk, ticking, asks, queue, wire, watch, asked, eof, todo,
                 target, world>>

\* request, under the mutex taken again: it is stamped, or comes within the
\* floor of its verb and is lost.
Stamp(c) ==
  /\ pc[c] = "ask"
  /\ LET kind == offer[c].kind IN
       IF recent[kind]
       THEN /\ pc' = [pc EXCEPT ![c] = "reading"] /\ offer' = [offer EXCEPT ![c] = None]
            /\ UNCHANGED recent
       ELSE /\ pc' = [pc EXCEPT ![c] = "offer"] /\ recent' = [recent EXCEPT ![kind] = TRUE]
            /\ UNCHANGED offer
  /\ UNCHANGED <<desk, ticking, requests, queue, wire, watch, asked, eof, todo,
                 target, world>>

\* request, outside the mutex: a send that does not block on a channel of one.
PutRequest(c) ==
  /\ pc[c] = "offer"
  /\ requests' = IF requests = <<>> THEN <<offer[c]>> ELSE requests
  /\ offer' = [offer EXCEPT ![c] = None]
  /\ pc' = [pc EXCEPT ![c] = "reading"]
  /\ UNCHANGED <<desk, ticking, recent, queue, wire, watch, asked, eof, todo,
                 target, world>>

\* Time passes: a floor is behind us.
FloorPasses(kind) ==
  /\ recent[kind]
  /\ recent' = [recent EXCEPT ![kind] = FALSE]
  /\ UNCHANGED <<desk, ticking, requests, queue, wire, client, procs, world>>

ChallengeFloorPasses(c) ==
  /\ asked[c]
  /\ asked' = [asked EXCEPT ![c] = FALSE]
  /\ UNCHANGED <<desk, ticking, asks, queue, wire, watch, eof, offer, procs,
                 world>>

-----------------------------------------------------------------------------
(* The interface, on the other side of the feed.                           *)

\* onView and onPinged each start a command that will publish what was measured.
TakeMeasure(p) ==
  /\ pc[p] = "idle" /\ issued < Len(Script)
  /\ issued' = issued + 1
  /\ carry' = [carry EXCEPT ![p] = issued + 1]
  /\ pc' = [pc EXCEPT ![p] = "publish"]
  /\ UNCHANGED <<desk, ticking, asks, queue, wire, client, todo, target>>

FanOut(p, m) ==
  /\ todo' = [todo EXCEPT ![p] = ToAll(live, m)]
  /\ pc' = [pc EXCEPT ![p] = Resume(p, ToAll(live, m))]
  /\ carry' = [carry EXCEPT ![p] = 0]

\* Publish, under the mutex; the sends come after it.
Publish(p) ==
  /\ pc[p] = "publish" /\ Script[carry[p]].kind = "state"
  /\ view' = carry[p]
  /\ FanOut(p, State(carry[p]))
  /\ UNCHANGED <<live, closing, ticking, asks, queue, wire, client, target,
                 issued>>

\* PublishPings keeps nothing for whoever connects next.
PublishPings(p) ==
  /\ pc[p] = "publish" /\ Script[carry[p]].kind = "ping"
  /\ FanOut(p, Plain("ping"))
  /\ UNCHANGED <<desk, ticking, asks, queue, wire, client, target, issued>>

\* nextRequest: the interface takes what a client asked for.
TakeRequest ==
  /\ requests # <<>>
  /\ requests' = <<>>
  /\ UNCHANGED <<desk, ticking, recent, queue, wire, client, procs, world>>

-----------------------------------------------------------------------------
(* A sampling loop.                                                        *)

\* The ticker fired.  select chooses at random when the stop channel is
\* closed as well, so a stopped loop may still take a round.  The view and the
\* watchers are read under the mutex; a tunnel the view does not name is skipped.
StartRound(l) ==
  /\ pc[l] = "tick"
  /\ LET round == {[to |-> c, msg |-> Sample(t, 0)] :
                     c \in live, t \in Names(view)}
         due == {d \in round : d.msg.tunnel \in watch[d.to]} IN
       /\ due # {}
       /\ todo' = [todo EXCEPT ![l] = due]
  /\ pc' = [pc EXCEPT ![l] = "send"]
  /\ UNCHANGED <<desk, ticking, asks, queue, wire, client, target, world>>

\* One reading of one tunnel, for all of its watchers.
ReadCounters(l, t) ==
  /\ pc[l] = "send" /\ Ready(l) = {}
  /\ LET due == {d \in todo[l] : d.msg.tunnel = t} IN
       /\ due # {}
       /\ todo' = [todo EXCEPT ![l] =
            (@ \ due) \cup {[to |-> d.to, msg |-> Sample(t, 1)] : d \in due}]
  /\ UNCHANGED <<desk, ticking, asks, queue, wire, client, pc, target, world>>

\* A tunnel that is down has no counters.
NoCounters(l, t) ==
  /\ pc[l] = "send" /\ Ready(l) = {}
  /\ LET rest == {d \in todo[l] : d.msg.tunnel # t} IN
       /\ rest # todo[l]
       /\ todo' = [todo EXCEPT ![l] = rest]
       /\ pc' = [pc EXCEPT ![l] = Resume(l, rest)]
  /\ UNCHANGED <<desk, ticking, asks, queue, wire, client, target, world>>

\* Mutant: the loop waits for the server to stop, not to be told so itself.
LoopEnds_WithServer(l) ==
  /\ pc[l] = "tick" /\ stopped[l] /\ closing
  /\ pc' = [pc EXCEPT ![l] = "off"]
  /\ UNCHANGED <<desk, ticking, asks, queue, wire, client, todo, target, world>>

\* The loop's own channel is closed.
LoopEnds(l) ==
  /\ pc[l] = "tick" /\ stopped[l]
  /\ pc' = [pc EXCEPT ![l] = "off"]
  /\ UNCHANGED <<desk, ticking, asks, queue, wire, client, todo, target,
                 world>>

-----------------------------------------------------------------------------
(* shutdown and Close.                                                     *)

\* The context Serve was given is cancelled.
Cancel ==
  /\ pc[Stopper] = "up"
  /\ pc' = [pc EXCEPT ![Stopper] = "stopping"]
  /\ UNCHANGED <<desk, ticking, asks, queue, wire, client, todo, target,
                 world>>

\* Mutant: the clients stay on the server while they are told goodbye.
TakeAll_KeepsClients ==
  /\ pc[Stopper] = "stopping"
  /\ closing' = TRUE
  /\ todo' = [todo EXCEPT ![Stopper] = ToAll(live, Plain("bye"))]
  /\ pc' = [pc EXCEPT ![Stopper] = "farewell"]
  /\ UNCHANGED <<live, view, ticking, asks, queue, wire, client, target, world>>

\* shutdown, first critical section: every client is taken off the server.
TakeAll ==
  /\ pc[Stopper] = "stopping"
  /\ closing' = TRUE
  /\ todo' = [todo EXCEPT ![Stopper] = ToAll(live, Plain("bye"))]
  /\ live' = {}
  /\ pc' = [pc EXCEPT ![Stopper] = "farewell"]
  /\ UNCHANGED <<view, ticking, asks, queue, wire, client, target, world>>

\* Mutant: bye waits for room in the queue.
Farewell_Waits ==
  /\ pc[Stopper] = "farewell"
  /\ \E d \in todo[Stopper] :
       /\ Len(out[d.to]) < SendQueue
       /\ out' = [out EXCEPT ![d.to] = Append(@, d.msg)]
       /\ panicked' = (panicked \/ shut[d.to])
       /\ shut' = [shut EXCEPT ![d.to] = TRUE]
       /\ conn' = [conn EXCEPT ![d.to] = IF @ = "closed" THEN @ ELSE "deadline"]
       /\ todo' = [todo EXCEPT ![Stopper] = @ \ {d}]
  /\ UNCHANGED <<desk, ticking, asks, writer, heard, client, pc, target, world>>

\* bye if there is room, then close(c.out) and the write deadline.
Farewell ==
  /\ pc[Stopper] = "farewell"
  /\ \E d \in todo[Stopper] :
       /\ out' = [out EXCEPT ![d.to] =
                    IF Len(@) < SendQueue THEN Append(@, d.msg) ELSE @]
       /\ panicked' = (panicked \/ shut[d.to])
       /\ shut' = [shut EXCEPT ![d.to] = TRUE]
       /\ conn' = [conn EXCEPT ![d.to] = IF @ = "closed" THEN @ ELSE "deadline"]
       /\ todo' = [todo EXCEPT ![Stopper] = @ \ {d}]
  /\ UNCHANGED <<desk, ticking, asks, writer, heard, client, pc, target,
                 world>>

\* shutdown, second critical section.
HushSampling ==
  /\ pc[Stopper] = "farewell" /\ todo[Stopper] = {}
  /\ stopped' = [l \in Loops |-> stopped[l] \/ l = sampling]
  /\ sampling' = None
  /\ pc' = [pc EXCEPT ![Stopper] = "unlink"]
  /\ UNCHANGED <<desk, asks, queue, wire, client, todo, target, world>>

\* Close: the listener goes, and Accept with it.
Close ==
  /\ pc[Stopper] = "unlink"
  /\ pc' = [pc EXCEPT ![Stopper] = "down"]
  /\ UNCHANGED <<desk, ticking, asks, queue, wire, client, todo, target,
                 world>>

-----------------------------------------------------------------------------
(* The specification.                                                      *)

\* What a goroutine does inside sendTo, drop and retick.
Call(p) ==
  \/ SendToGone(p) \/ Enqueue(p) \/ Overflow(p)
  \/ DropFirst(p) \/ DropAgain(p) \/ CloseClient(p)
  \/ StartLoop(p) \/ StopLoop(p) \/ KeepLoop(p)

Accepting ==
  \/ \E c \in Clients : Refuse(c) \/ TurnAway(c) \/ Admit(c)
  \/ Register \/ RegisterTooLate \/ AcceptFails \/ ServeReturns

Writing(c) == Write(c) \/ WriteFails(c) \/ WriterEnds(c)

Reading(c) ==
  \/ ScanEnds(c) \/ Stamp(c) \/ PutRequest(c) \/ Challenge(c)
  \/ \E t \in Tunnels : Watch(c, t)
  \/ \E t \in Tunnels : Unwatch(c, t)
  \/ \E kind \in {"refresh", "ping"}, t \in Tunnels \cup {None} : Ask(c, kind, t)

Floors ==
  \/ \E kind \in {"refresh", "ping"} : FloorPasses(kind)
  \/ \E c \in Clients : ChallengeFloorPasses(c)

Interface ==
  \/ \E p \in Publishers : TakeMeasure(p) \/ Publish(p) \/ PublishPings(p)
  \/ TakeRequest

Looping(l) ==
  \/ StartRound(l) \/ LoopEnds(l)
  \/ \E t \in Tunnels : ReadCounters(l, t) \/ NoCounters(l, t)

Stopping == Cancel \/ TakeAll \/ Farewell \/ HushSampling \/ Close

Running ==
  \/ \E p \in Procs : Call(p)
  \/ Accepting
  \/ \E c \in Clients : Writing(c) \/ Reading(c)
  \/ Floors
  \/ Interface
  \/ \E l \in Loops : Looping(l)
  \/ Stopping
  \/ Exit

Ended == Exited /\ UNCHANGED vars

Next == (~ Exited /\ Running) \/ Ended

Spec == Init /\ [][Next]_vars

\* Every goroutine that can run does.  Nobody is bound to connect, to send a
\* line, or to read one: a writer moves for certain only once its connection
\* is closed or has a deadline.  A reader whose connection is closed ends its
\* scan, once the few lines still buffered are behind it; a select with both
\* channels ready takes the stop channel sooner or later.
Fairness ==
  /\ \A p \in Procs : WF_vars(~ Exited /\ Call(p))
  /\ WF_vars(~ Exited /\ (Register \/ RegisterTooLate \/ ServeReturns))
  /\ WF_vars(~ Exited /\ Closed /\ AcceptFails)
  /\ \A c \in Clients : WF_vars(~ Exited /\ conn[c] # "open" /\ Writing(c))
  /\ \A c \in Clients : SF_vars(~ Exited /\ conn[c] = "closed" /\ ScanEnds(c))
  /\ \A c \in Clients : WF_vars(~ Exited /\ (Stamp(c) \/ PutRequest(c)))
  /\ \A p \in Publishers : WF_vars(~ Exited /\ (Publish(p) \/ PublishPings(p)))
  /\ \A l \in Loops :
       WF_vars(~ Exited /\ \E t \in Tunnels : ReadCounters(l, t) \/ NoCounters(l, t))
  /\ \A l \in Loops : SF_vars(~ Exited /\ LoopEnds(l))
  /\ WF_vars(~ Exited /\ (TakeAll \/ Farewell \/ HushSampling \/ Close))

FairSpec == Spec /\ Fairness
-----------------------------------------------------------------------------
(* Properties.                                                             *)

ConnStates   == {"none", "open", "deadline", "closed"}
WriterStates == {"off", "on", "gone"}
PcStates ==
  {"off", "idle", "register", "send", "drop", "close", "retick", "reading",
   "ask", "offer", "gone", "publish", "tick", "waiting", "returned", "up", "stopping",
   "farewell", "unlink", "down", "exited"}

\* The shape of the state: Server and client (server.go:128-180, 451-459).
TypeOK ==
  /\ live \in SUBSET Clients
  /\ view \in 0..Len(Script) /\ issued \in 0..Len(Script)
  /\ closing \in BOOLEAN /\ panicked \in BOOLEAN
  /\ sampling \in Loops \cup {None}
  /\ requests \in Seq(Request)
  /\ recent \in [{"refresh", "ping"} -> BOOLEAN]
  /\ watch \in [Clients -> SUBSET Tunnels]
  /\ asked \in [Clients -> BOOLEAN]
  /\ out \in [Clients -> Seq(Message)]
  /\ shut \in [Clients -> BOOLEAN]
  /\ conn \in [Clients -> ConnStates]
  /\ writer \in [Clients -> WriterStates]
  /\ eof \in [Clients -> BOOLEAN]
  /\ offer \in [Clients -> Request \cup {None}]
  /\ heard \in [Clients -> [view : 0..Len(Script), bye : BOOLEAN]]
  /\ stopped \in [Loops -> BOOLEAN]
  /\ pc \in [Procs -> PcStates]
  /\ todo \in [Procs -> SUBSET Delivery]
  /\ target \in [Procs -> Clients \cup {None}]
  /\ carry \in [Publishers -> 0..Len(Script)]

\* No goroutine ever sends on, or closes, a queue that is already closed: the
\* comment on sendTo (server.go:855-857), relied on by drop and by shutdown,
\* which both close outside the mutex.  A panic here takes the program down.
NeverPanics == ~ panicked

\* p is in the part of drop that closes c's queue; the stopper still owes c its
\* goodbye, and will close the queue behind it.
Closes(p, c) == pc[p] = "close" /\ target[p] = c
Owed(c)      == \E d \in todo[Stopper] : d.to = c

\* A client taken off the server is closed by exactly one goroutine: either its
\* queue is closed already, or one goroutine is about to close it.  Without it
\* a writer would wait on its queue for ever (drop 876-889, shutdown 892-915).
OneCloser ==
  \A c \in Clients :
    (writer[c] # "off" /\ c \notin live /\ ~ shut[c]) =>
      \/ Owed(c) /\ \A p \in Procs : ~ Closes(p, c)
      \/ ~ Owed(c) /\ \E p \in Procs :
           Closes(p, c) /\ \A q \in Procs : Closes(q, c) => q = p

\* Nothing is ever queued behind bye, and nothing is read after it: bye is the
\* last line (message.go:84-88, shutdown 902-909) although any number of
\* goroutines may be in the middle of a fan-out when shutdown runs.
ByeIsLast ==
  \A c \in Clients :
    /\ \A i \in 1..Len(out[c]) : out[c][i].kind = "bye" => i = Len(out[c])
    /\ heard[c].bye => out[c] = <<>>

\* Some goroutine is between changing who watches and the retick that follows.
RetickPending == \E p \in Procs : pc[p] \in {"close", "retick"}

\* A sampling loop is held exactly while something is watched, but for the
\* gap between a change and its retick and the gap inside shutdown, and it is
\* the only one not told to stop: two would read every watched tunnel twice a
\* second (server.go:768-809; "the ticker runs only while something is watched").
SamplingFollowsWatches ==
  /\ ((sampling # None) <=> Watched) \/ RetickPending \/ pc[Stopper] = "farewell"
  /\ sampling # None => pc[sampling] # "off" /\ ~ stopped[sampling]
  /\ \A l \in Loops : pc[l] # "off" /\ l # sampling => stopped[l]

\* A client has a seat only if one was free and only while the server is up,
\* although full(), the look at closing and the registration are critical
\* sections of their own: once shutdown is past its second one nobody is
\* connected and no loop is left running, whatever readers and publishers were
\* doing meanwhile (add 540-569, full 218-222, shutdown 892-925).
SeatsAreKept ==
  /\ Cardinality(live) <= MaxClients
  /\ pc[Stopper] \in {"unlink", "down"} =>
       live = {} /\ sampling = None /\ \A l \in Loops : pc[l] # "off" => stopped[l]

\* No goroutine is in the middle of a call into the server.
Quiet == \A p \in Procs : pc[p] \notin {"register", "publish", "drop"} /\ todo[p] = {}

\* A client that has read everything it was sent is showing some view as soon
\* as the server has one: "whoever connects between two refreshes must not sit
\* blank until the next one" (server.go:579-583).
NobodyIsBlank ==
  Quiet /\ view > 0 =>
    \A c \in live : out[c] = <<>> /\ writer[c] = "on" => heard[c].view > 0

-----------------------------------------------------------------------------
(* What a peer is promised, and how the server keeps it.                    *)

Phase(c) ==
  CASE writer[c] = "off"  -> IF conn[c] = "closed" THEN "over" ELSE "absent"
    [] writer[c] = "gone" -> "over"
    [] OTHER              -> IF c \in live \/ Owed(c) THEN "open" ELSE "ending"

HelloOwed(c) == \E d \in todo[Acceptor] : d.to = c /\ d.msg.kind = "hello"

Stream == INSTANCE FeedStream WITH
  Readers <- Clients, Line <- Message, QueueLimit <- SendQueue,
  phase   <- [c \in Clients |-> Phase(c)],
  greeted <- [c \in Clients |-> writer[c] # "off" /\ ~ HelloOwed(c)],
  lines   <- [c \in Clients |-> IF writer[c] = "on" THEN out[c] ELSE <<>>],
  left    <- [c \in Clients |-> heard[c].bye]

\* Every connection is an ordered stream that loses nothing but its end, with
\* bye last (FeedStream): whatever the other connections, the publish commands,
\* the samplers and shutdown do meanwhile.
KeepsPromise == Stream!Spec

-----------------------------------------------------------------------------
(* Liveness, under Fairness.                                               *)

\* A fan-out ends although no peer ever reads: "the publisher must never block
\* on a client" (the design, "a slow client is dropped, not buffered").
PublishReturns ==
  \A p \in Publishers : pc[p] \in {"publish", "send"} ~> Exited \/ pc[p] = "idle"

\* Serve returns once its context is cancelled, although no peer ever reads.
ServeStops == pc[Stopper] = "stopping" ~> pc[Acceptor] = "returned"

\* A connection that is closed takes its reader and its writer with it
\* (server.go:35-36: a client costs a goroutine and a descriptor each), and a
\* sampling loop told to stop returns, with its ticker and whichever loop came
\* after it competing with it (sampleLoop 797-809).
NothingLeaks ==
  /\ \A c \in Clients :
       conn[c] = "closed" ~> Exited \/ (pc[c] \in {"off", "gone"} /\ writer[c] # "on")
  /\ \A l \in Loops : stopped[l] ~> Exited \/ ~ stopped[l] \/ pc[l] = "off"
=============================================================================
