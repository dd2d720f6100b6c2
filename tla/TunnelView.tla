----------------------------- MODULE TunnelView -----------------------------
(***************************************************************************)
(* From the files and sockets of the machine to the table: how one read of *)
(* the system makes rows, which groups they are in, what a round of probes *)
(* says of them, and the readings the graph pane takes once a second.      *)
(*                                                                         *)
(* A read is many system calls with wg-quick free to run between any two,  *)
(* so it is a process here.  wg-quick, wireguard-go and the network are    *)
(* the environment.  What a behaviour starts from - the .conf files, the   *)
(* configuration, what happens in it - is its setup, one of Setups.        *)
(***************************************************************************)
EXTENDS Integers, FiniteSets, SequencesExt

CONSTANTS
    N,              \* 1..N are the usable tunnel names, in order
    D,              \* 1..D are the interfaces, utun1, utun2...
    Setups,         \* what a behaviour starts from, see SetupAssumption
    MaxChains,      \* bound: chains of readings alive at once
    MaxTime,        \* bound: seconds that pass
    MaxBytes        \* bound: bytes a tunnel carries in all

Tunnels == 1..N
Devices == 1..D

IsSequence(s) == s \in Seq(Range(s))
TunnelNames == Nat \ {0}     \* those of no file included

\* files: the lines of each *.conf (a name outside 1..N is not a usable one).
\* rules, groups, overrides: the user's configuration; hosts: the addresses
\* the host may have, sets of <<interface, address>>; up: the tunnels that are,
\* each from its file and on the interface of its number.
ASSUME SetupAssumption ==
    /\ N \in Nat \ {0} /\ D \in Nat \ {0} /\ MaxTime \in Nat /\ MaxBytes \in Nat
    /\ \A s \in Setups :
          /\ {"files", "runDir", "rules", "groups", "overrides", "hosts", "view", "up",
                  "does"}
                 \subseteq DOMAIN s
          /\ \A f \in DOMAIN s.files : IsSequence(s.files[f])
          /\ IsFiniteSet(DOMAIN s.groups)
          /\ \A g \in DOMAIN s.groups : s.groups[g] \in Seq(TunnelNames)
          /\ IsSequence(s.overrides) /\ \A o \in Range(s.overrides) : o.tunnel \in TunnelNames
          /\ IsSequence(s.view.rows)
          /\ s.up \subseteq Tunnels \cap Devices \cap DOMAIN s.files

VARIABLES
    setup,          \* the one this behaviour started from
    carries,        \* what is behind each socket: a tunnel, 0 no socket, -1 nobody
    fresh,          \* the interface shook hands in the last three minutes
    name,           \* <tunnel>.name: the interface wg-quick recorded, 0 no file
    host,           \* the addresses the host has
    read,           \* the read of the system under way
    view,           \* Model.view
    cursor,         \* Model.cursor
    round,          \* the round of probes out: whom it was asked for, the hosts the live ones had
    pings,          \* the round last published, and who is in it
    showGraph,      \* Model.showGraph
    chain,          \* the sample and sampleTick commands out
    series,         \* Model.series: the last reading of each tunnel, the last point
    clock,          \* seconds
    rx,             \* the counter of each interface
    carried         \* history: bytes each tunnel ever carried

machine == <<carries, fresh, name, host>>
probing == <<round, pings>>
graph == <<showGraph, chain, series>>
traffic == <<clock, rx, carried>>
vars == <<setup, machine, read, view, cursor, probing, graph, traffic>>

\* The elements of a sequence that are in a set, in their order.
Only(s, set) ==
    LET first[n \in 0..Len(s)] ==
            IF n = 0 THEN <<>>
            ELSE IF s[n] \in set THEN Append(first[n - 1], s[n]) ELSE first[n - 1]
    IN  first[Len(s)]

-----------------------------------------------------------------------------
\* Configuration files.  A line is a section, a key with its value, or the
\* comment that names the address to check; the lines skipped are left out.

Blank == [section |-> "", seenPeer |-> FALSE, key |-> "", endpoint |-> "",
          allowed |-> <<>>, check |-> ""]

ParseLine(tun, line) ==
    CASE line.k = "TO_CHECK" /\ line.v # "" -> [tun EXCEPT !.check = line.v]
      [] line.k = "section" ->
            [tun EXCEPT !.section = line.v, !.seenPeer = @ \/ line.v = "peer"]
      [] line.k = "PublicKey" /\ tun.section = "peer" /\ tun.key = "" ->
            [tun EXCEPT !.key = line.v]
      [] line.k = "Endpoint" /\ tun.section = "peer" -> [tun EXCEPT !.endpoint = line.v]
      [] line.k = "AllowedIPs" /\ tun.section = "peer" ->
            [tun EXCEPT !.allowed = @ \o line.v]
      [] OTHER -> tun

\* A prefix is <<address, whether it holds that address alone>>.
InferCheckIP(tun) ==
    LET hosts == {i \in DOMAIN tun.allowed : tun.allowed[i][2]}
    IN  IF hosts # {} THEN tun.allowed[Min(hosts)][1] ELSE tun.endpoint

Parse(lines) ==
    LET after[n \in 0..Len(lines)] == IF n = 0 THEN Blank ELSE ParseLine(after[n - 1], lines[n])
        tun == after[Len(lines)]
    IN  [tun EXCEPT !.check = IF @ = "" THEN InferCheckIP(tun) ELSE @]

Parses(lines) == LET tun == Parse(lines) IN tun.seenPeer /\ tun.key # ""

ValidName(f) == f \in Tunnels

\* Mutant: a file whose name is not usable is parsed like any other.
LoadFails_ParsesAll(files) ==
    DOMAIN files = {} \/ \E f \in DOMAIN files : ~Parses(files[f])

\* LoadDir: no file at all is an error, and so is one that does not parse; a
\* file whose name is not usable is neither parsed nor listed, but noted.
LoadFails(files) ==
    DOMAIN files = {} \/ \E f \in DOMAIN files : ValidName(f) /\ ~Parses(files[f])

Loaded == Only([t \in Tunnels |-> t], DOMAIN setup.files)
Ignored == {f \in DOMAIN setup.files : ~ValidName(f)}
Conf(t) == Parse(setup.files[t])

-----------------------------------------------------------------------------
\* The user's configuration.

\* Detect: the first rule an interface of the host matches, "default" when none
\* does.  A rule with a bad CIDR fails the detection once it is reached.
Matches(rule) ==
    \E a \in host : a[2] \in rule.addrs /\ (rule.interfaces = {} \/ a[1] \in rule.interfaces)
Stops == {i \in DOMAIN setup.rules : setup.rules[i].bad \/ Matches(setup.rules[i])}
Detected ==
    IF Stops = {} THEN "default"
    ELSE LET first == setup.rules[Min(Stops)] IN IF first.bad THEN "failed" ELSE first.name

Overriding(t) == {i \in DOMAIN setup.overrides : setup.overrides[i].tunnel = t}

\* GroupOf: what the first override of the tunnel says of the context, or of the
\* default one; otherwise a group that lists it, whichever comes first in a map.
GroupsOf(t, context) ==
    IF Overriding(t) # {}
    THEN LET when == setup.overrides[Min(Overriding(t))].when
         IN  {CASE context \in DOMAIN when -> when[context]
                [] context \notin DOMAIN when /\ "default" \in DOMAIN when -> when["default"]
                [] OTHER -> ""}
    ELSE LET in == {g \in DOMAIN setup.groups \ {"all"} : Contains(setup.groups[g], t)}
         IN  IF in = {} THEN {""} ELSE in

Listing(group) == IF group \in DOMAIN setup.groups THEN setup.groups[group] ELSE <<>>

MovedIn(group, context) ==
    LET moved == [i \in DOMAIN setup.overrides |-> setup.overrides[i].tunnel]
    IN  Only(moved, {t \in Range(moved) : group \in GroupsOf(t, context)})

\* Mutant: an overridden tunnel also stays in the group that lists it.
Members_KeepsTheMoved(group, context) ==
    Listing(group) \o MovedIn(group, context)

\* Members: the tunnels listed and not overridden, then those an override moves
\* in.
Members(group, context) ==
    IF group = "all" THEN Listing(group)
    ELSE Only(Listing(group), {t \in Range(Listing(group)) : Overriding(t) = {}})
            \o MovedIn(group, context)

Rank(group) == CASE group = "needed" -> 0 [] group = "extra" -> 1 [] OTHER -> 2

-----------------------------------------------------------------------------
\* Live peers.  A peer is found by the interface the name file gives or, when
\* there is no run directory, by its key; owner is whose peer it really is.

NoPeer == [device |-> 0, key |-> "", owner |-> 0, fresh |-> FALSE]
PeerOf(d) ==
    [device |-> d, key |-> Conf(carries[d]).key, owner |-> carries[d], fresh |-> fresh[d]]

First(state, these) == IF these = {} THEN NoPeer ELSE state[Min(these)]

ByDevice(state, d) == First(state, {i \in DOMAIN state : state[i].device = d})
ByPublicKey(state, key) == First(state, {i \in DOMAIN state : state[i].key = key})

\* Mutant: no name file is taken for a locator that cannot answer.
Resolve_FallsBack(state, t) ==
    IF name[t] # 0 THEN ByDevice(state, name[t]) ELSE ByPublicKey(state, Conf(t).key)

Resolve(state, t) ==
    IF ~setup.runDir THEN ByPublicKey(state, Conf(t).key)
    ELSE IF name[t] = 0 THEN NoPeer
    ELSE ByDevice(state, name[t])

Health(peer) == IF peer = NoPeer THEN "down" ELSE IF peer.fresh THEN "up" ELSE "stale"
Live(v) == {v.rows[i].tunnel : i \in {j \in DOMAIN v.rows : v.rows[j].health # "down"}}
Listed(v) == {v.rows[i].tunnel : i \in DOMAIN v.rows}
CheckIPs(v) == {Conf(t).check : t \in Live(v)} \ {""}

\* A table that a read of these files and of this configuration made.
Made(v) ==
    \A i \in DOMAIN v.rows :
        v.rows[i].tunnel \in Range(Loaded) /\ v.rows[i].group \in GroupsOf(v.rows[i].tunnel, v.context)

NoView == [rows |-> <<>>, context |-> "", ignored |-> {}]
NoRead == [at |-> "idle", left |-> {}, state |-> <<>>, context |-> "", rows |-> <<>>, moved |-> FALSE,
           refused |-> FALSE]
NoRound == [asked |-> {}, hosts |-> {}]
NoChain == [at |-> "off", tunnel |-> 0, reading |-> <<>>, due |-> 0]

Does(what) == what \in setup.does

Init ==
    /\ setup \in Setups
    /\ carries = [d \in Devices |-> IF d \in setup.up THEN d ELSE 0]
    /\ fresh = [d \in Devices |-> FALSE]
    /\ name = [t \in Tunnels |-> IF t \in setup.up THEN t ELSE 0] /\ host \in setup.hosts
    /\ read = NoRead /\ view = setup.view /\ Made(view) /\ cursor = 0
    /\ round = NoRound /\ pings = [asked |-> {}, hosts |-> {}, made |-> {}]
    /\ showGraph = FALSE /\ chain = [c \in 1..MaxChains |-> NoChain]
    /\ series = [t \in Tunnels |-> [last |-> <<>>, points |-> <<>>]]
    /\ clock = 0 /\ rx = [d \in Devices |-> 0] /\ carried = [t \in Tunnels |-> 0]

-----------------------------------------------------------------------------
\* The machine.

\* A read under way is told apart from one nothing moved under.
Moves == read' = [read EXCEPT !.moved = read.at # "idle"]
Elsewhere == UNCHANGED <<setup, view, cursor, probing, graph>>

\* wg-quick up: an interface of its own, without a socket or with one left
\* behind; wireguard-go binds it and the name file is written.
BringUp(t) ==
    /\ \A d \in Devices : carries[d] # t
    /\ \E d \in Devices :
          /\ carries[d] <= 0
          /\ carries' = [carries EXCEPT ![d] = t] /\ name' = [name EXCEPT ![t] = d]
          /\ fresh' = [fresh EXCEPT ![d] = FALSE] /\ rx' = [rx EXCEPT ![d] = 0]
    /\ UNCHANGED <<host, clock, carried>>

BringDown(t) ==
    /\ name[t] # 0 /\ carries[name[t]] = t
    /\ carries' = [carries EXCEPT ![name[t]] = 0] /\ name' = [name EXCEPT ![t] = 0]
    /\ UNCHANGED <<fresh, host, traffic>>

WgUp(t) == Does("wg") /\ t \in Range(Loaded) /\ BringUp(t) /\ Moves /\ Elsewhere
WgDown(t) == Does("wg") /\ BringDown(t) /\ Moves /\ Elsewhere

\* wireguard-go is gone without wg-quick: the name file stays, and the socket
\* stays or does not.
Die(d) ==
    /\ Does("die") /\ carries[d] > 0
    /\ \E left \in {0, -1} : carries' = [carries EXCEPT ![d] = left]
    /\ Moves /\ UNCHANGED <<fresh, name, host, traffic>> /\ Elsewhere

Handshake(d) ==
    /\ Does("shake") /\ carries[d] > 0
    /\ fresh' = [fresh EXCEPT ![d] = ~@]
    /\ Moves /\ UNCHANGED <<carries, name, host, traffic>> /\ Elsewhere

ChangeNetwork ==
    /\ host' \in setup.hosts \ {host}
    /\ Moves /\ UNCHANGED <<carries, fresh, name, traffic>> /\ Elsewhere

Carry(d) ==
    /\ Does("carry") /\ carries[d] > 0 /\ carried[carries[d]] < MaxBytes
    /\ rx' = [rx EXCEPT ![d] = @ + 1] /\ carried' = [carried EXCEPT ![carries[d]] = @ + 1]
    /\ UNCHANGED <<machine, read, clock>> /\ Elsewhere

-----------------------------------------------------------------------------
\* App.View, one system call or a few at a time.

Reads == UNCHANGED <<setup, machine, view, cursor, probing, graph, traffic>>

BeginRead ==
    /\ read.at = "idle"
    /\ read' = [NoRead EXCEPT !.at = IF LoadFails(setup.files) THEN "failed" ELSE "listing"]
    /\ Reads

StartRead == Does("read") /\ BeginRead

\* Devices: the directory is listed; no directory is no device.
ListDevices ==
    /\ read.at = "listing"
    /\ read' = [read EXCEPT !.at = "reading", !.left = {d \in Devices : carries[d] # 0}]
    /\ Reads

\* One exchange with the next socket.  One that nobody answers fails the read,
\* and so does one that refuses: no permission, an answer that takes too long or
\* cannot be read.  One that went between the listing and the look at its file is
\* skipped.
ReadDevice ==
    /\ read.at = "reading" /\ read.left # {}
    /\ LET d == Min(read.left)
           Goes(state) == read' = [read EXCEPT !.left = @ \ {d}, !.state = state]
       IN  \/ carries[d] > 0 /\ Goes(Append(read.state, PeerOf(d)))
           \/ carries[d] = 0 /\ Goes(read.state)
           \/ read' = [read EXCEPT !.at = "failed", !.refused = carries[d] > 0]
    /\ Reads

DetectNetwork ==
    /\ read.at = "reading" /\ read.left = {}
    /\ IF Detected = "failed" THEN read' = [read EXCEPT !.at = "failed"]
       ELSE read' = [read EXCEPT !.at = "locating", !.context = Detected]
    /\ Reads

\* The name file of the next tunnel is read, and its row made.
Locate ==
    /\ read.at = "locating" /\ Len(read.rows) < Len(Loaded)
    /\ LET t == Loaded[Len(read.rows) + 1]
           peer == Resolve(read.state, t)
       IN  \E g \in GroupsOf(t, read.context) :
              read' = [read EXCEPT !.rows = Append(@,
                  [tunnel |-> t, group |-> g, health |-> Health(peer), peer |-> peer])]
    /\ Reads

Before(a, b) ==
    \/ Rank(a.group) < Rank(b.group)
    \/ Rank(a.group) = Rank(b.group) /\ a.tunnel < b.tunnel

SortRows ==
    /\ read.at = "locating" /\ Len(read.rows) = Len(Loaded)
    /\ \E order \in Bijection(DOMAIN read.rows, DOMAIN read.rows) :
          LET sorted == [i \in DOMAIN read.rows |-> read.rows[order[i]]]
          IN  /\ \A i, j \in DOMAIN sorted : i < j => ~Before(sorted[j], sorted[i])
              /\ read' = [read EXCEPT !.at = "done", !.rows = sorted]
    /\ Reads

\* onView: a failed read leaves the table as it is.
OnView ==
    /\ Does("read") /\ read.at \in {"done", "failed"} /\ read' = NoRead
    /\ view' = IF read.at = "failed" THEN view
               ELSE [rows |-> read.rows, context |-> read.context, ignored |-> Ignored]
    /\ cursor' = IF cursor >= Len(view'.rows) /\ read.at = "done" THEN Max({0, Len(view'.rows) - 1})
                 ELSE cursor
    /\ UNCHANGED <<setup, machine, probing, graph, traffic>>

-----------------------------------------------------------------------------
\* Probes.  A round is asked for what the live tunnels check, or for what one
\* tunnel of the table does when that is among it: a tunnel that is down is asked
\* for too when a live one has its address.  The results are by address, and
\* become pings of whatever rows there are when the round is over.  A round that
\* measures nothing is not published, and left out.

\* Mutant: a tunnel asked for by its name is read straight off its row.
AskPings_OffTheRow ==
    /\ Does("ping") /\ round = NoRound
    /\ \E who \in {Live(view)} \cup {{t} : t \in Listed(view)} :
          /\ round' = [asked |-> {t \in who : Conf(t).check # ""}, hosts |-> CheckIPs(view)]
          /\ round'.asked # {}
    /\ UNCHANGED <<setup, machine, read, view, cursor, pings, graph, traffic>>

AskPings ==
    /\ Does("ping") /\ round = NoRound
    /\ \E who \in {Live(view)} \cup {{t} : t \in Listed(view)} :
          /\ round' = [asked |-> {t \in who : Conf(t).check \in CheckIPs(view)}, hosts |-> CheckIPs(view)]
          /\ round'.asked # {}
    /\ UNCHANGED <<setup, machine, read, view, cursor, pings, graph, traffic>>

\* Mutant: the pings are those of the rows that are live by now.
PingsOf_Live(v, addresses) == {t \in Live(v) : Conf(t).check \in addresses}

PingsOf(v, addresses) == {t \in Listed(v) : Conf(t).check \in addresses}

OnPing ==
    /\ round # NoRound /\ round' = NoRound
    /\ pings' = [asked |-> round.asked, hosts |-> round.hosts,
                 made |-> PingsOf(view, {Conf(t).check : t \in round.asked})]
    /\ UNCHANGED <<setup, machine, read, view, cursor, graph, traffic>>

-----------------------------------------------------------------------------
\* The cursor and the graph pane.

Idles == UNCHANGED <<setup, machine, read, view, probing, traffic>>

\* current: the tunnel under the cursor, 0 when there is none.
Current == IF cursor \in 0..(Len(view.rows) - 1) THEN view.rows[cursor + 1].tunnel ELSE 0

KeyUp ==
    /\ Does("cursor") /\ cursor' = Max({0, cursor - 1})
    /\ Idles /\ UNCHANGED graph

\* Mutant: one row too far.
KeyDown_PastTheEnd ==
    /\ Does("cursor") /\ cursor' = Min({Len(view.rows), cursor + 1})
    /\ Idles /\ UNCHANGED graph

KeyDown ==
    /\ Does("cursor") /\ cursor' = Min({Len(view.rows) - 1, cursor + 1})
    /\ Idles /\ UNCHANGED graph

Asked == [NoChain EXCEPT !.at = "asked", !.tunnel = Current]
NoSeries == [last |-> <<>>, points |-> <<>>]

\* g: opening asks for a reading; closing forgets the history, and leaves
\* whatever was asked for to come back to nobody.
KeyGraph ==
    /\ Does("graph") /\ showGraph' = ~showGraph
    /\ IF showGraph
       THEN series' = [t \in Tunnels |-> NoSeries] /\ UNCHANGED chain
       ELSE /\ \E c \in DOMAIN chain :
                  /\ chain[c].at = "off" /\ \A e \in 1..(c - 1) : chain[e].at # "off"
                  /\ chain' = [chain EXCEPT ![c] = Asked]
            /\ UNCHANGED series
    /\ Idles /\ UNCHANGED cursor

\* App.Sample, in one step here: the whole state, and the tunnel's peer in it.
\* A read that fails and a tunnel that is down are no reading.
Sample(c) ==
    /\ chain[c].at = "asked"
    /\ LET t == chain[c].tunnel
           on == Only([d \in Devices |-> d], {d \in Devices : carries[d] > 0})
           peer == IF t = 0 \/ -1 \in Range(carries) THEN NoPeer
                   ELSE Resolve([i \in DOMAIN on |-> PeerOf(on[i])], t)
       IN  chain' = [chain EXCEPT ![c] = [@ EXCEPT !.at = "read", !.reading =
               IF peer = NoPeer THEN <<>>
               ELSE <<[at |-> clock, rx |-> rx[peer.device], own |-> peer.owner = t,
                       carried |-> carried]>>]]
    /\ Idles /\ UNCHANGED <<cursor, showGraph, series>>

\* Mutant: a counter that went backwards is compared all the same.
PerSecond_Distance(t, prev, next) ==
    [bytes |-> IF next.rx < prev.rx THEN prev.rx - next.rx ELSE next.rx - prev.rx,
     seconds |-> next.at - prev.at, own |-> prev.own /\ next.own,
     earned |-> next.carried[t] - prev.carried[t]]

\* The rate between two readings; a counter that went backwards is idle.
PerSecond(t, prev, next) ==
    [bytes |-> Max({0, next.rx - prev.rx}),
     seconds |-> next.at - prev.at, own |-> prev.own /\ next.own,
     earned |-> next.carried[t] - prev.carried[t]]

\* Series.Add: the last reading is replaced, whatever it was; a point is made
\* when there was one before it and time passed.  One point is kept here.
Add(t, s, next) ==
    [last |-> <<next>>,
     points |-> IF s.last = <<>> \/ next.at <= s.last[1].at THEN s.points
                ELSE <<PerSecond(t, s.last[1], next)>>]

\* Mutant: a tunnel without counters is not looked at again.
OnSample_GivesUp(c) ==
    /\ chain[c].at = "read"
    /\ LET t == chain[c].tunnel
       IN  IF ~showGraph \/ chain[c].reading = <<>>
           THEN chain' = [chain EXCEPT ![c] = NoChain] /\ UNCHANGED series
           ELSE /\ chain' = [chain EXCEPT ![c] = [NoChain EXCEPT !.at = "ticking", !.due = clock + 1]]
                /\ series' = [series EXCEPT ![t] = Add(t, @, chain[c].reading[1])]
    /\ Idles /\ UNCHANGED <<cursor, showGraph>>

\* onSample: recorded under the tunnel it was asked for, and the next one asked
\* for a second later, reading or not; nothing at all when the pane is closed.
OnSample(c) ==
    /\ chain[c].at = "read"
    /\ LET t == chain[c].tunnel
       IN  IF ~showGraph
           THEN chain' = [chain EXCEPT ![c] = NoChain] /\ UNCHANGED series
           ELSE /\ chain' = [chain EXCEPT ![c] = [NoChain EXCEPT !.at = "ticking", !.due = clock + 1]]
                /\ series' = IF chain[c].reading = <<>> THEN series
                             ELSE [series EXCEPT ![t] = Add(t, @, chain[c].reading[1])]
    /\ Idles /\ UNCHANGED <<cursor, showGraph>>

\* sampleTickMsg
SampleTick(c) ==
    /\ chain[c].at = "ticking" /\ clock >= chain[c].due
    /\ chain' = [chain EXCEPT ![c] = IF showGraph THEN Asked ELSE NoChain]
    /\ Idles /\ UNCHANGED <<cursor, showGraph, series>>

\* A second passes.
Second ==
    /\ Does("graph") /\ clock < MaxTime /\ clock' = clock + 1
    /\ UNCHANGED <<setup, machine, read, view, cursor, probing, graph, rx, carried>>

Next ==
    \/ \E t \in Tunnels : WgUp(t) \/ WgDown(t)
    \/ \E d \in Devices : Die(d) \/ Handshake(d) \/ Carry(d)
    \/ ChangeNetwork \/ Second
    \/ StartRead \/ ListDevices \/ ReadDevice \/ DetectNetwork \/ Locate \/ SortRows \/ OnView
    \/ AskPings \/ OnPing
    \/ KeyUp \/ KeyDown \/ KeyGraph
    \/ \E c \in 1..MaxChains : Sample(c) \/ OnSample(c) \/ SampleTick(c)

Spec == Init /\ [][Next]_vars

-----------------------------------------------------------------------------
(***************************************************************************)
(* Properties.                                                             *)
(***************************************************************************)

\* The cursor is on a row, or at -1: where "down" on an empty table leaves it,
\* and where it stays when rows arrive (update.go:237, 127-130).
TypeOK ==
    /\ setup \in Setups /\ host \in setup.hosts
    /\ carries \in [Devices -> {-1, 0} \cup Tunnels] /\ name \in [Tunnels -> {0} \cup Devices]
    /\ fresh \in [Devices -> BOOLEAN] /\ showGraph \in BOOLEAN
    /\ read.at \in {"idle", "listing", "reading", "locating", "done", "failed"}
    /\ cursor \in -1..Max({0, Len(view.rows) - 1})
    /\ round.asked \subseteq Tunnels /\ pings.made \subseteq Tunnels
    /\ \A c \in DOMAIN chain : chain[c].at \in {"off", "asked", "read", "ticking"}
    /\ clock \in 0..MaxTime /\ \A t \in Tunnels : carried[t] \in 0..MaxBytes

\* The machine as a read should show it.
Up(t) == \E d \in Devices : carries[d] = t
Truth(t) == IF ~Up(t) THEN "down"
            ELSE IF fresh[CHOOSE d \in Devices : carries[d] = t] THEN "up" ELSE "stale"

\* Nothing in the way of telling tunnels apart: every name file is of a live
\* interface, or names are not used and no two tunnels have the same key.
TellsApart ==
    IF setup.runDir THEN \A t \in Tunnels : name[t] # 0 => carries[name[t]] = t
    ELSE \A t, u \in Range(Loaded) : Conf(t).key = Conf(u).key => t = u

\* What makes a read fail that nothing moved under.
Broken ==
    \/ DOMAIN setup.files = {} \/ \E t \in Tunnels \cap DOMAIN setup.files : Conf(t).key = ""
    \/ Detected = "failed" \/ -1 \in Range(carries)

\* A read nothing moved under fails for a file that does not parse, a bad rule
\* or a socket that refuses or that nobody answers, and for nothing else: an
\* unusable file name costs nobody their row.  Otherwise it has every tunnel once,
\* each as the machine has it and with its own peer, as long as tunnels can be
\* told apart - which is what the name file is for when two share a key
\* (app.go:127-162, state.go:116-132, parse.go:219-252, uapi.go:60-85).
ReadIsTheMachine ==
    /\ read.at = "failed" /\ ~read.moved => Broken \/ read.refused
    /\ read.at = "done" =>
          /\ ~read.moved => ~Broken
          /\ Len(read.rows) = Cardinality({f \in DOMAIN setup.files : ValidName(f)})
          /\ ~read.moved /\ TellsApart =>
                \A i \in DOMAIN read.rows :
                    LET row == read.rows[i]
                    IN  /\ row.health = Truth(row.tunnel)
                        /\ row.peer.owner \in {0, row.tunnel}

\* What the GRP column says and what the n key and "up needed" start is the same
\* set, in the context the read found, overrides and all (profile.go:336-384,
\* model.go:305-310).  A tunnel listed twice is in whichever group a map gives
\* first, so the configuration must not do that; no name at all is no group.
GroupsAreMembers ==
    (\A t \in Range(Loaded) : Cardinality(GroupsOf(t, view.context)) = 1) =>
        \A g \in DOMAIN setup.groups \ {"all", ""} :
            {view.rows[i].tunnel : i \in {j \in DOMAIN view.rows : view.rows[j].group = g}}
                = Range(Members(g, view.context)) \cap Listed(view)

\* A round of probes answers for every tunnel it was asked for, even one that
\* went down before the answer, and for none whose address no live tunnel had
\* when it was asked: an address is only probed for somebody who was up
\* (model.go:206-218, app.go:70-83).  Tunnels that share an address are answered
\* for together, up or down, which model.go:203-205 and wire.go:99-103 deny;
\* where no two share one, the answer is for those asked for and for nobody else.
PingsAreExcused ==
    /\ pings.asked \subseteq pings.made
    /\ \A t \in pings.made : Conf(t).check \in pings.hosts
    /\ (\A t, u \in Range(Loaded) : t # u => Conf(t).check # Conf(u).check) =>
           pings.made = pings.asked

\* While the pane is open somebody is going to read the counters, whatever was
\* closed, reopened or down before (update.go:50-55, 156-166, 255-264).
GraphIsFed == showGraph => \E c \in DOMAIN chain : chain[c].at # "off"

\* No point of the graph shows more than the tunnel carried between its two
\* readings: not when the tunnel was restarted in between, not when the cursor
\* moved, not when two chains of readings overlap (rate.go:42-68,
\* update.go:156-181, model.go:276-291).
RateIsEarned ==
    \A t \in Tunnels : \A i \in DOMAIN series[t].points :
        LET p == series[t].points[i] IN p.own => p.bytes <= p.earned /\ p.seconds > 0
=============================================================================
