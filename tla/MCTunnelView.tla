---------------------------- MODULE MCTunnelView ----------------------------
(***************************************************************************)
(* Small instances of TunnelView and CommandLine for TLC.                  *)
(***************************************************************************)
EXTENDS CommandLine, TLC

Line(k, v) == [k |-> k, v |-> v]
Peer(key, endpoint) ==
    <<Line("section", "interface"), Line("section", "peer"), Line("PublicKey", key),
      Line("Endpoint", endpoint), Line("AllowedIPs", <<<<"10.0.0.0", FALSE>>>>)>>
Checked(key, address) == <<Line("TO_CHECK", address), Line("TO_CHECK", "")>> \o Peer(key, "e1")
Single(key, address) == Peer(key, "e2") \o <<Line("AllowedIPs", <<<<address, TRUE>>>>)>>
NoKey == <<Line("PublicKey", "k1"), Line("section", "peer")>>

Rule(n, bad) == [name |-> n, bad |-> bad, addrs |-> {"lan"}, interfaces |-> {"en0"}]
Home == {<<"en0", "lan">>}
Away == {<<"en1", "lan">>, <<"en0", "wan">>}

Row(t, g) == [tunnel |-> t, group |-> g, health |-> "down", peer |-> NoPeer]

Base == [files |-> (1 :> Checked("k1", "a1") @@ 2 :> Single("k1", "a1")),
         runDir |-> TRUE, rules |-> <<Rule("office", FALSE)>>,
         groups |-> ("all" :> <<1, 2>> @@ "needed" :> <<2, 1>> @@ "extra" :> <<>>),
         overrides |-> <<[tunnel |-> 1, when |-> ("office" :> "extra" @@ "default" :> "needed")]>>,
         hosts |-> {Home, Away}, view |-> NoView, up |-> {}, does |-> {"read"}, commands |-> {}]

Named(verb, names) == [verb |-> verb, group |-> "", names |-> names]
Group(verb, group) == [verb |-> verb, group |-> group, names |-> <<>>]

\* Two configurations share a key and are told apart by their name files.
Shared == [Base EXCEPT !.hosts = {Home}, !.does = {"read", "wg", "die"}]
\* No run directory, keys that differ, a file whose name is not usable.
ByKey == [Base EXCEPT !.runDir = FALSE, !.hosts = {Home}, !.does = {"read", "wg", "shake"},
             !.files = (1 :> Checked("k1", "a1") @@ 2 :> Single("k2", "a2") @@ 9 :> NoKey)]
\* The reads that fail, and a table without rows.
OneBad == [Base EXCEPT !.files = (1 :> Peer("k1", "e1") @@ 2 :> NoKey)]
NoFile == [Base EXCEPT !.files = <<>>]
BadRule == [Base EXCEPT !.rules = <<Rule("office", FALSE), Rule("broken", TRUE)>>]
NoName == [Base EXCEPT !.files = (9 :> NoKey), !.does = {"read", "cursor"}]
\* A tunnel without a group, one whose override says nothing of the context.
Ungrouped == [Base EXCEPT !.groups = ("all" :> <<>> @@ "needed" :> <<1>> @@ "extra" :> <<>>),
                 !.overrides = <<[tunnel |-> 1, when |-> ("office" :> "needed")]>>]
\* Rounds of probes, of two tunnels that share a check address, as they go down.
Probed == [Base EXCEPT !.hosts = {Home}, !.up = {1, 2}, !.does = {"read", "wg", "ping"}]
ProbedApart == [Probed EXCEPT !.does = {"read", "die", "ping"}, !.files = (1 :> Checked("k1", "a1") @@ 2 :> Single("k2", "a2"))]
\* The graph pane over a table already read: a tunnel restarted under it, and
\* the cursor moved between two tunnels.
Restarted == [Base EXCEPT !.hosts = {Home}, !.up = {1}, !.files = (1 :> Checked("k1", "a1")),
                 !.does = {"wg", "graph", "carry"},
                 !.view = [NoView EXCEPT !.rows = <<Row(1, "extra")>>, !.context = "office"]]
Compared == [Base EXCEPT !.hosts = {Home}, !.up = {1, 2}, !.does = {"graph", "carry", "cursor"},
                !.view = [NoView EXCEPT !.rows = <<Row(2, "needed"), Row(1, "extra")>>,
                                        !.context = "office"]]

\* Commands, on two tunnels while others change and on a group that names a
\* tunnel without a file.
Commanded == [Base EXCEPT !.hosts = {Home}, !.up = {1}, !.does = {"wg", "die"},
                 !.commands = {Named("up", <<1, 2>>), Named("up", <<2, 2>>), Named("down", <<1>>),
                               Group("up", "needed"), Group("down", "all")}]
Ghost == [Base EXCEPT !.files = (1 :> Peer("k1", "e1")), !.up = {1}, !.does = {"wg"},
             !.commands = {Named("down", <<2, 1>>), Group("up", "needed"), Group("down", "all")}]

Tables == {Commanded, Ghost, Shared, ByKey, OneBad, NoFile, BadRule, NoName, Ungrouped, Probed, ProbedApart,
           Restarted, Compared}
=============================================================================
