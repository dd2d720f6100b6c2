# tun-manager: a TLA+ model

`tun-manager` brings WireGuard tunnels up and down from a terminal interface
that runs as root. While that interface is open it publishes what it sees on a
unix socket, the *status feed*, and a macOS menu bar application reads it. This
directory models the program in TLA+, checks the model with TLC on small
instances, and proves what matters most with TLAPS for every instance.

## The system

| component | where | state it keeps | operations |
|---|---|---|---|
| feed server | `internal/feed/server.go`, `message.go`, `peer.go` | clients with their queues and watch sets, the last view, the closing flags, the sampling loop, the request slot and the stamps behind the floors | `Serve`/`add`, `Publish`, `PublishPings`, `read`/`onMessage`, `write`, `sendTo`, `drop`, `retick`, `sampleLoop`, `shutdown`, `Close` |
| feed socket | `server.go` (`Listen`, `clearStaleSocket`, `bindPrivately`, `Close`, `ours`), `internal/fsx` | the file at the socket's path and which process it belongs to | bind, clear a stale one, remove on the way out |
| feed key and challenge | `internal/feed/key.go`, `sign.go`; `internal/cli/feedkey.go` | the publisher's signing key | sign a nonce, make and rotate a key |
| terminal interface | `internal/tui` | the table and the cursor, tunnels in flight, refreshing and pinging flags, the graph pane and its series | keys, refresh, probe, batches, publishing views and pings, requests from the feed, readings once a second |
| batches | `internal/app/batch.go` | none of its own | plan up, down and toggle; run `wg-quick` on several tunnels at once and report each |
| view and tunnel state | `internal/app/app.go`, `internal/wg` | none | read interfaces, sockets and name files, resolve peers, make rows, health, counters |
| network context and probes | `internal/netctx`, `internal/probe` | none | match the host's addresses against rules; a round of probes |
| traffic rates | `internal/rate` | the last reading and a ring of points for each tunnel | add a reading, start again when a counter goes backwards |
| configuration parsing | `internal/wgconf`, `internal/profile` | none | parse a `.conf` and a directory of them; groups, overrides, members |
| configuration files | `internal/profile`, `internal/cli/{init,import,feedkey,backup}.go` | `config.yaml`, the privileged `tun-manager.yaml`, the `.conf` files and the copies beside them | import, rotate the feed's key, init, backup |
| privilege dropping | `internal/privdrop`, `internal/fsx` | none | write a user's file as that user, move it into place |
| command line | `main.go`, `internal/cli` | none | `up`, `down` with an interrupt and an exit code; `status`, `doctor`; start and end of the interface |
| application link | `macos/Sources/TunManagerFeed/{Link,Transport,Storage}`, `FeedSupervisor.swift` | where the connection is, the pinned keys, the pending challenge, the retry delay | connect, hello, challenge and proof, pin, forget, retry |
| application presentation | `macos/Sources/TunManagerFeed/Presentation`, `TunManagerMenuBar` | what the menu and the window show | render |

### How they interact

* The interface runs every refresh, probe and publish as a command on a
  goroutine of its own and is told the result by a message. `onView` starts a
  command that calls `Server.Publish`; `onPinged` one that calls
  `Server.PublishPings`. Two such commands may overtake one another.
* What clients ask for (`refresh`, `ping`) reaches the interface through a channel
  of capacity one, which a command of the interface reads (`nextRequest`).
* A connection has a reader and a writer goroutine. The writer only drains a
  queue. Everything else (fan-outs, sampling rounds, challenges, greetings) puts
  lines on that queue under the server's mutex and drops the client when the
  queue is full.
* A sampling loop exists while somebody watches a tunnel.
* `runTUI` cancels a context and waits for `Serve`; `Serve` waits for `shutdown`,
  which says goodbye to everybody and removes the socket.
* The application decodes lines into events for a state machine; what that
  machine answers (connect, send, retry later, notify) is performed by a supervisor.
* `up` and `down` are programs of their own: they read the machine as the
  interface does, plan, and run their steps in order, next to an interface that
  may be doing the same. `wg-quick` is shared by all.
* Configuration files are written by commands that may be interrupted, and read
  by the next run of the program. There is no lock between two commands.

### What is hard about it

| behaviour | where | what correctness means |
|---|---|---|
| readers, fan-outs, samplers and shutdown drop the same clients | `sendTo`, `drop`, `shutdown` | one closer per client, no operation on a closed queue, `bye` last |
| the list of clients is copied under the mutex, the sends come later | `Publish`, `sampleOnce`, `add` | order of `hello`, `state`, `bye`; no client blank or stale |
| `full` and the registration are two critical sections | `add` | bounds hold |
| watches change in one critical section, the loop in another | `onMessage`, `drop`, `retick` | one loop exactly while something is watched, stopped loops end |
| peers that never read | `write`, `sendTo` | publishing and shutting down never wait for them |
| two processes share one path | `Listen`, `Close` | neither removes the other's socket |
| answers, tails of old connections, timers and user actions in any order | `LinkMachine`, `FeedSupervisor` | the link is the connection being read, a publisher is live once proven, the link comes back |
| batches, refreshes, probes and publications on goroutines of their own | `tui/update.go` | the table settles on the machine and the feed on the table; no tunnel is left spinning, no flag stuck, whatever comes back first |
| a read of the system is dozens of system calls, and `wg-quick` runs meanwhile | `app.go`, `wg/state.go`, `wg/uapi.go` | every tunnel has one row with its own peer, also when two share a key; a file or a socket out of order costs as little as it may |
| readings once a second of counters that restart, for a cursor that moves | `tui/model.go`, `rate.go` | no rate that was not carried; the pane never starves |
| a batch or a command with a step that fails, or an interrupt | `results.go`, `main.go` | exit 0 means done |
| a crash between two system calls, two commands at once | `profile`, `cli/init.go`, `import.go`, `feedkey.go` | the user's configuration is old or new, never cut; the key clients have pinned is in some file |

## Modules

| module | what it is |
|---|---|
| `FeedServer` | the server from `Serve` to `shutdown`: one step is one critical section of `Server.mu`, or one operation on a channel or a connection outside it |
| `FeedStream` | what one connection is promised, with no server in it: ordered, bounded, at most one `hello`, `bye` last, ended connections stay ended |
| `FeedSocket` | several processes binding, clearing and removing the file at one path: one step is one system call |
| `FeedTrust` | what somebody who looks at the application may believe, with no socket, challenge or timer in it: the ssh bargain and what is on display |
| `FeedLink` | the application's state machine with the supervisor that carries out its actions, against a publisher that may say anything: one step is one event of the main actor |
| `Tui` | the interface's flags, the commands that are out and the batches: one step is one message handled by `Update`, or one thing a goroutine does |
| `TunnelView` | from files, sockets and addresses to rows, groups, probes and graph points: one step is one system call of a read, or one change of the machine |
| `CommandLine` | `up` and `down` on top of `TunnelView`: one step is one result of the plan, a start or an end of `wg-quick`, or the interrupt |
| `ConfigStore` | the commands that write the configuration: one step is one system call, after which the command may never go on |
| `MCFeedServer`, `MCFeedSocket`, `MCFeedLink`, `MCTui`, `MCTunnelView`, `MCConfigStore` | small instances |
| `FeedServer_proofs`, `FeedSeats_proofs`, `FeedStream_proofs`, `FeedSocket_proofs`, `FeedLink_proofs`, `Tui_proofs`, `ConfigStore_proofs`, `TunnelView_proofs` | theorems |

`FeedStream` is the meeting point: `FeedServer` implements it towards a client.
`FeedLink` assumes less of its publisher than `FeedStream` promises, since
whoever listens on a socket may be something else; it implements `FeedTrust` towards
whoever looks at it. `Tui` and `FeedServer` meet at
two calls: what `Tui` puts in `publishing` is what a publish command of `FeedServer`
hands over, and the request slot of the one is the channel of the other. Each of
the two leaves the other free to do anything at that point. `Tui` and
`TunnelView` divide the interface: the first has its concurrency and takes a read as
one step, the second has the read call by call and one reader at a time.
`CommandLine` is composed with `TunnelView` in one state space.

### How FeedServer corresponds to the code

Goroutines are processes with a place (`pc`), the sends they still have to make
(`todo`) and the client they are working on (`target`). `Acceptor` is `Serve` and
`add`; `Stopper` is the goroutine that waits for the context and runs `shutdown`;
each of `Publishers` runs a publish command at a time; each of `Clients` is the
reader of that connection, whose writer is `writer[c]`; each of `Loops` is a
sampling loop. `SendToGone`, `Enqueue` and `Overflow` are the three ways through
`sendTo`; `DropFirst`, `DropAgain` and `CloseClient` are `drop`, split where the
mutex is released; `StartLoop`, `StopLoop` and `KeepLoop` are `retick`.

State is named after the fields: `live` is `clients`, `view` is `view` and
`haveView` in one, `out` and `shut` are a client's queue and whether it has been
closed, `recent` and `asked` say that a floor still holds.

Abstractions, all of them in the data:

* A view is its place in `Script`, the sequence of measurements the interface will
  publish, each with the set of tunnels it names. Lines keep their kind, their
  tunnel and, for a state, its view. Readings, signatures and results of probes
  carry no value.
* A floor of two seconds is a flag that is set by the verb and cleared by time.
  `Ask` looks the tunnel up and `Stamp` looks at the floor, each holding the mutex on
  its own.
* The line a writer is in the middle of counts as queued, so a queue of
  `SendQueue` here is one of `SendQueue - 1` in the code once its writer is busy.
* A write that fails may do so at any time: the peer went, the connection was
  closed under the writer, or the deadline passed.
* A reader may still act on lines that were buffered when the connection closed.
* The peer's credentials are a set, `Served`. `Listen` and the file are not here.

### How FeedSocket corresponds to the code

Each process is somewhere in `Listen` (`look`, `unlink`, `bind`, `hand over`,
`record`), listening, or in `abandon` or `Close`; every place is a system call
that may succeed, fail, or never happen because the process was killed. A file is
the process that bound it (its inode), or a foreign file. `bound` is the
listener a process holds, `recorded` the file it remembers for `ours`.

`chmod` and `chown` are one step, `HandOver`: nothing looks between them.
Checking the key and the directory comes before anything is touched and is part
of `Start`. Inode numbers are not used again. `disturbed` (two processes were
between their first and last call at once, or a call that looks failed), `taker`
(who bound last) and `excused` (who was killed, or refused the removal) are
history: no action reads them.

### How FeedLink corresponds to the code

Everything runs on the main actor, so a step is an event with every action the
machine answers it with (`LinkMachine.handle`, then `FeedSupervisor.perform`). A
chunk is dispatched line by line with nothing in between, and `chunk` holds the
lines left: every other step waits for it to be empty. `current` is the
connection whose number is `generation`; `phase[c]` is how far the task that reads
`c` has got, so that a task nobody serves any more can still be there
(`ConnectIsLate`, `Abandoned`). `retry` and `proof` are the two timers. `store` is
the keychain's entry.

* A view is the connection it came from and its place there; a signature is its
  key and whether it answers this connection's challenge. Numbers of connections
  are used again once nothing refers to them.
* What was said and not read is not kept: `Read` picks any chunk that could have
  been said. An answer to a challenge is fresh only after the challenge.
* A delay is its number of doublings, capped as `ReconnectPolicy` caps it.
* `greeted`, `arrived`, `signed`, `trusted`, `failed` are history.
* The keychain does what it is told: a refused write would make the next launch
  pin afresh.

### How Tui corresponds to the code

Each key, message and command of `Update` is an action named after it (`Tick`,
`OnView`, `OnPing`, `OnRequest`, `OnEvent`, `OnBatchDone`, `KeyRefresh`,
`KeyStopStart` and so on). `batch[b]` is a goroutine of `RunBatch` with its channel:
`steps` what it was given, `launched` and `over` how far `wg-quick` is, `events` what
the interface has not taken from the channel. `read[r]` is a refresh command that
is out; `timer`, `beating`, `listening` say that the tick, the heartbeat and
`nextRequest` are out, which is what a Bubble Tea program may forget to ask for
again. `inFlight`, `batches`, `refreshing`, `pinging` are the model's fields.

* A view is the set of tunnels with a row and the set of those that are not
  down; a read takes it in one step (`ReadSystem`).
* The plan of the enter key takes any subset of rows as the checked ones.
* `wg-quick` brings its tunnel to where it was asked, or fails and leaves it where it was.
  `Finish` is its end and the event that goes into the channel: nobody but `Update`
  reads the channel, and it may do so at any later time, so an event sent later is
  one that is read later. What is lost is that two finished events may change
  places on their way; they are about different tunnels, and `onEvent` looks at no other.
* The context of a batch is never cancelled by the interface (`update.go:316`).
* `doubted` is history: it marks the cases in which the table may be behind.

### How TunnelView and CommandLine correspond to the code

`read` is one call of `App.View`: list the devices, ask each socket in turn,
detect the network, locate each tunnel, sort. Between two steps anything may
happen to the machine, and `moved` remembers that it did. What a behaviour starts
from - files, rules, groups, overrides, whether there is a run directory, which
things happen - is its `setup`. Lines of a `.conf` keep their key and a value that
is a name; an AllowedIPs entry says whether it is one host. `GroupsOf` is a set
because a map's order decides between two groups that list a tunnel.

* `AskPings` follows `pingTargets`: a tunnel asked for by name is probed when its
  address is one of the live tunnels', which a down one that shares it passes too.
  `PingsOf` is the join of results and tunnels on the check address, as on the wire.
* A socket that is there may refuse or time out (`refused`). `uapi.go` is the reader of
  `--wg-socket`; without it wgctrl speaks the same protocol to the same sockets
  (`main.go:478-491`), and is taken to answer as `uapi.go` does.
* A chain of readings is the sample command, then the tick, then the next.
  `Sample` reads one tunnel in one step. Of the ring of points the last is kept,
  with what it was made of; `carried` is what the tunnel really carried.
* In `CommandLine` one command runs at a time, in the place of the interface's read;
  everything else that changes the machine stands for the interface, for other
  commands and for people. `Skip` and `RefuseToRun` are the outcomes of a probe and
  of the checks of the binary, and may happen at any step.

### How ConfigStore corresponds to the code

Each of `Processes` runs `import`, `feed-key --rotate`, `init-privileged` (with or
without `--force`) or `backup`, and `Stop` ends one anywhere. `CreateConf`/`WriteConf`,
`CopyConfig`/`SaveConfig`, `ReadConfig`/`ReplaceConfig`, `CopyPriv`/`SaveCopy`,
`ReadPriv`/`ReplacePriv`, `CreatePriv`/`WritePriv` are the pairs of calls between
which something may come. `SaveConfig`, `ReplaceConfig` and `ReplacePriv` are the move
of a temporary file, which `CreateTemp` and `FillTemp` create and write before it,
each a step a command may be stopped at. A file is absent, cut short or whole.
`Edit` is the user with an editor.

* The code does not `fsync`: a crash here is one of the program, not of the machine.
* A temporary file that a stopped command leaves is dropped: its name is drawn at
  random and nothing reads it.
* `Gather` lists what backup archives in one step, and `AddConfs` reads the `.conf`
  files in one; the two other files are read each in its own.
* Owners, modes and directories are left out: a command refused before it writes
  is no step.
* `lastKey`, `buried`, `overlapped` and `alone` are history.

## Runs

| run | shows | instance |
|---|---|---|
| `feed_fanout` | `TypeOK`, `NeverPanics`, `ByeIsLast`, `NobodyIsBlank`, `SeatsAreKept` | 2 clients for one seat and one that is refused, queue of 1, one view, pings, shutdown |
| `feed_promise` | `KeepsPromise`: the server implements `FeedStream` | 1 client, queue of 2, a view, a ping round, challenges |
| `feed_sampling` | `SamplingFollowsWatches` | 2 connected clients that watch and unwatch, 2 loops |
| `feed_liveness` | `PublishReturns`, `ServeStops`, `NothingLeaks` | 1 connected client that watches, two views, 1 loop |
| `socket_path` | `TypeOK`, `NothingLeftBehind`, `TakerIsReachable` | 2 processes, 3 binds |
| `link_safety` | `TypeOK`, `OneLink`, `TimersFitTheState`, `OneKeyUntilForgotten`, `WatchesAgree`, `ShowsTheLatest`, `LadderClimbs`, `KeepsTrust`: the link implements `FeedTrust` | 3 connections, 2 keys, 1 tunnel, 2 views, chunks of 2 lines, 1 doubling |
| `link_comes_back` | `WaitsEnd` | 3 connections, 1 key, 1 view, chunks of 1 line |
| `tui_work` | `TypeOK`, `NothingLeftSpinning`, `KeepsMoving`, `AtMostTwoReads`, `RightUnlessDoubted` | 2 tunnels, 2 batches, 3 reads, keys n, s and r |
| `tui_settles` | `TableCatchesUp`, `WorkEnds` | 1 tunnel that others also change, reads that fail, a feed with refresh and ping requests |
| `tui_overlap` | `OneRunPerTunnel` is violated | 2 tunnels, 2 batches, the enter key |
| `view` | `TypeOK`, `ReadIsTheMachine`, `GroupsAreMembers`, `PingsAreExcused`, `GraphIsFed`, `RateIsEarned`, `SuccessIsTrue` | 2 tunnels, 2 interfaces, 13 setups, 2 chains of readings, 2 seconds |
| `store` | `TypeOK`, `ListedIsWritten`, `ReportsAreTrue`, `KeysAreKept` | 2 processes, 2 tunnels, 5 commands, 1 edit by hand |

Why these bounds. A race on a client needs two goroutines at most to drop it and
one to shut down, all present with two clients and one publish command; two
clients for one seat also race for it. A queue of one line makes every second
send overflow; the run of the promise takes two, so that a line can wait behind
another. Two loops are what a stopped one and its successor need. `ConnectedSpec`
starts the sampling and the liveness runs from a state in which the clients are
connected and idle, which the other runs reach. `feed_fanout` asks for pings and
watches nothing, so the part of `SeatsAreKept` about loops is idle there, and
`feed_sampling` keeps to the time before shutdown (`StillUp`): that a shutdown leaves
no loop that was not told to stop, and no watch, is proved (`NoSeatIsOverbooked`,
`OneLoopWhileWatched`), and `feed_liveness` runs a loop into a shutdown, of which it
asks that both end. Three binds are one process
twice, or an interloper between two. Three connections are the one being served,
one whose task is late and one whose view is still shown; two keys are the
publisher's and another; two lines in a chunk put one behind a goodbye, a refused
hello or a proof.

Two batches are what overlap takes, on two tunnels so that one can be in one batch
and not in the other; a third read is more than `AtMostTwoReads` allows. Liveness
of the interface is checked with one of each, everything else free. The setups of
`view` are one for each thing that goes wrong with a table: two tunnels that share
a key, no run directory, an unusable name, a bad rule, no file, a file that does
not parse, a tunnel in no group, two that share a check address, two that do not and are
probed one by one, a restart under
the graph, a cursor that moves between two graphs, commands while others change
the machine, and a group that names a tunnel without a file. Five commands are
enough for a key to be made, stopped in the middle of being replaced, replaced
again and copied over, with one command beside them.

Interchangeable clients, connections, processes and loops use symmetry; the
temporal properties of the liveness runs are checked without it. `KeysAreKept` and
`KeepsTrust` only speak of steps and no renaming changes them, so symmetry is sound
for `store` and `link_safety`. `store`
may stop (`CHECK_DEADLOCK FALSE`): once the bounded commands have run nothing is
left to do. Every other instance is checked for deadlock.

### Where the code and its documents disagree

One run ends in a counterexample on purpose. `tui_overlap`: "Two wg-quick runs on
the same tunnel is the one overlap that is never wanted" (`update.go:321`), yet a
tunnel becomes busy when its started event is handled (`update.go:141`), not when
its batch is launched (327), so a second key press before that event starts a
second run.

Seen while modelling, and not the subject of a run. On the feed:

* "helloMsg is the first line on every connection" (`message.go:41`): the client is
  registered first, so a fan-out or the goodbye can be queued ahead (`server.go:569`).
* A state goes out "on connect right after `hello` if a view is already known, and
  then on every refresh" (the design): the view replayed on connect was copied
  earlier and may follow a newer one (`server.go:570`).
* `ours` is there "so Close never takes a second tun-manager's socket with it"
  (`server.go:431`): the comparison and the removal are two calls, and a process
  can bind in between.
* "asking for a fresh view must not silence a ping" (`server.go:87`): both use one
  slot, and a ping behind a waiting refresh is dropped although its floor let it pass.
* The caller waits for `Serve` "so the caller can wait for the goodbye"
  (`main.go:722`): `Serve` waits for the bye to be queued, not written.
* `Request.Tunnel` is a tunnel of the view (`server.go:104`): before any view is
  known any name is passed on (685).

In the application:

* "Nothing it says is shown from here: what arrives before the answer arrived from
  something that has not said who it is" (`LinkState.swift:30`): a view held while
  proving outlives its connection and is shown under the proof of the next one.
* "Reset by an accepted hello and by nothing else" (`LinkMachine.swift:28`): a
  retry by hand of a refused publisher resets the counter too (282).
* "Forget the key ..., and connect again" (`FeedSupervisor.swift:71`): a panel
  answered once the link is live again forgets the key and connects to nothing,
  so the next connection pins whatever it is offered (`ForgetOnly`).
* "so a name reused later cannot inherit" a latency (`LinkMachine.swift:215`): a
  round of probes that arrives after the tunnel has left is kept until the next
  view, which may bring the name back.

In the interface and the view:

* A batch that ends under a read leaves the table to that read, which may be older
  than the end of the batch (`update.go:185`); the next tick repairs it.
* The read of `Init` is started without its flag (`model.go:164`), so a second can
  be out with it.
* Closing and reopening the pane within a second leaves two chains of readings
  (`model.go:268`); neither shows a rate that was not carried.
* "down" on an empty table leaves the cursor at -1, also once rows arrive.
* A tunnel that is down "covers nothing" when a client asks for its ping
  (`model.go:203-205`), and "only tunnels that were actually probed appear"
  (`wire.go:99`, also `app.go:70`): a down tunnel is probed when a live one has its
  check address (`model.go:215`), and whoever shares that address is given the answer.
* `GroupOf` may say "all" through an override, and takes the first group in a map's
  order when two list a tunnel (`profile.go:333`), so the table may disagree with
  `up <group>`.
* "Only the first peer matters" (`parse.go:172`): a second peer's Endpoint and
  AllowedIPs are taken as well.
* A stale name file shows another tunnel's peer; a socket nobody answers fails the
  whole refresh.

In the commands:

* The steps of a group are to go on without a tunnel that has no file
  (`batch.go:79`): `UpGroup` refuses the group (`app.go:177`), as the manual says.
* An interrupt is to stop "between two tunnels" (`main.go:393`): it also ends the
  `wg-quick` that runs, and fails the steps that are left.
* Two imports at once lose a name, two rotations a key: files are read and replaced
  without a lock.
* An import stopped while it writes its `.conf` leaves a file no view can parse,
  and the same import again is refused because the file is there.
* An init that was stopped leaves an unfinished privileged file; `init --force`
  after it moves that file over the copy of the key (`buried`).

### Fairness

`FeedServer`'s `Fairness` asks that a goroutine which can run does, which is what
Go's scheduler gives: inside `sendTo`, `drop` and `retick` (weakly, they only wait
for the mutex), between calls, and in `shutdown`. It does not ask that anybody
connects, sends a line, reads one, or that a floor passes. A writer has to move
only once its connection is closed or has its write deadline. Two places need
strong fairness: the reader of a closed connection has a finite number of
buffered lines before its scan ends, and a `select` between a closed stop channel
and a ticker picks at random.

`FeedLink`'s asks that the main actor works through its chunk, that the retry
timer fires, that a connect is answered (a connect to a unix socket does not
wait) and that a dropped connection's task ends. The deadline of a proof is
strongly fair: a publisher that never stops talking keeps the main actor busy
again and again, never for good, and a due timer queues like everybody else.
Nothing is asked of the publisher or the user.

`Tui`'s asks that commands run, each on a goroutine of its own, that the event loop
takes the messages they come back with, that the tick fires and that a `wg-quick`
run ends. Reading the system is strongly fair: one read may fail, all of them for
ever would leave any table behind. Nobody has to press a key or ask for anything,
and the heartbeat is not asked for: nothing waits for it. `TunnelView`, `CommandLine`
and `ConfigStore` claim nothing that must happen and state no fairness.

## Proofs

`FeedServer_proofs`, for every number of clients, publish commands, loops and
tunnels, every queue length, bound and script allowed by `ConstantsAssumption`:

* `TypeCorrect`: `Spec => []TypeOK`. `TypeOK` is not inductive: a command about
  to publish must have been handed something, a reader about to put a request
  must hold one, and the acceptor about to register must hold a client (`TypeInv`).
* `ServerNeverPanics` and `ServerHasOneCloser`: `Spec => []NeverPanics` and
  `Spec => []OneCloser`. The inductive invariant, `CloseInv`, follows a client's
  life: fresh until registered, then live with an open queue, then in the hands
  of exactly one closer (a goroutine at the close of `drop`, or the stopper that
  owes it a goodbye), then shut. Neither property is inductive alone: a second
  closer, or a stopper owing a client twice, would be a legal predecessor of a
  panic.
* `ByeComesLast`: `Spec => []ByeIsLast`, from `CloseInv` and from the fact that only
  the stopper ever owes a bye and closes the queue in the same step.

`FeedSeats_proofs`, under the same assumptions:

* `NoSeatIsOverbooked`: `Spec => []SeatsAreKept`. `add` counts the clients in one
  critical section and registers in another; `SeatInv` adds that a seat is still
  free while the acceptor is between the two, because in between clients only leave.
* `OneLoopWhileWatched`: `Spec => []SamplingFollowsWatches`, from `DownInv` (shutdown
  leaves nobody to watch), `LoopInv` (every loop but the held one has been told to
  stop) and `WatchInv` (a client that is not registered watches nothing, so that
  registering it needs no retick).
* `NobodySitsBlank`: `Spec => []NobodyIsBlank`. `BlankInv` says where a client's view
  is while it is not shown: it has read one, or has one queued, or is owed one, or is
  about to be dropped; and a goroutine that is in no call owes nothing, so that no
  fan-out replaces a send that was promised.

`FeedStream_proofs`, under the same assumptions:

* `ServerKeepsItsPromise`: `Spec => KeepsPromise`, that is, `FeedServer` implements
  `FeedStream` under the mapping of `FeedServer!Stream`. Besides the invariants above the
  simulation needs `StreamInv`: nothing is queued, owed or closed for a client before
  its writer is started (`BornInv`); a hello is owed by the acceptor and once, a bye by
  the stopper and by nobody else (`OwedInv`); nobody closes a connection between its
  admission and its registration (`AdmitInv`). Every step then moves one connection by
  one action of `FeedStream` (`MapsOpen` to `MapsGoodbye`) or none.

`FeedSocket_proofs`, for every set of processes:

* `SocketTypeCorrect`: `Spec => []TypeOK`, in which a listener is held exactly
  between the bind and the close.
* `SocketsAreNotLeftBehind`: `Spec => []NothingLeftBehind`. The strengthening,
  `OwnerInv`, says of the file at the path that it is excused, or that the process
  which bound it still holds the listener or is about to compare or remove it, and
  remembers this very file or nothing: without the last part a process could
  compare its file with another's and pass by its own.
* `TheTakerIsReachable`: `Spec => []TakerIsReachable`. A listener is known by a file it
  bound itself (`HeldInv`), and while nobody is disturbed one process at most is in
  the middle of `Listen` or `Close`, whoever it is has the path from its bind on, and
  none is about to remove what a serving taker bound (`TakerInv`). The crux is
  `Close`'s comparison: two processes never bound the same socket, so the one that
  compares differs.

`FeedLink_proofs`, for any number of connections, keys, tunnels, views and lines
in a chunk, whatever the publisher says: every safety property of `link_safety`
as a theorem. None but the timers' is inductive alone.

* `OneLinkIsServed` (`ServedInv`): a connection being closed is
  not the one served, and lines still being dispatched come from one that is
  read, unless the machine has already given it up. Without the second part a
  hello behind a refused one could be accepted on a connection that is closed.
* `OnlyTheProvenAreLive`, `OneKeyIsTrusted` (`KeyInv`): what has been trusted is the
  pinned key and the keychain agrees with the machine, so that a relaunch cannot
  pin another; a publisher asked for a proof has offered a key.
* `LivePublisherWatches` (`WatchInv`): nothing is asked of a publisher before its
  proof, so what is asked then is all there is.
* `LatestIsShown` (`ShowInv`): the last view said before the proof is the one held.
* `RetriesSlowDown` (`LadderInv`): while a connection is tried the counter is already
  past the failures, unless it is on the last rung. A failure is an attempt that
  ended before any hello was accepted: an accepted hello starts the ladder again,
  before any proof (`LinkMachine.swift:180`), so it says nothing of a publisher that
  greets and closes.
* `LinkKeepsTrust`: `Spec => KeepsTrust`, that is, `FeedLink` implements `FeedTrust` under
  the mapping of `FeedLink!Trust`. Live is `peer`, and the key it proved to hold is
  `key`; every step is one of `FeedTrust`'s five actions or none (`TrustStep`). It needs
  `KeyInv`, `ShowInv` and `FreshInv`: what is on display or held back is not of a
  connection that has said nothing yet, though its number was used before. Without
  it the first view of a connection could follow a later one of its own.
* `EveryWaitHasItsTimer` (`TimersInv`) and `LinkTypeCorrect`.

`Tui_proofs`, for any tunnels, groups, keys, requests and bounds, with or without a
feed, with reads that fail and a machine others change:

* `TuiTypeCorrect`, and `AtMostTwoReadsAreOut`, which is inductive as it stands.
* `SomethingAlwaysMoves` and `NothingIsLeftSpinning` (`CountIsRight`, `SpinInv`): the
  count of batches is the number of them, and a started event not yet handled is
  about a run that is under way or has its finished event behind it in the
  channel. Without that, a tunnel could be marked busy by an event whose end has
  been handled already, and never be released.
* `QuietIsRight` (`RightInv`): without a doubt at most one read is out, and with no
  batch running what it saw is the machine.

`ConfigStore_proofs`, for any number of commands, tunnels, runs and edits:

* `StoreTypeCorrect` (`StoreInv`), in which the user's configuration is never cut.
* `ListedAreWritten` (`WrittenInv`): what a command has read and will write back
  names what is written, and an import past its first step has written its own.
* `PinnedKeysAreKept` (`KeyInv`): the privileged file or the one init moved aside
  holds the last key, and a rotation has copied what it is about to replace.
* `DoneIsDone` (`ReportInv`): `Spec => []ReportsAreTrue`. While a command is alone every
  other is idle, and wherever it is it finds what it read or wrote as it left it.

`TunnelView_proofs`, of `CommandSpec`, that is of the interface's reads, the graph pane
and the commands together on one machine, for any setups, any number of tunnels,
interfaces, chains of readings, seconds and bytes that `SetupAssumption` and
`CommandsAssumption` allow. All its theorems are consequences of `Invariant`, five
parts that every step keeps:

* `MachineInv`: what a socket carries has a file, and it is on the interface that the
  tunnel's name file gives. From this one interface at most carries a tunnel.
* `ReadInv` is why `RowsSayWhatIs` (`[]ReadIsTheMachine`) holds. A read is never in one
  piece, so the invariant says what it has so far: the rows are of the files in
  their order until they are sorted, and while nothing moved the peers it has are
  exactly those of the interfaces it is through with, none of the rest has gone, and
  each row has the peer that the name file, or a key of its own, leads to
  (`Shown`). `ShownIsTrue` then says that this is the machine's, when tunnels can be told
  apart.
* `ViewInv`: the table is one a read of these files made, the cursor is on it, and a
  round out was asked for tunnels in it. It gives `StateIsWellFormed` (`[]TypeOK`),
  `RoundsAnswer` (`[]PingsAreExcused`) and, with `MembersAreGrouped`, `GroupsAgree`
  (`[]GroupsAreMembers`).
* `GraphInv` is why `OpenPaneIsFed` (`[]GraphIsFed`) and `PointsAreEarned` (`[]RateIsEarned`)
  hold. `RateIsEarned` speaks of a point already made; what keeps it true is `RateInv`,
  about every reading of a tunnel's own, on its way in some chain or recorded: the
  counter has not gained more since than the tunnel carried since (`Past`), and not
  more between any two of them (`Between`), because chains overlap and either of
  two readings may be recorded first.
* `CommandInv` is why `ZeroMeansDone` (`[]SuccessIsTrue`) holds: nobody reads beside a
  command, and as long as it is alone each of its names has what was asked, or is
  still among its steps, or has a result that says otherwise; and a step that
  brings one tunnel up or down never undoes another.

The operators these rest on are recursive functions over sequences: `Only` keeps what
is in a set (`OnlyIs`: in order, exactly those, nothing twice that was there once) and
`Parse` folds the lines of a file (`ParseSeesPeer`: a key is seen after its peer
section). What they return is proved by well-founded induction over a set of
numbers (`Induct`), which needs no theorem with an operator for a parameter. The
sort of a read is any bijection that leaves no row behind one that goes after it.

Every safety property of the runs is a theorem, except the one `tui_overlap` refutes.
Liveness (`PublishReturns`, `ServeStops`, `NothingLeaks`, `WaitsEnd`, `TableCatchesUp`,
`WorkEnds`) stays with TLC because TLAPS does not prove it. Everything proved above was
checked by TLC first, and so were the inductive invariants.

The assumptions on the constants are those a program meets. A bound or a number
is a natural number and, where the code has at least one of a thing, not 0. Of a
setup they say that lists are finite, that the configuration names tunnels, that
what is up at the start has its file, and that `up` and `down` are not called where the
interface reads (`"read" \in s.does => s.commands = {}`): the two are programs of their
own, each with a read of its own, and the model has one `read` for either.

## Not modelled, and the plan

Left out, and why:

* Drawing: `internal/tui/view.go` and `internal/format`, the log pane, the help
  and the wording, and the application's presentation and windows. They read the
  state modelled here and have none of their own that matters.
* `doctor` and `status`: they read and report.
* Decoding of YAML and encoding to JSON: a document is what it says.
* The packets of a probe, the listing of interfaces and the text of `wg` output: what
  a probe or a listing says is chosen freely.
* Permissions and the checks of the `wg-quick` binary: their outcome, a refusal, is there.
* Cryptography beyond who holds which key and whose answer it is.
* The results of probes in the application's state, and what is read for its graphs.
* The simulator and the build tools, which are not part of the program.

What is worth doing next: compose `Tui` with `FeedServer`, so that publications that
overtake one another reach a client.
