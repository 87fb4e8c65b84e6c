# rosterd in TLA+

Specifications of rosterd, the daemon that keeps the roster of coding-agent
sessions on a machine, starts and resumes them under holder processes, shares
what it knows with the other machines of a mesh, and serves the clients a person
or an agent uses. Each module names in its header the source it models;
`PROJECT.json` maps every definition to its lines.

Contents: [the system](#the-system) · [the modules](#the-modules) ·
[the runs](#the-runs) · [the counterexamples](#the-counterexamples) · [conditions](#conditions) ·
[the proofs](#the-proofs) · [what is left out](#what-is-left-out) · [the plan](#the-plan)

Running it:

    tlc -config MCRosterNested.cfg MCRoster.tla
    tlapm RosterProofs.tla

## The system

| Component | State | Operations | Talks to | What makes it correct |
|---|---|---|---|---|
| **roster** `roster/mod.rs` | records by key, aliases of nested processes, `activity_seq` per key and its file | `apply`, `claim`, `set_name`, `end`, `suspend`, `sweep`, `persist_seqs` | written by everyone below; read through `watch` snapshots | source precedence per field; claims only advance; records end once; until it ends, a record never gets a seq clients have seen |
| **scanner** `scanner/mod.rs` | the last enumeration of the process table, tmux targets, titles | a pass: enumerate, register strays, end the gone, name, sweep | roster | what runs is listed, what is gone is noticed, nested harnesses are collapsed |
| **runner** `runner/mod.rs` | connected sessions, parked sessions, the resume lock, one timer per crash | start, resume, suspend, stop, patch, export, import, handed_off, recover, idle sweep, crash resume | holders, roster, api | one conversation runs in one process; recovery restores what was there |
| **holder** `holder/src/main.rs` | the adapter, the state file, a replay buffer, one client | relay, SetState, stop on SIGTERM, clean up | runner (Unix socket), adapter (stdio) | survives the daemon; the state file stays exactly for suspended sessions |
| **session relay** `runner/session.rs`, `runner/acp.rs` | requests under way, pending permissions and questions, subscribers, flags | request, notify, respond, permission policy, replay after a reconnect | holder, api | each request of the agent is shown and answered once, also across a restart; whoever waits for a prompt is let go |
| **handoff** `api/routes.rs`, `runner/mod.rs`, `runner/transcript.rs` | the exported state and transcript, the parked session at both ends | export, import, handed_off | two nodes over the mesh | the conversation is on one node at a time, with all of its turns |
| **mesh membership** `mesh/membership.rs`, `mesh/mod.rs` | a signed log of members per node | admit, merge, revoke, leave | gossip on every hello | all nodes converge; a removed member stays removed |
| **mesh exchange** `mesh/mod.rs`, `mesh/exchange.rs` | the last snapshot of every peer, one task per peer | tick, dial, stream, store, expire, mark | peers over TLS | what is shown catches up with what is; a removed peer is not shown; silence is shown as stale |
| **daemon start** `main.rs`, `api/mod.rs`, `identity.rs` | the key, the member list, the socket's file, the loopback port | load, recover, bind, serve | holders, clients, other daemons | a second daemon gives up and does no lasting harm; a socket's file that a killed one left does not stop the next |
| **gate** `gate.rs` | tool calls that wait for an answer, per session | wait, answer, time out | harness extensions, api | a call runs only if somebody allowed that call; each one returns |
| **journal** `journal/mod.rs` | the seq, a file per day, a broadcast channel | append, prune, read, replay | roster snapshots, api | the seq only grows, over files and restarts; a client misses nothing and sees nothing twice |
| **webhooks** `hooks.rs` | the receivers and their file, deliveries under way | add, remove, deliver, time out | journal, peers | each receiver gets an entry once, and in order unless its sender gave up on it; a slow one does not stop the others for ever |
| **harness health** `runner/health.rs` | a mark per harness with an expiry | set, clear, get, publish | runner, hooks, api | what peers are told comes to be the marks that stand |
| **session actions** `api/routes.rs`, `api/send.rs`, `api/mcp.rs` | none of its own | run, proxy, journal, wait | all of the above, other nodes | an action runs once, where its session is; journals tell of it as it was done |
| **ACP proxy** `cli/acp.rs`, `api/acp.rs` | a websocket per session, requests up and requests down | join, relay, answer | an editor, the daemon | each request of the editor is answered once; answers reach who asked |
| **board** `cli/tui.rs` | the rows, the cursor, the open session, one queue of messages | refresh, key, stream line, post | api | a key acts on what the person saw |
| **setup** `setup/mod.rs`, `setup/tui.rs` | a checklist, a queue, a worker | check, apply, check again | files, commands, the service manager | a row that says ok is in place; a queued row comes to run |
| **integrate** `integrate.rs` | a harness's hooks file, the adapter lock | install, uninstall | files | the user's own entries stay |
| **the rest** | | transcripts, titles, usage, config, doctor, CLI, tray, UI | | they read files, or make one request and print |

### What is hard here

* **Many writers, one table.** A record is written by hooks, launchers, the
  runner, the scanner and clients. Each operation takes the lock once; a caller
  that needs two operations (scanner: read then write; recovery: register then
  suspend; a claim by pid: register then claim) can be overtaken in between.
* **Two authorities on one fact.** Whether a session is suspended is known to
  the daemon (flags and `parked`), to the holder (its copy of the state) and to
  the disk. They are brought together by frames, signals and a five-second
  timeout.
* **Two daemons, two nodes.** A service manager and a person can start a daemon
  at the same time beside holders that serve one connection each; a conversation
  can be on its way from one node to another while somebody resumes it here.
* **Crashes.** The daemon, the holder, the adapter and the machine die
  separately; the daemon must rebuild from the files and the process table.
* **Read, then act.** A mark is rendered under one lock and published under
  another; an entry gets its seq under a lock and is broadcast outside it; a
  supervisor reads the members, then starts and aborts their tasks; a key is
  pressed on one screen and handled on the next.
* **Identity and order.** Pids are reused; claims, gossip and answers arrive out
  of order or after their timeout; clocks of nodes disagree.

`PROJECT.json` lists each hazard at its line, with the properties that cover it.

## The modules

| Module | Stands for | Builds on |
|---|---|---|
| `RecordLife` | the abstract promise: the life of one record as readers see it | |
| `Roster` | the table, the scanner's pass, claims, the seq file, restarts | refines `RecordLife` |
| `Lifecycle` | one conversation on one node, over a row of holders: launch, suspend, resume, crash, recovery | refines `RecordLife` |
| `Relay` | one session between an agent, its holder and the daemon: prompts, requests, answers, the replay buffer, connections that change | |
| `Handoff` | one conversation over several nodes: handoff, export, import and what goes on beside them | |
| `Membership` | the swarm's signed records: admit, revoke, leave, gossip, the file | |
| `Exchange` | the snapshots a node keeps of its peers, the tasks that fetch them | |
| `Daemon` | starts of the daemon: key and member list, whole or torn, recovery, socket, port; two that overlap | |
| `Gate` | gated tool calls of a session and those who answer them | |
| `Health` | the marks of harnesses and their publication | |
| `Actions` | actions for sessions across nodes, sends between sessions | |
| `Journal` | from roster snapshots over the files to a client that reconnects | |
| `Hooks` | webhook receivers and the rounds of deliveries | |
| `AcpProxy` | the ACP proxy of an editor and the daemon's end of it | |
| `Tui` | the board's loop | |
| `Setup` | the installer, with and without a terminal | |
| `Integrate` | installs and uninstalls of the hooks | |
| `RosterProofs`, `LifecycleProofs`, `HandoffProofs`, `ExchangeProofs` | theorems about the module of that name | that module, TLAPS |
| `MeshProofs`, `RunnerProofs`, `SessionsProofs`, `ClientsProofs` | theorems about parts of the run of that name: `Membership` and `Daemon`; `Actions` and `Gate`; `Relay` and `Hooks`; `AcpProxy`, `Tui`, `Setup` and `Journal` | `MCMesh`, `MCRunner`, `MCSessions`, `MCClients`, TLAPS |
| `MCRoster`, `MCLifecycle`, `MCJournal` | instances of one module for TLC | |
| `MCMesh`, `MCSessions`, `MCRunner`, `MCClients` | instances of several modules, side by side | see [the runs](#the-runs) |

Operators named after an operation with a suffix that says what is wrong with it
(`StoredBlindly`, `TakenOldest`) are that operation with a plausible mistake. No
specification uses them; `PROJECT.json` "mutants" pairs each with the property
that notices it.

### Roster

A key stands for a process (pid plus start time), so a key has a lineage, and
two keys may have one pid, one after the other. `rec`, `aliases`, `seqs` and
`known` are the maps of `Inner`; `file` is the seq file; `sampled` the
scanner's last enumeration, `stray` the process its pass is about to register.
`name` stands for every field that goes through `fill`; the activity has its
own rules and is kept apart. `shown` is a history variable: the highest seq a
reader of the snapshots has seen of the session, which the properties about
restarts are stated with. `over` is another, the keys a record of which has
ended: with it the counter of the key is dropped, and what is shown of the process
after that starts from 0 again.

Each operation of the table is an operator (`Apply`, `Claim`, `SetName`, `End`,
`Suspend`, `Forget`) and each caller an action that uses it: the scanner's pass
(`Refresh`, `FindStray`, `RegisterStray`, `Reap`, `ScanName`, `ScanTitle`,
`Sweep`), the socket (`Register`, `ClaimByKey`, `Rename`), and the runner as
the table sees it (`Attach`, `Restore`, `RunnerClaim`, `RunnerTitle`,
`RunnerSuspend`, `RunnerEnd`). An operation that reads the table and writes it
under a second lock is two actions (`FindStray` and `RegisterStray`).

Assumed of the world: a pid is not handed out again before a scan has seen its
old process gone (`Start`). Without this the kernel could wrap around within a
scan interval, and no daemon that polls could tell.

### Lifecycle

A holder `h` is the holder process with its adapter, its files, its session
key and its record; there are at most `MaxHolders`. A launch takes the least
number not used yet (`Fresh`), so the numbers follow the order of starting, which
is also the order of `started_at` that `recover` sorts by. The state file has four
values: none, `blank` (no session id yet), `identified`, `suspended`. `mem` is
the session's copy (`Session.state`), `disk` the file, and a `HolderWrites`
step brings the last frame sent to the file.

`Runner::launch` is split where it awaits: `Spawn`, `LaunchUnparks` (the old
key ends, its file goes), `LaunchAttaches`, then the answer to `session/load`
or `session/new`. `Runner::suspend` is split the same way: `SuspendMarks`,
`SuspendStops`, `SuspendGivesUp`. `recover` reads the directory once (`found`)
and then handles a file at a time; registering and suspending are two steps,
because the scanner runs already.

A daemon that stops in an orderly environment (`clean`) does so when the runner
is `Quiet`: no launch is under way, and no session it is connected to has a
suspension mark or a holder that has not caught up with the last frame.

Assumed: every agent can load sessions (the code falls back to a new one when
it cannot); a killed holder takes its adapter with it, which loses its stdin;
the API is served only once `recover` is done (`main.rs` awaits it first), while
the idle sweep and the scanner run from the beginning. Refusals (resume limit,
health mark, timeouts not reached) are calls that are not made.

### Handoff

`Lifecycle` has the inside of a launch and of a suspension on one node;
`Handoff` takes each as far as another call can see it (`spawned`: the old key
is still parked; `loading`: it has been taken over) and adds what lies between
two nodes. A call `c` is one run of the `handoff` or `export` route. `step` is
how far its import has come on the target and does not depend on whether
anybody still waits for it (`waiting`): the proxy's timeout, a broken
connection, a client that goes away and a restart of either daemon part the
two. `copy` is the transcript file of the conversation on a node, a set of
turns; `transcript::place` refuses one that differs, which is a conflict like
the missing directory.

`trouble` is a history variable. It records that a parked session was resumed
or exported again while an import of it was out (`resumed`, `exported`), that a
resume of it was under way when it was exported (`resuming`), or that a caller
gave up on an import. The promises of SPEC R15.5 hold without these and not with
them; `handoff_twice` has the first alone.

Assumed: an export that a client carries itself is imported by nobody else,
and tried again when it fails.

### Membership

`view[n]` is the list in memory, `file[n]` is swarm.json. `merge` goes through
the records of a list in the order of their ids, again and again, and a record may
vouch for the signer of another one or revoke it. `Merge` says what comes of it
without recursion: a record is inserted once at most, so each has the pass that
takes it, the first that finds its signer to count when its turn comes. A record counts when its signer is in the view and
not revoked (`Vouched`), and when it `Beats` the one there. A hello and its answer
are messages that can be delayed and lost; so is the answer to a join.
`leave` is two actions: it signs and tells, then it forgets.

Assumed: signatures and keys are sound, invites are used once, a node has an
address for every member, and its operator waits for one join or leave to end
before the next. Clocks are not assumed to agree: `signed_at` is any
time, except where `admit` looks at the record it replaces (`Later`).

### Relay

A line or frame is what it does: an update that shows the agent at work, a
request (permission or question), the result of a prompt; a prompt, an answer,
a cancel, a new policy. `up` and `sess.out` are the two directions of a
connection, a pipe and the queue in front of it being one. `buffer` is the
holder's replay buffer. `Says` puts a frame into it and sends it on, in two
steps (`SendsOn`) when there is no connection, because only then can another
one be installed in between; a connection is taken in two steps as well
(`AttachReads`, `AttachInstalls`). `Restart` leaves any prefix of what the old
daemon wrote (`rest`) for the holder to read until the next connection
replaces the old one.

`sess` is the daemon's side: what is pending, what was claimed last, its lines
to the holder. A replay is one line in the code, handled frame by frame under a
lock for each: on `up` it is its frames between `Begins` and `Over`, in which an
update is `Past`, and clients may come in between; only the connection cannot
break until it is over (`Replaying`). `Session::prompt` is `PromptSends`, the result in `Handle` and the task that goes on with it
(`PromptReturns`), which other tasks can overtake. `trouble` records what the
promises have as a premise not to have happened: a cancel, a full buffer, a
broken connection, or a race the code loses ([conditions](#conditions)).

Assumed: an agent asks and works only within a turn and ends it when nothing it
asked is open or it was cancelled; clients answer only what they are shown.
How a session opens and is suspended is in `Lifecycle`; recaps, usage, plans,
titles and subscribers decide nothing here.

### Exchange

`exchange_forever` is two actions, because it lets go of the lock: `TickReads`
takes the list of those to follow (`wanted`), `TickActs` starts and aborts tasks
by it. A task `Dial`s, is `Accepted` or `Refused`, reads its stream and sleeps;
one that was aborted still does what it was in the middle of (`late`,
`LateStep`). `store` has per peer the snapshot, whether it is reachable and the
date it expires by. What a hello brings is any change to the list, since
`Membership` says what changes there are.

Assumed: an abort takes effect before the membership changes again, a step of a
task being far shorter than what people do to a swarm; a peer that refuses this
node is one that is down.

### Daemon

`pc[d]` is how far `serve` has come in the order of the code: node.key, which it
creates when there is none, swarm.json, recovery (it reads the state files, then attaches), probe of the socket, removal of its
file, bind, port. `link` is the one connection the holder serves; the newest
daemon to connect takes it, and the other finds its own closed (`Drops`) and
reconnects or calls the holder dead. `met` is a history variable, the daemons
that ran at the same time as another; `hasty` are those that looked for the
holder between its state file and its socket, where a crash is what the code
sees. `write_private` truncates a file and then writes it: `keyFile` and
`swarmTorn` are what a reader finds, `saving` the daemons in between, `mixed`
those that write over what another one has just written, and `cut` records that a
file was left torn. A daemon that reads a torn one ends (`GivesUp`).

Assumed: a daemon that ends by itself finishes the write it is in; a crash is not resumed (that is in `Lifecycle`).

### Gate

A call goes from `Posts` over the registration to an answer, a timeout or a
caller that hangs up; the timeout and the removal from the list are two steps
(`Expires`, `Withdraws`), as are reading an outcome and claiming. A human reads
a list and answers later, by id or "the oldest"; the runner's own requests,
listed before, are under the same key. `named` and `outcome` are what the
properties compare: what a human meant and what became of the call.

Assumed (`GateAssumption`): the ids of calls, which are ULIDs, and the ids of the
runner's requests, which are the agent's, do not coincide.

### Health

A caller is one start, turn or hook; each has its own path to `Set` or `Clear`,
and then publishes in two steps (`Renders`, `Puts`). The idle sweep does the
same at every tick.

### Actions

Each of a set of `requests` enters at a node, by a path (`via`) to a session, by
an editor's websocket or by a tool (`how`). `RemoteOwner` decides by the node's own roster and its views of the others, as
stale as `Views` leaves them. `req` is the request's stage and the node that
works on it, `ran` and `hops` are the history the properties speak of, `journal`
the entries of all nodes: the owner's handler makes one when it answers, the
handler of a tool another where it was called, once it has the answer, and an
editor's prompt is journaled before it runs. A session that sends to another waits within its own
turn, so that two can wait for each other.

Assumed (`ActionsAssumption`): a key names its node for life. Names are resolved
to keys before.

### Journal

The writer compares the snapshot it diffed last (`prev`) with the newest and
appends the changes one by one, those of one session after another's (`todo`,
`Turn`). An entry gets its seq and its line in one step, under the lock, and is
broadcast in another (`held`, per appender); the broadcast channel drops its
oldest. A write that fails leaves nothing, a part of a line that the next one is
glued to (`Partial`, `Garbage`), or an empty file (`Created`). A client replays
the files and goes on live, drops its connection and comes back with the last
seq it saw. A start reads the seq off the last whole line of the newest file,
and `reset` records that there was none. `files` has the lines of each day;
`Places` are those of the whole ones, in the order a replay goes through them.

Assumed: an entry is dated at most a day before it is written; the clock does
not go back. `JournalAssumption`: the channel has room for one entry at least,
and the bounds on the days agree.

### Hooks

`channel` holds the journal's entries, `frame` the newest snapshot of the peers
and `prev` the one the changes are taken from. A round posts to every hook that
wants the event (`out`) and ends when each has answered, failed or timed out.
A request that was given up on before it arrived is still on its way (`late`) and
may arrive at any time or never; `got` has what a receiver saw, and whether late.
Saving the list is two steps, with a crash in between leaving a torn file.

Assumed (`HooksAssumption`): the channel has room for one entry at least (the
code's has 256).

### AcpProxy

A request of the editor is a task that joins (finds or opens the session's
websocket), sends up, waits for a reply and answers. Taking the sender from the
table and sending are two steps (`UpTakes`, `UpSends`), so that a relay may end
in between; a second join may replace the first one's websocket.

Assumed (`ProxyAssumption`): requests are about known keys, and `None` is neither
a key nor a websocket.

### Tui

`queue` holds everything the loop will handle before its next `Draw`; a key
carries what the screen showed when it was pressed (`pressed`), which is all
that `ActsOnTheSeen` compares. `Poll` reads the snapshot, then each session that
waits, then sends; that it sorts what it read is a condition on the order of the
board (`Sorts`). `streams` lists the streams opened, and a line says which one it
is of.

Assumed (`ScreenAssumption`): there are finitely many sessions, and `None` is not
one.

### Setup

A row is a list of `Parts` it puts in place one after the other; a check looks
at some of them. `have` is what is on the machine, `Facts` what the machine is.
`clean` is a history variable: the machine had nothing at first, and no run since
failed or was cut off inside a row. Without a terminal `at` walks the rows; on a screen there are `queue`, the
worker's `job` and rows that ask for input.

Assumed (`SetupAssumption`): nothing enabled a service whose unit was never
written; the check of the row asks the service manager alone.

### Integrate

A hooks file is a list of entries, an entry a set of commands, of which "hook"
and "old hook" are rosterd's. Each run reads, merges, writes one temporary file
and renames it, and writes the lock last; all share the temporary name.

## The runs

Deadlock is not checked: the bounds on holders, calls, restarts and the clock
run out, and a machine on which no one does anything is not an error.

Components that do not touch each other's state share a run. Its module EXTENDS
the one there are theorems about, so that what TLC checks is what is proved,
instantiates the others on variables of their own, and has a variable `part`
that says, from the first state on, which of them moves; the others stay at
their initial state. A safety property of an
instantiated part reads `part = "gate" => ...`, one of the extended module is
checked as it is, and a liveness property has the fairness of its own part as
its premise (`GateRuns => ...`): nothing is composed here but the work of one
TLC run. What is composed is inside a module: runner with holder and scanner in
`Lifecycle`, agent, holder, daemon and clients in `Relay`, two nodes in
`Handoff`, daemons and a holder in `Daemon`, writer, files and client in
`Journal`.

| Run | Parts and bounds | Properties | Shows |
|---|---|---|---|
| `roster_table` | one session, every source, 2 names, 2 activities, clock and counter to 2, 1 restart with the seq file written | `TypeOK` `OriginsAreTruthful` `SeqsFollowRecords` `SeqIsCurrent` `ClaimsStand` `ClaimsOnlyAdvance` `KeepsPromise` | precedence holds per field however sources mix; late claims do not run a record back; the counter goes on over the restart, until a record has ended; the table implements `RecordLife` |
| `roster_nested` | two harnesses, one nested, 1 restart, the scanner's loop fair | `AliasesPointAtRecords` `ListingIsTrue` | the alias map stays in step with the table; what runs is listed and what is gone is noticed with nobody's help |
| `lifecycle` | three `Environments`: 3 holders and no restart; 2 holders with 2 restarts or reboots while the runner is `Quiet`; 2 holders with 2 restarts at any point; holders may be late in the last two | `SingleHome` `ParkedOrRunning` `FilesAreKept` `KeepsPromise` | launches that fail at every point, by hand and after crashes, never give two processes with the conversation; what is parked does not run; no crash leaves a file nobody holds or two with the conversation |
| `mesh` | `Membership`: 3 nodes, 3 records signed, clock to 3, 1 message in flight, 1 lost, 1 restart. `Exchange`: 1 peer, 3 changes of the list, 2 versions, 1 time down. `Daemon`: 2 daemons, 3 starts, kills in the middle of writes | `RevokedStay` `AllConverge` · `ViewCatchesUp` · `CrashedIsGone` `RefusedForAnother` `HolderIsServed` | a revocation is only undone by a newer record and members come to agree; what is shown of a peer catches up with it; a daemon gives up starting for another one or a torn file alone, and the first gets its holder back |
| `sessions` | `Relay`: 2 requests, 1 prompt, 1 update, a buffer of 2, 2 restarts, exits or policy changes, or instead a cancel or a broken connection. `Handoff`: 2 nodes, 3 sessions, 2 calls, 1 turn, 1 restart. `Hooks`: 2 receivers, 2 entries, 1 frame, a channel of 1 | `RequestsAreRelayed` `RelayComesThrough` · `OnePlace` `TranscriptIsWhole` `AllHandoffsEnd` · `InOrder` `NoneWaitsForEver` | what an agent asks is shown to clients, by this daemon or the next, and answered once; by two handoffs the conversation is in one place with its whole transcript; receivers get the entries once and in order, late ones aside, with dead ones beside them |
| `runner` | `Lifecycle` in the roughest of the environments. `Gate`: 2 calls, 1 request of the runner, 2 people. `Health`: 1 harness, 2 callers, clock to 2. `Actions`: 2 nodes, 2 sessions, 2 requests (two sends to each other; a prompt by a tool and a send; two with a path, one of them wrong; an editor's and a client's prompt of one session) | `CallsAreSettled` · `GateIsHeld` `CallsReturn` · `ToldIsTrue` · `RunsAndIsTold` `AllSendsReturn` | a suspension, a stop and a resume that were begun end; a gated call runs only if it was allowed, and returns; peers come to be told the truth about harnesses; an action runs once, at home, and is told as it was done |
| `clients` | `Journal`: four `Limits` (4 changes in one day; 2 days, and 3, with a failed write; 2 connections over 2 days), 1 restart each. `AcpProxy`: 2 requests, 2 sessions, 2 websockets. `Tui`: 2 sessions, 3 keys and refreshes. `Setup`: a Mac, a Linux and a bare machine, empty or half set up, 2 runs, 4 keys. `Integrate`: 2 processes, 3 runs, 4 files, 1 edit beside them. `Exchange`: 2 peers, 1 change of the list, 1 time down | `JournalIsWhole` `ConnectedSeesAll` · `EditorIsServed` · `ScreenIsTrue` · `RowsAreDone` · `OthersAreKeptAlone` · `SnapshotsAreDue` | the journal tells every change once and a connected client sees all; an editor gets one answer per request; a key acts on what was seen; setup says ok of what passes its check with the parts it looks at; the user's hooks stay; a removed peer's snapshot goes and stays away |
| `lifecycle_lost_resume`, `membership_diverges`, `handoff_twice`, `relay_question`, `journal_misses` | | one each | [the counterexamples](#the-counterexamples) |

Names of a run that stand for several of a module: `ClaimsStand` is
`HigherSourceStands` and `ClaimsAreFresh`, `ListingIsTrue` is `RunningIsListed`
and `DeadIsNoticed` (Roster); `FilesAreKept` is `TypeOK`, `OneFile` and
`FilesAreHeld`, `CallsAreSettled` is `SuspendSettles`, `StopSettles` and
`ResumesFinish` (Lifecycle); the comment above each of the others says which.

Why these bounds are enough to mean something: two names and two activities are
what it takes for an overwrite to be visible; two levels of nesting suffice
because the collapse flattens (an alias never points at an alias, which
`AliasesSound` proves for any depth); a restart lets a file written by one
incarnation be read and changed by the next; two holders are a suspended
session and its resumption, and three add the race of a crash resume with one
by hand; two calls and three sessions are a conversation that goes there and
back, or is sent twice (`ConversationInOnePlace` proves it for any number); three
nodes and three records are an admitter, one it admits and one that sees both or
not, with a revocation; one message in flight still reorders, because what a
message carries is older than what its sender has by then; one peer is enough
for what `Exchange` comes to show, since tasks and entries share nothing but the
tick and the list, and two are one that is dropped while the other is followed
(`SnapshotsAreSound` proves it for any number); two daemons and three starts are one that runs and one that fails, comes back
and meets the other again; two requests and an update fill a buffer of two and
more, and two restarts are a request asked under one policy and replayed under
the other, or replayed twice; two gated calls, a request of the runner and two
people are an answer that may be meant for any of three; two callers are what it
takes to publish in the opposite order; two sends are what it takes to wait for
each other; two entries overflow a channel of one; three days make a file
older than `KeepDays`; three runs of an install are two at once and one after.

### Fairness

`ScanFairness` (Roster): the scanner's loop never stops, and every ended record
gets old enough to be swept. The loop is a task spawned at startup that waits
on a timer and on the process table. No fairness for processes, hooks, clients
or restarts.

`TaskFairness` (Lifecycle): the runner's tasks (launch with its deadlines, drain,
recover, the suspension after its mark) and the holder process run; a process
sent SIGTERM exits, because `holder::stop` and the holder follow it with SIGKILL
after five seconds. Clients, the scanner and restarts owe nothing. Agents owe
nothing either: that they answer `session/new` and `session/load` is a premise
of `ResumesFinish` alone, because a request has no timeout (session.rs) and the code does not
give up on one.

`GossipFairness` (Membership): `discover_forever` greets every active member
every 30 s, a message that is not lost is handled, a leave comes to its end.
Greetings are strongly fair because a full wire takes the chance away for a while.

Exchange: the supervisor ticks every second; a task's sleeps, dials and idle
streams all have a timeout; an aborted task runs on to its next await. Peers and
people owe nothing: `ViewCatchesUp` speaks of a peer that stays up, or away.

Daemon: a daemon whose connection closed notices and reconnects, while it runs.
Nobody has to start, go on with a start, kill or end anything.

Relay: the tasks that move lines and frames, take connections and wake the
caller of a prompt go on. That agents end their turns and clients answer are
premises of `PromptSettles` alone (`TurnsEnd`, `ClientsAnswer`): a request has
no timeout.

`HandlerFairness` (Handoff): a handler that has its answer goes on, and none
waits longer than `PROXY_TIMEOUT`. Imports and agents owe nothing.

Hooks: the task, its timers and the write of the list go on. Taking the next
event is strongly fair, because it needs a lock that others take in between and
that is handed out in turn (tokio's mutex is a queue). Receivers owe nothing.

Gate: the timer of a call runs and its handler is polled; no human need answer.
Health: time passes, the sweep comes round and a caller goes on. Actions: a send
with a limit times out; agents owe nothing. The parts of `clients` have safety
properties only.

## The counterexamples

These runs check a sentence of the repository's docs or comments and TLC refutes
it; `PROJECT.json` "findings" quotes each sentence.

| Run | What happens |
|---|---|
| `lifecycle_lost_resume` | The daemon restarts while a launch is loading: the old file is gone, the new one has no id yet. |
| `membership_diverges` | A node admits another and is then revoked. Who heard of the admission first has a member more than who heard of the revocation first, for good. |
| `handoff_twice` | The session is exported for a handoff and stays parked; a resume (or a prompt for it) begins before the import has been answered and comes through, and so does the import: the conversation runs on both nodes. |
| `relay_question` | The daemon restarts while the agent waits for the answer to a question, an update before it in the buffer: the replay claims the update's activity after the question's, and the session is shown as active. |
| `journal_misses` | Two entries are broadcast in the opposite order of their seqs; the client gets the later one, drops its connection before it gets the other and comes back with the seq it stored; the replay starts after both, and with nothing left on the way it has never got the earlier one. |

## Conditions

What the passing runs have as a premise or a bound, and the code does not
guarantee. Each was seen in a trace while the models were written.

* **Roster.** `CleanRestarts`: a daemon killed within the 250 ms debounce of the
  seq file hands a seq out again. So does one that goes on: `end` drops the
  counter of a key (roster/mod.rs:535), so a record that ended while its process
  runs, was swept and is registered again counts from 0, and clients that go by
  key and seq take its claims for old ones; `SeqIsCurrent` and `ClaimsAreFresh`
  end with the first record of a process that ends (`over`). Counters of suspended sessions are dropped
  when the file is loaded, their process being gone; `SeqIsCurrent` speaks of
  running ones. A record whose process is gone but not yet reaped collects the
  children of the process that got its pid: no property speaks of that, and the
  instances give every process a pid of its own. A driven
  child that a scan or a hook saw before the runner registered it stays an alias
  of its parent, and a hook that comes before the scanner's next pass gives a
  nested process a record of its own; no property forbids either.
* **Lifecycle.** `SingleHome` and `ParkedOrRunning` speak of restarts while the
  runner is `Quiet`. It is not between two operations: a daemon that dies between
  the mark in the state file and the SIGTERM leaves a running session that the
  next one takes for a suspended one (SPEC.md:494 says that no process exists).
  Nor is it after a suspension that timed out (runner/mod.rs:487): the mark stays
  in the session's copy, the holder may write it at any time later, and a daemon
  that then restarts parks a session that still runs. That was found when the
  proof of `OneHome` did not go through with a restart between any two
  operations; TLC then gave a trace of eleven steps. With the daemon up, holders
  may be as late as they like. An
  adapter that exits before its holder handled the mark leaves a parked session
  without a file. After a reboot the scanner may end a record between `register`
  and `suspend`: the session is then not restored until the next restart, the
  exception in `FilesAreHeld`. The scanner may call a stopped session crashed,
  and a stop that meets a suspension leaves the session parked: `StopSettles`
  says that it goes from the connected ones. An agent that never answers
  `session/load` keeps the node's one resume lock.
* **Membership.** `Rejoins` is FALSE: a node that joins again without leaving
  takes its admitter's list as it is, and with it a record older than a
  revocation it knew. `ConvergesUnderSigners` has `SignersStay` as a premise:
  the records of a signer that was revoked are refused from then on. A node that
  left without being heard stays active for others.
* **Handoff.** Without `trouble = {}` a resume, a second handoff or an import
  that answers after the proxy's timeout gives the conversation two homes, and
  the 502 of the timeout says that nothing was started elsewhere (SPEC R15.5)
  when something may have been. `NothingIsLost` has the two ends the code has: a
  parked session a client discards (`expired`) and a resume that fails once it
  has taken over. A session that has grown elsewhere cannot come
  back to a node it was on: its own older transcript there is a conflict.
* **Relay.** The premises on `trouble`. `overflowed`: a request that newer
  frames have pushed out of the buffer is not shown by the next daemon. `raced`:
  a frame said while a connection is being taken may be on neither the replay
  nor the connection, or on both, and an answer read then does not keep the
  replay from showing its request again; a prompt that passed the test of
  `closed` just before the session closed is never woken; a prompt's idle claim
  may come after the next request of the agent. `dropped`: lines written to a
  broken connection are lost, answers and prompts among them, and the replay
  after a reconnect shows again what is still pending. `cancelled`: requests the
  agent withdrew stay pending. And without a premise: the result of a prompt
  that comes while no daemon listens is not buffered, which leaves the session
  active, and answering one of two pending requests claims active.
* **Exchange.** A node that left or joined keeps what it has: `join` replaces
  the list without dropping the snapshots of peers the new list revokes, and the
  last step of a task aborted by `leave` may store one more. The module states
  "forgets the swarm" (mesh/mod.rs:731) as `LeftIsForgotten`, which no run
  checks because it does not hold. A peer revoked and admitted again within one
  tick keeps its open stream, which has nothing new to say until it changes
  (`revived` in `NewestIsShown`).
* **Daemon.** A second daemon recovers before it finds the socket taken, and by
  then it has taken every holder's connection; `HolderComesBack` says that the
  first gets it back. Until then both may apply the same frames. One that looks
  for a holder between its state file and its socket calls it crashed and
  removes the file of a session that runs (`hasty` in `CrashedIsGone`). Two that
  start together may each remove the other's socket file (`LiveIsRefused`,
  api/mod.rs:185, does not hold and is not run). A daemon killed in the middle of
  a write of node.key or swarm.json, or two that save the member list at once,
  leave a file that every later start fails to read (config.rs:245,
  identity.rs:34, membership.rs:131), with nobody else running: the exception in
  `RefusedForAnother`.
* **Gate.** A human who answers as the timeout passes is told ok for a call that
  is denied. A caller that hung up leaves its call listed until somebody answers
  it, and the session in need of attention (the exception in
  `ListedCanBeAnswered`); that a session shows `needs_attention` for as long as
  a call waits (`WaitingIsShown`) does not hold, for an answer to one of two
  calls claims active.
* **Journal.** `reset` in `SeqRises`: a start that finds only torn lines in the
  newest file begins again at 1. An entry dated before midnight and written
  after goes to the day that is over. A write that fails is a gap.
* **Hooks.** A crash while the list is saved leaves no list (`HooksSurvive`,
  from SPEC R19, does not hold and is not run). An event whose sender gave up on
  it, at the timeout, a failure or a stop, may reach its receiver after newer
  ones, although hooks.rs:102 waits "so one hook sees events in order": the
  exception in `InOrder`. Entries past the channel's
  capacity are dropped while a receiver is slow.
* **Health.** A claim of a hook that shows the harness at work clears any mark,
  not the login alone, if a caller marks it in between (`ClaimClearsLoginOnly`,
  not run); and a session that opens clears a rate limit, against the table of
  SPEC R7.7.
* **Actions.** A handler whose client goes away is dropped where it waits, and
  what it ran is not journaled (`WhatRanIsJournaled`, SPEC R18, not run). The tools
  session.prompt and session.send are journaled at the node they are called at
  too when the session is elsewhere (journal/mod.rs:51: "an API action that ran on
  this node"), and an editor's prompt before it runs, refused ones as well
  (SPEC.md:607: "Only successful actions are journaled"); `JournalIsTrue` says
  what is left. A send
  with `timeout_ms` 0 waits without a limit: two sessions that do it to each
  other wait for ever.
* **AcpProxy.** A request sent to a relay that has just ended is told nothing
  (`WhoeverWaitsHears`, cli/acp.rs:267, not run; `WaitersAreServed` has it as
  its exception), and one that is up when stdin ends is not answered.
* **Tui.** A key handled after another one acts on the other's outcome. The
  cursor goes to the top when its session leaves. A request may be shown by two
  streams of one session in turn (`ShownOnce`, SPEC R21, needs one key more than
  the run has and does not hold).
* **Setup.** On Linux a service that is not there yet and one that cannot be
  there look the same to the check (`ServiceIsInstalled`, README.md:64, not
  run); a recheck waits for the worker's lock and the screen with it
  (`KeepsDrawing`); picks made before a row that asks for input stay picked
  after it (`DoneIsLeftAlone`). The tray's binary and the entry in adapters.lock
  are looked at by no check: after a run that failed or was cut inside their row,
  or an older install without them, the next run says ok and leaves them out, the
  exception in `OkMeansInPlace`. So it says on Linux without a service.
* **Integrate.** A command written between a run's read and its rename is lost
  (`EverythingElseIsKept`), and two runs at once can rename a half-written file
  (`AtomicWrites`); both are SPEC R14.3, hold of runs nobody wrote beside, and
  are not run.

## The proofs

Every theorem is about all values of the constants its module's assumptions
allow. `RosterProofs`, from `KeysAssumption`, `ActivitiesAssumption` and
`BoundsAssumption`:

| Theorem | Statement | Argument |
|---|---|---|
| `TypeCorrect` | `Spec => []TypeOK` | one lemma per operation of the table, then one step per action |
| `CountersAgree` | `Spec => []SeqsFollowRecords` | inductive with `TypeOK`: a record is born from `seqs`, claims write both, only an end resets `seqs`, a restart empties the table |
| `ClaimsAdvance` | `Spec => ClaimsOnlyAdvance` | from `TypeOK` and what each operation does to a record (`ApplyEffect`, `ClaimEffect`, ...) |
| `SeqsNeverFallBack` | if `CleanRestarts`, `Spec => []SeqIsCurrent` | `CountersInv` adds to the two invariants above and below `Counted`: the counter of a running process no record of which has ended is at least what was shown of it and, between the debounced writes, is what the file holds |
| `RecordsStand` | if `CleanRestarts`, `Spec => ClaimsStand` | precedence from what each operation does to a field and its source; fresh seqs from `CountersInv` |
| `AliasesSound` | `Spec => []AliasesPointAtRecords` | inductive with `TypeOK`: `apply` makes an alias only for an unknown key and only to a known one, and `sweep` drops those it orphans |
| `OriginsTruthful` | `Spec => []OriginsAreTruthful` | inductive with `TypeOK`; a key without a record holds `Fresh`, which must be added |
| `LifeIsKept` | `Spec => KeepsPromise` | initial states map to initial states; each operation maps to a step of `RecordLife` or a stutter (`OneLife`), from `TypeOK` and the fact that a forgotten key is `Fresh` (`NothingIsLeft`) |

`CleanRestarts` is needed in the two about seqs: what the daemon published in the
250 ms before it was killed is not in the file, and is handed out again. A daemon
that is not killed within the debounce satisfies it. Both speak of a running
process until a record of it ends, since the code counts from the start after
that ([conditions](#conditions)).

`LifecycleProofs`, from `EnvironmentsAssumption` (any number of holders,
restarts and reboots, in every environment):

| Theorem | Statement | Argument |
|---|---|---|
| `InvariantHolds` | `Spec => []LifecycleInv` | `TypeOK`, `Local` and `OneBearer`, each with one step per action of runner, holder, scanner and recovery |
| `FilesKept` | `Spec => []FilesAreKept` | two files with the conversation would be two bearers; `FilesAreKnown` says whose a file is |
| `OneHome` | `Spec => []SingleHome` | where the daemon stops only when `Quiet`, a process with the conversation bears it |
| `ParkedIsNotRunning` | `Spec => []ParkedOrRunning` | a parked session bears it too |
| `LifeIsPromised` | `Spec => KeepsPromise` | each action maps to a step of `RecordLife` or a stutter; that a suspended record is only ended for a resume reason needs `TablesAgree` |

None of the properties is inductive. `FilesAreKept` counts files: a launch that
loads must know that what it takes over from has lost its own. `Local` says, for
each holder, what its process, its file, what recovery read of it and the two
tables have to do with each other (`NewAreEmpty`, `LaunchesAreNew`,
`ReplacedAreIdle`, `TablesAgree`, `FoundIsOnDisk`, `FilesAreKnown`,
`RunningAreConnected`); `OneBearer` says that the conversation's id is on file, in
a table or in a launch under one holder at most. The hard steps are a recovery
that meets the holder it reads about while that one exits, and a resume after a
crash, which passes by the resume lock.

`HandoffProofs`, from `HandoffAssumption` (any nodes, and any number of keys,
calls, turns and restarts):

| Theorem | Statement | Argument |
|---|---|---|
| `ConversationInOnePlace` | `Spec => [](TypeOK /\ OneHome /\ InOnePlace /\ TranscriptIsWhole)` | the inductive invariant `HandoffInv`, one lemma per action |
| `OnePlaceHolds` | `Spec => []OnePlace`, which adds `NothingIsLost` | the inductive invariant `KeptInv`, whatever `trouble` there was |

Of `ConversationInOnePlace` the three properties count sessions, and none is inductive: a parked session may
have a successor on this node, or an import on another that has not been
answered, and what keeps the two from both coming alive is where each of them
stands. `HandoffInv` says so while nothing went on beside a handoff
(`trouble = {}`): what was launched comes from a parked key or from a call
(`LaunchesKnown`), the session of a call that is waited for does not run
(`CallsKnown`), at most one bears the conversation, or a parked session and what
was launched or sent from it (`OneBearer`), and each bearer has all its turns
(`WholeBearers`). `trouble` only grows, so a behaviour that reached some is past
what the invariant says.

That nothing is lost is not inductive either: a parked session ends when its
handoff is answered, or when a resume of it has taken over, and the conversation
must then be somewhere else. `KeptInv` follows it: some session keeps it, or went
for a reason of `NothingIsLost` (`KeptOrGone`); what was resumed from or sent away
ended or is still parked (`OriginsKnown`, `MovedKnown`).

`MeshProofs`, for any set of daemons and starts; and from `MembershipAssumption`,
`NoneAssumption` and `Rejoins = FALSE`, for any number of nodes:

| Theorem | Statement | Argument |
|---|---|---|
| `DaemonTypes` | `Spec => []TypeOK` | one step per action |
| `NoFalseCrash` | `Spec => []CrashedIsGone` | `HolderInv` adds that nobody knows of a session whose holder has no file yet, and that whoever is or was connected is so to a holder that listened |
| `OnlyForAnother` | `Spec => RefusedForAnother` | `NetInv`: daemons that run at the same time have met, a socket that turns up after a daemon removed the file is that of one it met, and the port is held by one that serves; `FilesInv`: a torn file is being written or was left so, and a failing daemon read it then; `RefusalsAreExcused` for the three steps that give up |
| `RevocationsStand` | `MCSpec => RevokedStay` (`TypeOK` and `RevocationStands` of `Membership`) | `SwarmInv`, with one lemma per group of actions |

That a revocation stands is more than `beats`. What is merged or signed beats what
was there, whichever records the passes of `merge` take (`MergeIsSound`); but two
steps take a list as it is. A restart takes the file: it may lack the node's own
revocation, which `leave` keeps in memory, and nothing about another
(`FilesTell`). A node that joined takes its admitter's list: it is outside the
swarm until then and knows nobody as revoked (`OnlyOutside`), which needs that it
waits for one answer at a time (`OneWelcome`) and has left before it joins again
(`Rejoins`).

`RunnerProofs`, from `ActionsAssumption`, for a swarm of any size, any requests,
and views however stale; and from `GateAssumption`, for any calls, requests of
the runner and humans:

| Theorem | Statement | Argument |
|---|---|---|
| `ActionsRunOnce` | `Spec => []RunsAndIsTold` (`RunsOnceAtHome` and `JournalIsTrue`) | `ActionsInv` adds that a node lists only sessions of its own and what a request at each stage has behind it; `OwnersAreHome` and `PeersNeverProxy` are what makes stale views and wrong paths harmless; that a tool's entry comes after the owner's is what is behind a request that was replied to (`Behind`) |
| `GateHeld` | `MCSpec => []GateIsHeld` | `GateInv`: a listed call waits, or its caller is gone, and nobody answered it (`Listed`); who answered is done, and answered one call, once (`Answered`); what is in a call's channel was meant for it (`Meant`) |

`GateIsHeld` compares what a human meant with what became of a call, and both
are far apart: the answer goes through a channel that a timeout may have closed,
by an id that may be "the oldest", to a list from which calls are taken by
position (`Without`). What decides is that no list ever has a call twice, and
that an answer takes its call off the list in the step that fills its channel.

`SessionsProofs`, from `HooksAssumption`, for any receivers and any capacity; and
from `RelayAssumption`, for any number of requests, prompts and faults and any
buffer:

| Theorem | Statement | Argument |
|---|---|---|
| `ReceiversSeeOrder` | `MCSpec => []InOrder` | `HooksInv`: all that was sent is before what the task still has to take (`AllPast`), a round is about one event (`OneRound`), what is out comes after all its receiver saw but late ones (`ComesLater`), and what is still on its way was not seen (`NotSeen`) |
| `RequestsRelayed` | `MCSpec => []RequestsAreRelayed` | `RelayInv`, one lemma per action of agent, holder, session, clients and faults |

`RequestsAreRelayed` has four parts, and none is inductive. An answer is heard
once because a request is, while its agent lives, at one place: in a frame on its
way to the session, pending there, or with its answer on the way (`OnePlaceEach`).
That it is not shown again by a replay whose answer crosses it needs to know that
a replay is what the holder still has when nothing crossed the connection
(`SnapIsFresh`), that a request is in the buffer once (`AskedOnce`: before it is
asked it is nowhere), and which connection there is in each phase (`Links`: a new
session has nothing pending, lines a dead daemon left are read before a new
connection only). That a permission shows follows it from the buffer to the
session (`LastShows`): what the agent asked last is last in the buffer, and on the
connection nothing but the end of a replay comes after it (`Coming`), until it is
pending with the claim made for it (`Held`).

`ClientsProofs`, from `ProxyAssumption`, for any requests, sessions and
websockets; from `ScreenAssumption`, for any sessions, keys, boards and streams;
from `SetupAssumption`, for any machines and any number of runs; and from
`JournalAssumption`, for any sessions, entries, days and connections:

| Theorem | Statement | Argument |
|---|---|---|
| `EditorServed` | `MCSpec => []EditorIsServed` | `ProxyInv`: an answer is a task that is done (`Once`), an id shown to the editor leads to its session (`IdsLead`), and a sender, in the table or held by a task that has yet to use it, is a websocket of its session (`SendersKnown`) |
| `ScreenShown` | `MCSpec => []ScreenIsTrue` | `ScreenInv`: the selection is what the screen shows until a key is handled (`CursorStays`), the keys on their way saw what is still drawn (`KeysSaw`), and a line on its way or shown is of a stream that has seen its request, one per stream (`LinesKnown`, `LinesOnce`) |
| `SetupTellsTrue` | `MCSpec => []RowsAreDone` (`OkMeansInPlace` of `Setup`) | `SetupInv`: the job is that of the row at its turn (`JobAtTurn`), every row passed was in place or could not be (`Passed`), a unit is there before it is enabled (`UnitFirst`), and while no row was left half way what its check does not look at follows the part before it (`Tidy`) |
| `JournalWhole` | `MCSpec => []JournalIsWhole` (`TypeOK`, `WriterTells` and `SeqRises`) | `JournalInv`: what the entries told, with the changes still owed, is the snapshot diffed last (`Owed`), and the files are in the order of seq and end at it (`FilesRise`) |
| `ConnectedSeen` | `MCSpec => []ConnectedSeesAll` | `JournalInv`: an entry is on its way once (`OnceOnItsWay`), what was given is not on its way any more (`Given`), and what was not is (`NoneMissed`) |

The cursor follows its session from board to board, and loses it when a board
misses it. `CursorStays` could be broken by a later board that has the session
again: the cursor, then at the top, would not move back to it, and a key pressed
on the old screen would act on another session. It cannot happen because the
poll reads the roster before each board and boards are handled in order: what a
board has, every earlier one on its way has (`Fades`), so a session that left is
gone for good (`StaysGone`).

The entries of the journal say little: that a session waits, not since when.
`WriterTells` holds over skipped snapshots because `Ahead`, what a follower knows
after the changes it is still owed, is `Known` of the diffed snapshot for every
pair of records that can follow each other, and `Noticed` says which can: a
session that ended stays listed until the writer has seen it, and one that comes
back is new. A client in a replay is told what is new by the last seq alone, the
one number `last`. That is enough because the last line it was given is the
highest (`FilesRise`; `LastOfKnown` has a last place in every set of places, by
the least element of a set of numbers, `LeastOf`), so what a broadcast brings
above it was not given and what it brings below it was. It is not enough across
connections, where two broadcasts may have changed places: see `journal_misses`.

`ExchangeProofs`, from `ExchangeAssumption`, for any number of peers:

| Theorem | Statement | Argument |
|---|---|---|
| `SnapshotsAreSound` | `Spec => []SnapshotsAreDue` (`TypeOK`, `RevokedAreGone` and `StaleIsDated`) | `TypeOK` by one lemma per group of actions, then the inductive invariant `ExchangeInv`; a mark or a stored snapshot touches one entry (`MarkEffect`, `StoredEffect`) and shows nothing new but of a member |

`Mesh::store_snapshot` keeps whatever comes while the node is in no swarm, so
`RevokedAreGone` is not inductive: `OutsideIsQuiet` adds that a node that is in
no swarm, and was not in one since its daemon started, follows nobody and has no
aborted task still running.

Only model-checked, and why:

* Liveness under fairness, and `ENABLED`: outside the prover's reach. That is
  `ListingIsTrue`, `CallsAreSettled`, `AllConverge`, `ViewCatchesUp`,
  `HolderIsServed`, `RelayComesThrough`, `AllHandoffsEnd`, `NoneWaitsForEver`,
  `CallsReturn`, `ToldIsTrue` and `AllSendsReturn`.
* What is computed by a fold, a filter of a sequence or a recursion is induction
  over data, which the installed provers cannot do: `OthersAreKeptAlone` (about
  the filtered entries of a file). For the same reason no theorem says which
  records `Merge` takes: `RevocationsStand` holds whichever it does.

## What is left out

* Formatting, logging, layouts, HTTP, TLS and mDNS: no decision modelled here
  depends on them. The mesh's transport (`mesh/tls.rs`, `mesh/discovery.rs`,
  `mesh/wire.rs`) is libraries and encodings.
* Record fields that no decision reads (usage, load, mode, plan, the list of
  refused claims); how titles, usage and transcripts are found in the harnesses'
  own files.
* Invites, pairing, keys and signatures, taken as sound; the listeners on the
  tailnet; terminals (`api/attach.rs`) but for the splice of a proxied socket.
* The resume limit and the idle sweep's choice, recaps and logins of a session.
* State files are told apart by what recovery looks at (id, suspended), not by
  their name or their version.
* Configuration, doctor, the other commands of the CLI, the tray, the page: they
  read, or make one request and show what they get.

## The plan

1. *Done:* every component that keeps state and meets others: `Roster`,
   `Lifecycle`, `Membership`, `Handoff`, `Relay`, `Exchange`, `Daemon`, `Gate`,
   `Health`, `Actions`, `Journal`, `Hooks`, `AcpProxy`, `Tui`, `Setup`,
   `Integrate`.
2. *Done:* theorems about `Roster` (all its safety properties and the
   refinement), `Lifecycle` (likewise), `Handoff` (likewise), `Daemon`,
   `Membership`, `Exchange`, `Actions`, `Gate`, `Hooks`, `Relay`, `AcpProxy`, `Tui`, `Setup`
   and `Journal`.
3. Still to come: an abstract specification of `Relay` (each request of the agent
   gets one answer, each prompt one result) that it implements; logins.
