-------------------------------- MODULE Setup --------------------------------
(***************************************************************************)
(* The installer (crates/rosterd/src/setup): a checklist whose rows are     *)
(* checked, applied and checked again.  Without a terminal the needed rows  *)
(* run in order (mod.rs `headless`); on one, the screen (tui.rs) queues the *)
(* picked rows and a worker thread applies them one at a time.              *)
(*                                                                         *)
(* A row puts a few parts in place, one after the other; any may fail, and  *)
(* Ctrl-C or a failure leaves the parts before it.                          *)
(*                                                                         *)
(* Abstractions.  One harness stands for the three.  A file is there and    *)
(* current or it is not.  A command ends.  Of the cursor only the row it is *)
(* on when Enter is pressed matters, so it is on any.                       *)
(***************************************************************************)
EXTENDS Naturals, Sequences

CONSTANTS
  Cases,     \* how setup may be started: the mode, the facts of the machine
             \* and the parts already in place
  MaxKeys,   \* bound on the keys pressed on the screen
  MaxRuns    \* bound on the runs without a terminal

(* macos or Linux; systemd --user; bun or npm; the build's siblings of the   *)
(* binary; a display; ~/.local/bin on PATH; packages land on PATH.           *)
Facts == {"macos", "systemd", "npm", "holderBeside", "trayBeside", "display", "onPath", "packagesOnPath"}

Rows == <<"binaries", "path", "config", "service", "daemon", "harness", "adapter", "integration", "tray", "swarm">>
RowSet == {Rows[i] : i \in DOMAIN Rows}
Optional == {"swarm"}
NoRow == "noRow"

(* A service that is enabled has its unit. *)
SetupAssumption == \A s \in Cases : "enabled" \in s.have => "unit" \in s.have

VARIABLES
  mode,      \* "headless" or "screen"
  facts, have,
  daemon,    \* off, starting, up
  spare,     \* daemons started while another one ran
  job, todo, result,  \* the row being applied, the parts it still puts, how it ended
  \* headless
  at, ok, runs,
  clean,     \* history: a machine that had nothing, and no row left half way since
  \* the screen
  seen,      \* the state a row shows
  picked,
  queue,     \* rows to run
  asking,    \* the row whose inputs are asked for
  blocked,   \* the screen's thread waits for the worker's lock
  keys, quit

machine  == <<facts, have, daemon, spare>>
worker   == <<job, todo, result>>
headless == <<at, ok, runs, clean>>
screen   == <<seen, picked, queue, asking, blocked, keys, quit>>
vars     == <<mode, machine, worker, headless, screen>>

-----------------------------------------------------------------------------
(* The rows: check_* and apply_*. *)

Is(fact) == fact \in facts
TrayThere == "trayBin" \in have \/ Is("trayBeside")

BinariesThere == {"rosterd", "holder", "scripts"} \subseteq have

(* `systemctl is-enabled` fails for every unit that is not enabled, and     *)
(* run_capture gives None then, as it does where there is no systemctl.     *)
CheckService ==
  CASE Is("macos")                             -> IF "enabled" \in have THEN "done" ELSE "needed"
    [] ~Is("macos") /\ Is("systemd") /\ "enabled" \in have -> "done"
    [] OTHER                                   -> "unavailable"

CheckPackage(part) ==
  CASE part \in have -> "done"
    [] part \notin have /\ Is("npm") -> "needed"
    [] OTHER -> "unavailable"

CheckTray ==
  CASE "entry" \in have -> "done"
    [] "entry" \notin have /\ TrayThere /\ (Is("macos") \/ Is("display")) -> "needed"
    [] OTHER -> "unavailable"

Check(row) ==
  LET DoneIf(there) == IF there THEN "done" ELSE "needed"
  IN  CASE row = "binaries"    -> DoneIf(BinariesThere)
        [] row = "path"        -> DoneIf((Is("onPath") /\ "scripts" \in have) \/ "export" \in have)
        [] row = "config"      -> DoneIf("config" \in have)
        [] row = "service"     -> CheckService
        [] row = "daemon"      -> DoneIf(daemon = "up")
        [] row = "harness"     -> CheckPackage("claude")
        [] row = "adapter"     -> CheckPackage("claude-agent-acp")
        [] row = "integration" -> DoneIf("hooks" \in have)
        [] row = "tray"        -> CheckTray
        [] row = "swarm"       -> DoneIf("swarm.json" \in have)

(* What a row puts in place, in order.  apply_daemon puts nothing. *)
Parts(row) ==
  CASE row = "binaries"    -> <<"rosterd", "holder", "scripts">> \o (IF Is("trayBeside") THEN <<"trayBin">> ELSE <<>>)
    [] row = "path"        -> <<"export">>
    [] row = "config"      -> <<"config">>
    [] row = "service"     -> <<"unit", "enabled">>
    [] row = "daemon"      -> <<"started", "answers">>
    [] row = "harness"     -> <<"claude">>
    [] row = "adapter"     -> <<"claude-agent-acp">>
    [] row = "integration" -> <<"hooks", "lock">>
    [] row = "tray"        -> <<"entry">>
    [] row = "swarm"       -> <<"swarm.json">>

(* What a part needs to succeed. *)
Possible(part) ==
  CASE part = "rosterd"    -> Is("holderBeside")
    [] part = "enabled"    -> Is("macos") \/ Is("systemd")
    [] part \in {"claude", "claude-agent-acp"} -> Is("npm")
    [] part = "entry"      -> TrayThere
    [] part = "swarm.json" -> daemon = "up"
    [] part = "answers"    -> daemon = "up"
    [] OTHER               -> TRUE

(* A new daemon: it comes up unless one runs, which makes it give up.       *)
NewDaemon ==
  IF daemon = "off"
  THEN daemon' = "starting" /\ UNCHANGED spare
  ELSE spare' = spare + 1 /\ UNCHANGED daemon

Put(part) ==
  CASE part = "enabled" -> have' = have \cup {part} /\ NewDaemon
    \* apply_daemon: restart the service, or spawn one and wait for it
    [] part = "started" -> /\ UNCHANGED have
                           /\ IF CheckService = "done"
                              THEN daemon' = "starting" /\ UNCHANGED spare
                              ELSE NewDaemon
    [] part = "answers" -> UNCHANGED <<have, daemon, spare>>
    \* a global package may land in a directory that is not on PATH
    [] part \in {"claude", "claude-agent-acp"} /\ ~Is("packagesOnPath") ->
         UNCHANGED <<have, daemon, spare>>
    [] OTHER -> have' = have \cup {part} /\ UNCHANGED <<daemon, spare>>

-----------------------------------------------------------------------------
Init ==
  /\ \E s \in Cases : mode = s.mode /\ facts = s.facts /\ have = s.have
  /\ daemon = "off"
  /\ spare = 0
  /\ job = NoRow /\ todo = <<>> /\ result = "none"
  /\ at = 1 /\ ok = TRUE /\ runs = 1 /\ clean = (have = {})
  /\ seen = [r \in RowSet |-> Check(r)]
  /\ picked = {} /\ queue = <<>> /\ asking = NoRow
  /\ blocked = FALSE /\ keys = 0 /\ quit = FALSE

(* The daemon that was started answers, or does not come up. *)
DaemonAnswers ==
  /\ daemon = "starting"
  /\ daemon' \in {"up", "off"}
  /\ UNCHANGED <<mode, facts, have, spare, worker, headless, screen>>

Begins(row) == job' = row /\ todo' = Parts(row) /\ result' = "none"

(* The next part of the row is put, *)
PutsPart ==
  /\ job # NoRow /\ result = "none" /\ todo # <<>>
  /\ Possible(Head(todo))
  /\ Put(Head(todo))
  /\ todo' = Tail(todo)
  /\ result' = IF Len(todo) = 1 THEN "ok" ELSE "none"
  /\ UNCHANGED <<mode, facts, job, headless, screen>>

(* or the row fails: a command or a write failed, 8 s passed, a thing is missing. *)
RowFails ==
  /\ job # NoRow /\ result = "none"
  /\ result' = "failed"
  /\ UNCHANGED <<mode, machine, job, todo, headless, screen>>

-----------------------------------------------------------------------------
(* mod.rs headless: the rows in order, each checked and, if needed, applied. *)

HeadlessChecks ==
  /\ mode = "headless" /\ job = NoRow /\ at <= Len(Rows)
  /\ IF Check(Rows[at]) = "needed" /\ Rows[at] \notin Optional
     THEN Begins(Rows[at]) /\ UNCHANGED at
     ELSE at' = at + 1 /\ UNCHANGED worker
  /\ UNCHANGED <<mode, machine, ok, runs, clean, screen>>

(* Mutant: what was applied without an error is taken for done. *)
RowIsApplied == result = "ok"

RowIsDone == result = "ok" /\ Check(job) = "done"

(* The row was applied: it is checked again. *)
HeadlessGoesOn ==
  /\ mode = "headless" /\ job # NoRow /\ result # "none"
  /\ ok' = (ok /\ RowIsDone)
  /\ clean' = (clean /\ result = "ok")
  /\ at' = at + 1
  /\ job' = NoRow /\ todo' = <<>> /\ result' = "none"
  /\ UNCHANGED <<mode, machine, runs, screen>>

(* Somebody runs it again, also after Ctrl-C. *)
RunsAgain ==
  /\ mode = "headless"
  /\ runs < MaxRuns
  /\ runs' = runs + 1
  /\ at' = 1 /\ ok' = TRUE
  /\ clean' = (clean /\ (job = NoRow \/ result = "ok"))
  /\ job' = NoRow /\ todo' = <<>> /\ result' = "none"
  /\ UNCHANGED <<mode, machine, screen>>

-----------------------------------------------------------------------------
(* tui.rs *)

Runnable(row) == seen[row] = "needed" /\ ~(job = row)

Pressed == mode = "screen" /\ ~quit /\ ~blocked /\ keys < MaxKeys /\ keys' = keys + 1

Space(row) ==
  /\ Pressed /\ asking = NoRow /\ Runnable(row)
  /\ picked' = IF row \in picked THEN picked \ {row} ELSE picked \cup {row}
  /\ UNCHANGED <<mode, machine, worker, headless, seen, queue, asking, blocked, quit>>

AllNeeded ==
  /\ Pressed /\ asking = NoRow
  /\ picked' = {r \in RowSet \ Optional : Runnable(r)}
  /\ UNCHANGED <<mode, machine, worker, headless, seen, queue, asking, blocked, quit>>

(* Enter: the picked rows, or the one under the cursor, up to the first     *)
(* that asks for inputs; the picks after it stay picked.                    *)
Enter(cursor) ==
  /\ Pressed /\ asking = NoRow
  /\ LET targets == IF picked = {} THEN {cursor} ELSE picked
         runnable == SelectSeq(Rows, LAMBDA r : r \in targets /\ Runnable(r))
         quiet == SelectSeq(runnable, LAMBDA r : r \notin Optional)
         asks == {r \in Optional : r \in targets /\ Runnable(r)}
     IN  /\ runnable # <<>>
         \* the one row with inputs is the last
         /\ queue' = queue \o quiet
         /\ asking' = IF asks = {} THEN NoRow ELSE CHOOSE r \in asks : TRUE
         /\ picked' = picked \ {runnable[i] : i \in DOMAIN runnable}
  /\ UNCHANGED <<mode, machine, worker, headless, seen, blocked, quit>>

(* The last input was given, or Esc. *)
Answers(given) ==
  /\ Pressed /\ asking # NoRow
  /\ asking' = NoRow
  /\ queue' = IF given THEN Append(queue, asking) ELSE queue
  /\ UNCHANGED <<mode, machine, worker, headless, seen, picked, blocked, quit>>

(* recheck_all takes the lock, which the worker holds while a row runs.     *)
Recheck ==
  /\ Pressed /\ asking = NoRow
  /\ IF job # NoRow /\ result = "none"
     THEN blocked' = TRUE /\ UNCHANGED seen
     ELSE seen' = [r \in RowSet |-> IF r = job THEN seen[r] ELSE Check(r)] /\ UNCHANGED blocked
  /\ UNCHANGED <<mode, machine, worker, headless, picked, queue, asking, quit>>

Rechecked ==
  /\ blocked /\ result # "none"
  /\ blocked' = FALSE
  /\ seen' = [r \in RowSet |-> IF r = job THEN seen[r] ELSE Check(r)]
  /\ UNCHANGED <<mode, machine, worker, headless, picked, queue, asking, keys, quit>>

(* q waits for a running row; Ctrl-C does not, and what the row had not put *)
(* yet is left out.                                                         *)
Quits(hard) ==
  /\ Pressed /\ asking = NoRow
  /\ hard \/ job = NoRow
  /\ quit' = TRUE
  /\ job' = NoRow /\ todo' = <<>> /\ result' = "none"
  /\ UNCHANGED <<mode, machine, headless, seen, picked, queue, asking, blocked>>

(* drain and finish: the row that ended is checked again; *)
Finishes ==
  /\ mode = "screen" /\ ~quit /\ ~blocked
  /\ job # NoRow /\ result # "none"
  /\ seen' = [seen EXCEPT ![job] = Check(job)]
  /\ job' = NoRow /\ todo' = <<>> /\ result' = "none"
  /\ UNCHANGED <<mode, machine, headless, picked, queue, asking, blocked, keys, quit>>

(* start_next: the next in the queue gets a worker, needed or not. *)
StartsNext ==
  /\ mode = "screen" /\ ~quit /\ ~blocked
  /\ job = NoRow /\ queue # <<>>
  /\ Begins(Head(queue))
  /\ queue' = Tail(queue)
  /\ UNCHANGED <<mode, machine, headless, seen, picked, asking, blocked, keys, quit>>

-----------------------------------------------------------------------------
Next ==
  \/ DaemonAnswers \/ PutsPart \/ RowFails
  \/ HeadlessChecks \/ HeadlessGoesOn \/ RunsAgain
  \/ AllNeeded \/ Recheck \/ Rechecked \/ Finishes \/ StartsNext
  \/ \E r \in RowSet : Space(r) \/ Enter(r)
  \/ \E b \in BOOLEAN : Answers(b) \/ Quits(b)

Spec == Init /\ [][Next]_vars

-----------------------------------------------------------------------------
(* What the machine lets setup put in place.  On Linux that is no service: one *)
(* that is not enabled yet looks to the check as if there could be none.       *)
Allowed(row) ==
  CASE row = "service"                 -> Is("macos")
    [] row \in {"harness", "adapter"}  -> Is("npm")
    [] row = "tray"                    -> TrayThere /\ (Is("macos") \/ Is("display"))
    [] OTHER                           -> TRUE

(* When setup without a terminal says that all went well, every row it may  *)
(* put in place passes its check, also after earlier runs that failed or    *)
(* were cut off half way, and no part of a row is missing that its check    *)
(* looks at.  Two parts have no check, the tray's binary and the entry in   *)
(* adapters.lock: they are there too if the machine had nothing at first    *)
(* and no run since failed or was cut off inside a row; else they may be    *)
(* missing for good, since the row that would put them counts as done.      *)
OkMeansInPlace ==
  mode = "headless" /\ at > Len(Rows) /\ ok =>
    \A r \in RowSet \ Optional :
      /\ Allowed(r) => Check(r) = "done"
      /\ Check(r) = "done" /\ r \in {"binaries", "service", "integration"} =>
           \A i \in DOMAIN Parts(r) :
             Parts(r)[i] \in have \cup (IF clean THEN {} ELSE {"trayBin", "lock"})

(* README: "the service (LaunchAgent on macOS, systemd user unit on Linux)": *)
(* after a run that went well the service is there if there can be one.      *)
ServiceIsInstalled ==
  mode = "headless" /\ at > Len(Rows) /\ ok /\ (Is("macos") \/ Is("systemd")) => "enabled" \in have

(* tui.rs: "Rows run one at a time in a worker thread while the screen      *)
(* keeps drawing".                                                          *)
KeepsDrawing == ~blocked

(* A row that is done is not applied again. *)
DoneIsLeftAlone == [][job' # job /\ job' # NoRow => Check(job') # "done"]_vars
=============================================================================
