------------------------------ MODULE Lifecycle ------------------------------
(***************************************************************************)
(* One conversation of a headless harness, carried over a row of holders:   *)
(* the runner (crates/rosterd/src/runner/mod.rs) starts, suspends, resumes, *)
(* stops and recovers it, the holder process (crates/holder/src/main.rs)    *)
(* keeps its state file, the scanner ends records whose process is gone,    *)
(* and the daemon may stop, be killed or lose the machine at any point.     *)
(*                                                                         *)
(* A holder h in Holders stands for the holder process with its       *)
(* adapter, its files, its session key and the record under that key; the   *)
(* numbers follow the order in which they are started.                      *)
(*                                                                         *)
(* Abstractions.  Every agent can load sessions.  A holder that is killed   *)
(* takes its adapter along, which loses its stdin.  The resume limit, the   *)
(* idle timeout and a health mark only refuse a call, so a refused call is  *)
(* one not made.  Time is left open: whatever waits may give up.            *)
(***************************************************************************)
EXTENDS Naturals, FiniteSets

CONSTANTS
  MaxHolders,   \* no behaviour starts more holders
  Environments  \* what a behaviour may meet, chosen at its start:
                \*   holders   bound on the holders started for the conversation
                \*   restarts  bound on the restarts of the daemon
                \*   reboots   whether a restart may be one of the machine
                \*   clean     whether the daemon only stops when the runner is Quiet
                \*   giveups   whether a holder may miss the 5 s to record a suspension

ASSUME EnvironmentsAssumption ==
  /\ MaxHolders \in Nat
  /\ Environments \subseteq [holders : 1..MaxHolders, restarts : Nat, reboots : BOOLEAN,
                            clean : BOOLEAN, giveups : BOOLEAN]

Holders == 1..MaxHolders
Nobody  == 0

(* What matters of a state file: has it the harness session id, and is it
   marked suspended?  Only a session with an id is ever marked.             *)
File   == {"blank", "identified", "suspended"}
NoFile == "none"
HasId(f) == f \in {"identified", "suspended"}

ResumeReasons  == {"suspended", "expired", "handed_off"}
ProcessReasons == {"exit", "crash", "reboot", "killed"}
NoReason       == "none"

-----------------------------------------------------------------------------
VARIABLES
  \* the machine
  proc,       \* unborn, born (no file yet), up, leaving (adapter gone, holder
              \* cleaning up), gone, or killed on the way
  termed,     \* holders that were sent SIGTERM
  loaded,     \* adapters that were given the conversation
  disk,       \* the state files
  booted,     \* holders started before the last reboot
  \* the roster
  life, why,  \* liveness and end reason of the records
  \* the runner, lost when the daemon goes
  owned,      \* Runner.sessions: connected holders
  parked,     \* Runner.parked: suspended sessions
  mem,        \* the session's copy of the state file
  suspending, stopping,   \* the flags of a session
  phase,      \* how far Runner::launch is with a holder
  from,       \* the parked key a launch replaces; Nobody for a start or a crash
  reload,     \* whether a launch loads the conversation or opens it
  cooling,    \* the conversation crashed within the last five minutes
  found,      \* what list_states read and recover has still to handle
  halfway,    \* the holder recover has registered and not yet parked or ended
  restarts,
  env         \* the environment of this behaviour

machine == <<proc, termed, loaded, disk, booted>>
table   == <<life, why>>
session == <<owned, parked, mem, suspending, stopping>>
launch  == <<phase, from, reload>>
bounds  == <<restarts, env>>
recovery == <<found, halfway, bounds>>
vars == <<machine, table, session, launch, cooling, recovery>>

TypeOK ==
  /\ proc \in [Holders -> {"unborn", "born", "up", "leaving", "gone", "killed"}]
  /\ {termed, loaded, booted, owned, parked, suspending, stopping} \subseteq SUBSET Holders
  /\ disk \in [Holders -> File \cup {NoFile}]
  /\ life \in [Holders -> {"absent", "live", "suspended", "ended"}]
  /\ why \in [Holders -> ResumeReasons \cup ProcessReasons \cup {NoReason}]
  /\ mem \in [Holders -> File]
  /\ phase \in [Holders -> {"none", "spawned", "unparked", "loading"}]
  /\ from \in [Holders -> Holders \cup {Nobody}]
  /\ reload \in [Holders -> BOOLEAN]
  /\ cooling \in BOOLEAN
  /\ found \in [Holders -> File \cup {NoFile}]
  /\ halfway \in Holders \cup {Nobody}
  /\ env \in Environments
  /\ restarts \in 0..env.restarts

Init ==
  /\ proc = [h \in Holders |-> "unborn"]
  /\ disk = [h \in Holders |-> NoFile]
  /\ life = [h \in Holders |-> "absent"]
  /\ why = [h \in Holders |-> NoReason]
  /\ mem = [h \in Holders |-> "blank"]
  /\ termed = {}
  /\ loaded = {}
  /\ booted = {}
  /\ owned = {}
  /\ parked = {}
  /\ suspending = {}
  /\ stopping = {}
  /\ phase = [h \in Holders |-> "none"]
  /\ from = [h \in Holders |-> Nobody]
  /\ reload = [h \in Holders |-> FALSE]
  /\ cooling = FALSE
  /\ found = [h \in Holders |-> NoFile]
  /\ halfway = Nobody
  /\ restarts = 0
  /\ env \in Environments

Running(h) == proc[h] \in {"born", "up"}
Down(h)    == proc[h] \in {"leaving", "gone", "killed"}

-----------------------------------------------------------------------------
(* The table, as Roster.tla has it.                                         *)

Registered(h) == life' = [life EXCEPT ![h] = IF @ = "absent" THEN "live" ELSE @]

(* Mutant: a later reason replaces an earlier one. *)
EndedAgain(h, reason) ==
  life' = [life EXCEPT ![h] = "ended"] /\ why' = [why EXCEPT ![h] = reason]

Ended(h, reason) ==
  IF life[h] = "live" \/ (life[h] = "suspended" /\ reason \in ResumeReasons)
  THEN life' = [life EXCEPT ![h] = "ended"] /\ why' = [why EXCEPT ![h] = reason]
  ELSE UNCHANGED table

SuspendedRecord(h) == life' = [life EXCEPT ![h] = IF @ = "live" THEN "suspended" ELSE @]

(* Paths::clean *)
Clean(h) == disk' = [disk EXCEPT ![h] = NoFile]

(* A session leaves Runner.sessions, and what it kept with it. *)
Dropped(h) ==
  /\ owned' = owned \ {h}
  /\ suspending' = suspending \ {h}
  /\ stopping' = stopping \ {h}

(* Runner::launch returns. *)
Launched(h) ==
  /\ phase' = [phase EXCEPT ![h] = "none"]
  /\ from' = [from EXCEPT ![h] = Nobody]
  /\ reload' = [reload EXCEPT ![h] = FALSE]

-----------------------------------------------------------------------------
(* Runner::launch.                                                          *)

Unborn == {h \in 1..env.holders : proc[h] = "unborn"}
Fresh == {h \in Unborn : \A g \in Unborn : h <= g}

(* holder::spawn. *)
Spawn(h, old, again) ==
  /\ proc' = [proc EXCEPT ![h] = "born"]
  /\ phase' = [phase EXCEPT ![h] = "spawned"]
  /\ from' = [from EXCEPT ![h] = old]
  /\ reload' = [reload EXCEPT ![h] = again]

Recovered == \A h \in Holders : found[h] = NoFile

(* `resuming`: one resume at a time, on the whole node. *)
Resuming == {h \in Holders : phase[h] # "none" /\ from[h] # Nobody}

(* POST /sessions.  The API is only served once recover is done. *)
Start ==
  /\ Recovered
  /\ proc[1] = "unborn"
  /\ Spawn(1, Nobody, FALSE)
  /\ UNCHANGED <<termed, loaded, disk, booted, table, session, cooling, recovery>>

(* Mutant: resumes do not wait for each other. *)
ResumeAtOnce(old) ==
  /\ Recovered
  /\ old \in parked \ owned
  /\ \E h \in Fresh : Spawn(h, old, TRUE)
  /\ UNCHANGED <<termed, loaded, disk, booted, table, session, cooling, recovery>>

(* Runner::resume, by hand or from a prompt for a suspended key. *)
Resume(old) ==
  /\ Recovered
  /\ Resuming = {}
  /\ old \in parked \ owned
  /\ \E h \in Fresh : Spawn(h, old, TRUE)
  /\ UNCHANGED <<termed, loaded, disk, booted, table, session, cooling, recovery>>

(* Runner::maybe_resume: one resume per crash, and none within five minutes
   of the crash before.                                                     *)
MaybeResume(file) ==
  /\ cooling' = (cooling \/ HasId(file))
  /\ IF HasId(file) /\ ~cooling /\ Unborn # {}
     THEN \E h \in Fresh : Spawn(h, Nobody, TRUE)
     ELSE UNCHANGED <<proc, launch>>

(* Mutant: the old key's entry is left where it was. *)
LaunchKeepsParked(h) ==
  /\ phase[h] = "spawned"
  /\ from[h] # Nobody
  /\ disk[h] # NoFile
  /\ phase' = [phase EXCEPT ![h] = "unparked"]
  /\ Ended(from[h], "suspended")
  /\ UNCHANGED <<machine, session, from, reload, cooling, recovery>>

(* The state file is there and the socket answers: the old key ends. *)
LaunchUnparks(h) ==
  /\ phase[h] = "spawned"
  /\ from[h] # Nobody
  /\ disk[h] # NoFile
  /\ phase' = [phase EXCEPT ![h] = "unparked"]
  /\ parked' = parked \ {from[h]}
  /\ IF from[h] \in parked THEN Clean(from[h]) ELSE UNCHANGED disk
  /\ mem' = [mem EXCEPT ![from[h]] = "blank"]
  /\ Ended(from[h], "suspended")
  /\ UNCHANGED <<proc, termed, loaded, booted, owned, suspending, stopping,
                 from, reload, cooling, recovery>>

(* Runner::attach, and the request that opens or loads the conversation. *)
LaunchAttaches(h) ==
  /\ phase[h] = IF from[h] = Nobody THEN "spawned" ELSE "unparked"
  /\ proc[h] = "up"
  /\ phase' = [phase EXCEPT ![h] = "loading"]
  /\ owned' = owned \cup {h}
  /\ mem' = [mem EXCEPT ![h] = "blank"]
  /\ loaded' = IF reload[h] THEN loaded \cup {h} ELSE loaded
  /\ Registered(h)
  /\ UNCHANGED <<proc, termed, disk, booted, why, parked, suspending, stopping,
                 from, reload, cooling, recovery>>

(* No state file, no socket or no adapter in time: the holder is stopped and
   its files go.  A key unparked by then stays ended.                       *)
LaunchFails(h) ==
  /\ phase[h] \in {"spawned", "unparked"}
  /\ Launched(h)
  /\ termed' = termed \cup {h}
  /\ Clean(h)
  /\ UNCHANGED <<proc, loaded, booted, table, session, cooling, recovery>>

(* The agent answers session/load, or session/new with or without an id: an
   agent that wants a login stays up without a session.                     *)
LoadSucceeds(h) ==
  /\ phase[h] = "loading"
  /\ h \in owned
  /\ Launched(h)
  /\ \E opened \in {TRUE, reload[h]} :
       /\ mem' = [mem EXCEPT ![h] = IF opened THEN "identified" ELSE "blank"]
       /\ loaded' = IF opened THEN loaded \cup {h} ELSE loaded
  /\ UNCHANGED <<proc, termed, disk, booted, table, owned, parked, suspending, stopping,
                 cooling, recovery>>

(* Mutant: a request that was waiting when the connection closed waits on. *)
LoadFailsWhileConnected(h) ==
  /\ phase[h] = "loading"
  /\ h \in owned
  /\ Launched(h)
  /\ stopping' = stopping \cup {h}
  /\ termed' = termed \cup {h}
  /\ UNCHANGED <<proc, loaded, disk, booted, table, owned, parked, mem, suspending,
                 cooling, recovery>>

(* The agent answers with an error, or is gone: the holder is stopped. *)
LoadFails(h) ==
  /\ phase[h] = "loading"
  /\ Launched(h)
  /\ stopping' = IF h \in owned THEN stopping \cup {h} ELSE stopping
  /\ termed' = termed \cup {h}
  /\ UNCHANGED <<proc, loaded, disk, booted, table, owned, parked, mem, suspending,
                 cooling, recovery>>

-----------------------------------------------------------------------------
(* The holder process.                                                      *)

(* The state file, before anyone can connect. *)
HolderOpens(h) ==
  /\ proc[h] = "born"
  /\ proc' = [proc EXCEPT ![h] = "up"]
  /\ disk' = [disk EXCEPT ![h] = "blank"]
  /\ UNCHANGED <<termed, loaded, booted, table, session, launch, cooling, recovery>>

(* The SetState frames the daemon sent, in order, so the last one stands. *)
HolderWrites(h) ==
  /\ h \in owned
  /\ proc[h] \in {"up", "leaving"}
  /\ disk[h] \notin {NoFile, mem[h]}
  /\ disk' = [disk EXCEPT ![h] = mem[h]]
  /\ UNCHANGED <<proc, termed, loaded, booted, table, session, launch, cooling, recovery>>

(* The adapter exits, by itself or because the SIGTERM was forwarded. *)
AdapterExits(h) ==
  /\ proc[h] = "up"
  /\ proc' = [proc EXCEPT ![h] = "leaving"]
  /\ UNCHANGED <<termed, loaded, disk, booted, table, session, launch, cooling, recovery>>

(* Holder::exited, after the Exited frame: only a suspended session keeps its
   state file.                                                              *)
HolderLeaves(h) ==
  /\ proc[h] = "leaving"
  /\ proc' = [proc EXCEPT ![h] = "gone"]
  /\ IF disk[h] = "suspended" THEN UNCHANGED disk ELSE Clean(h)
  /\ UNCHANGED <<termed, loaded, booted, table, session, launch, cooling, recovery>>

(* The holder itself is killed: no frame, and the files stay. *)
HolderDies(h) ==
  /\ Running(h)
  /\ proc' = [proc EXCEPT ![h] = "killed"]
  /\ UNCHANGED <<termed, loaded, disk, booted, table, session, launch, cooling, recovery>>

-----------------------------------------------------------------------------
(* Suspending and stopping.                                                 *)

(* Runner::suspend, by hand, by the idle sweep and by an export: both flags,
   then the frame to the holder.                                            *)
SuspendMarks(h) ==
  /\ h \in owned
  /\ HasId(mem[h])
  /\ suspending' = suspending \cup {h}
  /\ mem' = [mem EXCEPT ![h] = "suspended"]
  /\ UNCHANGED <<machine, table, owned, parked, stopping, launch, cooling, recovery>>

(* Only once the mark is on disk is the holder stopped. *)
SuspendStops(h) ==
  /\ h \in owned \cap suspending
  /\ disk[h] = "suspended"
  /\ h \notin termed
  /\ termed' = termed \cup {h}
  /\ UNCHANGED <<proc, loaded, disk, booted, table, session, launch, cooling, recovery>>

(* The mark is not on disk within five seconds.  The session's copy of the
   state keeps it.                                                          *)
SuspendGivesUp(h) ==
  /\ env.giveups
  /\ h \in owned \cap suspending
  /\ disk[h] # "suspended"
  /\ suspending' = suspending \ {h}
  /\ UNCHANGED <<machine, table, owned, parked, mem, stopping, launch, cooling, recovery>>

(* DELETE of a running session. *)
Stop(h) ==
  /\ Recovered
  /\ h \in owned \ stopping
  /\ stopping' = stopping \cup {h}
  /\ termed' = termed \cup {h}
  /\ UNCHANGED <<proc, loaded, disk, booted, table, owned, parked, mem, suspending,
                 launch, cooling, recovery>>

(* DELETE of a suspended session, and handed_off after an export. *)
Discard(h, reason) ==
  /\ Recovered
  /\ reason \in {"expired", "handed_off"}
  /\ h \in parked \ owned
  /\ parked' = parked \ {h}
  /\ mem' = [mem EXCEPT ![h] = "blank"]
  /\ Clean(h)
  /\ Ended(h, reason)
  /\ UNCHANGED <<proc, termed, loaded, booted, owned, suspending, stopping,
                 launch, cooling, recovery>>

(* patch_parked rewrites the state file from the daemon's copy. *)
PatchParked(h) ==
  /\ Recovered
  /\ h \in parked \ owned
  /\ disk' = [disk EXCEPT ![h] = mem[h]]
  /\ UNCHANGED <<proc, termed, loaded, booted, table, session, launch, cooling, recovery>>

-----------------------------------------------------------------------------
(* Runner::drain, when the Exited frame arrives or the connection is lost.  *)

(* Runner::park *)
DrainParks(h) ==
  /\ h \in owned \cap suspending
  /\ Down(h)
  /\ Dropped(h)
  /\ parked' = parked \cup {h}
  /\ SuspendedRecord(h)
  /\ UNCHANGED <<machine, why, mem, launch, cooling, recovery>>

(* Runner::ended.  The exit code tells exit from crash; a holder that is gone
   without a frame counts as a crash, even when it was being stopped.       *)
DrainEnds(h, reason) ==
  /\ h \in owned \ suspending
  /\ Down(h)
  /\ reason \in IF proc[h] = "killed" THEN {"crash"}
                ELSE IF h \in stopping THEN {"killed"} ELSE {"exit", "crash"}
  /\ Dropped(h)
  /\ mem' = [mem EXCEPT ![h] = "blank"]
  /\ Ended(h, reason)
  /\ Clean(h)
  /\ IF reason = "crash" THEN MaybeResume(mem[h]) ELSE UNCHANGED <<proc, launch, cooling>>
  /\ UNCHANGED <<termed, loaded, booted, parked, recovery>>

(* RESUME_COOLDOWN passes. *)
CoolDown ==
  /\ cooling
  /\ cooling' = FALSE
  /\ UNCHANGED <<machine, table, session, launch, recovery>>

-----------------------------------------------------------------------------
(* The scanner.                                                             *)

Register(h) ==
  /\ life[h] = "absent"
  /\ Running(h)
  /\ Registered(h)
  /\ UNCHANGED <<machine, why, session, launch, cooling, recovery>>

(* Idle at the time means it exited, anything else is a crash. *)
Reap(h, reason) ==
  /\ life[h] = "live"
  /\ Down(h)
  /\ reason \in {"exit", "crash"}
  /\ Ended(h, reason)
  /\ UNCHANGED <<machine, session, launch, cooling, recovery>>

-----------------------------------------------------------------------------
(* The daemon stops, or the machine does, and the runner recovers.          *)

(* No launch is under way, no suspension either or one that was given up on,
   whose mark stays, and no frame is on its way to a holder.                *)
Quiet ==
  \A h \in Holders :
    /\ phase[h] = "none"
    /\ h \in owned => mem[h] # "suspended" /\ (Running(h) => disk[h] = mem[h])

(* Everything in memory goes; list_states reads the directory. *)
Restart(reboot) ==
  /\ restarts < env.restarts
  /\ reboot => env.reboots
  /\ env.clean => Quiet
  /\ restarts' = restarts + 1
  /\ life' = [h \in Holders |-> "absent"]
  /\ why' = [h \in Holders |-> NoReason]
  /\ mem' = [h \in Holders |-> "blank"]
  /\ owned' = {}
  /\ parked' = {}
  /\ suspending' = {}
  /\ stopping' = {}
  /\ phase' = [h \in Holders |-> "none"]
  /\ from' = [h \in Holders |-> Nobody]
  /\ reload' = [h \in Holders |-> FALSE]
  /\ cooling' = FALSE
  /\ found' = disk
  /\ halfway' = Nobody
  /\ IF reboot
     THEN /\ proc' = [h \in Holders |-> IF proc[h] = "unborn" THEN "unborn" ELSE "killed"]
          /\ booted' = {h \in Holders : proc[h] # "unborn"}
     ELSE UNCHANGED <<proc, booted>>
  /\ UNCHANGED <<termed, loaded, disk, env>>

(* recover goes by started_at. *)
Turn(h) ==
  /\ found[h] # NoFile
  /\ \A g \in Holders : found[g] # NoFile => h <= g

Handled(h) == found' = [found EXCEPT ![h] = NoFile] /\ halfway' = Nobody

(* The socket answers and the adapter has a start time. *)
Reattach(h) ==
  /\ Turn(h)
  /\ found[h] # "suspended"
  /\ proc[h] = "up"
  /\ owned' = owned \cup {h}
  /\ mem' = [mem EXCEPT ![h] = found[h]]
  /\ Registered(h)
  /\ Handled(h)
  /\ UNCHANGED <<machine, why, parked, suspending, stopping, launch, cooling, bounds>>

(* The holder still answers and its adapter is gone: an error in the log. *)
ReattachFails(h) ==
  /\ Turn(h)
  /\ halfway = Nobody
  /\ found[h] # "suspended"
  /\ proc[h] = "leaving"
  /\ Handled(h)
  /\ UNCHANGED <<machine, table, session, launch, cooling, bounds>>

(* Runner::restore and Runner::dead register the session first... *)
RecoverRegisters(h) ==
  /\ Turn(h)
  /\ halfway = Nobody
  /\ found[h] = "suspended" \/ proc[h] \in {"gone", "killed"}
  /\ Registered(h)
  /\ halfway' = h
  /\ UNCHANGED <<machine, why, session, launch, cooling, found, bounds>>

Restores(h) == found[h] = "suspended" \/ (h \in booted /\ HasId(found[h]))

(* ...then restore suspends it and parks it, unless its record has ended
   meanwhile...                                                             *)
RestoreParks(h) ==
  /\ halfway = h
  /\ Restores(h)
  /\ IF life[h] = "ended"
     THEN UNCHANGED <<disk, table, parked, mem>>
     ELSE /\ SuspendedRecord(h)
          /\ disk' = [disk EXCEPT ![h] = "suspended"]
          /\ mem' = [mem EXCEPT ![h] = "suspended"]
          /\ parked' = parked \cup {h}
          /\ UNCHANGED why
  /\ Handled(h)
  /\ UNCHANGED <<proc, termed, loaded, booted, owned, suspending, stopping, launch, cooling, bounds>>

(* Mutant: a dead holder's session is ended and its file forgotten. *)
DeadEndsOnly(h) ==
  /\ halfway = h
  /\ ~Restores(h)
  /\ Ended(h, IF h \in booted THEN "reboot" ELSE "crash")
  /\ Handled(h)
  /\ UNCHANGED <<machine, session, launch, cooling, bounds>>

(* ...and dead ends it, cleans up and resumes a crashed conversation. *)
DeadEnds(h) ==
  /\ halfway = h
  /\ ~Restores(h)
  /\ Ended(h, IF h \in booted THEN "reboot" ELSE "crash")
  /\ Clean(h)
  /\ MaybeResume(found[h])
  /\ Handled(h)
  /\ UNCHANGED <<termed, loaded, booted, session, bounds>>

Next ==
  \/ Start \/ CoolDown
  \/ \E reboot \in BOOLEAN : Restart(reboot)
  \/ \E h \in Holders :
       \/ Resume(h) \/ LaunchUnparks(h) \/ LaunchAttaches(h) \/ LaunchFails(h)
       \/ LoadSucceeds(h) \/ LoadFails(h)
       \/ HolderOpens(h) \/ HolderWrites(h) \/ AdapterExits(h) \/ HolderLeaves(h) \/ HolderDies(h)
       \/ SuspendMarks(h) \/ SuspendStops(h) \/ SuspendGivesUp(h)
       \/ Stop(h) \/ PatchParked(h) \/ DrainParks(h)
       \/ Register(h) \/ Reattach(h) \/ ReattachFails(h)
       \/ RecoverRegisters(h) \/ RestoreParks(h) \/ DeadEnds(h)
       \/ \E r \in ResumeReasons \cup ProcessReasons :
            Discard(h, r) \/ DrainEnds(h, r) \/ Reap(h, r)

Spec == Init /\ [][Next]_vars

(* What runs by itself: the runner's tasks, the holder process, and a process
   that was sent SIGTERM, which gets SIGKILL five seconds later.  Clients, the
   scanner, agents and restarts owe nothing.                                *)
TaskFairness ==
  \A h \in Holders :
    /\ WF_vars(LaunchUnparks(h) \/ LaunchAttaches(h) \/ LaunchFails(h))
    /\ WF_vars(LoadFails(h) /\ h \notin owned)
    /\ WF_vars(HolderOpens(h)) /\ WF_vars(HolderWrites(h)) /\ WF_vars(HolderLeaves(h))
    /\ WF_vars(AdapterExits(h) /\ h \in termed)
    /\ WF_vars(SuspendStops(h))
    /\ WF_vars(DrainParks(h) \/ \E r \in ProcessReasons : DrainEnds(h, r))
    /\ WF_vars(Reattach(h) \/ ReattachFails(h) \/ RecoverRegisters(h))
    /\ WF_vars(RestoreParks(h) \/ DeadEnds(h))

FairSpec == Spec /\ TaskFairness

(* Agents answer session/new and session/load. *)
AgentsAnswer == \A h \in Holders : WF_vars(LoadSucceeds(h) \/ LoadFails(h))

-----------------------------------------------------------------------------
(* Properties.                                                              *)

(* The processes that have the conversation. *)
Homes == {h \in loaded : Running(h)}

(* One conversation is never live in two processes: not through two prompts
   for one suspended key, a resume after a crash racing one by hand, or a
   recovery.  Two would both write the harness's one transcript.  A daemon
   that is killed while it works may leave two.                             *)
SingleHome == env.clean => Cardinality(Homes) <= 1

(* What can still be resumed is not running anywhere: while a session is
   parked no process has the conversation, and only one key is parked.      *)
ParkedOrRunning ==
  env.clean /\ parked # {} => Homes = {} /\ Cardinality(parked) = 1

(* The conversation is on file, or a launch is under way that took it from a
   file.                                                                    *)
Remembered ==
  \E h \in Holders : HasId(disk[h]) \/ (phase[h] # "none" /\ reload[h])

(* A restart of the daemon loses nothing: a conversation it had on file, or
   was resuming from a file, is on file for the next one.                   *)
NothingIsLost == [][restarts' # restarts /\ Remembered => Remembered']_vars

(* No crash, at whatever point, leaves two state files with the conversation's
   id behind: recovery could bring it back twice.                           *)
OneFile ==
  \A g, h \in Holders : HasId(disk[g]) /\ HasId(disk[h]) => g = h

(* The files and the runner's tables agree once recover is done: a state file
   with an id belongs to a session that is connected or parked, or its holder
   is about to take it away.  The one exception is a session whose record had
   ended before restore could suspend it.                                   *)
FilesAreHeld ==
  Recovered => \A h \in Holders :
    HasId(disk[h]) =>
      \/ h \in owned \cup parked
      \/ proc[h] = "leaving"
      \/ life[h] = "ended" /\ (disk[h] = "suspended" \/ h \in booted)

(* No crash leaves the conversation on file twice, or on file and forgotten. *)
FilesAreKept == TypeOK /\ OneFile /\ FilesAreHeld

(* The records of the row live the life that RecordLife promises. *)
Promise == INSTANCE RecordLife WITH Keys <- Holders, None <- NoReason
KeepsPromise == Promise!Spec

(* A suspension that was asked for settles: the holder goes and the session
   is parked, or the call fails and the session goes on.                    *)
SuspendSettles == owned \cap suspending # {} ~> owned \cap suspending = {}

(* A session that was stopped goes. *)
StopSettles == owned \cap stopping # {} ~> owned \cap stopping = {}

(* A resume finishes, so the next one gets its turn, as long as the agents
   answer: whatever else fails or goes away on the way gives the one lock
   back.                                                                    *)
ResumesFinish == AgentsAnswer => (Resuming # {} ~> Resuming = {})

(* What was asked of a session comes to an end, one way or the other. *)
CallsSettle == SuspendSettles /\ StopSettles /\ ResumesFinish
=============================================================================
