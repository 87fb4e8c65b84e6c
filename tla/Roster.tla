------------------------------- MODULE Roster -------------------------------
(***************************************************************************)
(* The table of sessions on one node (crates/rosterd/src/roster/mod.rs) and *)
(* everyone who writes to it: the scanner's passes, the registrations and   *)
(* claims of launchers and hooks, the runner, and the seq file that carries *)
(* activity_seq over a restart of the daemon.                               *)
(*                                                                         *)
(* Every operation of the table runs under its write lock, so it is one     *)
(* step here; a caller that takes the lock twice takes two steps.           *)
(*                                                                         *)
(* Abstractions.  A session key is an element of Keys and stands for one    *)
(* process, pid plus start time.  `name` stands for every field that goes   *)
(* through `fill`; the activity has its own rules and is kept apart.  The   *)
(* event text of a claim, usage, load, mode, plan and the list of refused   *)
(* claims are left out: no decision of the table reads them.                *)
(***************************************************************************)
EXTENDS Integers, Sequences, FiniteSets

CONSTANTS
  Keys,        \* session keys, one per process that ever runs
  Pids,        \* process ids
  PidOf,       \* the pid half of a key; the kernel reuses pids
  Lineage,     \* the ancestors of a process, nearest first
  Harness,     \* the processes that are a harness: hooks and the scanner see them
  Driven,      \* the harnesses the runner starts under a holder
  Names,       \* values of the tracked field
  Activities,  \* the activities a claim may make
  None,        \* no value
  MaxTime,     \* bound on the clock
  MaxSeq,      \* bound on activity_seq
  MaxRestarts, \* bound on restarts of the daemon
  CleanRestarts \* whether the daemon only stops once the seq file is written

ASSUME KeysAssumption ==
  /\ PidOf \in [Keys -> Pids]
  /\ Lineage \in [Keys -> Seq(Keys)]
  /\ \A k \in Keys : \A i \in 1..Len(Lineage[k]) : Lineage[k][i] # k
  /\ Harness \subseteq Keys
  /\ Driven \subseteq Harness
  /\ None \notin Keys
  /\ None \notin Names
ASSUME ActivitiesAssumption ==
  /\ "idle" \in Activities
  /\ "unknown" \notin Activities
ASSUME BoundsAssumption ==
  /\ MaxTime \in Nat \ {0}
  /\ MaxSeq \in Nat
  /\ MaxRestarts \in Nat
  /\ CleanRestarts \in BOOLEAN

-----------------------------------------------------------------------------
(* Source precedence: a lower rank wins.  Unset ranks below every source.   *)

Launcher == 0
Acp      == 1
Hook     == 2
Files    == 3
Scan     == 4
Unset    == 5

Source == Launcher..Scan
Rank   == Launcher..Unset

Overrides(s, prev) == s <= prev

Collapsible == {Hook, Files, Scan}

ResumeReasons  == {"suspended", "expired", "handed_off"}
ProcessReasons == {"exit", "crash", "reboot", "killed"}
Reasons        == ResumeReasons \cup ProcessReasons

Record == [liveness : {"live", "suspended", "ended"},
           reason   : Reasons \cup {None},
           holder   : BOOLEAN,
           name     : Names \cup {None},
           nameBy   : Rank,
           activity : Activities \cup {"unknown"},
           actBy    : Rank,
           at       : 0..MaxTime,      \* 0: no claim yet
           seq      : 0..MaxSeq]

Fresh == [liveness |-> "live", reason |-> None, holder |-> FALSE,
          name |-> None, nameBy |-> Unset,
          activity |-> "unknown", actBy |-> Unset, at |-> 0, seq |-> 0]

-----------------------------------------------------------------------------
VARIABLES
  proc,      \* the processes themselves: unborn, running or dead
  clock,
  sampled,   \* the scanner's last enumeration of the process table
  stray,     \* a harness the pass found unknown and is about to register
  known,     \* the keys that have a record
  rec,       \* the records; Fresh for a key without one
  aliases,   \* nested key to the root it was collapsed into
  seqs,      \* last activity_seq per key, what the seq file is written from
  dirty,     \* seqs was published and the debounced write has not run yet
  file,      \* the seq file
  holders,   \* the holder state file of a key: not yet written, kept or cleaned
  attached,  \* keys whose adapter the runner is connected to
  restarts,
  shown,     \* history: the highest activity_seq ever published for a key
  over       \* history: the keys a record of which has ended

table == <<known, rec, aliases, seqs>>
vars  == <<proc, clock, sampled, stray, known, rec, aliases, seqs, dirty, file,
           holders, attached, restarts, shown, over>>

TypeOK ==
  /\ proc \in [Keys -> {"unborn", "running", "dead"}]
  /\ clock \in 1..MaxTime
  /\ sampled \in SUBSET Keys
  /\ stray \in Keys \cup {None}
  /\ known \in SUBSET Keys
  /\ rec \in [Keys -> Record]
  /\ aliases \in [Keys -> Keys \cup {None}]
  /\ seqs \in [Keys -> 0..MaxSeq]
  /\ dirty \in BOOLEAN
  /\ file \in [Keys -> 0..MaxSeq]
  /\ holders \in [Keys -> {"never", "kept", "cleaned"}]
  /\ attached \in SUBSET Keys
  /\ restarts \in 0..MaxRestarts
  /\ shown \in [Keys -> 0..MaxSeq]
  /\ over \in SUBSET Keys

Init ==
  /\ proc = [k \in Keys |-> "unborn"]
  /\ clock = 1
  /\ sampled = {}
  /\ stray = None
  /\ known = {}
  /\ rec = [k \in Keys |-> Fresh]
  /\ aliases = [k \in Keys |-> None]
  /\ seqs = [k \in Keys |-> 0]
  /\ dirty = FALSE
  /\ file = [k \in Keys |-> 0]
  /\ holders = [k \in Keys |-> "never"]
  /\ attached = {}
  /\ restarts = 0
  /\ shown = [k \in Keys |-> 0]
  /\ over = {}

-----------------------------------------------------------------------------
(* The process table as the daemon reads it.                                *)

(* scanner::is_alive: the last pass, else the process itself. *)
Alive(k) == k \in sampled \/ proc[k] = "running"

(* scanner::ancestors walks the last pass: the i-th ancestor is reached only
   when the process and the ancestors below it are in that pass.            *)
Reached(k) == {i \in 1..Len(Lineage[k]) :
                 /\ k \in sampled
                 /\ \A j \in 1..(i - 1) : Lineage[k][j] \in sampled}

(* The records that are on a pid and have not ended. *)
OnPid(p) == {r \in known : PidOf[r] = p /\ rec[r].liveness # "ended"}

(* The collapse rule: the records on the nearest ancestor pid that has one. *)
Roots(k) ==
  UNION {OnPid(PidOf[Lineage[k][i]]) :
           i \in {n \in Reached(k) :
                    \A m \in 1..(n - 1) : OnPid(PidOf[Lineage[k][m]]) = {}}}

Resolve(k) == IF k \in known \/ aliases[k] = None THEN k ELSE aliases[k]

-----------------------------------------------------------------------------
(* The operations of the table.                                             *)

(* Which record a patch from `s` about `id` lands on. *)
Targets(s, id) ==
  IF id \notin known /\ s \in Collapsible /\ Roots(id) # {} THEN Roots(id) ELSE {id}

(* One field of a patch: stored when the field is null or `s` outranks the
   source that set it; an equal rank overwrites.                            *)
Fill(r, s, v) ==
  IF v # None /\ Overrides(s, r.nameBy) THEN [r EXCEPT !.name = v, !.nameBy = s] ELSE r

FillHolder(r, h) == IF h THEN [r EXCEPT !.holder = TRUE] ELSE r

(* Mutant: a new record starts its counter at zero. *)
FreshBase(k) == IF k \in known THEN rec[k] ELSE Fresh

(* Mutant: a new record goes on one above the counter its key had. *)
NextBase(k) == IF k \in known THEN rec[k] ELSE [Fresh EXCEPT !.seq = seqs[k] + 1]

(* A record created now continues the counter its key had. *)
Base(k) == IF k \in known THEN rec[k] ELSE [Fresh EXCEPT !.seq = seqs[k]]

(* History only: what readers of the snapshot have ever been shown of a key.
   An ended record takes no claim, so it has no new number to show.          *)
Show(k, r) ==
  shown' = IF r.liveness # "ended" /\ r.seq > shown[k] THEN [shown EXCEPT ![k] = r.seq]
           ELSE shown

(* Roster::apply on identity `id`, from source `s`, with an optional name
   and, from the runner, the holder handle.                                 *)
Apply(s, id, t, v, h) ==
  LET r == FillHolder(Fill(Base(t), s, v), h)
  IN  /\ t \in Targets(s, id)
      /\ known' = known \cup {t}
      /\ rec' = [rec EXCEPT ![t] = r]
      /\ aliases' = [aliases EXCEPT ![id] = IF t # id THEN t
                                            ELSE IF id \in known THEN @ ELSE None]
      /\ Show(t, r)
      /\ UNCHANGED <<seqs, dirty, over>>

(* Mutant: claims are taken in the order they arrive. *)
RefusedAnyAge(r, s, at) ==
  \/ r.liveness = "ended"
  \/ ~Overrides(s, r.actBy)

(* An ended record, a claim older than the accepted one, or an outranked
   source: the claim is refused and the record stays as it is.              *)
Refused(r, s, at) ==
  \/ r.liveness = "ended"
  \/ at < r.at
  \/ ~Overrides(s, r.actBy)

(* The record after an accepted claim. *)
Accept(r, s, a, at) ==
  [r EXCEPT !.activity = a, !.actBy = s, !.at = at, !.seq = @ + 1]

(* Roster::claim: on no record it is an error and changes nothing. *)
Claim(s, key, a, at) ==
  LET k == Resolve(key)
  IN  IF k \notin known \/ Refused(rec[k], s, at)
      THEN UNCHANGED <<table, dirty, shown, over>>
      ELSE /\ rec[k].seq < MaxSeq
           /\ rec' = [rec EXCEPT ![k] = Accept(@, s, a, at)]
           /\ seqs' = [seqs EXCEPT ![k] = Accept(rec[k], s, a, at).seq]
           /\ dirty' = TRUE
           /\ Show(k, rec'[k])
           /\ UNCHANGED <<known, aliases, over>>

(* Mutant: a cleared name still belongs to the one who cleared it. *)
NamedForGood(r, s, v) == [r EXCEPT !.name = v, !.nameBy = s]

(* Clearing forgets who set the name, so any source may fill it. *)
Named(r, s, v) == [r EXCEPT !.name = v, !.nameBy = IF v = None THEN Unset ELSE s]

(* Roster::set_name. *)
SetName(s, key, v) ==
  LET k == Resolve(key)
  IN  /\ k \in known
      /\ Overrides(s, rec[k].nameBy)
      /\ rec' = [rec EXCEPT ![k] = Named(@, s, v)]
      /\ UNCHANGED <<known, aliases, seqs, dirty, shown, over>>

(* Mutant: a process ending ends a suspended record too. *)
EndsAny(r, reason) == r.liveness # "ended"

(* Roster::end: the first reason stays, and only a resume, an expiry or a
   handoff ends a suspended record.  With it goes the counter kept for the
   key, though its process may still run: then a later record of that key
   counts from 0 again.                                                     *)
Ends(r, reason) ==
  r.liveness = "live" \/ (r.liveness = "suspended" /\ reason \in ResumeReasons)

End(key, reason) ==
  LET k == Resolve(key)
  IN  /\ k \in known
      /\ IF Ends(rec[k], reason)
         THEN /\ rec' = [rec EXCEPT ![k].liveness = "ended", ![k].reason = reason]
              /\ seqs' = [seqs EXCEPT ![k] = 0]
              /\ dirty' = TRUE
              /\ over' = over \cup {k}
         ELSE UNCHANGED <<rec, seqs, dirty, over>>
      /\ UNCHANGED <<known, aliases, shown>>

(* Roster::suspend: an error on an ended record, a no-op on a suspended one. *)
Suspend(key) ==
  LET k == Resolve(key)
  IN  /\ k \in known
      /\ rec[k].liveness = "live"
      /\ rec' = [rec EXCEPT ![k].liveness = "suspended", ![k].holder = FALSE,
                            ![k].at = IF @ = 0 THEN clock ELSE @]
      /\ UNCHANGED <<known, aliases, seqs, dirty, shown, over>>

(* Mutant: the aliases to a forgotten root stay. *)
ForgetRecords(old) ==
  /\ known' = known \ old
  /\ rec' = [k \in Keys |-> IF k \in old THEN Fresh ELSE rec[k]]
  /\ UNCHANGED <<aliases, seqs, dirty, shown, over>>

(* Roster::sweep: the ended records older than the retention go, and the
   aliases to them.  Which ones are old enough is left open.                *)
Forget(old) ==
  /\ known' = known \ old
  /\ rec' = [k \in Keys |-> IF k \in old THEN Fresh ELSE rec[k]]
  /\ aliases' = [k \in Keys |-> IF aliases[k] \in known \ old THEN aliases[k] ELSE None]
  /\ UNCHANGED <<seqs, dirty, shown, over>>

-----------------------------------------------------------------------------
(* The world: processes come and go, time passes.                           *)

world == <<proc, clock, sampled, stray, file, holders, attached, restarts>>

(* A pid is not handed out again before the scanner has seen its old process
   gone: the kernel does not wrap around within one scan interval.          *)
Start(k) ==
  /\ proc[k] = "unborn"
  /\ Len(Lineage[k]) > 0 => proc[Lineage[k][1]] = "running"
  /\ \A q \in Keys \ {k} : PidOf[q] = PidOf[k] => proc[q] # "running" /\ q \notin sampled
  /\ proc' = [proc EXCEPT ![k] = "running"]
  /\ UNCHANGED <<clock, sampled, stray, table, dirty, file, holders, attached, restarts, shown, over>>

Exit(k) ==
  /\ proc[k] = "running"
  /\ proc' = [proc EXCEPT ![k] = "dead"]
  /\ UNCHANGED <<clock, sampled, stray, table, dirty, file, holders, attached, restarts, shown, over>>

Tick ==
  /\ clock < MaxTime
  /\ clock' = clock + 1
  /\ UNCHANGED <<proc, sampled, stray, table, dirty, file, holders, attached, restarts, shown, over>>

-----------------------------------------------------------------------------
(* The scanner's pass: it samples, registers the strays, ends the sessions
   whose process is gone, names, and sweeps.  Every table operation of the
   pass is a step of its own, and what other writers do falls in between.   *)

Refresh ==
  /\ sampled' = {k \in Keys : proc[k] = "running"}
  /\ UNCHANGED <<proc, clock, stray, table, dirty, file, holders, attached, restarts, shown, over>>

(* Mutant: the scanner leaves the harnesses a runner starts to the runner. *)
FindForeignStray(k) ==
  /\ stray = None
  /\ k \in (sampled \cap Harness) \ Driven
  /\ Resolve(k) \notin known
  /\ stray' = k
  /\ UNCHANGED <<proc, clock, sampled, table, dirty, file, holders, attached, restarts, shown, over>>

(* Parents come before children in the pass.  resolve_key takes the read
   lock and apply the write lock: two steps.                                *)
FindStray(k) ==
  /\ stray = None
  /\ k \in sampled \cap Harness
  /\ Resolve(k) \notin known
  /\ \A i \in 1..Len(Lineage[k]) :
       Lineage[k][i] \in sampled \cap Harness => Resolve(Lineage[k][i]) \in known
  /\ stray' = k
  /\ UNCHANGED <<proc, clock, sampled, table, dirty, file, holders, attached, restarts, shown, over>>

RegisterStray(t) ==
  /\ stray # None
  /\ Apply(Scan, stray, t, None, FALSE)
  /\ stray' = None
  /\ UNCHANGED <<proc, clock, sampled, file, holders, attached, restarts>>

Reap(k) ==
  /\ k \in known
  /\ rec[k].liveness # "ended"
  /\ ~Alive(k)
  /\ End(k, IF rec[k].activity = "idle" THEN "exit" ELSE "crash")
  /\ UNCHANGED world

(* The pane title names a record at the lowest rank, the harness's own files
   one above it.  The record was live when the pass read the snapshot; by
   now it may have ended, which neither operation minds.                    *)
ScanName(k, v) ==
  /\ k \in known
  /\ Apply(Scan, k, k, v, FALSE)
  /\ UNCHANGED world

ScanTitle(k, v) ==
  /\ k \in known
  /\ SetName(Files, k, v)
  /\ UNCHANGED world

Sweep(old) ==
  /\ old # {}
  /\ old \subseteq {k \in known : rec[k].liveness = "ended"}
  /\ Forget(old)
  /\ UNCHANGED world

-----------------------------------------------------------------------------
(* Launchers, hooks and clients on the local socket.                        *)

(* POST /register by pid, and the first half of POST /claim by pid. *)
Register(s, k, t, v) ==
  /\ s \in {Launcher, Hook}
  /\ k \in Harness
  /\ proc[k] = "running"
  /\ Apply(s, k, t, v, FALSE)
  /\ UNCHANGED world

(* POST /claim by session key, and the second half of POST /claim by pid,
   which comes back to the table with the key its registration returned.
   The hook may have observed the activity some time ago.                   *)
ClaimByKey(s, k, a, at) ==
  /\ s \in {Launcher, Hook}
  /\ at <= clock
  /\ Claim(s, k, a, at)
  /\ UNCHANGED world

(* POST /name and the MCP tool session.name; null clears the name. *)
Rename(k, v) ==
  /\ SetName(Hook, k, v)
  /\ UNCHANGED world

-----------------------------------------------------------------------------
(* The runner, seen from the table.                                         *)

(* Runner::register: by session key, as launcher, with the holder handle and
   the name given at start.  Runner::attach calls it with a live adapter.   *)
Attach(k, v) ==
  /\ k \in Driven \ attached
  /\ proc[k] = "running"
  /\ holders[k] # "cleaned"
  /\ \E t \in Keys : Apply(Launcher, Resolve(k), t, v, TRUE)
  /\ holders' = [holders EXCEPT ![k] = "kept"]
  /\ attached' = attached \cup {k}
  /\ UNCHANGED <<proc, clock, sampled, stray, file, restarts>>

(* Runner::restore calls it for a suspended session found at a restart. *)
Restore(k, v) ==
  /\ k \notin known
  /\ holders[k] = "kept"
  /\ proc[k] = "dead"
  /\ \E t \in Keys : Apply(Launcher, Resolve(k), t, v, TRUE)
  /\ UNCHANGED world

(* Runner::claim, on what a connected adapter reports. *)
RunnerClaim(k, a) ==
  /\ k \in attached
  /\ Claim(Acp, k, a, clock)
  /\ UNCHANGED world

RunnerTitle(k, v) ==
  /\ k \in attached
  /\ SetName(Acp, k, v)
  /\ UNCHANGED world

(* Runner::park and Runner::restore; on an ended record only the error. *)
RunnerSuspend(k) ==
  /\ holders[k] = "kept"
  /\ k \in attached \/ rec[k].holder
  /\ IF k \in known /\ rec[k].liveness = "live" THEN Suspend(k)
     ELSE UNCHANGED <<table, dirty, shown, over>>
  /\ attached' = attached \ {k}
  /\ UNCHANGED <<proc, clock, sampled, stray, file, holders, restarts>>

(* drain, dead, unpark, stop and handed_off: the record ends and the state
   file goes.  A resume reason is only given to a record that is not live; a
   crash is also reported when only the connection to the holder is lost.   *)
RunnerEnd(k, reason) ==
  /\ holders[k] = "kept"
  /\ proc[k] = "dead" \/ reason = "crash"
  /\ reason \in ResumeReasons => rec[k].liveness # "live"
  /\ End(k, reason)
  /\ holders' = [holders EXCEPT ![k] = "cleaned"]
  /\ attached' = attached \ {k}
  /\ UNCHANGED <<proc, clock, sampled, stray, file, restarts>>

-----------------------------------------------------------------------------
(* The seq file and a restart of the daemon.                                *)

(* The debounced write takes the newest published map. *)
WriteSeqs ==
  /\ dirty
  /\ file' = seqs
  /\ dirty' = FALSE
  /\ UNCHANGED <<proc, clock, sampled, stray, table, holders, attached, restarts, shown, over>>

(* Mutant: alive means seen in the last pass, and there has been none yet. *)
LoadedFromLastPass == [k \in Keys |-> IF k \in sampled' THEN file[k] ELSE 0]

(* The keys of dead processes are dropped at load. *)
Loaded == [k \in Keys |-> IF proc[k] = "running" THEN file[k] ELSE 0]

(* Everything in memory goes; the counters come back from the file. *)
Restart ==
  /\ restarts < MaxRestarts
  /\ CleanRestarts => ~dirty
  /\ restarts' = restarts + 1
  /\ known' = {}
  /\ rec' = [k \in Keys |-> Fresh]
  /\ aliases' = [k \in Keys |-> None]
  /\ sampled' = {}
  /\ seqs' = Loaded
  /\ dirty' = FALSE
  /\ stray' = None
  /\ attached' = {}
  /\ UNCHANGED <<proc, clock, file, holders, shown, over>>

Next ==
  \/ Tick \/ Refresh \/ WriteSeqs \/ Restart
  \/ \E k \in Keys :
       \/ Start(k) \/ Exit(k) \/ FindStray(k) \/ RegisterStray(k) \/ Reap(k) \/ RunnerSuspend(k)
       \/ \E v \in Names : ScanName(k, v) \/ ScanTitle(k, v) \/ RunnerTitle(k, v)
       \/ \E v \in Names \cup {None} : Rename(k, v) \/ Attach(k, v) \/ Restore(k, v)
       \/ \E s \in Source, t \in Keys, v \in Names \cup {None} : Register(s, k, t, v)
       \/ \E s \in Source, a \in Activities, at \in 1..MaxTime : ClaimByKey(s, k, a, at)
       \/ \E a \in Activities : RunnerClaim(k, a)
       \/ \E r \in Reasons : RunnerEnd(k, r)
  \/ \E old \in SUBSET Keys : Sweep(old)

Spec == Init /\ [][Next]_vars

(* The scanner's loop never stops, and every ended record grows old enough
   for its sweep.  Processes, hooks, clients and restarts owe nothing.      *)
ScanFairness ==
  /\ WF_vars(Refresh)
  /\ \A k \in Keys : WF_vars(FindStray(k)) /\ WF_vars(Reap(k))
  /\ WF_vars(\E k \in Keys : RegisterStray(k))
  /\ \A k \in Keys : WF_vars(Sweep({k}))

FairSpec == Spec /\ ScanFairness

-----------------------------------------------------------------------------
(* Properties.                                                              *)

(* A nested process is collapsed into a record that exists and that is not
   itself nested: apply and sweep keep the alias map and the entries of the
   table in step, so a claim through an alias always finds its record.      *)
AliasesPointAtRecords ==
  \A k \in Keys : aliases[k] # None => k \notin known /\ aliases[k] \in known

(* What `explain` says is true: the name is null exactly when no source is
   on record for it, and the same for the activity, whatever mix of apply,
   claim, set_name and clearing produced the record.                        *)
OriginsAreTruthful ==
  \A k \in known :
    /\ (rec[k].name = None) <=> (rec[k].nameBy = Unset)
    /\ (rec[k].activity = "unknown") <=> (rec[k].actBy = Unset)

(* The counter on a record that has not ended is the one the seq file will
   get: no order of registering, claiming, ending, forgetting and registering
   again, or restarting, lets the two drift apart.                          *)
SeqsFollowRecords ==
  \A k \in known : rec[k].liveness # "ended" => rec[k].seq = seqs[k]

(* The activity_seq on the record of a running process is never behind what
   was published for it before, over restarts of the daemon too, so clients
   that deduplicate on key plus seq see every claim.  Two exceptions are the
   code's own.  The seq file must have been written before the daemon stopped
   (CleanRestarts).  And no record of the process may have ended while it
   ran: `end` drops the counter of the key, so once the ended record is swept,
   or the daemon restarts, the process is registered again from seq 0 and the
   numbers clients saw are handed out a second time.                        *)
SeqIsCurrent ==
  \A k \in known :
    proc[k] = "running" /\ rec[k].liveness # "ended" /\ k \notin over
      => rec[k].seq >= shown[k]

(* While a record stays in the table, a name or an activity changes hands
   only upward or within a rank; the one way down is clearing the name, and
   the API, which clears as a hook, cannot clear what a launcher or the
   agent itself set.                                                        *)
HigherSourceStands ==
  [][\A k \in known \cap known' :
       /\ rec'[k].name # rec[k].name =>
            \/ rec'[k].nameBy <= rec[k].nameBy
            \/ rec'[k].name = None /\ rec[k].nameBy >= Hook
       /\ rec'[k].activity # rec[k].activity => rec'[k].actBy <= rec[k].actBy]_vars

(* Claims reorder in flight, records do not run back: the time of the
   accepted claim never decreases, the counter moves by exactly one and only
   with an accepted claim, and an ended record takes none.                  *)
ClaimsOnlyAdvance ==
  [][\A k \in known \cap known' :
       /\ rec'[k].at >= rec[k].at
       /\ rec'[k].seq # rec[k].seq =>
            /\ rec'[k].seq = rec[k].seq + 1
            /\ rec[k].liveness # "ended"
       /\ rec'[k].activity # rec[k].activity => rec'[k].seq # rec[k].seq]_vars

(* The seq of an accepted claim is above every one published for that key
   before, so a session reattached after a restart never reuses a seq a client
   stored: for a process that still runs and of which no record has ended.  *)
ClaimsAreFresh ==
  [][\A k \in known \cap known' :
       proc[k] = "running" /\ k \notin over /\ rec'[k].seq # rec[k].seq
         => rec'[k].seq > shown[k]]_vars

(* Records run neither back nor down: no source overrules a better one, and
   until a record of a running process ends none of its seqs is handed out
   twice.                                                                   *)
ClaimsStand == HigherSourceStands /\ ClaimsAreFresh

(* The records live the life that RecordLife promises. *)
Life(k) == IF k \in known THEN rec[k].liveness ELSE "absent"

Promise == INSTANCE RecordLife WITH life <- [k \in Keys |-> Life(k)],
                                    why  <- [k \in Keys |-> rec[k].reason]

KeepsPromise == Promise!Spec

(* A running harness is sooner or later listed: under its own key or the
   root it was collapsed into, on a record that has not ended.              *)
Listed(k) == Resolve(k) \in known /\ rec[Resolve(k)].liveness # "ended"

RunningIsListed ==
  \A k \in Harness : proc[k] = "running" ~> (Listed(k) \/ proc[k] = "dead")

(* A session whose process is gone does not stay live. *)
DeadIsNoticed ==
  \A k \in Keys :
    (k \in known /\ rec[k].liveness = "live" /\ proc[k] = "dead")
      ~> ~(k \in known /\ rec[k].liveness = "live")

(* What is listed comes to be what runs. *)
ListingIsTrue == RunningIsListed /\ DeadIsNoticed
=============================================================================
