--------------------------- MODULE LifecycleProofs ---------------------------
(***************************************************************************)
(* Proofs about Lifecycle: a conversation has one home, its file is kept,   *)
(* and the records live the life of RecordLife, for any number of holders   *)
(* and in every environment.                                                *)
(***************************************************************************)
EXTENDS Lifecycle, FiniteSetTheorems, TLAPS

-----------------------------------------------------------------------------
(* The inductive invariant.                                                 *)

(* A process that has not opened its state file has nothing yet. *)
NewAreEmpty ==
  \A h \in Holders :
    /\ proc[h] \in {"unborn", "born"} =>
         /\ disk[h] = NoFile
         /\ found[h] = NoFile
         /\ mem[h] = "blank"
         /\ h \notin owned \cup parked \cup loaded
    /\ proc[h] = "unborn" => phase[h] = "none"
    /\ h \in booted => proc[h] = "killed"

(* The row begins with holder 1. *)
OneIsFirst == proc[1] = "unborn" => \A h \in Holders : proc[h] = "unborn"

(* What is being launched has no id yet. *)
LaunchesAreNew ==
  \A h \in Holders :
    /\ phase[h] = "none" => from[h] = Nobody
    /\ phase[h] # "none" =>
         /\ ~HasId(disk[h])
         /\ mem[h] = "blank"
         /\ found[h] = NoFile
         /\ h \notin parked
    /\ phase[h] \in {"spawned", "unparked"} => h \notin owned \cup loaded

(* The session a launch takes the conversation from does nothing any more. *)
ReplacedAreIdle ==
  \A h \in Holders :
    from[h] # Nobody =>
      /\ proc[from[h]] \notin {"unborn", "born"}
      /\ phase[from[h]] = "none"
      /\ found[from[h]] = NoFile
      /\ from[h] \notin owned

(* A session with an id is connected or parked, never both, and it is marked
   when it is to be parked.                                                 *)
TablesAgree ==
  \A h \in Holders :
    /\ h \in owned => h \notin parked /\ found[h] = NoFile
    /\ h \in parked => mem[h] = "suspended" /\ found[h] = NoFile
    /\ h \in suspending => h \in owned /\ mem[h] = "suspended"
    /\ HasId(mem[h]) => h \in owned \cup parked

(* What recover read is what there is, as long as it is there. *)
FoundIsOnDisk ==
  \A h \in Holders :
    /\ found[h] # NoFile => disk[h] \in {found[h], NoFile}
    /\ halfway = h => found[h] # NoFile /\ (found[h] = "suspended" \/ proc[h] \in {"gone", "killed"})

(* FilesAreHeld while recover is not done. *)
FilesAreKnown ==
  \A h \in Holders :
    HasId(disk[h]) =>
      \/ h \in owned \cup parked
      \/ found[h] = disk[h]
      \/ proc[h] = "leaving" /\ disk[h] = "identified"
      \/ life[h] = "ended" /\ (disk[h] = "suspended" \/ h \in booted)

(* A process that runs is not parked, nor about to be. *)
RunningAreConnected ==
  env.clean =>
    \A h \in Holders :
      Running(h) =>
        /\ h \notin parked
        /\ found[h] # "suspended"
        /\ HasId(disk[h]) => h \in owned \/ found[h] = disk[h]

(* The conversation is h's: its id is on file or in a table under h, h is
   being launched for it, or, where no daemon is killed, h has it.          *)
Bears(h) ==
  \/ HasId(disk[h])
  \/ HasId(mem[h])
  \/ HasId(found[h])
  \/ phase[h] # "none"
  \/ env.clean /\ h \in loaded /\ Running(h)

(* g is being launched to take the conversation from h. *)
Takes(g, h) == phase[g] = "spawned" /\ from[g] = h /\ h \in parked

OneBearer ==
  \A g, h \in Holders : Bears(g) /\ Bears(h) => g = h \/ Takes(g, h) \/ Takes(h, g)

Local ==
  /\ NewAreEmpty /\ OneIsFirst /\ LaunchesAreNew /\ ReplacedAreIdle /\ TablesAgree
  /\ FoundIsOnDisk /\ FilesAreKnown /\ RunningAreConnected

LifecycleInv == TypeOK /\ Local /\ OneBearer
-----------------------------------------------------------------------------
(* A fresh holder is one of the row and has nothing yet. *)
LEMMA FreshIsUnborn ==
  ASSUME TypeOK, NEW h \in Fresh
  PROVE  h \in Holders /\ proc[h] = "unborn"
<1>1. env.holders \in 1..MaxHolders /\ MaxHolders \in Nat
  BY EnvironmentsAssumption DEF TypeOK
<1>2. h \in 1..env.holders /\ proc[h] = "unborn"
  BY DEF Fresh, Unborn
<1>3. QED
  BY <1>1, <1>2 DEF Holders

(* Holder 1 is in the row. *)
LEMMA OneIsHolder == ASSUME TypeOK PROVE 1 \in Holders
<1>1. env.holders \in 1..MaxHolders /\ MaxHolders \in Nat
  BY EnvironmentsAssumption DEF TypeOK
<1>2. QED
  BY <1>1 DEF Holders

(* Nobody is not a holder. *)
LEMMA NobodyIsNone == Nobody \notin Holders
BY EnvironmentsAssumption DEF Nobody, Holders

-----------------------------------------------------------------------------
(* The variables have their types at first ... *)
LEMMA TypesStart == ASSUME Init PROVE TypeOK
<1>1. env \in Environments /\ env.restarts \in Nat
  BY EnvironmentsAssumption DEF Init
<1>2. 0 \in 0..env.restarts
  BY <1>1
<1>3. QED
  BY <1>1, <1>2 DEF Init, TypeOK, File

(* The types of what a resume after a crash writes. *)
LaunchTyped ==
  /\ proc \in [Holders -> {"unborn", "born", "up", "leaving", "gone", "killed"}]
  /\ phase \in [Holders -> {"none", "spawned", "unparked", "loading"}]
  /\ from \in [Holders -> Holders \cup {Nobody}]
  /\ reload \in [Holders -> BOOLEAN]
  /\ cooling \in BOOLEAN

(* A resume after a crash keeps them. *)
LEMMA MaybeResumeTypes ==
  ASSUME TypeOK, NEW file, MaybeResume(file)
  PROVE  LaunchTyped'
<1>1. cooling' \in BOOLEAN
  BY DEF MaybeResume, HasId, TypeOK
<1>2. CASE UNCHANGED <<proc, launch>>
  BY <1>1, <1>2 DEF LaunchTyped, TypeOK, launch
<1>3. ASSUME NEW f \in Fresh, Spawn(f, Nobody, TRUE) PROVE LaunchTyped'
  BY <1>1, <1>3, FreshIsUnborn DEF LaunchTyped, TypeOK, Spawn
<1>4. QED
  BY <1>2, <1>3 DEF MaybeResume

(* ... and in every step. *)
LEMMA TypesStep == ASSUME TypeOK, [Next]_vars PROVE TypeOK'
<1> USE DEF TypeOK, File, HasId, machine, table, session, launch, bounds, recovery
<1>1. ASSUME Start PROVE TypeOK'
  BY <1>1, OneIsHolder DEF Start, Spawn
<1>2. ASSUME CoolDown PROVE TypeOK'
  BY <1>2 DEF CoolDown
<1>3. ASSUME NEW reboot \in BOOLEAN, Restart(reboot) PROVE TypeOK'
  <2>1. restarts' \in 0..env'.restarts
    <3>1. restarts < env.restarts /\ restarts' = restarts + 1 /\ env' = env
      BY <1>3 DEF Restart
    <3>2. restarts \in 0..env.restarts /\ env.restarts \in Nat
      BY EnvironmentsAssumption
    <3> HIDE DEF TypeOK
    <3>3. QED
      BY <3>1, <3>2
  <2>2. /\ proc' \in [Holders -> {"unborn", "born", "up", "leaving", "gone", "killed"}]
        /\ booted' \subseteq Holders
    BY <1>3 DEF Restart
  <2>3. /\ life' \in [Holders -> {"absent", "live", "suspended", "ended"}]
        /\ why' \in [Holders -> ResumeReasons \cup ProcessReasons \cup {NoReason}]
        /\ mem' \in [Holders -> File]
        /\ phase' \in [Holders -> {"none", "spawned", "unparked", "loading"}]
        /\ from' \in [Holders -> Holders \cup {Nobody}]
        /\ reload' \in [Holders -> BOOLEAN]
        /\ halfway' \in Holders \cup {Nobody}
    BY <1>3 DEF Restart
  <2>4. /\ owned' = {} /\ parked' = {} /\ suspending' = {} /\ stopping' = {} /\ cooling' = FALSE
        /\ found' = disk
        /\ UNCHANGED <<termed, loaded, disk, env>>
    BY <1>3 DEF Restart
  <2>5. QED
    <3>1. found' \in [Holders -> File \cup {NoFile}] /\ disk' \in [Holders -> File \cup {NoFile}]
      BY <2>4
    <3>2. termed' \subseteq Holders /\ loaded' \subseteq Holders /\ env' \in Environments
      BY <2>4
    <3>3. /\ owned' \subseteq Holders /\ parked' \subseteq Holders /\ suspending' \subseteq Holders
          /\ stopping' \subseteq Holders /\ cooling' \in BOOLEAN
      BY <2>4
    <3>4. QED
      BY <2>1, <2>2, <2>3, <3>1, <3>2, <3>3
<1>4. ASSUME NEW h \in Holders, Resume(h) PROVE TypeOK'
  BY <1>4, FreshIsUnborn DEF Resume, Spawn
<1>5. ASSUME NEW h \in Holders, LaunchUnparks(h) PROVE TypeOK'
  <2>1. from[h] \in Holders
    BY <1>5 DEF LaunchUnparks
  <2>2. /\ life' \in [Holders -> {"absent", "live", "suspended", "ended"}]
        /\ why' \in [Holders -> ResumeReasons \cup ProcessReasons \cup {NoReason}]
    BY <1>5, <2>1 DEF LaunchUnparks, Ended, ResumeReasons
  <2>3. /\ disk' \in [Holders -> File \cup {NoFile}] /\ mem' \in [Holders -> File]
        /\ phase' \in [Holders -> {"none", "spawned", "unparked", "loading"}]
        /\ parked' \subseteq Holders
    BY <1>5, <2>1 DEF LaunchUnparks, Clean
  <2>4. QED
    BY <1>5, <2>2, <2>3 DEF LaunchUnparks
<1>6. ASSUME NEW h \in Holders, LaunchAttaches(h) PROVE TypeOK'
  BY <1>6 DEF LaunchAttaches, Registered
<1>7. ASSUME NEW h \in Holders, LaunchFails(h) PROVE TypeOK'
  BY <1>7 DEF LaunchFails, Launched, Clean
<1>8. ASSUME NEW h \in Holders, LoadSucceeds(h) PROVE TypeOK'
  BY <1>8 DEF LoadSucceeds, Launched
<1>9. ASSUME NEW h \in Holders, LoadFails(h) PROVE TypeOK'
  BY <1>9 DEF LoadFails, Launched
<1>10. ASSUME NEW h \in Holders, HolderOpens(h) PROVE TypeOK'
  BY <1>10 DEF HolderOpens
<1>11. ASSUME NEW h \in Holders, HolderWrites(h) PROVE TypeOK'
  BY <1>11 DEF HolderWrites
<1>12. ASSUME NEW h \in Holders, AdapterExits(h) PROVE TypeOK'
  BY <1>12 DEF AdapterExits
<1>13. ASSUME NEW h \in Holders, HolderLeaves(h) PROVE TypeOK'
  BY <1>13 DEF HolderLeaves, Clean
<1>14. ASSUME NEW h \in Holders, HolderDies(h) PROVE TypeOK'
  BY <1>14 DEF HolderDies
<1>15. ASSUME NEW h \in Holders, SuspendMarks(h) PROVE TypeOK'
  BY <1>15 DEF SuspendMarks
<1>16. ASSUME NEW h \in Holders, SuspendStops(h) PROVE TypeOK'
  BY <1>16 DEF SuspendStops
<1>17. ASSUME NEW h \in Holders, SuspendGivesUp(h) PROVE TypeOK'
  BY <1>17 DEF SuspendGivesUp
<1>18. ASSUME NEW h \in Holders, Stop(h) PROVE TypeOK'
  BY <1>18 DEF Stop
<1>19. ASSUME NEW h \in Holders, PatchParked(h) PROVE TypeOK'
  BY <1>19 DEF PatchParked
<1>20. ASSUME NEW h \in Holders, DrainParks(h) PROVE TypeOK'
  BY <1>20 DEF DrainParks, Dropped, SuspendedRecord, Down
<1>21. ASSUME NEW h \in Holders, Register(h) PROVE TypeOK'
  BY <1>21 DEF Register, Registered
<1>22. ASSUME NEW h \in Holders, Reattach(h) PROVE TypeOK'
  BY <1>22 DEF Reattach, Turn, Registered, Handled
<1>23. ASSUME NEW h \in Holders, ReattachFails(h) PROVE TypeOK'
  BY <1>23 DEF ReattachFails, Turn, Handled
<1>24. ASSUME NEW h \in Holders, RecoverRegisters(h) PROVE TypeOK'
  BY <1>24 DEF RecoverRegisters, Turn, Registered
<1>25. ASSUME NEW h \in Holders, RestoreParks(h) PROVE TypeOK'
  BY <1>25 DEF RestoreParks, Restores, SuspendedRecord, Handled
<1>26. ASSUME NEW h \in Holders, DeadEnds(h) PROVE TypeOK'
  <2>1. LaunchTyped'
    BY <1>26, MaybeResumeTypes DEF DeadEnds
  <2>2. QED
    <3>1. /\ disk' = [disk EXCEPT ![h] = NoFile] /\ found' = [found EXCEPT ![h] = NoFile]
          /\ halfway' = Nobody
          /\ UNCHANGED <<termed, loaded, booted, session, bounds>>
      BY <1>26 DEF DeadEnds, Clean, Handled
    <3>2. /\ life' \in [Holders -> {"absent", "live", "suspended", "ended"}]
          /\ why' \in [Holders -> ResumeReasons \cup ProcessReasons \cup {NoReason}]
      BY <1>26 DEF DeadEnds, Ended, ProcessReasons
    <3>3. QED
      BY <2>1, <3>1, <3>2 DEF LaunchTyped
<1>27. ASSUME NEW h \in Holders, NEW r \in ResumeReasons \cup ProcessReasons, Discard(h, r) PROVE TypeOK'
  BY <1>27 DEF Discard, Ended, Clean
<1>28. ASSUME NEW h \in Holders, NEW r \in ResumeReasons \cup ProcessReasons, DrainEnds(h, r) PROVE TypeOK'
  <2>1. LaunchTyped'
    <3>1. CASE r = "crash"
      BY <1>28, <3>1, MaybeResumeTypes DEF DrainEnds
    <3>2. CASE r # "crash"
      BY <1>28, <3>2 DEF DrainEnds, LaunchTyped
    <3>3. QED
      BY <3>1, <3>2
  <2>2. QED
    <3>1. /\ disk' \in [Holders -> File \cup {NoFile}] /\ mem' \in [Holders -> File]
          /\ owned' \subseteq Holders /\ suspending' \subseteq Holders /\ stopping' \subseteq Holders
          /\ UNCHANGED <<termed, loaded, booted, parked, found, halfway, restarts, env>>
      BY <1>28 DEF DrainEnds, Clean, Dropped
    <3>2. /\ life' \in [Holders -> {"absent", "live", "suspended", "ended"}]
          /\ why' \in [Holders -> ResumeReasons \cup ProcessReasons \cup {NoReason}]
      BY <1>28 DEF DrainEnds, Ended
    <3>3. QED
      BY <2>1, <3>1, <3>2 DEF LaunchTyped
<1>29. ASSUME NEW h \in Holders, NEW r \in ResumeReasons \cup ProcessReasons, Reap(h, r) PROVE TypeOK'
  BY <1>29 DEF Reap, Ended, Down
<1>30. CASE UNCHANGED vars
  BY <1>30 DEF vars
<1>31. QED
  BY <1>1, <1>2, <1>3, <1>4, <1>5, <1>6, <1>7, <1>8, <1>9, <1>10, <1>11, <1>12, <1>13, <1>14,
     <1>15, <1>16, <1>17, <1>18, <1>19, <1>20, <1>21, <1>22, <1>23, <1>24, <1>25, <1>26, <1>27,
     <1>28, <1>29, <1>30 DEF Next
(* The conjuncts about a single holder hold in every step. *)
LEMMA LocalStep == ASSUME TypeOK, Local, [Next]_vars PROVE Local'
<1> USE NobodyIsNone DEF TypeOK, File, NoFile, HasId, Running, Down, machine, table, session,
   launch, bounds, recovery,
            Local, NewAreEmpty, OneIsFirst, LaunchesAreNew, ReplacedAreIdle,
            TablesAgree, FoundIsOnDisk, FilesAreKnown, RunningAreConnected
<1>1. ASSUME Start PROVE Local'
  <2>1. \A g \in Holders : proc[g] = "unborn"
    BY <1>1 DEF Start
  <2>2. QED
    BY <1>1, <2>1, OneIsHolder DEF Start, Spawn
<1>2. ASSUME CoolDown PROVE Local'
  BY <1>2 DEF CoolDown
<1>3. ASSUME NEW reboot \in BOOLEAN, Restart(reboot) PROVE Local'
  BY <1>3, OneIsHolder DEF Restart, Quiet
<1>4. ASSUME NEW h \in Holders, Resume(h) PROVE Local'
  <2>1. PICK f \in Fresh : Spawn(f, h, TRUE)
    BY <1>4 DEF Resume
  <2>2. f \in Holders /\ proc[f] = "unborn" /\ h \in parked /\ f # h /\ proc[1] # "unborn"
    BY <1>4, FreshIsUnborn DEF Resume
  <2>3. UNCHANGED <<termed, loaded, disk, booted, table, session, cooling, recovery>>
    BY <1>4 DEF Resume
  <2>4. QED
    BY <2>1, <2>2, <2>3, OneIsHolder DEF Spawn
<1>5. ASSUME NEW h \in Holders, LaunchUnparks(h) PROVE Local'
  BY <1>5 DEF LaunchUnparks, Ended, Clean
<1>6. ASSUME NEW h \in Holders, LaunchAttaches(h) PROVE Local'
  BY <1>6 DEF LaunchAttaches, Registered
<1>7. ASSUME NEW h \in Holders, LaunchFails(h) PROVE Local'
  BY <1>7 DEF LaunchFails, Launched, Clean
<1>8. ASSUME NEW h \in Holders, LoadSucceeds(h) PROVE Local'
  BY <1>8 DEF LoadSucceeds, Launched
<1>9. ASSUME NEW h \in Holders, LoadFails(h) PROVE Local'
  BY <1>9 DEF LoadFails, Launched
<1>10. ASSUME NEW h \in Holders, HolderOpens(h) PROVE Local'
  BY <1>10 DEF HolderOpens
<1>11. ASSUME NEW h \in Holders, HolderWrites(h) PROVE Local'
  BY <1>11 DEF HolderWrites
<1>12. ASSUME NEW h \in Holders, AdapterExits(h) PROVE Local'
  BY <1>12 DEF AdapterExits
<1>13. ASSUME NEW h \in Holders, HolderLeaves(h) PROVE Local'
  BY <1>13 DEF HolderLeaves, Clean
<1>14. ASSUME NEW h \in Holders, HolderDies(h) PROVE Local'
  BY <1>14 DEF HolderDies
<1>15. ASSUME NEW h \in Holders, SuspendMarks(h) PROVE Local'
  BY <1>15 DEF SuspendMarks
<1>16. ASSUME NEW h \in Holders, SuspendStops(h) PROVE Local'
  BY <1>16 DEF SuspendStops
<1>17. ASSUME NEW h \in Holders, SuspendGivesUp(h) PROVE Local'
  BY <1>17 DEF SuspendGivesUp
<1>18. ASSUME NEW h \in Holders, Stop(h) PROVE Local'
  BY <1>18 DEF Stop
<1>19. ASSUME NEW h \in Holders, PatchParked(h) PROVE Local'
  BY <1>19 DEF PatchParked
<1>20. ASSUME NEW h \in Holders, DrainParks(h) PROVE Local'
  BY <1>20 DEF DrainParks, Dropped, SuspendedRecord, Down
<1>21. ASSUME NEW h \in Holders, Register(h) PROVE Local'
  BY <1>21 DEF Register, Registered
<1>22. ASSUME NEW h \in Holders, Reattach(h) PROVE Local'
  BY <1>22 DEF Reattach, Turn, Registered, Handled
<1>23. ASSUME NEW h \in Holders, ReattachFails(h) PROVE Local'
  BY <1>23 DEF ReattachFails, Turn, Handled
<1>24. ASSUME NEW h \in Holders, RecoverRegisters(h) PROVE Local'
  BY <1>24 DEF RecoverRegisters, Turn, Registered
<1>25. ASSUME NEW h \in Holders, RestoreParks(h) PROVE Local'
  BY <1>25 DEF RestoreParks, Restores, SuspendedRecord, Handled
<1>26. ASSUME NEW h \in Holders, DeadEnds(h) PROVE Local'
  <2>1. proc[h] \in {"gone", "killed"} /\ found[h] # NoFile /\ h \notin owned \cup parked /\ phase[h] = "none"
    BY <1>26 DEF DeadEnds, Restores
  <2>2. /\ disk' = [disk EXCEPT ![h] = NoFile] /\ found' = [found EXCEPT ![h] = NoFile]
        /\ halfway' = Nobody
        /\ UNCHANGED <<termed, loaded, booted, session, bounds>>
    BY <1>26 DEF DeadEnds, Clean, Handled
  <2>3. \A g \in Holders : life[g] = "ended" => life'[g] = "ended"
    BY <1>26 DEF DeadEnds, Ended
  <2>4. CASE UNCHANGED <<proc, launch>>
    BY <2>1, <2>2, <2>3, <2>4
  <2>5. ASSUME NEW f \in Fresh, Spawn(f, Nobody, TRUE) PROVE Local'
    <3>1. f \in Holders /\ proc[f] = "unborn" /\ f # h /\ proc[1] # "unborn"
      BY <2>1, FreshIsUnborn
    <3>2. QED
      BY <2>1, <2>2, <2>3, <2>5, <3>1, OneIsHolder DEF Spawn
  <2>6. QED
    BY <1>26, <2>4, <2>5 DEF DeadEnds, MaybeResume
<1>27. ASSUME NEW h \in Holders, NEW r \in ResumeReasons \cup ProcessReasons, Discard(h, r) PROVE Local'
  BY <1>27 DEF Discard, Ended, Clean
<1>28. ASSUME NEW h \in Holders, NEW r \in ResumeReasons \cup ProcessReasons, DrainEnds(h, r) PROVE Local'
  <2>1. proc[h] \in {"leaving", "gone", "killed"} /\ h \in owned /\ h \notin suspending
    BY <1>28 DEF DrainEnds
  <2>2. /\ disk' = [disk EXCEPT ![h] = NoFile] /\ mem' = [mem EXCEPT ![h] = "blank"]
        /\ owned' = owned \ {h} /\ suspending' = suspending \ {h}
        /\ UNCHANGED <<termed, loaded, booted, parked, recovery>>
    BY <1>28 DEF DrainEnds, Clean, Dropped
  <2>3. \A g \in Holders : life[g] = "ended" => life'[g] = "ended"
    BY <1>28 DEF DrainEnds, Ended
  <2>4. CASE UNCHANGED <<proc, launch>>
    BY <2>1, <2>2, <2>3, <2>4
  <2>5. ASSUME NEW f \in Fresh, Spawn(f, Nobody, TRUE) PROVE Local'
    <3>1. f \in Holders /\ proc[f] = "unborn" /\ f # h /\ proc[1] # "unborn"
      BY <2>1, FreshIsUnborn
    <3>2. QED
      BY <2>1, <2>2, <2>3, <2>5, <3>1, OneIsHolder DEF Spawn
  <2>6. QED
    BY <1>28, <2>4, <2>5 DEF DrainEnds, MaybeResume
<1>29. ASSUME NEW h \in Holders, NEW r \in ResumeReasons \cup ProcessReasons, Reap(h, r) PROVE Local'
  BY <1>29 DEF Reap, Ended, Down
<1>30. CASE UNCHANGED vars
  BY <1>30 DEF vars
<1> HIDE DEF TypeOK, Local, NewAreEmpty, OneIsFirst, LaunchesAreNew, ReplacedAreIdle,
   TablesAgree, FoundIsOnDisk, FilesAreKnown, RunningAreConnected
<1>31. QED
  BY <1>1, <1>2, <1>3, <1>4, <1>5, <1>6, <1>7, <1>8, <1>9, <1>10, <1>11, <1>12, <1>13, <1>14,
     <1>15, <1>16, <1>17, <1>18, <1>19, <1>20, <1>21, <1>22, <1>23, <1>24, <1>25, <1>26, <1>27,
     <1>28, <1>29, <1>30 DEF Next
(* One holder at a time bears the conversation. *)
LEMMA OneBearerStep == ASSUME TypeOK, Local, OneBearer, [Next]_vars PROVE OneBearer'
<1> USE NobodyIsNone DEF TypeOK, File, NoFile, HasId, Running, Down, machine, table, session,
   launch,
            bounds, recovery, Local, NewAreEmpty, LaunchesAreNew, ReplacedAreIdle, TablesAgree,
            FoundIsOnDisk, RunningAreConnected, OneBearer, Bears, Takes
<1>1. ASSUME Start PROVE OneBearer'
  <2>1. \A g \in Holders : proc[g] = "unborn"
    BY <1>1 DEF Start, OneIsFirst
  <2>2. \A g \in Holders : Bears(g)' => g = 1
    BY <1>1, <2>1, OneIsHolder DEF Start, Spawn
  <2>3. QED
    BY <2>2
<1>2. ASSUME CoolDown PROVE OneBearer'
  BY <1>2 DEF CoolDown
<1>3. ASSUME NEW reboot \in BOOLEAN, Restart(reboot) PROVE OneBearer'
  BY <1>3 DEF Restart, Quiet
<1>4. ASSUME NEW h \in Holders, Resume(h) PROVE OneBearer'
  <2>1. PICK f \in Fresh : Spawn(f, h, TRUE)
    BY <1>4 DEF Resume
  <2>2. f \in Holders /\ proc[f] = "unborn" /\ h \in parked /\ h \notin owned /\ f # h
    BY <1>4, FreshIsUnborn DEF Resume
  <2>3. UNCHANGED <<termed, loaded, disk, booted, table, session, cooling, recovery>>
    BY <1>4 DEF Resume
  <2>4. Takes(f, h)'
    BY <2>1, <2>2, <2>3 DEF Spawn
  <2>5. ASSUME NEW g \in Holders, Bears(g) PROVE g = h
    BY <1>4, <2>2, <2>5 DEF Resume, Resuming
  <2>6. \A g \in Holders : Bears(g)' => g = f \/ Bears(g)
    BY <2>1, <2>2, <2>3 DEF Spawn
  <2> HIDE DEF Bears, Takes
  <2>7. QED
    BY <2>4, <2>5, <2>6
<1>5. ASSUME NEW h \in Holders, LaunchUnparks(h) PROVE OneBearer'
  BY <1>5 DEF LaunchUnparks, Ended, Clean
<1>6. ASSUME NEW h \in Holders, LaunchAttaches(h) PROVE OneBearer'
  BY <1>6 DEF LaunchAttaches, Registered
<1>7. ASSUME NEW h \in Holders, LaunchFails(h) PROVE OneBearer'
  BY <1>7 DEF LaunchFails, Launched, Clean
<1>8. ASSUME NEW h \in Holders, LoadSucceeds(h) PROVE OneBearer'
  BY <1>8 DEF LoadSucceeds, Launched
<1>9. ASSUME NEW h \in Holders, LoadFails(h) PROVE OneBearer'
  BY <1>9 DEF LoadFails, Launched
<1>10. ASSUME NEW h \in Holders, HolderOpens(h) PROVE OneBearer'
  BY <1>10 DEF HolderOpens
<1>11. ASSUME NEW h \in Holders, HolderWrites(h) PROVE OneBearer'
  BY <1>11 DEF HolderWrites
<1>12. ASSUME NEW h \in Holders, AdapterExits(h) PROVE OneBearer'
  BY <1>12 DEF AdapterExits
<1>13. ASSUME NEW h \in Holders, HolderLeaves(h) PROVE OneBearer'
  BY <1>13 DEF HolderLeaves, Clean
<1>14. ASSUME NEW h \in Holders, HolderDies(h) PROVE OneBearer'
  BY <1>14 DEF HolderDies
<1>15. ASSUME NEW h \in Holders, SuspendMarks(h) PROVE OneBearer'
  BY <1>15 DEF SuspendMarks
<1>16. ASSUME NEW h \in Holders, SuspendStops(h) PROVE OneBearer'
  BY <1>16 DEF SuspendStops
<1>17. ASSUME NEW h \in Holders, SuspendGivesUp(h) PROVE OneBearer'
  BY <1>17 DEF SuspendGivesUp
<1>18. ASSUME NEW h \in Holders, Stop(h) PROVE OneBearer'
  BY <1>18 DEF Stop
<1>19. ASSUME NEW h \in Holders, PatchParked(h) PROVE OneBearer'
  BY <1>19 DEF PatchParked
<1>20. ASSUME NEW h \in Holders, DrainParks(h) PROVE OneBearer'
  BY <1>20 DEF DrainParks, Dropped, SuspendedRecord, Down
<1>21. ASSUME NEW h \in Holders, Register(h) PROVE OneBearer'
  BY <1>21 DEF Register, Registered
<1>22. ASSUME NEW h \in Holders, Reattach(h) PROVE OneBearer'
  BY <1>22 DEF Reattach, Turn, Registered, Handled
<1>23. ASSUME NEW h \in Holders, ReattachFails(h) PROVE OneBearer'
  BY <1>23 DEF ReattachFails, Turn, Handled
<1>24. ASSUME NEW h \in Holders, RecoverRegisters(h) PROVE OneBearer'
  BY <1>24 DEF RecoverRegisters, Turn, Registered
<1>25. ASSUME NEW h \in Holders, RestoreParks(h) PROVE OneBearer'
  BY <1>25 DEF RestoreParks, Restores, SuspendedRecord, Handled
<1>26. ASSUME NEW h \in Holders, DeadEnds(h) PROVE OneBearer'
  BY <1>26 DEF DeadEnds, Restores, Ended, Clean, MaybeResume, Spawn, Handled
<1>27. ASSUME NEW h \in Holders, NEW r \in ResumeReasons \cup ProcessReasons, Discard(h, r) PROVE OneBearer'
  BY <1>27 DEF Discard, Ended, Clean
<1>28. ASSUME NEW h \in Holders, NEW r \in ResumeReasons \cup ProcessReasons, DrainEnds(h, r) PROVE OneBearer'
  BY <1>28 DEF DrainEnds, Dropped, Ended, Clean, MaybeResume, Spawn, Down
<1>29. ASSUME NEW h \in Holders, NEW r \in ResumeReasons \cup ProcessReasons, Reap(h, r) PROVE OneBearer'
  BY <1>29 DEF Reap, Ended, Down
<1>30. CASE UNCHANGED vars
  BY <1>30 DEF vars
<1> HIDE DEF TypeOK, Local, OneBearer
<1>31. QED
  BY <1>1, <1>2, <1>3, <1>4, <1>5, <1>6, <1>7, <1>8, <1>9, <1>10, <1>11, <1>12, <1>13, <1>14,
     <1>15, <1>16, <1>17, <1>18, <1>19, <1>20, <1>21, <1>22, <1>23, <1>24, <1>25, <1>26, <1>27,
     <1>28, <1>29, <1>30 DEF Next

(* The invariant holds at first, and in every state. *)
LEMMA LifecycleStart == ASSUME Init PROVE LifecycleInv
<1>1. TypeOK
  BY TypesStart
<1>2. Local
  BY NobodyIsNone DEF Init, Local, NewAreEmpty, OneIsFirst, LaunchesAreNew, ReplacedAreIdle,
     TablesAgree,
     FoundIsOnDisk, FilesAreKnown, RunningAreConnected, HasId, NoFile
<1>3. OneBearer
  BY DEF Init, OneBearer, Bears, HasId, NoFile
<1>4. QED
  BY <1>1, <1>2, <1>3 DEF LifecycleInv

(* The invariant is inductive: every launch, suspension, stop, crash and
   recovery of the runner (runner/mod.rs: launch, suspend, drain, recover) keeps
   it.                                                                        *)
THEOREM InvariantHolds == Spec => []LifecycleInv
<1>1. Init => LifecycleInv
  BY LifecycleStart
<1>2. LifecycleInv /\ [Next]_vars => LifecycleInv'
  BY TypesStep, LocalStep, OneBearerStep DEF LifecycleInv
<1>3. QED
  BY <1>1, <1>2, PTL DEF Spec

-----------------------------------------------------------------------------
(* The files: at most one state file has the conversation's id, and once
   recover is done it belongs to a session that can be resumed or its holder
   is about to take it away.                                                *)
THEOREM FilesKept == Spec => []FilesAreKept
<1>1. LifecycleInv => OneFile
  BY DEF LifecycleInv, OneFile, OneBearer, Bears, Takes, Local, LaunchesAreNew
<1>2. LifecycleInv => FilesAreHeld
  BY DEF LifecycleInv, FilesAreHeld, Recovered, Local, FilesAreKnown, HasId, NoFile
<1>3. LifecycleInv => FilesAreKept
  BY <1>1, <1>2 DEF FilesAreKept, LifecycleInv
<1>4. QED
  BY <1>3, InvariantHolds, PTL

(* Two processes that have the conversation are one. *)
LEMMA HomesAreOne ==
  ASSUME LifecycleInv, env.clean, NEW g \in Homes, NEW h \in Homes
  PROVE  g = h
<1>1. g \in Holders /\ h \in Holders /\ Bears(g) /\ Bears(h)
  BY DEF LifecycleInv, TypeOK, Homes, Bears
<1>2. phase[g] # "spawned" /\ phase[h] # "spawned"
  BY <1>1 DEF LifecycleInv, Local, LaunchesAreNew, Homes
<1>3. QED
  BY <1>1, <1>2 DEF LifecycleInv, OneBearer, Takes

(* What is parked is the only session parked, and has no process. *)
LEMMA ParkedIsOne ==
  ASSUME LifecycleInv, env.clean, NEW h \in parked
  PROVE  Homes = {} /\ parked = {h}
<1>1. h \in Holders /\ Bears(h) /\ phase[h] = "none"
  BY DEF LifecycleInv, TypeOK, Local, TablesAgree, LaunchesAreNew, Bears, HasId
<1>2. ASSUME NEW g \in parked PROVE g = h
  <2>1. g \in Holders /\ Bears(g) /\ phase[g] = "none"
    BY DEF LifecycleInv, TypeOK, Local, TablesAgree, LaunchesAreNew, Bears, HasId
  <2>2. QED
    BY <1>1, <2>1 DEF LifecycleInv, OneBearer, Takes
<1>3. ASSUME NEW g \in Homes PROVE FALSE
  <2>1. g \in Holders /\ Bears(g) /\ phase[g] # "spawned" /\ Running(g)
    BY DEF LifecycleInv, TypeOK, Local, LaunchesAreNew, Homes, Bears
  <2>2. g = h
    BY <1>1, <2>1 DEF LifecycleInv, OneBearer, Takes
  <2>3. QED
    BY <2>1, <2>2 DEF LifecycleInv, Local, RunningAreConnected
<1>4. QED
  BY <1>2, <1>3

(* Where the daemon is never stopped in the middle of something, no two
   processes have the conversation: no race of resumes, crashes and stops
   leads there.                                                             *)
THEOREM OneHome == Spec => []SingleHome
<1>1. ASSUME LifecycleInv, env.clean PROVE Cardinality(Homes) <= 1
  <2>1. CASE Homes = {}
    BY <2>1, FS_EmptySet
  <2>2. ASSUME NEW h \in Homes PROVE Cardinality(Homes) <= 1
    <3>1. Homes = {h}
      BY <1>1, HomesAreOne
    <3>2. QED
      BY <3>1, FS_Singleton
  <2>3. QED
    BY <2>1, <2>2
<1>2. LifecycleInv => SingleHome
  BY <1>1 DEF SingleHome
<1>3. QED
  BY <1>2, InvariantHolds, PTL

(* ... and what is parked, to be resumed, is running nowhere. *)
THEOREM ParkedIsNotRunning == Spec => []ParkedOrRunning
<1>1. ASSUME LifecycleInv, env.clean, parked # {} PROVE Homes = {} /\ Cardinality(parked) = 1
  <2>1. PICK h \in parked : TRUE
    BY <1>1
  <2>2. Homes = {} /\ parked = {h}
    BY <1>1, ParkedIsOne
  <2>3. QED
    BY <2>2, FS_Singleton
<1>2. LifecycleInv => ParkedOrRunning
  BY <1>1 DEF ParkedOrRunning
<1>3. QED
  BY <1>2, InvariantHolds, PTL

-----------------------------------------------------------------------------
(* A record that is registered appears, or is there already ... *)
LEMMA RegisteredMaps ==
  ASSUME TypeOK, NEW h \in Holders, Registered(h), UNCHANGED why
  PROVE  [Promise!Next]_<<life, why>>
<1>1. CASE life[h] = "absent"
  <2>1. Promise!Appear(h)
    BY <1>1 DEF Registered, Promise!Appear
  <2>2. QED
    BY <2>1 DEF Promise!Next
<1>2. CASE life[h] # "absent"
  BY <1>2 DEF Registered, TypeOK
<1>3. QED
  BY <1>1, <1>2

(* ... one that is suspended was live ... *)
LEMMA SuspendedMaps ==
  ASSUME TypeOK, NEW h \in Holders, SuspendedRecord(h), UNCHANGED why
  PROVE  [Promise!Next]_<<life, why>>
<1>1. CASE life[h] = "live"
  <2>1. Promise!Suspend(h)
    BY <1>1 DEF SuspendedRecord, Promise!Suspend
  <2>2. QED
    BY <2>1 DEF Promise!Next
<1>2. CASE life[h] # "live"
  BY <1>2 DEF SuspendedRecord, TypeOK
<1>3. QED
  BY <1>1, <1>2

(* ... and one that is ended ends once. *)
LEMMA EndedMaps ==
  ASSUME NEW h \in Holders, NEW r \in ResumeReasons \cup ProcessReasons, Ended(h, r)
  PROVE  [Promise!Next]_<<life, why>>
<1>1. CASE life[h] = "live" \/ (life[h] = "suspended" /\ r \in ResumeReasons)
  <2>1. Promise!Finish(h, r)
    BY <1>1 DEF Ended, Promise!Finish, Promise!Reasons
  <2>2. QED
    BY <2>1 DEF Promise!Next, Promise!Reasons
<1>2. CASE ~(life[h] = "live" \/ (life[h] = "suspended" /\ r \in ResumeReasons))
  BY <1>2 DEF Ended, table
<1>3. QED
  BY <1>1, <1>2

(* The records live the life that RecordLife promises: the lifecycle of the
   runner, scanner and recovery implements it.                              *)
THEOREM LifeIsPromised == Spec => KeepsPromise
<1>1. Init => Promise!Init
  BY DEF Init, Promise!Init
<1>2. ASSUME LifecycleInv, [Next]_vars PROVE [Promise!Next]_<<life, why>>
  <2> USE <1>2 DEF LifecycleInv
  <2>1. ASSUME Start PROVE [Promise!Next]_<<life, why>>
    BY <2>1 DEF Start, table
  <2>2. ASSUME CoolDown PROVE [Promise!Next]_<<life, why>>
    BY <2>2 DEF CoolDown, table
  <2>3. ASSUME NEW reboot \in BOOLEAN, Restart(reboot) PROVE [Promise!Next]_<<life, why>>
    <3>1. Promise!Restart
      BY <2>3 DEF Restart, Promise!Restart
    <3>2. QED
      BY <3>1 DEF Promise!Next
  <2>4. ASSUME NEW h \in Holders, Resume(h) PROVE [Promise!Next]_<<life, why>>
    BY <2>4 DEF Resume, table
  <2>5. ASSUME NEW h \in Holders, LaunchUnparks(h) PROVE [Promise!Next]_<<life, why>>
    <3>1. from[h] \in Holders
      BY <2>5 DEF LaunchUnparks, TypeOK
    <3>2. QED
      BY <2>5, <3>1, EndedMaps DEF LaunchUnparks, ResumeReasons
  <2>6. ASSUME NEW h \in Holders, LaunchAttaches(h) PROVE [Promise!Next]_<<life, why>>
    BY <2>6, RegisteredMaps DEF LaunchAttaches
  <2>7. ASSUME NEW h \in Holders, LaunchFails(h) PROVE [Promise!Next]_<<life, why>>
    BY <2>7 DEF LaunchFails, table
  <2>8. ASSUME NEW h \in Holders, LoadSucceeds(h) PROVE [Promise!Next]_<<life, why>>
    BY <2>8 DEF LoadSucceeds, table
  <2>9. ASSUME NEW h \in Holders, LoadFails(h) PROVE [Promise!Next]_<<life, why>>
    BY <2>9 DEF LoadFails, table
  <2>10. ASSUME NEW h \in Holders, HolderOpens(h) PROVE [Promise!Next]_<<life, why>>
    BY <2>10 DEF HolderOpens, table
  <2>11. ASSUME NEW h \in Holders, HolderWrites(h) PROVE [Promise!Next]_<<life, why>>
    BY <2>11 DEF HolderWrites, table
  <2>12. ASSUME NEW h \in Holders, AdapterExits(h) PROVE [Promise!Next]_<<life, why>>
    BY <2>12 DEF AdapterExits, table
  <2>13. ASSUME NEW h \in Holders, HolderLeaves(h) PROVE [Promise!Next]_<<life, why>>
    BY <2>13 DEF HolderLeaves, table
  <2>14. ASSUME NEW h \in Holders, HolderDies(h) PROVE [Promise!Next]_<<life, why>>
    BY <2>14 DEF HolderDies, table
  <2>15. ASSUME NEW h \in Holders, SuspendMarks(h) PROVE [Promise!Next]_<<life, why>>
    BY <2>15 DEF SuspendMarks, table
  <2>16. ASSUME NEW h \in Holders, SuspendStops(h) PROVE [Promise!Next]_<<life, why>>
    BY <2>16 DEF SuspendStops, table
  <2>17. ASSUME NEW h \in Holders, SuspendGivesUp(h) PROVE [Promise!Next]_<<life, why>>
    BY <2>17 DEF SuspendGivesUp, table
  <2>18. ASSUME NEW h \in Holders, Stop(h) PROVE [Promise!Next]_<<life, why>>
    BY <2>18 DEF Stop, table
  <2>19. ASSUME NEW h \in Holders, PatchParked(h) PROVE [Promise!Next]_<<life, why>>
    BY <2>19 DEF PatchParked, table
  <2>20. ASSUME NEW h \in Holders, DrainParks(h) PROVE [Promise!Next]_<<life, why>>
    BY <2>20, SuspendedMaps DEF DrainParks
  <2>21. ASSUME NEW h \in Holders, Register(h) PROVE [Promise!Next]_<<life, why>>
    BY <2>21, RegisteredMaps DEF Register
  <2>22. ASSUME NEW h \in Holders, Reattach(h) PROVE [Promise!Next]_<<life, why>>
    BY <2>22, RegisteredMaps DEF Reattach
  <2>23. ASSUME NEW h \in Holders, ReattachFails(h) PROVE [Promise!Next]_<<life, why>>
    BY <2>23 DEF ReattachFails, table
  <2>24. ASSUME NEW h \in Holders, RecoverRegisters(h) PROVE [Promise!Next]_<<life, why>>
    BY <2>24, RegisteredMaps DEF RecoverRegisters
  <2>25. ASSUME NEW h \in Holders, RestoreParks(h) PROVE [Promise!Next]_<<life, why>>
    BY <2>25, SuspendedMaps DEF RestoreParks, table
  <2>26. ASSUME NEW h \in Holders, DeadEnds(h) PROVE [Promise!Next]_<<life, why>>
    BY <2>26, EndedMaps DEF DeadEnds, ProcessReasons
  <2>27. ASSUME NEW h \in Holders, NEW r \in ResumeReasons \cup ProcessReasons, Discard(h, r)
         PROVE  [Promise!Next]_<<life, why>>
    BY <2>27, EndedMaps DEF Discard
  <2>28. ASSUME NEW h \in Holders, NEW r \in ResumeReasons \cup ProcessReasons, DrainEnds(h, r)
         PROVE  [Promise!Next]_<<life, why>>
    BY <2>28, EndedMaps DEF DrainEnds
  <2>29. ASSUME NEW h \in Holders, NEW r \in ResumeReasons \cup ProcessReasons, Reap(h, r)
         PROVE  [Promise!Next]_<<life, why>>
    BY <2>29, EndedMaps DEF Reap
  <2>30. CASE UNCHANGED vars
    BY <2>30 DEF vars, table
  <2>31. QED
    BY <2>1, <2>2, <2>3, <2>4, <2>5, <2>6, <2>7, <2>8, <2>9, <2>10, <2>11, <2>12, <2>13, <2>14,
       <2>15, <2>16, <2>17, <2>18, <2>19, <2>20, <2>21, <2>22, <2>23, <2>24, <2>25, <2>26,
       <2>27, <2>28, <2>29, <2>30 DEF Next
<1>3. QED
  BY <1>1, <1>2, InvariantHolds, PTL DEF Spec, KeepsPromise, Promise!Spec
=============================================================================
