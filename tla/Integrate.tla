------------------------------ MODULE Integrate ------------------------------
(***************************************************************************)
(* `rosterd integrate install | uninstall` (crates/rosterd/src/integrate.rs)*)
(* on one hooks file of a harness and the adapter lock beside it.  Several  *)
(* may run at once (the command line, a row of setup), and the harness      *)
(* writes its own settings into the same file.                              *)
(*                                                                         *)
(* Abstractions.  The file holds the list of one event; an entry is the set *)
(* of its commands.  "hook" is what install writes now, "old hook" what an  *)
(* older rosterd wrote, the rest is the user's.  A file that does not parse *)
(* stands for one that was renamed half written.                            *)
(***************************************************************************)
EXTENDS Naturals, Sequences, SequencesExt

CONSTANTS
  Procs,     \* the installs and uninstalls
  Files,     \* what the file may hold at the start
  MaxRuns,   \* bound on their runs
  MaxEdits   \* bound on the harness's own writes

Ours == {"hook", "old hook"}
Half == <<{"half"}>>     \* not JSON
NoFile == <<{"no file"}>>

VARIABLES
  disk,      \* the hooks file
  tmp,       \* its temporary sibling, one for all: what it holds
  whole,     \* whether it was written to its end
  pc, op,    \* where a run is; what it does
  base,      \* the file as it read it
  lock,      \* the harness's entry of adapters.lock is there
  runs, edits

vars == <<disk, tmp, whole, pc, op, base, lock, runs, edits>>

Init ==
  /\ disk \in Files
  /\ tmp = NoFile /\ whole = FALSE
  /\ pc = [p \in Procs |-> "off"]
  /\ op = [p \in Procs |-> "install"]
  /\ base = [p \in Procs |-> <<>>]
  /\ lock = FALSE
  /\ runs = 0 /\ edits = 0

IsMarked(entry) == entry \cap Ours # {}
Others(list)    == SelectSeq(list, LAMBDA e : ~IsMarked(e))
Marked(list)    == SelectSeq(list, IsMarked)

(* Mutant: only an entry that is exactly ours goes. *)
MergesBeside(list) == Append(SelectSeq(list, LAMBDA e : e # {"hook"}), {"hook"})

(* merge_hooks: one entry of ours, where the first marked one was. *)
Merged(list) ==
  LET first == {i \in DOMAIN list : IsMarked(list[i]) /\ \A j \in 1..(i - 1) : ~IsMarked(list[j])}
      place == IF first = {} THEN Len(list) + 1 ELSE CHOOSE i \in first : TRUE
  IN  InsertAt(Others(list), IF place > Len(Others(list)) + 1 THEN Len(Others(list)) + 1 ELSE place, {"hook"})

Wanted(p) == IF op[p] = "install" THEN Merged(base[p]) ELSE Others(base[p])

-----------------------------------------------------------------------------
At(p, here, there) == pc[p] = here /\ pc' = [pc EXCEPT ![p] = there]

(* read_hooks_file: a file that does not parse is an error. *)
Reads(p, what) ==
  /\ pc[p] = "off"
  /\ runs < MaxRuns
  /\ runs' = runs + 1
  /\ op' = [op EXCEPT ![p] = what]
  /\ base' = [base EXCEPT ![p] = disk]
  /\ pc' = [pc EXCEPT ![p] = IF disk = Half THEN "off" ELSE "read"]
  /\ UNCHANGED <<disk, tmp, whole, lock, edits>>

(* Nothing is written when it would not change. *)
Skips(p) ==
  /\ At(p, "read", "locking")
  /\ Wanted(p) = disk
  /\ UNCHANGED <<disk, tmp, whole, op, base, lock, runs, edits>>

(* write_if_changed: the temporary file is written ... *)
Opens(p) ==
  /\ At(p, "read", "writing")
  /\ Wanted(p) # disk
  /\ tmp' = Wanted(p) /\ whole' = FALSE
  /\ UNCHANGED <<disk, op, base, lock, runs, edits>>

Writes(p) ==
  /\ At(p, "writing", "written")
  /\ tmp' = Wanted(p) /\ whole' = TRUE
  /\ UNCHANGED <<disk, op, base, lock, runs, edits>>

(* ... and renamed, which fails when another run renamed it meanwhile. *)
Renames(p) ==
  /\ pc[p] = "written"
  /\ IF tmp = NoFile
     THEN pc' = [pc EXCEPT ![p] = "off"] /\ UNCHANGED <<disk, tmp, whole>>
     ELSE /\ pc' = [pc EXCEPT ![p] = "locking"]
          /\ disk' = IF whole THEN tmp ELSE Half
          /\ tmp' = NoFile /\ whole' = FALSE
  /\ UNCHANGED <<op, base, lock, runs, edits>>

(* The entry of adapters.lock, last. *)
Locks(p) ==
  /\ At(p, "locking", "off")
  /\ lock' = (op[p] = "install")
  /\ UNCHANGED <<disk, tmp, whole, op, base, runs, edits>>

(* A write fails, or the run is cut off. *)
Fails(p) ==
  /\ pc[p] # "off"
  /\ pc' = [pc EXCEPT ![p] = "off"]
  /\ UNCHANGED <<disk, tmp, whole, op, base, lock, runs, edits>>

(* The harness adds a hook of the user's. *)
HarnessWrites ==
  /\ disk # Half
  /\ edits < MaxEdits
  /\ edits' = edits + 1
  /\ disk' = Append(disk, {"new"})
  /\ UNCHANGED <<tmp, whole, pc, op, base, lock, runs>>

Next ==
  \/ HarnessWrites
  \/ \E p \in Procs :
       \/ Reads(p, "install") \/ Reads(p, "uninstall")
       \/ Skips(p) \/ Opens(p) \/ Writes(p) \/ Renames(p) \/ Locks(p) \/ Fails(p)

Spec == Init /\ [][Next]_vars

-----------------------------------------------------------------------------
(* A run whose file was not written by anybody between its read and its     *)
(* rename keeps the user's entries in their order and leaves exactly one    *)
(* entry of rosterd's, or none; a second run then has nothing to write.     *)
OthersAreKeptAlone ==
  [][\A p \in Procs :
       pc[p] = "written" /\ pc'[p] = "locking" /\ base[p] = disk /\ tmp = Wanted(p) /\ whole =>
         /\ Others(disk') = Others(disk)
         /\ Marked(disk') = IF op[p] = "install" THEN <<{"hook"}>> ELSE <<>>
         /\ op[p] = "install" => Merged(disk') = disk']_vars

(* SPEC R14.3: "only marked entries are ours, everything else is kept": a   *)
(* run never loses a command of the user's.                                 *)
UsersCommands(list) == UNION {list[i] : i \in DOMAIN list} \ Ours
EverythingElseIsKept ==
  [][disk # Half /\ disk' # Half => UsersCommands(disk) \subseteq UsersCommands(disk')]_vars

(* SPEC R14.3: "atomic writes": the file always parses. *)
AtomicWrites == disk # Half
=============================================================================
