---------------------------- MODULE RosterProofs ----------------------------
(***************************************************************************)
(* What holds of the roster for every set of processes, lineage and bound.  *)
(*                                                                         *)
(* First each operation of the table is shown to keep the state well typed  *)
(* (one lemma per operation); type correctness, and from it the invariants  *)
(* and the refinement, then go action by action.                            *)
(***************************************************************************)
EXTENDS Roster, TLAPS

(* What the type invariant says of the part the operations write. *)
TableOK ==
  /\ known \in SUBSET Keys
  /\ rec \in [Keys -> Record]
  /\ aliases \in [Keys -> Keys \cup {None}]
  /\ seqs \in [Keys -> 0..MaxSeq]
  /\ dirty \in BOOLEAN
  /\ shown \in [Keys -> 0..MaxSeq]
  /\ over \in SUBSET Keys

(* The rest of it. *)
WorldOK ==
  /\ proc \in [Keys -> {"unborn", "running", "dead"}]
  /\ clock \in 1..MaxTime
  /\ sampled \in SUBSET Keys
  /\ stray \in Keys \cup {None}
  /\ file \in [Keys -> 0..MaxSeq]
  /\ holders \in [Keys -> {"never", "kept", "cleaned"}]
  /\ attached \in SUBSET Keys
  /\ restarts \in 0..MaxRestarts

(* The type invariant is those two halves. *)
LEMMA Halves == TypeOK <=> TableOK /\ WorldOK
BY DEF TypeOK, TableOK, WorldOK

(* A record that does not exist yet is well typed. *)
LEMMA FreshType == Fresh \in Record
BY BoundsAssumption DEF Fresh, Record, Rank, Unset, Launcher, Reasons

(* The roots of a process are records, and so is what a patch lands on,
   unless it is the process itself.                                         *)
LEMMA TargetsAreKeys ==
  ASSUME TypeOK, NEW s, NEW id \in Keys, NEW t \in Targets(s, id)
  PROVE  t \in Keys /\ (t # id => t \in known /\ id \notin known)
<1>1. Roots(id) \subseteq known
  BY DEF Roots, OnPid
<1>2. QED
  BY <1>1 DEF Targets, TypeOK

(* resolve returns a key. *)
LEMMA ResolveIsKey ==
  ASSUME TypeOK, NEW k \in Keys
  PROVE  Resolve(k) \in Keys
BY DEF Resolve, TypeOK

(* apply keeps the table well typed. *)
LEMMA ApplyType ==
  ASSUME TypeOK, NEW s \in Source, NEW id \in Keys, NEW t, NEW v \in Names \cup {None},
         NEW h, Apply(s, id, t, v, h)
  PROVE  TableOK'
<1>1. t \in Keys
  BY TargetsAreKeys DEF Apply
<1>2. Base(t) \in Record /\ Base(t).seq \in 0..MaxSeq
  <2>1. CASE t \in known
    BY <2>1, <1>1 DEF Base, TypeOK, Record
  <2>2. CASE t \notin known
    BY <2>2, <1>1, FreshType DEF Base, TypeOK, Record, Fresh
  <2>3. QED  BY <2>1, <2>2
<1>3. s \in Rank
  BY DEF Source, Rank, Launcher, Scan, Unset
<1> DEFINE f == Fill(Base(t), s, v)
           r == FillHolder(f, h)
<1>4. f \in Record
  BY <1>2, <1>3 DEF Fill, Record
<1>5. r \in Record /\ r.seq \in 0..MaxSeq
  BY <1>4 DEF FillHolder, Record
<1> HIDE DEF f, r
<1>6. known' = known \cup {t} /\ rec' = [rec EXCEPT ![t] = r] /\ Show(t, r)
      /\ UNCHANGED <<seqs, dirty, over>>
  BY DEF Apply, f, r
<1>7. shown' \in [Keys -> 0..MaxSeq]
  BY <1>1, <1>5, <1>6 DEF Show, TypeOK
<1>8. aliases' \in [Keys -> Keys \cup {None}]
  BY <1>1 DEF Apply, TypeOK
<1>9. QED
  BY <1>1, <1>5, <1>6, <1>7, <1>8 DEF TypeOK, TableOK

(* An accepted claim leaves a well typed record. *)
LEMMA AcceptType ==
  ASSUME NEW r \in Record, NEW s \in Source, NEW a \in Activities, NEW at \in 0..MaxTime,
         r.seq < MaxSeq
  PROVE  Accept(r, s, a, at) \in Record /\ Accept(r, s, a, at).seq \in 0..MaxSeq
<1>1. s \in Rank
  BY DEF Source, Rank, Launcher, Scan, Unset
<1>2. r.seq + 1 \in 0..MaxSeq
  BY BoundsAssumption DEF Record
<1>3. QED
  BY <1>1, <1>2 DEF Accept, Record

(* claim keeps the table well typed. *)
LEMMA ClaimType ==
  ASSUME TypeOK, NEW s \in Source, NEW key \in Keys, NEW a \in Activities,
         NEW at \in 0..MaxTime, Claim(s, key, a, at)
  PROVE  TableOK'
<1> DEFINE k == Resolve(key)
           r == Accept(rec[k], s, a, at)
<1>1. CASE UNCHANGED <<table, dirty, shown, over>>
  BY <1>1 DEF TypeOK, TableOK, table
<1>2. CASE ~ UNCHANGED <<table, dirty, shown, over>>
  <2>1. /\ k \in known
        /\ rec[k].seq < MaxSeq
        /\ rec' = [rec EXCEPT ![k] = r]
        /\ seqs' = [seqs EXCEPT ![k] = r.seq]
        /\ dirty' = TRUE
        /\ Show(k, rec'[k])
        /\ UNCHANGED <<known, aliases, over>>
    BY <1>2 DEF Claim
  <2>2. k \in Keys /\ rec[k] \in Record
    BY <2>1 DEF TypeOK
  <2>4. r \in Record /\ r.seq \in 0..MaxSeq
    BY <2>1, <2>2, AcceptType
  <2> HIDE DEF r, k
  <2>5. rec'[k] = r
    BY <2>1, <2>2 DEF TypeOK
  <2>6. shown' \in [Keys -> 0..MaxSeq]
    BY <2>1, <2>2, <2>4, <2>5 DEF Show, TypeOK
  <2>7. QED
    BY <2>1, <2>2, <2>4, <2>6 DEF TypeOK, TableOK
<1>3. QED  BY <1>1, <1>2

(* set_name keeps the table well typed. *)
LEMMA SetNameType ==
  ASSUME TypeOK, NEW s \in Source, NEW key \in Keys, NEW v \in Names \cup {None},
         SetName(s, key, v)
  PROVE  TableOK'
<1> DEFINE k == Resolve(key)
<1>1. k \in Keys /\ rec[k] \in Record
  BY DEF SetName, TypeOK
<1>2. s \in Rank /\ Unset \in Rank
  BY DEF Source, Rank, Launcher, Scan, Unset
<1>3. Named(rec[k], s, v) \in Record
  BY <1>1, <1>2 DEF Named, Record
<1>4. QED
  BY <1>1, <1>3 DEF SetName, TypeOK, TableOK

(* end keeps the table well typed. *)
LEMMA EndType ==
  ASSUME TypeOK, NEW key \in Keys, NEW reason \in Reasons, End(key, reason)
  PROVE  TableOK'
<1> DEFINE k == Resolve(key)
<1>1. k \in Keys /\ rec[k] \in Record
  BY DEF End, TypeOK
<1>2. [rec[k] EXCEPT !.liveness = "ended", !.reason = reason] \in Record
  BY <1>1 DEF Record
<1>3. CASE Ends(rec[k], reason)
  <2>1. rec' = [rec EXCEPT ![k] = [@ EXCEPT !.liveness = "ended", !.reason = reason]]
    BY <1>3, <1>1 DEF End, TypeOK, Record
  <2>2. QED
    BY <1>1, <1>2, <1>3, <2>1, BoundsAssumption DEF End, TypeOK, TableOK
<1>4. CASE ~Ends(rec[k], reason)
  BY <1>4 DEF End, TypeOK, TableOK
<1>5. QED  BY <1>3, <1>4

(* suspend keeps the table well typed. *)
LEMMA SuspendType ==
  ASSUME TypeOK, NEW key \in Keys, Suspend(key)
  PROVE  TableOK'
<1> DEFINE k == Resolve(key)
           r == [rec[k] EXCEPT !.liveness = "suspended", !.holder = FALSE,
                               !.at = IF @ = 0 THEN clock ELSE @]
<1>1. k \in Keys /\ rec[k] \in Record
  BY DEF Suspend, TypeOK
<1>2. r \in Record
  <2>1. (IF rec[k].at = 0 THEN clock ELSE rec[k].at) \in 0..MaxTime
    BY <1>1, BoundsAssumption DEF Record, TypeOK
  <2> DEFINE w == IF rec[k].at = 0 THEN clock ELSE rec[k].at
  <2>2. r = [rec[k] EXCEPT !.liveness = "suspended", !.holder = FALSE, !.at = w]
    BY <1>1 DEF Record
  <2> HIDE DEF w, r, k
  <2>3. QED
    BY <1>1, <2>1, <2>2 DEF Record, w
<1>3. rec' = [rec EXCEPT ![k] = r]
  BY <1>1 DEF Suspend, TypeOK, Record
<1>4. QED
  BY <1>1, <1>2, <1>3 DEF Suspend, TypeOK, TableOK

(* sweep keeps the table well typed. *)
LEMMA ForgetType ==
  ASSUME TypeOK, NEW old, Forget(old)
  PROVE  TableOK'
BY FreshType DEF Forget, TypeOK, TableOK

-----------------------------------------------------------------------------
(* Type correctness: every variable keeps its type, whatever the sets of
   processes and the bounds.                                                *)
THEOREM TypeCorrect == Spec => []TypeOK
<1>1. Init => TypeOK
  <2>1. 0 \in 0..MaxSeq /\ 0 \in 0..MaxRestarts /\ 1 \in 1..MaxTime
    BY BoundsAssumption
  <2>2. Init => TableOK
    <3> SUFFICES ASSUME Init PROVE TableOK
      OBVIOUS
    <3>1. rec \in [Keys -> Record]
      BY FreshType DEF Init
    <3>2. known \in SUBSET Keys /\ dirty \in BOOLEAN /\ over \in SUBSET Keys
      BY DEF Init
    <3>3. aliases \in [Keys -> Keys \cup {None}]
      BY DEF Init
    <3>4. seqs \in [Keys -> 0..MaxSeq] /\ shown \in [Keys -> 0..MaxSeq]
      BY <2>1 DEF Init
    <3>5. QED
      BY <3>1, <3>2, <3>3, <3>4 DEF TableOK
  <2>3. Init => WorldOK
    BY <2>1 DEF Init, WorldOK
  <2>4. QED
    BY <2>2, <2>3, Halves
<1>2. TypeOK /\ [Next]_vars => TypeOK'
  <2> SUFFICES ASSUME TypeOK, [Next]_vars PROVE TypeOK'
    OBVIOUS
  <2> USE DEF world
  <2>0. TableOK' /\ WorldOK' => TypeOK'
    BY DEF TypeOK, TableOK, WorldOK
  <2>1. CASE Tick \/ Refresh \/ WriteSeqs
    <3>1. CASE Tick
      <4>1. clock + 1 \in 1..MaxTime
        BY <3>1, BoundsAssumption DEF Tick, TypeOK
      <4>2. QED
        BY <3>1, <4>1 DEF Tick, TypeOK, table
    <3>2. CASE Refresh \/ WriteSeqs
      BY <3>2 DEF Refresh, WriteSeqs, TypeOK, table
    <3>3. QED  BY <2>1, <3>1, <3>2
  <2>2. CASE Restart
    <3>1. Loaded \in [Keys -> 0..MaxSeq]
      BY BoundsAssumption DEF Loaded, TypeOK
    <3>2. restarts + 1 \in 0..MaxRestarts
      BY <2>2, BoundsAssumption DEF Restart, TypeOK
    <3>3. QED
      BY <2>2, <3>1, <3>2, FreshType DEF Restart, TypeOK
  <2>3. ASSUME NEW k \in Keys, Start(k) \/ Exit(k) \/ FindStray(k)
        PROVE  TypeOK'
    BY <2>3 DEF Start, Exit, FindStray, TypeOK, table
  <2>4. ASSUME NEW k \in Keys, RegisterStray(k)
        PROVE  TypeOK'
    <3>1. Scan \in Source /\ stray \in Keys
      BY <2>4 DEF RegisterStray, Source, Scan, Launcher, TypeOK
    <3>2. TableOK'
      BY <2>4, <3>1, ApplyType DEF RegisterStray
    <3>3. QED
      BY <2>0, <2>4, <3>2 DEF RegisterStray, WorldOK, TypeOK
  <2>5. ASSUME NEW k \in Keys, Reap(k)
        PROVE  TypeOK'
    <3>1. TableOK'
      BY <2>5, EndType DEF Reap, Reasons, ProcessReasons
    <3>2. QED
      BY <2>0, <2>5, <3>1 DEF Reap, WorldOK, TypeOK
  <2>6. ASSUME NEW k \in Keys, RunnerSuspend(k)
        PROVE  TypeOK'
    <3>1. TableOK'
      <4>1. CASE k \in known /\ rec[k].liveness = "live"
        BY <2>6, <4>1, SuspendType DEF RunnerSuspend
      <4>2. CASE ~(k \in known /\ rec[k].liveness = "live")
        BY <2>6, <4>2 DEF RunnerSuspend, TypeOK, TableOK, table
      <4>3. QED  BY <4>1, <4>2
    <3>2. QED
      BY <2>0, <2>6, <3>1 DEF RunnerSuspend, WorldOK, TypeOK
  <2>7. ASSUME NEW k \in Keys, NEW v \in Names,
               ScanName(k, v) \/ ScanTitle(k, v) \/ RunnerTitle(k, v)
        PROVE  TypeOK'
    <3>1. Scan \in Source /\ Files \in Source /\ Acp \in Source
      BY DEF Source, Scan, Files, Acp, Launcher
    <3>2. TableOK'
      BY <2>7, <3>1, ApplyType, SetNameType DEF ScanName, ScanTitle, RunnerTitle
    <3>3. QED
      BY <2>0, <2>7, <3>2 DEF ScanName, ScanTitle, RunnerTitle, WorldOK, TypeOK
  <2>8. ASSUME NEW k \in Keys, NEW v \in Names \cup {None},
               Rename(k, v) \/ Attach(k, v) \/ Restore(k, v)
        PROVE  TypeOK'
    <3>1. Hook \in Source /\ Launcher \in Source /\ Resolve(k) \in Keys
      BY ResolveIsKey DEF Source, Hook, Scan, Launcher
    <3>2. TableOK'
      BY <2>8, <3>1, ApplyType, SetNameType DEF Rename, Attach, Restore
    <3>3. QED
      BY <2>0, <2>8, <3>2 DEF Rename, Attach, Restore, WorldOK, TypeOK
  <2>9. ASSUME NEW k \in Keys, NEW s \in Source, NEW t \in Keys,
               NEW v \in Names \cup {None}, Register(s, k, t, v)
        PROVE  TypeOK'
    <3>1. TableOK'
      BY <2>9, ApplyType DEF Register
    <3>2. QED
      BY <2>0, <2>9, <3>1 DEF Register, WorldOK, TypeOK
  <2>10. ASSUME NEW k \in Keys, NEW s \in Source, NEW a \in Activities,
                NEW at \in 1..MaxTime, ClaimByKey(s, k, a, at)
         PROVE  TypeOK'
    <3>1. at \in 0..MaxTime
      BY BoundsAssumption
    <3>2. TableOK'
      BY <2>10, <3>1, ClaimType DEF ClaimByKey
    <3>3. QED
      BY <2>0, <2>10, <3>2 DEF ClaimByKey, WorldOK, TypeOK
  <2>11. ASSUME NEW k \in Keys, NEW a \in Activities, RunnerClaim(k, a)
         PROVE  TypeOK'
    <3>1. Acp \in Source /\ clock \in 0..MaxTime
      BY BoundsAssumption DEF Source, Acp, Scan, Launcher, TypeOK
    <3>2. TableOK'
      BY <2>11, <3>1, ClaimType DEF RunnerClaim
    <3>3. QED
      BY <2>0, <2>11, <3>2 DEF RunnerClaim, WorldOK, TypeOK
  <2>12. ASSUME NEW k \in Keys, NEW r \in Reasons, RunnerEnd(k, r)
         PROVE  TypeOK'
    <3>1. TableOK'
      BY <2>12, EndType DEF RunnerEnd
    <3>2. QED
      BY <2>0, <2>12, <3>1 DEF RunnerEnd, WorldOK, TypeOK
  <2>13. ASSUME NEW old \in SUBSET Keys, Sweep(old)
         PROVE  TypeOK'
    <3>1. TableOK'
      BY <2>13, ForgetType DEF Sweep
    <3>2. QED
      BY <2>0, <2>13, <3>1 DEF Sweep, WorldOK, TypeOK
  <2>14. CASE UNCHANGED vars
    BY <2>14 DEF vars, table, TypeOK
  <2>15. QED
    BY <2>1, <2>2, <2>3, <2>4, <2>5, <2>6, <2>7, <2>8, <2>9, <2>10, <2>11, <2>12,
       <2>13, <2>14 DEF Next
<1>3. QED
  BY <1>1, <1>2, PTL DEF Spec

-----------------------------------------------------------------------------
(* Every step of the node is one operation of the table, or leaves it alone.
   What is said of the table is proved one operation at a time from here on. *)

ApplyStep == \E s \in Source, id \in Keys, t \in Keys, v \in Names \cup {None}, h \in BOOLEAN :
               Apply(s, id, t, v, h)
ClaimStep == \E s \in Source, k \in Keys, a \in Activities, at \in 0..MaxTime :
               Claim(s, k, a, at)
NameStep  == \E s \in Source, k \in Keys, v \in Names \cup {None} :
               SetName(s, k, v) /\ (v = None => s = Hook)
EndStep   == \E k \in Keys, reason \in Reasons : End(k, reason)
SuspendStep == \E k \in Keys : Suspend(k)
ForgetStep == \E old \in SUBSET {k \in known : rec[k].liveness = "ended"} : Forget(old)

(* The case split behind every proof below. *)
LEMMA Operations ==
  ASSUME TypeOK, [Next]_vars
  PROVE  \/ ApplyStep \/ ClaimStep \/ NameStep \/ EndStep \/ SuspendStep \/ ForgetStep
         \/ Restart
         \/ UNCHANGED <<table, shown, over>>
<1>0. {Launcher, Acp, Hook, Files, Scan} \subseteq Source
  BY DEF Source, Launcher, Acp, Hook, Files, Scan
<1>1. CASE Tick \/ Refresh \/ WriteSeqs
  BY <1>1 DEF Tick, Refresh, WriteSeqs
<1>2. ASSUME NEW k \in Keys, Start(k) \/ Exit(k) \/ FindStray(k)
      PROVE  UNCHANGED <<table, shown, over>>
  BY <1>2 DEF Start, Exit, FindStray
<1>3. ASSUME NEW k \in Keys, RegisterStray(k)
      PROVE  ApplyStep
  <2>1. stray \in Keys /\ Apply(Scan, stray, k, None, FALSE)
    BY <1>3 DEF RegisterStray, TypeOK
  <2>2. QED  BY <1>0, <2>1 DEF ApplyStep
<1>4. ASSUME NEW k \in Keys, Reap(k)
      PROVE  EndStep
  <2>1. "exit" \in Reasons /\ "crash" \in Reasons
    BY DEF Reasons, ProcessReasons
  <2>2. QED  BY <1>4, <2>1 DEF Reap, EndStep
<1>5. ASSUME NEW k \in Keys, RunnerSuspend(k)
      PROVE  SuspendStep \/ UNCHANGED <<table, shown, over>>
  BY <1>5 DEF RunnerSuspend, SuspendStep
<1>6. ASSUME NEW k \in Keys, NEW v \in Names, ScanName(k, v) \/ ScanTitle(k, v) \/ RunnerTitle(k, v)
      PROVE  ApplyStep \/ NameStep
  <2>1. CASE ScanName(k, v)
    <3>1. Apply(Scan, k, k, v, FALSE)
      BY <2>1 DEF ScanName
    <3>2. QED  BY <1>0, <3>1 DEF ApplyStep
  <2>2. CASE ScanTitle(k, v) \/ RunnerTitle(k, v)
    <3>1. SetName(Files, k, v) \/ SetName(Acp, k, v)
      BY <2>2 DEF ScanTitle, RunnerTitle
    <3>2. QED  BY <1>0, <3>1, KeysAssumption DEF NameStep
  <2>3. QED  BY <1>6, <2>1, <2>2
<1>7. ASSUME NEW k \in Keys, NEW v \in Names \cup {None}, Rename(k, v) \/ Attach(k, v) \/ Restore(k, v)
      PROVE  ApplyStep \/ NameStep
  <2>1. CASE Rename(k, v)
    <3>1. SetName(Hook, k, v)
      BY <2>1 DEF Rename
    <3>2. QED  BY <1>0, <3>1 DEF NameStep
  <2>2. CASE Attach(k, v) \/ Restore(k, v)
    <3>1. PICK t \in Keys : Apply(Launcher, Resolve(k), t, v, TRUE)
      BY <2>2 DEF Attach, Restore
    <3>2. QED  BY <1>0, <3>1, ResolveIsKey DEF ApplyStep
  <2>3. QED  BY <1>7, <2>1, <2>2
<1>8. ASSUME NEW k \in Keys, NEW s \in Source, NEW t \in Keys, NEW v \in Names \cup {None},
             Register(s, k, t, v)
      PROVE  ApplyStep
  <2>1. Apply(s, k, t, v, FALSE)
    BY <1>8 DEF Register
  <2>2. QED  BY <2>1 DEF ApplyStep
<1>9. ASSUME NEW k \in Keys, NEW s \in Source, NEW a \in Activities, NEW at \in 1..MaxTime,
             ClaimByKey(s, k, a, at)
      PROVE  ClaimStep
  <2>1. Claim(s, k, a, at) /\ at \in 0..MaxTime
    BY <1>9, BoundsAssumption DEF ClaimByKey
  <2>2. QED  BY <2>1 DEF ClaimStep
<1>10. ASSUME NEW k \in Keys, NEW a \in Activities, RunnerClaim(k, a)
       PROVE  ClaimStep
  <2>1. Claim(Acp, k, a, clock) /\ clock \in 0..MaxTime
    BY <1>10, BoundsAssumption DEF RunnerClaim, TypeOK
  <2>2. QED  BY <1>0, <2>1 DEF ClaimStep
<1>11. ASSUME NEW k \in Keys, NEW r \in Reasons, RunnerEnd(k, r)
       PROVE  EndStep
  BY <1>11 DEF RunnerEnd, EndStep
<1>12. ASSUME NEW old \in SUBSET Keys, Sweep(old)
       PROVE  ForgetStep
  BY <1>12 DEF Sweep, ForgetStep
<1>13. CASE UNCHANGED vars
  BY <1>13 DEF vars, table
<1>14. QED
  BY <1>1, <1>2, <1>3, <1>4, <1>5, <1>6, <1>7, <1>8, <1>9, <1>10, <1>11, <1>12, <1>13
     DEF Next

-----------------------------------------------------------------------------
(* What apply makes of the record it lands on. *)
LEMMA ApplyEffect ==
  ASSUME TypeOK, NEW s \in Source, NEW id \in Keys, NEW t \in Keys, NEW v \in Names \cup {None},
         NEW h \in BOOLEAN, Apply(s, id, t, v, h)
  PROVE  /\ known' = known \cup {t}
         /\ \A k \in Keys \ {t} : rec'[k] = rec[k]
         /\ \/ rec'[t].name = Base(t).name /\ rec'[t].nameBy = Base(t).nameBy
            \/ rec'[t].name = v /\ v # None /\ rec'[t].nameBy = s /\ s <= Base(t).nameBy
         /\ rec'[t].activity = Base(t).activity
         /\ rec'[t].actBy = Base(t).actBy
         /\ rec'[t].at = Base(t).at
         /\ rec'[t].seq = Base(t).seq
         /\ rec'[t].liveness = Base(t).liveness
         /\ rec'[t].reason = Base(t).reason
         /\ seqs' = seqs
<1> DEFINE f == Fill(Base(t), s, v)
           r == FillHolder(f, h)
<1>1. Base(t) \in Record
  <2>1. CASE t \in known
    BY <2>1 DEF Base, TypeOK
  <2>2. CASE t \notin known
    BY <2>2, FreshType DEF Base, TypeOK, Record, Fresh
  <2>3. QED  BY <2>1, <2>2
<1>2. rec' = [rec EXCEPT ![t] = r] /\ known' = known \cup {t} /\ seqs' = seqs
  BY DEF Apply
<1>3. rec'[t] = r /\ \A k \in Keys \ {t} : rec'[k] = rec[k]
  BY <1>2 DEF TypeOK
<1>4. CASE v # None /\ Overrides(s, Base(t).nameBy)
  <2>1. f = [Base(t) EXCEPT !.name = v, !.nameBy = s]
    BY <1>4 DEF Fill
  <2>2. f.activity = Base(t).activity /\ f.actBy = Base(t).actBy /\ f.at = Base(t).at
        /\ f.seq = Base(t).seq /\ f.liveness = Base(t).liveness /\ f.reason = Base(t).reason
    BY <1>1, <2>1 DEF Record
  <2>3. f.name = v /\ f.nameBy = s /\ s <= Base(t).nameBy
    BY <1>1, <1>4, <2>1 DEF Record, Overrides
  <2>4. f \in Record
    <3>1. s \in Rank /\ v \in Names
      BY <1>4 DEF Source, Rank, Launcher, Scan, Unset
    <3>2. QED  BY <1>1, <2>1, <3>1 DEF Record
  <2> HIDE DEF f
  <2>5. r.name = f.name /\ r.nameBy = f.nameBy /\ r.activity = f.activity
        /\ r.actBy = f.actBy /\ r.at = f.at /\ r.seq = f.seq
        /\ r.liveness = f.liveness /\ r.reason = f.reason
    BY <2>4 DEF FillHolder, Record
  <2> HIDE DEF r
  <2>6. QED
    BY <1>2, <1>3, <1>4, <2>2, <2>3, <2>5
<1>5. CASE ~(v # None /\ Overrides(s, Base(t).nameBy))
  <2>1. f = Base(t)
    BY <1>5 DEF Fill
  <2>2. QED
    BY <1>1, <1>2, <1>3, <2>1 DEF FillHolder, Record
<1>6. QED  BY <1>4, <1>5

(* What an accepted claim makes of it; a refused one changes nothing. *)
LEMMA ClaimEffect ==
  ASSUME TypeOK, NEW s \in Source, NEW key \in Keys, NEW a \in Activities,
         NEW at \in 0..MaxTime, Claim(s, key, a, at), ~ UNCHANGED <<table, shown, over>>
  PROVE  \E k \in known :
           /\ rec[k].liveness # "ended" /\ at >= rec[k].at /\ s <= rec[k].actBy
           /\ rec' = [rec EXCEPT ![k] = Accept(rec[k], s, a, at)]
           /\ seqs' = [seqs EXCEPT ![k] = rec[k].seq + 1]
           /\ UNCHANGED <<known, aliases>>
<1> DEFINE k == Resolve(key)
<1>1. k \in known /\ ~Refused(rec[k], s, at)
  BY DEF Claim
<1>2. /\ rec' = [rec EXCEPT ![k] = Accept(rec[k], s, a, at)]
      /\ seqs' = [seqs EXCEPT ![k] = Accept(rec[k], s, a, at).seq]
      /\ UNCHANGED <<known, aliases>>
  BY <1>1 DEF Claim, table
<1> HIDE DEF k
<1>3. rec[k] \in Record
  BY <1>1 DEF TypeOK
<1>4. Accept(rec[k], s, a, at).seq = rec[k].seq + 1
  BY <1>3 DEF Accept, Record
<1>5. rec[k].at \in Int /\ at \in Int
  BY <1>3, BoundsAssumption DEF Record
<1>6. rec[k].liveness # "ended" /\ at >= rec[k].at /\ s <= rec[k].actBy
  BY <1>1, <1>5 DEF Refused, Overrides
<1>7. QED
  BY <1>1, <1>2, <1>4, <1>6

(* set_name, on the record it finds. *)
LEMMA NameEffect ==
  ASSUME TypeOK, NEW s \in Source, NEW key \in Keys, NEW v \in Names \cup {None},
         SetName(s, key, v)
  PROVE  \E k \in known :
           /\ s <= rec[k].nameBy
           /\ rec' = [rec EXCEPT ![k] = Named(rec[k], s, v)]
           /\ UNCHANGED <<known, aliases, seqs>>
BY DEF SetName, Overrides

(* end, when it ends one. *)
LEMMA EndEffect ==
  ASSUME TypeOK, NEW key \in Keys, NEW reason \in Reasons, End(key, reason),
         ~ UNCHANGED <<table, shown, over>>
  PROVE  \E k \in known :
           /\ Ends(rec[k], reason)
           /\ rec' = [rec EXCEPT ![k].liveness = "ended", ![k].reason = reason]
           /\ seqs' = [seqs EXCEPT ![k] = 0]
           /\ UNCHANGED <<known, aliases>>
BY DEF End, table

(* suspend, on a live one. *)
LEMMA SuspendEffect ==
  ASSUME TypeOK, NEW key \in Keys, Suspend(key)
  PROVE  \E k \in known :
           /\ rec[k].liveness = "live"
           /\ rec'[k].liveness = "suspended"
           /\ rec'[k].at >= rec[k].at
           /\ \A f \in {"name", "nameBy", "activity", "actBy", "seq", "reason"} :
                rec'[k][f] = rec[k][f]
           /\ \A q \in Keys \ {k} : rec'[q] = rec[q]
           /\ UNCHANGED <<known, aliases, seqs>>
<1> DEFINE k == Resolve(key)
           w == IF rec[k].at = 0 THEN clock ELSE rec[k].at
<1>1. k \in known /\ rec[k] \in Record /\ rec[k].liveness = "live"
  BY DEF Suspend, TypeOK
<1>2. rec' = [rec EXCEPT ![k] = [@ EXCEPT !.liveness = "suspended", !.holder = FALSE, !.at = w]]
  BY <1>1 DEF Suspend, TypeOK, Record
<1>3. w >= rec[k].at
  BY <1>1, BoundsAssumption DEF Record, TypeOK
<1>4. UNCHANGED <<known, aliases, seqs>>
  BY DEF Suspend
<1> HIDE DEF k, w
<1>5. rec'[k] = [rec[k] EXCEPT !.liveness = "suspended", !.holder = FALSE, !.at = w]
      /\ \A q \in Keys \ {k} : rec'[q] = rec[q]
  BY <1>1, <1>2 DEF TypeOK
<1>6. /\ rec'[k].liveness = "suspended"
      /\ rec'[k].at = w
      /\ \A f \in {"name", "nameBy", "activity", "actBy", "seq", "reason"} :
           rec'[k][f] = rec[k][f]
  BY <1>1, <1>5 DEF Record
<1>7. QED
  BY <1>1, <1>3, <1>4, <1>5, <1>6

-----------------------------------------------------------------------------
(* The counter on every record that has not ended is the one the seq file
   gets.                                                                    *)
THEOREM CountersAgree == Spec => []SeqsFollowRecords
<1>1. Init => SeqsFollowRecords
  BY DEF Init, SeqsFollowRecords
<1>2. TypeOK /\ SeqsFollowRecords /\ [Next]_vars => SeqsFollowRecords'
  <2> SUFFICES ASSUME TypeOK, SeqsFollowRecords, [Next]_vars PROVE SeqsFollowRecords'
    OBVIOUS
  <2>1. CASE ApplyStep
    <3>1. PICK s \in Source, id \in Keys, t \in Keys, v \in Names \cup {None}, h \in BOOLEAN :
            Apply(s, id, t, v, h)
      BY <2>1 DEF ApplyStep
    <3>2. rec'[t].seq = Base(t).seq /\ rec'[t].liveness = Base(t).liveness
          /\ seqs' = seqs /\ known' = known \cup {t}
          /\ \A k \in Keys \ {t} : rec'[k] = rec[k]
      BY <3>1, ApplyEffect
    <3>3. Base(t).liveness # "ended" => Base(t).seq = seqs[t]
      BY DEF Base, SeqsFollowRecords, Fresh
    <3>4. QED
      BY <3>2, <3>3 DEF SeqsFollowRecords, TypeOK
  <2>2. CASE ClaimStep
    <3>1. CASE UNCHANGED <<table, shown, over>>
      BY <3>1 DEF table, SeqsFollowRecords
    <3>2. CASE ~ UNCHANGED <<table, shown, over>>
      <4>1. PICK s \in Source, a \in Activities, at \in 0..MaxTime, k \in known :
              /\ rec' = [rec EXCEPT ![k] = Accept(rec[k], s, a, at)]
              /\ seqs' = [seqs EXCEPT ![k] = rec[k].seq + 1]
              /\ UNCHANGED <<known, aliases>>
        BY <2>2, <3>2, ClaimEffect DEF ClaimStep
      <4>2. Accept(rec[k], s, a, at).seq = rec[k].seq + 1
        BY DEF Accept, TypeOK, Record
      <4>3. QED
        BY <4>1, <4>2 DEF SeqsFollowRecords, TypeOK
    <3>3. QED  BY <3>1, <3>2
  <2>3. CASE NameStep
    <3>1. PICK s \in Source, v \in Names \cup {None}, k \in known :
            /\ rec' = [rec EXCEPT ![k] = Named(rec[k], s, v)]
            /\ UNCHANGED <<known, aliases, seqs>>
      BY <2>3, NameEffect DEF NameStep
    <3>2. Named(rec[k], s, v).seq = rec[k].seq /\ Named(rec[k], s, v).liveness = rec[k].liveness
      BY DEF Named, TypeOK, Record
    <3>3. QED
      BY <3>1, <3>2 DEF SeqsFollowRecords, TypeOK
  <2>4. CASE EndStep
    <3>1. CASE UNCHANGED <<table, shown, over>>
      BY <3>1 DEF table, SeqsFollowRecords
    <3>2. CASE ~ UNCHANGED <<table, shown, over>>
      <4>1. PICK reason \in Reasons, k \in known :
              /\ rec' = [rec EXCEPT ![k].liveness = "ended", ![k].reason = reason]
              /\ seqs' = [seqs EXCEPT ![k] = 0]
              /\ UNCHANGED <<known, aliases>>
        BY <2>4, <3>2, EndEffect DEF EndStep
      <4>2. rec'[k].liveness = "ended" /\ \A q \in Keys \ {k} : rec'[q] = rec[q]
        BY <4>1 DEF TypeOK, Record
      <4>3. QED
        BY <4>1, <4>2 DEF SeqsFollowRecords, TypeOK
    <3>3. QED  BY <3>1, <3>2
  <2>5. CASE SuspendStep
    <3>1. PICK k \in known :
            /\ rec[k].liveness = "live"
            /\ \A f \in {"name", "nameBy", "activity", "actBy", "seq", "reason"} :
                 rec'[k][f] = rec[k][f]
            /\ \A q \in Keys \ {k} : rec'[q] = rec[q]
            /\ UNCHANGED <<known, aliases, seqs>>
      BY <2>5, SuspendEffect DEF SuspendStep
    <3>2. rec'[k].seq = rec[k].seq
      BY <3>1
    <3>3. QED
      BY <3>1, <3>2 DEF SeqsFollowRecords, TypeOK
  <2>6. CASE ForgetStep
    <3>1. PICK old \in SUBSET {k \in known : rec[k].liveness = "ended"} : Forget(old)
      BY <2>6 DEF ForgetStep
    <3>2. QED
      BY <3>1 DEF Forget, SeqsFollowRecords, TypeOK
  <2>7. CASE Restart
    BY <2>7 DEF Restart, SeqsFollowRecords
  <2>8. CASE UNCHANGED <<table, shown, over>>
    BY <2>8 DEF table, SeqsFollowRecords
  <2>9. QED
    BY <2>1, <2>2, <2>3, <2>4, <2>5, <2>6, <2>7, <2>8, Operations
<1>3. QED
  BY <1>1, <1>2, TypeCorrect, PTL DEF Spec

(* Whatever arrives in whatever order, the accepted claim is never older than
   the one before, the counter moves by one and only with an accepted claim,
   and an ended record takes none.                                          *)
THEOREM ClaimsAdvance == Spec => ClaimsOnlyAdvance
<1> DEFINE Advance(k) ==
             /\ rec'[k].at >= rec[k].at
             /\ rec'[k].seq # rec[k].seq =>
                  rec'[k].seq = rec[k].seq + 1 /\ rec[k].liveness # "ended"
             /\ rec'[k].activity # rec[k].activity => rec'[k].seq # rec[k].seq
<1>1. TypeOK /\ [Next]_vars => \A k \in known \cap known' : Advance(k)
  <2> SUFFICES ASSUME TypeOK, [Next]_vars, NEW k \in known, k \in known' PROVE Advance(k)
    OBVIOUS
  <2>0. k \in Keys /\ rec[k] \in Record /\ rec[k].at \in Int /\ rec[k].seq \in Int
    BY BoundsAssumption DEF TypeOK, Record
  <2>00. rec'[k] = rec[k] => Advance(k)
    BY <2>0
  <2>1. CASE ApplyStep
    <3>1. PICK s \in Source, id \in Keys, t \in Keys, v \in Names \cup {None}, h \in BOOLEAN :
            Apply(s, id, t, v, h)
      BY <2>1 DEF ApplyStep
    <3>2. CASE k = t
      <4>1. rec'[k].at = Base(k).at /\ rec'[k].seq = Base(k).seq
            /\ rec'[k].activity = Base(k).activity
        BY <3>1, <3>2, ApplyEffect
      <4>2. QED  BY <4>1, <2>0 DEF Base
    <3>3. CASE k # t
      BY <3>1, <3>3, <2>0, <2>00, ApplyEffect
    <3>4. QED  BY <3>2, <3>3
  <2>2. CASE ClaimStep
    <3>1. CASE UNCHANGED <<table, shown, over>>
      BY <3>1, <2>00 DEF table
    <3>2. CASE ~ UNCHANGED <<table, shown, over>>
      <4>1. PICK s \in Source, a \in Activities, at \in 0..MaxTime, q \in known :
              /\ rec[q].liveness # "ended" /\ at >= rec[q].at
              /\ rec' = [rec EXCEPT ![q] = Accept(rec[q], s, a, at)]
        BY <2>2, <3>2, ClaimEffect DEF ClaimStep
      <4>2. CASE k = q
        <5>1. rec'[k] = Accept(rec[k], s, a, at)
          BY <4>1, <4>2, <2>0 DEF TypeOK
        <5>2. rec'[k].at = at /\ rec'[k].seq = rec[k].seq + 1
          BY <5>1, <2>0 DEF Accept, Record
        <5>3. QED  BY <4>1, <4>2, <5>2, <2>0
      <4>3. CASE k # q
        BY <4>1, <4>3, <2>0, <2>00 DEF TypeOK
      <4>4. QED  BY <4>2, <4>3
    <3>3. QED  BY <3>1, <3>2
  <2>3. CASE NameStep
    <3>1. PICK s \in Source, v \in Names \cup {None}, q \in known :
            rec' = [rec EXCEPT ![q] = Named(rec[q], s, v)]
      BY <2>3, NameEffect DEF NameStep
    <3>2. CASE k = q
      <4>1. rec'[k] = Named(rec[k], s, v)
        BY <3>1, <3>2, <2>0 DEF TypeOK
      <4>2. rec'[k].at = rec[k].at /\ rec'[k].seq = rec[k].seq
            /\ rec'[k].activity = rec[k].activity
        BY <4>1, <2>0 DEF Named, Record
      <4>3. QED  BY <4>2, <2>0
    <3>3. CASE k # q
      BY <3>1, <3>3, <2>0, <2>00 DEF TypeOK
    <3>4. QED  BY <3>2, <3>3
  <2>4. CASE EndStep
    <3>1. CASE UNCHANGED <<table, shown, over>>
      BY <3>1, <2>00 DEF table
    <3>2. CASE ~ UNCHANGED <<table, shown, over>>
      <4>1. PICK reason \in Reasons, q \in known :
              rec' = [rec EXCEPT ![q].liveness = "ended", ![q].reason = reason]
        BY <2>4, <3>2, EndEffect DEF EndStep
      <4>2. rec'[k].at = rec[k].at /\ rec'[k].seq = rec[k].seq
            /\ rec'[k].activity = rec[k].activity
        BY <4>1, <2>0 DEF TypeOK, Record
      <4>3. QED  BY <4>2, <2>0
    <3>3. QED  BY <3>1, <3>2
  <2>5. CASE SuspendStep
    <3>1. PICK q \in known :
            /\ rec'[q].at >= rec[q].at
            /\ \A f \in {"name", "nameBy", "activity", "actBy", "seq", "reason"} :
                 rec'[q][f] = rec[q][f]
            /\ \A p \in Keys \ {q} : rec'[p] = rec[p]
      BY <2>5, SuspendEffect DEF SuspendStep
    <3>2. CASE k = q
      <4>1. rec'[k].seq = rec[k].seq /\ rec'[k].activity = rec[k].activity
        BY <3>1, <3>2
      <4>2. QED  BY <3>1, <3>2, <4>1, <2>0
    <3>3. CASE k # q
      BY <3>1, <3>3, <2>0, <2>00
    <3>4. QED  BY <3>2, <3>3
  <2>6. CASE ForgetStep
    <3>1. PICK old \in SUBSET {q \in known : rec[q].liveness = "ended"} : Forget(old)
      BY <2>6 DEF ForgetStep
    <3>2. k \notin old
      BY <3>1 DEF Forget
    <3>3. QED  BY <3>1, <3>2, <2>0, <2>00 DEF Forget
  <2>7. CASE Restart
    BY <2>7 DEF Restart
  <2>8. CASE UNCHANGED <<table, shown, over>>
    BY <2>8, <2>00 DEF table
  <2>9. QED
    BY <2>1, <2>2, <2>3, <2>4, <2>5, <2>6, <2>7, <2>8, Operations
<1>2. TypeOK /\ [Next]_vars
        => [\A k \in known \cap known' :
              /\ rec'[k].at >= rec[k].at
              /\ rec'[k].seq # rec[k].seq =>
                   /\ rec'[k].seq = rec[k].seq + 1
                   /\ rec[k].liveness # "ended"
              /\ rec'[k].activity # rec[k].activity => rec'[k].seq # rec[k].seq]_vars
  BY <1>1
<1>3. QED
  BY <1>2, TypeCorrect, PTL DEF Spec, ClaimsOnlyAdvance

-----------------------------------------------------------------------------
(* Aliases and entries stay in step.                                        *)
THEOREM AliasesSound == Spec => []AliasesPointAtRecords
<1>1. Init => AliasesPointAtRecords
  BY DEF Init, AliasesPointAtRecords
<1>2. TypeOK /\ AliasesPointAtRecords /\ [Next]_vars => AliasesPointAtRecords'
  <2> SUFFICES ASSUME TypeOK, AliasesPointAtRecords, [Next]_vars PROVE AliasesPointAtRecords'
    OBVIOUS
  <2>1. CASE ApplyStep
    <3>1. PICK s \in Source, id \in Keys, t \in Keys, v \in Names \cup {None}, h \in BOOLEAN :
            Apply(s, id, t, v, h)
      BY <2>1 DEF ApplyStep
    <3>2. t # id => t \in known /\ id \notin known
      BY <3>1, TargetsAreKeys DEF Apply
    <3>3. known' = known \cup {t}
          /\ aliases' = [aliases EXCEPT ![id] = IF t # id THEN t
                                                ELSE IF id \in known THEN @ ELSE None]
      BY <3>1 DEF Apply
    <3>4. QED
      BY <3>2, <3>3 DEF AliasesPointAtRecords, TypeOK
  <2>2. CASE ClaimStep
    <3>1. UNCHANGED <<known, aliases>>
      BY <2>2, ClaimEffect DEF ClaimStep, table
    <3>2. QED  BY <3>1 DEF AliasesPointAtRecords
  <2>3. CASE NameStep \/ SuspendStep
    <3>1. UNCHANGED <<known, aliases>>
      BY <2>3 DEF NameStep, SuspendStep, SetName, Suspend
    <3>2. QED  BY <3>1 DEF AliasesPointAtRecords
  <2>4. CASE EndStep
    <3>1. UNCHANGED <<known, aliases>>
      BY <2>4 DEF EndStep, End
    <3>2. QED  BY <3>1 DEF AliasesPointAtRecords
  <2>5. CASE ForgetStep
    <3>1. PICK old \in SUBSET {k \in known : rec[k].liveness = "ended"} : Forget(old)
      BY <2>5 DEF ForgetStep
    <3>2. /\ known' = known \ old
          /\ aliases' = [k \in Keys |-> IF aliases[k] \in known \ old THEN aliases[k] ELSE None]
      BY <3>1 DEF Forget
    <3>3. QED
      BY <3>2 DEF AliasesPointAtRecords, TypeOK
  <2>6. CASE Restart
    BY <2>6 DEF Restart, AliasesPointAtRecords
  <2>7. CASE UNCHANGED <<table, shown, over>>
    BY <2>7 DEF table, AliasesPointAtRecords
  <2>8. QED
    BY <2>1, <2>2, <2>3, <2>4, <2>5, <2>6, <2>7, Operations
<1>3. QED
  BY <1>1, <1>2, TypeCorrect, PTL DEF Spec

(* What explain lists is what was set, field by field.                      *)
THEOREM OriginsTruthful == Spec => []OriginsAreTruthful
<1> DEFINE Truthful(r) == /\ (r.name = None) <=> (r.nameBy = Unset)
                          /\ (r.activity = "unknown") <=> (r.actBy = Unset)
<1>1. Init => OriginsAreTruthful
  BY DEF Init, OriginsAreTruthful
<1>2. TypeOK /\ OriginsAreTruthful /\ [Next]_vars => OriginsAreTruthful'
  <2> SUFFICES ASSUME TypeOK, OriginsAreTruthful, [Next]_vars
               PROVE  \A k \in known' : Truthful(rec'[k])
    BY DEF OriginsAreTruthful
  <2>0. \A k \in known : Truthful(rec[k])
    BY DEF OriginsAreTruthful
  <2>00. \A s \in Source : s # Unset
    BY DEF Source, Launcher, Scan, Unset
  <2>1. CASE ApplyStep
    <3>1. PICK s \in Source, id \in Keys, t \in Keys, v \in Names \cup {None}, h \in BOOLEAN :
            Apply(s, id, t, v, h)
      BY <2>1 DEF ApplyStep
    <3>2. Truthful(Base(t))
      BY <2>0 DEF Base, Fresh
    <3>3. Truthful(rec'[t])
      BY <2>00, <3>1, <3>2, ApplyEffect
    <3>4. known' = known \cup {t} /\ \A k \in Keys \ {t} : rec'[k] = rec[k]
      BY <3>1, ApplyEffect
    <3>5. \A k \in known : k # t => Truthful(rec'[k])
      BY <2>0, <3>4 DEF TypeOK
    <3>6. QED
      BY <3>3, <3>4, <3>5
  <2>2. CASE ClaimStep
    <3>1. CASE UNCHANGED <<table, shown, over>>
      BY <3>1, <2>0 DEF table
    <3>2. CASE ~ UNCHANGED <<table, shown, over>>
      <4>1. PICK s \in Source, a \in Activities, at \in 0..MaxTime, q \in known :
              /\ rec' = [rec EXCEPT ![q] = Accept(rec[q], s, a, at)]
              /\ UNCHANGED <<known, aliases>>
        BY <2>2, <3>2, ClaimEffect DEF ClaimStep
      <4>2. /\ Accept(rec[q], s, a, at).name = rec[q].name
            /\ Accept(rec[q], s, a, at).nameBy = rec[q].nameBy
            /\ Accept(rec[q], s, a, at).activity = a
            /\ Accept(rec[q], s, a, at).actBy = s
        BY DEF Accept, TypeOK, Record
      <4>3. a # "unknown"
        BY ActivitiesAssumption
      <4>4. Truthful(Accept(rec[q], s, a, at))
        BY <2>0, <2>00, <4>2, <4>3
      <4>5. QED
        BY <2>0, <4>1, <4>4 DEF TypeOK
    <3>3. QED  BY <3>1, <3>2
  <2>3. CASE NameStep
    <3>1. PICK s \in Source, v \in Names \cup {None}, q \in known :
            /\ rec' = [rec EXCEPT ![q] = Named(rec[q], s, v)]
            /\ UNCHANGED <<known, aliases, seqs>>
      BY <2>3, NameEffect DEF NameStep
    <3>2. /\ Named(rec[q], s, v).name = v
          /\ Named(rec[q], s, v).nameBy = IF v = None THEN Unset ELSE s
          /\ Named(rec[q], s, v).activity = rec[q].activity
          /\ Named(rec[q], s, v).actBy = rec[q].actBy
      BY DEF Named, TypeOK, Record
    <3>3. Truthful(Named(rec[q], s, v))
      BY <2>0, <2>00, <3>2
    <3>4. QED
      BY <2>0, <3>1, <3>3 DEF TypeOK
  <2>4. CASE EndStep
    <3>1. CASE UNCHANGED <<table, shown, over>>
      BY <3>1, <2>0 DEF table
    <3>2. CASE ~ UNCHANGED <<table, shown, over>>
      <4>1. PICK reason \in Reasons, q \in known :
              /\ rec' = [rec EXCEPT ![q].liveness = "ended", ![q].reason = reason]
              /\ UNCHANGED <<known, aliases>>
        BY <2>4, <3>2, EndEffect DEF EndStep
      <4>2. \A k \in Keys : rec'[k].name = rec[k].name /\ rec'[k].nameBy = rec[k].nameBy
              /\ rec'[k].activity = rec[k].activity /\ rec'[k].actBy = rec[k].actBy
        BY <4>1 DEF TypeOK, Record
      <4>3. QED
        BY <2>0, <4>1, <4>2 DEF TypeOK
    <3>3. QED  BY <3>1, <3>2
  <2>5. CASE SuspendStep
    <3>1. PICK q \in known :
            /\ \A f \in {"name", "nameBy", "activity", "actBy", "seq", "reason"} :
                 rec'[q][f] = rec[q][f]
            /\ \A p \in Keys \ {q} : rec'[p] = rec[p]
            /\ UNCHANGED <<known, aliases, seqs>>
      BY <2>5, SuspendEffect DEF SuspendStep
    <3>2. Truthful(rec'[q])
      BY <2>0, <3>1
    <3>3. QED
      BY <2>0, <3>1, <3>2 DEF TypeOK
  <2>6. CASE ForgetStep
    <3>1. PICK old \in SUBSET {k \in known : rec[k].liveness = "ended"} : Forget(old)
      BY <2>6 DEF ForgetStep
    <3>2. QED
      BY <2>0, <3>1 DEF Forget, TypeOK
  <2>7. CASE Restart
    BY <2>7 DEF Restart
  <2>8. CASE UNCHANGED <<table, shown, over>>
    BY <2>8, <2>0 DEF table
  <2>9. QED
    BY <2>1, <2>2, <2>3, <2>4, <2>5, <2>6, <2>7, <2>8, Operations
<1>3. QED
  BY <1>1, <1>2, TypeCorrect, PTL DEF Spec

-----------------------------------------------------------------------------
(* The counters over the life of a process and over clean restarts.          *)

(* A process that was never started has left no trace in the daemon. *)
NoTrace(k) ==
  /\ k \notin known \cup sampled \cup attached
  /\ stray # k
  /\ holders[k] = "never"
  /\ seqs[k] = 0 /\ file[k] = 0 /\ shown[k] = 0

(* The counter of a running process none of whose records has ended is at
   least what readers were shown, and between the debounced writes the file holds the same: that is what makes a
   restart then harmless.                                                   *)
Counted(k) ==
  /\ proc[k] = "unborn" => NoTrace(k)
  /\ proc[k] = "running" => (k \notin over => seqs[k] >= shown[k]) /\ (~dirty => file[k] = seqs[k])

AllCounted == \A k \in Keys : Counted(k)

CountersInv ==
  /\ TypeOK
  /\ AliasesPointAtRecords
  /\ SeqsFollowRecords
  /\ AllCounted

(* What the operations do to the counters: apply shows a counter, a claim
   moves it, an end clears it, and the others leave it.                     *)
Shows(t)  == /\ known' = known \cup {t}
             /\ UNCHANGED <<seqs, dirty, over>>
             /\ shown' = shown \/ shown' = [shown EXCEPT ![t] = seqs[t]]
Moves     == \E q \in known, n \in 0..MaxSeq :
               /\ UNCHANGED known
               /\ dirty' = TRUE
               /\ seqs' = [seqs EXCEPT ![q] = n]
               /\ \/ UNCHANGED <<shown, over>> /\ n = seqs[q] + 1
                  \/ shown' = [shown EXCEPT ![q] = n] /\ UNCHANGED over
                  \/ over' = over \cup {q} /\ UNCHANGED shown
Leaves    == known' \subseteq known /\ UNCHANGED <<seqs, dirty, shown, over>>

(* apply shows the counter of the record it lands on, old or new. *)
LEMMA ApplyShows ==
  ASSUME TypeOK, SeqsFollowRecords, NEW s \in Source, NEW id \in Keys, NEW t \in Keys,
         NEW v \in Names \cup {None}, NEW h \in BOOLEAN, Apply(s, id, t, v, h)
  PROVE  Shows(t) /\ (t # id => t \in known)
<1>1. rec'[t].seq = Base(t).seq /\ rec'[t].liveness = Base(t).liveness
  BY ApplyEffect
<1>2. Base(t).liveness # "ended" => Base(t).seq = seqs[t]
  BY DEF Base, SeqsFollowRecords, Fresh
<1>3. Show(t, rec'[t])
  BY DEF Apply, TypeOK
<1>4. shown' = shown \/ shown' = [shown EXCEPT ![t] = seqs[t]]
  BY <1>1, <1>2, <1>3 DEF Show
<1>5. QED
  BY <1>4, TargetsAreKeys DEF Apply, Shows

(* An accepted claim moves the counter and shows where to. *)
LEMMA ClaimMoves ==
  ASSUME TypeOK, SeqsFollowRecords, NEW s \in Source, NEW key \in Keys,
         NEW a \in Activities, NEW at \in 0..MaxTime, Claim(s, key, a, at)
  PROVE  Leaves \/ Moves
<1> DEFINE k == Resolve(key)
           r == Accept(rec[k], s, a, at)
<1>1. CASE UNCHANGED <<table, dirty, shown, over>>
  BY <1>1 DEF table, Leaves
<1>2. CASE ~ UNCHANGED <<table, dirty, shown, over>>
  <2>1. /\ k \in known
        /\ rec[k].seq < MaxSeq
        /\ rec' = [rec EXCEPT ![k] = r]
        /\ seqs' = [seqs EXCEPT ![k] = r.seq]
        /\ dirty' = TRUE
        /\ Show(k, rec'[k])
        /\ UNCHANGED <<known, aliases, over>>
        /\ rec[k].liveness # "ended"
    BY <1>2 DEF Claim, Refused
  <2>2. k \in Keys /\ rec[k] \in Record
    BY <2>1 DEF TypeOK
  <2>3. r \in Record /\ r.seq \in 0..MaxSeq
    BY <2>1, <2>2, AcceptType
  <2>4. r.seq = seqs[k] + 1
    BY <2>1, <2>2 DEF Accept, Record, SeqsFollowRecords
  <2> HIDE DEF r, k
  <2>5. rec'[k].seq = r.seq
    BY <2>1, <2>2 DEF TypeOK
  <2> DEFINE n == r.seq
             o == rec'[k]
  <2>6. o.seq = n /\ Show(k, o)
    BY <2>1, <2>5
  <2>7. n \in 0..MaxSeq /\ seqs' = [seqs EXCEPT ![k] = n] /\ n = seqs[k] + 1
    BY <2>1, <2>3, <2>4
  <2> HIDE DEF n, o
  <2>8. shown' = shown \/ shown' = [shown EXCEPT ![k] = n]
    BY <2>6 DEF Show
  <2>9. QED
    BY <2>1, <2>7, <2>8 DEF Moves
<1>3. QED  BY <1>1, <1>2

(* The end of a session takes its counter to 0: from then on the key counts
   as over.                                                                 *)
LEMMA EndMoves ==
  ASSUME TypeOK, NEW key \in Keys, NEW reason \in Reasons, End(key, reason)
  PROVE  Leaves \/ Moves
<1>1. 0 \in 0..MaxSeq
  BY BoundsAssumption
<1>2. QED
  BY <1>1 DEF End, Leaves, Moves

(* The scheme of every action that is one operation of the table: the rest of
   the daemon forgets no start of a process and learns of none.             *)
LEMMA OperationCounts ==
  ASSUME CountersInv, UNCHANGED <<proc, file>>,
         \/ \E t \in Keys : Shows(t) /\ proc[t] # "unborn"
         \/ Moves
         \/ Leaves,
         \A k \in Keys : proc[k] = "unborn" =>
            k \notin sampled' \cup attached' /\ stray' # k /\ holders'[k] = "never"
  PROVE  AllCounted'
<1> USE DEF CountersInv, AllCounted, Counted, NoTrace, TypeOK
<1>1. ASSUME NEW t \in Keys, Shows(t), proc[t] # "unborn", NEW k \in Keys
      PROVE  Counted(k)'
  BY <1>1 DEF Shows
<1>2. ASSUME Moves, NEW k \in Keys
      PROVE  Counted(k)'
  <2>1. PICK q \in known, n \in 0..MaxSeq :
          /\ UNCHANGED known
          /\ dirty' = TRUE
          /\ seqs' = [seqs EXCEPT ![q] = n]
          /\ \/ UNCHANGED <<shown, over>> /\ n = seqs[q] + 1
             \/ shown' = [shown EXCEPT ![q] = n] /\ UNCHANGED over
             \/ over' = over \cup {q} /\ UNCHANGED shown
    BY <1>2 DEF Moves
  <2>2. q \in Keys /\ proc[q] # "unborn" /\ n \in Int
    BY DEF NoTrace
  <2>3. CASE k = q
    <3>1. seqs[q] \in Int /\ shown[q] \in Int
      BY <2>2
    <3>2. /\ seqs'[q] = n
          /\ \/ over' = over /\ shown'[q] = n
             \/ over' = over /\ shown'[q] = shown[q] /\ n = seqs[q] + 1
             \/ q \in over'
      <4>1. q \in DOMAIN seqs /\ q \in DOMAIN shown
        BY <2>2
      <4> HIDE DEF CountersInv, AllCounted, Counted, NoTrace, TypeOK
      <4> QED  BY <2>1, <4>1
    <3>3. proc[q] = "running" /\ q \notin over => seqs[q] >= shown[q]
      BY <2>2
    <3>4. proc[q] = "running" /\ q \notin over' => seqs'[q] >= shown'[q]
      <4> HIDE DEF CountersInv, AllCounted, Counted, NoTrace, TypeOK
      <4> QED  BY <2>2, <3>1, <3>2, <3>3
    <3>5. proc' = proc /\ proc'[q] # "unborn" /\ dirty' = TRUE
      BY <2>1, <2>2
    <3>6. QED
      <4> HIDE DEF CountersInv, AllCounted, NoTrace, TypeOK
      <4> QED  BY <2>3, <3>4, <3>5
  <2>4. CASE k # q
    BY <2>1, <2>2, <2>4
  <2>5. QED
    BY <2>3, <2>4
<1>3. ASSUME Leaves, NEW k \in Keys
      PROVE  Counted(k)'
  BY <1>3 DEF Leaves
<1>4. QED
  BY <1>1, <1>2, <1>3

(* Every action keeps the counters.  The restart is where the assumption is
   needed: the counters come back from the file.                            *)
LEMMA CountersStep ==
  ASSUME CleanRestarts, CountersInv, [Next]_vars
  PROVE  AllCounted'
<1> USE DEF world
<1>0. TypeOK /\ SeqsFollowRecords /\ {Launcher, Acp, Hook, Files, Scan} \subseteq Source
      /\ AllCounted
  BY DEF CountersInv, Source, Launcher, Acp, Hook, Files, Scan
<1>00. \A k \in Keys : proc[k] = "unborn" => NoTrace(k)
  BY <1>0 DEF AllCounted, Counted
<1>1. CASE Tick
  BY <1>1, <1>0 DEF Tick, AllCounted, Counted, NoTrace, table
<1>2. CASE Refresh
  BY <1>2, <1>0 DEF Refresh, AllCounted, Counted, NoTrace, table
<1>3. CASE WriteSeqs
  BY <1>3, <1>0 DEF WriteSeqs, AllCounted, Counted, NoTrace, table, TypeOK
<1>4. CASE Restart
  BY <1>4, <1>0, KeysAssumption DEF Restart, Loaded, AllCounted, Counted, NoTrace, TypeOK
<1>5. ASSUME NEW j \in Keys, Start(j)
      PROVE  AllCounted'
  BY <1>5, <1>0 DEF Start, AllCounted, Counted, NoTrace, table, TypeOK
<1>6. ASSUME NEW j \in Keys, Exit(j)
      PROVE  AllCounted'
  BY <1>6, <1>0 DEF Exit, AllCounted, Counted, NoTrace, table, TypeOK
<1>7. ASSUME NEW j \in Keys, FindStray(j)
      PROVE  AllCounted'
  BY <1>7, <1>0 DEF FindStray, AllCounted, Counted, NoTrace, table, TypeOK
<1>8. ASSUME NEW j \in Keys, RegisterStray(j)
      PROVE  AllCounted'
  <2>1. stray \in Keys /\ Apply(Scan, stray, j, None, FALSE)
    BY <1>8, <1>0 DEF RegisterStray, TypeOK
  <2>2. Shows(j) /\ (j # stray => j \in known)
    BY <2>1, <1>0, ApplyShows
  <2>3. proc[j] # "unborn"
    BY <2>2, <1>00 DEF NoTrace
  <2>4. \A k \in Keys : proc[k] = "unborn" =>
          k \notin sampled' \cup attached' /\ stray' # k /\ holders'[k] = "never"
    BY <1>8, <1>00, KeysAssumption DEF RegisterStray, NoTrace
  <2>5. UNCHANGED <<proc, file>>
    BY <1>8 DEF RegisterStray
  <2>6. QED
    BY <2>2, <2>3, <2>4, <2>5, OperationCounts
<1>9. ASSUME NEW j \in Keys, Reap(j)
      PROVE  AllCounted'
  <2>1. Leaves \/ Moves
    BY <1>9, <1>0, EndMoves DEF Reap, Reasons, ProcessReasons
  <2>2. QED
    BY <2>1, <1>9, <1>00, OperationCounts DEF Reap, NoTrace
<1>10. ASSUME NEW j \in Keys, RunnerSuspend(j)
       PROVE  AllCounted'
  <2>1. Leaves
    BY <1>10 DEF RunnerSuspend, Suspend, Leaves, table
  <2>2. QED
    BY <2>1, <1>10, <1>00, OperationCounts DEF RunnerSuspend, NoTrace
<1>11. ASSUME NEW j \in Keys, NEW v \in Names, ScanName(j, v)
       PROVE  AllCounted'
  <2>1. Shows(j)
    BY <1>11, <1>0, ApplyShows DEF ScanName
  <2>2. proc[j] # "unborn"
    BY <1>11, <1>00 DEF ScanName, NoTrace
  <2>3. QED
    BY <2>1, <2>2, <1>11, <1>00, OperationCounts DEF ScanName, NoTrace
<1>12. ASSUME NEW j \in Keys, NEW v \in Names \cup {None},
              \/ v \in Names /\ (ScanTitle(j, v) \/ RunnerTitle(j, v))
              \/ Rename(j, v)
       PROVE  AllCounted'
  <2>1. Leaves
    BY <1>12 DEF ScanTitle, RunnerTitle, Rename, SetName, Leaves
  <2>2. QED
    BY <2>1, <1>12, <1>00, OperationCounts DEF ScanTitle, RunnerTitle, Rename, NoTrace
<1>13. ASSUME NEW j \in Keys, NEW v \in Names \cup {None}, Attach(j, v) \/ Restore(j, v)
       PROVE  AllCounted'
  <2>1. PICK t \in Keys : Apply(Launcher, Resolve(j), t, v, TRUE)
    BY <1>13 DEF Attach, Restore
  <2>2. Shows(t) /\ (t # Resolve(j) => t \in known)
    BY <2>1, <1>0, ApplyShows, ResolveIsKey
  <2>3. proc[j] # "unborn"
    BY <1>13, <1>00 DEF Attach, Restore, NoTrace
  <2>4. Resolve(j) # j => Resolve(j) \in known
    BY DEF Resolve, AliasesPointAtRecords, CountersInv
  <2>5. proc[t] # "unborn"
    BY <2>2, <2>3, <2>4, <1>00 DEF NoTrace
  <2>6. \A k \in Keys : proc[k] = "unborn" =>
          k \notin sampled' \cup attached' /\ stray' # k /\ holders'[k] = "never"
    BY <1>13, <1>00, <1>0, <2>3 DEF Attach, Restore, NoTrace, TypeOK
  <2>7. UNCHANGED <<proc, file>>
    BY <1>13 DEF Attach, Restore
  <2>8. QED
    BY <2>2, <2>5, <2>6, <2>7, OperationCounts
<1>14. ASSUME NEW j \in Keys, NEW s \in Source, NEW t \in Keys, NEW v \in Names \cup {None},
              Register(s, j, t, v)
       PROVE  AllCounted'
  <2>1. Shows(t) /\ (t # j => t \in known)
    BY <1>14, <1>0, ApplyShows DEF Register
  <2>2. proc[t] # "unborn"
    BY <2>1, <1>14, <1>00 DEF Register, NoTrace
  <2>3. QED
    BY <2>1, <2>2, <1>14, <1>00, OperationCounts DEF Register, NoTrace
<1>15. ASSUME NEW j \in Keys, NEW s \in Source, NEW a \in Activities, NEW at \in 1..MaxTime,
              ClaimByKey(s, j, a, at)
       PROVE  AllCounted'
  <2>1. at \in 0..MaxTime
    BY BoundsAssumption
  <2>2. Leaves \/ Moves
    BY <2>1, <1>15, <1>0, ClaimMoves DEF ClaimByKey
  <2>3. QED
    BY <2>2, <1>15, <1>00, OperationCounts DEF ClaimByKey, NoTrace
<1>16. ASSUME NEW j \in Keys, NEW a \in Activities, RunnerClaim(j, a)
       PROVE  AllCounted'
  <2>1. Acp \in Source /\ clock \in 0..MaxTime
    BY <1>0, BoundsAssumption DEF TypeOK
  <2>2. Leaves \/ Moves
    BY <2>1, <1>16, <1>0, ClaimMoves DEF RunnerClaim
  <2>3. QED
    BY <2>2, <1>16, <1>00, OperationCounts DEF RunnerClaim, NoTrace
<1>17. ASSUME NEW j \in Keys, NEW r \in Reasons, RunnerEnd(j, r)
       PROVE  AllCounted'
  <2>1. Leaves \/ Moves
    BY <1>17, <1>0, EndMoves DEF RunnerEnd
  <2>2. \A k \in Keys : proc[k] = "unborn" =>
          k \notin sampled' \cup attached' /\ stray' # k /\ holders'[k] = "never"
    BY <1>17, <1>00, <1>0 DEF RunnerEnd, NoTrace, TypeOK
  <2>3. UNCHANGED <<proc, file>>
    BY <1>17 DEF RunnerEnd
  <2>4. QED
    BY <2>1, <2>2, <2>3, OperationCounts
<1>18. ASSUME NEW old \in SUBSET Keys, Sweep(old)
       PROVE  AllCounted'
  <2>1. Leaves
    BY <1>18 DEF Sweep, Forget, Leaves
  <2>2. QED
    BY <2>1, <1>18, <1>00, OperationCounts DEF Sweep, NoTrace
<1>19. CASE UNCHANGED vars
  BY <1>19, <1>0 DEF vars, table, AllCounted, Counted, NoTrace
<1>20. QED
  BY <1>1, <1>2, <1>3, <1>4, <1>5, <1>6, <1>7, <1>8, <1>9, <1>10, <1>11, <1>12, <1>13,
     <1>14, <1>15, <1>16, <1>17, <1>18, <1>19 DEF Next

(* The invariant behind the two theorems that follow. *)
LEMMA CountersHold ==
  ASSUME CleanRestarts
  PROVE  Spec => []CountersInv
<1>1. Init => AllCounted
  BY KeysAssumption DEF Init, AllCounted, Counted, NoTrace
<1>2. CountersInv /\ [Next]_vars => AllCounted'
  BY CountersStep
<1>3. CountersInv <=> TypeOK /\ AliasesPointAtRecords /\ SeqsFollowRecords /\ AllCounted
  BY DEF CountersInv
<1>4. QED
  BY <1>1, <1>2, <1>3, TypeCorrect, AliasesSound, CountersAgree, PTL DEF Spec

(* When the daemon only stops with the seq file written, the activity_seq of
   a running process is never behind what a client was shown of it, whoever
   registered and claimed and however often the daemon restarted, until a
   record of that process ends: from there on its counter starts over.       *)
THEOREM SeqsNeverFallBack ==
  ASSUME CleanRestarts
  PROVE  Spec => []SeqIsCurrent
<1>1. CountersInv => SeqIsCurrent
  BY DEF CountersInv, AllCounted, Counted, SeqsFollowRecords, SeqIsCurrent, TypeOK
<1>2. QED
  BY <1>1, CountersHold, PTL

(* Nothing written by a better source is overwritten by a worse one, whoever
   registers, claims or names, in whatever order; the one way down is to clear
   a name, which only a hook does.                                          *)
LEMMA HigherStands ==
  ASSUME TypeOK, [Next]_vars, NEW k \in known, k \in known'
  PROVE  /\ rec'[k].name # rec[k].name =>
              \/ rec'[k].nameBy <= rec[k].nameBy
              \/ rec'[k].name = None /\ rec[k].nameBy >= Hook
         /\ rec'[k].activity # rec[k].activity => rec'[k].actBy <= rec[k].actBy
<1> DEFINE Stands == /\ rec'[k].name # rec[k].name =>
                          \/ rec'[k].nameBy <= rec[k].nameBy
                          \/ rec'[k].name = None /\ rec[k].nameBy >= Hook
                     /\ rec'[k].activity # rec[k].activity => rec'[k].actBy <= rec[k].actBy
<1>0. k \in Keys /\ rec[k] \in Record
  BY DEF TypeOK
<1>00. rec'[k].name = rec[k].name /\ rec'[k].activity = rec[k].activity => Stands
  OBVIOUS
<1>1. CASE ApplyStep
  <2>1. PICK s \in Source, id \in Keys, t \in Keys, v \in Names \cup {None}, h \in BOOLEAN :
          Apply(s, id, t, v, h)
    BY <1>1 DEF ApplyStep
  <2>2. CASE k = t
    <3>1. /\ \/ rec'[k].name = Base(k).name /\ rec'[k].nameBy = Base(k).nameBy
             \/ rec'[k].nameBy = s /\ s <= Base(k).nameBy
          /\ rec'[k].activity = Base(k).activity
      BY <2>1, <2>2, ApplyEffect
    <3>2. Base(k) = rec[k]
      BY DEF Base
    <3>3. QED  BY <3>1, <3>2
  <2>3. CASE k # t
    BY <2>1, <2>3, <1>0, ApplyEffect
  <2>4. QED  BY <2>2, <2>3
<1>2. CASE ClaimStep
  <2>1. CASE UNCHANGED <<table, shown, over>>
    BY <2>1 DEF table
  <2>2. CASE ~ UNCHANGED <<table, shown, over>>
    <3>1. PICK s \in Source, a \in Activities, at \in 0..MaxTime, q \in known :
            /\ s <= rec[q].actBy
            /\ rec' = [rec EXCEPT ![q] = Accept(rec[q], s, a, at)]
      BY <1>2, <2>2, ClaimEffect DEF ClaimStep
    <3>2. CASE k = q
      <4>1. rec'[k] = Accept(rec[k], s, a, at)
        BY <3>1, <3>2, <1>0 DEF TypeOK
      <4>2. rec'[k].name = rec[k].name /\ rec'[k].actBy = s
        BY <4>1, <1>0 DEF Accept, Record
      <4>3. QED  BY <3>1, <3>2, <4>2
    <3>3. CASE k # q
      BY <3>1, <3>3, <1>0 DEF TypeOK
    <3>4. QED  BY <3>2, <3>3
  <2>3. QED  BY <2>1, <2>2
<1>3. CASE NameStep
  <2>1. PICK s \in Source, key \in Keys, v \in Names \cup {None} :
          SetName(s, key, v) /\ (v = None => s = Hook)
    BY <1>3 DEF NameStep
  <2>2. PICK q \in known : /\ s <= rec[q].nameBy
                           /\ rec' = [rec EXCEPT ![q] = Named(rec[q], s, v)]
    BY <2>1, NameEffect
  <2>3. CASE k = q
    <3>1. rec'[k] = Named(rec[k], s, v)
      BY <2>2, <2>3, <1>0 DEF TypeOK
    <3>2. /\ rec'[k].activity = rec[k].activity
          /\ rec'[k].name = v
          /\ v # None => rec'[k].nameBy = s
      BY <3>1, <1>0 DEF Named, Record
    <3>3. rec[k].nameBy \in Int /\ s \in Int
      BY <1>0 DEF Record, Rank, Source, Launcher, Unset, Scan
    <3>4. v = None => rec[k].nameBy >= Hook
      BY <2>1, <2>2, <2>3, <3>3 DEF Hook
    <3>5. QED  BY <2>2, <2>3, <3>2, <3>4
  <2>4. CASE k # q
    BY <2>2, <2>4, <1>0 DEF TypeOK
  <2>5. QED  BY <2>3, <2>4
<1>4. CASE EndStep
  <2>1. CASE UNCHANGED <<table, shown, over>>
    BY <2>1 DEF table
  <2>2. CASE ~ UNCHANGED <<table, shown, over>>
    <3>1. PICK reason \in Reasons, q \in known :
            rec' = [rec EXCEPT ![q].liveness = "ended", ![q].reason = reason]
      BY <1>4, <2>2, EndEffect DEF EndStep
    <3>2. rec'[k].name = rec[k].name /\ rec'[k].activity = rec[k].activity
      BY <3>1, <1>0 DEF TypeOK, Record
    <3>3. QED  BY <3>2
  <2>3. QED  BY <2>1, <2>2
<1>5. CASE SuspendStep
  <2>1. PICK q \in known :
          /\ \A f \in {"name", "nameBy", "activity", "actBy", "seq", "reason"} :
               rec'[q][f] = rec[q][f]
          /\ \A p \in Keys \ {q} : rec'[p] = rec[p]
    BY <1>5, SuspendEffect DEF SuspendStep
  <2>2. rec'[k].name = rec[k].name /\ rec'[k].activity = rec[k].activity
    BY <2>1, <1>0
  <2>3. QED  BY <2>2
<1>6. CASE ForgetStep
  <2>1. PICK old \in SUBSET {q \in known : rec[q].liveness = "ended"} : Forget(old)
    BY <1>6 DEF ForgetStep
  <2>2. rec'[k] = rec[k]
    BY <2>1, <1>0 DEF Forget
  <2>3. QED  BY <2>2
<1>7. CASE Restart
  BY <1>7 DEF Restart
<1>8. CASE UNCHANGED <<table, shown, over>>
  BY <1>8 DEF table
<1>9. QED
  BY <1>1, <1>2, <1>3, <1>4, <1>5, <1>6, <1>7, <1>8, Operations

(* No source overrules a better one and, over clean restarts, no seq of a
   running process is handed out twice before a record of it ends.          *)
THEOREM RecordsStand ==
  ASSUME CleanRestarts
  PROVE  Spec => ClaimsStand
<1>1. TypeOK /\ [Next]_vars =>
        \A k \in known \cap known' :
          /\ rec'[k].name # rec[k].name =>
               \/ rec'[k].nameBy <= rec[k].nameBy
               \/ rec'[k].name = None /\ rec[k].nameBy >= Hook
          /\ rec'[k].activity # rec[k].activity => rec'[k].actBy <= rec[k].actBy
  BY HigherStands
<1>2. CountersInv /\ [Next]_vars
        /\ (\A k \in known \cap known' :
              rec'[k].seq # rec[k].seq =>
                rec'[k].seq = rec[k].seq + 1 /\ rec[k].liveness # "ended")
      => \A k \in known \cap known' :
           proc[k] = "running" /\ k \notin over /\ rec'[k].seq # rec[k].seq
             => rec'[k].seq > shown[k]
  <2> SUFFICES ASSUME CountersInv, NEW k \in known, k \in known', proc[k] = "running",
                      k \notin over,
                      rec'[k].seq = rec[k].seq + 1, rec[k].liveness # "ended"
               PROVE  rec'[k].seq > shown[k]
    OBVIOUS
  <2>1. k \in Keys /\ rec[k].seq = seqs[k] /\ seqs[k] >= shown[k]
    BY DEF CountersInv, AllCounted, Counted, SeqsFollowRecords, TypeOK
  <2>2. shown[k] \in Int /\ seqs[k] \in Int
    BY <2>1 DEF CountersInv, TypeOK
  <2>3. QED  BY <2>1, <2>2
<1>3. Spec => HigherSourceStands
  BY <1>1, TypeCorrect, PTL DEF Spec, HigherSourceStands
<1>4. Spec => ClaimsAreFresh
  <2>1. ClaimsOnlyAdvance =>
          [][\A k \in known \cap known' :
               rec'[k].seq # rec[k].seq =>
                 rec'[k].seq = rec[k].seq + 1 /\ rec[k].liveness # "ended"]_vars
    <3>1. (\A k \in known \cap known' :
             /\ rec'[k].at >= rec[k].at
             /\ rec'[k].seq # rec[k].seq =>
                  /\ rec'[k].seq = rec[k].seq + 1
                  /\ rec[k].liveness # "ended"
             /\ rec'[k].activity # rec[k].activity => rec'[k].seq # rec[k].seq)
          => \A k \in known \cap known' :
               rec'[k].seq # rec[k].seq =>
                 rec'[k].seq = rec[k].seq + 1 /\ rec[k].liveness # "ended"
      OBVIOUS
    <3>2. QED  BY <3>1, PTL DEF ClaimsOnlyAdvance
  <2>2. QED
    BY <2>1, <1>2, CountersHold, ClaimsAdvance, PTL DEF Spec, ClaimsAreFresh
<1>5. QED
  BY <1>3, <1>4, PTL DEF ClaimsStand

-----------------------------------------------------------------------------
(* The table implements the life of a record that RecordLife describes.      *)

(* A key without a record holds nothing over for the next one. *)
NothingLeft == \A k \in Keys \ known : rec[k] = Fresh

(* That is an invariant: records are blank until created and after a sweep. *)
LEMMA NothingIsLeft ==
  ASSUME TypeOK, NothingLeft, [Next]_vars
  PROVE  NothingLeft'
<1>1. CASE ApplyStep
  <2>1. PICK s \in Source, id \in Keys, t \in Keys, v \in Names \cup {None}, h \in BOOLEAN :
          Apply(s, id, t, v, h)
    BY <1>1 DEF ApplyStep
  <2>2. known' = known \cup {t} /\ \A k \in Keys \ {t} : rec'[k] = rec[k]
    BY <2>1, ApplyEffect
  <2>3. QED  BY <2>2 DEF NothingLeft
<1>2. CASE ClaimStep
  <2>1. CASE UNCHANGED <<table, shown, over>>
    BY <2>1 DEF table, NothingLeft
  <2>2. CASE ~ UNCHANGED <<table, shown, over>>
    <3>1. PICK q \in known : /\ \E r : rec' = [rec EXCEPT ![q] = r]
                             /\ known' = known
      BY <1>2, <2>2, ClaimEffect DEF ClaimStep
    <3>2. QED  BY <3>1 DEF NothingLeft, TypeOK
  <2>3. QED  BY <2>1, <2>2
<1>3. CASE NameStep
  <2>1. PICK q \in known : /\ \E r : rec' = [rec EXCEPT ![q] = r]
                           /\ known' = known
    BY <1>3, NameEffect DEF NameStep
  <2>2. QED  BY <2>1 DEF NothingLeft, TypeOK
<1>4. CASE EndStep
  <2>1. CASE UNCHANGED <<table, shown, over>>
    BY <2>1 DEF table, NothingLeft
  <2>2. CASE ~ UNCHANGED <<table, shown, over>>
    <3>1. PICK reason \in Reasons, q \in known :
            /\ rec' = [rec EXCEPT ![q].liveness = "ended", ![q].reason = reason]
            /\ UNCHANGED <<known, aliases>>
      BY <1>4, <2>2, EndEffect DEF EndStep
    <3>2. \A k \in Keys \ {q} : rec'[k] = rec[k]
      BY <3>1 DEF TypeOK
    <3>3. QED  BY <3>1, <3>2 DEF NothingLeft
  <2>3. QED  BY <2>1, <2>2
<1>5. CASE SuspendStep
  <2>1. PICK q \in known : /\ \A p \in Keys \ {q} : rec'[p] = rec[p]
                           /\ known' = known
    BY <1>5, SuspendEffect DEF SuspendStep
  <2>2. QED  BY <2>1 DEF NothingLeft
<1>6. CASE ForgetStep
  BY <1>6 DEF ForgetStep, Forget, NothingLeft
<1>7. CASE Restart
  BY <1>7 DEF Restart, NothingLeft
<1>8. CASE UNCHANGED <<table, shown, over>>
  BY <1>8 DEF table, NothingLeft
<1>9. QED
  BY <1>1, <1>2, <1>3, <1>4, <1>5, <1>6, <1>7, <1>8, Operations

(* A step that touches the record of q alone, seen through the mapping. *)
LEMMA OneLife ==
  ASSUME TypeOK, NEW q \in Keys, \A k \in Keys \ {q} : rec'[k] = rec[k],
         \A k \in Keys \ {q} : k \in known' <=> k \in known
  PROVE  /\ [k \in Keys |-> Life(k)]' = [[k \in Keys |-> Life(k)] EXCEPT ![q] = Life(q)']
         /\ [k \in Keys |-> rec[k].reason]'
              = [[k \in Keys |-> rec[k].reason] EXCEPT ![q] = rec'[q].reason]
<1>1. \A k \in Keys \ {q} : Life(k)' = Life(k)
  BY DEF Life
<1>2. QED  BY <1>1

(* Every behaviour of the table is one RecordLife allows: a record appears
   live, is suspended only when live, ends once and for one reason, which it
   keeps until it is forgotten, and a suspended one only for a resume reason. *)
THEOREM LifeIsKept == Spec => KeepsPromise
<1> DEFINE life == [k \in Keys |-> Life(k)]
           why  == [k \in Keys |-> rec[k].reason]
<1>1. Init => Promise!Init
  BY DEF Init, Promise!Init, Life, Fresh
<1>2. TypeOK /\ NothingLeft /\ [Next]_vars => [Promise!Next]_<<life, why>>
  <2> SUFFICES ASSUME TypeOK, NothingLeft, [Next]_vars
               PROVE  Promise!Next \/ UNCHANGED <<life, why>>
    OBVIOUS
  <2>0. ASSUME NEW q \in Keys, \A k \in Keys \ {q} : rec'[k] = rec[k],
               \A k \in Keys \ {q} : k \in known' <=> k \in known
        PROVE  life' = [life EXCEPT ![q] = Life(q)'] /\ why' = [why EXCEPT ![q] = rec'[q].reason]
    BY <2>0, OneLife
  <2>1. CASE ApplyStep
    <3>1. PICK s \in Source, id \in Keys, t \in Keys, v \in Names \cup {None}, h \in BOOLEAN :
            Apply(s, id, t, v, h)
      BY <2>1 DEF ApplyStep
    <3>2. /\ known' = known \cup {t} /\ \A k \in Keys \ {t} : rec'[k] = rec[k]
          /\ rec'[t].liveness = Base(t).liveness /\ rec'[t].reason = Base(t).reason
      BY <3>1, ApplyEffect
    <3>3. life' = [life EXCEPT ![t] = Life(t)'] /\ why' = [why EXCEPT ![t] = rec'[t].reason]
      BY <2>0, <3>2
    <3>4. rec'[t].reason = rec[t].reason
      BY <3>2 DEF Base, NothingLeft, Fresh
    <3>5. UNCHANGED why
      BY <3>3, <3>4
    <3>6. CASE t \in known
      <4>1. Life(t)' = Life(t)
        BY <3>2, <3>6 DEF Life, Base
      <4>2. QED  BY <3>3, <3>5, <4>1
    <3>7. CASE t \notin known
      <4>1. Life(t) = "absent" /\ Life(t)' = "live"
        BY <3>2, <3>7 DEF Life, Base, Fresh
      <4>2. Promise!Appear(t)
        BY <3>3, <3>5, <4>1 DEF Promise!Appear
      <4>3. QED  BY <4>2 DEF Promise!Next
    <3>8. QED  BY <3>6, <3>7
  <2>2. CASE ClaimStep
    <3>1. CASE UNCHANGED <<table, shown, over>>
      BY <3>1 DEF table, Life
    <3>2. CASE ~ UNCHANGED <<table, shown, over>>
      <4>1. PICK s \in Source, a \in Activities, at \in 0..MaxTime, q \in known :
              /\ rec' = [rec EXCEPT ![q] = Accept(rec[q], s, a, at)]
              /\ known' = known
        BY <2>2, <3>2, ClaimEffect DEF ClaimStep
      <4>2. \A k \in Keys : rec'[k].liveness = rec[k].liveness /\ rec'[k].reason = rec[k].reason
        BY <4>1 DEF Accept, TypeOK, Record
      <4>3. QED  BY <4>1, <4>2 DEF Life
    <3>3. QED  BY <3>1, <3>2
  <2>3. CASE NameStep
    <3>1. PICK s \in Source, v \in Names \cup {None}, q \in known :
            /\ rec' = [rec EXCEPT ![q] = Named(rec[q], s, v)]
            /\ known' = known
      BY <2>3, NameEffect DEF NameStep
    <3>2. \A k \in Keys : rec'[k].liveness = rec[k].liveness /\ rec'[k].reason = rec[k].reason
      BY <3>1 DEF Named, TypeOK, Record
    <3>3. QED  BY <3>1, <3>2 DEF Life
  <2>4. CASE EndStep
    <3>1. CASE UNCHANGED <<table, shown, over>>
      BY <3>1 DEF table, Life
    <3>2. CASE ~ UNCHANGED <<table, shown, over>>
      <4>1. PICK reason \in Reasons, q \in known :
              /\ Ends(rec[q], reason)
              /\ rec' = [rec EXCEPT ![q].liveness = "ended", ![q].reason = reason]
              /\ UNCHANGED <<known, aliases>>
        BY <2>4, <3>2, EndEffect DEF EndStep
      <4>2. /\ rec'[q].liveness = "ended" /\ rec'[q].reason = reason
            /\ \A k \in Keys \ {q} : rec'[k] = rec[k]
        BY <4>1 DEF TypeOK, Record
      <4>3. life' = [life EXCEPT ![q] = "ended"] /\ why' = [why EXCEPT ![q] = reason]
        BY <2>0, <4>1, <4>2 DEF Life, TypeOK
      <4>4. life[q] = rec[q].liveness
        BY <4>1 DEF Life, TypeOK
      <4>5. Promise!Finish(q, reason) /\ reason \in Promise!Reasons
        BY <4>1, <4>3, <4>4 DEF Promise!Finish, Promise!Reasons, Reasons, Ends
      <4>6. QED  BY <4>1, <4>5 DEF Promise!Next, TypeOK
    <3>3. QED  BY <3>1, <3>2
  <2>5. CASE SuspendStep
    <3>1. PICK q \in known :
            /\ rec[q].liveness = "live" /\ rec'[q].liveness = "suspended"
            /\ \A f \in {"name", "nameBy", "activity", "actBy", "seq", "reason"} :
                 rec'[q][f] = rec[q][f]
            /\ \A p \in Keys \ {q} : rec'[p] = rec[p]
            /\ UNCHANGED <<known, aliases, seqs>>
      BY <2>5, SuspendEffect DEF SuspendStep
    <3>2. rec'[q].reason = rec[q].reason
      BY <3>1
    <3>3. life' = [life EXCEPT ![q] = "suspended"] /\ why' = why
      <4>1. life' = [life EXCEPT ![q] = Life(q)'] /\ why' = [why EXCEPT ![q] = rec'[q].reason]
        BY <2>0, <3>1 DEF TypeOK
      <4>2. Life(q)' = "suspended"
        BY <3>1 DEF Life
      <4>3. QED  BY <3>2, <4>1, <4>2
    <3>4. life[q] = "live"
      BY <3>1 DEF Life, TypeOK
    <3>5. Promise!Suspend(q)
      BY <3>3, <3>4 DEF Promise!Suspend
    <3>6. QED  BY <3>1, <3>5 DEF Promise!Next, TypeOK
  <2>6. CASE ForgetStep
    <3>1. PICK old \in SUBSET {k \in known : rec[k].liveness = "ended"} : Forget(old)
      BY <2>6 DEF ForgetStep
    <3>2. /\ known' = known \ old
          /\ rec' = [k \in Keys |-> IF k \in old THEN Fresh ELSE rec[k]]
      BY <3>1 DEF Forget
    <3>3. old \subseteq {k \in Keys : life[k] = "ended"}
      BY <3>1 DEF Life, TypeOK
    <3>4. life' = [k \in Keys |-> IF k \in old THEN "absent" ELSE life[k]]
      BY <3>2 DEF Life
    <3>5. why' = [k \in Keys |-> IF k \in old THEN None ELSE why[k]]
      BY <3>2 DEF Fresh
    <3>6. Promise!Forget(old)
      BY <3>3, <3>4, <3>5 DEF Promise!Forget
    <3>7. QED  BY <3>1, <3>6 DEF Promise!Next, TypeOK
  <2>7. CASE Restart
    <3>1. Promise!Restart
      BY <2>7 DEF Restart, Promise!Restart, Life, Fresh
    <3>2. QED  BY <3>1 DEF Promise!Next
  <2>8. CASE UNCHANGED <<table, shown, over>>
    BY <2>8 DEF table, Life
  <2>9. QED
    BY <2>1, <2>2, <2>3, <2>4, <2>5, <2>6, <2>7, <2>8, Operations
<1>3. Init => NothingLeft
  BY DEF Init, NothingLeft
<1>4. TypeOK /\ NothingLeft /\ [Next]_vars => NothingLeft'
  BY NothingIsLeft
<1>5. QED
  BY <1>1, <1>2, <1>3, <1>4, TypeCorrect, PTL DEF Spec, KeepsPromise, Promise!Spec
=============================================================================
