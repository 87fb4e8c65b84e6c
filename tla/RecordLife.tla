----------------------------- MODULE RecordLife -----------------------------
(***************************************************************************)
(* What the roster promises about the life of a record (SPEC R3, R15.1),    *)
(* seen by someone who reads nothing but the snapshots: a record appears    *)
(* live; it may be suspended; it ends once, for one reason, and keeps it    *)
(* until it is forgotten; a suspended record ends only because it was       *)
(* resumed under another key, expired or was handed off.                    *)
(***************************************************************************)
CONSTANTS Keys, None, ResumeReasons, ProcessReasons

VARIABLES life, why

Reasons == ResumeReasons \cup ProcessReasons

Init == life = [k \in Keys |-> "absent"] /\ why = [k \in Keys |-> None]

Appear(k) ==
  /\ life[k] = "absent"
  /\ life' = [life EXCEPT ![k] = "live"]
  /\ UNCHANGED why

Suspend(k) ==
  /\ life[k] = "live"
  /\ life' = [life EXCEPT ![k] = "suspended"]
  /\ UNCHANGED why

Finish(k, r) ==
  /\ \/ life[k] = "live" /\ r \in Reasons
     \/ life[k] = "suspended" /\ r \in ResumeReasons
  /\ life' = [life EXCEPT ![k] = "ended"]
  /\ why' = [why EXCEPT ![k] = r]

(* Only ended records are forgotten while the daemon runs... *)
Forget(old) ==
  /\ old \subseteq {k \in Keys : life[k] = "ended"}
  /\ life' = [k \in Keys |-> IF k \in old THEN "absent" ELSE life[k]]
  /\ why' = [k \in Keys |-> IF k \in old THEN None ELSE why[k]]

(* ...and all of them when it restarts. *)
Restart ==
  /\ life' = [k \in Keys |-> "absent"]
  /\ why' = [k \in Keys |-> None]

Next ==
  \/ \E k \in Keys : Appear(k) \/ Suspend(k) \/ (\E r \in Reasons : Finish(k, r))
  \/ \E old \in SUBSET Keys : Forget(old)
  \/ Restart

Spec == Init /\ [][Next]_<<life, why>>
=============================================================================
