---------------------------- MODULE MCLifecycle ----------------------------
(* Small instances of Lifecycle. *)
EXTENDS Lifecycle

(* A row of three holders and a daemon that stays; a daemon that restarts,  *)
(* with its machine or without, when nothing is under way; and one that may *)
(* go at any point.  The holders of the last two may be late.               *)
Steady  == [holders |-> 3, restarts |-> 0, reboots |-> FALSE, clean |-> TRUE, giveups |-> FALSE]
Orderly == [holders |-> 2, restarts |-> 2, reboots |-> TRUE, clean |-> TRUE, giveups |-> TRUE]
Rough   == [holders |-> 2, restarts |-> 2, reboots |-> TRUE, clean |-> FALSE, giveups |-> TRUE]
MCEnvironments == {Steady, Orderly, Rough}

(* The daemon is killed once, at any point, and nothing else goes wrong. *)
MCKilled == {[holders |-> 2, restarts |-> 1, reboots |-> FALSE, clean |-> FALSE, giveups |-> FALSE]}
=============================================================================
