------------------------------ MODULE MCRoster ------------------------------
(* Small instances of Roster.                                               *)
EXTENDS Roster

CONSTANTS a, b, n1, n2, p1, p2

(* b is nested in a. *)
MCPidOf == [k \in Keys |-> IF k = b THEN p2 ELSE p1]
MCLineage == [k \in Keys |-> IF k = b THEN <<a>> ELSE <<>>]
=============================================================================
