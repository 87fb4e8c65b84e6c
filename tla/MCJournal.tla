------------------------------ MODULE MCJournal ------------------------------
(* A small instance of Journal. *)
EXTENDS Journal

CONSTANT s1

(* One day, two appenders and a client that connects twice. *)
MCLimits == {
  [steps |-> 1, actions |-> 1, connects |-> 2, torn |-> 0, restarts |-> 0, days |-> 1]}
=============================================================================
