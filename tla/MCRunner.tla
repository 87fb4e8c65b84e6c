------------------------------ MODULE MCRunner ------------------------------
(* Small instances of the modules about the sessions a daemon runs and what  *)
(* is asked of them, side by side in one run: `part` says which of the four  *)
(* goes; the others stay as they begin.  The daemon of Lifecycle may be      *)
(* killed at any point.                                                      *)
EXTENDS Actions, TLC

CONSTANTS
  n1, n2, s1, s2,
  MaxHolders, Environments,
  Calls, Requests, Humans,
  Harnesses, Callers, MaxTime, Late

VARIABLES
  part,
  \* Lifecycle
  proc, termed, loaded, disk, booted, life, why, owned, parked, mem, suspending,
  stopping, phase, from, reload, cooling, found, halfway, restarts, env,
  \* Gate
  call, outcome, pending, reply, runner, activity, human, named, gone,
  \* Health
  entries, health, now, caller, sweep

(* The daemon is killed at any point, with holders that are late. *)
MCRough ==
  {[holders |-> 2, restarts |-> 2, reboots |-> TRUE, clean |-> FALSE, giveups |-> TRUE]}

(* Two sessions in turns send to each other, or one prompts the other; clients *)
(* name a session by a path with its node, the wrong one too; an editor       *)
(* prompts a session that a client prompts as well.                           *)
MCHome == (s1 :> n1) @@ (s2 :> n2)
Request(id, how, entry, via, key, sender) ==
  [id |-> id, how |-> how, entry |-> entry, via |-> via, key |-> key, from |-> sender]
MCCases == {
  {Request("a", "send", n1, None, s2, s1), Request("b", "send", n2, None, s1, s2)},
  {Request("m", "mcp", n1, None, s2, s1), Request("b", "send", n2, None, s1, s2)},
  {Request("p", "http", n1, n2, s1, None), Request("q", "http", n1, n2, s2, None)},
  {Request("e", "acp", n2, None, s2, None), Request("q", "http", n1, n2, s2, None)}}

F == INSTANCE Lifecycle
G == INSTANCE Gate
L == INSTANCE Health

ASSUME ActionsAssumption /\ G!GateAssumption

actions   == vars
lifecycle == <<proc, termed, loaded, disk, booted, life, why, owned, parked, mem,
               suspending, stopping, phase, from, reload, cooling, found, halfway,
               restarts, env>>
gate      == <<call, outcome, pending, reply, runner, activity, human, named, gone>>
marks     == <<entries, health, now, caller, sweep>>

MCInit ==
  /\ part \in {"lifecycle", "gate", "health", "actions"}
  /\ Init /\ F!Init /\ G!Init /\ L!Init
  /\ part # "gate" => runner = <<>>
  /\ part # "health" =>
       \A c \in Callers :
         caller[c] = [kind |-> CHOOSE k \in L!Kinds : TRUE,
                      harness |-> CHOOSE h \in Harnesses : TRUE, at |-> "new", list |-> {}]
  /\ part # "actions" =>
       requests = (CHOOSE q \in Cases : TRUE) /\ view = [n \in Nodes |-> {}]

MCNext ==
  \/ part = "lifecycle" /\ F!Next /\ UNCHANGED <<part, gate, marks, actions>>
  \/ part = "gate" /\ G!Next /\ UNCHANGED <<part, lifecycle, marks, actions>>
  \/ part = "health" /\ L!Next /\ UNCHANGED <<part, lifecycle, gate, actions>>
  \/ part = "actions" /\ Next /\ UNCHANGED <<part, lifecycle, gate, marks>>

MCSpec == MCInit /\ [][MCNext]_<<part, lifecycle, gate, marks, actions>>

(* Each part is as fair as its own module says. *)
LifecycleRuns == part = "lifecycle" /\ F!TaskFairness

GateRuns ==
  part = "gate" /\ \A c \in Calls : WF_gate(part = "gate" /\ G!CallSteps(c))

HealthRuns ==
  /\ part = "health"
  /\ WF_marks(part = "health" /\ L!Tick)
  /\ WF_marks(part = "health" /\ L!SweepRenders)
  /\ WF_marks(part = "health" /\ L!SweepPuts)
  /\ \A c \in Callers :
       /\ WF_marks(part = "health" /\ L!Renders(c))
       /\ WF_marks(part = "health" /\ L!Puts(c))

ActionsRun ==
  part = "actions" /\ WF_actions(part = "actions" /\ \E r \in Ids : SendTimesOut(r))

-----------------------------------------------------------------------------
(* What was asked of a session comes to an end. *)
CallsAreSettled == LifecycleRuns => F!CallsSettle

(* A gated call runs only if somebody allowed it, and what is listed can be
   answered (Gate: OnlyTheAllowed, ListedCanBeAnswered).                      *)
GateIsHeld == part = "gate" => G!OnlyTheAllowed /\ G!ListedCanBeAnswered

(* A gated call returns. *)
CallsReturn == GateRuns => G!CallsReturn

(* What peers are told of the harnesses comes to be true. *)
ToldIsTrue == HealthRuns => L!ToldIsTrue

(* A send returns, though the two sessions send to each other. *)
AllSendsReturn == ActionsRun => SendsReturn
=============================================================================
