-------------------------------- MODULE Gate --------------------------------
(***************************************************************************)
(* Gated tool calls (gate.rs, R16.2) of one session: a harness extension    *)
(* posts a call to /gate and is held until a human allows or denies it or   *)
(* the harness's gate_timeout_s passes.  Humans see the pending requests of *)
(* the session, the runner's own first and the gated calls after them, and  *)
(* answer through POST /sessions/{key}/permission, with the id of a request *)
(* they saw (the command line, the terminal view and the page always do) or *)
(* with none.                                                               *)
(*                                                                         *)
(* Abstractions.  Sessions share nothing here, so there is one.  Policy     *)
(* auto allows at once and is left out.  The runner is its list of pending  *)
(* requests: how they come and go is module Relay.  A claim carries the     *)
(* time it is made at and the later one wins (module Roster), so a claim is *)
(* one step; the hooks of the harness claim nothing meanwhile.              *)
(***************************************************************************)
EXTENDS Naturals, Sequences, FiniteSets

CONSTANTS
  Calls,      \* the gated calls, each with the request id its wait draws
  Requests,   \* permission requests of the agent, pending at the runner
  Humans,     \* whoever answers, one answer each
  None

(* The ids of the runner's requests and the gate's never meet, *)
(* and none of them is an answer.                              *)
GateAssumption ==
  /\ Calls \cap Requests = {}
  /\ None \notin Calls \cup Requests \cup {"allow", "deny", "timeout"}

VARIABLES
  call,       \* per call, where its request to /gate is
  outcome,    \* per call, what its harness was told
  pending,    \* PENDING: the calls that wait, oldest first
  reply,      \* per call, what was sent into its channel
  runner,     \* the runner's pending requests, oldest first
  activity,   \* what the record of the session shows
  human,      \* per human: step, the id named, the runner's request meant, the choice
  named,      \* history: the answers accepted, [what, id, choice, by]
  gone        \* history: calls whose caller hung up

vars == <<call, outcome, pending, reply, runner, activity, human, named, gone>>

Waits == {"waits", "expires"}

Init ==
  /\ call = [c \in Calls |-> "idle"]
  /\ outcome = [c \in Calls |-> None]
  /\ pending = <<>>
  /\ reply = [c \in Calls |-> None]
  /\ runner \in {<<>>} \cup {<<r>> : r \in Requests}
  /\ activity = "active"
  /\ human = [h \in Humans |-> [at |-> "idle", id |-> None, meant |-> None, choice |-> None]]
  /\ named = {}
  /\ gone = {}

In(q) == {q[i] : i \in 1..Len(q)}

(* list.remove at the first position of x. *)
Without(q, x) ==
  IF x \notin In(q) THEN q
  ELSE LET i == CHOOSE i \in 1..Len(q) : q[i] = x /\ \A j \in 1..(i - 1) : q[j] # x
       IN SubSeq(q, 1, i - 1) \o SubSeq(q, i + 1, Len(q))

-----------------------------------------------------------------------------
(* The gate handler, routes.rs: the session shows needs_attention, *)
Posts(c) ==
  /\ call[c] = "idle"
  /\ call' = [call EXCEPT ![c] = "claimed"]
  /\ activity' = "needs_attention"
  /\ UNCHANGED <<outcome, pending, reply, runner, human, named, gone>>

(* then wait registers the call and holds it. *)
WaitStarts(c) ==
  /\ call[c] = "claimed"
  /\ call' = [call EXCEPT ![c] = "waits"]
  /\ pending' = Append(pending, c)
  /\ UNCHANGED <<outcome, reply, runner, activity, human, named, gone>>

(* An answer is in the channel: it is the outcome, and the session is active. *)
WaitEnds(c) ==
  /\ call[c] = "waits"
  /\ reply[c] # None
  /\ call' = [call EXCEPT ![c] = "answered"]
  /\ outcome' = [outcome EXCEPT ![c] = reply[c]]
  /\ UNCHANGED <<pending, reply, runner, activity, human, named, gone>>

(* Mutant: a wait without a timeout. *)
ExpiresNever(c) == call[c] = "expired" /\ UNCHANGED vars

(* The time is up and nothing is in the channel: the wait is over, *)
Expires(c) ==
  /\ call[c] = "waits"
  /\ reply[c] = None
  /\ call' = [call EXCEPT ![c] = "expires"]
  /\ UNCHANGED <<outcome, pending, reply, runner, activity, human, named, gone>>

(* and only then the call leaves the list, unless an answer took it first. *)
Withdraws(c) ==
  /\ call[c] = "expires"
  /\ call' = [call EXCEPT ![c] = "answered"]
  /\ pending' = Without(pending, c)
  /\ outcome' = [outcome EXCEPT ![c] = "timeout"]
  /\ UNCHANGED <<reply, runner, activity, human, named, gone>>

(* The handler claims active and the harness hears the outcome. *)
Returns(c) ==
  /\ call[c] = "answered"
  /\ call' = [call EXCEPT ![c] = "returned"]
  /\ activity' = "active"
  /\ UNCHANGED <<outcome, pending, reply, runner, human, named, gone>>

(* The extension aborts its request: the handler's future is dropped where it
   waits and nothing of it runs any more. *)
HangsUp(c) ==
  /\ call[c] = "waits"
  /\ call' = [call EXCEPT ![c] = "returned"]
  /\ gone' = gone \cup {c}
  /\ UNCHANGED <<outcome, pending, reply, runner, activity, human, named>>

-----------------------------------------------------------------------------
(* session_state: the runner's pending requests, then the gated ones. *)
SessionState == runner \o pending

(* A human fetches the session and picks a request, or names none. *)
Fetches(h) ==
  /\ human[h].at = "idle"
  /\ SessionState # <<>>
  /\ \E choice \in {"allow", "deny"}, id \in In(SessionState) \cup {None} :
       human' = [human EXCEPT ![h] = [at |-> "posted", id |-> id, meant |-> None, choice |-> choice]]
  /\ UNCHANGED <<call, outcome, pending, reply, runner, activity, named, gone>>

Becomes(h, at, id) == human' = [human EXCEPT ![h].at = at, ![h].meant = id]
Accepted(h, x)     == named' = named \cup {[what |-> x, id |-> human[h].id, choice |-> human[h].choice, by |-> h]}

(* permission, routes.rs: with no id the runner's oldest request is meant, when
   there is one. *)
Permission(h) ==
  /\ human[h].at = "posted"
  /\ LET id == IF human[h].id # None THEN human[h].id
               ELSE IF runner # <<>> THEN Head(runner) ELSE None
     IN Becomes(h, IF id = None THEN "gate" ELSE "runner", id)
  /\ UNCHANGED <<call, outcome, pending, reply, runner, activity, named, gone>>

(* The runner has the request, or it is tried at the gate. *)
AnswersRunner(h) ==
  /\ human[h].at = "runner"
  /\ LET r == human[h].meant IN
     IF r \in In(runner)
     THEN /\ runner' = Without(runner, r)
          /\ Becomes(h, "done", None)
          /\ Accepted(h, r)
     ELSE /\ Becomes(h, "gate", None)
          /\ UNCHANGED <<runner, named>>
  /\ UNCHANGED <<call, outcome, pending, reply, activity, gone>>

(* Mutant: the oldest call is taken whatever the id. *)
TakenOldest(h) == IF pending = <<>> THEN None ELSE Head(pending)

(* The call gate::answer takes: the one named, or the oldest. *)
Taken(h) ==
  IF human[h].id = None THEN IF pending = <<>> THEN None ELSE Head(pending)
  ELSE IF human[h].id \in In(pending) THEN human[h].id ELSE None

(* gate::answer takes the call off the list and answers its channel; the call
   may be gone, which nobody hears of. *)
AnswersGate(h) ==
  /\ human[h].at = "gate"
  /\ LET c == Taken(h) IN
     IF c = None
     THEN /\ Becomes(h, "refused", None)
          /\ UNCHANGED <<pending, reply, named>>
     ELSE /\ pending' = Without(pending, c)
          /\ reply' = [reply EXCEPT ![c] = human[h].choice]
          /\ Becomes(h, "done", None)
          /\ Accepted(h, c)
  /\ UNCHANGED <<call, outcome, runner, activity, gone>>

(* A request of the runner goes by itself: its turn was cancelled. *)
RunnerDrops ==
  /\ runner # <<>>
  /\ runner' = Tail(runner)
  /\ UNCHANGED <<call, outcome, pending, reply, activity, human, named, gone>>

-----------------------------------------------------------------------------
CallSteps(c)  == WaitStarts(c) \/ WaitEnds(c) \/ Expires(c) \/ Withdraws(c) \/ Returns(c)
HumanSteps(h) == Permission(h) \/ AnswersRunner(h) \/ AnswersGate(h)

Next ==
  \/ \E c \in Calls : Posts(c) \/ CallSteps(c) \/ HangsUp(c)
  \/ \E h \in Humans : Fetches(h) \/ HumanSteps(h)
  \/ RunnerDrops

Spec == Init /\ [][Next]_vars

(* The timer of a call runs whatever else happens and its handler is polled;
   no human need ever answer. *)
FairSpec == Spec /\ \A c \in Calls : WF_vars(CallSteps(c))

-----------------------------------------------------------------------------
(* A tool call runs only when a human said allow, and meant it: an answer that
   names a request is used for that one and for nothing else, one answer
   decides one call, and a call is decided at most once, however answers,
   timeouts and the runner's own requests interleave (gate.rs:66, 81). *)
OnlyTheAllowed ==
  /\ \A c \in Calls : outcome[c] \in {"allow", "deny"}
       => \E n \in named : n.what = c /\ n.choice = outcome[c] /\ n.id \in {None, c}
  /\ \A m, n \in named : (m.what = n.what \/ m.by = n.by) => m = n

(* What a client lists as pending is a call that can still be answered: no call
   that was told its outcome stays listed, a timed out one neither.  One whose
   caller hung up does (gate.rs:104). *)
ListedCanBeAnswered ==
  \A c \in In(pending) : call[c] \in Waits \/ c \in gone

(* Every call that is posted is told an outcome, if nobody ever answers too,
   unless its harness hung up (R16.2: a wait past gate_timeout_s is a deny). *)
Held == {c \in Calls : call[c] \notin {"idle", "returned"}}
CallsReturn == Held # {} ~> Held = {}

(* routes.rs, gate: the session waits in needs_attention meanwhile. *)
WaitingIsShown ==
  (\E c \in Calls : call[c] = "waits") => activity = "needs_attention"
=============================================================================
