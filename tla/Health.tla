-------------------------------- MODULE Health --------------------------------
(***************************************************************************)
(* Harness health (runner/health.rs, R7.7): what starts, turns and hooks    *)
(* say of a harness is one mark with a deadline, and every change is        *)
(* rendered and then put into the roster's capabilities, which peers read.  *)
(* Rendering and putting are two locks, so two callers can put in the       *)
(* opposite order; the idle sweep puts again at every tick.                 *)
(*                                                                         *)
(* Abstractions.  A caller is one start, turn or hook claim.  Time is a     *)
(* clock up to MaxTime, the default length of a mark one unit of it and a   *)
(* deadline an error names Late.  How a launch or a turn goes is module     *)
(* Lifecycle and Relay; here it ends one of the ways health is told of.     *)
(***************************************************************************)
EXTENDS Naturals, FiniteSets

CONSTANTS
  Harnesses,
  Callers,    \* the calls of this behaviour, all concurrent, each made once
  MaxTime,    \* bound on the clock
  Late,       \* the deadline an error may name, in units from now
  None

VARIABLES
  entries,    \* Health.entries: per harness its mark, [state, since, until]
  health,     \* the list in the roster's capabilities, of [harness, state, ...]
  now,
  caller,     \* per call: what it is, of which harness, and where
  sweep       \* the idle sweep's own publish

vars == <<entries, health, now, caller, sweep>>

Kinds == {"start", "turn", "hook_login", "hook_other"}

Init ==
  /\ entries = [h \in Harnesses |-> None]
  /\ health = {}
  /\ now = 0
  /\ caller \in [Callers -> [kind : Kinds, harness : Harnesses, at : {"new"}, list : {{}}]]
  /\ sweep = [at |-> "sleeps", list |-> {}]

-----------------------------------------------------------------------------
(* Health::get: the mark while it lasts. *)
Live(h)  == entries[h] # None /\ entries[h].until > now
Is(h, s) == Live(h) /\ entries[h].state = s

(* Health::set: since is kept while the state is the same and lasts. *)
Set(h, state, until) ==
  entries' = [entries EXCEPT ![h] =
    [state |-> state, until |-> until, since |-> IF Is(h, state) THEN @.since ELSE now]]

Clear(h) == entries' = [entries EXCEPT ![h] = None]

(* Health::render: the live marks, the expired ones dropped on the way. *)
Rendered == {[harness |-> h, mark |-> entries[h]] : h \in {x \in Harnesses : Live(x)}}
Expire   == entries' = [h \in Harnesses |-> IF Live(h) THEN entries[h] ELSE None]

Goes(c, at) == caller' = [caller EXCEPT ![c].at = at]

-----------------------------------------------------------------------------
(* Runner::start: refused fast on a login or a broken mark. *)
StartRefused(c) ==
  /\ caller[c].kind = "start" /\ caller[c].at = "new"
  /\ Is(caller[c].harness, "login_required") \/ Is(caller[c].harness, "broken")
  /\ Goes(c, "refused")
  /\ UNCHANGED <<entries, health, now, sweep>>

StartLaunches(c) ==
  /\ caller[c].kind = "start" /\ caller[c].at = "new"
  /\ ~Is(caller[c].harness, "login_required") /\ ~Is(caller[c].harness, "broken")
  /\ Goes(c, "runs")
  /\ UNCHANGED <<entries, health, now, sweep>>

TurnStarts(c) ==
  /\ caller[c].kind = "turn" /\ caller[c].at = "new"
  /\ Goes(c, "runs")
  /\ UNCHANGED <<entries, health, now, sweep>>

(* launch marks the harness when its adapter does not come up or asks for a
   login, note_turn when a turn ends on a rate limit: mark sets, and publishes. *)
Marks(c) ==
  /\ caller[c].at = "runs"
  /\ \/ /\ caller[c].kind = "start"
        /\ \E s \in {"login_required", "broken"} : Set(caller[c].harness, s, now + 1)
     \/ /\ caller[c].kind = "turn"
        /\ \E d \in {1, Late} : Set(caller[c].harness, "rate_limited", now + d)
  /\ Goes(c, "publishes")
  /\ UNCHANGED <<health, now, sweep>>

(* A session opened or a turn completed: whatever mark there was goes. *)
Worked(c) ==
  /\ caller[c].at = "runs"
  /\ Clear(caller[c].harness)
  /\ Goes(c, "publishes")
  /\ UNCHANGED <<health, now, sweep>>

(* A turn may fail of something else. *)
FailsOtherwise(c) ==
  /\ caller[c].kind = "turn" /\ caller[c].at = "runs"
  /\ Goes(c, "done")
  /\ UNCHANGED <<entries, health, now, sweep>>

(* The claim route: a hook that saw the login asked for marks the harness. *)
HookLogin(c) ==
  /\ caller[c].kind = "hook_login" /\ caller[c].at = "new"
  /\ Set(caller[c].harness, "login_required", now + 1)
  /\ Goes(c, "publishes")
  /\ UNCHANGED <<health, now, sweep>>

(* Any other claim reads whether the mark is a login, *)
HookReads(c) ==
  /\ caller[c].kind = "hook_other" /\ caller[c].at = "new"
  /\ Goes(c, IF Is(caller[c].harness, "login_required") THEN "clears" ELSE "done")
  /\ UNCHANGED <<entries, health, now, sweep>>

(* and clears the harness if it was. *)
HookClears(c) ==
  /\ caller[c].at = "clears"
  /\ Clear(caller[c].harness)
  /\ Goes(c, "publishes")
  /\ UNCHANGED <<health, now, sweep>>

(* publish_health renders under one lock *)
Renders(c) ==
  /\ caller[c].at = "publishes"
  /\ Expire
  /\ caller' = [caller EXCEPT ![c].at = "rendered", ![c].list = Rendered]
  /\ UNCHANGED <<health, now, sweep>>

(* and puts under another. *)
Puts(c) ==
  /\ caller[c].at = "rendered"
  /\ health' = caller[c].list
  /\ caller' = [caller EXCEPT ![c].at = "done", ![c].list = {}]
  /\ UNCHANGED <<entries, now, sweep>>

-----------------------------------------------------------------------------
(* Mutant: the sweep leaves health alone. *)
SweepSkips ==
  /\ sweep' = sweep
  /\ UNCHANGED <<entries, health, now, caller>>

(* sweep_idle publishes at every tick. *)
SweepRenders ==
  /\ sweep.at = "sleeps"
  /\ Expire
  /\ sweep' = [at |-> "rendered", list |-> Rendered]
  /\ UNCHANGED <<health, now, caller>>

SweepPuts ==
  /\ sweep.at = "rendered"
  /\ health' = sweep.list
  /\ sweep' = [at |-> "sleeps", list |-> {}]
  /\ UNCHANGED <<entries, now, caller>>

Tick ==
  /\ now < MaxTime
  /\ now' = now + 1
  /\ UNCHANGED <<entries, health, caller, sweep>>

-----------------------------------------------------------------------------
CallerSteps(c) ==
  \/ StartRefused(c) \/ StartLaunches(c) \/ TurnStarts(c)
  \/ Marks(c) \/ Worked(c) \/ FailsOtherwise(c)
  \/ HookLogin(c) \/ HookReads(c) \/ HookClears(c) \/ Renders(c) \/ Puts(c)

Next == (\E c \in Callers : CallerSteps(c)) \/ SweepRenders \/ SweepPuts \/ Tick

Spec == Init /\ [][Next]_vars

(* Time passes, the sweep comes round and a call that is made goes on. *)
FairSpec ==
  /\ Spec
  /\ WF_vars(Tick) /\ WF_vars(SweepRenders) /\ WF_vars(SweepPuts)
  /\ \A c \in Callers : WF_vars(Renders(c)) /\ WF_vars(Puts(c))

-----------------------------------------------------------------------------
(* Whatever order concurrent callers put their lists in, what peers are told
   comes to be the marks that are live, and stays so once calls have ended:
   every mark expires and leaves the list (runner/mod.rs:369, 1050). *)
ToldIsTrue == <>[](health = Rendered)

(* routes.rs, claim: a later working claim clears the login mark only. *)
ClaimClearsLoginOnly ==
  [][\A c \in Callers : HookClears(c) =>
       \A h \in Harnesses : entries'[h] # entries[h] => entries[h].state = "login_required"]_vars
=============================================================================
