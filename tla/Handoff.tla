-------------------------------- MODULE Handoff --------------------------------
(***************************************************************************)
(* Moving a conversation between nodes: the handoff, export and import      *)
(* routes (crates/rosterd/src/api/routes.rs) over the runners of two or     *)
(* more nodes (runner/mod.rs) and the one request between them, which may   *)
(* fail to arrive, outlive its caller, or be answered to nobody.            *)
(*                                                                         *)
(* Abstractions.  One conversation, with a transcript; its sessions have    *)
(* the keys 1..MaxKeys, of which key 1 is the first.  A suspension and a    *)
(* launch are one step up to the point that another call can see; Lifecycle *)
(* has their insides, and what crashes and stops do to a session at home.   *)
(* An import that its caller no longer waits for may be dropped half way:   *)
(* it has then given the agent the conversation or not, as one that ends.   *)
(***************************************************************************)
EXTENDS Naturals, FiniteSets

CONSTANTS
  Nodes,
  Origin,       \* where the conversation starts
  MaxKeys,      \* bound on the sessions
  MaxCalls,     \* bound on the handoffs and exports
  MaxTurns,     \* bound on the turns of the conversation
  MaxRestarts   \* bound on the restarts of daemons

HandoffAssumption ==
  /\ Origin \in Nodes
  /\ MaxKeys \in Nat \ {0}
  /\ {MaxCalls, MaxTurns, MaxRestarts} \subseteq Nat

Keys   == 1..MaxKeys
Calls  == 1..MaxCalls
Turns  == 1..MaxTurns
Nobody == 0

VARIABLES
  at,        \* the node of a session
  life,      \* spawned: launched to resume a parked key; loading: has taken over
  why,       \* end reason
  from,      \* the parked key that a resume replaces
  by,        \* the call whose import launched the session
  step,      \* how far the import of a call is
  moved,     \* the session a call takes away
  to,        \* where it takes it
  waiting,   \* handoffs whose handler waits for the import's answer
  carried,   \* exports that a client carries away by itself
  trouble,   \* history: what went on beside a handoff; resuming: a resume begun
             \* before it, resumed: one begun while its request was out
  turns,     \* history: the turns the agents have had
  copy,      \* the transcript on a node: the turns in it...
  placed,    \* ...and the nodes that have one at all
  packed,    \* the transcript in an export
  restarts

sessions == <<at, life, why, from, by>>
calls    == <<step, moved, to, waiting, carried>>
texts    == <<turns, copy, placed, packed>>
vars     == <<sessions, calls, texts, trouble, restarts>>

Reasons == {"none", "suspended", "expired", "handed_off", "failed"}

TypeOK ==
  /\ at \in [Keys -> Nodes]
  /\ life \in [Keys -> {"unborn", "spawned", "loading", "live", "suspended", "ended"}]
  /\ why \in [Keys -> Reasons]
  /\ from \in [Keys -> Keys \cup {Nobody}]
  /\ by \in [Keys -> Calls \cup {Nobody}]
  /\ step \in [Calls -> {"free", "asked", "importing", "created", "refused", "silent", "over"}]
  /\ moved \in [Calls -> Keys \cup {Nobody}]
  /\ to \in [Calls -> Nodes]
  /\ {waiting, carried} \subseteq SUBSET Calls
  /\ trouble \subseteq {"resuming", "resumed", "exported", "given up"}
  /\ turns \in 0..MaxTurns
  /\ copy \in [Nodes -> SUBSET Turns]
  /\ placed \subseteq Nodes
  /\ packed \in [Calls -> SUBSET Turns]
  /\ restarts \in 0..MaxRestarts

(* One running session on the origin. *)
Init ==
  /\ at = [k \in Keys |-> Origin]
  /\ life = [k \in Keys |-> IF k = 1 THEN "live" ELSE "unborn"]
  /\ why = [k \in Keys |-> "none"]
  /\ from = [k \in Keys |-> Nobody]
  /\ by = [k \in Keys |-> Nobody]
  /\ step = [c \in Calls |-> "free"]
  /\ moved = [c \in Calls |-> Nobody]
  /\ to = [c \in Calls |-> Origin]
  /\ waiting = {}
  /\ carried = {}
  /\ trouble = {}
  /\ turns = 0
  /\ copy = [n \in Nodes |-> {}]
  /\ placed = {Origin}
  /\ packed = [c \in Calls |-> {}]
  /\ restarts = 0

-----------------------------------------------------------------------------
Unborn == {k \in Keys : life[k] = "unborn"}
Fresh  == CHOOSE k \in Unborn : TRUE
NextCall == CHOOSE c \in Calls : step[c] = "free"

(* A call whose import is out and may yet start the session elsewhere, and a
   resume that has not taken its key over yet.                              *)
IsOut(k)     == \E c \in Calls : moved[c] = k /\ step[c] \in {"asked", "importing", "created", "silent"}
IsResumed(k) == \E j \in Keys : from[j] = k /\ life[j] = "spawned"

(* Runner::launch up to the holder that runs. *)
Spawn(n, phase, old, call) ==
  /\ Unborn # {}
  /\ at' = [at EXCEPT ![Fresh] = n]
  /\ life' = [life EXCEPT ![Fresh] = phase]
  /\ from' = [from EXCEPT ![Fresh] = old]
  /\ by' = [by EXCEPT ![Fresh] = call]

(* Roster::end of a suspended session; its state file goes along. *)
Ends(k, reason) ==
  IF life[k] = "suspended"
  THEN life' = [life EXCEPT ![k] = "ended"] /\ why' = [why EXCEPT ![k] = reason]
  ELSE UNCHANGED <<life, why>>

-----------------------------------------------------------------------------
(* At home.                                                                 *)

(* The agent has a turn and writes it to its transcript on the node. *)
Turn(k) ==
  /\ life[k] = "live"
  /\ turns < MaxTurns
  /\ turns' = turns + 1
  /\ copy' = [copy EXCEPT ![at[k]] = @ \cup {turns'}]
  /\ UNCHANGED <<sessions, calls, trouble, placed, packed, restarts>>

(* Runner::suspend, by hand or when idle. *)
Suspend(k) ==
  /\ life[k] = "live"
  /\ life' = [life EXCEPT ![k] = "suspended"]
  /\ UNCHANGED <<at, why, from, by, calls, trouble, texts, restarts>>

Resuming(n) == {j \in Keys : at[j] = n /\ from[j] # Nobody /\ life[j] \in {"spawned", "loading"}}

(* Runner::resume, by hand or for a prompt: a new holder; the key is parked
   until that runs.                                                         *)
Resume(k) ==
  /\ life[k] = "suspended"
  /\ Resuming(at[k]) = {}
  /\ Spawn(at[k], "spawned", k, Nobody)
  /\ trouble' = IF IsOut(k) THEN trouble \cup {"resumed"} ELSE trouble
  /\ UNCHANGED <<why, calls, texts, restarts>>

(* Runner::unpark: the new key has taken over, whatever became of the old. *)
ResumeUnparks(j) ==
  /\ life[j] = "spawned"
  /\ life' = [life EXCEPT ![j] = "loading", ![from[j]] = "ended"]
  /\ why' = IF life[from[j]] = "suspended" THEN [why EXCEPT ![from[j]] = "suspended"] ELSE why
  /\ UNCHANGED <<at, from, by, calls, trouble, texts, restarts>>

ResumeLoads(j) ==
  /\ life[j] = "loading"
  /\ from[j] # Nobody
  /\ life' = [life EXCEPT ![j] = "live"]
  /\ UNCHANGED <<at, why, from, by, calls, trouble, texts, restarts>>

(* A launch that fails after the old key has gone takes it along. *)
ResumeFails(j) ==
  /\ life[j] \in {"spawned", "loading"}
  /\ from[j] # Nobody
  /\ life' = [life EXCEPT ![j] = "ended"]
  /\ why' = [why EXCEPT ![j] = "failed"]
  /\ UNCHANGED <<at, from, by, calls, trouble, texts, restarts>>

(* DELETE of a suspended session. *)
Discard(k) ==
  /\ life[k] = "suspended"
  /\ Ends(k, "expired")
  /\ UNCHANGED <<at, from, by, calls, trouble, texts, restarts>>

-----------------------------------------------------------------------------
(* Handing off.                                                             *)

Asked(k, n) ==
  /\ packed' = [packed EXCEPT ![NextCall] = copy[at[k]]]
  /\ step' = [step EXCEPT ![NextCall] = "asked"]
  /\ moved' = [moved EXCEPT ![NextCall] = k]
  /\ to' = [to EXCEPT ![NextCall] = n]

Disturbed(k) ==
  trouble' = (trouble \cup IF IsOut(k) THEN {"exported"} ELSE {})
                      \cup IF IsResumed(k) THEN {"resuming"} ELSE {}

(* handoff: the session is suspended if it runs, packed, and sent. *)
HandoffExports(k, n) ==
  /\ \E c \in Calls : step[c] = "free"
  /\ life[k] \in {"live", "suspended"}
  /\ n # at[k]
  /\ Asked(k, n)
  /\ waiting' = waiting \cup {NextCall}
  /\ life' = [life EXCEPT ![k] = "suspended"]
  /\ Disturbed(k)
  /\ UNCHANGED <<at, why, from, by, carried, turns, copy, placed, restarts>>

(* export: the same, and the session ends here at once. *)
Export(k, n) ==
  /\ \E c \in Calls : step[c] = "free"
  /\ life[k] \in {"live", "suspended"}
  /\ Asked(k, n)
  /\ carried' = carried \cup {NextCall}
  /\ life' = [life EXCEPT ![k] = "ended"]
  /\ why' = [why EXCEPT ![k] = "handed_off"]
  /\ Disturbed(k)
  /\ UNCHANGED <<at, from, by, waiting, turns, copy, placed, restarts>>

(* Mutant: a transcript that is there already is taken for the one that came. *)
PlaceKeeps(c) ==
  /\ placed' = placed \cup {to[c]}
  /\ copy' = IF to[c] \in placed THEN copy ELSE [copy EXCEPT ![to[c]] = packed[c]]

(* transcript::place: one that is there already must be the same. *)
Place(c) ==
  /\ to[c] \in placed => copy[to[c]] = packed[c]
  /\ placed' = placed \cup {to[c]}
  /\ copy' = [copy EXCEPT ![to[c]] = packed[c]]

(* Runner::import: the transcript, and a new holder under a new key.  Whether
   the conversation runs on the node already is not looked at.              *)
ImportStarts(c) ==
  /\ step[c] = "asked"
  /\ step' = [step EXCEPT ![c] = "importing"]
  /\ Place(c)
  /\ Spawn(to[c], "loading", Nobody, c)
  /\ UNCHANGED <<why, moved, to, waiting, carried, trouble, turns, packed, restarts>>

(* A conflict: another transcript, or no such directory on that node. *)
ImportRefuses(c) ==
  /\ step[c] = "asked"
  /\ c \notin carried
  /\ step' = [step EXCEPT ![c] = "refused"]
  /\ UNCHANGED <<sessions, moved, to, waiting, carried, trouble, texts, restarts>>

(* 201, when there is still someone to answer. *)
ImportLoads(j) ==
  /\ life[j] = "loading"
  /\ by[j] # Nobody
  /\ life' = [life EXCEPT ![j] = "live"]
  /\ step' = [step EXCEPT ![by[j]] = "created"]
  /\ carried' = carried \ {by[j]}
  /\ UNCHANGED <<at, why, from, by, moved, to, waiting, trouble, texts, restarts>>

(* An error; a client that carries the export tries again. *)
ImportFails(j) ==
  /\ life[j] = "loading"
  /\ by[j] # Nobody
  /\ life' = [life EXCEPT ![j] = "ended"]
  /\ why' = [why EXCEPT ![j] = "failed"]
  /\ step' = [step EXCEPT ![by[j]] = IF by[j] \in carried THEN "asked" ELSE "refused"]
  /\ UNCHANGED <<at, from, by, moved, to, waiting, carried, trouble, texts, restarts>>

(* Mutant: the session is left parked. *)
HandoffKeepsParked(c) ==
  /\ c \in waiting
  /\ step[c] = "created"
  /\ step' = [step EXCEPT ![c] = "over"]
  /\ waiting' = waiting \ {c}
  /\ UNCHANGED <<sessions, moved, to, carried, trouble, texts, restarts>>

(* 2xx: Runner::handed_off. *)
HandoffEnds(c) ==
  /\ c \in waiting
  /\ step[c] = "created"
  /\ step' = [step EXCEPT ![c] = "over"]
  /\ waiting' = waiting \ {c}
  /\ Ends(moved[c], "handed_off")
  /\ UNCHANGED <<at, from, by, moved, to, carried, trouble, texts, restarts>>

(* Any other answer, or a target that could not be asked: 502. *)
HandoffFails(c) ==
  /\ c \in waiting
  /\ step[c] \in {"asked", "refused"}
  /\ step' = [step EXCEPT ![c] = "over"]
  /\ waiting' = waiting \ {c}
  /\ UNCHANGED <<sessions, moved, to, carried, trouble, texts, restarts>>

(* Mutant: an import that was begun is waited for without end. *)
HandoffWaits(c) ==
  /\ c \in waiting
  /\ step[c] = "asked"
  /\ waiting' = waiting \ {c}
  /\ trouble' = trouble \cup {"given up"}
  /\ UNCHANGED <<sessions, step, moved, to, carried, texts, restarts>>

(* PROXY_TIMEOUT, a connection that breaks, or a client that goes away and
   takes the handler along: the import that was asked for goes on.          *)
HandoffGivesUp(c) ==
  /\ c \in waiting
  /\ step[c] \in {"asked", "importing", "created", "silent"}
  /\ waiting' = waiting \ {c}
  /\ trouble' = trouble \cup {"given up"}
  /\ UNCHANGED <<sessions, step, moved, to, carried, texts, restarts>>

-----------------------------------------------------------------------------
(* A daemon starts again, or the machine does.  Parked sessions are restored,
   running ones are reattached or, after a reboot, restored; a launch under
   way is nobody's any more, and its agent has the conversation ("live") or
   has not ("ended", even where the process is still there).                *)
Restart(n, reboot) ==
  LET launched == {k \in Keys : at[k] = n /\ life[k] \in {"spawned", "loading"}}
      cut == {c \in Calls : to[c] = n /\ step[c] = "importing"}
      dropped == {c \in waiting : at[moved[c]] = n}
  IN
  /\ restarts < MaxRestarts
  /\ restarts' = restarts + 1
  /\ \E up \in SUBSET {k \in launched : life[k] = "loading" /\ ~reboot} :
       /\ life' = [k \in Keys |->
            IF k \in up THEN "live"
            ELSE IF k \in launched THEN "ended"
            ELSE IF at[k] = n /\ life[k] = "live" /\ reboot THEN "suspended"
            ELSE life[k]]
       /\ why' = [k \in Keys |-> IF k \in launched \ up THEN "failed" ELSE why[k]]
  /\ step' = [c \in Calls |->
       IF c \in cut THEN IF c \in carried THEN "asked" ELSE "silent" ELSE step[c]]
  /\ waiting' = waiting \ dropped
  /\ trouble' = IF cut # {} \/ \E c \in dropped : step[c] # "refused"
                THEN trouble \cup {"given up"} ELSE trouble
  /\ UNCHANGED <<at, from, by, moved, to, carried, texts>>

Next ==
  \/ \E k \in Keys :
       \/ Turn(k) \/ Suspend(k) \/ Resume(k) \/ Discard(k)
       \/ ResumeUnparks(k) \/ ResumeLoads(k) \/ ResumeFails(k)
       \/ ImportLoads(k) \/ ImportFails(k)
       \/ \E n \in Nodes : HandoffExports(k, n) \/ Export(k, n)
  \/ \E c \in Calls :
       \/ ImportRefuses(c) \/ ImportStarts(c)
       \/ HandoffEnds(c) \/ HandoffFails(c) \/ HandoffGivesUp(c)
  \/ \E n \in Nodes, reboot \in BOOLEAN : Restart(n, reboot)

Spec == Init /\ [][Next]_vars

(* A handler goes on once it has its answer, and waits no longer than
   PROXY_TIMEOUT for one.                                                   *)
HandlerFairness ==
  \A c \in Calls : WF_vars(HandoffEnds(c) \/ HandoffFails(c) \/ HandoffGivesUp(c))

FairSpec == Spec /\ HandlerFairness

-----------------------------------------------------------------------------
(* Properties.                                                              *)

Live == {k \in Keys : life[k] = "live"}

InOneProcess == Cardinality(Live) <= 1

(* The session is ended only once the import answered, so it cannot be resumed
   twice, here and on the target: not by a resume that begins between the
   export and the answer either, where nothing else went on beside the handoff. *)
CannotBeResumedTwice == trouble \subseteq {"resumed"} => InOneProcess

(* Nor is it, by any number of handoffs there and back, refusals, failures
   and restarts, as long as nobody resumes or hands off the session again
   while it is out, and the handler gets the import's answer.               *)
OneHome == trouble = {} => InOneProcess

(* Then, once no handoff is under way, the conversation is in one place: what
   runs, or is being launched, is not also parked somewhere.                *)
InOnePlace ==
  trouble = {} /\ waiting = {} =>
    Cardinality({k \in Keys : life[k] \in {"loading", "live", "suspended"}}) <= 1

(* A handoff loses nothing: whatever becomes of it, the conversation is on
   some node or with the client that carries it, unless a client discards it
   or a resume fails after it has taken over.                               *)
NothingIsLost ==
  \/ carried # {}
  \/ \E k \in Keys :
       \/ life[k] \in {"spawned", "loading", "live", "suspended"}
       \/ why[k] = "expired"
       \/ why[k] = "failed" /\ from[k] # Nobody

(* All of it: by any number of handoffs the conversation is in one place, and
   somewhere.                                                                *)
OnePlace == TypeOK /\ OneHome /\ InOnePlace /\ NothingIsLost

(* No turn is lost on the way: the agent that has the conversation finds every
   turn of it on its node, wherever it went and came back to.               *)
TranscriptIsWhole ==
  trouble = {} => \A k \in Live : copy[at[k]] = 1..turns

(* A handoff comes to its end, whether its request is lost, its target goes
   away in the middle, or its answer never comes.  A call is made once, so it
   is enough that no moment is the last with one waiting.                    *)
HandoffsEnd == waiting # {} ~> waiting = {}
=============================================================================
