----------------------------- MODULE MCSessions -----------------------------
(* Small instances of the modules about what leaves a session and what       *)
(* reaches it, side by side in one run: `part` says which of the three goes; *)
(* the others stay as they begin.                                            *)
EXTENDS Handoff

CONSTANTS
  MaxRequests, MaxPrompts, MaxUpdates, MaxBuffer, MaxEvents,
  Ids, PeersToo, Capacity, MaxEntries, MaxFrames

VARIABLES
  part,
  \* Relay
  alive, kind, await, heard, rounds, cancelled, updates, hand, buffer, taking, snap,
  link, up, rest, saved, phase, sess, policy, outcome, events, last, mishap,
  \* Hooks
  inner, file, saving, channel, entries, frame, prev, out, late, got, starts, owed

R == INSTANCE Relay WITH waiting <- await, turns <- rounds, trouble <- mishap
W == INSTANCE Hooks WITH restarts <- starts

ASSUME R!RelayAssumption /\ HandoffAssumption /\ W!HooksAssumption

handoff == vars
relay   == <<alive, kind, await, heard, rounds, cancelled, updates, hand, buffer, taking,
             snap, link, up, rest, saved, phase, sess, policy, outcome, events, last,
             mishap>>
hooks   == <<inner, file, saving, channel, entries, frame, prev, out, late, got, starts, owed>>

MCInit ==
  /\ part \in {"relay", "handoff", "hooks"}
  /\ Init /\ R!Init /\ W!Init

MCNext ==
  \/ part = "relay" /\ R!Next /\ UNCHANGED <<part, handoff, hooks>>
  \/ part = "handoff" /\ Next /\ UNCHANGED <<part, relay, hooks>>
  \/ part = "hooks" /\ W!Next /\ UNCHANGED <<part, relay, handoff>>

MCSpec == MCInit /\ [][MCNext]_<<part, relay, handoff, hooks>>

(* Each part is as fair as its own module says. *)
RelayRuns ==
  /\ part = "relay"
  /\ WF_relay(part = "relay" /\ R!SendsOn)
  /\ WF_relay(part = "relay" /\ R!HolderReads)
  /\ WF_relay(part = "relay" /\ R!AttachReads)
  /\ WF_relay(part = "relay" /\ R!AttachInstalls)
  /\ WF_relay(part = "relay" /\ R!Handle)
  /\ WF_relay(part = "relay" /\ R!ConnectFails)
  /\ \A p \in R!Prompts : WF_relay(part = "relay" /\ R!PromptReturns(p))

HandoffRuns ==
  /\ part = "handoff"
  /\ \A c \in Calls :
       WF_handoff(part = "handoff" /\
         (HandoffEnds(c) \/ HandoffFails(c) \/ HandoffGivesUp(c)))

HooksRun ==
  /\ part = "hooks"
  /\ WF_hooks(part = "hooks" /\ W!SaveEnds)
  /\ SF_hooks(part = "hooks" /\ W!Run)
  /\ \A h \in Ids : WF_hooks(part = "hooks" /\ \E r \in out : r.hook = h /\ W!TimesOut(r))

-----------------------------------------------------------------------------
(* What an agent asks is kept for the next daemon while it waits; it is told
   an answer once; what clients are shown is what it waits for; and a session
   that waits for a permission shows that it needs attention (Relay:
   RequestsAreKept, AnsweredOnce, ShownIsAsked, BlockedIsAttention).          *)
RequestsAreRelayed ==
  part = "relay" =>
    /\ R!TypeOK
    /\ R!RequestsAreKept
    /\ R!AnsweredOnce
    /\ R!ShownIsAsked
    /\ R!BlockedIsAttention

(* What an agent asks comes to be shown, and whoever waits for a prompt is let
   go (Relay: AsksAreShown, PromptSettles).                                   *)
RelayComesThrough == RelayRuns => R!AsksAreShown /\ R!PromptSettles

(* A handoff comes to its end (Handoff: HandoffsEnd). *)
AllHandoffsEnd == HandoffRuns => HandoffsEnd

(* A receiver gets nothing twice and, but for what the sender gave up on, all
   in the order of the journal (Hooks: InOrder).                             *)
InOrder == part = "hooks" => W!InOrder

(* No receiver waits for ever for what it is owed. *)
NoneWaitsForEver == HooksRun => W!NoneWaitsForEver
=============================================================================
