-------------------------------- MODULE Hooks --------------------------------
(***************************************************************************)
(* Webhooks (hooks.rs, R19): clients register URLs, one task takes the      *)
(* journal's entries and the changes of peers and POSTs each to every hook  *)
(* that wants it, all at once, and takes the next event when the last of    *)
(* them is answered, has failed or timed out.                               *)
(*                                                                         *)
(* Abstractions.  An event of the journal is its seq, one of the peers the  *)
(* frame it is diffed up to.  The journal's channel holds Capacity entries  *)
(* (256 in the code) and drops the oldest (the code logs "fell behind").    *)
(* fs::write truncates, then writes; a crash in between leaves no list.     *)
(* A request the sender gave up on stays on its way: it may never arrive or  *)
(* arrive at any time later, since nothing calls back what was sent.        *)
(* The URL check, the token and the headers are left out.                   *)
(***************************************************************************)
EXTENDS Naturals, Sequences, FiniteSets

CONSTANTS
  Ids,        \* the hooks clients register
  PeersToo,   \* those of them that want the events of peers as well
  Capacity,   \* of the journal's channel
  MaxEntries, \* bound on the journal's entries
  MaxFrames,  \* bound on the frames of peers
  MaxRestarts

(* A channel holds something. *)
HooksAssumption == Capacity \in Nat \ {0}

VARIABLES
  inner,      \* Hooks.inner: the registered hooks
  file,       \* hooks.json, Torn when it cannot be read
  saving,     \* whether save is between its truncation and its bytes
  channel,    \* the journal's channel, as this task reads it
  entries,    \* the entries made so far
  frame,      \* the frame of peers, and
  prev,       \* the one the last change was diffed up to
  out,        \* the requests of the current round, [hook, event, at]
  late,       \* the requests the sender gave up on before they arrived
  got,        \* per hook, the events its receiver saw, late or not
  restarts,
  owed        \* history: entries made while a hook that wants them was registered

(* What a save leaves that was cut off. *)
Torn == {"torn"}

disk  == <<inner, file, saving>>
feeds == <<channel, entries, frame, prev>>
wire  == <<out, late, got>>
vars  == <<disk, feeds, wire, restarts, owed>>

Init ==
  /\ inner = {} /\ file = {} /\ saving = FALSE
  /\ channel = <<>> /\ entries = 0 /\ frame = 0 /\ prev = 0
  /\ out = {} /\ late = {}
  /\ got = [h \in Ids |-> <<>>]
  /\ restarts = 0
  /\ owed = {}

-----------------------------------------------------------------------------
(* Hooks::save under the lock: the file is truncated, or cannot be written,
   which is logged. *)
Saves(hooks) ==
  /\ ~saving
  /\ inner' = hooks
  /\ \/ file' = Torn /\ saving' = TRUE
     \/ UNCHANGED <<file, saving>>

SaveEnds ==
  /\ saving
  /\ file' = inner
  /\ saving' = FALSE
  /\ UNCHANGED <<inner, feeds, wire, restarts, owed>>

(* Hooks::add.  Every hook has an id of its own. *)
Adds(h) ==
  /\ h \notin inner /\ got[h] = <<>> /\ \A r \in out \cup late : r.hook # h
  /\ Saves(inner \cup {h})
  /\ UNCHANGED <<feeds, wire, restarts, owed>>

(* Hooks::remove. *)
Removes(h) ==
  /\ h \in inner
  /\ Saves(inner \ {h})
  /\ owed' = {o \in owed : o.hook # h}
  /\ UNCHANGED <<feeds, wire, restarts>>

-----------------------------------------------------------------------------
(* An entry is made.  The channel's oldest goes when it is full. *)
Entry ==
  /\ entries < MaxEntries
  /\ entries' = entries + 1
  /\ LET over == SubSeq(channel, 1, Len(channel) + 1 - Capacity) IN
     /\ channel' = Append(SubSeq(channel, Len(over) + 1, Len(channel)), entries')
     /\ owed' = {o \in owed : over = <<>> \/ o.entry # over[1]}
                  \cup {[hook |-> h, entry |-> entries'] : h \in inner}
  /\ UNCHANGED <<disk, frame, prev, wire, restarts>>

Frame ==
  /\ frame < MaxFrames
  /\ frame' = frame + 1
  /\ UNCHANGED <<disk, channel, entries, prev, wire, restarts, owed>>

(* Hook::wants. *)
Wants(h, kind) == kind = "entry" \/ h \in PeersToo

(* Hooks::deliver: the hooks of this moment that want the event. *)
Deliver(kind, n) ==
  out' = out \cup {[hook |-> h, kind |-> kind, n |-> n, at |-> "out"] : h \in {x \in inner : Wants(x, kind)}}

(* Mutant: the next event does not wait for the deliveries of the last. *)
RoundOverAtOnce == ~saving

(* The round is over when all of join_all is; list() takes the lock. *)
RoundOver == out = {} /\ ~saving

TakesEntry ==
  /\ RoundOver
  /\ channel # <<>>
  /\ Deliver("entry", Head(channel))
  /\ channel' = Tail(channel)
  /\ owed' = {o \in owed : o.entry # Head(channel)}
  /\ UNCHANGED <<disk, entries, frame, prev, late, got, restarts>>

(* peer_changes: what changed since the last frame read is one event. *)
TakesFrame ==
  /\ RoundOver
  /\ frame # prev
  /\ Deliver("frame", frame)
  /\ prev' = frame
  /\ UNCHANGED <<disk, channel, entries, frame, late, got, restarts, owed>>

(* What its receiver sees. *)
Sees(r, tardy) ==
  got' = [got EXCEPT ![r.hook] = Append(@, [kind |-> r.kind, n |-> r.n, late |-> tardy])]

(* A request reaches its receiver, *)
Arrives(r) ==
  /\ r \in out /\ r.at = "out"
  /\ out' = (out \ {r}) \cup {[r EXCEPT !.at = "there"]}
  /\ Sees(r, FALSE)
  /\ UNCHANGED <<disk, feeds, late, restarts, owed>>

(* Requests nobody waits for any more. *)
Abandoned(rs) == {[hook |-> r.hook, kind |-> r.kind, n |-> r.n] : r \in {q \in rs : q.at = "out"}}

(* which answers it, with a refusal maybe, or the connection fails, before or
   after it arrived; there is no retry. *)
Settles(r) ==
  /\ r \in out
  /\ out' = out \ {r}
  /\ late' = late \cup Abandoned({r})
  /\ UNCHANGED <<disk, feeds, got, restarts, owed>>

(* One that was given up on arrives all the same. *)
ArrivesLate(r) ==
  /\ r \in late
  /\ late' = late \ {r}
  /\ Sees(r, TRUE)
  /\ UNCHANGED <<disk, feeds, out, restarts, owed>>

(* Mutant: a delivery without a timeout. *)
TimesOutNever(r) == r \notin out /\ UNCHANGED vars

(* DELIVERY_TIMEOUT: the sender gives up. *)
TimesOut(r) == Settles(r)

-----------------------------------------------------------------------------
(* The daemon stops, anywhere, and starts again: Hooks::open reads the file,
   the channel is a new one and peers are diffed from the frame found. *)
Restarts ==
  /\ restarts < MaxRestarts
  /\ restarts' = restarts + 1
  /\ inner' = IF file = Torn THEN {} ELSE file
  /\ saving' = FALSE
  /\ channel' = <<>> /\ prev' = frame
  /\ out' = {} /\ late' = late \cup Abandoned(out)
  /\ owed' = {}
  /\ UNCHANGED <<file, entries, frame, got>>

Run == TakesEntry \/ TakesFrame

Next ==
  \/ \E h \in Ids : Adds(h) \/ Removes(h)
  \/ SaveEnds \/ Entry \/ Frame \/ Run \/ Restarts
  \/ \E r \in out : Arrives(r) \/ Settles(r) \/ TimesOut(r)
  \/ \E r \in late : ArrivesLate(r)

Spec == Init /\ [][Next]_vars

(* The task, its timers and the write of the list go on: whoever holds the
   list's lock lets the task in at last.  Receivers owe nothing. *)
FairSpec ==
  /\ Spec
  /\ WF_vars(SaveEnds)
  /\ SF_vars(Run)
  /\ \A h \in Ids : WF_vars(\E r \in out : r.hook = h /\ TimesOut(r))

-----------------------------------------------------------------------------
(* A hook sees no event twice, and the events of each stream in their order,
   with slow receivers, entries dropped and restarts (hooks.rs:106).  The one
   exception is an event the sender gave up on, at its timeout, a failure or a
   stop, before it arrived: that one may still come, after newer ones.        *)
InOrder ==
  \A h \in Ids : \A i, j \in 1..Len(got[h]) :
    i < j /\ got[h][i].kind = got[h][j].kind =>
      \/ got[h][i].n < got[h][j].n
      \/ got[h][j].late /\ got[h][i].n # got[h][j].n

(* An entry made while a hook was registered is posted to it, or was dropped by
   the channel, or the hook or the daemon went; whatever receivers do, one that
   never answers too, no entry waits for ever (hooks.rs:107).  MaxEntries
   makes it enough to say that nothing is owed again and again. *)
NoneWaitsForEver == owed # {} ~> owed = {}

(* SPEC.md R19: hooks survive a restart. *)
HooksSurvive ==
  [][restarts' # restarts => inner' = inner]_vars
=============================================================================
