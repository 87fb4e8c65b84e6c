-------------------------------- MODULE Relay --------------------------------
(***************************************************************************)
(* One session between an agent, its holder (crates/holder/src/main.rs) and *)
(* the daemon (crates/rosterd/src/runner/session.rs): prompts and answers go *)
(* down, updates, requests and results come up, and a holder keeps what the *)
(* agent said for the next daemon.                                          *)
(*                                                                         *)
(* Abstractions.  A frame is what it does: an update that shows the agent at *)
(* work, a request (a permission or a question) or the result of a prompt.   *)
(* A pipe and the queues in front of it are one queue.  The effects of a     *)
(* session reach the roster in their order, so the claim made last is the    *)
(* record's activity.  Lifecycle has the handshake, suspension and recovery. *)
(***************************************************************************)
EXTENDS Naturals, Sequences, SequencesExt

CONSTANTS
  MaxRequests,  \* bound on the agent's requests
  MaxPrompts,   \* bound on the prompts
  MaxUpdates,   \* bound on the agent's updates
  MaxBuffer,    \* HOLDER_REPLAY_BUFFER
  MaxEvents     \* bound on exits, restarts, broken connections, cancels and policy changes

RelayAssumption ==
  /\ {MaxRequests, MaxPrompts, MaxUpdates, MaxEvents} \subseteq Nat
  /\ MaxBuffer \in Nat \ {0}

Requests == 1..MaxRequests
Prompts  == 1..MaxPrompts

Update   == <<"update", 0>>
Exited   == <<"exited", 0>>
Nothing  == <<"nothing", 0>>
Ask(r)    == <<"ask", r>>
Result(p) == <<"result", p>>
Buffered == {Update} \cup {Ask(r) : r \in Requests}
Frame    == Buffered \cup {Result(p) : p \in Prompts} \cup {Exited}

(* What the holder sends: live frames, and the replay of its buffer, in which an
   update is past.  A replay is one line, handled frame by frame; what it comes
   to at its end depends on whether it had an update.                          *)
Begins       == <<"begins", 0>>
Past         == <<"past", 0>>
Over(worked) == <<"over", IF worked THEN 1 ELSE 0>>
Wire == Frame \cup {Begins, Past, Over(TRUE), Over(FALSE)}

Replay(fs) ==
  <<Begins>> \o [i \in DOMAIN fs |-> IF fs[i] = Update THEN Past ELSE fs[i]]
             \o <<Over(\E i \in DOMAIN fs : fs[i] = Update)>>

Policies  == {"auto", "attention"}
Answer(r) == <<"answer", r>>
Prompt(p) == <<"prompt", p>>
CancelIt  == <<"cancel", 0>>
SetTo(x)  == <<x, 0>>
Line == {Answer(r) : r \in Requests} \cup {Prompt(p) : p \in Prompts}
          \cup {CancelIt} \cup {SetTo(x) : x \in Policies}

VARIABLES
  alive,     \* the adapter runs, and its holder with it
  kind,      \* what a request of the agent is: none yet, permission or question
  waiting,   \* requests the agent waits for the answer to
  heard,     \* answers the agent got to a request
  turns,     \* prompts the agent works on, the current one first
  cancelled, \* whether the current turn was cancelled
  updates,
  hand,      \* a frame in the holder's buffer and not yet sent on
  buffer,    \* Holder.replay
  taking,    \* whether a new connection is being taken...
  snap,      \* ...which will begin with this replay
  link,      \* whether the holder has a connection
  up,        \* what is on its way to the session
  rest,      \* what a dead daemon left on its way to the holder
  saved,     \* the policy in the state file
  phase,     \* of the session
  sess,      \* its pending permissions and questions, its last claim, its lines to the holder
  policy,
  outcome,   \* how far a prompt is: waiting, it was sent; answered, its result has
             \* come; gone, with the daemon
  events,
  last,      \* history: what was said last, by the agent or to it
  trouble    \* history: what the promises do not cover

agent   == <<alive, kind, waiting, heard, turns, cancelled, updates>>
holder  == <<hand, buffer, taking, snap, link, up, rest, saved>>
session == <<phase, sess, policy, outcome>>
vars    == <<agent, holder, session, events, last, trouble>>

Troubles == {"cancelled", "overflowed", "raced", "dropped"}

TypeOK ==
  /\ alive \in BOOLEAN
  /\ kind \in [Requests -> {"none", "permission", "question"}]
  /\ waiting \subseteq Requests
  /\ heard \in [Requests -> 0..2]
  /\ turns \in Seq(Prompts)
  /\ cancelled \in BOOLEAN
  /\ updates \in 0..MaxUpdates
  /\ hand \in Frame \cup {Nothing}
  /\ buffer \in Seq(Buffered) /\ Len(buffer) <= MaxBuffer
  /\ taking \in BOOLEAN
  /\ snap \in Seq(Buffered)
  /\ link \in BOOLEAN
  /\ up \in Seq(Wire)
  /\ rest \in Seq(Line)
  /\ saved \in Policies
  /\ phase \in {"starting", "open", "dropped", "closed"}
  /\ sess \in [perms : Seq(Requests), quests : Seq(Requests), out : Seq(Line),
               activity : {"unknown", "active", "idle", "attention"}]
  /\ policy \in Policies
  /\ outcome \in [Prompts -> {"none", "waiting", "answered", "ended", "failed", "gone"}]
  /\ events \in 0..MaxEvents
  /\ last \in Buffered \cup {Result(p) : p \in Prompts} \cup {Nothing}
  /\ trouble \subseteq Troubles

NoSession == [perms |-> <<>>, quests |-> <<>>, out |-> <<>>, activity |-> "unknown"]

(* A session with its agent, nothing said yet. *)
Init ==
  /\ alive = TRUE
  /\ kind = [r \in Requests |-> "none"]
  /\ waiting = {}
  /\ heard = [r \in Requests |-> 0]
  /\ turns = <<>>
  /\ cancelled = FALSE
  /\ updates = 0
  /\ hand = Nothing
  /\ buffer = <<>>
  /\ taking = FALSE
  /\ snap = <<>>
  /\ link = TRUE
  /\ up = <<>>
  /\ rest = <<>>
  /\ phase = "open"
  /\ sess = NoSession
  /\ policy = "attention"
  /\ saved = "attention"
  /\ outcome = [p \in Prompts |-> "none"]
  /\ events = 0
  /\ last = Nothing
  /\ trouble = {}

-----------------------------------------------------------------------------
(* The holder and the agent behind it.                                      *)

(* What the bound counts; a cancel or a broken connection takes all of it. *)
Happens == events < MaxEvents /\ events' = events + 1
Upsets  == events = 0 /\ MaxEvents > 0 /\ events' = MaxEvents

(* Requests and notifications are kept, the oldest goes when it is full. *)
Push(b, f) ==
  IF f \in Buffered THEN Append(IF Len(b) >= MaxBuffer THEN Tail(b) ELSE b, f) ELSE b

Overflows(f) ==
  /\ f \in Buffered
  /\ Len(buffer) >= MaxBuffer
  /\ \E r \in waiting : Head(buffer) = Ask(r)

(* Holder::child_wrote: into the buffer, then to the connection there is.  Only
   a connection that is being taken can come between the two steps.          *)
Says(f) ==
  /\ alive
  /\ hand = Nothing
  /\ hand' = IF link THEN Nothing ELSE f
  /\ up' = IF link THEN Append(up, f) ELSE up
  /\ buffer' = Push(buffer, f)
  /\ last' = f
  /\ trouble' = (trouble \cup IF Overflows(f) THEN {"overflowed"} ELSE {})
                        \cup IF taking THEN {"raced"} ELSE {}
  /\ UNCHANGED <<taking, snap, link, rest, saved, session, events>>

AgentWorks ==
  /\ turns # <<>>
  /\ updates < MaxUpdates
  /\ updates' = updates + 1
  /\ Says(Update)
  /\ UNCHANGED <<alive, kind, waiting, heard, turns, cancelled>>

AgentAsks(r, k) ==
  /\ turns # <<>>
  /\ kind[r] = "none"
  /\ \A q \in Requests : q < r => kind[q] # "none"
  /\ kind' = [kind EXCEPT ![r] = k]
  /\ waiting' = waiting \cup {r}
  /\ Says(Ask(r))
  /\ UNCHANGED <<alive, heard, turns, cancelled, updates>>

(* A turn ends when nothing is left to wait for, or when it was cancelled. *)
TurnEnds ==
  /\ turns # <<>>
  /\ waiting = {} \/ cancelled
  /\ waiting' = {}
  /\ cancelled' = FALSE
  /\ turns' = Tail(turns)
  /\ Says(Result(Head(turns)))
  /\ UNCHANGED <<alive, kind, heard, updates>>

(* The rest of child_wrote: to the connection there is now, if any. *)
SendsOn ==
  /\ hand # Nothing
  /\ hand' = Nothing
  /\ up' = IF link THEN Append(up, hand) ELSE up
  /\ UNCHANGED <<agent, buffer, taking, snap, link, rest, saved, session, events, last, trouble>>

(* Holder::exited: the connection is told; the last line may stay unread. *)
AgentExits ==
  /\ alive
  /\ Happens
  /\ alive' = FALSE
  /\ waiting' = {}
  /\ turns' = <<>>
  /\ cancelled' = FALSE
  /\ hand' = Nothing
  /\ up' = IF link THEN Append(up, Exited) ELSE up
  /\ UNCHANGED <<kind, heard, updates, buffer, taking, snap, link, rest, saved, session, last, trouble>>

(* A request that was answered need not be replayed; it was asked once. *)
Unasked(b, r) ==
  IF \E n \in DOMAIN b : b[n] = Ask(r) THEN RemoveAt(b, CHOOSE n \in DOMAIN b : b[n] = Ask(r)) ELSE b

(* Holder::daemon_wrote, and the agent that gets the line. *)
Takes(l) ==
  CASE l[1] = "answer" ->
         /\ buffer' = Unasked(buffer, l[2])
         /\ waiting' = waiting \ {l[2]}
         /\ heard' = [heard EXCEPT ![l[2]] = IF @ = 2 THEN 2 ELSE @ + 1]
         /\ UNCHANGED <<turns, cancelled, saved>>
    [] l[1] = "prompt" ->
         /\ turns' = Append(turns, l[2])
         /\ UNCHANGED <<buffer, waiting, heard, cancelled, saved>>
    [] l[1] = "cancel" ->
         /\ cancelled' = (turns # <<>>)
         /\ UNCHANGED <<buffer, waiting, heard, turns, saved>>
    [] OTHER ->
         /\ saved' = l[1]
         /\ UNCHANGED <<buffer, waiting, heard, turns, cancelled>>

(* From the connection there is, or what the last daemon had written to its
   own, until a new one takes its place.                                    *)
HolderReads ==
  LET lines == IF link THEN sess.out ELSE rest IN
  /\ alive
  /\ lines # <<>>
  /\ Takes(Head(lines))
  /\ IF link THEN sess' = [sess EXCEPT !.out = Tail(@)] /\ UNCHANGED rest
     ELSE rest' = Tail(rest) /\ UNCHANGED sess
  /\ trouble' = IF taking THEN trouble \cup {"raced"} ELSE trouble
  /\ UNCHANGED <<alive, kind, updates, hand, taking, snap, link, up, phase, policy, outcome, events, last>>

(* Holder::attach: the replay is put together... *)
AttachReads ==
  /\ alive
  /\ phase \in {"starting", "dropped"}
  /\ ~link /\ ~taking
  /\ taking' = TRUE
  /\ snap' = buffer
  /\ trouble' = IF hand # Nothing THEN trouble \cup {"raced"} ELSE trouble
  /\ UNCHANGED <<agent, hand, buffer, link, up, rest, saved, session, events, last>>

(* Mutant: live traffic only. *)
AttachInstallsOnly ==
  /\ alive
  /\ taking
  /\ taking' = FALSE
  /\ snap' = <<>>
  /\ link' = TRUE
  /\ rest' = <<>>
  /\ phase' = "open"
  /\ UNCHANGED <<agent, hand, buffer, up, saved, sess, policy, outcome, events, last, trouble>>

(* ...and then the connection put in place of the old one. *)
AttachInstalls ==
  /\ alive
  /\ taking
  /\ taking' = FALSE
  /\ snap' = <<>>
  /\ link' = TRUE
  /\ up' = Replay(snap)
  /\ rest' = <<>>
  /\ phase' = "open"
  /\ UNCHANGED <<agent, hand, buffer, saved, sess, policy, outcome, events, last, trouble>>

-----------------------------------------------------------------------------
(* The session.                                                             *)

Sends(s, l)    == [s EXCEPT !.out = Append(@, l)]
ClaimsAs(s, a) == [s EXCEPT !.activity = a]

(* Session::handle_permission and handle_question. *)
Asked(s, r) ==
  IF kind[r] = "permission" /\ policy = "auto" THEN Sends(s, Answer(r))
  ELSE ClaimsAs(IF kind[r] = "permission" THEN [s EXCEPT !.perms = Append(@, r)]
                ELSE [s EXCEPT !.quests = Append(@, r)], "attention")

(* What a frame does to the session: a replay rebuilds what is pending and
   claims nothing else on the way, then the newest activity, unless a permission
   is pending.                                                                *)
Received(s, f) ==
  CASE f[1] = "ask"                       -> Asked(s, f[2])
    [] f = Update                         -> ClaimsAs(s, "active")
    [] f[1] = "result"                    -> ClaimsAs(s, "idle")
    [] f = Over(TRUE) /\ s.perms = <<>>   -> ClaimsAs(s, "active")
    [] OTHER                              -> s

(* Exited, or a holder that cannot be reached: the requests on their way fail. *)
Close ==
  /\ phase' = "closed"
  /\ link' = FALSE
  /\ outcome' = [p \in Prompts |-> IF outcome[p] = "waiting" THEN "failed" ELSE outcome[p]]

(* Session::handle_line.  A result nobody waits for ends a turn the previous
   daemon started; else the task that waits goes on by itself.              *)
Handle ==
  /\ phase = "open"
  /\ up # <<>>
  /\ up' = Tail(up)
  /\ LET f == Head(up) IN
     \/ /\ f = Exited
        /\ Close
        /\ UNCHANGED sess
     \/ /\ f[1] = "result" /\ outcome[f[2]] = "waiting"
        /\ outcome' = [outcome EXCEPT ![f[2]] = "answered"]
        /\ UNCHANGED <<phase, link, sess>>
     \/ /\ f # Exited /\ ~(f[1] = "result" /\ outcome[f[2]] = "waiting")
        /\ sess' = Received(sess, f)
        /\ UNCHANGED <<phase, link, outcome>>
  /\ UNCHANGED <<agent, hand, buffer, taking, snap, rest, saved, policy, events, last, trouble>>

(* The end of Session::prompt, once the result has come. *)
PromptReturns(p) ==
  /\ outcome[p] = "answered"
  /\ outcome' = [outcome EXCEPT ![p] = "ended"]
  /\ sess' = IF phase = "closed" THEN sess ELSE ClaimsAs(sess, "idle")
  /\ trouble' = IF last \in {Result(p), Nothing} THEN trouble ELSE trouble \cup {"raced"}
  /\ UNCHANGED <<agent, holder, phase, policy, events, last>>

-----------------------------------------------------------------------------
(* What clients of the daemon ask of the session.                           *)

Served == phase \in {"open", "dropped"}

NextPrompt(p) ==
  /\ outcome[p] = "none"
  /\ \A q \in Prompts : q < p => outcome[q] # "none"

(* Session::prompt, with request, up to the wait for the result. *)
PromptSends(p) ==
  /\ Served
  /\ NextPrompt(p)
  /\ outcome' = [outcome EXCEPT ![p] = "waiting"]
  /\ sess' = ClaimsAs(Sends(sess, Prompt(p)), "active")
  /\ last' = Nothing
  /\ UNCHANGED <<agent, holder, phase, policy, events, trouble>>

(* The same, when the session closed after request had tested `closed`: it has
   failed its requests already, and nothing will fail this one.              *)
PromptIsLate(p) ==
  /\ phase = "closed"
  /\ NextPrompt(p)
  /\ outcome' = [outcome EXCEPT ![p] = "waiting"]
  /\ sess' = ClaimsAs(sess, "active")
  /\ trouble' = trouble \cup {"raced"}
  /\ UNCHANGED <<agent, holder, phase, policy, events, last>>

(* Session::cancel. *)
Cancel ==
  /\ Served
  /\ Upsets
  /\ sess' = ClaimsAs(Sends(sess, CancelIt), "idle")
  /\ last' = Nothing
  /\ trouble' = trouble \cup {"cancelled"}
  /\ UNCHANGED <<agent, holder, phase, policy, outcome>>

(* Where a request is in a list. *)
First(q, n, r) == q[n] = r /\ \A m \in 1..(n - 1) : q[m] # r

(* Mutant: an answered permission stays pending. *)
AnswerPermissionAgain(r) ==
  /\ Served
  /\ \E n \in DOMAIN sess.perms : First(sess.perms, n, r)
  /\ sess' = ClaimsAs(Sends(sess, Answer(r)), "active")
  /\ last' = Nothing
  /\ UNCHANGED <<agent, holder, phase, policy, outcome, events, trouble>>

(* Session::answer. *)
AnswerPermission(r) ==
  /\ Served
  /\ \E n \in DOMAIN sess.perms :
       /\ First(sess.perms, n, r)
       /\ sess' = ClaimsAs(Sends([sess EXCEPT !.perms = RemoveAt(@, n)], Answer(r)), "active")
  /\ last' = Nothing
  /\ UNCHANGED <<agent, holder, phase, policy, outcome, events, trouble>>

(* Session::answer_question. *)
AnswerQuestion(r) ==
  /\ Served
  /\ \E n \in DOMAIN sess.quests :
       /\ First(sess.quests, n, r)
       /\ sess' = ClaimsAs(Sends([sess EXCEPT !.quests = RemoveAt(@, n)], Answer(r)), "active")
  /\ last' = Nothing
  /\ UNCHANGED <<agent, holder, phase, policy, outcome, events, trouble>>

(* Session::set_policy: what is pending stays so. *)
SetPolicy(x) ==
  /\ Served
  /\ policy # x
  /\ Happens
  /\ policy' = x
  /\ sess' = Sends(sess, SetTo(x))
  /\ UNCHANGED <<agent, holder, phase, outcome, last, trouble>>

-----------------------------------------------------------------------------
(* Faults.                                                                  *)

(* A connection breaks under io_loop, which handles the lines it has read
   before it notices; lines that were written and not read are gone, the rest
   of the queue is for the next connection.                                 *)
Replaying == Begins \notin ToSet(up) /\ \E b \in BOOLEAN : Over(b) \in ToSet(up)
Drop ==
  /\ link /\ alive
  /\ phase = "open" /\ ~Replaying
  /\ Upsets
  /\ link' = FALSE
  /\ up' = <<>>
  /\ \E n \in 0..Len(sess.out) : sess' = [sess EXCEPT !.out = SubSeq(@, n + 1, Len(@))]
  /\ phase' = "dropped"
  /\ trouble' = trouble \cup {"dropped"}
  /\ UNCHANGED <<agent, hand, buffer, taking, snap, rest, saved, policy, outcome, last>>

(* Nobody takes the connection: the session is lost. *)
ConnectFails ==
  /\ ~alive
  /\ phase \in {"starting", "dropped"}
  /\ Close
  /\ taking' = FALSE
  /\ snap' = <<>>
  /\ UNCHANGED <<agent, hand, buffer, up, rest, saved, sess, policy, events, last, trouble>>

(* The daemon ends and starts again: what it had written may be read yet. *)
Restart ==
  /\ phase # "closed"
  /\ Happens
  /\ \E n \in 0..Len(sess.out) : rest' = IF link THEN SubSeq(sess.out, 1, n) ELSE <<>>
  /\ sess' = NoSession
  /\ policy' = saved
  /\ outcome' = [p \in Prompts |->
                  IF outcome[p] \in {"waiting", "answered"} THEN "gone" ELSE outcome[p]]
  /\ link' = FALSE
  /\ up' = <<>>
  /\ taking' = FALSE
  /\ snap' = <<>>
  /\ phase' = "starting"
  /\ UNCHANGED <<agent, hand, buffer, saved, last, trouble>>

-----------------------------------------------------------------------------
Next ==
  \/ AgentWorks
  \/ \E r \in Requests, k \in {"permission", "question"} : AgentAsks(r, k)
  \/ TurnEnds
  \/ AgentExits
  \/ SendsOn
  \/ HolderReads
  \/ AttachReads
  \/ AttachInstalls
  \/ Handle
  \/ \E p \in Prompts : PromptSends(p) \/ PromptIsLate(p) \/ PromptReturns(p)
  \/ Cancel
  \/ \E r \in Requests : AnswerPermission(r) \/ AnswerQuestion(r)
  \/ \E x \in Policies : SetPolicy(x)
  \/ Drop
  \/ ConnectFails
  \/ Restart

Spec == Init /\ [][Next]_vars

(* The tasks of the daemon and the holder go on.  Agents and clients may stop
   at any point.                                                            *)
FairSpec ==
  /\ Spec
  /\ WF_vars(SendsOn) /\ WF_vars(HolderReads)
  /\ WF_vars(AttachReads) /\ WF_vars(AttachInstalls)
  /\ WF_vars(Handle) /\ WF_vars(ConnectFails)
  /\ \A p \in Prompts : WF_vars(PromptReturns(p))

(* Premises of a property: agents end their turns, clients answer. *)
TurnsEnd      == WF_vars(TurnEnds)
ClientsAnswer == \A r \in Requests : WF_vars(AnswerPermission(r)) /\ WF_vars(AnswerQuestion(r))

-----------------------------------------------------------------------------
(* Properties.                                                              *)

Shown(r) == r \in ToSet(sess.perms) \cup ToSet(sess.quests)

(* What the agent still waits for is in the holder's buffer, to be shown by
   the next daemon, as long as the buffer has not dropped it for newer frames
   (Holder::child_wrote, daemon_wrote).                                     *)
RequestsAreKept ==
  "overflowed" \notin trouble => \A r \in waiting : Ask(r) \in ToSet(buffer)

(* An answer reaches the agent once, though the request is replayed to every
   daemon until the holder has seen its answer: no daemon is shown what the
   last one answered, short of a broken connection or frames that cross a new
   one.                                                                      *)
AnsweredOnce ==
  trouble \cap {"dropped", "raced"} = {} => \A r \in Requests : heard[r] <= 1

(* What a client is asked to answer is what the agent waits for: the request
   is pending once and no answer is on its way.                             *)
ShownIsAsked ==
  trouble = {} /\ alive =>
    \A r \in Requests : Shown(r) =>
      /\ r \in waiting
      /\ \A q \in {sess.perms, sess.quests} : \A m, n \in DOMAIN q : q[m] = r /\ q[n] = r => m = n
      /\ ~(r \in ToSet(sess.perms) /\ r \in ToSet(sess.quests))
      /\ Answer(r) \notin ToSet(sess.out)

(* Everything said has been handled, up to the answer to r. *)
Handled(r) ==
  /\ phase = "open" /\ link /\ alive
  /\ ~taking /\ hand = Nothing /\ up = <<>>
  /\ r \in waiting
  /\ Answer(r) \notin ToSet(sess.out)
  /\ last = Ask(r)
  /\ trouble \cap {"overflowed", "raced"} = {}

(* A session whose agent last asked for a permission and waits for it needs
   attention, whether the request came live or in a replay
   (Session::handle_permission, replay).                                    *)
BlockedIsAttention ==
  \A r \in Requests : Handled(r) /\ kind[r] = "permission" => sess.activity = "attention"

(* The same of every request, questions included, when no connection broke:
   docs/index.html:328 gives a form question the activity needs_attention, and
   SPEC.md:74 says of a restart of the daemon that nothing is lost.           *)
BlockedIsNoticed ==
  "dropped" \notin trouble => \A r \in Requests : Handled(r) => sess.activity = "attention"

(* A request the agent waits for comes to be shown to clients, by this daemon
   or by the next one.                                                       *)
AsksAreShown ==
  \A r \in Requests : r \in waiting ~> r \notin waiting \/ Shown(r) \/ trouble # {}

(* Whoever waits for the result of a prompt is let go, by the result or by a
   session that closes (Session::request, fail_pending).                    *)
PromptSettles ==
  TurnsEnd /\ ClientsAnswer =>
    \A p \in Prompts :
      outcome[p] = "waiting" ~> outcome[p] # "waiting" \/ trouble \ {"cancelled"} # {}

=============================================================================
