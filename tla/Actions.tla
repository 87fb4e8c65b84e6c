------------------------------- MODULE Actions -------------------------------
(***************************************************************************)
(* Session actions across nodes (api/routes.rs, api/send.rs, api/mcp.rs;    *)
(* R5.5, R7.5, R18).  Any node takes an action for any session: it runs it, *)
(* or proxies it to the owner, which never proxies again.  The node that    *)
(* runs an action journals it when it has ended well.  A session may itself *)
(* prompt another, or send to it, and wait for it from inside its own turn; *)
(* these tools are journaled where they are called as well.  An editor's    *)
(* prompt comes on a websocket of the session's own node.                   *)
(*                                                                         *)
(* Abstractions.  The action is a prompt, the one every other handler has   *)
(* the shape of (remote, run, journal, answer); one that is no send waits   *)
(* for its turn.  An agent works on its prompts one after another.  A       *)
(* session's key names its node for life; names are resolved to keys first  *)
(* (resolve.rs) and are not modelled.                                       *)
(***************************************************************************)
EXTENDS Naturals, Sequences, FiniteSets

CONSTANTS
  Nodes,
  Sessions,
  Home,       \* the node of each session
  Cases,      \* sets of requests that run together: records of an id, the node
              \* it is made at, via (a node of the path, or None), the session,
              \* from, the session whose tool it is, None for a client's, and
              \* how: http, acp, or one of the tools mcp (session.prompt), send
  None

(* An action is for one session, made at a node and by a path to a node.  Only
   the paths of http name one, and acp is spoken to the session's own node.  *)
ActionsAssumption ==
  /\ {None, "local", "acp"} \cap Nodes = {}
  /\ Home \in [Sessions -> Nodes]
  /\ \A case \in Cases : \A q \in case :
       /\ q.entry \in Nodes /\ q.via \in Nodes \cup {None} /\ q.key \in Sessions
       /\ q.how \in {"http", "acp", "mcp", "send"}
       /\ q.how = "acp" => q.entry = Home[q.key]

VARIABLES
  requests,   \* the requests of this behaviour, one of Cases
  roster,     \* per node, the sessions it lists as its own
  view,       \* per node, the sessions its snapshots of peers list
  live,       \* the sessions that are driven
  turns,      \* per session the prompts it has, the first being worked on, at
              \* first one typed by a human (None)
  req,        \* per request: how far, at which node, and whether its caller waits
  hops,       \* per request, how often it was proxied
  ran,        \* history: per request, the nodes that ran it
  well,       \* history: the requests whose turn ended well
  journal     \* the journals' entries: [node, action, id, by]

rosters == <<roster, view, live>>
vars == <<requests, rosters, turns, req, hops, ran, well, journal>>

Ids      == {q.id : q \in requests}
Of(r)    == CHOOSE q \in requests : q.id = r
KeyOf(r) == Of(r).key
How(r)   == Of(r).how

Init ==
  /\ requests \in Cases
  /\ roster = [n \in Nodes |-> {s \in Sessions : Home[s] = n}]
  /\ view \in {[n \in Nodes |-> v] : v \in {{}, Sessions}}
  /\ live = Sessions
  /\ turns = [s \in Sessions |-> <<None>>]
  /\ req = [r \in Ids |-> [st |-> "new", at |-> Of(r).entry, held |-> TRUE]]
  /\ hops = [r \in Ids |-> 0]
  /\ ran = [r \in Ids |-> <<>>]
  /\ well = {}
  /\ journal = {}

-----------------------------------------------------------------------------
(* Mesh::owner_of: this node, else the peer whose snapshot lists the session. *)
OwnerOf(n, s) ==
  IF s \in roster[n] THEN n ELSE IF s \in view[n] /\ Home[s] # n THEN Home[s] ELSE None

(* remote_owner: the node of the path, else the owner; a proxied action stays
   here or is refused.  None is the 404. *)
RemoteOwner(n, via, s, peer) ==
  IF via # None /\ via # n THEN via
  ELSE IF s \in roster[n] THEN n
  ELSE IF peer THEN None
  ELSE OwnerOf(n, s)

To(r, st) == req' = [req EXCEPT ![r].st = st]

(* Runner::prompt at n: the prompt is the session's, whoever waits for it; a
   record without a driven session is refused. *)
RunAt(r, n) ==
  IF KeyOf(r) \in live
  THEN /\ turns' = [turns EXCEPT ![KeyOf(r)] = Append(@, r)]
       /\ ran' = [ran EXCEPT ![r] = Append(@, n)]
       /\ req' = [req EXCEPT ![r].st = "waits", ![r].at = n]
       /\ UNCHANGED hops
  ELSE To(r, "failed") /\ UNCHANGED <<turns, ran, hops>>

Dispatch(r, n, owner) ==
  \/ owner = None /\ To(r, "failed") /\ UNCHANGED <<turns, ran, hops>>
  \/ owner = n /\ RunAt(r, n)
  \/ /\ owner \notin {None, n}
     /\ req' = [req EXCEPT ![r].st = "sent", ![r].at = owner]
     /\ hops' = [hops EXCEPT ![r] = @ + 1]
     /\ UNCHANGED <<turns, ran>>

(* A handler starts.  A tool is called from inside a turn. *)
Starts(r) ==
  /\ req[r].st = "new" /\ How(r) # "acp"
  /\ Of(r).from # None => turns[Of(r).from] # <<>>
  /\ Dispatch(r, Of(r).entry, RemoteOwner(Of(r).entry, Of(r).via, KeyOf(r), FALSE))
  /\ UNCHANGED <<requests, rosters, well, journal>>

(* A prompt on a session's websocket is journaled, then run. *)
StartsAcp(r) ==
  /\ req[r].st = "new" /\ How(r) = "acp"
  /\ journal' = journal \cup
       {[node |-> Of(r).entry, action |-> "prompt", id |-> r, by |-> "acp"]}
  /\ RunAt(r, Of(r).entry)
  /\ UNCHANGED <<requests, rosters, well>>

(* The request reaches the peer, whose handler starts, *)
Reaches(r) ==
  /\ req[r].st = "sent"
  /\ Dispatch(r, req[r].at, RemoteOwner(req[r].at, None, KeyOf(r), TRUE))
  /\ UNCHANGED <<requests, rosters, well, journal>>

(* or it does not, or its answer is lost: 502. *)
Unreachable(r) ==
  /\ req[r].st \in {"sent", "replied"}
  /\ To(r, "failed")
  /\ UNCHANGED <<requests, rosters, turns, hops, ran, well, journal>>

-----------------------------------------------------------------------------
(* What a session waits for that is in a turn: the tools it calls. *)
Sending(s) ==
  \E r \in Ids :
    Of(r).from = s /\ req[r].held /\ req[r].st \in {"sent", "waits", "done", "replied"}

TurnEnds(s) ==
  /\ turns[s] # <<>> /\ ~Sending(s)
  /\ turns' = [turns EXCEPT ![s] = Tail(@)]
  /\ well' = well \cup ({Head(turns[s])} \ {None})
  /\ UNCHANGED <<requests, rosters, req, hops, ran, journal>>

(* The turn is over, with an error when its session ended under it. *)
WaitEnds(r) ==
  /\ req[r].st = "waits" /\ How(r) # "send"
  /\ \A i \in 1..Len(turns[KeyOf(r)]) : turns[KeyOf(r)][i] # r
  /\ To(r, IF r \in well THEN "done" ELSE "failed")
  /\ UNCHANGED <<requests, rosters, turns, hops, ran, well, journal>>

(* A send waits for its session to be idle. *)
SendEnds(r) ==
  /\ req[r].st = "waits" /\ How(r) = "send"
  /\ KeyOf(r) \in live /\ turns[KeyOf(r)] = <<>>
  /\ To(r, "done")
  /\ UNCHANGED <<requests, rosters, turns, hops, ran, well, journal>>

(* Mutant: a send waits for its session without a limit. *)
SendWaits(r) == req[r].st = "new" /\ UNCHANGED vars

(* DEFAULT_TIMEOUT_MS of a send: it answers that the session is not idle yet,
   or the error of its turn. *)
SendTimesOut(r) ==
  /\ req[r].st = "waits" /\ How(r) = "send"
  /\ To(r, IF KeyOf(r) \in live \/ r \in well THEN "done" ELSE "failed")
  /\ UNCHANGED <<requests, rosters, turns, hops, ran, well, journal>>

Proxied(r) == req[r].at # Of(r).entry

(* Mutant: an action is journaled by whoever took it, as it is by its owner. *)
EntriesOfEntry(r, n) ==
  {[node |-> n, action |-> IF n = Of(r).entry /\ How(r) = "send" THEN "send" ELSE "prompt", id |-> r,
    by |-> IF n = Of(r).entry THEN "local" ELSE Of(r).entry]}

(* What a handler at n journals when the action ended well: the owner the prompt,
   under the name of the node that proxied it; the node a tool is called at the
   call, as a prompt or a send, wherever it ran; and acp has been journaled.  *)
Entries(r, n) ==
  IF How(r) = "acp" \/ (How(r) = "http" /\ n # req[r].at) THEN {}
  ELSE {[node |-> n, action |-> IF n = Of(r).entry /\ How(r) = "send" THEN "send" ELSE "prompt",
         id |-> r, by |-> IF n = Of(r).entry THEN "local" ELSE Of(r).entry]}

(* The handler where it ran goes on: it journals and answers. *)
Answers(r) ==
  /\ req[r].st = "done"
  /\ journal' = journal \cup Entries(r, req[r].at)
  /\ To(r, IF Proxied(r) THEN "replied" ELSE "answered")
  /\ UNCHANGED <<requests, rosters, turns, hops, ran, well>>

(* The one that proxied it gets the answer, a tool also when its caller waits no
   more. *)
Returns(r) ==
  /\ req[r].st = "replied" /\ (req[r].held \/ How(r) # "http")
  /\ journal' = journal \cup Entries(r, Of(r).entry)
  /\ To(r, "answered")
  /\ UNCHANGED <<requests, rosters, turns, hops, ran, well>>

(* The caller hangs up, its own time is up, or the proxy's (PROXY_TIMEOUT): it
   waits no more, *)
HangsUp(r) ==
  /\ req[r].st \in {"sent", "waits", "replied"} /\ req[r].held
  /\ req' = [req EXCEPT ![r].held = FALSE]
  /\ UNCHANGED <<requests, rosters, turns, hops, ran, well, journal>>

(* and the handler is dropped where it waits; acp's and a tool's are tasks of
   their own, which go on.  So does the turn. *)
Dropped(r) ==
  /\ req[r].st \in {"waits", "replied"} /\ ~req[r].held
  /\ How(r) = "http" \/ Proxied(r)
  /\ To(r, "dropped")
  /\ UNCHANGED <<requests, rosters, turns, hops, ran, well, journal>>

-----------------------------------------------------------------------------
(* The rest of the swarm: sessions end, ended ones are swept, and the views of
   them come and go later. *)
Ends(s) ==
  /\ s \in live
  /\ live' = live \ {s}
  /\ turns' = [turns EXCEPT ![s] = <<>>]
  /\ UNCHANGED <<requests, roster, view, req, hops, ran, well, journal>>

Swept(s) ==
  /\ s \notin live /\ s \in roster[Home[s]]
  /\ roster' = [roster EXCEPT ![Home[s]] = @ \ {s}]
  /\ UNCHANGED <<requests, view, live, turns, req, hops, ran, well, journal>>

Views(n) ==
  /\ view' = [view EXCEPT ![n] = UNION {roster[m] : m \in Nodes \ {n}}]
  /\ view' # view
  /\ UNCHANGED <<requests, roster, live, turns, req, hops, ran, well, journal>>

Handler(r) ==
  \/ Starts(r) \/ StartsAcp(r) \/ Reaches(r) \/ Unreachable(r)
  \/ WaitEnds(r) \/ SendEnds(r) \/ SendTimesOut(r)
  \/ Answers(r) \/ Returns(r) \/ Dropped(r)

Next ==
  \/ \E r \in Ids : Handler(r) \/ HangsUp(r)
  \/ \E s \in Sessions : TurnEnds(s) \/ Ends(s) \/ Swept(s)
  \/ \E n \in Nodes : Views(n)

Spec == Init /\ [][Next]_vars

(* The timer of a send fires; turns, peers and callers owe nothing. *)
FairSpec ==
  /\ Spec
  /\ WF_vars(\E r \in Ids : SendTimesOut(r))

-----------------------------------------------------------------------------
(* An action runs once at most and only where its session is, and is proxied
   once at most, with views that are stale, paths that name the wrong node and
   sessions swept meanwhile (routes.rs:764, "a proxied action never hops
   again"). *)
RunsOnceAtHome ==
  \A r \in Ids :
    /\ hops[r] <= 1
    /\ Len(ran[r]) <= 1
    /\ \A i \in 1..Len(ran[r]) : ran[r][i] = Home[KeyOf(r)]

(* Away from the session's node a journal tells only of tools that were called
   there, and only of what the session's own node has told before it, under the
   name of this one; the session's own node tells of an action only if it ran,
   and of who asked (routes.rs, by; mcp.rs, session_prompt; send.rs).  An
   editor's prompt is told before it runs: it alone may not have run.         *)
JournalIsTrue ==
  \A e \in journal :
    /\ e.by # "acp" => ran[e.id] # <<>>
    /\ e.node = Home[KeyOf(e.id)] => (e.by \in {"local", "acp"} <=> Of(e.id).entry = e.node)
    /\ e.node # Home[KeyOf(e.id)] =>
         /\ How(e.id) \in {"mcp", "send"} /\ Of(e.id).entry = e.node /\ e.by = "local"
         /\ [node |-> Home[KeyOf(e.id)], action |-> "prompt", id |-> e.id, by |-> e.node] \in journal

(* Both: what was asked for is done once, and told as it was done. *)
RunsAndIsTold == RunsOnceAtHome /\ JournalIsTrue

(* Sessions that send to each other wait for each other inside their turns;
   the timeout of a send lets every one of them return (send.rs:14). *)
Waiting(r) == r \in Ids /\ How(r) = "send" /\ req[r].st = "waits"
SendsReturn == (\E r \in Ids : Waiting(r)) ~> ~(\E r \in Ids : Waiting(r))

(* SPEC.md R18: the journal is what the API did on this node: a prompt whose
   turn ended well, and whose handler is over, is in it. *)
WhatRanIsJournaled ==
  \A r \in well : req[r].st \in {"answered", "dropped"} => \E e \in journal : e.id = r
=============================================================================
