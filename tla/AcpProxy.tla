------------------------------ MODULE AcpProxy ------------------------------
(***************************************************************************)
(* rosterd acp (cli/acp.rs): the swarm as one ACP agent on stdin and        *)
(* stdout, over one websocket per session to the daemon (api/acp.rs at its  *)
(* far end).  A task per frame of the client, a relay task per websocket,   *)
(* and three tables under one lock: the sessions with a websocket, the      *)
(* requests sent up and the requests of agents sent down.                   *)
(*                                                                         *)
(* Abstractions.  A request is a load (join, a question of the proxy's own, *)
(* answer) or one that goes up as it is; session/new joins as a load does,  *)
(* and a load's second question, the history, is asked like the first.  A   *)
(* websocket keeps the order of its frames; stdout is written at once.  An  *)
(* agent asks its client once per session, all under the same id.           *)
(***************************************************************************)
EXTENDS Naturals, Sequences, FiniteSets

CONSTANTS
  Keys,       \* the sessions
  AskSets,    \* what the client may ask for: sets of [id, kind, key]
  Asking,     \* the sessions whose agents ask their client
  Sockets,    \* the websockets, a bound on how often a session is connected to
  MaxDown,    \* bound on the requests of agents sent down
  None

(* The client asks about sessions, and a websocket is something. *)
ProxyAssumption ==
  /\ \A q \in AskSets : \A a \in q : a.key \in Keys
  /\ None \notin Keys \cup Sockets

VARIABLES
  asked,      \* the client's requests of this behaviour, one of AskSets
  task,       \* per request, where its task is
  sender,     \* per request, the socket its task read from the table
  sessions,   \* Inner.sessions: whose sender is in the table
  up,         \* Inner.up: request, what it asks, and the session it went to
  down,       \* Inner.down: the session behind each id given to the client
  shown,      \* what the client was shown: the id and the session it is about
  socket,     \* per socket: its session, and how far it is
  frames,     \* per socket, the frames on their way up
  agents,     \* per socket, requests the daemon's end works on
  ended,      \* the sessions whose stream is over
  waits,      \* the sessions whose agent waits for its client
  given,      \* history: answers of the client, [meant for, given to]
  answers,    \* history: how many answers each request got
  slipped,    \* history: requests sent to a relay that was already gone
  hung        \* stdin: "open", "closed", and "exited" for the process

tables == <<sessions, up, down>>
wire   == <<socket, frames, agents>>
client == <<asked, shown, given, answers, slipped>>
vars   == <<task, sender, tables, wire, client, ended, waits, hung>>

Ids   == {a.id : a \in asked}
Of(r) == CHOOSE a \in asked : a.id = r
Free  == {c \in Sockets : socket[c].at = "unused"}

Init ==
  /\ asked \in AskSets
  /\ task = [r \in Ids |-> "unsent"]
  /\ sender = [r \in Ids |-> None]
  /\ sessions = [k \in Keys |-> None]
  /\ up = {}
  /\ down = [i \in 1..MaxDown |-> None]
  /\ shown = {}
  /\ socket = [c \in Sockets |-> [key |-> None, at |-> "unused"]]
  /\ frames = [c \in Sockets |-> <<>>]
  /\ agents = [c \in Sockets |-> {}]
  /\ ended = {}
  /\ waits = {}
  /\ given = {}
  /\ answers = [r \in Ids |-> 0]
  /\ slipped = {}
  /\ hung = "open"

-----------------------------------------------------------------------------
(* Proxy::handle: a task per frame, while stdin is open. *)
Arrives(r) ==
  /\ hung = "open"
  /\ task[r] = "unsent"
  /\ task' = [task EXCEPT ![r] = IF Of(r).kind = "load" THEN "joins" ELSE "asks"]
  /\ UNCHANGED <<sender, tables, wire, client, ended, waits, hung>>

(* An answer leaves on stdout and the task that made it ends. *)
Answers(rs) == answers' = [r \in Ids |-> IF r \in rs THEN answers[r] + 1 ELSE answers[r]]

(* join: with a websocket in the table there is nothing to do. *)
JoinFinds(r) ==
  /\ task[r] = "joins"
  /\ task' = [task EXCEPT ![r] = IF sessions[Of(r).key] = None THEN "connects" ELSE "asks"]
  /\ UNCHANGED <<sender, tables, wire, client, ended, waits, hung>>

(* Proxy::down: the client sees an agent's request under an id of the proxy. *)
Down(k) ==
  \E i \in 1..MaxDown :
    /\ down[i] = None /\ i \notin {s.id : s \in shown}
    /\ down' = [down EXCEPT ![i] = k]
    /\ shown' = shown \cup {[id |-> i, key |-> k]}

(* The websocket is open: its sender replaces whatever the table has, and what
   the agent waits for comes down again. *)
JoinConnects(r) ==
  /\ task[r] = "connects"
  /\ Of(r).key \notin ended
  /\ \E c \in Free :
       /\ socket' = [socket EXCEPT ![c] = [key |-> Of(r).key, at |-> "open"]]
       /\ sessions' = [sessions EXCEPT ![Of(r).key] = c]
  /\ IF Of(r).key \in waits THEN Down(Of(r).key) ELSE UNCHANGED <<down, shown>>
  /\ task' = [task EXCEPT ![r] = "asks"]
  /\ UNCHANGED <<sender, up, frames, agents, asked, given, answers, slipped, ended, waits, hung>>

(* The daemon knows no such session any more, or does not answer. *)
JoinFails(r) ==
  /\ task[r] = "connects"
  /\ task' = [task EXCEPT ![r] = "done"]
  /\ Answers({r})
  /\ UNCHANGED <<sender, tables, wire, asked, shown, given, slipped, ended, waits, hung>>

(* Proxy::up takes the sender under the lock, *)
UpTakes(r) ==
  /\ task[r] = "asks"
  /\ LET c == sessions[Of(r).key] IN
     \/ /\ c = None
        /\ task' = [task EXCEPT ![r] = "done"]
        /\ Answers({r})
        /\ UNCHANGED sender
     \/ /\ c # None
        /\ sender' = [sender EXCEPT ![r] = c]
        /\ task' = [task EXCEPT ![r] = "sends"]
        /\ UNCHANGED answers
  /\ UNCHANGED <<tables, wire, asked, shown, given, slipped, ended, waits, hung>>

(* and enters the request under it again; the frame goes nowhere if the relay
   is gone.  A task that asked for its client ends here. *)
UpSends(r) ==
  /\ task[r] = "sends"
  /\ LET c == sender[r]
         entry == [id |-> r, key |-> Of(r).key]
         heard == socket[c].at # "relayed"
     IN  /\ up' = up \cup {entry}
         /\ frames' = [frames EXCEPT ![c] = IF heard THEN Append(@, entry) ELSE @]
         /\ slipped' = IF heard THEN slipped ELSE slipped \cup {r}
  /\ sender' = [sender EXCEPT ![r] = None]
  /\ task' = [task EXCEPT ![r] = IF Of(r).kind = "load" THEN "waits" ELSE "left"]
  /\ UNCHANGED <<sessions, down, socket, agents, asked, shown, given, answers, ended, waits, hung>>

-----------------------------------------------------------------------------
(* A reply to what went up, to the client or to the task that then answers. *)
Replied(entries) ==
  LET rs == {e.id : e \in entries} IN
  /\ Answers(rs)
  /\ task' = [r \in Ids |-> IF r \in rs THEN "done" ELSE task[r]]

(* A frame reaches the daemon's end.  That notices only now that the session's
   stream is over, and closes the websocket. *)
ServeTakes(c) ==
  /\ socket[c].at = "open"
  /\ frames[c] # <<>>
  /\ IF socket[c].key \in ended
     THEN /\ socket' = [socket EXCEPT ![c].at = "closed"]
          /\ agents' = [agents EXCEPT ![c] = {}]
     ELSE /\ agents' = [agents EXCEPT ![c] = @ \cup {Head(frames[c])}]
          /\ UNCHANGED socket
  /\ frames' = [frames EXCEPT ![c] = Tail(@)]
  /\ UNCHANGED <<task, sender, tables, client, ended, waits, hung>>

(* The answer comes down and the relay gives it to whoever asked: one that is
   not in the table any more is dropped. *)
ServeAnswers(c) ==
  /\ socket[c].at = "open"
  /\ \E e \in agents[c] :
       /\ agents' = [agents EXCEPT ![c] = @ \ {e}]
       /\ IF e \in up THEN Replied({e}) ELSE UNCHANGED <<answers, task>>
       /\ up' = up \ {e}
  /\ UNCHANGED <<sender, sessions, down, socket, frames, asked, shown, given, slipped, ended, waits, hung>>

(* The daemon goes, or the connection to the owner node. *)
ServeCloses(c) ==
  /\ socket[c].at = "open"
  /\ socket' = [socket EXCEPT ![c].at = "closed"]
  /\ agents' = [agents EXCEPT ![c] = {}]
  /\ UNCHANGED <<task, sender, tables, frames, client, ended, waits, hung>>

(* The relay's channel has no sender left: another join took its place, and
   nobody holds a copy. *)
Unheld(c) ==
  /\ sessions[socket[c].key] # c
  /\ \A r \in Ids : sender[r] # c
  /\ frames[c] = <<>>

(* Mutant: nobody is told. *)
RelayEndsSilently(c) ==
  /\ socket[c].at = "closed" \/ (socket[c].at = "open" /\ Unheld(c))
  /\ socket' = [socket EXCEPT ![c].at = "relayed"]
  /\ sessions' = [sessions EXCEPT ![socket[c].key] = None]
  /\ frames' = [frames EXCEPT ![c] = <<>>]
  /\ agents' = [agents EXCEPT ![c] = {}]
  /\ UNCHANGED <<up, task, answers, sender, down, asked, shown, given, slipped, ended, waits, hung>>

(* Proxy::relay ends: the session leaves the table, whichever websocket it has
   there, and everyone who waits on the session is told that it closed. *)
RelayEnds(c) ==
  /\ socket[c].at = "closed" \/ (socket[c].at = "open" /\ Unheld(c))
  /\ socket' = [socket EXCEPT ![c].at = "relayed"]
  /\ sessions' = [sessions EXCEPT ![socket[c].key] = None]
  /\ LET waiting == {e \in up : e.key = socket[c].key} IN
     /\ up' = up \ waiting
     /\ Replied(waiting)
  /\ frames' = [frames EXCEPT ![c] = <<>>]
  /\ agents' = [agents EXCEPT ![c] = {}]
  /\ UNCHANGED <<sender, down, asked, shown, given, slipped, ended, waits, hung>>

-----------------------------------------------------------------------------
(* The agent asks its client: whoever is connected is shown it. *)
AgentWaits(k) ==
  /\ k \in Asking \ (waits \cup ended)
  /\ \A g \in given : g.meant # k
  /\ waits' = waits \cup {k}
  /\ IF sessions[k] # None /\ socket[sessions[k]].at = "open"
     THEN Down(k)
     ELSE UNCHANGED <<down, shown>>
  /\ UNCHANGED <<task, sender, sessions, up, wire, asked, given, answers, slipped, ended, hung>>

(* The client answers what it was shown: the id leads to the session. *)
ClientAnswers(s) ==
  /\ hung = "open"
  /\ s \in shown
  /\ shown' = shown \ {s}
  /\ LET k == down[s.id] IN
     /\ down' = [down EXCEPT ![s.id] = None]
     /\ IF k # None /\ sessions[k] # None /\ socket[sessions[k]].at = "open" /\ k \in waits
        THEN /\ given' = given \cup {[meant |-> s.key, to |-> k]}
             /\ waits' = waits \ {k}
        ELSE UNCHANGED <<given, waits>>
  /\ UNCHANGED <<task, sender, sessions, up, wire, asked, answers, slipped, ended, hung>>

SessionEnds(k) ==
  /\ k \notin ended
  /\ \E a \in asked : a.key = k
  /\ ended' = ended \cup {k}
  /\ waits' = waits \ {k}
  /\ UNCHANGED <<task, sender, tables, wire, client, hung>>

(* stdin ends, and then the process once no task is left: one that passed its
   request on is not. *)
HangsUp ==
  /\ hung = "open"
  /\ hung' = "closed"
  /\ UNCHANGED <<task, sender, tables, wire, client, ended, waits>>

Exits ==
  /\ hung = "closed"
  /\ \A r \in Ids : task[r] \in {"unsent", "left", "done"}
  /\ hung' = "exited"
  /\ UNCHANGED <<task, sender, tables, wire, client, ended, waits>>

Alive == hung # "exited"
Task(r)   == Alive /\ (JoinFinds(r) \/ JoinConnects(r) \/ JoinFails(r) \/ UpTakes(r) \/ UpSends(r))
Serve(c)  == Alive /\ (ServeTakes(c) \/ ServeAnswers(c))
Relay(c)  == Alive /\ RelayEnds(c)

Next ==
  \/ \E r \in Ids : Arrives(r) \/ Task(r)
  \/ \E c \in Sockets : Serve(c) \/ Relay(c) \/ (Alive /\ ServeCloses(c))
  \/ \E k \in Keys : Alive /\ (AgentWaits(k) \/ SessionEnds(k))
  \/ \E s \in shown : ClientAnswers(s)
  \/ HangsUp \/ Exits

Spec == Init /\ [][Next]_vars

-----------------------------------------------------------------------------
(* Every request of the client is answered once at most, whatever closes while
   it is under way: by the agent, or by the proxy in its place. *)
AnsweredOnce == \A r \in Ids : answers[r] <= 1

(* What a client says to an agent reaches the session it was shown for, though
   the agents of all sessions use the same ids. *)
ToTheAsker == \A g \in given : g.meant = g.to

(* A request that waits in the table is on its way: on a websocket, with the
   daemon, or about to be told that the websocket closed.  One that was sent to
   a relay already gone is not. *)
WaitersAreServed ==
  \A e \in up : e.id \in slipped \/
    \E c \in Sockets :
      /\ socket[c].key = e.key
      /\ \/ socket[c].at = "closed"
         \/ socket[c].at = "open" /\ (e \in agents[c] \/ \E n \in DOMAIN frames[c] : frames[c][n] = e)

(* cli/acp.rs:267: "The session went: whoever waits on it hears so." *)
WhoeverWaitsHears ==
  \A e \in up : \E c \in Sockets : socket[c].key = e.key /\ socket[c].at # "relayed"
=============================================================================
