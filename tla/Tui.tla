--------------------------------- MODULE Tui ---------------------------------
(***************************************************************************)
(* rosterd tui (cli/tui.rs, R21): one loop over one queue of messages, keys *)
(* from a thread, the roster once a second from a task that reads it with   *)
(* several requests, the lines of the open session's stream and the notes   *)
(* of posts.  Everything queued is handled before the next draw, so what a  *)
(* person sees when pressing a key and what the key meets can differ.       *)
(*                                                                         *)
(* Abstractions.  A session waits with one request at most, each of an id   *)
(* of its own and once in its life, a permission or a question of one text  *)
(* field; what keys allow, deny and number are one answer key.  The stream  *)
(* is what it shows of requests.  Cancel, suspend, resume and stop are one  *)
(* key that posts on the selected session.                                  *)
(***************************************************************************)
EXTENDS Naturals, Sequences, FiniteSets

CONSTANTS
  Keys,       \* the sessions of the swarm
  Fields,     \* those whose request is a question of one text field
  MaxPress,   \* bound on the keys pressed and the snapshots polled, together
  None

(* There are finitely many sessions, and None is not one. *)
ScreenAssumption == IsFiniteSet(Keys) /\ None \notin Keys

VARIABLES
  live,       \* the sessions not ended, newest activity first
  asks,       \* per session its request: "none", "waits" or "over"
  polled,     \* what the poll has read so far, None between polls
  polls,
  queue,      \* the messages on their way to the loop
  pieces,     \* App.pieces: [key, waits] in the order of the board
  cursor,     \* App.cursor
  open,       \* App.open: the key of the open session, or None
  line,       \* whether text is typed on the line of the open session
  drawn,      \* what the screen shows: selection, its request, a queue key
  pressed,
  streams,    \* a row of the streams opened: task and what it read
  lines,      \* App.open.lines: the requests shown
  moved,      \* history: a key was handled since the last draw
  post        \* history: the last post, with what the person saw

world  == <<live, asks>>
poll   == <<polled, polls>>
screen == <<pieces, cursor, open, line, lines>>
vars   == <<world, poll, queue, screen, drawn, pressed, streams, moved, post>>

Piece(k)   == [key |-> k, waits |-> asks[k] = "waits"]
Has(q, k)  == \E i \in 1..Len(q) : q[i].key = k
Place(q, k) == CHOOSE i \in 1..Len(q) : q[i].key = k
AtMost(i, n) == IF i > n THEN n ELSE i

Init ==
  /\ live \in {q \in [1..Cardinality(Keys) -> Keys] : \A i, j \in DOMAIN q : i # j => q[i] # q[j]}
  /\ asks = [k \in Keys |-> "none"]
  /\ polled = None /\ polls = 0
  /\ queue = <<>>
  /\ pieces = <<>> /\ cursor = 1 /\ open = None /\ line = FALSE /\ lines = <<>>
  /\ drawn = [key |-> None, waits |-> FALSE]
  /\ pressed = 0
  /\ streams = <<>>
  /\ moved = FALSE
  /\ post = None

-----------------------------------------------------------------------------
(* The swarm: a session asks, its request is answered elsewhere, it ends. *)
Asks(k) ==
  /\ asks[k] = "none" /\ \E i \in 1..Len(live) : live[i] = k
  /\ asks' = [asks EXCEPT ![k] = "waits"]
  /\ UNCHANGED <<live, poll, queue, screen, drawn, pressed, streams, moved, post>>

Settled(k) ==
  /\ asks[k] = "waits"
  /\ asks' = [asks EXCEPT ![k] = "over"]
  /\ UNCHANGED <<live, poll, queue, screen, drawn, pressed, streams, moved, post>>

Without(q, k) ==
  LET n == CHOOSE n \in 1..Len(q) : q[n] = k
  IN  SubSeq(q, 1, n - 1) \o SubSeq(q, n + 1, Len(q))

Ends(k) ==
  /\ \E i \in 1..Len(live) : live[i] = k
  /\ live' = Without(live, k)
  /\ asks' = [asks EXCEPT ![k] = "over"]
  /\ UNCHANGED <<poll, queue, screen, drawn, pressed, streams, moved, post>>

-----------------------------------------------------------------------------
(* poll reads the snapshot, *)
Poll ==
  /\ polled = None /\ pressed + polls < MaxPress
  /\ polls' = polls + 1
  /\ polled' = [left |-> live, read |-> <<>>]
  /\ UNCHANGED <<world, queue, screen, drawn, pressed, streams, moved, post>>

(* then each session that waits, when its turn comes, *)
PollReads ==
  /\ polled # None /\ polled.left # <<>>
  /\ polled' = [left |-> Tail(polled.left), read |-> Append(polled.read, Piece(Head(polled.left)))]
  /\ UNCHANGED <<world, polls, queue, screen, drawn, pressed, streams, moved, post>>

(* A stable sort puts the rows of a board in the order `rank` when what waits
   comes first and rows of the same rank stay in the order they had.          *)
Sorts(rank, read) ==
  /\ \A i \in DOMAIN read : \E j \in DOMAIN read : rank[j] = i
  /\ \A i, j \in DOMAIN read : i < j =>
       \/ read[rank[i]].waits /\ ~read[rank[j]].waits
       \/ read[rank[i]].waits = read[rank[j]].waits /\ rank[i] < rank[j]

(* and sends what it has, what waits first. *)
PollSends ==
  /\ polled # None /\ polled.left = <<>>
  /\ \E rank \in [DOMAIN polled.read -> DOMAIN polled.read] :
       /\ Sorts(rank, polled.read)
       /\ queue' = Append(queue, [msg |-> "roster", pieces |->
                     [i \in DOMAIN polled.read |-> polled.read[rank[i]]]])
  /\ polled' = None
  /\ UNCHANGED <<world, polls, screen, drawn, pressed, streams, moved, post>>

(* The person presses a key; it carries what the screen showed (history). *)
Press ==
  /\ pressed + polls < MaxPress
  /\ pressed' = pressed + 1
  /\ \E c \in {"down", "enter", "esc", "answer", "act", "type"} :
       queue' = Append(queue, [msg |-> "key", c |-> c, saw |-> drawn])
  /\ UNCHANGED <<world, poll, screen, drawn, streams, moved, post>>

-----------------------------------------------------------------------------
(* App::selected. *)
Selected ==
  IF open # None
  THEN IF Has(pieces, open) THEN pieces[Place(pieces, open)] ELSE [key |-> None, waits |-> FALSE]
  ELSE IF cursor \in 1..Len(pieces) THEN pieces[cursor] ELSE [key |-> None, waits |-> FALSE]

Takes == queue # <<>> /\ queue' = Tail(queue)
Key(c) == queue[1].msg = "key" /\ queue[1].c = c

(* Mutant: the cursor stays at its row. *)
CursorRow(new) == AtMost(cursor, IF new = <<>> THEN 1 ELSE Len(new))

(* The cursor follows the selected session, and goes to the top when it left. *)
CursorAfter(new) == IF Has(new, Selected.key) THEN Place(new, Selected.key) ELSE 1

(* handle, Msg::Roster. *)
HandlesRoster ==
  /\ Takes /\ queue[1].msg = "roster"
  /\ pieces' = queue[1].pieces
  /\ cursor' = CursorAfter(queue[1].pieces)
  /\ UNCHANGED <<world, poll, open, line, lines, drawn, pressed, streams, moved, post>>

(* The post of a key, and what the person saw who pressed it. *)
Posts(what, k) ==
  post' = [what |-> what, key |-> k, saw |-> queue[1].saw.key, moved |-> moved,
           listed |-> Has(pieces, queue[1].saw.key)]

(* App::answer: the request of the piece, a text field only on its line. *)
Answer ==
  IF Selected.waits /\ Selected.key \notin Fields THEN Posts("answer", Selected.key) ELSE UNCHANGED post

(* key on the board. *)
KeyOnBoard ==
  /\ Takes /\ queue[1].msg = "key" /\ open = None
  /\ \/ /\ Key("down")
        /\ cursor' = AtMost(cursor + 1, IF pieces = <<>> THEN 1 ELSE Len(pieces))
        /\ UNCHANGED <<open, lines, streams, post>>
     \/ /\ Key("enter") /\ Selected.key # None
        /\ open' = Selected.key
        /\ lines' = <<>>
        /\ streams' = Append(streams, [key |-> Selected.key, seen |-> {}, on |-> TRUE])
        /\ UNCHANGED <<cursor, post>>
     \/ Key("answer") /\ Answer /\ UNCHANGED <<cursor, open, lines, streams>>
     \/ /\ Key("act") /\ Selected.key # None
        /\ Posts("act", Selected.key)
        /\ UNCHANGED <<cursor, open, lines, streams>>
     \/ /\ \/ Key("esc") \/ Key("type")
           \/ Selected.key = None /\ (Key("enter") \/ Key("act"))
        /\ UNCHANGED <<cursor, open, lines, streams, post>>
  /\ moved' = TRUE
  /\ UNCHANGED <<world, poll, pieces, line, drawn, pressed>>

(* send_line: the answer to a question of one field, else a prompt; nothing
   when the session left the roster. *)
SendLine ==
  IF Selected.key = None THEN UNCHANGED post
  ELSE Posts(IF Selected.waits /\ Selected.key \in Fields THEN "field" ELSE "prompt", Selected.key)

(* key in an open session: letters type, an answer key acts only on an empty
   line with a request pending. *)
KeyInPiece ==
  /\ Takes /\ queue[1].msg = "key" /\ open # None
  /\ \/ /\ Key("esc")
        /\ open' = None /\ line' = FALSE
        /\ streams' = [n \in DOMAIN streams |-> [streams[n] EXCEPT !.on = FALSE]]
        /\ UNCHANGED post
     \/ /\ Key("enter")
        /\ line' = FALSE
        /\ IF line THEN SendLine ELSE UNCHANGED post
        /\ UNCHANGED <<open, streams>>
     \/ /\ Key("answer") /\ ~line /\ Selected.waits
        /\ Answer
        /\ UNCHANGED <<open, line, streams>>
     \/ /\ Key("type") \/ Key("act") \/ (Key("answer") /\ (line \/ ~Selected.waits))
        /\ line' = TRUE
        /\ UNCHANGED <<open, streams, post>>
     \/ Key("down") /\ UNCHANGED <<open, line, streams, post>>
  /\ moved' = TRUE
  /\ UNCHANGED <<world, poll, pieces, cursor, lines, drawn, pressed>>

(* draw, when nothing is queued. *)
Draw ==
  /\ queue = <<>> /\ drawn # Selected
  /\ drawn' = Selected
  /\ moved' = FALSE
  /\ UNCHANGED <<world, poll, queue, screen, pressed, streams, post>>

-----------------------------------------------------------------------------
(* A request the stream has seen is skipped. *)
Shows(s) == s.key \notin s.seen

(* stream: the daemon's end sends what is pending when it is connected to and
   each request as it comes, so the same one may come twice. *)
StreamReads(n) ==
  /\ streams[n].on /\ asks[streams[n].key] = "waits" /\ Shows(streams[n])
  /\ streams' = [streams EXCEPT ![n].seen = {streams[n].key}]
  /\ queue' = Append(queue, [msg |-> "line", key |-> streams[n].key, n |-> n])
  /\ UNCHANGED <<world, poll, screen, drawn, pressed, moved, post>>

(* handle, Msg::Line: only for the open session. *)
HandlesLine ==
  /\ Takes /\ queue[1].msg = "line"
  /\ lines' = IF open = queue[1].key THEN Append(lines, queue[1].n) ELSE lines
  /\ UNCHANGED <<world, poll, pieces, cursor, open, line, drawn, pressed, streams, moved, post>>

-----------------------------------------------------------------------------
Loop == HandlesRoster \/ HandlesLine \/ KeyOnBoard \/ KeyInPiece \/ Draw

Next ==
  \/ \E k \in Keys : Asks(k) \/ Settled(k) \/ Ends(k)
  \/ Poll \/ PollReads \/ PollSends \/ Press \/ Loop
  \/ \E n \in 1..Len(streams) : StreamReads(n)

Spec == Init /\ [][Next]_vars

-----------------------------------------------------------------------------
(* A key acts on the session the person saw selected when pressing it, however
   many refreshes were handled since that screen was drawn, unless another key
   was handled in between or the session has left the roster: the board is
   sorted anew at each refresh and the cursor follows its session (tui.rs:212). *)
ActsOnTheSeen ==
  post # None /\ ~post.moved /\ post.listed => post.key = post.saw

(* One stream shows a request once, however often the daemon sends it, at its
   connect and as it comes (tui.rs:518). *)
ShownOncePerStream == \A i, j \in 1..Len(lines) : lines[i] = lines[j] => i = j

(* SPEC.md R21: an open session shows a pending request once per request id. *)
ShownOnce == Len(lines) <= 1
=============================================================================
