------------------------------- MODULE Journal -------------------------------
(***************************************************************************)
(* The journal of a node (journal/mod.rs) from the roster to a client: a    *)
(* writer turns consecutive roster snapshots into changes, API calls add    *)
(* actions, each entry gets the next seq, goes to the file of its day and   *)
(* is then broadcast, and GET /swarm/changes?since= (api/routes.rs) replays *)
(* the files before it goes on with the broadcast.                          *)
(*                                                                         *)
(* Abstractions.  An entry is its seq and what it says of which session.    *)
(* One API call journals at a time, next to the writer; either took the    *)
(* date of its entry before it waited for the lock, on the day before at    *)
(* most.  A record that ended stays listed until the writer has seen it, and *)
(* a session that comes back does so after that.                          *)
(* The snapshot event and the changes of peers, without a seq, are left out.*)
(***************************************************************************)
EXTENDS Naturals, Sequences, FiniteSets

CONSTANTS
  Sessions,
  Capacity,      \* entries the broadcast channel keeps for a slow client
  KeepDays,      \* days a file is kept
  Days,          \* bound on the days
  Limits         \* bounds on the rest, chosen together: changes of the roster,
                 \* journalled calls, connections, failed writes, restarts, days

JournalAssumption ==
  /\ Capacity \in Nat \ {0}
  /\ KeepDays \in Nat
  /\ Days \in Nat \ {0}
  /\ \A l \in Limits : l.days \in 1..Days

VARIABLES
  roster,      \* the last roster snapshot
  steps,       \* changes of the roster so far
  prev,        \* the snapshot the writer diffed last
  todo,        \* per session, the changes it has still to append
  running,     \* the writer has taken its first snapshot
  seq,         \* Inner.seq
  files,       \* the lines of a day's file
  today,
  held,        \* per appender, the entry it has written and not yet broadcast
  client,      \* the client's connection
  cursor,      \* the last seq the client saw
  seen,        \* history: the entries it ever saw
  told,        \* history: what the entries of this daemon said of each session
  reset,       \* history: a start found no whole line in the newest file
  late,        \* history: an entry went to the file of a day that was over
  actions, connects, torn, restarts,
  limit        \* the bounds of this behaviour, a member of Limits

writer  == <<roster, steps, prev, todo, running, told>>
storage == <<seq, files, held>>
reader  == <<client, cursor, seen, connects>>
bounds  == <<today, actions, torn, restarts, reset, late, limit>>
vars    == <<writer, storage, reader, bounds>>

(* A record of the roster, and a session it does not list. *)
Gone == [life |-> "gone", needs |-> FALSE, claim |-> 0, name |-> 0]
Record == [life : {"live", "suspended", "ended"}, needs : BOOLEAN,
           claim : 0..1, name : 0..1]

Nothing   == [seq |-> 0, what |-> "nothing", of |-> "nobody"]
Partial   == [Nothing EXCEPT !.what = "partial"]
Garbage   == [Nothing EXCEPT !.what = "garbage"]
Created   == [Nothing EXCEPT !.what = "created"]
Appenders == {"writer", "call"}

NoClient == [phase |-> "off", queue |-> <<>>, since |-> 0, last |-> 0,
             got |-> {}, twice |-> FALSE, lagged |-> FALSE]

(* What the entries tell of a session: is it there, does it need a human? *)
Untold == [there |-> FALSE, waits |-> FALSE]

Init ==
  /\ roster \in [Sessions -> {Gone, [Gone EXCEPT !.life = "live"]}]
  /\ steps = 0
  /\ prev = [s \in Sessions |-> Gone]
  /\ todo = [s \in Sessions |-> <<>>]
  /\ running = FALSE
  /\ seq = 0
  /\ files = [d \in 1..Days |-> <<>>]
  /\ today = 1
  /\ held = [a \in Appenders |-> Nothing]
  /\ client = NoClient
  /\ cursor = 0
  /\ seen = {}
  /\ told = [s \in Sessions |-> Untold]
  /\ reset = FALSE
  /\ late = FALSE
  /\ limit \in Limits
  /\ actions = 0 /\ connects = 0 /\ torn = 0 /\ restarts = 0

-----------------------------------------------------------------------------
(* What proto's changes() says of one session between two frames. *)

(* Mutant: a session that starts waiting at once is only announced. *)
ChangesOfStart(old, new) ==
  IF old = Gone
  THEN IF new.life \in {"gone", "ended"} THEN <<>> ELSE <<"session_started">>
  ELSE IF new.life # old.life /\ new.life = "ended" THEN <<"session_ended">>
  ELSE IF new.needs /\ new.claim # old.claim THEN <<"attention">>
  ELSE IF ~new.needs /\ old.needs THEN <<"attention_cleared">> ELSE <<>>

ChangesOf(old, new) ==
  IF new = Gone THEN <<>>
  ELSE IF old = Gone
  THEN IF new.life = "ended" THEN <<>>
       ELSE <<"session_started">> \o (IF new.needs THEN <<"attention">> ELSE <<>>)
  ELSE IF new.life # old.life /\ new.life = "ended" THEN <<"session_ended">>
  ELSE LET claimed == new.claim # old.claim \/ new.needs # old.needs IN
       (IF new.life # old.life /\ new.life = "suspended" THEN <<"session_suspended">> ELSE <<>>)
    \o (IF new.name # old.name THEN <<"renamed">> ELSE <<>>)
    \o (IF claimed /\ new.needs THEN <<"attention">>
        ELSE IF old.needs /\ ~new.needs THEN <<"attention_cleared">>
        ELSE IF claimed THEN <<"activity">> ELSE <<>>)

(* changes: record by record, in the order of the frame, which is open. *)
Changes == [s \in Sessions |-> ChangesOf(prev[s], roster[s])]

Place == CHOOSE f \in [Sessions -> 1..Cardinality(Sessions)] :
           \A s, t \in Sessions : f[s] = f[t] => s = t

Turn(s) == todo[s] # <<>> /\ \A r \in Sessions : Place[r] < Place[s] => todo[r] = <<>>

CaughtUp == \A s \in Sessions : todo[s] = <<>>

Told(t, what) ==
  CASE what = "session_started"   -> [there |-> TRUE, waits |-> FALSE]
    [] what = "session_ended"     -> Untold
    [] what = "attention"         -> [t EXCEPT !.waits = TRUE]
    [] what = "attention_cleared" -> [t EXCEPT !.waits = FALSE]
    [] OTHER -> t

-----------------------------------------------------------------------------
(* The roster moves on: what a snapshot may show next of a session. *)
Moves(r) ==
  CASE r.life = "gone"  -> [life : {"live"}, needs : BOOLEAN, claim : 0..1, name : {0}]
    [] r.life = "ended" -> {Gone}
    [] OTHER ->
         {[r EXCEPT !.life = l] : l \in {"live", "suspended", "ended"}}
         \cup {[r EXCEPT !.claim = 1 - @, !.needs = b] : b \in BOOLEAN}
         \cup {[r EXCEPT !.name = 1 - @]}

RosterMoves ==
  /\ steps < limit.steps
  /\ steps' = steps + 1
  /\ \E s \in Sessions : \E r \in Moves(roster[s]) \ {roster[s]} :
       /\ roster[s].life = "ended" => prev[s].life \in {"ended", "gone"}
       /\ roster[s] = Gone => prev[s] = Gone
       /\ roster' = [roster EXCEPT ![s] = r]
  /\ UNCHANGED <<prev, todo, running, told, storage, reader, bounds>>

(* Journal::run is first polled, some time after the daemon started. *)
WriterStarts ==
  /\ ~running
  /\ running' = TRUE
  /\ prev' = roster
  /\ told' = [s \in Sessions |-> [there |-> roster[s].life \notin {"gone", "ended"},
                                  waits |-> roster[s].needs /\ roster[s].life # "ended"]]
  /\ UNCHANGED <<roster, steps, todo, storage, reader, bounds>>

(* A watch channel tells that there is something new, not how often. *)
WriterDiffs ==
  /\ running /\ CaughtUp /\ held["writer"] = Nothing
  /\ roster # prev
  /\ todo' = Changes
  /\ prev' = roster
  /\ UNCHANGED <<roster, steps, running, told, storage, reader, bounds>>

-----------------------------------------------------------------------------
EndsTorn(lines) == lines # <<>> /\ lines[Len(lines)] = Partial

(* A line is glued to what the file ends with when that has no end of line. *)
Appended(lines, line) ==
  IF EndsTorn(lines) THEN [lines EXCEPT ![Len(lines)] =
                             IF line = Partial THEN Partial ELSE Garbage]
  ELSE Append(lines, line)

(* Journal::append up to the unlock: a write that fails is only logged. *)
Write(a, what, s) ==
  /\ held[a] = Nothing
  /\ seq' = seq + 1
  /\ LET entry == [seq |-> seq + 1, what |-> what, of |-> s] IN
     /\ held' = [held EXCEPT ![a] = entry]
     /\ \E day \in {today - 1, today} \ {0} :
          /\ late' = (late \/ \E d \in (day + 1)..Days : files[d] # <<>>)
          /\ \/ files' = [files EXCEPT ![day] = Appended(@, entry)] /\ UNCHANGED torn
             \/ /\ torn < limit.torn
                /\ torn' = torn + 1
                /\ \/ files' = [files EXCEPT ![day] = Appended(@, Partial)]
                   \/ files[day] = <<>> /\ files' = [files EXCEPT ![day] = <<Created>>]
                   \/ UNCHANGED files

WriterAppends ==
  /\ \E s \in Sessions :
       /\ Turn(s)
       /\ Write("writer", Head(todo[s]), s)
       /\ told' = [told EXCEPT ![s] = Told(@, Head(todo[s]))]
       /\ todo' = [todo EXCEPT ![s] = Tail(@)]
  /\ UNCHANGED <<roster, steps, prev, running, reader, today, actions, restarts, reset, limit>>

(* Journal::action *)
CallAppends ==
  /\ actions < limit.actions
  /\ actions' = actions + 1
  /\ \E s \in Sessions : Write("call", "action", s)
  /\ UNCHANGED <<writer, reader, today, restarts, reset, limit>>

(* The channel drops the oldest entry of a client that is behind. *)
Pushed(c, entry) ==
  IF c.phase = "off" THEN c
  ELSE IF Len(c.queue) < Capacity THEN [c EXCEPT !.queue = Append(@, entry)]
  ELSE [c EXCEPT !.queue = Append(Tail(@), entry), !.lagged = TRUE]

(* Journal::append after the unlock: the order is open. *)
Broadcast(a) ==
  /\ held[a] # Nothing
  /\ client' = Pushed(client, held[a])
  /\ held' = [held EXCEPT ![a] = Nothing]
  /\ UNCHANGED <<writer, seq, files, cursor, seen, connects, bounds>>

-----------------------------------------------------------------------------
(* The whole lines, by day and place in the file of the day; files and read  *)
(* go through them in this order.                                            *)
Places == UNION {{d} \X {i \in DOMAIN files[d] : files[d][i].seq # 0} : d \in 1..Days}
At(p) == files[p[1]][p[2]].seq
Before(p, q) == p[1] < q[1] \/ (p[1] = q[1] /\ p[2] < q[2])
LastOf(ps) == CHOOSE p \in ps : \A q \in ps : q = p \/ Before(q, p)

(* Journal::read, without the filters a replay does not use. *)
Read(since) == {p \in Places : At(p) > since}

(* swarm_changes subscribes to the broadcast first. *)
Connect ==
  /\ client.phase = "off"
  /\ connects < limit.connects
  /\ connects' = connects + 1
  /\ client' = [NoClient EXCEPT !.phase = "subscribed", !.since = cursor]
  /\ UNCHANGED <<writer, storage, cursor, seen, bounds>>

(* Mutant: the live stream starts after the seq the client came with. *)
ReplayForgetsLast ==
  /\ client.phase = "subscribed"
  /\ LET replay == Read(client.since)
         got    == {At(p) : p \in replay}
     IN  /\ client' = [client EXCEPT !.phase = "live", !.got = got, !.last = client.since]
         /\ cursor' = IF replay = {} THEN cursor ELSE At(LastOf(replay))
         /\ seen' = seen \cup got
  /\ UNCHANGED <<writer, storage, connects, bounds>>

(* Then it reads the files, and the client gets what they have. *)
Replay ==
  /\ client.phase = "subscribed"
  /\ LET replay == Read(client.since)
         got    == {At(p) : p \in replay}
         last   == IF replay = {} THEN client.since ELSE At(LastOf(replay))
     IN  /\ client' = [client EXCEPT !.phase = "live", !.got = got, !.last = last,
                         !.twice = \E p, q \in replay : p # q /\ At(p) = At(q)]
         /\ cursor' = last
         /\ seen' = seen \cup got
  /\ UNCHANGED <<writer, storage, connects, bounds>>

(* What the replay had is skipped in the broadcast. *)
Live ==
  /\ client.phase = "live"
  /\ client.queue # <<>>
  /\ LET n     == Head(client.queue).seq
         fresh == n > client.last
         given == IF fresh THEN {n} ELSE {}
     IN  /\ client' = [client EXCEPT !.queue = Tail(@), !.got = @ \cup given,
                         !.twice = @ \/ n \in given \cap client.got]
         /\ cursor' = IF fresh THEN n ELSE cursor
         /\ seen' = seen \cup given
  /\ UNCHANGED <<writer, storage, connects, bounds>>

Disconnect ==
  /\ client.phase # "off"
  /\ client' = NoClient
  /\ UNCHANGED <<writer, storage, cursor, seen, connects, bounds>>

-----------------------------------------------------------------------------
NextDay ==
  /\ today < limit.days
  /\ today' = today + 1
  /\ UNCHANGED <<writer, storage, reader, actions, torn, restarts, reset, late, limit>>

(* Journal::prune, by the writer between two snapshots. *)
Prune ==
  /\ running /\ CaughtUp /\ held["writer"] = Nothing
  /\ files' = [d \in 1..Days |-> IF d + KeepDays < today THEN <<>> ELSE files[d]]
  /\ UNCHANGED <<writer, seq, held, reader, bounds>>

(* The whole lines of the newest file, and the last of them. *)
Newest == {p \in Places : \A d \in (p[1] + 1)..Days : files[d] = <<>>}
LastSeq == IF Newest = {} THEN 0 ELSE At(LastOf(Newest))

(* The daemon goes, with the entries not yet broadcast and the changes not
   yet appended, and starts again: what it then finds in the roster is new. *)
Restart ==
  /\ restarts < limit.restarts
  /\ restarts' = restarts + 1
  /\ seq' = LastSeq
  /\ reset' = (reset \/ (Newest = {} /\ Places # {}))
  /\ held' = [a \in Appenders |-> Nothing]
  /\ client' = NoClient
  /\ \E kept \in SUBSET Sessions :
       roster' = [s \in Sessions |-> IF s \in kept THEN roster[s] ELSE Gone]
  /\ prev' = [s \in Sessions |-> Gone]
  /\ todo' = [s \in Sessions |-> <<>>]
  /\ running' = FALSE
  /\ told' = [s \in Sessions |-> Untold]
  /\ UNCHANGED <<steps, files, cursor, seen, connects, today, actions, torn, late, limit>>

Next ==
  \/ RosterMoves \/ WriterStarts \/ WriterDiffs \/ WriterAppends \/ CallAppends
  \/ \E a \in Appenders : Broadcast(a)
  \/ Connect \/ Replay \/ Live \/ Disconnect
  \/ NextDay \/ Prune \/ Restart

Spec == Init /\ [][Next]_vars

-----------------------------------------------------------------------------
TypeOK ==
  /\ roster \in [Sessions -> Record \cup {Gone}] /\ prev \in [Sessions -> Record \cup {Gone}]
  /\ seq \in Nat /\ cursor \in Nat /\ seen \subseteq Nat
  /\ \A s \in Sessions : told[s] \in [there : BOOLEAN, waits : BOOLEAN]
  /\ client.phase \in {"off", "subscribed", "live"} /\ Len(client.queue) <= Capacity
  /\ today \in 1..Days /\ running \in BOOLEAN /\ reset \in BOOLEAN

(* What a reader of the roster knows of a session. *)
Known(r) == [there |-> r.life \in {"live", "suspended"},
             waits |-> r.life \in {"live", "suspended"} /\ r.needs]

(* Whoever follows the entries of a daemon knows of every session what the
   roster has, once the writer has caught up, however many snapshots it never
   saw (proto changes over Journal::run): it is there or not, and waits for a
   human or not. *)
WriterTells ==
  running /\ CaughtUp /\ roster = prev => \A s \in Sessions : told[s] = Known(roster[s])

(* The files, oldest first, hold the entries in the order of their seq, over
   writes that fail, days and restarts, as long as no start found only torn
   lines in the newest file and no entry went to a day that was over. *)
SeqRises ==
  ~reset /\ ~late => \A p, q \in Places : Before(p, q) => At(p) < At(q)

(* What a client has been given with ?since= and live, when nothing is under
   way: every entry of the files it asked for, none twice, however the
   replay and the broadcast overlap and in whatever order two appenders
   broadcast (swarm_changes). *)
ConnectedSeesAll ==
  client.phase = "live" /\ client.queue = <<>> /\ ~client.lagged /\ ~late /\ ~reset
    /\ (\A a \in Appenders : held[a] = Nothing)
  => ~client.twice /\ \A p \in Read(client.since) : At(p) \in client.got

(* SPEC.md, R18: "A client stores the last `seq` it saw and reconnects with
   it; it never misses a local event."  It has reconnected with the seq it
   stored, the replay is through, no broadcast is left, and so it has seen
   every entry of the files.                                               *)
NeverMisses ==
  client.phase = "live" /\ client.since > 0 /\ client.queue = <<>> /\ ~client.lagged
    /\ (\A a \in Appenders : held[a] = Nothing)
  => \A p \in Places : At(p) \in seen
=============================================================================
