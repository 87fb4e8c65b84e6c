--------------------------- MODULE RunnerProofs ---------------------------
(***************************************************************************)
(* What holds of the sessions a daemon runs and of what is asked of them,   *)
(* proved part by part.                                                     *)
(*                                                                         *)
(* Session actions (Actions): a swarm of any size, any set of requests,     *)
(* views however stale and paths however wrong.                             *)
(*                                                                         *)
(* The gate (Gate): any number of gated calls, of requests of the runner's  *)
(* own and of humans.  That an outcome was meant is not inductive by        *)
(* itself: an answer is a step of its own, made on what was fetched         *)
(* earlier, into a channel that may have timed out since.  It holds since a *)
(* call is listed once and unanswered (Listed), what was answered is listed *)
(* nowhere (Answered), and a channel holds only what was named for it       *)
(* (Meant).                                                                 *)
(***************************************************************************)
EXTENDS MCRunner, SequenceTheorems, TLAPS

Stages == {"new", "sent", "waits", "done", "replied", "answered", "failed",
           "dropped"}

Place  == [st : Stages, at : Nodes, held : BOOLEAN]

ActionsTypeOK ==
  /\ requests \in Cases
  /\ roster \in [Nodes -> SUBSET Sessions]
  /\ req \in [Ids -> Place]
  /\ hops \in [Ids -> Nat]
  /\ ran \in [Ids -> Seq(Nodes)]
  /\ \A e \in journal : e.id \in Ids

(* A node lists only sessions of its own; what a request has behind it is told
   by its stage, which is what the two properties do not say.                *)
Behind(r) ==
  /\ req[r].st = "new"  => hops[r] = 0 /\ ran[r] = <<>> /\ req[r].at = Of(r).entry
  /\ req[r].st = "sent" => hops[r] = 1 /\ ran[r] = <<>>
  /\ req[r].st \in {"waits", "done", "replied"} =>
       req[r].at = Home[KeyOf(r)] /\ ran[r] = <<req[r].at>>
  /\ req[r].st = "replied" =>
       /\ Proxied(r) /\ How(r) # "acp"
       /\ [node |-> Home[KeyOf(r)], action |-> "prompt", id |-> r, by |-> Of(r).entry]
            \in journal

Counted(r) == hops[r] \in {0, 1} /\ (ran[r] = <<>> \/ ran[r] = <<Home[KeyOf(r)]>>)

ActionsInv ==
  /\ \A n \in Nodes : \A s \in roster[n] : Home[s] = n
  /\ \A r \in Ids : Behind(r) /\ Counted(r)
  /\ JournalIsTrue

-----------------------------------------------------------------------------
(* A request is one of its set. *)
LEMMA RequestFields ==
  ASSUME ActionsAssumption, requests \in Cases, NEW r \in Ids
  PROVE  /\ Of(r) \in requests
         /\ Of(r).entry \in Nodes /\ KeyOf(r) \in Sessions /\ Home[KeyOf(r)] \in Nodes
         /\ How(r) \in {"http", "acp", "mcp", "send"}
         /\ How(r) = "acp" => Of(r).entry = Home[KeyOf(r)]
<1>1. PICK q \in requests : q.id = r
  BY DEF Ids
<1>2. Of(r) \in requests
  BY <1>1 DEF Of
<1>3. \A c \in requests :
        /\ c.entry \in Nodes /\ c.key \in Sessions /\ Home[c.key] \in Nodes
        /\ c.how \in {"http", "acp", "mcp", "send"}
        /\ c.how = "acp" => c.entry = Home[c.key]
  BY DEF ActionsAssumption
<1>4. QED
  BY <1>2, <1>3 DEF KeyOf, How

(* The requests of a behaviour stay the same. *)
LEMMA RequestsStay ==
  ASSUME UNCHANGED requests
  PROVE  Ids' = Ids /\ \A r : Of(r)' = Of(r) /\ KeyOf(r)' = KeyOf(r) /\ How(r)' = How(r)
BY DEF Ids, Of, KeyOf, How

(* A node takes an action for its own only if the session is its own: neither a
   wrong path nor a stale view makes it run one of another node.             *)
LEMMA OwnersAreHome ==
  ASSUME ActionsAssumption, NEW n \in Nodes, NEW via, NEW s \in Sessions, NEW peer \in BOOLEAN,
         \A m \in Nodes : \A t \in roster[m] : Home[t] = m,
         RemoteOwner(n, via, s, peer) = n
  PROVE  Home[s] = n
BY DEF ActionsAssumption, RemoteOwner, OwnerOf

(* A node that got an action from a peer runs it or refuses it. *)
LEMMA PeersNeverProxy ==
  ASSUME NEW n, NEW s
  PROVE  RemoteOwner(n, None, s, TRUE) \in {None, n}
BY DEF RemoteOwner

-----------------------------------------------------------------------------
(* A request is at another stage and another node. *)
LEMMA PlaceMoves ==
  ASSUME req \in [Ids -> Place], NEW r \in Ids, NEW st \in Stages, NEW n \in Nodes,
         req' = [req EXCEPT ![r].st = st, ![r].at = n]
  PROVE  /\ req' \in [Ids -> Place]
         /\ req'[r].st = st /\ req'[r].at = n
         /\ \A i \in Ids \ {r} : req'[i] = req[i]
<1> DEFINE mid  == [req EXCEPT ![r].st = st]
           there == [mid[r] EXCEPT !.at = n]
<1>1. mid \in [Ids -> Place] /\ mid[r].st = st /\ \A i \in Ids \ {r} : mid[i] = req[i]
  BY DEF Place
<1>2. req' = [mid EXCEPT ![r] = there]
  OBVIOUS
<1> HIDE DEF mid
<1>3. there \in Place /\ there.st = st /\ there.at = n
  BY <1>1 DEF Place
<1> HIDE DEF there
<1>4. QED
  BY <1>1, <1>2, <1>3

(* A journal that tells more, and truly, tells the truth. *)
LEMMA TellsMore ==
  ASSUME ActionsTypeOK, JournalIsTrue, requests' = requests, journal \subseteq journal',
         \A i \in Ids : ran[i] # <<>> => ran'[i] # <<>>,
         \A e \in journal' \ journal :
           /\ e.by # "acp" => ran'[e.id] # <<>>
           /\ e.node = Home[KeyOf(e.id)] =>
                (e.by \in {"local", "acp"} <=> Of(e.id).entry = e.node)
           /\ e.node # Home[KeyOf(e.id)] =>
                /\ How(e.id) \in {"mcp", "send"} /\ Of(e.id).entry = e.node /\ e.by = "local"
                /\ [node |-> Home[KeyOf(e.id)], action |-> "prompt", id |-> e.id, by |-> e.node]
                     \in journal'
  PROVE  JournalIsTrue'
<1>1. Ids' = Ids /\ \A i : Of(i)' = Of(i) /\ KeyOf(i)' = KeyOf(i) /\ How(i)' = How(i)
  BY RequestsStay
<1>2. QED
  BY <1>1 DEF ActionsTypeOK, JournalIsTrue

(* The stage of one request moves on; nothing else the invariant speaks of
   does.                                                                     *)
LEMMA StageMoves ==
  ASSUME ActionsAssumption, ActionsTypeOK, ActionsInv, NEW r \in Ids, NEW st \in Stages,
         \/ st \in {"failed", "answered", "dropped"}
         \/ st = "done" /\ req[r].st = "waits",
         req' = [req EXCEPT ![r].st = st],
         UNCHANGED <<requests, roster, hops, ran>>, journal \subseteq journal',
         \A e \in journal' : e.id \in Ids, JournalIsTrue'
  PROVE  (ActionsTypeOK /\ ActionsInv)'
<1>1. Ids' = Ids /\ \A i : Of(i)' = Of(i) /\ KeyOf(i)' = KeyOf(i) /\ How(i)' = How(i)
  BY RequestsStay
<1>2. ActionsTypeOK'
  BY <1>1 DEF ActionsTypeOK, Place
<1>3. ActionsInv'
  BY <1>1 DEF ActionsTypeOK, ActionsInv, Behind, Counted, Proxied, Place, Stages
<1>4. QED
  BY <1>2, <1>3

(* So it does while the journals stay as they are. *)
LEMMA StageMovesOnly ==
  ASSUME ActionsAssumption, ActionsTypeOK, ActionsInv, NEW r \in Ids, NEW st \in Stages,
         \/ st \in {"failed", "answered", "dropped"}
         \/ st = "done" /\ req[r].st = "waits",
         req' = [req EXCEPT ![r].st = st],
         UNCHANGED <<requests, roster, hops, ran, journal>>
  PROVE  (ActionsTypeOK /\ ActionsInv)'
<1>1. JournalIsTrue'
  <2>1. journal' = journal /\ requests' = requests /\ ran' = ran
    OBVIOUS
  <2>2. QED
    BY <2>1, TellsMore DEF ActionsInv
<1>2. journal \subseteq journal' /\ \A e \in journal' : e.id \in Ids
  BY DEF ActionsTypeOK
<1>3. QED
  BY <1>1, <1>2, StageMoves

(* A handler that starts runs the action, sends it on or refuses it. *)
LEMMA DispatchKeeps ==
  ASSUME ActionsAssumption, ActionsTypeOK, ActionsInv, NEW r \in Ids, NEW n \in Nodes, NEW owner,
         ran[r] = <<>>, owner = n => Home[KeyOf(r)] = n,
         owner \in Nodes \cup {None},
         owner \in {None, n} \/ hops[r] = 0,
         Dispatch(r, n, owner), UNCHANGED <<requests, roster>>,
         journal \subseteq journal',
         \A e \in journal' \ journal :
                      /\ e.id = r /\ e.by = "acp"
                      /\ e.node = Home[KeyOf(r)] /\ Of(r).entry = e.node
  PROVE  (ActionsTypeOK /\ ActionsInv)'
<1>1. Ids' = Ids /\ \A i : Of(i)' = Of(i) /\ KeyOf(i)' = KeyOf(i) /\ How(i)' = How(i)
  BY RequestsStay
<1>2. ASSUME \A i \in Ids : ran[i] # <<>> => ran'[i] # <<>> PROVE JournalIsTrue'
  BY <1>2, TellsMore DEF ActionsInv
<1>3. journal \subseteq journal' /\ \A e \in journal' : e.id \in Ids
  <2>1. \A e \in journal' : e \in journal \/ e.id = r
    OBVIOUS
  <2>2. QED
    BY <2>1 DEF ActionsTypeOK
<1>4. CASE To(r, "failed") /\ UNCHANGED <<turns, ran, hops>>
  BY <1>2, <1>3, <1>4, StageMoves DEF To, Stages
<1>5. CASE owner = n /\ KeyOf(r) \in live
  <2>1. /\ ran' = [ran EXCEPT ![r] = Append(@, n)]
        /\ req' = [req EXCEPT ![r].st = "waits", ![r].at = n]
        /\ UNCHANGED hops
    BY <1>5 DEF Dispatch, RunAt, ActionsAssumption
  <2>2. /\ Append(ran[r], n) = <<n>>
        /\ <<n>> \in Seq(Nodes)
        /\ ran' = [ran EXCEPT ![r] = <<n>>]
    BY <2>1 DEF ActionsTypeOK
  <2>3. /\ req' \in [Ids -> Place]
        /\ req'[r].st = "waits" /\ req'[r].at = n
        /\ \A i \in Ids \ {r} : req'[i] = req[i]
    BY <2>1, PlaceMoves DEF ActionsTypeOK, Stages
  <2>4. JournalIsTrue'
    <3>1. \A i \in Ids : ran[i] # <<>> => ran'[i] # <<>>
      BY <2>2 DEF ActionsTypeOK
    <3>2. QED
      BY <1>2, <3>1
  <2>5. ActionsTypeOK'
    BY <1>1, <1>3, <2>1, <2>2, <2>3 DEF ActionsTypeOK
  <2>6. Home[KeyOf(r)] = n /\ req'[r].at = n /\ ran'[r] = <<n>> /\ hops' = hops
        /\ \A i \in Ids \ {r} : req'[i] = req[i] /\ ran'[i] = ran[i]
    BY <1>5, <2>1, <2>2, <2>3 DEF ActionsTypeOK
  <2>7. ASSUME NEW i \in Ids
        PROVE  Behind(i)' /\ Counted(i)'
    <3>1. Behind(i) /\ Counted(i)
      BY DEF ActionsInv
    <3>2. CASE i = r
      BY <1>1, <2>3, <2>6, <3>1, <3>2 DEF Behind, Counted
    <3>3. CASE i # r
      BY <1>1, <1>3, <2>6, <3>1, <3>3 DEF Behind, Counted, Proxied
    <3>4. QED
      BY <3>2, <3>3
  <2>8. QED
    BY <1>1, <2>4, <2>5, <2>7 DEF ActionsInv
<1>6. CASE owner \notin {None, n}
  <2>1. /\ req' = [req EXCEPT ![r].st = "sent", ![r].at = owner]
        /\ hops' = [hops EXCEPT ![r] = @ + 1]
        /\ UNCHANGED ran
    BY <1>6 DEF Dispatch
  <2>2. /\ req' \in [Ids -> Place]
        /\ req'[r].st = "sent"
        /\ \A i \in Ids \ {r} : req'[i] = req[i]
    BY <1>6, <2>1, PlaceMoves DEF ActionsTypeOK, Stages
  <2>3. ActionsTypeOK'
    BY <1>1, <1>3, <2>1, <2>2 DEF ActionsTypeOK
  <2>4. JournalIsTrue'
    BY <1>2, <2>1
  <2>5. ASSUME NEW i \in Ids
        PROVE  Behind(i)' /\ Counted(i)'
    <3>1. Behind(i) /\ Counted(i) /\ Counted(r)
      BY DEF ActionsInv
    <3>2. CASE i = r
      <4>1. hops'[r] = 1 /\ ran'[r] = <<>>
        BY <1>6, <2>1 DEF ActionsTypeOK
      <4>2. QED
        BY <1>1, <2>2, <3>2, <4>1 DEF Behind, Counted
    <3>3. CASE i # r
      <4>1. req'[i] = req[i] /\ hops'[i] = hops[i] /\ ran'[i] = ran[i]
        BY <2>1, <2>2, <3>3 DEF ActionsTypeOK
      <4>2. QED
        BY <1>1, <1>3, <3>1, <4>1 DEF Behind, Counted, Proxied
    <3>4. QED
      BY <3>2, <3>3
  <2>6. QED
    BY <1>1, <2>3, <2>4, <2>5 DEF ActionsInv
<1>7. QED
  BY <1>4, <1>5, <1>6 DEF Dispatch, RunAt

(* What the owner journals is what ran, under the name of who asked. *)
LEMMA AnswersKeep ==
  ASSUME ActionsAssumption, ActionsTypeOK, ActionsInv, NEW r \in Ids, Answers(r)
  PROVE  (ActionsTypeOK /\ ActionsInv)'
<1>1. Ids' = Ids /\ \A i : Of(i)' = Of(i) /\ KeyOf(i)' = KeyOf(i) /\ How(i)' = How(i)
  BY RequestsStay DEF Answers, rosters
<1>2. /\ req[r].st = "done" /\ journal' = journal \cup Entries(r, req[r].at)
      /\ UNCHANGED <<requests, roster, hops, ran>>
      /\ req' = [req EXCEPT ![r].st = IF Proxied(r) THEN "replied" ELSE "answered"]
  BY DEF Answers, rosters, To
<1>3. /\ req[r].at = Home[KeyOf(r)] /\ ran[r] = <<req[r].at>> /\ Of(r).entry \notin {"local", "acp"}
      /\ How(r) \in {"http", "acp", "mcp", "send"}
      /\ How(r) = "acp" => Of(r).entry = Home[KeyOf(r)]
  BY <1>2, RequestFields DEF ActionsTypeOK, ActionsInv, Behind, ActionsAssumption
<1>4. ASSUME NEW e \in Entries(r, req[r].at)
      PROVE  /\ e.id = r /\ e.node = Home[KeyOf(r)]
             /\ e.by \in {"local", "acp"} <=> Of(r).entry = e.node
  BY <1>3 DEF Entries
<1>5. ran[r] # <<>>
  BY <1>3
<1>6. JournalIsTrue'
  BY <1>2, <1>4, <1>5, TellsMore DEF ActionsInv
<1>7. Proxied(r) =>
        /\ How(r) # "acp"
        /\ [node |-> Home[KeyOf(r)], action |-> "prompt", id |-> r, by |-> Of(r).entry] \in journal'
  BY <1>2, <1>3 DEF Proxied, Entries
<1>8. journal \subseteq journal' /\ \A e \in journal' : e.id \in Ids
  BY <1>2, <1>4 DEF ActionsTypeOK
<1>9. /\ req' \in [Ids -> Place]
      /\ req'[r].at = req[r].at /\ req'[r].st = (IF Proxied(r) THEN "replied" ELSE "answered")
      /\ \A i \in Ids \ {r} : req'[i] = req[i]
  BY <1>2 DEF ActionsTypeOK, Place, Stages
<1>10. ActionsTypeOK'
  BY <1>1, <1>2, <1>8, <1>9 DEF ActionsTypeOK
<1>11. ActionsInv'
  BY <1>1, <1>2, <1>3, <1>6, <1>7, <1>8, <1>9 DEF ActionsTypeOK, ActionsInv, Behind, Counted, Proxied
<1>12. QED
  BY <1>10, <1>11

(* What the node of a tool journals is what the owner has told before. *)
LEMMA ReturnsKeep ==
  ASSUME ActionsAssumption, ActionsTypeOK, ActionsInv, NEW r \in Ids, Returns(r)
  PROVE  (ActionsTypeOK /\ ActionsInv)'
<1>1. /\ req[r].st = "replied" /\ journal' = journal \cup Entries(r, Of(r).entry)
      /\ UNCHANGED <<requests, roster, hops, ran>>
      /\ req' = [req EXCEPT ![r].st = "answered"]
  BY DEF Returns, rosters, To
<1>2. /\ req[r].at = Home[KeyOf(r)] /\ ran[r] # <<>> /\ Of(r).entry # Home[KeyOf(r)]
      /\ How(r) \in {"http", "mcp", "send"}
      /\ [node |-> Home[KeyOf(r)], action |-> "prompt", id |-> r, by |-> Of(r).entry] \in journal'
  <2>1. /\ ran[r] = <<req[r].at>> /\ req[r].at = Home[KeyOf(r)]
        /\ Proxied(r) /\ How(r) # "acp"
        /\ [node |-> Home[KeyOf(r)], action |-> "prompt", id |-> r, by |-> Of(r).entry] \in journal
    BY <1>1 DEF ActionsInv, Behind
  <2>2. QED
    BY <1>1, <2>1, RequestFields DEF Proxied, ActionsTypeOK
<1>3. ASSUME NEW e \in Entries(r, Of(r).entry)
      PROVE  /\ e.id = r /\ e.node = Of(r).entry /\ e.by = "local"
             /\ How(r) \in {"mcp", "send"}
  BY <1>2 DEF Entries
<1>4. JournalIsTrue'
  BY <1>1, <1>2, <1>3, TellsMore DEF ActionsInv
<1>5. journal \subseteq journal' /\ \A e \in journal' : e.id \in Ids
  BY <1>1, <1>3 DEF ActionsTypeOK
<1>6. QED
  BY <1>1, <1>4, <1>5, StageMoves DEF Stages

-----------------------------------------------------------------------------
(* The invariant holds at first ... *)
LEMMA ActionsStart == ASSUME ActionsAssumption, Init PROVE ActionsTypeOK /\ ActionsInv
<1>1. \A r \in Ids : Of(r).entry \in Nodes
  BY RequestFields DEF Init
<1>2. ActionsTypeOK
  BY <1>1 DEF Init, ActionsTypeOK, Place, Stages
<1>3. ActionsInv
  BY <1>1 DEF Init, ActionsInv, Behind, Counted, JournalIsTrue
<1>4. QED
  BY <1>2, <1>3

(* ... and every step keeps it. *)
LEMMA ActionsStep ==
  ASSUME ActionsAssumption, ActionsTypeOK, ActionsInv, [Next]_vars
  PROVE  (ActionsTypeOK /\ ActionsInv)'
<1>1. ASSUME UNCHANGED <<requests, roster, req, hops, ran, journal>>
      PROVE  (ActionsTypeOK /\ ActionsInv)'
  <2>1. Ids' = Ids /\ \A i : Of(i)' = Of(i) /\ KeyOf(i)' = KeyOf(i) /\ How(i)' = How(i)
    BY <1>1, RequestsStay
  <2>2. QED
    BY <1>1, <2>1 DEF ActionsTypeOK, ActionsInv, Behind, Counted, JournalIsTrue, Proxied
<1>2. ASSUME NEW r \in Ids, Starts(r) PROVE (ActionsTypeOK /\ ActionsInv)'
  <2> DEFINE n == Of(r).entry
             owner == RemoteOwner(n, Of(r).via, KeyOf(r), FALSE)
  <2>1. n \in Nodes /\ KeyOf(r) \in Sessions /\ Home[KeyOf(r)] \in Nodes
        /\ Of(r).via \in Nodes \cup {None}
    BY RequestFields DEF ActionsTypeOK, ActionsAssumption
  <2>2. owner \in Nodes \cup {None}
    BY <2>1 DEF RemoteOwner, OwnerOf
  <2>3. owner = n => Home[KeyOf(r)] = n
    BY <2>1, OwnersAreHome DEF ActionsInv
  <2>4. Dispatch(r, n, owner) /\ UNCHANGED <<requests, roster>>
        /\ journal' = journal
        /\ ran[r] = <<>> /\ hops[r] = 0
    BY <1>2 DEF Starts, rosters, ActionsInv, Behind
  <2> HIDE DEF n, owner
  <2>5. QED
    BY <2>1, <2>2, <2>3, <2>4, DispatchKeeps
<1>3. ASSUME NEW r \in Ids, Reaches(r) PROVE (ActionsTypeOK /\ ActionsInv)'
  <2> DEFINE n == req[r].at
             owner == RemoteOwner(n, None, KeyOf(r), TRUE)
  <2>1. n \in Nodes /\ KeyOf(r) \in Sessions
    BY RequestFields DEF ActionsTypeOK, Place
  <2>2. owner \in {None, n}
    BY PeersNeverProxy
  <2>3. owner = n => Home[KeyOf(r)] = n
    BY <2>1, OwnersAreHome DEF ActionsInv
  <2>4. Dispatch(r, n, owner) /\ UNCHANGED <<requests, roster>>
        /\ journal' = journal
        /\ ran[r] = <<>>
    BY <1>3 DEF Reaches, rosters, ActionsInv, Behind
  <2> HIDE DEF n, owner
  <2>5. QED
    BY <2>1, <2>2, <2>3, <2>4, DispatchKeeps
<1>4. ASSUME NEW r \in Ids, StartsAcp(r) PROVE (ActionsTypeOK /\ ActionsInv)'
  <2> DEFINE n == Of(r).entry
             E == {[node |-> n, action |-> "prompt", id |-> r, by |-> "acp"]}
  <2>1. n \in Nodes /\ n = Home[KeyOf(r)]
    BY <1>4, RequestFields DEF StartsAcp, ActionsTypeOK
  <2>2. Dispatch(r, n, n) /\ UNCHANGED <<requests, roster>> /\ journal' = journal \cup E
        /\ ran[r] = <<>>
    BY <1>4 DEF StartsAcp, Dispatch, rosters, ActionsInv, Behind
  <2>3. \A e \in E : e.id = r /\ e.by = "acp" /\ e.node = n
    OBVIOUS
  <2>4. Of(r).entry = n
    OBVIOUS
  <2> HIDE DEF n, E
  <2>5. QED
    BY <2>1, <2>2, <2>3, <2>4, DispatchKeeps
<1>5. ASSUME NEW r \in Ids, Unreachable(r) PROVE (ActionsTypeOK /\ ActionsInv)'
  BY <1>5, StageMovesOnly DEF Unreachable, To, rosters, Stages
<1>6. ASSUME NEW r \in Ids, WaitEnds(r) \/ SendEnds(r) \/ SendTimesOut(r)
      PROVE  (ActionsTypeOK /\ ActionsInv)'
  <2>1. PICK st \in {"done", "failed"} : req' = [req EXCEPT ![r].st = st]
    BY <1>6 DEF WaitEnds, SendEnds, SendTimesOut, To
  <2>2. req[r].st = "waits" /\ UNCHANGED <<requests, roster, hops, ran, journal>>
    BY <1>6 DEF WaitEnds, SendEnds, SendTimesOut, rosters
  <2>3. QED
    BY <2>1, <2>2, StageMovesOnly DEF Stages
<1>7. ASSUME NEW r \in Ids, Answers(r) PROVE (ActionsTypeOK /\ ActionsInv)'
  BY <1>7, AnswersKeep
<1>8. ASSUME NEW r \in Ids, Returns(r) PROVE (ActionsTypeOK /\ ActionsInv)'
  BY <1>8, ReturnsKeep
<1>9. ASSUME NEW r \in Ids, Dropped(r) PROVE (ActionsTypeOK /\ ActionsInv)'
  BY <1>9, StageMovesOnly DEF Dropped, To, rosters, Stages
<1>10. ASSUME NEW r \in Ids, HangsUp(r) PROVE (ActionsTypeOK /\ ActionsInv)'
  <2>1. /\ req' = [req EXCEPT ![r].held = FALSE]
        /\ UNCHANGED <<requests, roster, hops, ran, journal>>
    BY <1>10 DEF HangsUp, rosters
  <2>2. Ids' = Ids /\ \A i : Of(i)' = Of(i) /\ KeyOf(i)' = KeyOf(i) /\ How(i)' = How(i)
    BY <2>1, RequestsStay
  <2>3. ActionsTypeOK'
    BY <2>1, <2>2 DEF ActionsTypeOK, Place
  <2>4. QED
    BY <2>1, <2>2, <2>3 DEF ActionsTypeOK, ActionsInv, Behind, Counted, JournalIsTrue, Proxied, Place
<1>11. ASSUME NEW s \in Sessions, Swept(s) PROVE (ActionsTypeOK /\ ActionsInv)'
  <2>1. /\ UNCHANGED <<requests, req, hops, ran, journal>>
        /\ roster' = [roster EXCEPT ![Home[s]] = @ \ {s}]
    BY <1>11 DEF Swept
  <2>2. Ids' = Ids /\ \A i : Of(i)' = Of(i) /\ KeyOf(i)' = KeyOf(i) /\ How(i)' = How(i)
    BY <2>1, RequestsStay
  <2>3. roster' \in [Nodes -> SUBSET Sessions] /\ \A n \in Nodes : roster'[n] \subseteq roster[n]
    BY <2>1 DEF ActionsTypeOK
  <2>4. QED
    BY <2>1, <2>2, <2>3 DEF ActionsTypeOK, ActionsInv, Behind, Counted, JournalIsTrue, Proxied
<1>12. ASSUME NEW s \in Sessions, TurnEnds(s) \/ Ends(s) PROVE (ActionsTypeOK /\ ActionsInv)'
  BY <1>1, <1>12 DEF TurnEnds, Ends, rosters
<1>13. ASSUME NEW n \in Nodes, Views(n) PROVE (ActionsTypeOK /\ ActionsInv)'
  BY <1>1, <1>13 DEF Views
<1>14. CASE UNCHANGED vars
  BY <1>1, <1>14 DEF vars, rosters
<1>15. QED
  BY <1>2, <1>3, <1>5, <1>6, <1>7, <1>9, <1>10, <1>11, <1>12, <1>13, <1>14, <1>4, <1>8
     DEF Next, Handler

(* In a swarm of any size an action runs once at most, only where its session
   is, and is proxied once at most; the journal of that node tells only of what
   ran there, but for an editor's prompts, under the name of who asked, and any
   other journal only of tools called there that ran where their session is
   (api/routes.rs, remote_owner and the handlers; api/mcp.rs; api/acp.rs).   *)
THEOREM ActionsRunOnce == ActionsAssumption => (Spec => []RunsAndIsTold)
<1> SUFFICES ASSUME ActionsAssumption PROVE Spec => []RunsAndIsTold
  OBVIOUS
<1>1. Init => ActionsTypeOK /\ ActionsInv
  BY ActionsStart
<1>2. ActionsTypeOK /\ ActionsInv /\ [Next]_vars => (ActionsTypeOK /\ ActionsInv)'
  BY ActionsStep
<1>3. ActionsTypeOK /\ ActionsInv => RunsAndIsTold
  <2> SUFFICES ASSUME ActionsTypeOK, ActionsInv, NEW r \in Ids
               PROVE  /\ hops[r] <= 1
                      /\ Len(ran[r]) <= 1
                      /\ \A i \in 1..Len(ran[r]) : ran[r][i] = Home[KeyOf(r)]
    BY DEF RunsAndIsTold, RunsOnceAtHome, ActionsInv
  <2>0. Counted(r)
    BY DEF ActionsInv
  <2>1. hops[r] <= 1
    BY <2>0 DEF Counted
  <2>2. CASE ran[r] = <<>>
    BY <2>1, <2>2
  <2>3. CASE ran[r] = <<Home[KeyOf(r)]>>
    BY <2>1, <2>3
  <2>4. QED
    BY <2>0, <2>2, <2>3 DEF Counted
<1>4. QED
  BY <1>1, <1>2, <1>3, PTL DEF Spec
-----------------------------------------------------------------------------
(* The answers there are, what an answer can name, and what a human is at. *)
Choices == {"allow", "deny"}
Names   == Calls \cup Requests \cup {None}
Human   == [at : {"idle", "posted", "runner", "gate", "done", "refused"},
            id : Names, meant : Names, choice : Choices \cup {None}]

GateTypes ==
  /\ call \in [Calls -> {"idle", "claimed", "waits", "expires", "answered", "returned"}]
  /\ outcome \in [Calls -> {None, "allow", "deny", "timeout"}]
  /\ pending \in Seq(Calls)
  /\ reply \in [Calls -> Choices \cup {None}]
  /\ runner \in Seq(Requests)
  /\ human \in [Humans -> Human]
  /\ \A h \in Humans : human[h].at \in {"posted", "runner", "gate"} => human[h].choice \in Choices
  /\ named \subseteq [what : Calls \cup Requests, id : Names, choice : Choices, by : Humans]
  /\ gone \subseteq Calls

Distinct(q) == \A i, j \in 1..Len(q) : q[i] = q[j] => i = j

(* A call on the list waits, or nobody waits for it any more; it is there once,
   and nobody answered it.                                                     *)
Listed ==
  /\ Distinct(pending) /\ Distinct(runner)
  /\ \A c \in G!In(pending) : (call[c] \in G!Waits \/ c \in gone) /\ reply[c] = None
  /\ \A c \in gone : call[c] = "returned"

(* What was answered is on no list, and was answered by somebody who is done. *)
Answered ==
  /\ \A n \in named : /\ n.what \notin G!In(pending) \cup G!In(runner)
                      /\ n.what \in Calls => call[n.what] \notin {"idle", "claimed"}
                      /\ human[n.by].at = "done"
  /\ \A m, n \in named : (m.what = n.what \/ m.by = n.by) => m = n

(* What is in a channel was meant for it, and an outcome is what was in it. *)
Meant ==
  /\ \A c \in Calls : reply[c] # None
       => \E n \in named : n.what = c /\ n.choice = reply[c] /\ n.id \in {None, c}
  /\ \A c \in Calls : outcome[c] \in Choices => outcome[c] = reply[c]

GateInv == GateTypes /\ Listed /\ Answered /\ Meant

(* Two sequences, one after the other. *)
LEMMA Joined ==
  ASSUME NEW S, NEW u \in Seq(S), NEW v \in Seq(S), NEW w, w = u \o v
  PROVE  /\ w \in Seq(S) /\ Len(u) \in Nat /\ Len(v) \in Nat /\ Len(w) = Len(u) + Len(v)
         /\ \A j \in 1..Len(u) : w[j] = u[j]
         /\ \A j \in 1..Len(v) : w[Len(u) + j] = v[j]
OBVIOUS

(* What remove leaves of a list without duplicates. *)
LEMMA Removed ==
  ASSUME NEW S, NEW q \in Seq(S), Distinct(q), NEW x
  PROVE  /\ G!Without(q, x) \in Seq(S) /\ Distinct(G!Without(q, x))
         /\ G!In(G!Without(q, x)) = G!In(q) \ {x}
<1>1. CASE x \notin G!In(q)
  BY <1>1 DEF G!Without
<1>2. CASE x \in G!In(q)
  <2> DEFINE First(i) == i \in 1..Len(q) /\ q[i] = x /\ \A j \in 1..(i - 1) : q[j] # x
  <2>1. \E i : First(i)
    <3>1. PICK i \in 1..Len(q) : q[i] = x
      BY <1>2 DEF G!In
    <3>2. \A j \in 1..(i - 1) : j \in 1..Len(q) /\ j # i
      BY <3>1
    <3>3. First(i)
      BY <3>1, <3>2 DEF Distinct
    <3>4. QED
      BY <3>3
  <2>2. PICK i : /\ First(i)
                 /\ G!Without(q, x) = SubSeq(q, 1, i - 1) \o SubSeq(q, i + 1, Len(q))
    BY <1>2, <2>1 DEF G!Without
  <2>3. Len(q) \in Nat /\ i \in Nat /\ i >= 1 /\ i <= Len(q) /\ q[i] = x
    BY <2>2
  <2> HIDE DEF First
  <2>4. PICK u, v, w : u = SubSeq(q, 1, i - 1) /\ v = SubSeq(q, i + 1, Len(q)) /\ w = u \o v
    OBVIOUS
  <2>5. u \in Seq(S) /\ Len(u) = i - 1 /\ \A j \in 1..(i - 1) : u[j] = q[j]
    BY <2>3, <2>4
  <2>6. v \in Seq(S) /\ Len(v) = Len(q) - i /\ \A j \in 1..(Len(q) - i) : v[j] = q[i + j]
    BY <2>3, <2>4
  <2>7. /\ w \in Seq(S) /\ Len(w) = Len(q) - 1
        /\ \A j \in 1..(i - 1) : w[j] = q[j]
        /\ \A j \in i..(Len(q) - 1) : w[j] = q[j + 1]
    <3>1. /\ w \in Seq(S) /\ Len(w) = Len(u) + Len(v)
          /\ \A j \in 1..Len(u) : w[j] = u[j]
          /\ \A j \in 1..Len(v) : w[Len(u) + j] = v[j]
      <4>1. w = u \o v /\ u \in Seq(S) /\ v \in Seq(S)
        BY <2>4, <2>5, <2>6
      <4>2. QED
        BY <4>1, Joined
    <3>2. ASSUME NEW j \in 1..(i - 1) PROVE w[j] = q[j]
      BY <2>5, <3>1
    <3>3. ASSUME NEW j \in i..(Len(q) - 1) PROVE w[j] = q[j + 1]
      <4>1. PICK k \in 1..(Len(q) - i) : j = (i - 1) + k
        <5>1. j - (i - 1) \in 1..(Len(q) - i) /\ j = (i - 1) + (j - (i - 1))
          BY <2>3
        <5>2. QED
          BY <5>1
      <4>2. w[j] = v[k]
        BY <2>3, <2>5, <2>6, <3>1, <4>1
      <4>3. v[k] = q[i + k] /\ i + k = j + 1
        BY <2>3, <2>6, <4>1
      <4>4. QED
        BY <4>2, <4>3
    <3>4. QED
      BY <2>3, <2>5, <2>6, <3>1, <3>2, <3>3
  <2>8. Distinct(w)
    <3>1. ASSUME NEW j \in 1..Len(w)
          PROVE  \/ j < i /\ j \in 1..Len(q) /\ w[j] = q[j]
                 \/ j >= i /\ j + 1 \in 1..Len(q) /\ w[j] = q[j + 1]
      BY <2>3, <2>7
    <3>2. ASSUME NEW j \in 1..Len(w), NEW k \in 1..Len(w), w[j] = w[k] PROVE j = k
      <4>1. CASE j < i /\ k < i
        BY <2>3, <3>1, <3>2, <4>1 DEF Distinct
      <4>2. CASE j >= i /\ k >= i
        <5>1. j + 1 = k + 1
          BY <2>3, <3>1, <3>2, <4>2 DEF Distinct
        <5>2. QED
          BY <2>7, <5>1
      <4>3. CASE j < i /\ k >= i
        <5>1. j = k + 1
          BY <2>3, <3>1, <3>2, <4>3 DEF Distinct
        <5>2. QED
          BY <2>3, <2>7, <4>3, <5>1
      <4>4. CASE j >= i /\ k < i
        <5>1. j + 1 = k
          BY <2>3, <3>1, <3>2, <4>4 DEF Distinct
        <5>2. QED
          BY <2>3, <2>7, <4>4, <5>1
      <4>5. QED
        BY <2>3, <2>7, <4>1, <4>2, <4>3, <4>4
    <3>3. QED
      BY <3>2 DEF Distinct
  <2>9. ASSUME NEW y \in G!In(w) PROVE y \in G!In(q) \ {x}
    <3>1. PICK j \in 1..Len(w) : w[j] = y
      BY <2>9 DEF G!In
    <3>2. PICK k \in 1..Len(q) : k # i /\ q[k] = y
      BY <2>3, <2>7, <3>1
    <3>3. QED
      BY <2>3, <3>2 DEF G!In, Distinct
  <2>10. ASSUME NEW y \in G!In(q) \ {x} PROVE y \in G!In(w)
    <3>1. PICK k \in 1..Len(q) : q[k] = y
      BY <2>10 DEF G!In
    <3>2. k # i
      BY <2>3, <2>10, <3>1
    <3>3. PICK j \in 1..Len(w) : w[j] = y
      <4>1. CASE k < i
        BY <2>3, <2>7, <3>1, <4>1
      <4>2. CASE k > i
        <5>1. k - 1 \in 1..Len(w) /\ k - 1 \in i..(Len(q) - 1) /\ (k - 1) + 1 = k
          BY <2>3, <2>7, <4>2
        <5>2. w[k - 1] = q[k]
          BY <2>7, <5>1
        <5>3. QED
          BY <3>1, <5>1, <5>2
      <4>3. QED
        BY <2>3, <3>2, <4>1, <4>2
    <3>4. QED
      BY <3>3 DEF G!In
  <2>11. QED
    BY <2>2, <2>4, <2>7, <2>8, <2>9, <2>10
<1>3. QED
  BY <1>1, <1>2

(* What push and pop do to the members of such a list. *)
LEMMA Pushed ==
  ASSUME NEW S, NEW q \in Seq(S), Distinct(q), NEW x \in S, x \notin G!In(q)
  PROVE  /\ Append(q, x) \in Seq(S) /\ Distinct(Append(q, x))
         /\ G!In(Append(q, x)) = G!In(q) \cup {x}
<1> DEFINE w == Append(q, x)
<1>1. /\ w \in Seq(S) /\ Len(q) \in Nat /\ Len(w) = Len(q) + 1 /\ w[Len(q) + 1] = x
      /\ \A i \in 1..Len(q) : w[i] = q[i]
  OBVIOUS
<1> HIDE DEF w
<1>2. \A i \in 1..Len(w) : i \in 1..Len(q) \/ i = Len(q) + 1
  BY <1>1
<1>3. \A i \in 1..Len(q) : i \in 1..Len(w)
  BY <1>1
<1>4. Len(q) + 1 \in 1..Len(w)
  BY <1>1
<1>5. G!In(w) = G!In(q) \cup {x}
  BY <1>1, <1>2, <1>3, <1>4 DEF G!In
<1>6. ASSUME NEW i \in 1..Len(w), NEW j \in 1..Len(w), w[i] = w[j] PROVE i = j
  BY <1>1, <1>2, <1>6 DEF G!In, Distinct
<1>7. QED
  BY <1>1, <1>5, <1>6 DEF Distinct, w

(* The first one leaves the list. *)
LEMMA Popped ==
  ASSUME NEW S, NEW q \in Seq(S), Distinct(q), q # <<>>
  PROVE  /\ Head(q) \in G!In(q) /\ Tail(q) \in Seq(S) /\ Distinct(Tail(q))
         /\ G!In(Tail(q)) \subseteq G!In(q)
<1> DEFINE w == Tail(q)
<1>1. /\ w \in Seq(S) /\ Len(q) \in Nat /\ Len(q) >= 1 /\ Len(w) = Len(q) - 1
      /\ Head(q) = q[1] /\ \A i \in 1..Len(w) : w[i] = q[i + 1]
  OBVIOUS
<1> HIDE DEF w
<1>2. \A i \in 1..Len(w) : i + 1 \in 1..Len(q)
  BY <1>1
<1>3. G!In(w) \subseteq G!In(q)
  BY <1>1, <1>2 DEF G!In
<1>4. ASSUME NEW i \in 1..Len(w), NEW j \in 1..Len(w), w[i] = w[j] PROVE i = j
  BY <1>1, <1>2, <1>4 DEF Distinct
<1>5. Head(q) \in G!In(q)
  BY <1>1 DEF G!In
<1>6. QED
  BY <1>1, <1>3, <1>4, <1>5 DEF Distinct, w

(* No call is on a list, and nobody answered, at the start. *)
LEMMA GateStart == ASSUME G!GateAssumption, G!Init PROVE GateInv
<1>1. runner \in Seq(Requests) /\ Distinct(runner) /\ pending = <<>>
  <2>1. /\ pending = <<>>
        /\ runner = <<>> \/ \E r \in Requests : runner = <<r>>
    BY DEF G!Init
  <2>2. ASSUME NEW r \in Requests PROVE <<r>> \in Seq(Requests) /\ Distinct(<<r>>)
    BY DEF Distinct
  <2>3. Distinct(<<>>) /\ <<>> \in Seq(Requests)
    BY DEF Distinct
  <2>4. QED
    BY <2>1, <2>2, <2>3
<1>2. G!In(pending) = {}
  BY <1>1 DEF G!In
<1>3. GateTypes
  BY <1>1 DEF G!Init, GateTypes, Choices, Names, Human
<1>4. Listed
  BY <1>1, <1>2 DEF G!Init, Listed, Distinct
<1>5. Answered
  BY DEF G!Init, Answered
<1>6. Meant
  BY DEF G!GateAssumption, G!Init, Meant, Choices
<1>7. QED
  BY <1>3, <1>4, <1>5, <1>6 DEF GateInv

(* A human's answer is used for a call on the list: the one named, or any when
   none is.                                                                    *)
LEMMA TakenIsListed ==
  ASSUME GateInv, NEW h \in Humans, G!Taken(h) # None
  PROVE  /\ G!Taken(h) \in G!In(pending) /\ G!Taken(h) \in Calls
         /\ human[h].id \in {None, G!Taken(h)}
<1>1. pending \in Seq(Calls) /\ Distinct(pending)
  BY DEF GateInv, GateTypes, Listed
<1>2. G!In(pending) \subseteq Calls
  BY <1>1, ElementOfSeq DEF G!In
<1>3. \/ human[h].id = None /\ pending # <<>> /\ G!Taken(h) = Head(pending)
      \/ human[h].id \in G!In(pending) /\ G!Taken(h) = human[h].id
  BY DEF G!Taken
<1>4. QED
  BY <1>1, <1>2, <1>3, Popped

(* A human goes on to somewhere else. *)
LEMMA Became ==
  ASSUME GateTypes, NEW h \in Humans, NEW at, NEW id, G!Becomes(h, at, id)
  PROVE  /\ human'[h] = [human[h] EXCEPT !.at = at, !.meant = id]
         /\ \A g \in Humans : g # h => human'[g] = human[g]
         /\ human'[h].at = at /\ human'[h].id = human[h].id /\ human'[h].choice = human[h].choice
         /\ at \in {"idle", "posted", "runner", "gate", "done", "refused"} /\ id \in Names =>
              human' \in [Humans -> Human]
<1>1. human \in [Humans -> Human]
  BY DEF GateTypes
<1>2. human' = [human EXCEPT ![h] = [human[h] EXCEPT !.at = at, !.meant = id]]
  BY DEF G!Becomes
<1>3. QED
  BY <1>1, <1>2 DEF Human

(* What every step has to show of the types. *)
LEMMA GateTypesStep == ASSUME G!GateAssumption, GateInv, G!Next PROVE GateTypes'
<1> USE DEF GateInv, GateTypes, Choices, Names, Human
<1>0. Distinct(pending) /\ Distinct(runner)
  BY DEF Listed
<1>1. ASSUME NEW c \in Calls, G!Posts(c) PROVE GateTypes'
  BY <1>1 DEF G!Posts
<1>2. ASSUME NEW c \in Calls, G!WaitStarts(c) PROVE GateTypes'
  BY <1>2 DEF G!WaitStarts
<1>3. ASSUME NEW c \in Calls, G!WaitEnds(c) PROVE GateTypes'
  BY <1>3 DEF G!WaitEnds
<1>4. ASSUME NEW c \in Calls, G!Expires(c) PROVE GateTypes'
  BY <1>4 DEF G!Expires
<1>5. ASSUME NEW c \in Calls, G!Withdraws(c) PROVE GateTypes'
  BY <1>0, <1>5, Removed DEF G!Withdraws
<1>6. ASSUME NEW c \in Calls, G!Returns(c) PROVE GateTypes'
  BY <1>6 DEF G!Returns
<1>7. ASSUME NEW c \in Calls, G!HangsUp(c) PROVE GateTypes'
  BY <1>7 DEF G!HangsUp
<1>8. ASSUME NEW h \in Humans, G!Fetches(h) PROVE GateTypes'
  <2>1. PICK choice \in {"allow", "deny"}, id \in G!In(G!SessionState) \cup {None} :
          human' = [human EXCEPT ![h] =
            [at |-> "posted", id |-> id, meant |-> None, choice |-> choice]]
    BY <1>8 DEF G!Fetches
  <2>2. id \in Names
    <3>1. PICK s \in Seq(Calls \cup Requests) : s = G!SessionState
      <4>1. runner \in Seq(Calls \cup Requests) /\ pending \in Seq(Calls \cup Requests)
        OBVIOUS
      <4>2. QED
        BY <4>1, ConcatProperties DEF G!SessionState
    <3>2. \A i \in 1..Len(s) : s[i] \in Calls \cup Requests
      BY <3>1, ElementOfSeq
    <3>3. QED
      BY <2>1, <3>1, <3>2 DEF G!In
  <2>3. UNCHANGED <<call, outcome, pending, reply, runner, named, gone>>
    BY <1>8 DEF G!Fetches
  <2>4. QED
    BY <2>1, <2>2, <2>3
<1>9. ASSUME NEW h \in Humans, G!Permission(h) PROVE GateTypes'
  <2>1. PICK at \in {"gate", "runner"}, id \in Names : G!Becomes(h, at, id)
    <3>1. runner # <<>> => Head(runner) \in Requests
      OBVIOUS
    <3>2. human[h].id \in Names
      OBVIOUS
    <3> HIDE DEF GateInv, GateTypes
    <3>3. QED
      BY <1>9, <3>1, <3>2 DEF G!Permission
  <2>2. human[h].at = "posted" /\ UNCHANGED <<call, outcome, pending, reply, runner, named, gone>>
    BY <1>9 DEF G!Permission
  <2>3. human[h].choice \in Choices /\ GateTypes
    BY <2>2
  <2> HIDE DEF GateInv, GateTypes, Human
  <2>4. /\ human' \in [Humans -> Human]
        /\ human'[h].choice = human[h].choice
        /\ \A g \in Humans : g # h => human'[g] = human[g]
    BY <2>1, <2>3, Became DEF Names
  <2>5. \A g \in Humans :
          human'[g].at \in {"posted", "runner", "gate"} => human'[g].choice \in Choices
    BY <2>3, <2>4 DEF GateTypes
  <2>6. QED
    BY <2>2, <2>3, <2>4, <2>5 DEF GateTypes
<1>10. ASSUME NEW h \in Humans, G!AnswersRunner(h) PROVE GateTypes'
  <2>1. /\ human[h].at = "runner" /\ human[h].choice \in Choices /\ GateTypes
        /\ UNCHANGED <<call, outcome, pending, reply, gone>>
    BY <1>10 DEF G!AnswersRunner
  <2>2. \/ /\ human[h].meant \in G!In(runner)
           /\ runner' = G!Without(runner, human[h].meant)
           /\ G!Becomes(h, "done", None) /\ G!Accepted(h, human[h].meant)
        \/ G!Becomes(h, "gate", None) /\ UNCHANGED <<runner, named>>
    BY <1>10, Zenon DEF G!AnswersRunner
  <2>3. PICK at : G!Becomes(h, at, None) /\ at \in {"done", "gate"}
    BY <2>2
  <2>4. /\ human' \in [Humans -> Human]
        /\ \A g \in Humans :
             human'[g].at \in {"posted", "runner", "gate"} => human'[g].choice \in Choices
    <3>1. GateTypes
      OBVIOUS
    <3> HIDE DEF GateInv, GateTypes, Human
    <3>2. /\ human' \in [Humans -> Human]
          /\ human'[h].choice = human[h].choice
          /\ \A g \in Humans : g # h => human'[g] = human[g]
      BY <2>3, <3>1, Became DEF Names
    <3>3. QED
      BY <2>1, <3>1, <3>2 DEF GateTypes
  <2>5. runner' \in Seq(Requests)
    BY <1>0, <2>2, Removed
  <2>6. named' \subseteq [what : Calls \cup Requests, id : Names, choice : Choices, by : Humans]
    <3>1. human[h].meant \in G!In(runner) => human[h].meant \in Requests
      BY ElementOfSeq DEF G!In
    <3>2. human[h].id \in Names
      OBVIOUS
    <3>3. QED
      BY <2>1, <2>2, <3>1, <3>2 DEF G!Accepted
  <2>7. QED
    BY <2>1, <2>4, <2>5, <2>6
<1>11. ASSUME NEW h \in Humans, G!AnswersGate(h) PROVE GateTypes'
  <2>1. /\ human[h].at = "gate" /\ human[h].choice \in Choices /\ GateTypes
        /\ UNCHANGED <<call, outcome, runner, gone>>
    BY <1>11 DEF G!AnswersGate
  <2>2. \/ /\ G!Taken(h) # None
           /\ pending' = G!Without(pending, G!Taken(h))
           /\ reply' = [reply EXCEPT ![G!Taken(h)] = human[h].choice]
           /\ G!Becomes(h, "done", None) /\ G!Accepted(h, G!Taken(h))
        \/ G!Becomes(h, "refused", None) /\ UNCHANGED <<pending, reply, named>>
    BY <1>11, Zenon DEF G!AnswersGate
  <2>3. PICK at : G!Becomes(h, at, None) /\ at \in {"done", "refused"}
    BY <2>2
  <2>4. /\ human' \in [Humans -> Human]
        /\ \A g \in Humans :
             human'[g].at \in {"posted", "runner", "gate"} => human'[g].choice \in Choices
    <3>1. GateTypes
      OBVIOUS
    <3> HIDE DEF GateInv, GateTypes, Human
    <3>2. /\ human' \in [Humans -> Human]
          /\ human'[h].choice = human[h].choice
          /\ \A g \in Humans : g # h => human'[g] = human[g]
      BY <2>3, <3>1, Became DEF Names
    <3>3. QED
      BY <2>1, <3>1, <3>2 DEF GateTypes
  <2>5. pending' \in Seq(Calls) /\ reply' \in [Calls -> Choices \cup {None}]
    <3>1. pending \in Seq(Calls) /\ reply \in [Calls -> Choices \cup {None}]
      OBVIOUS
    <3> HIDE DEF GateInv, GateTypes, Human
    <3>2. pending' \in Seq(Calls)
      BY <1>0, <2>2, <3>1, Removed
    <3>3. reply' \in [Calls -> Choices \cup {None}]
      BY <2>1, <2>2, <3>1
    <3>4. QED
      BY <3>2, <3>3
  <2>6. named' \subseteq [what : Calls \cup Requests, id : Names, choice : Choices, by : Humans]
    <3>1. G!Taken(h) # None => G!Taken(h) \in Calls
      BY TakenIsListed
    <3>2. human[h].id \in Names
      OBVIOUS
    <3>3. QED
      BY <2>1, <2>2, <3>1, <3>2 DEF G!Accepted
  <2>7. QED
    BY <2>1, <2>4, <2>5, <2>6
<1>12. CASE G!RunnerDrops
  BY <1>12 DEF G!RunnerDrops
<1> HIDE DEF GateInv, GateTypes
<1>13. QED
  BY <1>1, <1>2, <1>3, <1>4, <1>5, <1>6, <1>7, <1>8, <1>9, <1>10, <1>11, <1>12
  DEF G!Next, G!CallSteps, G!HumanSteps

(* Each step keeps what is on the lists apart from what was answered. *)
LEMMA ListedStep == ASSUME G!GateAssumption, GateInv, G!Next PROVE Listed'
<1>1. /\ pending \in Seq(Calls) /\ Distinct(pending)
      /\ runner \in Seq(Requests) /\ Distinct(runner)
      /\ G!In(pending) \subseteq Calls /\ gone \subseteq Calls
      /\ call \in [Calls -> {"idle", "claimed", "waits", "expires", "answered", "returned"}]
      /\ reply \in [Calls -> Choices \cup {None}]
  BY ElementOfSeq DEF GateInv, GateTypes, Listed, G!In
<1>2. /\ \A c \in G!In(pending) : (call[c] \in G!Waits \/ c \in gone) /\ reply[c] = None
      /\ \A c \in gone : call[c] = "returned"
  BY DEF GateInv, Listed
<1>3. ASSUME NEW c \in Calls,
             G!Posts(c) \/ G!WaitEnds(c) \/ G!Expires(c) \/ G!Returns(c) \/ G!HangsUp(c)
      PROVE  Listed'
  <2>1. /\ UNCHANGED <<pending, runner, reply>>
        /\ \A d \in Calls : d # c => call'[d] = call[d]
        /\ gone' = gone \/ (gone' = gone \cup {c} /\ call'[c] = "returned")
    BY <1>1, <1>3 DEF G!Posts, G!WaitEnds, G!Expires, G!Returns, G!HangsUp
  <2>2. c \in G!In(pending) => call'[c] \in G!Waits \/ c \in gone'
    BY <1>1, <1>2, <1>3 DEF G!Posts, G!WaitEnds, G!Expires, G!Returns, G!HangsUp, G!Waits
  <2>3. c \in gone => call'[c] = "returned"
    BY <1>1, <1>2, <1>3 DEF G!Posts, G!WaitEnds, G!Expires, G!Returns, G!HangsUp
  <2>4. QED
    BY <1>1, <1>2, <2>1, <2>2, <2>3 DEF Listed
<1>4. ASSUME NEW c \in Calls, G!WaitStarts(c) PROVE Listed'
  <2>1. /\ pending' = Append(pending, c) /\ UNCHANGED <<runner, reply, gone>>
        /\ call[c] = "claimed" /\ call' = [call EXCEPT ![c] = "waits"]
    BY <1>4 DEF G!WaitStarts
  <2>2. c \notin G!In(pending) /\ c \notin gone
    BY <1>2, <2>1 DEF G!Waits
  <2>3. reply[c] = None
    BY <1>1, <2>1 DEF GateInv, Meant, Answered
  <2>4. Distinct(pending') /\ G!In(pending') = G!In(pending) \cup {c}
    BY <1>1, <2>1, <2>2, Pushed
  <2>5. call'[c] = "waits" /\ \A d \in Calls : d # c => call'[d] = call[d]
    BY <1>1, <2>1
  <2>6. \A d \in G!In(pending') : (call'[d] \in G!Waits \/ d \in gone') /\ reply'[d] = None
    BY <1>1, <1>2, <2>1, <2>3, <2>4, <2>5 DEF G!Waits
  <2>7. \A d \in gone' : call'[d] = "returned"
    BY <1>1, <1>2, <2>1, <2>2, <2>5
  <2>8. QED
    BY <1>1, <2>1, <2>4, <2>6, <2>7 DEF Listed
<1>5. ASSUME NEW c \in Calls, G!Withdraws(c) PROVE Listed'
  <2>1. /\ pending' = G!Without(pending, c) /\ UNCHANGED <<runner, reply, gone>>
        /\ call[c] = "expires" /\ call' = [call EXCEPT ![c] = "answered"]
    BY <1>5 DEF G!Withdraws
  <2>2. Distinct(pending') /\ G!In(pending') = G!In(pending) \ {c}
    BY <1>1, <2>1, Removed
  <2>3. \A d \in Calls : d # c => call'[d] = call[d]
    BY <1>1, <2>1
  <2>4. QED
    BY <1>1, <1>2, <2>1, <2>2, <2>3 DEF Listed
<1>6. ASSUME NEW h \in Humans, G!Fetches(h) \/ G!Permission(h) PROVE Listed'
  BY <1>1, <1>2, <1>6 DEF G!Fetches, G!Permission, Listed
<1>7. ASSUME NEW h \in Humans, G!AnswersRunner(h) PROVE Listed'
  <2>1. /\ UNCHANGED <<pending, call, reply, gone>>
        /\ runner' = runner \/ \E r : runner' = G!Without(runner, r)
    BY <1>7 DEF G!AnswersRunner
  <2>2. Distinct(runner')
    BY <1>1, <2>1, Removed
  <2>3. QED
    BY <1>1, <1>2, <2>1, <2>2 DEF Listed
<1>8. ASSUME NEW h \in Humans, G!AnswersGate(h) PROVE Listed'
  <2>1. /\ UNCHANGED <<runner, call, gone>>
        /\ \/ UNCHANGED <<pending, reply>>
           \/ \E c : /\ pending' = G!Without(pending, c)
                      /\ reply' = [reply EXCEPT ![c] = human[h].choice]
    BY <1>8 DEF G!AnswersGate
  <2>2. CASE UNCHANGED <<pending, reply>>
    BY <1>1, <1>2, <2>1, <2>2 DEF Listed
  <2>3. ASSUME NEW c, pending' = G!Without(pending, c),
               reply' = [reply EXCEPT ![c] = human[h].choice]
        PROVE  Listed'
    <3>1. Distinct(pending') /\ G!In(pending') = G!In(pending) \ {c}
      BY <1>1, <2>3, Removed
    <3>2. \A d \in Calls : d # c => reply'[d] = reply[d]
      BY <1>1, <2>3
    <3>3. QED
      BY <1>1, <1>2, <2>1, <3>1, <3>2 DEF Listed
  <2>4. QED
    BY <2>1, <2>2, <2>3
<1>9. CASE G!RunnerDrops
  <2>1. runner # <<>> /\ runner' = Tail(runner) /\ UNCHANGED <<pending, call, reply, gone>>
    BY <1>9 DEF G!RunnerDrops
  <2>2. Distinct(runner')
    BY <1>1, <2>1, Popped
  <2>3. QED
    BY <1>1, <1>2, <2>1, <2>2 DEF Listed
<1>10. QED
  BY <1>3, <1>4, <1>5, <1>6, <1>7, <1>8, <1>9 DEF G!Next, G!CallSteps, G!HumanSteps

(* Each step keeps who answered what. *)
LEMMA AnsweredStep == ASSUME G!GateAssumption, GateInv, G!Next PROVE Answered'
<1>1. /\ pending \in Seq(Calls) /\ Distinct(pending)
      /\ runner \in Seq(Requests) /\ Distinct(runner)
      /\ G!In(pending) \subseteq Calls /\ G!In(runner) \subseteq Requests
      /\ call \in [Calls -> {"idle", "claimed", "waits", "expires", "answered", "returned"}]
      /\ GateTypes
      /\ \A n \in named : n.what \in Calls \cup Requests /\ n.by \in Humans
  BY ElementOfSeq DEF GateInv, GateTypes, Listed, G!In
<1>2. /\ \A n \in named : /\ n.what \notin G!In(pending) \cup G!In(runner)
                          /\ n.what \in Calls => call[n.what] \notin {"idle", "claimed"}
                          /\ human[n.by].at = "done"
      /\ \A m, n \in named : (m.what = n.what \/ m.by = n.by) => m = n
  BY DEF GateInv, Answered
<1>3. \A c \in gone : call[c] = "returned"
  BY DEF GateInv, Listed
<1>4. ASSUME NEW c \in Calls,
             \/ G!Posts(c) \/ G!WaitEnds(c) \/ G!Expires(c) \/ G!Returns(c) \/ G!HangsUp(c)
             \/ G!WaitStarts(c) \/ G!Withdraws(c)
      PROVE  Answered'
  <2>1. /\ UNCHANGED <<runner, human, named>>
        /\ \A d \in Calls : d # c => call'[d] = call[d]
        /\ call[c] \notin {"idle", "claimed"} => call'[c] \notin {"idle", "claimed"}
    BY <1>1, <1>4
    DEF G!Posts, G!WaitEnds, G!Expires, G!Returns, G!HangsUp, G!WaitStarts, G!Withdraws
  <2>2. \A n \in named : n.what \notin G!In(pending')
    <3>1. CASE pending' = pending
      BY <1>2, <3>1
    <3>2. CASE G!WaitStarts(c)
      <4>1. call[c] = "claimed" /\ pending' = Append(pending, c)
        BY <3>2 DEF G!WaitStarts
      <4>2. c \notin G!In(pending)
        BY <1>3, <4>1 DEF GateInv, Listed, G!Waits
      <4>3. G!In(pending') = G!In(pending) \cup {c}
        BY <1>1, <4>1, <4>2, Pushed
      <4>4. QED
        BY <1>2, <4>1, <4>3
    <3>3. CASE pending' = G!Without(pending, c)
      <4>1. G!In(pending') \subseteq G!In(pending)
        BY <1>1, <3>3, Removed
      <4>2. QED
        BY <1>2, <4>1
    <3>4. QED
      BY <1>4, <3>1, <3>2, <3>3
      DEF G!Posts, G!WaitEnds, G!Expires, G!Returns, G!HangsUp, G!Withdraws
  <2>3. QED
    BY <1>1, <1>2, <2>1, <2>2 DEF Answered
<1>5. ASSUME NEW h \in Humans, G!Fetches(h) \/ G!Permission(h) PROVE Answered'
  <2>1. /\ UNCHANGED <<pending, runner, call, named>>
        /\ human[h].at # "done"
    BY <1>5 DEF G!Fetches, G!Permission
  <2>2. \A g \in Humans : g # h => human'[g] = human[g]
    BY <1>1, <1>5 DEF GateTypes, G!Fetches, G!Permission, G!Becomes
  <2>3. \A n \in named : n.by # h
    BY <1>2, <2>1
  <2>4. QED
    BY <1>1, <1>2, <2>1, <2>2, <2>3 DEF Answered
<1>6. ASSUME NEW h \in Humans, NEW x, human[h].at # "done", UNCHANGED call,
             G!Becomes(h, "done", None), G!Accepted(h, x),
             G!In(pending') \cup G!In(runner') = (G!In(pending) \cup G!In(runner)) \ {x},
             x \in G!In(pending) \cup G!In(runner),
             x \in Calls => call[x] \notin {"idle", "claimed"}
      PROVE  Answered'
  <2>1. PICK e : /\ e.what = x /\ e.by = h /\ named' = named \cup {e}
    BY <1>6 DEF G!Accepted
  <2>2. \A n \in named : n.what # x /\ n.by # h
    BY <1>2, <1>6
  <2>3. human'[h].at = "done" /\ \A g \in Humans : g # h => human'[g] = human[g]
    BY <1>1, <1>6, Became
  <2>4. QED
    BY <1>1, <1>2, <1>6, <2>1, <2>2, <2>3 DEF Answered
<1>7. ASSUME NEW h \in Humans, NEW at, NEW id, human[h].at # "done", G!Becomes(h, at, id),
             UNCHANGED <<call, pending, runner, named>>
      PROVE  Answered'
  <2>1. \A g \in Humans : g # h => human'[g] = human[g]
    BY <1>1, <1>7, Became
  <2>2. \A n \in named : n.by # h
    BY <1>2, <1>7
  <2>3. QED
    BY <1>1, <1>2, <1>7, <2>1, <2>2 DEF Answered
<1>8. ASSUME NEW h \in Humans, G!AnswersRunner(h) PROVE Answered'
  <2>1. /\ human[h].at = "runner" /\ UNCHANGED <<call, pending>>
        /\ \/ /\ human[h].meant \in G!In(runner)
              /\ runner' = G!Without(runner, human[h].meant)
              /\ G!Becomes(h, "done", None) /\ G!Accepted(h, human[h].meant)
           \/ G!Becomes(h, "gate", None) /\ UNCHANGED <<runner, named>>
    BY <1>8, Zenon DEF G!AnswersRunner
  <2>2. PICK r : r = human[h].meant
    OBVIOUS
  <2>3. CASE r \in G!In(runner) /\ runner' = G!Without(runner, r)
    <3>1. r \in Requests /\ r \notin Calls
      BY <1>1, <2>3 DEF G!GateAssumption
    <3>2. G!In(runner') = G!In(runner) \ {r} /\ G!In(pending') = G!In(pending) \ {r}
      BY <1>1, <2>1, <2>3, <3>1, Removed
    <3>3. QED
      BY <1>6, <1>7, <2>1, <2>2, <2>3, <3>1, <3>2
  <2>4. QED
    BY <1>7, <2>1, <2>2, <2>3
<1>9. ASSUME NEW h \in Humans, G!AnswersGate(h) PROVE Answered'
  <2>1. /\ human[h].at = "gate" /\ UNCHANGED <<call, runner>>
        /\ \/ /\ G!Taken(h) # None
              /\ pending' = G!Without(pending, G!Taken(h))
              /\ G!Becomes(h, "done", None) /\ G!Accepted(h, G!Taken(h))
           \/ G!Becomes(h, "refused", None) /\ UNCHANGED <<pending, named>>
    BY <1>9, Zenon DEF G!AnswersGate
  <2>2. PICK c : c = G!Taken(h)
    OBVIOUS
  <2>3. CASE c # None /\ pending' = G!Without(pending, c)
    <3>1. c \in G!In(pending) /\ c \in Calls /\ c \notin Requests
      BY <2>2, <2>3, TakenIsListed DEF G!GateAssumption
    <3>2. G!In(pending') = G!In(pending) \ {c} /\ G!In(runner') = G!In(runner) \ {c}
      BY <1>1, <2>1, <2>3, <3>1, Removed
    <3>3. call[c] \notin {"idle", "claimed"}
      BY <1>3, <3>1 DEF GateInv, Listed, G!Waits
    <3>4. QED
      BY <1>6, <1>7, <2>1, <2>2, <2>3, <3>1, <3>2, <3>3
  <2>4. QED
    BY <1>7, <2>1, <2>2, <2>3
<1>10. CASE G!RunnerDrops
  <2>1. runner # <<>> /\ runner' = Tail(runner) /\ UNCHANGED <<pending, call, human, named>>
    BY <1>10 DEF G!RunnerDrops
  <2>2. G!In(runner') \subseteq G!In(runner)
    BY <1>1, <2>1, Popped
  <2>3. QED
    BY <1>1, <1>2, <2>1, <2>2 DEF Answered
<1>11. QED
  BY <1>4, <1>5, <1>8, <1>9, <1>10 DEF G!Next, G!CallSteps, G!HumanSteps

(* Each step answers a call with what was meant for it. *)
LEMMA MeantStep == ASSUME G!GateAssumption, GateInv, G!Next PROVE Meant'
<1>1. /\ reply \in [Calls -> Choices \cup {None}]
      /\ outcome \in [Calls -> {None, "allow", "deny", "timeout"}]
      /\ \A c \in Calls : reply[c] # None
           => \E n \in named : n.what = c /\ n.choice = reply[c] /\ n.id \in {None, c}
      /\ \A c \in Calls : outcome[c] \in Choices => outcome[c] = reply[c]
      /\ None \notin Choices
  BY DEF GateInv, GateTypes, Meant, G!GateAssumption, Choices
<1>2. ASSUME UNCHANGED <<reply, outcome>>, named \subseteq named' PROVE Meant'
  BY <1>1, <1>2 DEF Meant
<1>3. ASSUME NEW c \in Calls, NEW x, x = reply[c] \/ x = "timeout",
             outcome' = [outcome EXCEPT ![c] = x], UNCHANGED <<reply, named>>
      PROVE  Meant'
  BY <1>1, <1>3 DEF Meant, Choices
<1>4. ASSUME NEW c \in Calls,
             \/ G!Posts(c) \/ G!WaitEnds(c) \/ G!Expires(c) \/ G!Returns(c) \/ G!HangsUp(c)
             \/ G!WaitStarts(c) \/ G!Withdraws(c)
      PROVE  Meant'
  BY <1>2, <1>3, <1>4
  DEF G!Posts, G!WaitEnds, G!Expires, G!Returns, G!HangsUp, G!WaitStarts, G!Withdraws
<1>5. ASSUME NEW h \in Humans, G!Fetches(h) \/ G!Permission(h) \/ G!AnswersRunner(h) PROVE Meant'
  BY <1>2, <1>5 DEF G!Fetches, G!Permission, G!AnswersRunner, G!Accepted
<1>6. ASSUME NEW h \in Humans, G!AnswersGate(h) PROVE Meant'
  <2>1. \/ /\ G!Taken(h) # None /\ reply' = [reply EXCEPT ![G!Taken(h)] = human[h].choice]
           /\ G!Accepted(h, G!Taken(h)) /\ UNCHANGED outcome
        \/ UNCHANGED <<reply, outcome, named>>
    BY <1>6, Zenon DEF G!AnswersGate
  <2>2. PICK c : c = G!Taken(h)
    OBVIOUS
  <2>3. CASE UNCHANGED <<reply, outcome, named>>
    BY <1>2, <2>3
  <2>4. CASE c # None /\ reply' = [reply EXCEPT ![c] = human[h].choice] /\ UNCHANGED outcome
             /\ G!Accepted(h, c)
    <3>1. c \in Calls /\ c \in G!In(pending) /\ human[h].id \in {None, c}
      BY <2>2, <2>4, TakenIsListed
    <3>2. reply[c] = None
      BY <3>1 DEF GateInv, Listed
    <3>3. outcome[c] \notin Choices
      BY <1>1, <3>1, <3>2
    <3>4. reply'[c] = human[h].choice /\ \A d \in Calls : d # c => reply'[d] = reply[d]
      BY <1>1, <2>4, <3>1
    <3>5. PICK e : /\ e.what = c /\ e.choice = human[h].choice /\ e.id = human[h].id
                   /\ named' = named \cup {e}
      BY <2>4 DEF G!Accepted
    <3>6. QED
      BY <1>1, <2>4, <3>1, <3>3, <3>4, <3>5 DEF Meant
  <2>5. QED
    BY <2>1, <2>2, <2>3, <2>4
<1>7. CASE G!RunnerDrops
  BY <1>2, <1>7 DEF G!RunnerDrops
<1>8. QED
  BY <1>4, <1>5, <1>6, <1>7 DEF G!Next, G!CallSteps, G!HumanSteps

(* A gated tool call runs only if a human allowed it, and meant it, however
   answers, timeouts and the runner's own requests interleave (gate.rs: answer,
   wait); and what clients are shown as pending can be answered.              *)
THEOREM GateHeld == ASSUME G!GateAssumption PROVE MCSpec => []GateIsHeld
<1>1. MCInit => GateInv
  <2>1. ASSUME MCInit PROVE G!Init
    BY <2>1 DEF MCInit
  <2>2. QED
    BY <2>1, GateStart
<1>2. GateInv /\ [MCNext]_<<part, lifecycle, gate, marks, actions>> => GateInv'
  <2>1. ASSUME GateInv, UNCHANGED gate PROVE GateInv'
    BY <2>1 DEF gate, GateInv, GateTypes, Listed, Answered, Meant, Distinct, G!In
  <2>2. ASSUME GateInv, G!Next PROVE GateInv'
    BY <2>2, GateTypesStep, ListedStep, AnsweredStep, MeantStep DEF GateInv
  <2>3. ASSUME GateInv, MCNext PROVE GateInv'
    BY <2>1, <2>2, <2>3 DEF MCNext
  <2>4. QED
    BY <2>1, <2>3
<1>3. GateInv => GateIsHeld
  <2>1. ASSUME GateInv PROVE G!OnlyTheAllowed /\ G!ListedCanBeAnswered
    <3>1. ASSUME NEW c \in Calls, outcome[c] \in {"allow", "deny"}
          PROVE  \E n \in named : n.what = c /\ n.choice = outcome[c] /\ n.id \in {None, c}
      BY <2>1, <3>1 DEF GateInv, Meant, Choices, G!GateAssumption
    <3>2. \A m, n \in named : (m.what = n.what \/ m.by = n.by) => m = n
      BY <2>1 DEF GateInv, Answered
    <3>3. G!ListedCanBeAnswered
      BY <2>1 DEF GateInv, Listed, G!ListedCanBeAnswered
    <3>4. QED
      BY <3>1, <3>2, <3>3 DEF G!OnlyTheAllowed
  <2>2. QED
    BY <2>1 DEF GateIsHeld
<1>4. QED
  BY <1>1, <1>2, <1>3, PTL DEF MCSpec
=============================================================================
