--------------------------- MODULE ExchangeProofs ---------------------------
(***************************************************************************)
(* What a node keeps of its peers, for any number of peers, ticks, changes  *)
(* of the membership and failures of the network.                           *)
(***************************************************************************)
EXTENDS Exchange, SequenceTheorems, TLAPS

(* A node that is in no swarm, and was not in one since its daemon started,
   follows nobody; that is why what a task stores without asking who it is from
   (Stored) never counts.                                                    *)
OutsideIsQuiet ==
  ~joined /\ ~moved =>
    /\ wanted = {}
    /\ \A p \in Peers : task[p] = "none" /\ late[p] = {}

KeptAreActive == ~moved => \A p \in Peers : Held(p) => IsActive(p)

ExchangeInv == OutsideIsQuiet /\ KeptAreActive /\ StaleIsDated

-----------------------------------------------------------------------------
(* What the assumption says of the bounds. *)
LEMMA ExchangeBounds ==
  ASSUME ExchangeAssumption
  PROVE  /\ TTL \in Nat \ {0} /\ MaxClock \in Nat \ {0} /\ MaxVersion \in Nat \ {0}
         /\ MaxChanges \in Nat \ {0} /\ MaxDowns \in Nat \ {0} /\ MaxWire \in Nat \ {0}
BY DEF ExchangeAssumption

(* Absent and Default are no entry and an empty one. *)
LEMMA EmptyEntries ==
  ASSUME ExchangeAssumption
  PROVE  /\ Default \in Peer /\ Absent \notin Peer
         /\ Default.snapshot = 0 /\ ~Default.reachable
<1>1. MaxVersion \in Nat /\ MaxClock \in Nat
  BY ExchangeBounds
<1>2. Absent.snapshot = MaxVersion + 1 /\ MaxVersion + 1 \notin 0..MaxVersion
  BY <1>1 DEF Absent
<1>3. Absent \notin Peer
  BY <1>2 DEF Peer
<1>4. 0 \in 0..MaxVersion /\ 0 \in 0..MaxClock
  BY <1>1
<1>5. QED
  BY <1>3, <1>4 DEF Peer, Default, Never

(* A mark leaves the other entries and the snapshot, and dates what it marks
   as unreachable.                                                           *)
LEMMA MarkEffect ==
  ASSUME ExchangeAssumption, TypeOK, NEW p \in Peers, NEW r \in BOOLEAN
  PROVE  /\ Mark(store, p, r) \in [Peers -> Peer \cup {Absent}]
         /\ \A q \in Peers \ {p} : Mark(store, p, r)[q] = store[q]
         /\ \/ Mark(store, p, r) = store
            \/ /\ Mark(store, p, r)[p].snapshot = IF store[p] = Absent THEN 0 ELSE store[p].snapshot
               /\ Mark(store, p, r)[p].reachable = r
               /\ ~r => Mark(store, p, r)[p].since # Never
<1> DEFINE peer == IF store[p] = Absent THEN Default ELSE store[p]
           marked == [peer EXCEPT !.reachable = r, !.since = IF r THEN Never ELSE clock]
<1>1. peer \in Peer /\ peer.snapshot = IF store[p] = Absent THEN 0 ELSE store[p].snapshot
  BY EmptyEntries DEF TypeOK
<1>2. clock \in Nat /\ clock # Never /\ Never \in 0..MaxClock /\ clock \in 0..MaxClock
  BY ExchangeBounds DEF TypeOK, Never
<1> HIDE DEF peer
<1>3. /\ marked \in Peer /\ marked.snapshot = peer.snapshot /\ marked.reachable = r
      /\ ~r => marked.since # Never
  BY <1>1, <1>2 DEF Peer
<1>4. Mark(store, p, r) = store \/ Mark(store, p, r) = [store EXCEPT ![p] = marked]
  BY DEF Mark, peer
<1> HIDE DEF marked
<1>5. QED
  BY <1>1, <1>3, <1>4 DEF TypeOK

(* What arrives from a peer that counts is kept as it is; nothing else is. *)
LEMMA StoredEffect ==
  ASSUME ExchangeAssumption, TypeOK, NEW p \in Peers, NEW v \in 0..MaxVersion
  PROVE  /\ Stored(p, v) \in [Peers -> Peer \cup {Absent}]
         /\ \A q \in Peers \ {p} : Stored(p, v)[q] = store[q]
         /\ \/ joined /\ ~IsActive(p) /\ Stored(p, v) = store
            \/ (~joined \/ IsActive(p)) /\ Stored(p, v)[p].reachable
<1>1. Never \in 0..MaxClock
  BY ExchangeBounds DEF Never
<1>2. store[p].incompatible \in BOOLEAN
  <2>1. store[p] \in Peer \/ store[p] = Absent
    BY DEF TypeOK
  <2>2. Absent.incompatible = FALSE
    BY DEF Absent
  <2>3. QED
    BY <2>1, <2>2 DEF Peer
<1>3. QED
  BY <1>1, <1>2 DEF Stored, TypeOK, Peer

(* Of a stream that has something to say. *)
LEMMA StreamSays ==
  ASSUME ExchangeAssumption, TypeOK, NEW p \in Peers, wire[p] \notin {Cut, <<>>}
  PROVE  /\ Head(wire[p]) \in Versions /\ Head(wire[p]) \in 0..MaxVersion
         /\ Tail(wire[p]) \in Seq(Versions)
<1>1. wire[p] \in Seq(Versions) /\ wire[p] # <<>>
  BY DEF TypeOK
<1>2. Head(wire[p]) \in Versions /\ Tail(wire[p]) \in Seq(Versions)
  BY <1>1
<1>3. QED
  BY <1>2, ExchangeBounds DEF Versions

(* A stream that says one more thing, or the newest instead of its last. *)
LEMMA StreamGrows ==
  ASSUME ExchangeAssumption, TypeOK, NEW p \in Peers, NEW v \in Versions
  PROVE  (IF wire[p] = Cut THEN wire[p]
          ELSE IF Len(wire[p]) < MaxWire THEN Append(wire[p], v)
          ELSE [wire[p] EXCEPT ![Len(wire[p])] = v]) \in Seq(Versions) \cup {Cut}
<1>1. CASE wire[p] = Cut
  BY <1>1
<1>2. CASE wire[p] # Cut
  <2>1. wire[p] \in Seq(Versions)
    BY <1>2 DEF TypeOK
  <2>2. Append(wire[p], v) \in Seq(Versions)
    BY <2>1
  <2>3. ~(Len(wire[p]) < MaxWire) => Len(wire[p]) \in 1..Len(wire[p])
    BY <2>1, ExchangeBounds
  <2>4. ~(Len(wire[p]) < MaxWire) => [wire[p] EXCEPT ![Len(wire[p])] = v] \in Seq(Versions)
    BY <2>1, <2>3, ExceptSeq
  <2>5. QED
    BY <1>2, <2>2, <2>4
<1>3. QED
  BY <1>1, <1>2

-----------------------------------------------------------------------------
(* The variables have their types at first ... *)
LEMMA ExchangeTypesStart == ASSUME ExchangeAssumption, Init PROVE TypeOK
<1>1. 1 \in Versions /\ 1 \in 1..MaxClock /\ 0 \in 0..MaxChanges /\ 0 \in 0..MaxDowns
  BY ExchangeBounds DEF Versions
<1>2. version \in [Peers -> Versions] /\ late \in [Peers -> SUBSET (0..MaxVersion)]
  BY <1>1 DEF Init
<1>3. /\ list \in [Peers -> {"none", "active", "revoked"}]
      /\ store \in [Peers -> Peer \cup {Absent}]
      /\ task \in [Peers -> {"none", "asleep", "dialing", "streaming"}]
      /\ wire \in [Peers -> Seq(Versions) \cup {Cut}]
  BY DEF Init
<1>4. QED
  BY <1>1, <1>2, <1>3 DEF Init, TypeOK

(* ... and in every step: those of a task, *)
LEMMA TaskTypes ==
  ASSUME ExchangeAssumption, TypeOK, NEW p \in Peers, Task(p) \/ LateStep(p) PROVE TypeOK'
<1> USE DEF swarm, tasks, world, history
<1>1. \A r \in BOOLEAN : Mark(store, p, r) \in [Peers -> Peer \cup {Absent}]
  BY MarkEffect
<1>2. \A v \in 0..MaxVersion : Stored(p, v) \in [Peers -> Peer \cup {Absent}]
  BY StoredEffect
<1>3. CASE Dial(p)
  BY <1>1, <1>3 DEF Dial, TypeOK
<1>4. CASE Accepted(p)
  <2>1. <<version[p]>> \in Seq(Versions)
    BY DEF TypeOK
  <2>2. QED
    BY <1>1, <1>4, <2>1 DEF Accepted, TypeOK
<1>5. CASE Refused(p)
  BY <1>1, <1>5 DEF Refused, TypeOK
<1>6. CASE Receive(p)
  <2>1. Head(wire[p]) \in 0..MaxVersion /\ Tail(wire[p]) \in Seq(Versions)
    BY <1>6, StreamSays DEF Receive
  <2>2. QED
    BY <1>2, <1>6, <2>1 DEF Receive, TypeOK
<1>7. CASE StreamEnds(p)
  BY <1>1, <1>7 DEF StreamEnds, TypeOK
<1>8. CASE LateStep(p)
  <2>1. late[p] # {} /\ late[p] \subseteq 0..MaxVersion
    BY <1>8 DEF LateStep, TypeOK
  <2>2. (CHOOSE v \in late[p] : TRUE) \in 0..MaxVersion
    BY <2>1
  <2>3. store' \in [Peers -> Peer \cup {Absent}]
    BY <1>1, <1>2, <1>8, <2>2 DEF LateStep
  <2>4. QED
    BY <1>8, <2>3 DEF LateStep, TypeOK
<1>9. QED
  BY <1>3, <1>4, <1>5, <1>6, <1>7, <1>8 DEF Task

(* those of the supervisor, *)
LEMMA TickTypes ==
  ASSUME ExchangeAssumption, TypeOK, TickReads \/ TickActs \/ Tick PROVE TypeOK'
<1> USE DEF swarm, tasks, world, history
<1>1. CASE TickReads
  BY <1>1 DEF TickReads, Expire, Wanted, TypeOK
<1>2. CASE TickActs
  <2> DEFINE gone == {p \in Peers \ wanted : task[p] # "none"}
  <2>1. store' = [p \in Peers |-> IF p \in gone THEN Mark(store, p, FALSE)[p] ELSE store[p]]
    BY <1>2 DEF TickActs
  <2>2. \A p \in Peers : Mark(store, p, FALSE)[p] \in Peer \cup {Absent}
    BY MarkEffect
  <2>3. store' \in [Peers -> Peer \cup {Absent}]
    BY <2>1, <2>2 DEF TypeOK
  <2>4. late' \in [Peers -> SUBSET (0..MaxVersion)]
    <3>1. PICK left \in [Peers -> SUBSET (0..MaxVersion)] :
            late' = [p \in Peers |-> IF left[p] = {} THEN late[p] ELSE left[p]]
      BY <1>2 DEF TickActs
    <3>2. QED
      BY <3>1 DEF TypeOK
  <2>5. task' \in [Peers -> {"none", "asleep", "dialing", "streaming"}]
    BY <1>2 DEF TickActs, TypeOK
  <2>6. wire' \in [Peers -> Seq(Versions) \cup {Cut}]
    BY <1>2 DEF TickActs, TypeOK
  <2>7. ticking' = FALSE /\ wanted' = {}
        /\ UNCHANGED <<swarm, clock, up, version, downs, changes, history>>
    BY <1>2 DEF TickActs
  <2>8. QED
    BY <2>3, <2>4, <2>5, <2>6, <2>7 DEF TypeOK
<1>3. CASE Tick
  <2>1. clock' \in 1..MaxClock
    BY <1>3, ExchangeBounds DEF Tick, TypeOK
  <2>2. QED
    BY <1>3, <2>1 DEF Tick, TypeOK
<1>4. QED
  BY <1>1, <1>2, <1>3

(* those of the membership *)
LEMMA ChangeTypes ==
  ASSUME ExchangeAssumption, TypeOK, NEW p \in Peers,
         Hear(p) \/ GreetTooOld(p) \/ Revoke(p) \/ Admit(p) \/ Join(p)
  PROVE  TypeOK'
<1> USE DEF swarm, tasks, world, history
<1>1. Change => changes' \in 0..MaxChanges
  BY ExchangeBounds DEF Change, TypeOK
<1>2. CASE Hear(p)
  <2>1. PICK new \in Lists, address \in BOOLEAN, old \in BOOLEAN :
          /\ IF new = list THEN UNCHANGED changes ELSE Change
          /\ list' = new
          /\ Revive(new)
          /\ LET kept == learned \ {q \in Peers : new[q] = "revoked" /\ list[q] # "revoked"}
                 held == Drop(new)
                 peer == IF held[p] = Absent THEN Default ELSE held[p]
             IN  /\ learned' = IF new[p] = "active" /\ address THEN kept \cup {p} ELSE kept
                 /\ store' = IF new[p] # "active" THEN held
                             ELSE [held EXCEPT ![p] = [peer EXCEPT !.incompatible = old]]
    BY <1>2 DEF Hear
  <2> DEFINE held == Drop(new)
             peer == IF held[p] = Absent THEN Default ELSE held[p]
  <2>2. held \in [Peers -> Peer \cup {Absent}]
    BY DEF Drop, TypeOK
  <2>3. peer \in Peer
    BY <2>2, EmptyEntries
  <2> HIDE DEF held
  <2>4. [peer EXCEPT !.incompatible = old] \in Peer
    <3> HIDE DEF peer
    <3>1. QED  BY <2>3 DEF Peer
  <2>5. store' \in [Peers -> Peer \cup {Absent}]
    BY <2>1, <2>2, <2>4 DEF held
  <2>6. changes' \in 0..MaxChanges
    BY <1>1, <2>1 DEF TypeOK
  <2>7. learned' \subseteq Peers
    BY <2>1 DEF TypeOK
  <2>8. revived' \subseteq Peers
    BY <2>1 DEF Revive, TypeOK
  <2>9. list' \in [Peers -> {"none", "active", "revoked"}]
    BY <2>1 DEF Lists
  <2>10. UNCHANGED <<joined, tasks, clock, world, moved>>
    BY <1>2 DEF Hear
  <2>11. QED
    BY <2>5, <2>6, <2>7, <2>8, <2>9, <2>10 DEF TypeOK
<1>3. CASE GreetTooOld(p)
  <2> DEFINE peer == IF store[p] = Absent THEN Default ELSE store[p]
  <2>1. peer \in Peer
    BY EmptyEntries DEF TypeOK
  <2>2. store' = [store EXCEPT ![p] = [peer EXCEPT !.incompatible = TRUE]]
    BY <1>3 DEF GreetTooOld
  <2> HIDE DEF peer
  <2>3. [peer EXCEPT !.incompatible = TRUE] \in Peer
    BY <2>1 DEF Peer
  <2>4. UNCHANGED <<swarm, tasks, clock, world, changes, history>>
    BY <1>3 DEF GreetTooOld
  <2>5. QED
    BY <2>2, <2>3, <2>4 DEF TypeOK
<1>4. CASE Revoke(p)
  BY <1>1, <1>4 DEF Revoke, TypeOK
<1>5. CASE Admit(p)
  BY <1>1, <1>5 DEF Admit, Revive, TypeOK
<1>6. CASE Join(p)
  BY <1>1, <1>6 DEF Join, Revive, Lists, TypeOK
<1>7. QED
  BY <1>2, <1>3, <1>4, <1>5, <1>6

(* those of a node that leaves or starts again, *)
LEMMA LeaveTypes ==
  ASSUME ExchangeAssumption, TypeOK, Leave \/ Restart PROVE TypeOK'
<1> USE DEF swarm, tasks, world, history
<1>1. Change => changes' \in 0..MaxChanges
  BY ExchangeBounds DEF Change, TypeOK
<1>2. CASE Leave
  BY <1>1, <1>2 DEF Leave, TypeOK
<1>3. CASE Restart
  BY <1>1, <1>3 DEF Restart, TypeOK
<1>4. QED
  BY <1>2, <1>3

(* and those of the peers. *)
LEMMA PeerTypes ==
  ASSUME ExchangeAssumption, TypeOK, NEW p \in Peers, PeerChanges(p) \/ PeerDown(p) \/ PeerUp(p)
  PROVE  TypeOK'
<1> USE DEF swarm, tasks, world, history
<1>1. CASE PeerChanges(p)
  <2>1. version[p] + 1 \in Versions
    <3>1. version[p] \in Versions /\ version[p] < MaxVersion
      BY <1>1 DEF PeerChanges, TypeOK
    <3>2. QED
      BY <3>1, ExchangeBounds DEF Versions
  <2>2. wire' \in [Peers -> Seq(Versions) \cup {Cut}]
    <3> DEFINE w == IF wire[p] = Cut THEN wire[p]
                    ELSE IF Len(wire[p]) < MaxWire THEN Append(wire[p], version[p] + 1)
                    ELSE [wire[p] EXCEPT ![Len(wire[p])] = version[p] + 1]
    <3>1. w \in Seq(Versions) \cup {Cut}
      BY <2>1, StreamGrows
    <3>2. wire' = [wire EXCEPT ![p] = w]
      BY <1>1 DEF PeerChanges
    <3> HIDE DEF w
    <3>3. QED
      BY <3>1, <3>2 DEF TypeOK
  <2>3. version' \in [Peers -> Versions]
    BY <1>1, <2>1 DEF PeerChanges, TypeOK
  <2>4. QED
    BY <1>1, <2>2, <2>3 DEF PeerChanges, TypeOK
<1>2. CASE PeerDown(p)
  <2>1. downs' \in 0..MaxDowns
    BY <1>2, ExchangeBounds DEF PeerDown, TypeOK
  <2>2. QED
    BY <1>2, <2>1 DEF PeerDown, TypeOK
<1>3. CASE PeerUp(p)
  BY <1>3 DEF PeerUp, TypeOK
<1>4. QED
  BY <1>1, <1>2, <1>3

(* So each step does. *)
LEMMA ExchangeTypesStep == ASSUME ExchangeAssumption, TypeOK, [Next]_vars PROVE TypeOK'
<1>1. CASE UNCHANGED vars
  BY <1>1 DEF vars, swarm, tasks, world, history, TypeOK
<1>2. QED
  BY <1>1, TaskTypes, TickTypes, ChangeTypes, LeaveTypes, PeerTypes DEF Next

-----------------------------------------------------------------------------
(* What an entry of a store must be if it shows a snapshot. *)
Dated(peer) == ~peer.reachable => peer.since # Never
Shows(peer) == peer # Absent /\ peer.snapshot # 0

(* A mark shows nothing new, and dates what it makes stale. *)
LEMMA MarkShows ==
  ASSUME ExchangeAssumption, TypeOK, StaleIsDated, NEW p \in Peers, NEW r \in BOOLEAN,
         NEW q \in Peers, Shows(Mark(store, p, r)[q])
  PROVE  Held(q) /\ Dated(Mark(store, p, r)[q])
<1> DEFINE s == Mark(store, p, r)
<1>1. /\ \A i \in Peers \ {p} : s[i] = store[i]
      /\ \/ s = store
         \/ /\ s[p].snapshot = IF store[p] = Absent THEN 0 ELSE store[p].snapshot
            /\ s[p].reachable = r
            /\ ~r => s[p].since # Never
  BY MarkEffect
<1>2. Shows(s[q])
  OBVIOUS
<1> HIDE DEF s
<1>3. Held(q) /\ Dated(s[q])
  <2>1. CASE s[q] = store[q]
    BY <1>2, <2>1 DEF Shows, Dated, Held, StaleIsDated
  <2>2. CASE q = p /\ s # store
    BY <1>1, <1>2, <2>2 DEF Shows, Dated, Held
  <2>3. QED
    BY <1>1, <2>1, <2>2
<1>4. QED
  BY <1>3 DEF s

(* What is stored is from a member, or from anybody outside the swarm. *)
LEMMA StoredShows ==
  ASSUME ExchangeAssumption, TypeOK, StaleIsDated, NEW p \in Peers, NEW v \in 0..MaxVersion,
         NEW q \in Peers, Shows(Stored(p, v)[q])
  PROVE  /\ Held(q) \/ ~joined \/ IsActive(q)
         /\ Dated(Stored(p, v)[q])
<1> DEFINE s == Stored(p, v)
<1>1. /\ \A i \in Peers \ {p} : s[i] = store[i]
      /\ \/ s = store
         \/ (~joined \/ IsActive(p)) /\ s[p].reachable
  BY StoredEffect
<1>2. Shows(s[q])
  OBVIOUS
<1> HIDE DEF s
<1>3. (Held(q) \/ ~joined \/ IsActive(q)) /\ Dated(s[q])
  <2>1. CASE s[q] = store[q]
    BY <1>2, <2>1 DEF Shows, Dated, Held, StaleIsDated
  <2>2. CASE q = p /\ s # store
    BY <1>1, <2>2 DEF Dated
  <2>3. QED
    BY <1>1, <2>1, <2>2
<1>4. QED
  BY <1>3 DEF s

(* A step that changes nothing but the store and the tasks, and shows only what
   was shown or comes from a member, keeps the two properties.               *)
LEMMA ShowsKeep ==
  ASSUME KeptAreActive, UNCHANGED <<joined, list, moved>>,
         \A q \in Peers : Shows(store'[q]) =>
           /\ Held(q) \/ (~joined /\ moved) \/ IsActive(q)
           /\ Dated(store'[q])
  PROVE  KeptAreActive' /\ StaleIsDated'
BY DEF KeptAreActive, StaleIsDated, Held, Shows, Dated, IsActive

(* A task and its late end keep the invariant: where nobody is known to be
   revoked nobody is followed.                                               *)
LEMMA TaskKeeps ==
  ASSUME ExchangeAssumption, TypeOK, ExchangeInv, NEW p \in Peers, Task(p) \/ LateStep(p)
  PROVE  ExchangeInv'
<1> USE DEF ExchangeInv, swarm, tasks, world, history
<1>1. UNCHANGED <<joined, list, moved, wanted>>
  BY DEF Task, Dial, Accepted, Refused, Receive, StreamEnds, LateStep
<1>2. joined \/ moved
  BY DEF Task, Dial, Accepted, Refused, Receive, StreamEnds, LateStep, OutsideIsQuiet
<1>3. ASSUME NEW r \in BOOLEAN, store' = Mark(store, p, r) PROVE KeptAreActive' /\ StaleIsDated'
  BY <1>1, <1>3, MarkShows, ShowsKeep
<1>4. ASSUME NEW v \in 0..MaxVersion, store' = Stored(p, v) PROVE KeptAreActive' /\ StaleIsDated'
  BY <1>1, <1>2, <1>4, StoredShows, ShowsKeep
<1>5. ASSUME UNCHANGED store PROVE KeptAreActive' /\ StaleIsDated'
  BY <1>1, <1>5 DEF KeptAreActive, StaleIsDated, Held, IsActive
<1>6. KeptAreActive' /\ StaleIsDated'
  <2>1. CASE Dial(p)
    BY <2>1, <1>3, <1>5 DEF Dial
  <2>2. CASE Accepted(p)
    BY <2>2, <1>3 DEF Accepted
  <2>3. CASE Refused(p)
    BY <2>3, <1>3 DEF Refused
  <2>4. CASE Receive(p)
    BY <2>4, <1>4, StreamSays DEF Receive
  <2>5. CASE StreamEnds(p)
    BY <2>5, <1>3, <1>5 DEF StreamEnds
  <2>6. CASE LateStep(p)
    <3>1. (CHOOSE v \in late[p] : TRUE) \in 0..MaxVersion
      BY <2>6 DEF LateStep, TypeOK
    <3>2. QED
      BY <2>6, <1>3, <1>4, <3>1 DEF LateStep
  <2>7. QED
    BY <2>1, <2>2, <2>3, <2>4, <2>5, <2>6 DEF Task
<1>7. OutsideIsQuiet'
  BY <1>1, <1>2 DEF OutsideIsQuiet
<1>8. QED
  BY <1>6, <1>7

(* The supervisor drops entries and marks those it no longer follows. *)
LEMMA TickKeeps ==
  ASSUME ExchangeAssumption, TypeOK, ExchangeInv, TickReads \/ TickActs \/ Tick
  PROVE  ExchangeInv'
<1> USE DEF ExchangeInv, swarm, tasks, world, history
<1>1. UNCHANGED <<joined, list, moved>>
  BY DEF TickReads, TickActs, Tick
<1>2. CASE TickReads
  <2>1. OutsideIsQuiet'
    BY <1>1, <1>2 DEF TickReads, OutsideIsQuiet, Wanted, IsActive
  <2>2. \A q \in Peers : Shows(store'[q]) => Held(q) /\ Dated(store'[q])
    BY <1>2 DEF TickReads, Expire, Shows, Dated, Held, StaleIsDated
  <2>3. QED
    BY <1>1, <2>1, <2>2, ShowsKeep
<1>3. CASE TickActs
  <2> DEFINE gone == {p \in Peers \ wanted : task[p] # "none"}
  <2>1. OutsideIsQuiet'
    <3> SUFFICES ASSUME ~joined, ~moved
                 PROVE  wanted' = {} /\ \A p \in Peers : task'[p] = "none" /\ late'[p] = {}
      BY <1>1 DEF OutsideIsQuiet
    <3>1. wanted = {} /\ gone = {} /\ \A p \in Peers : task[p] = "none" /\ late[p] = {}
      BY DEF OutsideIsQuiet
    <3>2. PICK left \in [Peers -> SUBSET (0..MaxVersion)] :
            /\ \A p \in Peers : IF p \in gone THEN left[p] \in Unfinished(p) ELSE left[p] = {}
            /\ late' = [p \in Peers |-> IF left[p] = {} THEN late[p] ELSE left[p]]
      BY <1>3 DEF TickActs
    <3>3. QED
      BY <1>3, <3>1, <3>2 DEF TickActs
  <2>2. store' = [q \in Peers |-> IF q \in gone THEN Mark(store, q, FALSE)[q] ELSE store[q]]
    BY <1>3 DEF TickActs
  <2>3. \A q \in Peers : Shows(Mark(store, q, FALSE)[q]) => Held(q) /\ Dated(Mark(store, q, FALSE)[q])
    BY MarkShows
  <2>4. \A q \in Peers : Shows(store[q]) => Held(q) /\ Dated(store[q])
    BY DEF Shows, Dated, Held, StaleIsDated
  <2>5. \A q \in Peers : Shows(store'[q]) => Held(q) /\ Dated(store'[q])
    BY <2>2, <2>3, <2>4
  <2>6. QED
    BY <1>1, <2>1, <2>5, ShowsKeep
<1>4. CASE Tick
  BY <1>4 DEF Tick, OutsideIsQuiet, KeptAreActive, StaleIsDated, Held, IsActive
<1>5. QED
  BY <1>2, <1>3, <1>4

(* A hello may revoke whom it names, and leaves an empty entry for its sender. *)
LEMMA HearKeeps ==
  ASSUME ExchangeAssumption, TypeOK, ExchangeInv, NEW p \in Peers, Hear(p)
  PROVE  ExchangeInv'
<1> USE DEF ExchangeInv, swarm, tasks, world, history
<1>1. PICK new \in Lists, old \in BOOLEAN :
        /\ \A q \in Peers : new[q] = "none" => list[q] = "none"
        /\ list' = new
        /\ LET held == Drop(new)
               peer == IF held[p] = Absent THEN Default ELSE held[p]
           IN  store' = IF new[p] # "active" THEN held
                        ELSE [held EXCEPT ![p] = [peer EXCEPT !.incompatible = old]]
  BY DEF Hear
<1>2. joined /\ UNCHANGED <<joined, tasks, moved>>
  BY DEF Hear
<1> DEFINE held == Drop(new)
           peer == IF held[p] = Absent THEN Default ELSE held[p]
           noted == [peer EXCEPT !.incompatible = old]
<1>3. held \in [Peers -> Peer \cup {Absent}]
      /\ \A q \in Peers : held[q] = store[q] \/ held[q] = Absent
  BY DEF Drop, TypeOK
<1>4. \A q \in Peers : new[q] = "revoked" /\ list[q] # "revoked" => held[q] = Absent
  BY DEF Drop
<1>5. /\ peer \in Peer /\ peer.snapshot = IF held[p] = Absent THEN 0 ELSE held[p].snapshot
      /\ held[p] # Absent => peer = held[p]
  BY <1>3, EmptyEntries
<1> HIDE DEF held, peer
<1>6. /\ noted.snapshot = peer.snapshot /\ noted.reachable = peer.reachable
      /\ noted.since = peer.since
  BY <1>5 DEF Peer
<1> HIDE DEF noted
<1>7. store' = held \/ store' = [held EXCEPT ![p] = noted]
  BY <1>1 DEF held, peer, noted
<1>8. \A q \in Peers : Shows(store'[q]) =>
        /\ Held(q) /\ held[q] # Absent
        /\ Dated(store'[q])
  BY <1>3, <1>5, <1>6, <1>7 DEF Shows, Dated, Held, StaleIsDated
<1>9. StaleIsDated'
  BY <1>8 DEF StaleIsDated, Shows, Dated, Held
<1>10. KeptAreActive'
  <2> SUFFICES ASSUME ~moved, NEW q \in Peers, Shows(store'[q]) PROVE IsActive(q)'
    BY <1>2 DEF KeptAreActive, Shows, Held
  <2>1. list[q] = "active" /\ new[q] \in {"active", "none", "revoked"}
    BY <1>8 DEF KeptAreActive, IsActive, Lists
  <2>2. QED
    BY <1>1, <1>2, <1>4, <1>8, <2>1 DEF IsActive
<1>11. OutsideIsQuiet'
  BY <1>2 DEF OutsideIsQuiet
<1>12. QED
  BY <1>9, <1>10, <1>11

(* The other changes of the membership, *)
LEMMA ChangeKeeps ==
  ASSUME ExchangeAssumption, TypeOK, ExchangeInv, NEW p \in Peers,
         GreetTooOld(p) \/ Revoke(p) \/ Admit(p) \/ Join(p)
  PROVE  ExchangeInv'
<1> USE DEF ExchangeInv, swarm, tasks, world, history
<1>1. CASE GreetTooOld(p)
  <2> DEFINE peer == IF store[p] = Absent THEN Default ELSE store[p]
             noted == [peer EXCEPT !.incompatible = TRUE]
  <2>1. store' = [store EXCEPT ![p] = noted]
    BY <1>1 DEF GreetTooOld
  <2>2. UNCHANGED <<swarm, tasks, moved>>
    BY <1>1 DEF GreetTooOld
  <2>3. peer \in Peer /\ peer.snapshot = (IF store[p] = Absent THEN 0 ELSE store[p].snapshot)
        /\ (store[p] # Absent => peer = store[p])
    BY EmptyEntries DEF TypeOK
  <2> HIDE DEF peer
  <2>4. /\ noted.snapshot = peer.snapshot /\ noted.reachable = peer.reachable
        /\ noted.since = peer.since
    BY <2>3 DEF Peer
  <2> HIDE DEF noted
  <2>5. \A q \in Peers : Shows(store'[q]) => Held(q) /\ Dated(store'[q])
    BY <2>1, <2>3, <2>4 DEF Shows, Dated, Held, StaleIsDated, TypeOK
  <2>6. OutsideIsQuiet'
    BY <2>2 DEF OutsideIsQuiet
  <2>7. QED
    BY <2>2, <2>5, <2>6, ShowsKeep
<1>2. CASE Revoke(p)
  BY <1>2 DEF Revoke, OutsideIsQuiet, KeptAreActive, StaleIsDated, Held, IsActive, TypeOK
<1>3. CASE Admit(p)
  BY <1>3 DEF Admit, OutsideIsQuiet, KeptAreActive, StaleIsDated, Held, IsActive, TypeOK
<1>4. CASE Join(p)
  BY <1>4 DEF Join, OutsideIsQuiet, KeptAreActive, StaleIsDated, Held
<1>5. QED
  BY <1>1, <1>2, <1>3, <1>4

(* and what a node forgets when it leaves or starts again. *)
LEMMA LeaveKeeps ==
  ASSUME ExchangeInv, Leave \/ Restart PROVE ExchangeInv'
BY DEF Leave, Restart, ExchangeInv, OutsideIsQuiet, KeptAreActive, StaleIsDated, Held

(* For any number of peers and any changes of the membership: what is shown of a
   peer goes with its revocation and stays away, streams still open, aborted
   tasks and late hellos notwithstanding, and what is shown of one that is not
   reachable has the date it is dropped by (mesh/mod.rs, store_snapshot and
   set_reachable; mesh/exchange.rs).                                         *)
THEOREM SnapshotsAreSound == ExchangeAssumption => (Spec => []SnapshotsAreDue)
<1> SUFFICES ASSUME ExchangeAssumption PROVE Spec => []SnapshotsAreDue
  OBVIOUS
<1>1. Init => TypeOK /\ ExchangeInv
  <2>1. Init => ExchangeInv
    BY DEF Init, ExchangeInv, OutsideIsQuiet, KeptAreActive, StaleIsDated, Held
  <2>2. QED
    BY <2>1, ExchangeTypesStart
<1>2. TypeOK /\ ExchangeInv /\ [Next]_vars => (TypeOK /\ ExchangeInv)'
  <2> SUFFICES ASSUME TypeOK, ExchangeInv, [Next]_vars PROVE ExchangeInv'
    BY ExchangeTypesStep
  <2>1. CASE UNCHANGED <<swarm, store, tasks, history>>
    BY <2>1 DEF swarm, tasks, history, ExchangeInv, OutsideIsQuiet, KeptAreActive, StaleIsDated,
       Held, IsActive
  <2>2. ASSUME NEW p \in Peers, PeerChanges(p) \/ PeerDown(p) \/ PeerUp(p) PROVE ExchangeInv'
    BY <2>1, <2>2 DEF PeerChanges, PeerDown, PeerUp
  <2>3. CASE UNCHANGED vars
    BY <2>1, <2>3 DEF vars
  <2>4. QED
    BY <2>2, <2>3, TaskKeeps, TickKeeps, HearKeeps, ChangeKeeps, LeaveKeeps DEF Next
<1>3. TypeOK /\ ExchangeInv => SnapshotsAreDue
  BY DEF ExchangeInv, KeptAreActive, RevokedAreGone, SnapshotsAreDue
<1>4. QED
  BY <1>1, <1>2, <1>3, PTL DEF Spec
=============================================================================
