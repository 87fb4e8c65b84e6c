------------------------------- MODULE Exchange -------------------------------
(***************************************************************************)
(* The snapshots one node keeps of its peers (mesh/exchange.rs and the peer *)
(* store of mesh/mod.rs): a supervisor that wakes every second runs one     *)
(* task per active member with a known address, the task holds an event     *)
(* stream to the peer and stores what comes, and hellos, revocations, leave *)
(* and join change the membership under them.                               *)
(*                                                                         *)
(* Abstractions.  How records win over one another is Membership's subject: *)
(* here a hello may bring any change to the list.  A snapshot is the number *)
(* of the peer's state it shows.  Twenty-four hours are TTL ticks.  A peer  *)
(* that refuses this node is one that is down.  Names, versions and ages    *)
(* are left out, so is the swarm key.                                       *)
(***************************************************************************)
EXTENDS Naturals, Sequences

CONSTANTS
  Peers,       \* the other nodes
  Addressed,   \* peers whose membership record carries an address
  TTL,         \* ticks an unreachable peer's snapshot is kept
  MaxClock,    \* bound on the ticks
  MaxVersion,  \* bound on the states of a peer's roster
  MaxChanges,  \* bound on the membership changes
  MaxDowns,    \* bound on the times a peer goes down
  MaxWire      \* bound on the snapshots in a stream, which coalesces them

ExchangeAssumption ==
  /\ Addressed \subseteq Peers
  /\ {TTL, MaxClock, MaxVersion, MaxChanges, MaxDowns, MaxWire} \subseteq Nat \ {0}

VARIABLES
  joined,    \* SwarmState.membership is there
  list,      \* what it says of a peer
  learned,   \* peers a hello gave an address for
  store,     \* SwarmState.peers
  task,      \* the task of a peer: none, asleep, dialing or streaming
  late,      \* what an aborted task was in the middle of and still does
  wanted,    \* the peers the supervisor has just found to want
  ticking,   \* it has still to start and abort tasks for them
  clock,
  up,        \* peers that answer
  version,   \* the state of a peer's roster
  wire,      \* the stream from a peer: Cut, or the snapshots on their way
  changes,   \* membership changes so far
  downs,
  moved,     \* history: the node left or joined since the daemon started
  revived    \* history: peers made members again under a task still streaming

swarm == <<joined, list, learned>>
tasks == <<task, late, wanted, ticking>>
world == <<up, version, wire, downs>>
history == <<moved, revived>>
vars  == <<swarm, store, tasks, clock, world, changes, history>>

Never    == 0
Cut      == <<0>>
Versions == 1..MaxVersion

(* An entry of the peer store; snapshot 0 is none yet. *)
Peer   == [snapshot : 0..MaxVersion, reachable : BOOLEAN, since : 0..MaxClock,
           incompatible : BOOLEAN]
Absent  == [snapshot |-> MaxVersion + 1, reachable |-> FALSE, since |-> Never,
            incompatible |-> FALSE]
Default == [snapshot |-> 0, reachable |-> FALSE, since |-> Never, incompatible |-> FALSE]

TypeOK ==
  /\ joined \in BOOLEAN
  /\ list \in [Peers -> {"none", "active", "revoked"}]
  /\ learned \subseteq Peers
  /\ store \in [Peers -> Peer \cup {Absent}]
  /\ task \in [Peers -> {"none", "asleep", "dialing", "streaming"}]
  /\ late \in [Peers -> SUBSET (0..MaxVersion)]
  /\ wanted \subseteq Peers /\ revived \subseteq Peers
  /\ {ticking, moved} \subseteq BOOLEAN
  /\ clock \in 1..MaxClock
  /\ up \subseteq Peers
  /\ version \in [Peers -> Versions]
  /\ wire \in [Peers -> Seq(Versions) \cup {Cut}]
  /\ changes \in 0..MaxChanges
  /\ downs \in 0..MaxDowns

-----------------------------------------------------------------------------
IsActive(p) == joined /\ list[p] = "active"

(* SwarmState::address_of; the record's address counts when none was learned. *)
HasAddress(p) == p \in learned \/ (joined /\ list[p] # "none" /\ p \in Addressed)

Wanted == {p \in Peers : IsActive(p) /\ HasAddress(p)}

(* SwarmState::expire *)
Expired(peer) ==
  ~peer.reachable /\ peer.since # Never /\ clock - peer.since >= TTL
Expire == [p \in Peers |-> IF Expired(store[p]) THEN Absent ELSE store[p]]

(* Mesh::set_reachable *)
Mark(s, p, reachable) ==
  LET peer == IF s[p] = Absent THEN Default ELSE s[p]
  IN  IF (s[p] = Absent /\ ~reachable) \/ (s[p] # Absent /\ peer.reachable = reachable)
      THEN s
      ELSE [s EXCEPT ![p] = [peer EXCEPT
             !.reachable = reachable,
             !.since = IF reachable THEN Never ELSE clock]]

(* Mutant: what arrives is kept whoever it is from. *)
StoredBlindly(p, v) ==
  [store EXCEPT ![p] = [snapshot |-> v, reachable |-> TRUE, since |-> Never,
                        incompatible |-> store[p].incompatible]]

(* Mesh::store_snapshot: outside the swarm nobody is known to be revoked. *)
Stored(p, v) ==
  IF joined /\ ~IsActive(p) THEN store
  ELSE [store EXCEPT ![p] = [snapshot |-> v, reachable |-> TRUE, since |-> Never,
                             incompatible |-> store[p].incompatible]]

Init ==
  /\ joined = TRUE
  /\ list \in [Peers -> {"none", "active"}]
  /\ learned = {}
  /\ store = [p \in Peers |-> Absent]
  /\ task = [p \in Peers |-> "none"]
  /\ late = [p \in Peers |-> {}]
  /\ wanted = {}
  /\ ticking = FALSE
  /\ clock = 1
  /\ up = Peers
  /\ version = [p \in Peers |-> 1]
  /\ wire = [p \in Peers |-> Cut]
  /\ changes = 0
  /\ downs = 0
  /\ moved = FALSE
  /\ revived = {}

-----------------------------------------------------------------------------
(* Mesh::exchange_forever, first half of a tick: with the lock held.  An
   aborted task ends its last step within the second to the next tick.      *)
TickReads ==
  /\ ~ticking
  /\ \A p \in Peers : late[p] = {}
  /\ store' = Expire
  /\ wanted' = Wanted
  /\ ticking' = TRUE
  /\ UNCHANGED <<swarm, task, late, clock, world, changes, history>>

(* What a task may still do once aborted: it runs on to its next await, and
   nothing waits for it.                                                    *)
Unfinished(p) ==
  {{}} \cup (IF task[p] = "dialing" /\ p \in up THEN {{0}} ELSE {})
       \cup (IF task[p] = "streaming" /\ wire[p] \notin {Cut, <<>>}
             THEN {{Head(wire[p])}} ELSE {})

(* Second half, without it: the membership may have changed since. *)
TickActs ==
  /\ ticking
  /\ LET gone == {p \in Peers \ wanted : task[p] # "none"} IN
     /\ \E left \in [Peers -> SUBSET (0..MaxVersion)] :
          /\ \A p \in Peers : IF p \in gone THEN left[p] \in Unfinished(p)
                                            ELSE left[p] = {}
          /\ late' = [p \in Peers |-> IF left[p] = {} THEN late[p] ELSE left[p]]
     /\ task' = [p \in Peers |->
          IF p \in gone THEN "none"
          ELSE IF p \in wanted /\ task[p] = "none" THEN "asleep" ELSE task[p]]
     /\ store' = [p \in Peers |-> IF p \in gone THEN Mark(store, p, FALSE)[p] ELSE store[p]]
     /\ wire' = [p \in Peers |-> IF p \in gone THEN Cut ELSE wire[p]]
  /\ ticking' = FALSE
  /\ wanted' = {}
  /\ UNCHANGED <<swarm, clock, up, version, downs, changes, history>>

(* The aborted task's last step, which may come after the abort. *)
LateStep(p) ==
  /\ late[p] # {}
  /\ store' = IF late[p] = {0} THEN Mark(store, p, TRUE)
              ELSE Stored(p, CHOOSE v \in late[p] : TRUE)
  /\ late' = [late EXCEPT ![p] = {}]
  /\ UNCHANGED <<swarm, task, wanted, ticking, clock, world, changes, history>>

(* exchange::subscribe wakes and stream_once looks the peer up. *)
Dial(p) ==
  /\ task[p] = "asleep"
  /\ IF joined /\ HasAddress(p)
     THEN task' = [task EXCEPT ![p] = "dialing"] /\ UNCHANGED store
     ELSE store' = Mark(store, p, FALSE) /\ UNCHANGED task
  /\ UNCHANGED <<swarm, late, wanted, ticking, clock, world, changes, history>>

Accepted(p) ==
  /\ task[p] = "dialing"
  /\ p \in up
  /\ task' = [task EXCEPT ![p] = "streaming"]
  /\ wire' = [wire EXCEPT ![p] = <<version[p]>>]
  /\ store' = Mark(store, p, TRUE)
  /\ UNCHANGED <<swarm, late, wanted, ticking, clock, up, version, downs, changes, history>>

(* Mutant: a peer that cannot be reached is not marked. *)
RefusedQuietly(p) ==
  /\ task[p] = "dialing"
  /\ p \notin up
  /\ task' = [task EXCEPT ![p] = "asleep"]
  /\ UNCHANGED <<swarm, store, late, wanted, ticking, clock, world, changes, history>>

Refused(p) ==
  /\ task[p] = "dialing"
  /\ p \notin up
  /\ task' = [task EXCEPT ![p] = "asleep"]
  /\ store' = Mark(store, p, FALSE)
  /\ UNCHANGED <<swarm, late, wanted, ticking, clock, world, changes, history>>

Receive(p) ==
  /\ task[p] = "streaming"
  /\ wire[p] \notin {Cut, <<>>}
  /\ store' = Stored(p, Head(wire[p]))
  /\ wire' = [wire EXCEPT ![p] = Tail(@)]
  /\ UNCHANGED <<swarm, tasks, clock, up, version, downs, changes, history>>

(* A stream that ends or goes idle is no error: only the next dial says that
   the peer is away.  One that breaks in a chunk is.                        *)
StreamEnds(p) ==
  /\ task[p] = "streaming"
  /\ wire[p] = Cut
  /\ task' = [task EXCEPT ![p] = "asleep"]
  /\ store' \in {store, Mark(store, p, FALSE)}
  /\ UNCHANGED <<swarm, late, wanted, ticking, clock, world, changes, history>>

-----------------------------------------------------------------------------
Lists == [Peers -> {"none", "active", "revoked"}]

(* A change of the membership takes far longer than the step an aborted task
   is in the middle of.                                                     *)
Change ==
  /\ changes < MaxChanges
  /\ changes' = changes + 1
  /\ \A p \in Peers : late[p] = {}

Revive(new) ==
  revived' = revived \cup
    {p \in Peers : new[p] = "active" /\ list[p] # "active" /\ task[p] = "streaming"}

(* The peers a new list revokes are dropped from the store. *)
Drop(new) ==
  [p \in Peers |-> IF new[p] = "revoked" /\ list[p] # "revoked" THEN Absent ELSE store[p]]

(* Mesh::absorb_hello of a hello from p, whichever side greeted. *)
Hear(p) ==
  /\ p \in up
  /\ joined
  /\ \E new \in Lists, address, old \in BOOLEAN :
       /\ \A q \in Peers : new[q] = "none" => list[q] = "none"
       /\ IF new = list THEN UNCHANGED changes ELSE Change
       /\ list' = new
       /\ Revive(new)
       /\ LET kept == learned \ {q \in Peers : new[q] = "revoked" /\ list[q] # "revoked"}
              held == Drop(new)
              peer == IF held[p] = Absent THEN Default ELSE held[p]
          IN  /\ learned' = IF new[p] = "active" /\ address THEN kept \cup {p} ELSE kept
              /\ store' = IF new[p] # "active" THEN held
                          ELSE [held EXCEPT ![p] = [peer EXCEPT !.incompatible = old]]
  /\ UNCHANGED <<joined, tasks, clock, world, moved>>

(* Mesh::greet is answered 426: the peer finds this node too old. *)
GreetTooOld(p) ==
  /\ p \in up
  /\ IsActive(p) /\ HasAddress(p)
  /\ store' = [store EXCEPT ![p] = [(IF @ = Absent THEN Default ELSE @)
                                      EXCEPT !.incompatible = TRUE]]
  /\ UNCHANGED <<swarm, tasks, clock, world, changes, history>>

Revoke(p) ==
  /\ joined /\ list[p] # "none"
  /\ Change
  /\ list' = [list EXCEPT ![p] = "revoked"]
  /\ learned' = learned \ {p}
  /\ store' = [store EXCEPT ![p] = Absent]
  /\ UNCHANGED <<joined, tasks, clock, world, history>>

Admit(p) ==
  /\ joined
  /\ p \in up
  /\ Change
  /\ list' = [list EXCEPT ![p] = "active"]
  /\ Revive(list')
  /\ learned' \in {learned, learned \cup {p}}
  /\ UNCHANGED <<joined, store, tasks, clock, world, moved>>

(* Mesh::leave, once the peers were told. *)
Leave ==
  /\ joined
  /\ Change
  /\ joined' = FALSE
  /\ list' = [p \in Peers |-> "none"]
  /\ learned' = {}
  /\ store' = [p \in Peers |-> Absent]
  /\ moved' = TRUE
  /\ UNCHANGED <<tasks, clock, world, revived>>

(* Mesh::join through p, also of the swarm the node is in: the admitter's
   list replaces the node's own, and the store is left alone.               *)
Join(p) ==
  /\ p \in up
  /\ Change
  /\ joined' = TRUE
  /\ list' \in {new \in Lists : new[p] = "active"}
  /\ Revive(list')
  /\ learned' = learned \cup {p}
  /\ moved' = TRUE
  /\ UNCHANGED <<store, tasks, clock, world>>

(* The daemon starts again with what swarm.json says. *)
Restart ==
  /\ Change
  /\ learned' = {}
  /\ store' = [p \in Peers |-> Absent]
  /\ task' = [p \in Peers |-> "none"]
  /\ late' = [p \in Peers |-> {}]
  /\ wanted' = {} /\ ticking' = FALSE
  /\ wire' = [p \in Peers |-> Cut]
  /\ moved' = FALSE
  /\ revived' = {}
  /\ UNCHANGED <<joined, list, clock, up, version, downs>>

-----------------------------------------------------------------------------
(* The peer's roster changes; a stream that is behind skips to the newest. *)
PeerChanges(p) ==
  /\ p \in up
  /\ version[p] < MaxVersion
  /\ version' = [version EXCEPT ![p] = @ + 1]
  /\ wire' = [wire EXCEPT ![p] =
       IF @ = Cut THEN @
       ELSE IF Len(@) < MaxWire THEN Append(@, version[p] + 1)
       ELSE [@ EXCEPT ![Len(@)] = version[p] + 1]]
  /\ UNCHANGED <<swarm, store, tasks, clock, up, downs, changes, history>>

PeerDown(p) ==
  /\ p \in up
  /\ downs < MaxDowns
  /\ downs' = downs + 1
  /\ up' = up \ {p}
  /\ wire' = [wire EXCEPT ![p] = Cut]
  /\ UNCHANGED <<swarm, store, tasks, clock, version, changes, history>>

PeerUp(p) ==
  /\ p \notin up
  /\ up' = up \cup {p}
  /\ UNCHANGED <<swarm, store, tasks, clock, version, wire, downs, changes, history>>

Tick ==
  /\ clock < MaxClock
  /\ clock' = clock + 1
  /\ UNCHANGED <<swarm, store, tasks, world, changes, history>>

Task(p) == Dial(p) \/ Accepted(p) \/ Refused(p) \/ Receive(p) \/ StreamEnds(p)

Next ==
  \/ TickReads \/ TickActs \/ Leave \/ Restart \/ Tick
  \/ \E p \in Peers :
       \/ LateStep(p) \/ Task(p)
       \/ Hear(p) \/ GreetTooOld(p) \/ Revoke(p) \/ Admit(p) \/ Join(p)
       \/ PeerChanges(p) \/ PeerDown(p) \/ PeerUp(p)

Spec == Init /\ [][Next]_vars

(* The supervisor ticks every second; a task's sleeps, dials and idle streams
   all have a timeout; an aborted task runs on to its next await.           *)
Fairness ==
  /\ WF_vars(TickReads) /\ WF_vars(TickActs)
  /\ \A p \in Peers : WF_vars(Task(p)) /\ WF_vars(LateStep(p))

FairSpec == Spec /\ Fairness

-----------------------------------------------------------------------------
Held(p) == store[p] # Absent /\ store[p].snapshot # 0

(* TypeOK, and a revoked peer's snapshot is gone at once and does not come
   back by a stream that is still open (Mesh::revoke, Mesh::absorb_hello,
   Mesh::store_snapshot), as long as the node has not left or joined since
   its daemon started.                                                      *)
RevokedAreGone ==
  /\ TypeOK
  /\ ~moved => \A p \in Peers : Held(p) => IsActive(p)

(* A snapshot served as unreachable bears the date it is dropped by
   (Mesh::set_reachable and SwarmState::expire), whichever of the tasks, the
   supervisor and the hellos touched the entry last.                        *)
StaleIsDated ==
  \A p \in Peers : Held(p) /\ ~store[p].reachable => store[p].since # Never

(* What the node serves of its peers is due: both of the above. *)
SnapshotsAreDue == RevokedAreGone /\ StaleIsDated

(* A peer that stays away is in the end no longer shown as reachable, unless
   the node left or joined or lost its address (exchange::subscribe).       *)
LossShows ==
  \A p \in Peers :
    <>[](p \notin up) => <>[](Held(p) /\ store[p].reachable => moved \/ ~HasAddress(p))

(* A member that stays up and wanted is in the end shown in its newest state,
   whatever streams broke before, unless it was made a member again before a
   tick noticed that it had not been one: its stream is then still open and
   has nothing new to say.                                                  *)
NewestIsShown ==
  \A p \in Peers :
    <>[](p \in up /\ p \in Wanted) => <>[](p \in revived \/ store[p].snapshot = version[p])

(* leave "forgets the swarm", mesh/mod.rs:731-733. *)
LeftIsForgotten == ~joined => \A p \in Peers : ~Held(p)
=============================================================================
