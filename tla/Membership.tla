----------------------------- MODULE Membership -----------------------------
(***************************************************************************)
(* Who belongs to the swarm (crates/rosterd/src/mesh/membership.rs and the  *)
(* membership operations of mesh/mod.rs): every node keeps one signed record *)
(* per node, in memory and in swarm.json, and merges the lists it hears.    *)
(*                                                                         *)
(* Abstractions.  One swarm, whose founder has created it.  Signatures and  *)
(* keys are sound, so a record is what its signer wrote.  Clocks are not: a *)
(* signer's clock may show anything.  A node that knows another as active   *)
(* has an address for it.  An operator runs one of join and leave at a time *)
(* on a node, and an unused invite is at hand whenever one is wanted.       *)
(***************************************************************************)
EXTENDS Naturals, FiniteSets

CONSTANTS
  N,            \* nodes 1..N, in the order of their ids
  Founder,
  None,         \* no record
  Rejoins,      \* whether a member may join again without leaving first
  MaxTime,      \* bound on signed_at
  MaxSigned,    \* bound on the records signed
  MaxInFlight,  \* bound on the messages in flight
  MaxLosses,    \* bound on the messages lost
  MaxRestarts   \* bound on the restarts

Nodes == 1..N

MembershipAssumption ==
  /\ N \in Nat \ {0}
  /\ Founder \in Nodes
  /\ Rejoins \in BOOLEAN
  /\ {MaxTime, MaxSigned, MaxInFlight, MaxLosses, MaxRestarts} \subseteq Nat
  /\ MaxTime > 0

Record == [at : 1..MaxTime, revoked : BOOLEAN, by : Nodes]
NoneAssumption == None \notin Record

List    == [Nodes -> Record \cup {None}]
Nothing == [x \in Nodes |-> None]

Kinds == {"hello", "answer", "welcome"}
Message == [kind : Kinds, from : Nodes, to : Nodes, list : List]

VARIABLES
  view,      \* Membership.members of a node; Nothing outside the swarm
  file,      \* its swarm.json
  leaving,   \* nodes whose leave is under way
  wire,      \* messages in flight
  signed,    \* records signed so far
  losses,
  restarts,
  signers    \* history: the nodes that ever signed another one's record

vars == <<view, file, leaving, wire, signed, losses, restarts, signers>>

TypeOK ==
  /\ view \in [Nodes -> List]
  /\ file \in [Nodes -> List]
  /\ leaving \subseteq Nodes
  /\ wire \subseteq Message
  /\ signed \in 0..MaxSigned
  /\ losses \in 0..MaxLosses
  /\ restarts \in 0..MaxRestarts
  /\ signers \subseteq Nodes

(* Membership::create, on the founder. *)
Init ==
  /\ view = [n \in Nodes |->
       [x \in Nodes |-> IF n = Founder /\ x = n
                        THEN [at |-> 1, revoked |-> FALSE, by |-> n] ELSE None]]
  /\ file = view
  /\ leaving = {}
  /\ wire = {}
  /\ signed = 0
  /\ losses = 0
  /\ restarts = 0
  /\ signers = {}

-----------------------------------------------------------------------------
InSwarm(n)    == view[n] # Nothing
Revoked(v, x) == v[x] # None /\ v[x].revoked
Active(v, x)  == v[x] # None /\ ~v[x].revoked

(* MemberRecord::beats *)
Beats(r, current) ==
  r.at > current.at \/ (r.at = current.at /\ r.revoked /\ ~current.revoked)

(* Membership::insert_trusted *)
Wins(v, x, r) == v[x] # None => Beats(r, v[x])

InsertTrusted(v, x, r) == IF Wins(v, x, r) THEN [v EXCEPT ![x] = r] ELSE v

(* The signer of a record is a member the node trusts now. *)
Vouched(v, r) == Active(v, r.by)

(* Mutant: a list only updates the members a node knows. *)
NewsOfKnown(v, list) ==
  {x \in Nodes : list[x] # None /\ v[x] # None /\ Wins(v, x, list[x])}

(* The members of whom a list has a record that would be inserted. *)
News(v, list) == {x \in Nodes : list[x] # None /\ Wins(v, x, list[x])}

(* Membership::merge: passes over the list, which a BTreeMap keeps in id order,
   until one changes nothing.  Each member's record is taken once, in the first
   pass that finds its signer to count when its turn comes; so all that changes
   does in the first N passes.  taken[x] is that pass, N + 1 if there is none;
   at(.., pass, x) is the view when the turn of x comes in a pass.           *)
Merge(v, list) ==
  LET news == News(v, list)
      at(taken, pass, x) ==
        [y \in Nodes |->
           IF y \in news /\ (taken[y] < pass \/ (taken[y] = pass /\ y < x))
           THEN list[y] ELSE v[y]]
      first(taken, x) ==
        /\ taken[x] <= N => Vouched(at(taken, taken[x], x), list[x])
        /\ \A pass \in 1..N : Vouched(at(taken, pass, x), list[x]) => taken[x] <= pass
  IN  at(CHOOSE taken \in [news -> 1..(N + 1)] : \A x \in news : first(taken, x), N + 1, 1)

(* The time of a new record: the signer's clock, but later than what it holds. *)
Later(v, x) == {t \in 1..MaxTime : v[x] # None => t > v[x].at}

Sign(s, x) ==
  /\ signed < MaxSigned
  /\ signed' = signed + 1
  /\ signers' = IF x = s THEN signers ELSE signers \cup {s}

(* Mutant: a changed list is not written. *)
HeldInMemory(n, v) == view' = [view EXCEPT ![n] = v] /\ UNCHANGED file

(* In memory and, under the same lock, in the file. *)
Saved(n, v) ==
  /\ view' = [view EXCEPT ![n] = v]
  /\ file' = [file EXCEPT ![n] = v]

Send(kind, from, to, list) ==
  [kind |-> kind, from |-> from, to |-> to, list |-> list]

-----------------------------------------------------------------------------
(* Joining.                                                                 *)

(* Mesh::admit on the admitter, asked by Mesh::join on the joiner. *)
Admit(a, j) ==
  /\ InSwarm(a)
  /\ a # j
  /\ InSwarm(j) => Rejoins
  /\ j \notin leaving
  /\ \A m \in wire : m.kind = "welcome" => m.to # j
  /\ Cardinality(wire) < MaxInFlight
  /\ Sign(a, j)
  /\ \E t \in Later(view[a], j) :
       LET v == InsertTrusted(view[a], j, [at |-> t, revoked |-> FALSE, by |-> a])
       IN  /\ Saved(a, v)
           /\ wire' = wire \cup {Send("welcome", a, j, v)}
  /\ UNCHANGED <<leaving, losses, restarts>>

(* join_pinned, with the answer: the joiner takes the list as it is, in place
   of any it had.                                                           *)
Welcomed(m) ==
  /\ m \in wire
  /\ m.kind = "welcome"
  /\ Active(m.list, m.to)
  /\ Saved(m.to, m.list)
  /\ wire' = wire \ {m}
  /\ UNCHANGED <<leaving, signed, losses, restarts, signers>>

-----------------------------------------------------------------------------
(* Revoking and leaving.                                                    *)

(* Mesh::revoke *)
Revoke(a, x) ==
  /\ InSwarm(a)
  /\ x # a
  /\ view[a][x] # None
  /\ Sign(a, x)
  /\ \E t \in Later(view[a], x) :
       Saved(a, InsertTrusted(view[a], x, [at |-> t, revoked |-> TRUE, by |-> a]))
  /\ UNCHANGED <<leaving, wire, losses, restarts>>

(* Mesh::leave revokes the node itself, in memory only, tells its peers with
   hellos...                                                                *)
LeaveSigns(n) ==
  /\ InSwarm(n)
  /\ n \notin leaving
  /\ \A m \in wire : m.kind = "welcome" => m.to # n
  /\ view[n][n] # None
  /\ Sign(n, n)
  /\ \E t \in Later(view[n], n) :
       view' = [view EXCEPT ![n] =
                  InsertTrusted(@, n, [at |-> t, revoked |-> TRUE, by |-> n])]
  /\ leaving' = leaving \cup {n}
  /\ UNCHANGED <<file, wire, losses, restarts>>

(* ...and forgets the swarm, whoever it reached. *)
LeaveForgets(n) ==
  /\ n \in leaving
  /\ leaving' = leaving \ {n}
  /\ Saved(n, Nothing)
  /\ UNCHANGED <<wire, signed, losses, restarts, signers>>

-----------------------------------------------------------------------------
(* Gossip.                                                                  *)

(* Mesh::greet.  The certificate of a node that is not an active member is
   not accepted, so such a node is never told anything.                     *)
Greet(n, m) ==
  /\ InSwarm(n)
  /\ n # m
  /\ Active(view[n], m)
  /\ Cardinality(wire) < MaxInFlight
  /\ wire' = wire \cup {Send("hello", n, m, view[n])}
  /\ UNCHANGED <<view, file, leaving, signed, losses, restarts, signers>>

(* Mesh::absorb_hello: the merged list is saved when anything changed. *)
Absorb(n, list) ==
  LET v == IF InSwarm(n) THEN Merge(view[n], list) ELSE view[n]
  IN  IF v = view[n] THEN UNCHANGED <<view, file>> ELSE Saved(n, v)

(* hello_post: a sender known as revoked is not listened to, and one that the
   list revokes gets no answer; nor has a node outside the swarm one with a
   list.                                                                    *)
Hear(m) ==
  /\ m \in wire
  /\ m.kind = "hello"
  /\ IF Revoked(view[m.to], m.from)
     THEN UNCHANGED <<view, file>> /\ wire' = wire \ {m}
     ELSE /\ Absorb(m.to, m.list)
          /\ wire' = (wire \ {m}) \cup
               {a \in {Send("answer", m.to, m.from, view'[m.to])} :
                  InSwarm(m.to) /\ ~Revoked(view'[m.to], m.from)}
  /\ UNCHANGED <<leaving, signed, losses, restarts, signers>>

(* The rest of greet, with the answer. *)
HearAnswer(m) ==
  /\ m \in wire
  /\ m.kind = "answer"
  /\ Absorb(m.to, m.list)
  /\ wire' = wire \ {m}
  /\ UNCHANGED <<leaving, signed, losses, restarts, signers>>

Receive(m) == Welcomed(m) \/ Hear(m) \/ HearAnswer(m)

Lose(m) ==
  /\ losses < MaxLosses
  /\ losses' = losses + 1
  /\ m \in wire
  /\ wire' = wire \ {m}
  /\ UNCHANGED <<view, file, leaving, signed, restarts, signers>>

(* The daemon starts again, from the file; what it waited for is lost. *)
Restart(n) ==
  /\ restarts < MaxRestarts
  /\ restarts' = restarts + 1
  /\ view' = [view EXCEPT ![n] = file[n]]
  /\ leaving' = leaving \ {n}
  /\ wire' = {m \in wire : m.to # n}
  /\ UNCHANGED <<file, signed, losses, signers>>

Next ==
  \/ \E n \in Nodes : LeaveSigns(n) \/ LeaveForgets(n) \/ Restart(n)
  \/ \E n, m \in Nodes : Admit(n, m) \/ Revoke(n, m) \/ Greet(n, m)
  \/ \E m \in wire : Receive(m) \/ Lose(m)

Spec == Init /\ [][Next]_vars

(* discover_forever greets every active member every 30 s, a message that is
   not lost is handled, and a leave comes to its end.  Operators and restarts
   owe nothing.                                                             *)
GossipFairness ==
  /\ \A n \in Nodes : WF_vars(LeaveForgets(n)) /\ \A m \in Nodes \ {n} : SF_vars(Greet(n, m))
  /\ WF_vars(\E m \in wire : Receive(m))

FairSpec == Spec /\ GossipFairness

-----------------------------------------------------------------------------
(* Properties.                                                              *)

(* A stale view can never un-revoke a node by accident: where another node
   was known as revoked, only a record newer than that makes it active again,
   whatever is heard in whatever order and across restarts.  A member that
   joins again (Rejoins) takes its admitter's list as it is, older records
   included.                                                                *)
RevocationStands ==
  [][\A n \in Nodes : \A x \in Nodes \ {n} :
       InSwarm(n) /\ Revoked(view[n], x) =>
         \/ view'[n] = Nothing
         \/ Revoked(view'[n], x)
         \/ Active(view'[n], x) /\ view'[n][x].at > view[n][x].at]_vars

(* The members nobody in the swarm holds to be revoked. *)
Good == {n \in Nodes : InSwarm(n) /\ \A m \in Nodes : ~Revoked(view[m], n)}

Agree == \A n, m \in Good : \A x \in Nodes : Active(view[n], x) <=> Active(view[m], x)

(* Every node converges whatever the gossip order. *)
Converges == <>[]Agree

(* No node that vouched for another one has been removed. *)
SignersStay == \A s \in signers : \A n \in Nodes : ~Revoked(view[n], s)

(* The members come to agree on who is active, whatever the gossip order,
   losses, restarts and clocks, as long as no node leaves or is removed that
   admitted or removed another one: its records are refused from then on.   *)
ConvergesUnderSigners == []SignersStay => Converges
=============================================================================
