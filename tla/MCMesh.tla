------------------------------- MODULE MCMesh -------------------------------
(* Small instances of the modules about the mesh and the start of a daemon, *)
(* side by side in one run: `part` says which of the three goes; the others *)
(* stay as they begin.                                                      *)
EXTENDS Daemon

CONSTANTS
  N, Founder, Rejoins, MaxTime, MaxSigned, MaxInFlight, MaxLosses, MaxRestarts,
  Peers, Addressed, TTL, MaxClock, MaxVersion, MaxChanges, MaxDowns, MaxWire

VARIABLES
  part,
  \* Membership
  view, lists, leaving, mail, signed, losses, restarts, signers,
  \* Exchange
  joined, list, learned, store, task, late, wanted, ticking, clock, up, version,
  wire, changes, downs, moved, revived

M == INSTANCE Membership WITH file <- lists, wire <- mail
E == INSTANCE Exchange

ASSUME M!MembershipAssumption /\ M!NoneAssumption /\ E!ExchangeAssumption

daemon == vars
membership == <<view, lists, leaving, mail, signed, losses, restarts, signers>>
exchange == <<joined, list, learned, store, task, late, wanted, ticking, clock, up,
              version, wire, changes, downs, moved, revived>>

MCInit ==
  /\ part \in {"membership", "exchange", "daemon"}
  /\ Init /\ M!Init /\ E!Init
  /\ part # "exchange" => list = [p \in Peers |-> "none"]

MCNext ==
  \/ part = "membership" /\ M!Next /\ UNCHANGED <<part, exchange, daemon>>
  \/ part = "exchange" /\ E!Next /\ UNCHANGED <<part, membership, daemon>>
  \/ part = "daemon" /\ Next /\ UNCHANGED <<part, membership, exchange>>

MCSpec == MCInit /\ [][MCNext]_<<part, membership, exchange, daemon>>

(* Each part is as fair as its own module says. *)
MembershipRuns ==
  /\ part = "membership"
  /\ \A n \in M!Nodes :
       /\ WF_membership(part = "membership" /\ M!LeaveForgets(n))
       /\ \A m \in M!Nodes \ {n} : SF_membership(part = "membership" /\ M!Greet(n, m))
  /\ WF_membership(part = "membership" /\ \E m \in mail : M!Receive(m))

ExchangeRuns ==
  /\ part = "exchange"
  /\ WF_exchange(part = "exchange" /\ E!TickReads)
  /\ WF_exchange(part = "exchange" /\ E!TickActs)
  /\ \A p \in Peers :
       /\ WF_exchange(part = "exchange" /\ E!Task(p))
       /\ WF_exchange(part = "exchange" /\ E!LateStep(p))

DaemonRuns ==
  /\ part = "daemon"
  /\ \A d \in Daemons :
       /\ WF_daemon(part = "daemon" /\ Drops(d))
       /\ WF_daemon(part = "daemon" /\ Reconnects(d))

-----------------------------------------------------------------------------
(* A stale list never makes a revoked node active again. *)
RevokedStay == []M!TypeOK /\ M!RevocationStands

(* Members agree on who is active, while those who signed for others stay. *)
AllConverge == MembershipRuns => M!ConvergesUnderSigners

(* A peer that stays away is in the end not shown as reachable, and a member
   that stays up in its newest state (Exchange: LossShows, NewestIsShown).    *)
ViewCatchesUp == ExchangeRuns => E!LossShows /\ E!NewestIsShown

(* A daemon that lost the holder to one that gave up takes it back (Daemon:
   HolderComesBack).                                                          *)
HolderIsServed == DaemonRuns => HolderComesBack
=============================================================================
