----------------------------- MODULE MeshProofs -----------------------------
(***************************************************************************)
(* What holds of any number of daemons on one machine, however often they   *)
(* start, overlap and are killed; and of the swarm's records, for any number *)
(* of nodes.                                                                *)
(***************************************************************************)
EXTENDS MCMesh, TLAPS

Steps0 == {"off", "keyless", "creating", "failing", "loading", "recovering",
           "connecting", "recovered", "probed", "unlinked", "bound", "serving"}
States == {"none", "opening", "linked", "dropped", "crashed", "ended"}

TypeOK ==
  /\ pc \in [Daemons -> Steps0]
  /\ saw \in [Daemons -> BOOLEAN]
  /\ session \in [Daemons -> States]
  /\ holder \in {"none", "filed", "up", "gone"}
  /\ file \in BOOLEAN
  /\ link \in Daemons \cup {None}
  /\ sock \in Daemons \cup {None}
  /\ port \in Daemons \cup {None}
  /\ keyFile \in {"none", "torn", "whole"}
  /\ swarmTorn \in BOOLEAN
  /\ saving \subseteq Daemons
  /\ mixed \subseteq Daemons
  /\ cut \in BOOLEAN
  /\ refused \subseteq Daemons
  /\ met \subseteq Daemons
  /\ hasty \subseteq Daemons

(* The variables keep their types. *)
THEOREM DaemonTypes == Spec => []TypeOK
<1>1. Init => TypeOK
  BY DEF Init, TypeOK, Steps0, States
<1>2. TypeOK /\ [Next]_vars => TypeOK'
  <2> SUFFICES ASSUME TypeOK, [Next]_vars PROVE TypeOK'
    OBVIOUS
  <2> USE DEF TypeOK, Steps0, States, process, held, net, files, history
  <2>1. CASE HolderListens
    BY <2>1 DEF HolderListens
  <2>2. CASE HolderExits
    BY <2>2 DEF HolderExits
  <2>3. CASE HolderKilled
    BY <2>3 DEF HolderKilled
  <2>4. ASSUME NEW d \in Daemons, Starts(d) PROVE TypeOK'
    BY <2>4 DEF Starts, At
  <2>5. ASSUME NEW d \in Daemons, Steps(d) PROVE TypeOK'
    <3>1. CASE Loads(d)      BY <3>1 DEF Loads, At
    <3>2. CASE Recovers(d)   BY <3>2 DEF Recovers, At
    <3>3. CASE Attaches(d)   BY <3>3 DEF Attaches, At
    <3>4. CASE Refuses(d)    BY <3>4 DEF Refuses, Gone
    <3>5. CASE Probes(d)     BY <3>5 DEF Probes, At
    <3>6. CASE Unlinks(d)    BY <3>6 DEF Unlinks, At
    <3>7. CASE Binds(d)      BY <3>7 DEF Binds, At
    <3>8. CASE Serves(d)     BY <3>8 DEF Serves, At
    <3>9. CASE BindFails(d)  BY <3>9 DEF BindFails, Gone
    <3>10. CASE Creates(d)   BY <3>10 DEF Creates, At
    <3>11. CASE Writes(d)    BY <3>11 DEF Writes, At
    <3>12. CASE GivesUp(d)   BY <3>12 DEF GivesUp, Gone
    <3>13. QED
      BY <2>5, <3>1, <3>2, <3>3, <3>4, <3>5, <3>6, <3>7, <3>8, <3>9, <3>10, <3>11, <3>12 DEF Steps
  <2>6. ASSUME NEW d \in Daemons, Killed(d) PROVE TypeOK'
    BY <2>6 DEF Killed, Gone
  <2>7. ASSUME NEW d \in Daemons, Launches(d) PROVE TypeOK'
    BY <2>7 DEF Launches
  <2>8. ASSUME NEW d \in Daemons, Opens(d) PROVE TypeOK'
    BY <2>8 DEF Opens
  <2>9. ASSUME NEW d \in Daemons, Drops(d) PROVE TypeOK'
    BY <2>9 DEF Drops
  <2>10. ASSUME NEW d \in Daemons, Reconnects(d) PROVE TypeOK'
    BY <2>10 DEF Reconnects
  <2>11. ASSUME NEW d \in Daemons, Saves(d) \/ Saved(d) PROVE TypeOK'
    BY <2>11 DEF Saves, Saved
  <2>12. CASE UNCHANGED vars
    BY <2>12 DEF vars
  <2>13. QED
    BY <2>1, <2>2, <2>3, <2>4, <2>5, <2>6, <2>7, <2>8, <2>9, <2>10, <2>11, <2>12 DEF Next
<1>3. QED
  BY <1>1, <1>2, PTL DEF Spec

-----------------------------------------------------------------------------
(* Before its holder has a state file nobody knows of the session; nobody is
   connected to a holder that does not listen yet; and a crash is what
   CrashedIsGone says, or was found in haste.                               *)
HolderInv ==
  /\ holder = "none" => /\ ~file
                        /\ \A d \in Daemons : ~saw[d] /\ session[d] = "none"
  /\ \A d \in Daemons : session[d] \in {"linked", "dropped"} => holder \in {"up", "gone"}
  /\ CrashedIsGone

(* However many daemons compete for the one connection of a holder, none takes
   the session for crashed while the holder listens, unless it looked between
   the holder's state file and its socket (runner/mod.rs, attach and drain).  *)
THEOREM NoFalseCrash == Spec => []CrashedIsGone
<1>1. Init => HolderInv
  BY DEF Init, HolderInv, CrashedIsGone
<1>2. TypeOK /\ HolderInv /\ [Next]_vars => HolderInv'
  <2> SUFFICES ASSUME TypeOK, HolderInv, [Next]_vars PROVE HolderInv'
    OBVIOUS
  <2> USE DEF TypeOK, HolderInv, CrashedIsGone, process, held, net, files, history
  <2>1. CASE HolderListens
    BY <2>1 DEF HolderListens
  <2>2. CASE HolderExits
    BY <2>2 DEF HolderExits
  <2>3. CASE HolderKilled
    BY <2>3 DEF HolderKilled
  <2>4. ASSUME NEW d \in Daemons, Starts(d) PROVE HolderInv'
    BY <2>4 DEF Starts, At
  <2>5. ASSUME NEW d \in Daemons, Steps(d) PROVE HolderInv'
    <3>1. CASE Loads(d)      BY <3>1 DEF Loads, At
    <3>2. CASE Recovers(d)   BY <3>2 DEF Recovers, At
    <3>3. CASE Attaches(d)   BY <3>3 DEF Attaches, At
    <3>4. CASE Refuses(d)    BY <3>4 DEF Refuses, Gone
    <3>5. CASE Probes(d)     BY <3>5 DEF Probes, At
    <3>6. CASE Unlinks(d)    BY <3>6 DEF Unlinks, At
    <3>7. CASE Binds(d)      BY <3>7 DEF Binds, At
    <3>8. CASE Serves(d)     BY <3>8 DEF Serves, At
    <3>9. CASE BindFails(d)  BY <3>9 DEF BindFails, Gone
    <3>10. CASE Creates(d)   BY <3>10 DEF Creates, At
    <3>11. CASE Writes(d)    BY <3>11 DEF Writes, At
    <3>12. CASE GivesUp(d)   BY <3>12 DEF GivesUp, Gone
    <3>13. QED
      BY <2>5, <3>1, <3>2, <3>3, <3>4, <3>5, <3>6, <3>7, <3>8, <3>9, <3>10, <3>11, <3>12 DEF Steps
  <2>6. ASSUME NEW d \in Daemons, Killed(d) PROVE HolderInv'
    BY <2>6 DEF Killed, Gone
  <2>7. ASSUME NEW d \in Daemons, Launches(d) PROVE HolderInv'
    BY <2>7 DEF Launches
  <2>8. ASSUME NEW d \in Daemons, Opens(d) PROVE HolderInv'
    BY <2>8 DEF Opens
  <2>9. ASSUME NEW d \in Daemons, Drops(d) PROVE HolderInv'
    BY <2>9 DEF Drops
  <2>10. ASSUME NEW d \in Daemons, Reconnects(d) PROVE HolderInv'
    BY <2>10 DEF Reconnects
  <2>11. ASSUME NEW d \in Daemons, Saves(d) \/ Saved(d) PROVE HolderInv'
    <3>1. CASE Saves(d)  BY <3>1 DEF Saves
    <3>2. CASE Saved(d)
      <4>1. UNCHANGED <<pc, saw, session, holder, file, link, hasty>>
        BY <3>2 DEF Saved
      <4>2. QED
        BY <4>1
    <3>3. QED
      BY <2>11, <3>1, <3>2
  <2>12. CASE UNCHANGED vars
    BY <2>12 DEF vars
  <2>13. QED
    BY <2>1, <2>2, <2>3, <2>4, <2>5, <2>6, <2>7, <2>8, <2>9, <2>10, <2>11, <2>12 DEF Next
<1>3. HolderInv => CrashedIsGone
  BY DEF HolderInv
<1>4. QED
  BY <1>1, <1>2, <1>3, DaemonTypes, PTL DEF Spec

-----------------------------------------------------------------------------
(* Daemons that run at the same time have met, a socket that turns up after a
   daemon removed the file is that of one it met, and the port is held by a
   daemon that runs.                                                         *)
NetInv ==
  /\ \A d, e \in Daemons : d # e /\ Running(d) /\ Running(e) => d \in met
  /\ \A d \in Daemons : pc[d] = "unlinked" /\ sock # None => d \in met
  /\ port # None => pc[port] = "serving"

(* The invariant is kept. *)
LEMMA NetIsKept == ASSUME TypeOK, NetInv, [Next]_vars PROVE NetInv'
<1> USE DEF TypeOK, Steps0, NetInv, Running, process, held, net, files, history
<1>1. CASE HolderListens
  BY <1>1 DEF HolderListens
<1>2. CASE HolderExits
  BY <1>2 DEF HolderExits
<1>3. CASE HolderKilled
  BY <1>3 DEF HolderKilled
<1>4. ASSUME NEW d \in Daemons, Starts(d) PROVE NetInv'
  <2> DEFINE others == {e \in Daemons \ {d} : Running(e)}
  <2>1. /\ pc[d] = "off" /\ pc' \in [Daemons -> Steps0]
        /\ \A e \in Daemons \ {d} : pc'[e] = pc[e]
        /\ pc'[d] \in {"keyless", "failing", "loading"}
        /\ met' = IF others = {} THEN met ELSE met \cup others \cup {d}
        /\ UNCHANGED <<sock, port>>
    BY <1>4 DEF Starts, At
  <2>2. ASSUME NEW a \in Daemons, NEW b \in Daemons, a # b, Running(a)', Running(b)'
        PROVE  a \in met'
    <3>1. CASE a = d
      <4>1. b \in others
        BY <2>1, <2>2, <3>1
      <4>2. QED  BY <2>1, <3>1, <4>1
    <3>2. CASE a # d
      <4>1. a \in others
        BY <2>1, <2>2, <3>2
      <4>2. QED  BY <2>1, <4>1
    <3>3. QED  BY <3>1, <3>2
  <2>3. met \subseteq met'
    BY <2>1
  <2>4. QED
    BY <2>1, <2>2, <2>3
<1>5. ASSUME NEW d \in Daemons, Steps(d) PROVE NetInv'
  <2>1. CASE Loads(d)      BY <2>1 DEF Loads, At
  <2>2. CASE Recovers(d)   BY <2>2 DEF Recovers, At
  <2>3. CASE Attaches(d)   BY <2>3 DEF Attaches, At
  <2>4. CASE Refuses(d)    BY <2>4 DEF Refuses, Gone
  <2>5. CASE Probes(d)     BY <2>5 DEF Probes, At
  <2>6. CASE Unlinks(d)    BY <2>6 DEF Unlinks, At
  <2>7. CASE Binds(d)      BY <2>7 DEF Binds, At
  <2>8. CASE Serves(d)     BY <2>8 DEF Serves, At
  <2>9. CASE BindFails(d)  BY <2>9 DEF BindFails, Gone
  <2>10. CASE Creates(d)   BY <2>10 DEF Creates, At
  <2>11. CASE Writes(d)    BY <2>11 DEF Writes, At
  <2>12. CASE GivesUp(d)   BY <2>12 DEF GivesUp, Gone
  <2>13. QED
    BY <1>5, <2>1, <2>2, <2>3, <2>4, <2>5, <2>6, <2>7, <2>8, <2>9, <2>10, <2>11, <2>12 DEF Steps
<1>6. ASSUME NEW d \in Daemons, Killed(d) PROVE NetInv'
  BY <1>6 DEF Killed, Gone
<1>7. ASSUME NEW d \in Daemons, Launches(d) PROVE NetInv'
  BY <1>7 DEF Launches
<1>8. ASSUME NEW d \in Daemons, Opens(d) PROVE NetInv'
  BY <1>8 DEF Opens
<1>9. ASSUME NEW d \in Daemons, Drops(d) PROVE NetInv'
  BY <1>9 DEF Drops
<1>10. ASSUME NEW d \in Daemons, Reconnects(d) PROVE NetInv'
  BY <1>10 DEF Reconnects
<1>11. ASSUME NEW d \in Daemons, Saves(d) \/ Saved(d) PROVE NetInv'
  BY <1>11 DEF Saves, Saved
<1>12. CASE UNCHANGED vars
  BY <1>12 DEF vars
<1>13. QED
  BY <1>1, <1>2, <1>3, <1>4, <1>5, <1>6, <1>7, <1>8, <1>9, <1>10, <1>11, <1>12 DEF Next

(* A torn file is the work of a daemon that writes, of one that was killed while
   it wrote, or of two that wrote at once; a daemon writes the list only once it has loaded it; and the
   key was torn when a failing one read it.                                  *)
FilesInv ==
  /\ keyFile = "torn" => cut \/ \E d \in Daemons : pc[d] = "creating"
  /\ swarmTorn => cut \/ saving # {}
  /\ \A d \in saving : pc[d] \notin {"off", "keyless", "creating", "loading", "failing"}
  /\ \A d \in Daemons : pc[d] = "failing" => cut \/ d \in met

(* The invariant is kept. *)
LEMMA FilesAreKept == ASSUME TypeOK, FilesInv, [Next]_vars PROVE FilesInv'
<1> USE DEF TypeOK, Steps0, FilesInv, process, held, net, files, history
<1>1. CASE HolderListens
  BY <1>1 DEF HolderListens
<1>2. CASE HolderExits
  BY <1>2 DEF HolderExits
<1>3. CASE HolderKilled
  BY <1>3 DEF HolderKilled
<1>4. ASSUME NEW d \in Daemons, Starts(d) PROVE FilesInv'
  <2> DEFINE others == {e \in Daemons \ {d} : Running(e)}
  <2>1. /\ pc[d] = "off" /\ pc' \in [Daemons -> Steps0]
        /\ \A e \in Daemons \ {d} : pc'[e] = pc[e]
        /\ pc'[d] \in {"keyless", "failing", "loading"}
        /\ pc'[d] = "failing" => keyFile = "torn"
        /\ met' = IF others = {} THEN met ELSE met \cup others \cup {d}
        /\ UNCHANGED <<keyFile, swarmTorn, saving, mixed, cut>>
    BY <1>4 DEF Starts
  <2>2. ASSUME pc'[d] = "failing", ~cut PROVE d \in met'
    <3>1. PICK e \in Daemons : pc[e] = "creating"
      BY <2>1, <2>2
    <3>2. e \in others
      BY <2>1, <3>1 DEF Running
    <3>3. QED
      BY <2>1, <3>2
  <2>3. met \subseteq met'
    BY <2>1
  <2>4. d \notin saving
    BY <2>1
  <2>5. QED
    BY <2>1, <2>2, <2>3, <2>4
<1>5. ASSUME NEW d \in Daemons, Steps(d) PROVE FilesInv'
  <2>1. CASE Loads(d)      BY <2>1 DEF Loads, At
  <2>2. CASE Recovers(d)   BY <2>2 DEF Recovers, At
  <2>3. CASE Attaches(d)   BY <2>3 DEF Attaches, At
  <2>4. CASE Refuses(d)    BY <2>4 DEF Refuses, Gone
  <2>5. CASE Probes(d)     BY <2>5 DEF Probes, At
  <2>6. CASE Unlinks(d)    BY <2>6 DEF Unlinks, At
  <2>7. CASE Binds(d)      BY <2>7 DEF Binds, At
  <2>8. CASE Serves(d)     BY <2>8 DEF Serves, At
  <2>9. CASE BindFails(d)  BY <2>9 DEF BindFails, Gone
  <2>10. CASE Creates(d)   BY <2>10 DEF Creates, At
  <2>11. CASE Writes(d)    BY <2>11 DEF Writes, At
  <2>12. CASE GivesUp(d)   BY <2>12 DEF GivesUp, Gone
  <2>13. QED
    BY <1>5, <2>1, <2>2, <2>3, <2>4, <2>5, <2>6, <2>7, <2>8, <2>9, <2>10, <2>11, <2>12 DEF Steps
<1>6. ASSUME NEW d \in Daemons, Killed(d) PROVE FilesInv'
  BY <1>6 DEF Killed, Gone
<1>7. ASSUME NEW d \in Daemons, Launches(d) PROVE FilesInv'
  BY <1>7 DEF Launches
<1>8. ASSUME NEW d \in Daemons, Opens(d) PROVE FilesInv'
  BY <1>8 DEF Opens
<1>9. ASSUME NEW d \in Daemons, Drops(d) PROVE FilesInv'
  BY <1>9 DEF Drops
<1>10. ASSUME NEW d \in Daemons, Reconnects(d) PROVE FilesInv'
  BY <1>10 DEF Reconnects
<1>11. ASSUME NEW d \in Daemons, Saves(d) \/ Saved(d) PROVE FilesInv'
  BY <1>11 DEF Saves, Saved
<1>12. CASE UNCHANGED vars
  BY <1>12 DEF vars
<1>13. QED
  BY <1>1, <1>2, <1>3, <1>4, <1>5, <1>6, <1>7, <1>8, <1>9, <1>10, <1>11, <1>12 DEF Next

(* The daemons that gave up in a step have met another one, or read a file that
   was torn when one was killed.                                             *)
Excused == \A d \in refused' \ refused : d \in met \/ (cut /\ pc[d] \in {"failing", "loading"})

(* Refuses, BindFails and GivesUp give up, and each is excused. *)
LEMMA RefusalsAreExcused ==
  ASSUME TypeOK, NetInv, FilesInv, [Next]_vars PROVE Excused
<1> USE DEF TypeOK, Excused, NetInv, Running, process, held, net, files, history
<1>1. ASSUME NEW d \in Daemons, Refuses(d) PROVE Excused
  <2>1. sock \in Daemons /\ sock # d /\ Running(sock) /\ Running(d)
    BY <1>1 DEF Refuses, Listens
  <2>2. d \in met
    BY <2>1
  <2>3. QED
    BY <1>1, <2>2 DEF Refuses
<1>2. ASSUME NEW d \in Daemons, BindFails(d) PROVE Excused
  <2>1. d \in met
    <3>1. CASE pc[d] = "unlinked" /\ sock # None
      BY <3>1
    <3>2. CASE pc[d] = "bound" /\ port # None
      <4>1. port \in Daemons /\ port # d /\ Running(port) /\ Running(d)
        BY <3>2
      <4>2. QED  BY <4>1
    <3>3. QED  BY <1>2, <3>1, <3>2 DEF BindFails
  <2>2. QED
    BY <1>2, <2>1 DEF BindFails
<1>3. ASSUME NEW d \in Daemons, GivesUp(d) PROVE Excused
  <2>1. d \in met \/ (cut /\ pc[d] \in {"failing", "loading"})
    <3>1. CASE pc[d] = "failing"
      BY <3>1 DEF FilesInv
    <3>2. CASE pc[d] = "loading" /\ swarmTorn /\ ~cut
      <4>1. PICK e \in saving : e # d /\ Running(e)
        BY <3>2 DEF FilesInv
      <4>2. QED
        BY <3>2, <4>1
    <3>3. QED
      BY <1>3, <3>1, <3>2 DEF GivesUp
  <2>2. QED
    BY <1>3, <2>1 DEF GivesUp
<1>4. CASE UNCHANGED refused
  BY <1>4
<1>5. ASSUME NEW d \in Daemons, Starts(d) PROVE Excused
  BY <1>5 DEF Starts
<1>6. CASE \/ HolderListens \/ HolderExits \/ HolderKilled
           \/ \E d \in Daemons : \/ Saves(d) \/ Saved(d) \/ Killed(d) \/ Launches(d)
                                 \/ Opens(d) \/ Drops(d) \/ Reconnects(d)
  BY <1>4, <1>6 DEF HolderListens, HolderExits, HolderKilled, Saves, Saved, Killed, Launches,
                    Opens, Drops, Reconnects
<1>7. ASSUME NEW d \in Daemons, Steps(d), ~Refuses(d), ~BindFails(d), ~GivesUp(d)
      PROVE  Excused
  BY <1>4, <1>7 DEF Steps, Creates, Writes, Loads, Recovers, Attaches, Probes, Unlinks, Binds, Serves
<1>8. CASE UNCHANGED vars
  BY <1>4, <1>8 DEF vars
<1>9. QED
  BY <1>1, <1>2, <1>3, <1>5, <1>6, <1>7, <1>8 DEF Next

(* A daemon gives up starting only if another one ran since it started, or if
   one was killed in the middle of a write of node.key or swarm.json, the files
   it then fails to load: nothing else a killed one leaves, its socket's file
   among it, is ever in the way (api/mod.rs, bind_socket; config.rs,
   write_private).                                                           *)
THEOREM OnlyForAnother == Spec => RefusedForAnother
<1>1. Init => NetInv /\ FilesInv
  BY DEF Init, NetInv, FilesInv, Running
<1>2. TypeOK /\ NetInv /\ FilesInv /\ [Next]_vars => NetInv' /\ FilesInv'
  BY NetIsKept, FilesAreKept
<1>3. TypeOK /\ NetInv /\ FilesInv /\ [Next]_vars => [Excused]_vars
  BY RefusalsAreExcused
<1>4. QED
  BY <1>1, <1>2, <1>3, DaemonTypes, PTL DEF Spec, RefusedForAnother, Excused
-----------------------------------------------------------------------------
(* The members of a swarm.  A view only changes by records that beat the ones
   there; the file has what the view has about others, so a restart brings
   nothing older; and an admitter's list, the one that is taken as it is, finds
   its node outside the swarm.                                               *)
SwarmAssumption == M!MembershipAssumption /\ M!NoneAssumption

(* From the view v to w, x does not come back by an older record. *)
StillOut(v, w, x) ==
  M!Revoked(v, x) => M!Revoked(w, x) \/ (M!Active(w, x) /\ w[x].at > v[x].at)

Welcomes == {m \in mail : m.kind = "welcome"}

FilesTell    == \A n \in M!Nodes : \A x \in M!Nodes \ {n} : lists[n][x] = view[n][x]
OnlyOutside  == \A m \in Welcomes : ~M!InSwarm(m.to)
OneWelcome   == \A m, w \in Welcomes : m.to = w.to => m = w
SwarmInv     == FilesTell /\ OnlyOutside /\ OneWelcome

(* What the constants say of records and lists. *)
LEMMA RecordsOf ==
  ASSUME SwarmAssumption
  PROVE  /\ MaxTime \in Nat /\ N \in Nat
         /\ None \notin M!Record
         /\ \A r \in M!Record : r.at \in 1..MaxTime /\ r.revoked \in BOOLEAN /\ r.by \in M!Nodes
         /\ \A l \in M!List, x \in M!Nodes : l[x] = None \/ l[x] \in M!Record
         /\ M!Nothing \in M!List
BY DEF SwarmAssumption, M!MembershipAssumption, M!NoneAssumption, M!Record, M!List, M!Nothing

(* A record that beats another leaves its node revoked or is newer. *)
LEMMA BeatenOut ==
  ASSUME SwarmAssumption, NEW v \in M!List, NEW x \in M!Nodes, NEW r \in M!Record, M!Wins(v, x, r),
         NEW w, w[x] = r
  PROVE  StillOut(v, w, x)
BY RecordsOf DEF StillOut, M!Revoked, M!Active, M!Wins, M!Beats

(* Membership::insert_trusted *)
LEMMA InsertIsSound ==
  ASSUME SwarmAssumption, NEW v \in M!List, NEW y \in M!Nodes, NEW r \in M!Record
  PROVE  /\ M!InsertTrusted(v, y, r) \in M!List
         /\ \A x \in M!Nodes : StillOut(v, M!InsertTrusted(v, y, r), x)
         /\ \A x \in M!Nodes \ {y} : M!InsertTrusted(v, y, r)[x] = v[x]
         /\ M!InsertTrusted(v, y, r)[y] # None
<1>1. CASE M!Wins(v, y, r)
  <2>1. M!InsertTrusted(v, y, r) = [v EXCEPT ![y] = r]
    BY <1>1 DEF M!InsertTrusted
  <2>2. [v EXCEPT ![y] = r][y] = r /\ \A x \in M!Nodes \ {y} : [v EXCEPT ![y] = r][x] = v[x]
    BY DEF M!List
  <2>3. [v EXCEPT ![y] = r] \in M!List
    BY DEF M!List
  <2>4. StillOut(v, [v EXCEPT ![y] = r], y)
    BY <1>1, <2>2, BeatenOut
  <2>5. QED
    <3>1. \A x \in M!Nodes \ {y} : StillOut(v, [v EXCEPT ![y] = r], x)
      BY <2>2 DEF StillOut, M!Revoked
    <3>2. r # None
      BY RecordsOf
    <3>3. QED
      BY <2>1, <2>2, <2>3, <2>4, <3>1, <3>2
<1>2. CASE ~M!Wins(v, y, r)
  <2>1. M!InsertTrusted(v, y, r) = v /\ v[y] # None
    BY <1>2 DEF M!InsertTrusted, M!Wins
  <2>2. QED
    BY <2>1 DEF StillOut
<1>3. QED
  BY <1>1, <1>2

(* Membership::merge: whichever records the passes take, each beats the one it
   replaces.                                                                 *)
LEMMA MergeIsSound ==
  ASSUME SwarmAssumption, NEW v \in M!List, NEW heard \in M!List
  PROVE  /\ M!Merge(v, heard) \in M!List
         /\ \A x \in M!Nodes : StillOut(v, M!Merge(v, heard), x)
<1> DEFINE w == M!Merge(v, heard)
<1>1. PICK took \in SUBSET M!News(v, heard) :
        w = [y \in M!Nodes |-> IF y \in took THEN heard[y] ELSE v[y]]
  <2> DEFINE news == M!News(v, heard)
             at(taken, pass, x) ==
               [y \in M!Nodes |->
                  IF y \in news /\ (taken[y] < pass \/ (taken[y] = pass /\ y < x))
                  THEN heard[y] ELSE v[y]]
             first(taken, x) ==
               /\ taken[x] <= N => M!Vouched(at(taken, taken[x], x), heard[x])
               /\ \A pass \in 1..N : M!Vouched(at(taken, pass, x), heard[x]) => taken[x] <= pass
             chosen == CHOOSE taken \in [news -> 1..(N + 1)] : \A x \in news : first(taken, x)
  <2>1. w = at(chosen, N + 1, 1)
    BY DEF M!Merge
  <2> HIDE DEF chosen, w
  <2> DEFINE took == {y \in news : chosen[y] < N + 1 \/ (chosen[y] = N + 1 /\ y < 1)}
  <2>2. w = [y \in M!Nodes |-> IF y \in took THEN heard[y] ELSE v[y]]
    BY <2>1
  <2>3. QED
    BY <2>2
<1> HIDE DEF w
<1>2. \A x \in took : heard[x] \in M!Record /\ M!Wins(v, x, heard[x]) /\ x \in M!Nodes
  BY RecordsOf DEF M!News
<1>3. w \in M!List
  BY <1>1 DEF M!List
<1>4. ASSUME NEW x \in M!Nodes PROVE StillOut(v, w, x)
  <2>1. CASE x \in took
    BY <1>1, <1>2, <2>1, BeatenOut
  <2>2. CASE x \notin took
    BY <1>1, <2>2 DEF StillOut, M!Revoked
  <2>3. QED
    BY <2>1, <2>2
<1>5. QED
  BY <1>3, <1>4 DEF w

(* What a step does to the views. *)
Stays ==
  \A n \in M!Nodes : \A x \in M!Nodes \ {n} :
    \/ ~M!InSwarm(n)
    \/ view'[n] = M!Nothing
    \/ StillOut(view[n], view'[n], x)

(* A step that leaves the lists alone, *)
LEMMA SameStays ==
  ASSUME M!TypeOK, SwarmInv, UNCHANGED <<view, lists>>
  PROVE  Stays /\ FilesTell'
BY DEF Stays, StillOut, M!Revoked, SwarmInv, FilesTell

(* and one that writes one node's, in memory and in the file. *)
LEMMA SavedStays ==
  ASSUME SwarmAssumption, M!TypeOK, SwarmInv, NEW n \in M!Nodes, NEW v \in M!List, M!Saved(n, v),
         \A x \in M!Nodes \ {n} : \/ ~M!InSwarm(n)
                                  \/ v = M!Nothing
                                  \/ StillOut(view[n], v, x)
  PROVE  /\ view' \in [M!Nodes -> M!List] /\ lists' \in [M!Nodes -> M!List]
         /\ view'[n] = v /\ \A k \in M!Nodes \ {n} : view'[k] = view[k]
         /\ Stays /\ FilesTell'
<1>1. /\ view' = [view EXCEPT ![n] = v] /\ lists' = [lists EXCEPT ![n] = v]
      /\ view \in [M!Nodes -> M!List] /\ lists \in [M!Nodes -> M!List]
  BY DEF M!Saved, M!TypeOK
<1>2. \A k \in M!Nodes \ {n} : view'[k] = view[k] /\ lists'[k] = lists[k]
  BY <1>1
<1>3. view'[n] = v /\ lists'[n] = v
  BY <1>1
<1>4. Stays
  BY <1>2, <1>3 DEF Stays, StillOut, M!Revoked
<1>5. FilesTell'
  BY <1>2, <1>3 DEF SwarmInv, FilesTell
<1>6. QED
  BY <1>1, <1>2, <1>3, <1>4, <1>5

(* The history of a signature. *)
LEMMA SignKeeps ==
  ASSUME SwarmAssumption, M!TypeOK, NEW s \in M!Nodes, NEW x \in M!Nodes, M!Sign(s, x)
  PROVE  signed' \in 0..MaxSigned /\ signers' \subseteq M!Nodes
BY DEF M!Sign, M!TypeOK, SwarmAssumption, M!MembershipAssumption

(* What is sent is a message. *)
LEMMA SendTypes ==
  ASSUME NEW kind \in {"hello", "answer", "welcome"}, NEW a \in M!Nodes, NEW b \in M!Nodes,
         NEW v \in M!List
  PROVE  /\ M!Send(kind, a, b, v) \in M!Message
         /\ M!Send(kind, a, b, v).kind = kind /\ M!Send(kind, a, b, v).to = b
BY DEF M!Send, M!Message, M!Kinds

(* No new welcome, and nobody who waits for one comes in by another way. *)
LEMMA WireShrinks ==
  ASSUME SwarmInv, mail' \subseteq mail \cup {m \in M!Message : m.kind # "welcome"},
         \A m \in Welcomes : m \in mail' => (M!InSwarm(m.to)' => M!InSwarm(m.to))
  PROVE  OnlyOutside' /\ OneWelcome'
BY DEF SwarmInv, OnlyOutside, OneWelcome, Welcomes

(* Joining: one answer is on its way to a node outside, *)
LEMMA AdmitStays ==
  ASSUME SwarmAssumption, Rejoins = FALSE, M!TypeOK, SwarmInv,
         NEW a \in M!Nodes, NEW j \in M!Nodes, M!Admit(a, j)
  PROVE  M!TypeOK' /\ SwarmInv' /\ Stays
<1>1. PICK t \in M!Later(view[a], j) :
        LET v == M!InsertTrusted(view[a], j, [at |-> t, revoked |-> FALSE, by |-> a])
        IN  M!Saved(a, v) /\ mail' = mail \cup {M!Send("welcome", a, j, v)}
  BY DEF M!Admit
<1> DEFINE r == [at |-> t, revoked |-> FALSE, by |-> a]
           v == M!InsertTrusted(view[a], j, r)
           m == M!Send("welcome", a, j, v)
<1>2. r \in M!Record /\ view[a] \in M!List
  BY DEF M!Record, M!Later, M!TypeOK
<1>3. M!Saved(a, v) /\ mail' = mail \cup {m}
  BY <1>1
<1>4. v \in M!List /\ \A x \in M!Nodes : StillOut(view[a], v, x)
  BY <1>2, InsertIsSound
<1> HIDE DEF r, v
<1>5. m \in M!Message /\ m.kind = "welcome" /\ m.to = j
  BY <1>4, SendTypes
<1> HIDE DEF m
<1>6. /\ view' \in [M!Nodes -> M!List] /\ lists' \in [M!Nodes -> M!List]
      /\ \A k \in M!Nodes \ {a} : view'[k] = view[k]
      /\ Stays /\ FilesTell'
  BY <1>3, <1>4, SavedStays
<1>7. /\ a # j /\ M!InSwarm(a) /\ ~M!InSwarm(j) /\ \A w \in Welcomes : w.to # j
      /\ M!Sign(a, j) /\ UNCHANGED <<leaving, losses, restarts>>
  BY DEF M!Admit, Welcomes
<1>8. M!TypeOK'
  BY <1>3, <1>5, <1>6, <1>7, SignKeeps DEF M!TypeOK
<1>9. Welcomes' = Welcomes \cup {m} /\ Welcomes \subseteq M!Message
  BY <1>3, <1>5 DEF Welcomes, M!TypeOK
<1>10. OnlyOutside'
  <2> SUFFICES ASSUME NEW w \in Welcomes' PROVE ~M!InSwarm(w.to)'
    BY DEF OnlyOutside
  <2>1. ~M!InSwarm(w.to) /\ w.to \in M!Nodes
    BY <1>5, <1>7, <1>9 DEF SwarmInv, OnlyOutside, M!Message
  <2>2. w.to # a
    BY <2>1, <1>7
  <2>3. QED
    BY <2>1, <2>2, <1>6 DEF M!InSwarm
<1>11. OneWelcome'
  BY <1>5, <1>7, <1>9 DEF SwarmInv, OneWelcome
<1>12. QED
  BY <1>6, <1>8, <1>10, <1>11 DEF SwarmInv

(* and puts it in the swarm. *)
LEMMA WelcomedStays ==
  ASSUME SwarmAssumption, M!TypeOK, SwarmInv, NEW m \in mail, M!Welcomed(m)
  PROVE  M!TypeOK' /\ SwarmInv' /\ Stays
<1>1. /\ m \in Welcomes /\ M!Saved(m.to, m.list) /\ mail' = mail \ {m}
      /\ UNCHANGED <<leaving, signed, losses, restarts, signers>>
  BY DEF M!Welcomed, Welcomes
<1>2. m.to \in M!Nodes /\ m.list \in M!List /\ mail \subseteq M!Message
  BY DEF M!TypeOK, M!Message
<1>3. ~M!InSwarm(m.to)
  BY <1>1 DEF SwarmInv, OnlyOutside
<1>4. /\ view' \in [M!Nodes -> M!List] /\ lists' \in [M!Nodes -> M!List]
      /\ \A k \in M!Nodes \ {m.to} : view'[k] = view[k]
      /\ Stays /\ FilesTell'
  BY <1>1, <1>2, <1>3, SavedStays
<1>5. M!TypeOK'
  BY <1>1, <1>4 DEF M!TypeOK
<1>6. \A w \in Welcomes : w \in mail' => w.to # m.to /\ w.to \in M!Nodes
  BY <1>1, <1>2 DEF SwarmInv, OneWelcome, Welcomes, M!Message
<1>7. OnlyOutside' /\ OneWelcome'
  BY <1>1, <1>4, <1>6, WireShrinks DEF M!InSwarm
<1>8. QED
  BY <1>4, <1>5, <1>7 DEF SwarmInv

(* Revoking, *)
LEMMA RevokeStays ==
  ASSUME SwarmAssumption, M!TypeOK, SwarmInv, NEW a \in M!Nodes, NEW x \in M!Nodes, M!Revoke(a, x)
  PROVE  M!TypeOK' /\ SwarmInv' /\ Stays
<1>1. PICK t \in M!Later(view[a], x) :
        M!Saved(a, M!InsertTrusted(view[a], x, [at |-> t, revoked |-> TRUE, by |-> a]))
  BY DEF M!Revoke
<1> DEFINE r == [at |-> t, revoked |-> TRUE, by |-> a]
           v == M!InsertTrusted(view[a], x, r)
<1>2. r \in M!Record /\ view[a] \in M!List
  BY DEF M!Record, M!Later, M!TypeOK
<1>3. v \in M!List /\ \A y \in M!Nodes : StillOut(view[a], v, y)
  BY <1>2, InsertIsSound
<1>4. M!Saved(a, v)
  BY <1>1
<1> HIDE DEF r, v
<1>5. /\ view' \in [M!Nodes -> M!List] /\ lists' \in [M!Nodes -> M!List]
      /\ \A k \in M!Nodes \ {a} : view'[k] = view[k]
      /\ Stays /\ FilesTell'
  BY <1>3, <1>4, SavedStays
<1>6. M!InSwarm(a) /\ M!Sign(a, x) /\ UNCHANGED <<leaving, mail, losses, restarts>>
  BY DEF M!Revoke
<1>7. M!TypeOK'
  BY <1>5, <1>6, SignKeeps DEF M!TypeOK
<1>8. \A w \in Welcomes : w.to # a /\ w.to \in M!Nodes
  BY <1>6 DEF SwarmInv, OnlyOutside, Welcomes, M!TypeOK, M!Message
<1>9. OnlyOutside' /\ OneWelcome'
  BY <1>5, <1>6, <1>8, WireShrinks DEF M!InSwarm
<1>10. QED
  BY <1>5, <1>7, <1>9 DEF SwarmInv

(* leaving: the node's own record alone is in memory before the file, *)
LEMMA LeaveStays ==
  ASSUME SwarmAssumption, M!TypeOK, SwarmInv, NEW n \in M!Nodes, M!LeaveSigns(n) \/ M!LeaveForgets(n)
  PROVE  M!TypeOK' /\ SwarmInv' /\ Stays
<1>1. CASE M!LeaveSigns(n)
  <2>1. PICK t \in M!Later(view[n], n) :
          view' = [view EXCEPT ![n] =
                     M!InsertTrusted(@, n, [at |-> t, revoked |-> TRUE, by |-> n])]
    BY <1>1 DEF M!LeaveSigns
  <2> DEFINE r == [at |-> t, revoked |-> TRUE, by |-> n]
             v == M!InsertTrusted(view[n], n, r)
  <2>2. r \in M!Record /\ view[n] \in M!List /\ view \in [M!Nodes -> M!List]
    BY DEF M!Record, M!Later, M!TypeOK
  <2>3. v \in M!List /\ \A y \in M!Nodes \ {n} : v[y] = view[n][y]
    BY <2>2, InsertIsSound
  <2>4. view' = [view EXCEPT ![n] = v]
    BY <2>1
  <2> HIDE DEF r, v
  <2>5. /\ view' \in [M!Nodes -> M!List]
        /\ view'[n] = v /\ \A k \in M!Nodes \ {n} : view'[k] = view[k]
    BY <2>2, <2>3, <2>4
  <2>6. /\ M!InSwarm(n) /\ M!Sign(n, n) /\ leaving' = leaving \cup {n}
        /\ UNCHANGED <<lists, mail, losses, restarts>>
    BY <1>1 DEF M!LeaveSigns
  <2>7. M!TypeOK'
    BY <2>5, <2>6, SignKeeps DEF M!TypeOK
  <2>8. Stays /\ FilesTell'
    BY <2>3, <2>5, <2>6 DEF Stays, StillOut, M!Revoked, SwarmInv, FilesTell
  <2>9. \A w \in Welcomes : w.to # n /\ w.to \in M!Nodes
    BY <2>6 DEF SwarmInv, OnlyOutside, Welcomes, M!TypeOK, M!Message
  <2>10. OnlyOutside' /\ OneWelcome'
    BY <2>5, <2>6, <2>9, WireShrinks DEF M!InSwarm
  <2>11. QED
    BY <2>7, <2>8, <2>10 DEF SwarmInv
<1>2. CASE M!LeaveForgets(n)
  <2>1. /\ M!Saved(n, M!Nothing) /\ leaving' = leaving \ {n}
        /\ UNCHANGED <<mail, signed, losses, restarts, signers>>
    BY <1>2 DEF M!LeaveForgets
  <2>2. /\ view' \in [M!Nodes -> M!List] /\ lists' \in [M!Nodes -> M!List]
        /\ view'[n] = M!Nothing /\ \A k \in M!Nodes \ {n} : view'[k] = view[k]
        /\ Stays /\ FilesTell'
    BY <2>1, RecordsOf, SavedStays
  <2>3. M!TypeOK'
    BY <2>1, <2>2 DEF M!TypeOK
  <2>4. \A w \in Welcomes : w.to \in M!Nodes
    BY DEF Welcomes, M!TypeOK, M!Message
  <2>5. OnlyOutside' /\ OneWelcome'
    BY <2>1, <2>2, <2>4, WireShrinks DEF M!InSwarm
  <2>6. QED
    BY <2>2, <2>3, <2>5 DEF SwarmInv
<1>3. QED
  BY <1>1, <1>2

(* what a list that is heard does, *)
LEMMA AbsorbStays ==
  ASSUME SwarmAssumption, M!TypeOK, SwarmInv, NEW n \in M!Nodes, NEW heard \in M!List, M!Absorb(n, heard)
  PROVE  /\ view' \in [M!Nodes -> M!List] /\ lists' \in [M!Nodes -> M!List]
         /\ \A k \in M!Nodes : M!InSwarm(k)' => M!InSwarm(k)
         /\ Stays /\ FilesTell'
<1> DEFINE v == IF M!InSwarm(n) THEN M!Merge(view[n], heard) ELSE view[n]
<1>1. CASE UNCHANGED <<view, lists>>
  BY <1>1, SameStays DEF M!TypeOK, M!InSwarm
<1>2. CASE M!Saved(n, v) /\ v # view[n]
  <2>1. M!InSwarm(n)
    BY <1>2
  <2>2. view[n] \in M!List
    BY DEF M!TypeOK
  <2>3. v \in M!List /\ \A x \in M!Nodes : StillOut(view[n], v, x)
    BY <2>1, <2>2, MergeIsSound
  <2> HIDE DEF v
  <2>4. /\ view' \in [M!Nodes -> M!List] /\ lists' \in [M!Nodes -> M!List]
        /\ \A k \in M!Nodes \ {n} : view'[k] = view[k]
        /\ Stays /\ FilesTell'
    BY <1>2, <2>3, SavedStays
  <2>5. QED
    BY <2>1, <2>4 DEF M!InSwarm
<1>3. QED
  BY <1>1, <1>2 DEF M!Absorb

(* with the hello and the answer it comes in, *)
LEMMA GossipStays ==
  ASSUME SwarmAssumption, M!TypeOK, SwarmInv,
         \/ \E n, m \in M!Nodes : M!Greet(n, m)
         \/ \E m \in mail : M!Hear(m) \/ M!HearAnswer(m)
  PROVE  M!TypeOK' /\ SwarmInv' /\ Stays
<1> USE DEF M!InSwarm
<1>1. ASSUME NEW n \in M!Nodes, NEW m \in M!Nodes, M!Greet(n, m)
      PROVE  M!TypeOK' /\ SwarmInv' /\ Stays
  <2>1. /\ mail' = mail \cup {M!Send("hello", n, m, view[n])}
        /\ UNCHANGED <<view, lists, leaving, signed, losses, restarts, signers>>
    BY <1>1 DEF M!Greet
  <2>2. /\ M!Send("hello", n, m, view[n]) \in M!Message
        /\ M!Send("hello", n, m, view[n]).kind # "welcome"
    BY SendTypes DEF M!TypeOK
  <2>3. M!TypeOK'
    BY <2>1, <2>2 DEF M!TypeOK
  <2>4. OnlyOutside' /\ OneWelcome'
    BY <2>1, <2>2, WireShrinks
  <2>5. QED
    BY <2>1, <2>3, <2>4, SameStays DEF SwarmInv
<1>2. ASSUME NEW m \in mail, M!Hear(m)
      PROVE  M!TypeOK' /\ SwarmInv' /\ Stays
  <2>1. m.to \in M!Nodes /\ m.from \in M!Nodes /\ m.list \in M!List /\ mail \subseteq M!Message
    BY DEF M!TypeOK, M!Message
  <2>2. /\ view' \in [M!Nodes -> M!List] /\ lists' \in [M!Nodes -> M!List]
        /\ \A k \in M!Nodes : M!InSwarm(k)' => M!InSwarm(k)
        /\ Stays /\ FilesTell'
    <3>1. CASE UNCHANGED <<view, lists>>
      BY <3>1, SameStays DEF M!TypeOK
    <3>2. CASE M!Absorb(m.to, m.list)
      BY <2>1, <3>2, AbsorbStays
    <3>3. QED
      BY <1>2, <3>1, <3>2 DEF M!Hear
  <2>3. /\ mail' \subseteq mail \cup {M!Send("answer", m.to, m.from, view'[m.to])}
        /\ UNCHANGED <<leaving, signed, losses, restarts, signers>>
    BY <1>2 DEF M!Hear
  <2>4. /\ M!Send("answer", m.to, m.from, view'[m.to]) \in M!Message
        /\ M!Send("answer", m.to, m.from, view'[m.to]).kind # "welcome"
    <3>1. view'[m.to] \in M!List
      BY <2>1, <2>2
    <3>2. \A l \in M!List : /\ M!Send("answer", m.to, m.from, l) \in M!Message
                           /\ M!Send("answer", m.to, m.from, l).kind # "welcome"
      BY <2>1, SendTypes
    <3>3. QED
      BY <3>1, <3>2
  <2>5. M!TypeOK'
    BY <2>1, <2>2, <2>3, <2>4 DEF M!TypeOK
  <2>6. \A w \in Welcomes : w.to \in M!Nodes
    BY <2>1 DEF Welcomes, M!Message
  <2>7. OnlyOutside' /\ OneWelcome'
    BY <2>2, <2>3, <2>4, <2>6, WireShrinks
  <2>8. QED
    BY <2>2, <2>5, <2>7 DEF SwarmInv
<1>3. ASSUME NEW m \in mail, M!HearAnswer(m)
      PROVE  M!TypeOK' /\ SwarmInv' /\ Stays
  <2>1. m.to \in M!Nodes /\ m.list \in M!List /\ mail \subseteq M!Message
    BY DEF M!TypeOK, M!Message
  <2>2. /\ M!Absorb(m.to, m.list) /\ mail' = mail \ {m}
        /\ UNCHANGED <<leaving, signed, losses, restarts, signers>>
    BY <1>3 DEF M!HearAnswer
  <2>3. /\ view' \in [M!Nodes -> M!List] /\ lists' \in [M!Nodes -> M!List]
        /\ \A k \in M!Nodes : M!InSwarm(k)' => M!InSwarm(k)
        /\ Stays /\ FilesTell'
    BY <2>1, <2>2, AbsorbStays
  <2>4. M!TypeOK'
    BY <2>2, <2>3 DEF M!TypeOK
  <2>5. \A w \in Welcomes : w.to \in M!Nodes
    BY <2>1 DEF Welcomes, M!Message
  <2>6. OnlyOutside' /\ OneWelcome'
    BY <2>2, <2>3, <2>5, WireShrinks
  <2>7. QED
    BY <2>3, <2>4, <2>6 DEF SwarmInv
<1>4. QED
  BY <1>1, <1>2, <1>3

(* and losses and restarts. *)
LEMMA FaultsStay ==
  ASSUME SwarmAssumption, M!TypeOK, SwarmInv,
         (\E m \in mail : M!Lose(m)) \/ (\E n \in M!Nodes : M!Restart(n))
  PROVE  M!TypeOK' /\ SwarmInv' /\ Stays
<1>1. ASSUME NEW m \in mail, M!Lose(m) PROVE M!TypeOK' /\ SwarmInv' /\ Stays
  <2>1. /\ mail' = mail \ {m} /\ losses' \in 0..MaxLosses
        /\ UNCHANGED <<view, lists, leaving, signed, restarts, signers>>
    BY <1>1 DEF M!Lose, M!TypeOK, SwarmAssumption, M!MembershipAssumption
  <2>2. M!TypeOK'
    BY <2>1 DEF M!TypeOK
  <2>3. OnlyOutside' /\ OneWelcome'
    BY <2>1, WireShrinks DEF M!InSwarm
  <2>4. QED
    BY <2>1, <2>2, <2>3, SameStays DEF SwarmInv
<1>2. ASSUME NEW n \in M!Nodes, M!Restart(n) PROVE M!TypeOK' /\ SwarmInv' /\ Stays
  <2>1. /\ view' = [view EXCEPT ![n] = lists[n]] /\ mail' = {m \in mail : m.to # n}
        /\ leaving' = leaving \ {n} /\ restarts' \in 0..MaxRestarts
        /\ UNCHANGED <<lists, signed, losses, signers>>
    BY <1>2 DEF M!Restart, M!TypeOK, SwarmAssumption, M!MembershipAssumption
  <2>2. /\ view' \in [M!Nodes -> M!List]
        /\ view'[n] = lists[n] /\ \A k \in M!Nodes \ {n} : view'[k] = view[k]
    BY <2>1 DEF M!TypeOK
  <2>3. M!TypeOK'
    BY <2>1, <2>2 DEF M!TypeOK
  <2>4. Stays /\ FilesTell'
    BY <2>1, <2>2 DEF Stays, StillOut, M!Revoked, SwarmInv, FilesTell
  <2>5. \A w \in Welcomes : w \in mail' => w.to # n /\ w.to \in M!Nodes
    BY <2>1 DEF Welcomes, M!TypeOK, M!Message
  <2>6. OnlyOutside' /\ OneWelcome'
    BY <2>1, <2>2, <2>5, WireShrinks DEF M!InSwarm
  <2>7. QED
    BY <2>3, <2>4, <2>6 DEF SwarmInv
<1>3. QED
  BY <1>1, <1>2

(* Every step of the run. *)
LEMMA SwarmStep ==
  ASSUME SwarmAssumption, Rejoins = FALSE, M!TypeOK, SwarmInv, [MCNext]_<<part, membership, exchange, daemon>>
  PROVE  M!TypeOK' /\ SwarmInv' /\ Stays
<1>1. CASE UNCHANGED membership
  <2>1. UNCHANGED <<view, lists, leaving, mail, signed, losses, restarts, signers>>
    BY <1>1 DEF membership
  <2>2. QED
    BY <2>1, SameStays DEF SwarmInv, OnlyOutside, OneWelcome, Welcomes, M!InSwarm, M!TypeOK
<1>2. CASE M!Next
  BY <1>2, AdmitStays, WelcomedStays, RevokeStays, LeaveStays, GossipStays, FaultsStay
     DEF M!Next, M!Receive
<1>3. QED
  BY <1>1, <1>2 DEF MCNext

(* The founder's swarm. *)
LEMMA SwarmStart ==
  ASSUME SwarmAssumption, M!Init
  PROVE  M!TypeOK /\ SwarmInv
<1>1. [at |-> 1, revoked |-> FALSE, by |-> Founder] \in M!Record /\ Founder \in M!Nodes
  BY DEF SwarmAssumption, M!MembershipAssumption, M!Record
<1>2. view \in [M!Nodes -> M!List] /\ lists = view
  BY <1>1 DEF M!Init, M!List
<1>3. M!TypeOK
  BY <1>2 DEF M!Init, M!TypeOK, SwarmAssumption, M!MembershipAssumption
<1>4. QED
  BY <1>2, <1>3 DEF M!Init, SwarmInv, FilesTell, OnlyOutside, OneWelcome, Welcomes

(* For any number of nodes and messages, whatever clocks show, with losses and
   restarts, of nodes that leave before they join again: where another node was
   known as revoked, only a newer record makes it active (membership.rs, beats,
   merge; mesh/mod.rs, absorb_hello, leave, build).                          *)
THEOREM RevocationsStand ==
  SwarmAssumption /\ Rejoins = FALSE => (MCSpec => RevokedStay)
<1> SUFFICES ASSUME SwarmAssumption, Rejoins = FALSE PROVE MCSpec => RevokedStay
  OBVIOUS
<1>1. MCInit => M!TypeOK /\ SwarmInv
  BY SwarmStart DEF MCInit
<1>2. M!TypeOK /\ SwarmInv /\ [MCNext]_<<part, membership, exchange, daemon>>
        => (M!TypeOK /\ SwarmInv)' /\ Stays
  BY SwarmStep
<1> DEFINE Kept ==
      \A n \in M!Nodes : \A x \in M!Nodes \ {n} :
        M!InSwarm(n) /\ M!Revoked(view[n], x) =>
          \/ view'[n] = M!Nothing
          \/ M!Revoked(view'[n], x)
          \/ M!Active(view'[n], x) /\ view'[n][x].at > view[n][x].at
<1>3. Stays => Kept
  BY DEF Stays, StillOut
<1>4. M!TypeOK /\ SwarmInv /\ [MCNext]_<<part, membership, exchange, daemon>> => [Kept]_(M!vars)
  BY <1>2, <1>3
<1> HIDE DEF Kept
<1>5. MCSpec => []M!TypeOK /\ [][Kept]_(M!vars)
  BY <1>1, <1>2, <1>4, PTL DEF MCSpec
<1>6. QED
  BY <1>5 DEF RevokedStay, M!RevocationStands, Kept
=============================================================================
