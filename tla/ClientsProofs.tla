---------------------------- MODULE ClientsProofs ----------------------------
(* What clients see and do, proved: an editor behind `rosterd acp`          *)
(* (cli/acp.rs), the screen (cli/tui.rs), a setup (setup/mod.rs) and        *)
(* whoever follows the journal (journal/mod.rs).                            *)
(* The editor has one answer to each of its requests, what it says to a     *)
(* permission reaches the session that asked, and a request that waits for  *)
(* its agent waits for a reply that can still come.  Each is a fact about   *)
(* tables that the proxy's tasks read and write between awaits: the replies *)
(* it waits for (Once), the ids it gave to what the agents ask (IdsLead),   *)
(* and the websocket a task sends on, which may have been replaced since    *)
(* (SendersKnown).                                                          *)
EXTENDS MCClients, SequenceTheorems, FiniteSetTheorems, WellFoundedInduction,
        NaturalsInduction, TLAPS

(* A request with the session it is about. *)
Entry(r) == [id |-> r, key |-> P!Of(r).key]
Entries  == [id : P!Ids, key : Keys]

(* A websocket, as the proxy holds it. *)
Wires == [key : Keys \cup {None}, at : {"unused", "open", "closed", "relayed"}]

(* Where the task of a request is. *)
Steps == {"unsent", "joins", "connects", "asks", "sends", "waits", "left", "done"}

ProxyTypes ==
  /\ \A a \in asked : a.key \in Keys
  /\ loads \in [P!Ids -> Steps]
  /\ sender \in [P!Ids -> Sockets \cup {None}]
  /\ sessions \in [Keys -> Sockets \cup {None}]
  /\ down \in [1..MaxDown -> Keys \cup {None}]
  /\ shown \subseteq [id : 1..MaxDown, key : Keys]
  /\ socket \in [Sockets -> Wires]
  /\ frames \in [Sockets -> Seq(Entries)]
  /\ agents \in [Sockets -> SUBSET Entries]
  /\ answers \in [P!Ids -> Nat]
  /\ sent \subseteq Entries

(* A request is answered when its task is done, and what waits for a reply has
   a task that waits or has passed it on.                                     *)
Once ==
  /\ \A r \in P!Ids : answers[r] = IF loads[r] = "done" THEN 1 ELSE 0
  /\ \A e \in sent : e = Entry(e.id) /\ loads[e.id] \in {"waits", "left"}

(* What is shown can be told by its id, which leads to its session. *)
IdsLead ==
  /\ \A s \in shown : down[s.id] = s.key
  /\ \A s, t \in shown : s.id = t.id => s = t

(* A sender, in the table or in a task, is a websocket of its session. *)
SendersKnown ==
  /\ \A k \in Keys : sessions[k] # None =>
       socket[sessions[k]].key = k /\ socket[sessions[k]].at # "unused"
  /\ \A r \in P!Ids : sender[r] # None =>
       socket[sender[r]].key = P!Of(r).key /\ socket[sender[r]].at # "unused"
  /\ \A r \in P!Ids : loads[r] = "sends" => sender[r] # None

ProxyInv == ProxyTypes /\ Once /\ IdsLead /\ SendersKnown /\ P!ToTheAsker /\ P!WaitersAreServed

(* The session of a request. *)
LEMMA OfKnown ==
  ASSUME ProxyTypes, NEW r \in P!Ids PROVE P!Of(r) \in asked /\ P!Of(r).key \in Keys
<1>1. \E a \in asked : a.id = r
  BY DEF P!Ids
<1>2. P!Of(r) \in asked
  BY <1>1 DEF P!Of
<1>3. QED
  BY <1>2 DEF ProxyTypes

(* Types hold where a proxy begins. *)
LEMMA TypesStart == ASSUME P!ProxyAssumption, P!Init PROVE ProxyTypes
BY DEF P!ProxyAssumption, P!Init, ProxyTypes, Steps, Wires

(* The invariant holds where a proxy begins. *)
LEMMA ProxyStart == ASSUME P!ProxyAssumption, P!Init PROVE ProxyInv
<1>1. ProxyTypes
  BY TypesStart
<1>2. Once /\ IdsLead /\ SendersKnown /\ P!ToTheAsker /\ P!WaitersAreServed
  BY DEF P!ProxyAssumption, P!Init, Once, IdsLead, SendersKnown, P!ToTheAsker,
     P!WaitersAreServed
<1>3. QED
  BY <1>1, <1>2 DEF ProxyInv

(* What an agent asks is given the next id. *)
LEMMA DownTypes ==
  ASSUME ProxyTypes, NEW k \in Keys, P!Down(k)
  PROVE  /\ down' \in [1..MaxDown -> Keys \cup {None}]
         /\ shown' \subseteq [id : 1..MaxDown, key : Keys]
BY DEF ProxyTypes, P!Down

(* That id is new, and leads to the session. *)
LEMMA DownLeads ==
  ASSUME ProxyTypes, IdsLead, NEW k \in Keys, P!Down(k) PROVE IdsLead'
BY DEF ProxyTypes, P!Down, IdsLead

(* What the client asks is settled at the start. *)
LEMMA AskedStays == ASSUME P!Next PROVE asked' = asked
BY DEF P!Next, P!Arrives, P!Task, P!JoinFinds, P!JoinConnects, P!JoinFails, P!UpTakes,
   P!UpSends, P!Serve, P!ServeTakes, P!ServeAnswers, P!ServeCloses, P!Relay, P!RelayEnds,
   P!AgentWaits, P!ClientAnswers, P!SessionEnds, P!HangsUp, P!Exits, P!tables, P!wire, P!client

(* Types hold from step to step, whoever takes it. *)
LEMMA TypesStep ==
  ASSUME P!ProxyAssumption, ProxyTypes, P!Next PROVE ProxyTypes'
<1> USE DEF ProxyTypes, P!tables, P!wire, P!client, P!Answers, P!Replied, Steps, Wires, P!Alive
<1>1. asked' = asked /\ P!Ids' = P!Ids
  BY AskedStays DEF P!Ids
<1>0. Entries' = Entries
  BY <1>1 DEF Entries
<1> USE <1>0, <1>1
<1>2. ASSUME NEW r \in P!Ids, P!Arrives(r) PROVE ProxyTypes'
  BY <1>2 DEF P!Arrives
<1>3. ASSUME NEW r \in P!Ids, P!JoinFinds(r) PROVE ProxyTypes'
  BY <1>3 DEF P!JoinFinds
<1>4. ASSUME NEW r \in P!Ids, P!JoinConnects(r) PROVE ProxyTypes'
  BY <1>4, OfKnown, DownTypes DEF P!JoinConnects, P!Free
<1>5. ASSUME NEW r \in P!Ids, P!JoinFails(r) PROVE ProxyTypes'
  BY <1>5 DEF P!JoinFails
<1>6. ASSUME NEW r \in P!Ids, P!UpTakes(r) PROVE ProxyTypes'
  <2>1. loads' \in [P!Ids -> Steps]
    BY <1>6 DEF P!UpTakes
  <2>2. sender' \in [P!Ids -> Sockets \cup {None}]
    BY <1>6, OfKnown DEF P!UpTakes
  <2>3. answers' \in [P!Ids -> Nat]
    <3>1. \/ answers' = [q \in P!Ids |-> IF q \in {r} THEN answers[q] + 1 ELSE answers[q]]
          \/ UNCHANGED answers
      BY <1>6, Zenon DEF P!UpTakes
    <3>2. answers \in [P!Ids -> Nat]
      OBVIOUS
    <3> HIDE DEF ProxyTypes
    <3>3. QED
      BY <3>1, <3>2
  <2>4. UNCHANGED <<sessions, sent, down, shown, socket, frames, agents>>
    BY <1>6 DEF P!UpTakes
  <2>5. QED
    BY <2>1, <2>2, <2>3, <2>4
<1>7. ASSUME NEW r \in P!Ids, P!UpSends(r) PROVE ProxyTypes'
  <2>1. Entry(r) \in Entries
    BY OfKnown DEF Entry, Entries
  <2>2. loads' \in [P!Ids -> Steps] /\ sender' \in [P!Ids -> Sockets \cup {None}]
    BY <1>7 DEF P!UpSends
  <2>3. sent' \subseteq Entries
    BY <1>7, <2>1 DEF P!UpSends, Entry
  <2>4. frames' \in [Sockets -> Seq(Entries)]
    <3> HIDE DEF ProxyTypes
    <3>1. frames \in [Sockets -> Seq(Entries)]
      BY DEF ProxyTypes
    <3>2. frames' = [frames EXCEPT ![sender[r]] =
            IF socket[sender[r]].at # "relayed" THEN Append(frames[sender[r]], Entry(r))
            ELSE frames[sender[r]]]
      BY <1>7 DEF P!UpSends, Entry
    <3>3. CASE sender[r] \in Sockets
      <4>1. Append(frames[sender[r]], Entry(r)) \in Seq(Entries)
        BY <2>1, <3>1, <3>3
      <4>2. QED
        BY <3>1, <3>2, <3>3, <4>1
    <3>4. CASE sender[r] \notin Sockets
      BY <3>1, <3>2, <3>4
    <3>5. QED
      BY <3>3, <3>4
  <2>5. UNCHANGED <<sessions, down, shown, socket, agents, answers>>
    BY <1>7 DEF P!UpSends
  <2>6. QED
    BY <2>2, <2>3, <2>4, <2>5
<1>8. ASSUME NEW c \in Sockets, P!ServeTakes(c) PROVE ProxyTypes'
  <2>1. frames[c] \in Seq(Entries) /\ frames[c] # <<>>
    BY <1>8 DEF P!ServeTakes
  <2>2. Head(frames[c]) \in Entries /\ Tail(frames[c]) \in Seq(Entries)
    BY <2>1
  <2>3. frames' = [frames EXCEPT ![c] = Tail(frames[c])]
    BY <1>8 DEF P!ServeTakes
  <2>4. frames' \in [Sockets -> Seq(Entries)]
    BY <2>2, <2>3
  <2>5. agents' \in [Sockets -> SUBSET Entries]
    <3>1. \/ agents' = [agents EXCEPT ![c] = {}]
          \/ agents' = [agents EXCEPT ![c] = agents[c] \cup {Head(frames[c])}]
      BY <1>8, Zenon DEF P!ServeTakes
    <3>2. agents \in [Sockets -> SUBSET Entries]
      OBVIOUS
    <3> HIDE DEF ProxyTypes
    <3>3. QED
      BY <2>2, <3>1, <3>2
  <2>6. socket' \in [Sockets -> Wires]
    <3>1. socket' = [socket EXCEPT ![c].at = "closed"] \/ UNCHANGED socket
      BY <1>8, Zenon DEF P!ServeTakes
    <3>2. socket \in [Sockets -> Wires]
      OBVIOUS
    <3> HIDE DEF ProxyTypes
    <3>3. QED
      BY <3>1, <3>2
  <2>7. UNCHANGED <<loads, sender, sessions, sent, down, shown, answers>>
    BY <1>8 DEF P!ServeTakes
  <2>8. QED
    BY <2>4, <2>5, <2>6, <2>7
<1>9. ASSUME NEW c \in Sockets, P!ServeAnswers(c) PROVE ProxyTypes'
  <2>1. loads' \in [P!Ids -> Steps]
    BY <1>9 DEF P!ServeAnswers
  <2>2. answers' \in [P!Ids -> Nat]
    BY <1>9 DEF P!ServeAnswers
  <2>3. agents' \in [Sockets -> SUBSET Entries] /\ sent' \subseteq Entries
    BY <1>9 DEF P!ServeAnswers
  <2>4. UNCHANGED <<sender, sessions, down, shown, socket, frames>>
    BY <1>9 DEF P!ServeAnswers
  <2>5. QED
    BY <2>1, <2>2, <2>3, <2>4
<1>10. ASSUME NEW c \in Sockets, P!ServeCloses(c) PROVE ProxyTypes'
  BY <1>10 DEF P!ServeCloses
<1>11. ASSUME NEW c \in Sockets, P!RelayEnds(c) PROVE ProxyTypes'
  <2>1. loads' \in [P!Ids -> Steps] /\ answers' \in [P!Ids -> Nat]
    BY <1>11 DEF P!RelayEnds
  <2>2. socket' \in [Sockets -> Wires]
    BY <1>11 DEF P!RelayEnds
  <2>3. sessions' \in [Keys -> Sockets \cup {None}]
    BY <1>11 DEF P!RelayEnds
  <2>4. frames' \in [Sockets -> Seq(Entries)] /\ agents' \in [Sockets -> SUBSET Entries]
    BY <1>11 DEF P!RelayEnds
  <2>5. sent' \subseteq Entries
    BY <1>11 DEF P!RelayEnds
  <2>6. UNCHANGED <<sender, down, shown>>
    BY <1>11 DEF P!RelayEnds
  <2>7. QED
    BY <2>1, <2>2, <2>3, <2>4, <2>5, <2>6
<1>12. ASSUME NEW k \in Keys, P!AgentWaits(k) PROVE ProxyTypes'
  BY <1>12, DownTypes DEF P!AgentWaits
<1>13. ASSUME NEW k \in Keys, P!SessionEnds(k) PROVE ProxyTypes'
  BY <1>13 DEF P!SessionEnds
<1>14. ASSUME NEW s \in shown, P!ClientAnswers(s) PROVE ProxyTypes'
  BY <1>14 DEF P!ClientAnswers
<1>15. CASE P!HangsUp \/ P!Exits
  BY <1>15 DEF P!HangsUp, P!Exits
<1> HIDE DEF ProxyTypes
<1>16. QED
  BY <1>2, <1>3, <1>4, <1>5, <1>6, <1>7, <1>8, <1>9, <1>10, <1>11, <1>12, <1>13, <1>14, <1>15
  DEF P!Next, P!Task, P!Serve, P!Relay

(* A reply ends the tasks of what it takes from the table, and no others. *)
LEMMA RepliedOnce ==
  ASSUME ProxyTypes, Once, asked' = asked, NEW W \in SUBSET sent, P!Replied(W), sent' = sent \ W
  PROVE  Once'
<1> DEFINE rs == {e.id : e \in W}
<1>1. P!Ids' = P!Ids
  BY DEF P!Ids
<1>2. /\ answers' = [r \in P!Ids |-> IF r \in rs THEN answers[r] + 1 ELSE answers[r]]
      /\ loads' = [r \in P!Ids |-> IF r \in rs THEN "done" ELSE loads[r]]
  BY DEF P!Replied, P!Answers
<1>3. ASSUME NEW r \in P!Ids PROVE answers'[r] = IF loads'[r] = "done" THEN 1 ELSE 0
  <2>1. CASE r \in rs
    <3>1. loads[r] \in {"waits", "left"}
      BY <2>1 DEF Once
    <3>2. answers[r] = 0
      BY <3>1 DEF Once
    <3>3. QED
      BY <1>2, <2>1, <3>2
  <2>2. CASE r \notin rs
    BY <1>2, <2>2 DEF Once
  <2>3. QED
    BY <2>1, <2>2
<1>4. ASSUME NEW e \in sent' PROVE e = Entry(e.id)' /\ loads'[e.id] \in {"waits", "left"}
  <2>1. e \in sent /\ e \notin W /\ e.id \in P!Ids
    BY <1>4 DEF ProxyTypes, Entries
  <2>2. e.id \notin rs
    BY <2>1 DEF Once
  <2>3. loads'[e.id] = loads[e.id]
    BY <1>2, <2>1, <2>2
  <2>4. Entry(e.id)' = Entry(e.id)
    BY DEF Entry, P!Of
  <2>5. QED
    BY <2>1, <2>3, <2>4 DEF Once
<1>5. QED
  BY <1>1, <1>3, <1>4 DEF Once

(* No step answers a request twice, nor leaves a reply to wait for without a task. *)
LEMMA OnceStep ==
  ASSUME P!ProxyAssumption, ProxyInv, P!Next PROVE Once'
<1> USE OfKnown DEF ProxyInv, ProxyTypes, Once, Entry, Entries, P!Of, P!tables, P!wire,
                    P!client, P!Answers, P!Replied, Steps, Wires
<1>0. asked' = asked /\ P!Ids' = P!Ids
  BY AskedStays DEF P!Ids
<1> USE <1>0
<1>1. ASSUME NEW r \in P!Ids, P!Arrives(r) PROVE Once'
  BY <1>1 DEF P!Arrives
<1>2. ASSUME NEW r \in P!Ids, P!JoinFinds(r) PROVE Once'
  BY <1>2 DEF P!JoinFinds
<1>3. ASSUME NEW r \in P!Ids, P!JoinConnects(r) PROVE Once'
  BY <1>3 DEF P!JoinConnects, P!Free
<1>4. ASSUME NEW r \in P!Ids, P!JoinFails(r) PROVE Once'
  BY <1>4 DEF P!JoinFails
<1>5. ASSUME NEW r \in P!Ids, P!UpTakes(r) PROVE Once'
  <2>1. /\ loads[r] = "asks" /\ UNCHANGED sent
        /\ \/ /\ answers' = [q \in P!Ids |-> IF q \in {r} THEN answers[q] + 1 ELSE answers[q]]
              /\ loads' = [loads EXCEPT ![r] = "done"]
           \/ answers' = answers /\ loads' = [loads EXCEPT ![r] = "sends"]
    BY <1>5, Zenon DEF P!UpTakes
  <2>2. \A e \in sent : e.id # r
    BY <2>1
  <2>3. QED
    BY <2>1, <2>2
<1>6. ASSUME NEW r \in P!Ids, P!UpSends(r) PROVE Once'
  <2>1. /\ sent' = sent \cup {Entry(r)} /\ answers' = answers /\ loads[r] = "sends"
        /\ loads' = [loads EXCEPT ![r] = IF P!Of(r).kind = "load" THEN "waits" ELSE "left"]
    BY <1>6 DEF P!UpSends
  <2>2. /\ loads'[r] \in {"waits", "left"}
        /\ \A q \in P!Ids : q # r => loads'[q] = loads[q]
    BY <2>1
  <2>3. Entry(r).id = r
    OBVIOUS
  <2>4. \A e \in sent : e.id \in P!Ids /\ e.id # r
    BY <2>1
  <2>5. QED
    BY <2>1, <2>2, <2>3, <2>4
<1>7. ASSUME NEW c \in Sockets, P!ServeTakes(c) PROVE Once'
  BY <1>7 DEF P!ServeTakes
<1>8. ASSUME NEW c \in Sockets, P!ServeAnswers(c) PROVE Once'
  <2>1. PICK e \in agents[c] :
          /\ IF e \in sent THEN P!Replied({e}) ELSE UNCHANGED <<answers, loads>>
          /\ sent' = sent \ {e}
    BY <1>8 DEF P!ServeAnswers
  <2>2. CASE e \in sent
    <3>1. {e} \in SUBSET sent /\ P!Replied({e}) /\ sent' = sent \ {e}
      BY <2>1, <2>2
    <3>2. ProxyTypes /\ Once
      OBVIOUS
    <3> HIDE DEF ProxyInv, ProxyTypes, Once, P!Replied
    <3>3. QED
      BY <3>1, <3>2, RepliedOnce
  <2>3. CASE e \notin sent
    BY <2>1, <2>3
  <2>4. QED
    BY <2>2, <2>3
<1>9. ASSUME NEW c \in Sockets, P!ServeCloses(c) PROVE Once'
  BY <1>9 DEF P!ServeCloses
<1>10. ASSUME NEW c \in Sockets, P!RelayEnds(c) PROVE Once'
  <2>1. PICK W \in SUBSET sent : P!Replied(W) /\ sent' = sent \ W
    BY <1>10 DEF P!RelayEnds
  <2>2. ProxyTypes /\ Once
    OBVIOUS
  <2> HIDE DEF ProxyInv, ProxyTypes, Once, P!Replied
  <2>3. QED
    BY <2>1, <2>2, RepliedOnce
<1>11. ASSUME NEW k \in Keys, P!AgentWaits(k) PROVE Once'
  BY <1>11 DEF P!AgentWaits
<1>12. ASSUME NEW k \in Keys, P!SessionEnds(k) PROVE Once'
  BY <1>12 DEF P!SessionEnds
<1>13. ASSUME NEW s \in shown, P!ClientAnswers(s) PROVE Once'
  BY <1>13 DEF P!ClientAnswers
<1>14. CASE P!HangsUp \/ P!Exits
  BY <1>14 DEF P!HangsUp, P!Exits
<1> HIDE DEF ProxyInv, Once
<1>15. QED
  BY <1>1, <1>2, <1>3, <1>4, <1>5, <1>6, <1>7, <1>8, <1>9, <1>10, <1>11, <1>12, <1>13, <1>14
  DEF P!Next, P!Task, P!Serve, P!Relay

(* An id keeps leading to the session that asked. *)
LEMMA IdsStep ==
  ASSUME P!ProxyAssumption, ProxyInv, P!Next PROVE IdsLead'
<1> USE OfKnown DEF ProxyInv, ProxyTypes, IdsLead, P!tables, P!wire, P!client,
                    P!Answers, P!Replied, Steps, Wires
<1>0. asked' = asked /\ P!Ids' = P!Ids /\ \A r \in P!Ids : P!Of(r)' = P!Of(r)
  BY AskedStays DEF P!Ids, P!Of
<1> USE <1>0
<1>1. ASSUME NEW r \in P!Ids, P!Arrives(r) PROVE IdsLead'
  BY <1>1 DEF P!Arrives
<1>2. ASSUME NEW r \in P!Ids, P!JoinFinds(r) PROVE IdsLead'
  BY <1>2 DEF P!JoinFinds
<1>3. ASSUME NEW r \in P!Ids, P!JoinConnects(r) PROVE IdsLead'
  BY <1>3, DownLeads DEF P!JoinConnects, P!Free
<1>4. ASSUME NEW r \in P!Ids, P!JoinFails(r) PROVE IdsLead'
  BY <1>4 DEF P!JoinFails
<1>5. ASSUME NEW r \in P!Ids, P!UpTakes(r) PROVE IdsLead'
  BY <1>5 DEF P!UpTakes
<1>6. ASSUME NEW r \in P!Ids, P!UpSends(r) PROVE IdsLead'
  BY <1>6 DEF P!UpSends
<1>7. ASSUME NEW c \in Sockets, P!ServeTakes(c) PROVE IdsLead'
  BY <1>7 DEF P!ServeTakes
<1>8. ASSUME NEW c \in Sockets, P!ServeAnswers(c) PROVE IdsLead'
  BY <1>8 DEF P!ServeAnswers
<1>9. ASSUME NEW c \in Sockets, P!ServeCloses(c) PROVE IdsLead'
  BY <1>9 DEF P!ServeCloses
<1>10. ASSUME NEW c \in Sockets, P!RelayEnds(c) PROVE IdsLead'
  BY <1>10 DEF P!RelayEnds
<1>11. ASSUME NEW k \in Keys, P!AgentWaits(k) PROVE IdsLead'
  BY <1>11, DownLeads DEF P!AgentWaits
<1>12. ASSUME NEW k \in Keys, P!SessionEnds(k) PROVE IdsLead'
  BY <1>12 DEF P!SessionEnds
<1>13. ASSUME NEW s \in shown, P!ClientAnswers(s) PROVE IdsLead'
  BY <1>13 DEF P!ClientAnswers
<1>14. CASE P!HangsUp \/ P!Exits
  BY <1>14 DEF P!HangsUp, P!Exits
<1> HIDE DEF ProxyInv, IdsLead
<1>15. QED
  BY <1>1, <1>2, <1>3, <1>4, <1>5, <1>6, <1>7, <1>8, <1>9, <1>10, <1>11, <1>12, <1>13, <1>14
  DEF P!Next, P!Task, P!Serve, P!Relay

(* A task's sender stays a websocket of its session, though it may have closed. *)
LEMMA SendersStep ==
  ASSUME P!ProxyAssumption, ProxyInv, P!Next PROVE SendersKnown'
<1> USE OfKnown DEF ProxyInv, ProxyTypes, SendersKnown, P!tables, P!wire, P!client,
                    P!Answers, P!Replied, Steps, Wires
<1>0. asked' = asked /\ P!Ids' = P!Ids /\ \A r \in P!Ids : P!Of(r)' = P!Of(r)
  BY AskedStays DEF P!Ids, P!Of
<1> USE <1>0
<1>1. ASSUME NEW r \in P!Ids, P!Arrives(r) PROVE SendersKnown'
  BY <1>1 DEF P!Arrives
<1>2. ASSUME NEW r \in P!Ids, P!JoinFinds(r) PROVE SendersKnown'
  BY <1>2 DEF P!JoinFinds
<1>3. ASSUME NEW r \in P!Ids, P!JoinConnects(r) PROVE SendersKnown'
  BY <1>3 DEF P!JoinConnects, P!Free
<1>4. ASSUME NEW r \in P!Ids, P!JoinFails(r) PROVE SendersKnown'
  BY <1>4 DEF P!JoinFails
<1>5. ASSUME NEW r \in P!Ids, P!UpTakes(r) PROVE SendersKnown'
  <2>1. UNCHANGED <<socket, sessions>>
    BY <1>5 DEF P!UpTakes
  <2>2. \/ sender' = sender /\ loads' = [loads EXCEPT ![r] = "done"]
        \/ /\ sessions[P!Of(r).key] # None
           /\ sender' = [sender EXCEPT ![r] = sessions[P!Of(r).key]]
           /\ loads' = [loads EXCEPT ![r] = "sends"]
    BY <1>5, Zenon DEF P!UpTakes
  <2>3. /\ loads \in [P!Ids -> Steps] /\ sender \in [P!Ids -> Sockets \cup {None}]
        /\ P!Of(r).key \in Keys
    OBVIOUS
  <2>4. ASSUME NEW q \in P!Ids, q # r PROVE sender'[q] = sender[q] /\ loads'[q] = loads[q]
    BY <2>2, <2>3, <2>4
  <2>5. loads'[r] = "sends" => sender'[r] # None
    BY <2>2, <2>3
  <2>6. sender'[r] # None =>
          socket[sender'[r]].key = P!Of(r).key /\ socket[sender'[r]].at # "unused"
    BY <2>2, <2>3
  <2>7. ASSUME NEW q \in P!Ids
        PROVE  /\ sender'[q] # None =>
                    socket'[sender'[q]].key = P!Of(q)'.key /\ socket'[sender'[q]].at # "unused"
               /\ loads'[q] = "sends" => sender'[q] # None
    <3>1. P!Of(q)' = P!Of(q)
      OBVIOUS
    <3>2. CASE q = r
      BY <2>1, <2>5, <2>6, <3>1, <3>2
    <3>3. CASE q # r
      BY <2>1, <2>4, <3>1, <3>3
    <3>4. QED
      BY <3>2, <3>3
  <2>8. \A k \in Keys : sessions'[k] # None =>
          socket'[sessions'[k]].key = k /\ socket'[sessions'[k]].at # "unused"
    BY <2>1
  <2>9. QED
    BY <2>7, <2>8
<1>6. ASSUME NEW r \in P!Ids, P!UpSends(r) PROVE SendersKnown'
  BY <1>6 DEF P!UpSends
<1>7. ASSUME NEW c \in Sockets, P!ServeTakes(c) PROVE SendersKnown'
  <2>1. socket' = [socket EXCEPT ![c].at = "closed"] \/ UNCHANGED socket
    BY <1>7, Zenon DEF P!ServeTakes
  <2>2. UNCHANGED <<sessions, sender, loads>>
    BY <1>7 DEF P!ServeTakes
  <2>3. \A d \in Sockets : /\ socket'[d].key = socket[d].key
                           /\ socket[d].at # "unused" => socket'[d].at # "unused"
    <3>1. socket \in [Sockets -> Wires]
      OBVIOUS
    <3> HIDE DEF ProxyInv, ProxyTypes, SendersKnown
    <3>2. QED
      BY <2>1, <3>1
  <2>4. QED
    BY <2>2, <2>3
<1>8. ASSUME NEW c \in Sockets, P!ServeAnswers(c) PROVE SendersKnown'
  BY <1>8 DEF P!ServeAnswers
<1>9. ASSUME NEW c \in Sockets, P!ServeCloses(c) PROVE SendersKnown'
  BY <1>9 DEF P!ServeCloses
<1>10. ASSUME NEW c \in Sockets, P!RelayEnds(c) PROVE SendersKnown'
  BY <1>10 DEF P!RelayEnds
<1>11. ASSUME NEW k \in Keys, P!AgentWaits(k) PROVE SendersKnown'
  BY <1>11 DEF P!AgentWaits
<1>12. ASSUME NEW k \in Keys, P!SessionEnds(k) PROVE SendersKnown'
  BY <1>12 DEF P!SessionEnds
<1>13. ASSUME NEW s \in shown, P!ClientAnswers(s) PROVE SendersKnown'
  BY <1>13 DEF P!ClientAnswers
<1>14. CASE P!HangsUp \/ P!Exits
  BY <1>14 DEF P!HangsUp, P!Exits
<1> HIDE DEF ProxyInv, SendersKnown
<1>15. QED
  BY <1>1, <1>2, <1>3, <1>4, <1>5, <1>6, <1>7, <1>8, <1>9, <1>10, <1>11, <1>12, <1>13, <1>14
  DEF P!Next, P!Task, P!Serve, P!Relay

(* What a client answers goes to the session that asked. *)
LEMMA AskerStep ==
  ASSUME P!ProxyAssumption, ProxyInv, P!Next PROVE P!ToTheAsker'
<1> USE OfKnown DEF ProxyInv, ProxyTypes, P!ToTheAsker, P!tables, P!wire, P!client,
                    P!Answers, P!Replied, Steps, Wires
<1>0. asked' = asked /\ P!Ids' = P!Ids /\ \A r \in P!Ids : P!Of(r)' = P!Of(r)
  BY AskedStays DEF P!Ids, P!Of
<1> USE <1>0
<1>1. ASSUME NEW r \in P!Ids, P!Arrives(r) PROVE P!ToTheAsker'
  BY <1>1 DEF P!Arrives
<1>2. ASSUME NEW r \in P!Ids, P!JoinFinds(r) PROVE P!ToTheAsker'
  BY <1>2 DEF P!JoinFinds
<1>3. ASSUME NEW r \in P!Ids, P!JoinConnects(r) PROVE P!ToTheAsker'
  BY <1>3 DEF P!JoinConnects, P!Free
<1>4. ASSUME NEW r \in P!Ids, P!JoinFails(r) PROVE P!ToTheAsker'
  BY <1>4 DEF P!JoinFails
<1>5. ASSUME NEW r \in P!Ids, P!UpTakes(r) PROVE P!ToTheAsker'
  BY <1>5 DEF P!UpTakes
<1>6. ASSUME NEW r \in P!Ids, P!UpSends(r) PROVE P!ToTheAsker'
  BY <1>6 DEF P!UpSends
<1>7. ASSUME NEW c \in Sockets, P!ServeTakes(c) PROVE P!ToTheAsker'
  BY <1>7 DEF P!ServeTakes
<1>8. ASSUME NEW c \in Sockets, P!ServeAnswers(c) PROVE P!ToTheAsker'
  BY <1>8 DEF P!ServeAnswers
<1>9. ASSUME NEW c \in Sockets, P!ServeCloses(c) PROVE P!ToTheAsker'
  BY <1>9 DEF P!ServeCloses
<1>10. ASSUME NEW c \in Sockets, P!RelayEnds(c) PROVE P!ToTheAsker'
  BY <1>10 DEF P!RelayEnds
<1>11. ASSUME NEW k \in Keys, P!AgentWaits(k) PROVE P!ToTheAsker'
  BY <1>11 DEF P!AgentWaits
<1>12. ASSUME NEW k \in Keys, P!SessionEnds(k) PROVE P!ToTheAsker'
  BY <1>12 DEF P!SessionEnds
<1>13. ASSUME NEW s \in shown, P!ClientAnswers(s) PROVE P!ToTheAsker'
  <2>1. given' \subseteq given \cup {[meant |-> s.key, to |-> down[s.id]]} /\ s \in shown
    BY <1>13 DEF P!ClientAnswers
  <2>2. down[s.id] = s.key
    BY <2>1 DEF IdsLead
  <2>3. QED
    BY <2>1, <2>2
<1>14. CASE P!HangsUp \/ P!Exits
  BY <1>14 DEF P!HangsUp, P!Exits
<1> HIDE DEF ProxyInv, P!ToTheAsker
<1>15. QED
  BY <1>1, <1>2, <1>3, <1>4, <1>5, <1>6, <1>7, <1>8, <1>9, <1>10, <1>11, <1>12, <1>13, <1>14
  DEF P!Next, P!Task, P!Serve, P!Relay

(* A waiter on its way: a websocket has its request, or is about to say that it
   closed.                                                                    *)
OnItsWay(e, c) ==
  /\ socket[c].key = e.key
  /\ \/ socket[c].at = "closed"
     \/ /\ socket[c].at = "open"
        /\ e \in agents[c] \/ \E n \in DOMAIN frames[c] : frames[c][n] = e

(* Enough that every waiter that stays is carried on. *)
LEMMA CarriedOn ==
  ASSUME P!WaitersAreServed, slipped \subseteq slipped',
         \A e \in sent' : \/ e \in sent /\ \A c \in Sockets : OnItsWay(e, c) => OnItsWay(e, c)'
                         \/ e.id \in slipped'
                         \/ \E c \in Sockets : OnItsWay(e, c)'
  PROVE  P!WaitersAreServed'
BY DEF P!WaitersAreServed, OnItsWay

(* No step leaves a waiter behind. *)
LEMMA ServedStep ==
  ASSUME P!ProxyAssumption, ProxyInv, P!Next PROVE P!WaitersAreServed'
<1> USE DEF ProxyInv, P!tables, P!wire, P!client, Wires
<1>1. ASSUME UNCHANGED <<sent, socket, frames, agents>>, slipped \subseteq slipped'
      PROVE  P!WaitersAreServed'
  BY <1>1, CarriedOn DEF OnItsWay
<1>2. ASSUME NEW r \in P!Ids, P!JoinConnects(r) PROVE P!WaitersAreServed'
  <2>1. PICK c \in Sockets :
          /\ socket[c].at = "unused"
          /\ socket' = [socket EXCEPT ![c] = [key |-> P!Of(r).key, at |-> "open"]]
    BY <1>2 DEF P!JoinConnects, P!Free
  <2>2. UNCHANGED <<sent, frames, agents, slipped>>
    BY <1>2 DEF P!JoinConnects
  <2>3. \A d \in Sockets : d # c => socket'[d] = socket[d]
    BY <2>1 DEF ProxyTypes
  <2>4. \A e, d : OnItsWay(e, d) => d # c
    BY <2>1 DEF OnItsWay
  <2>5. \A e \in sent : \A d \in Sockets : OnItsWay(e, d) => OnItsWay(e, d)'
    BY <2>2, <2>3, <2>4 DEF OnItsWay
  <2>6. QED
    BY <2>2, <2>5, CarriedOn
<1>3. ASSUME NEW r \in P!Ids, P!UpSends(r) PROVE P!WaitersAreServed'
  <2> DEFINE c == sender[r]
  <2>1. /\ loads[r] = "sends"
        /\ sent' = sent \cup {Entry(r)}
        /\ frames' = [frames EXCEPT ![c] =
             IF socket[c].at # "relayed" THEN Append(frames[c], Entry(r)) ELSE frames[c]]
        /\ slipped' = IF socket[c].at # "relayed" THEN slipped ELSE slipped \cup {r}
        /\ UNCHANGED <<socket, agents>>
    BY <1>3 DEF P!UpSends, Entry
  <2>2. /\ c \in Sockets /\ socket[c].key = P!Of(r).key
        /\ socket[c].at \in {"open", "closed", "relayed"}
    BY <2>1 DEF ProxyTypes, SendersKnown
  <2>3. frames \in [Sockets -> Seq(Entries)] /\ Entry(r) \in Entries
    BY OfKnown DEF ProxyTypes, Entry, Entries
  <2> HIDE DEF c, ProxyInv
  <2>4. CASE socket[c].at = "relayed"
    <3>1. UNCHANGED <<frames, socket, agents>> /\ slipped' = slipped \cup {r}
      BY <2>1, <2>3, <2>4
    <3>2. \A e \in sent' : e \in sent \/ e.id \in slipped'
      BY <2>1, <3>1 DEF Entry
    <3>3. \A e, d : OnItsWay(e, d)' <=> OnItsWay(e, d)
      BY <3>1 DEF OnItsWay
    <3>4. QED
      BY <3>1, <3>2, <3>3, CarriedOn DEF ProxyInv
  <2>5. CASE socket[c].at # "relayed"
    <3>1. /\ frames' = [frames EXCEPT ![c] = Append(frames[c], Entry(r))]
          /\ UNCHANGED <<socket, agents, slipped>>
      BY <2>1, <2>5
    <3>2. frames[c] \in Seq(Entries)
      BY <2>2, <2>3
    <3>3. /\ frames'[c] = Append(frames[c], Entry(r))
          /\ \A d \in Sockets : d # c => frames'[d] = frames[d]
      BY <2>2, <2>3, <3>1
    <3>4. /\ Len(frames[c]) + 1 \in DOMAIN frames'[c]
          /\ frames'[c][Len(frames[c]) + 1] = Entry(r)
          /\ \A n \in DOMAIN frames[c] : n \in DOMAIN frames'[c] /\ frames'[c][n] = frames[c][n]
      BY <2>3, <3>2, <3>3
    <3>5. \A e \in sent : \A d \in Sockets : OnItsWay(e, d) => OnItsWay(e, d)'
      BY <3>1, <3>3, <3>4 DEF OnItsWay
    <3>6. PICK e \in Entries, d \in Sockets : e = Entry(r) /\ d = c
      BY <2>2, <2>3
    <3>7. OnItsWay(e, d)'
      BY <2>2, <2>5, <3>1, <3>4, <3>6 DEF OnItsWay, Entry
    <3>8. QED
      BY <2>1, <3>1, <3>5, <3>6, <3>7, CarriedOn DEF ProxyInv
  <2>6. QED
    BY <2>4, <2>5
<1>4. ASSUME NEW c \in Sockets, P!ServeTakes(c) PROVE P!WaitersAreServed'
  <2>1. /\ frames[c] # <<>> /\ frames' = [frames EXCEPT ![c] = Tail(frames[c])]
        /\ socket[c].at = "open" /\ UNCHANGED <<sent, slipped>>
    BY <1>4 DEF P!ServeTakes
  <2>2. \/ socket' = [socket EXCEPT ![c].at = "closed"] /\ agents' = [agents EXCEPT ![c] = {}]
        \/ UNCHANGED socket /\ agents' = [agents EXCEPT ![c] = agents[c] \cup {Head(frames[c])}]
    BY <1>4, Zenon DEF P!ServeTakes
  <2>3. /\ frames \in [Sockets -> Seq(Entries)]
        /\ agents \in [Sockets -> SUBSET Entries]
        /\ socket \in [Sockets -> Wires]
    BY DEF ProxyTypes
  <2> HIDE DEF ProxyInv
  <2>4. /\ \A d \in Sockets : d # c => /\ frames'[d] = frames[d] /\ agents'[d] = agents[d]
                                       /\ socket'[d] = socket[d]
        /\ socket'[c].key = socket[c].key
    BY <2>1, <2>2, <2>3
  <2>5. CASE socket' = [socket EXCEPT ![c].at = "closed"]
    <3>1. socket'[c].at = "closed"
      BY <2>3, <2>5
    <3>2. \A e \in sent : \A d \in Sockets : OnItsWay(e, d) => OnItsWay(e, d)'
      BY <2>4, <3>1 DEF OnItsWay
    <3>3. QED
      BY <2>1, <3>2, CarriedOn DEF ProxyInv
  <2>6. CASE /\ UNCHANGED socket
             /\ agents' = [agents EXCEPT ![c] = agents[c] \cup {Head(frames[c])}]
    <3>1. frames[c] \in Seq(Entries) /\ frames'[c] = Tail(frames[c])
      BY <2>1, <2>3
    <3>2. agents'[c] = agents[c] \cup {Head(frames[c])}
      BY <2>3, <2>6
    <3>3. ASSUME NEW n \in DOMAIN frames[c]
          PROVE  \/ frames[c][n] = Head(frames[c])
                 \/ \E m \in DOMAIN frames'[c] : frames'[c][m] = frames[c][n]
      <4>1. CASE n = 1
        BY <3>1, <4>1
      <4>2. CASE n # 1
        <5>1. n - 1 \in DOMAIN Tail(frames[c]) /\ Tail(frames[c])[n - 1] = frames[c][n]
          BY <2>1, <3>1, <4>2
        <5>2. QED
          BY <3>1, <5>1
      <4>3. QED
        BY <4>1, <4>2
    <3>4. \A e : OnItsWay(e, c) => OnItsWay(e, c)'
      BY <2>1, <2>6, <3>2, <3>3 DEF OnItsWay
    <3>5. \A e \in sent : \A d \in Sockets : OnItsWay(e, d) => OnItsWay(e, d)'
      BY <2>4, <3>4 DEF OnItsWay
    <3>6. QED
      BY <2>1, <3>5, CarriedOn DEF ProxyInv
  <2>7. QED
    BY <2>2, <2>5, <2>6
<1>5. ASSUME NEW c \in Sockets, P!ServeAnswers(c) PROVE P!WaitersAreServed'
  <2>1. PICK e \in agents[c] : /\ agents' = [agents EXCEPT ![c] = agents[c] \ {e}]
                               /\ sent' = sent \ {e}
    BY <1>5 DEF P!ServeAnswers
  <2>2. UNCHANGED <<socket, frames, slipped>>
    BY <1>5 DEF P!ServeAnswers
  <2>3. agents \in [Sockets -> SUBSET Entries]
    BY DEF ProxyTypes
  <2>4. \A f \in sent' : \A d \in Sockets : f \in agents[d] => f \in agents'[d]
    BY <2>1, <2>3
  <2>5. \A f \in sent' : \A d \in Sockets : OnItsWay(f, d) => OnItsWay(f, d)'
    BY <2>2, <2>4 DEF OnItsWay
  <2>6. QED
    BY <2>1, <2>2, <2>5, CarriedOn
<1>6. ASSUME NEW c \in Sockets, P!ServeCloses(c) PROVE P!WaitersAreServed'
  <2>1. /\ socket' = [socket EXCEPT ![c].at = "closed"] /\ agents' = [agents EXCEPT ![c] = {}]
        /\ UNCHANGED <<sent, frames, slipped>>
    BY <1>6 DEF P!ServeCloses
  <2>2. /\ agents \in [Sockets -> SUBSET Entries]
        /\ socket \in [Sockets -> Wires]
    BY DEF ProxyTypes
  <2>3. /\ \A d \in Sockets : d # c => agents'[d] = agents[d] /\ socket'[d] = socket[d]
        /\ socket'[c].key = socket[c].key /\ socket'[c].at = "closed"
    BY <2>1, <2>2
  <2>4. \A e \in sent : \A d \in Sockets : OnItsWay(e, d) => OnItsWay(e, d)'
    BY <2>1, <2>3 DEF OnItsWay
  <2>5. QED
    BY <2>1, <2>4, CarriedOn
<1>7. ASSUME NEW c \in Sockets, P!RelayEnds(c) PROVE P!WaitersAreServed'
  <2>1. /\ socket' = [socket EXCEPT ![c].at = "relayed"]
        /\ frames' = [frames EXCEPT ![c] = <<>>] /\ agents' = [agents EXCEPT ![c] = {}]
        /\ sent' = sent \ {e \in sent : e.key = socket[c].key} /\ UNCHANGED slipped
    BY <1>7 DEF P!RelayEnds
  <2>2. /\ frames \in [Sockets -> Seq(Entries)]
        /\ agents \in [Sockets -> SUBSET Entries]
        /\ socket \in [Sockets -> Wires]
    BY DEF ProxyTypes
  <2>3. \A d \in Sockets : d # c => /\ frames'[d] = frames[d] /\ agents'[d] = agents[d]
                                    /\ socket'[d] = socket[d]
    BY <2>1, <2>2
  <2>4. \A e \in sent' : e \in sent /\ ~OnItsWay(e, c)
    BY <2>1 DEF OnItsWay
  <2>5. \A e \in sent' : \A d \in Sockets : OnItsWay(e, d) => OnItsWay(e, d)'
    BY <2>3, <2>4 DEF OnItsWay
  <2>6. QED
    BY <2>1, <2>4, <2>5, CarriedOn
<1>8. ASSUME NEW r \in P!Ids,
             P!Arrives(r) \/ P!JoinFinds(r) \/ P!JoinFails(r) \/ P!UpTakes(r)
      PROVE  P!WaitersAreServed'
  BY <1>1, <1>8 DEF P!Arrives, P!JoinFinds, P!JoinFails, P!UpTakes
<1>9. ASSUME NEW k \in Keys, P!AgentWaits(k) \/ P!SessionEnds(k) PROVE P!WaitersAreServed'
  BY <1>1, <1>9 DEF P!AgentWaits, P!SessionEnds
<1>10. ASSUME NEW s \in shown, P!ClientAnswers(s) PROVE P!WaitersAreServed'
  BY <1>1, <1>10 DEF P!ClientAnswers
<1>11. CASE P!HangsUp \/ P!Exits
  BY <1>1, <1>11 DEF P!HangsUp, P!Exits
<1> HIDE DEF ProxyInv
<1>12. QED
  BY <1>2, <1>3, <1>4, <1>5, <1>6, <1>7, <1>8, <1>9, <1>10, <1>11
  DEF P!Next, P!Task, P!Serve, P!Relay

(* The editor is served (cli/acp.rs): one answer to a request, what it allows
   goes to the session that asked, and what waits can still be answered.      *)
THEOREM EditorServed ==
  ASSUME P!ProxyAssumption PROVE MCSpec => []EditorIsServed
<1>1. MCInit => ProxyInv
  BY ProxyStart DEF MCInit
<1>2. ProxyInv /\ [MCNext]_<<part, exchange, log, proxy, tui, setup, integrate>> => ProxyInv'
  <2>1. ASSUME ProxyInv, UNCHANGED proxy PROVE ProxyInv'
    BY <2>1 DEF proxy, ProxyInv, ProxyTypes, Once, IdsLead, SendersKnown, P!ToTheAsker,
       P!WaitersAreServed, Entries, Entry, P!Ids, P!Of
  <2>2. ASSUME ProxyInv, P!Next PROVE ProxyInv'
    <3>1. ProxyTypes'
      BY <2>2, TypesStep DEF ProxyInv
    <3>2. QED
      BY <2>2, <3>1, OnceStep, IdsStep, SendersStep, AskerStep, ServedStep DEF ProxyInv
  <2>3. ASSUME ProxyInv, MCNext PROVE ProxyInv'
    BY <2>1, <2>2, <2>3 DEF MCNext
  <2>4. QED
    BY <2>1, <2>3
<1>3. ProxyInv => EditorIsServed
  <2>1. ASSUME ProxyInv PROVE P!AnsweredOnce
    BY <2>1 DEF ProxyInv, Once, P!AnsweredOnce
  <2>2. QED
    BY <2>1 DEF ProxyInv, EditorIsServed
<1>4. QED
  BY <1>1, <1>2, <1>3, PTL DEF MCSpec

-----------------------------------------------------------------------------
(***************************************************************************)
(* What a person sees (cli/tui.rs: `rosterd tui`).  A key acts on the        *)
(* selection the screen showed, although boards are handled in between: the  *)
(* cursor follows its session (CursorStays) as long as it is on the board,   *)
(* and one that left does not come back with an older board (Fades,          *)
(* StaysGone).  A stream sends a line once: what is on its way or shown is   *)
(* of a stream that has seen its request (LinesKnown, LinesOnce).            *)
(***************************************************************************)
(* The rows of the board, what the screen shows, the keys, and the messages. *)
Board == [key : Keys, waits : BOOLEAN]
Shown == [key : Keys \cup {None}, waits : BOOLEAN]
Strokes == {"down", "enter", "esc", "answer", "act", "type"}
Messages ==
  [msg : {"roster"}, pieces : Seq(Board)]
  \cup [msg : {"key"}, c : Strokes, saw : Shown]
  \cup [msg : {"line"}, key : Keys, n : Nat]

(* A stream of an open session. *)
Streams == [key : Keys, seen : SUBSET Keys, on : BOOLEAN]

(* The types of the loop's state and of what is on its way to it. *)
ScreenTypes ==
  /\ live \in Seq(Keys)
  /\ polled \in {None} \cup [left : Seq(Keys), read : Seq(Board)]
  /\ events \in Seq(Messages)
  /\ pieces \in Seq(Board)
  /\ place \in Nat
  /\ open \in Keys \cup {None}
  /\ lines \in Seq(Nat)
  /\ drawn \in Shown
  /\ streams \in Seq(Streams)

(* Where a session is found: on the roster, in what the poll has of it, and in
   the boards on their way to the loop.                                       *)
Alive(k) == \E i \in 1..Len(live) : live[i] = k
Read(k) ==
  /\ polled # None
  /\ (\E i \in 1..Len(polled.left) : polled.left[i] = k) \/ T!Has(polled.read, k)
Boards == {i \in 1..Len(events) : events[i].msg = "roster"}

(* A session that left is found nowhere behind the place it is missing from. *)
Fades ==
  \A k \in Keys :
    /\ Alive(k) => (polled # None => Read(k)) /\ \A i \in Boards : T!Has(events[i].pieces, k)
    /\ Read(k) => \A i \in Boards : T!Has(events[i].pieces, k)
    /\ \A i, j \in Boards : i < j /\ T!Has(events[j].pieces, k) => T!Has(events[i].pieces, k)

(* The session on the screen is on the board, or does not come back to it. *)
StaysGone ==
  drawn.key # None /\ ~T!Has(pieces, drawn.key) =>
    /\ ~Alive(drawn.key) /\ ~Read(drawn.key)
    /\ \A i \in Boards : ~T!Has(events[i].pieces, drawn.key)

(* The keys on their way were pressed on the screen as it is, and until one is
   handled its session stays the selected one.                                 *)
KeysSaw == \A i \in 1..Len(events) : events[i].msg = "key" => events[i].saw = drawn
CursorStays == ~shifted /\ T!Has(pieces, drawn.key) => T!Selected.key = drawn.key

(* A line is of a stream that has seen its request. *)
LinesKnown ==
  /\ \A i \in 1..Len(events) : events[i].msg = "line" =>
       events[i].n \in 1..Len(streams) /\ ~T!Shows(streams[events[i].n])
  /\ \A i \in 1..Len(lines) : lines[i] \in 1..Len(streams) /\ ~T!Shows(streams[lines[i]])

(* One line per stream is on its way or shown. *)
LinesOnce ==
  /\ \A i, j \in 1..Len(events) :
       events[i].msg = "line" /\ events[j].msg = "line" /\ events[i].n = events[j].n => i = j
  /\ \A i \in 1..Len(events), j \in 1..Len(lines) :
       events[i].msg = "line" => events[i].n # lines[j]

(* The inductive invariant. *)
ScreenInv ==
  /\ ScreenTypes /\ Fades /\ StaysGone /\ KeysSaw /\ CursorStays /\ LinesKnown /\ LinesOnce
  /\ T!ActsOnTheSeen /\ T!ShownOncePerStream

(* A message is a board, a key or a line. *)
LEMMA MessageFields ==
  ASSUME NEW m \in Messages
  PROVE  /\ m.msg = "roster" => m.pieces \in Seq(Board)
         /\ m.msg = "key" => m.saw \in Shown
         /\ m.msg = "line" => m.key \in Keys /\ m.n \in Nat
BY DEF Messages

(* The message at the head is taken; the others move up. *)
LEMMA Taken ==
  ASSUME ScreenTypes, T!Takes
  PROVE  /\ events[1] \in Messages /\ Len(events) \in Nat \ {0}
         /\ events' \in Seq(Messages) /\ Len(events') = Len(events) - 1
         /\ \A i \in 1..Len(events') : i + 1 \in 1..Len(events) /\ events'[i] = events[i + 1]
BY DEF ScreenTypes, T!Takes

(* A message is added behind the others. *)
LEMMA Added ==
  ASSUME ScreenTypes, NEW m \in Messages, events' = Append(events, m)
  PROVE  /\ Len(events) \in Nat
         /\ events' \in Seq(Messages) /\ Len(events') = Len(events) + 1
         /\ events'[Len(events) + 1] = m
         /\ \A i \in 1..Len(events) : events'[i] = events[i]
BY DEF ScreenTypes

(* What App::selected returns. *)
LEMMA SelectedKnown ==
  ASSUME ScreenTypes
  PROVE  /\ T!Selected \in Shown
         /\ T!Selected.key = None \/ T!Has(pieces, T!Selected.key)
         /\ open # None => T!Selected.key \in {None, open}
<1>1. CASE open # None /\ T!Has(pieces, open)
  <2>1. PICK i \in 1..Len(pieces) : T!Selected = pieces[i] /\ pieces[i].key = open
    BY <1>1 DEF T!Selected, T!Has, T!Place
  <2>2. pieces[i] \in Board
    BY <2>1 DEF ScreenTypes
  <2>3. QED
    BY <2>1, <2>2 DEF Board, Shown, T!Has
<1>2. CASE open # None /\ ~T!Has(pieces, open)
  BY <1>2 DEF T!Selected, Shown
<1>3. CASE open = None /\ place \in 1..Len(pieces)
  <2>1. T!Selected = pieces[place] /\ pieces[place] \in Board
    BY <1>3 DEF ScreenTypes, T!Selected
  <2>2. QED
    BY <1>3, <2>1 DEF Board, Shown, T!Has
<1>4. CASE open = None /\ place \notin 1..Len(pieces)
  BY <1>4 DEF T!Selected, Shown
<1>5. QED
  BY <1>1, <1>2, <1>3, <1>4

(* What a post carries: its key's session, and what the screen showed. *)
Posted ==
  \/ post' = post
  \/ /\ post'.key = T!Selected.key /\ post'.saw = events[1].saw.key
     /\ post'.moved = shifted /\ post'.listed = T!Has(pieces, events[1].saw.key)

(* A post is such a post. *)
LEMMA PostedWell ==
  ASSUME NEW w, NEW k, k = T!Selected.key, T!Posts(w, k) PROVE Posted
BY DEF Posted, T!Posts

(* An answer posts on the selected session, or nothing. *)
LEMMA AnswerPosts == ASSUME T!Answer PROVE Posted
<1>1. CASE post' = post
  BY <1>1 DEF Posted
<1>2. CASE T!Posts("answer", T!Selected.key)
  BY <1>2, PostedWell
<1>3. QED
  BY <1>1, <1>2 DEF T!Answer

(* So does a line that is sent. *)
LEMMA LinePosts == ASSUME T!SendLine PROVE Posted
<1>1. CASE post' = post
  BY <1>1 DEF Posted
<1>2. ASSUME NEW w, T!Posts(w, T!Selected.key) PROVE Posted
  BY <1>2, PostedWell
<1>3. QED
  BY <1>1, <1>2 DEF T!SendLine

(* The streams go on with what they saw. *)
StreamsKept ==
  /\ streams' \in Seq(Streams) /\ Len(streams') >= Len(streams)
  /\ \A n \in 1..Len(streams) : streams'[n].seen = streams[n].seen /\ streams'[n].key = streams[n].key

(* Nothing happens to the streams, *)
LEMMA StreamsStay == ASSUME ScreenTypes, streams' = streams PROVE StreamsKept
BY DEF StreamsKept, ScreenTypes

(* or one is opened, *)
LEMMA StreamOpens ==
  ASSUME ScreenTypes, NEW k \in Keys,
         streams' = Append(streams, [key |-> k, seen |-> {}, on |-> TRUE])
  PROVE  StreamsKept
<1>1. [key |-> k, seen |-> {}, on |-> TRUE] \in Streams
  BY DEF Streams
<1>2. QED
  BY <1>1 DEF StreamsKept, ScreenTypes

(* or all are closed. *)
LEMMA StreamsClose ==
  ASSUME ScreenTypes, streams' = [n \in DOMAIN streams |-> [streams[n] EXCEPT !.on = FALSE]]
  PROVE  StreamsKept
<1>1. DOMAIN streams = 1..Len(streams) /\ Len(streams) \in Nat
  BY DEF ScreenTypes
<1>2. ASSUME NEW n \in 1..Len(streams)
      PROVE  streams'[n] \in Streams /\ streams'[n].seen = streams[n].seen
             /\ streams'[n].key = streams[n].key
  <2>1. streams[n] \in Streams
    BY DEF ScreenTypes
  <2>2. streams'[n] = [streams[n] EXCEPT !.on = FALSE]
    BY <1>1
  <2>3. QED
    BY <2>1, <2>2 DEF Streams
<1>3. streams' \in Seq(Streams) /\ Len(streams') = Len(streams)
  BY <1>1, <1>2
<1>4. QED
  BY <1>1, <1>2, <1>3 DEF StreamsKept

(* A key changes neither the board nor the screen; what it posts carries what
   its person saw, and a stream it opens has seen nothing.                    *)
KeyHandled ==
  /\ T!Takes /\ events[1].msg = "key" /\ shifted' = TRUE
  /\ UNCHANGED <<live, asks, polled, pieces, drawn>>
  /\ place' \in Nat /\ open' \in Keys \cup {None}
  /\ lines' \in {lines, <<>>}
  /\ StreamsKept
  /\ Posted

(* A key on the board, *)
LEMMA BoardKeys == ASSUME ScreenTypes, T!KeyOnBoard PROVE KeyHandled
<1> DEFINE Same == UNCHANGED <<open, lines, streams>>
           Still == UNCHANGED <<place, lines, open, streams>>
<1>1. T!Takes /\ events[1].msg = "key" /\ shifted' = TRUE
      /\ UNCHANGED <<live, asks, polled, pieces, drawn>>
  BY DEF T!KeyOnBoard, T!Key, T!world, T!poll
<1>2. \/ place' = T!AtMost(place + 1, IF pieces = <<>> THEN 1 ELSE Len(pieces)) /\ Same /\ post' = post
      \/ /\ T!Selected.key # None /\ open' = T!Selected.key /\ lines' = <<>>
         /\ streams' = Append(streams, [key |-> T!Selected.key, seen |-> {}, on |-> TRUE])
         /\ place' = place /\ post' = post
      \/ T!Answer /\ Still
      \/ T!Posts("act", T!Selected.key) /\ Still
      \/ Still /\ post' = post
  BY DEF T!KeyOnBoard
<1>3. place \in Nat /\ open \in Keys \cup {None} /\ Len(pieces) \in Nat
  BY DEF ScreenTypes
<1>4. T!Selected.key \in Keys \cup {None}
  BY SelectedKnown DEF Shown
<1>5. ASSUME Same, place' \in Nat, Posted PROVE KeyHandled
  BY <1>1, <1>3, <1>5, StreamsStay DEF KeyHandled
<1>6. CASE place' = T!AtMost(place + 1, IF pieces = <<>> THEN 1 ELSE Len(pieces)) /\ Same /\ post' = post
  <2>1. place' \in Nat
    BY <1>3, <1>6 DEF T!AtMost
  <2>2. QED
    BY <1>5, <1>6, <2>1 DEF Posted
<1>7. CASE /\ T!Selected.key # None /\ open' = T!Selected.key /\ lines' = <<>>
           /\ streams' = Append(streams, [key |-> T!Selected.key, seen |-> {}, on |-> TRUE])
           /\ place' = place /\ post' = post
  <2>1. StreamsKept
    BY <1>4, <1>7, StreamOpens
  <2>2. QED
    BY <1>1, <1>3, <1>4, <1>7, <2>1 DEF KeyHandled, Posted
<1>8. CASE T!Answer /\ Still
  BY <1>3, <1>5, <1>8, AnswerPosts
<1>9. CASE T!Posts("act", T!Selected.key) /\ Still
  BY <1>3, <1>5, <1>9, PostedWell
<1>10. CASE Still /\ post' = post
  BY <1>3, <1>5, <1>10 DEF Posted
<1>11. QED
  BY <1>2, <1>6, <1>7, <1>8, <1>9, <1>10

(* and one in an open session. *)
LEMMA PieceKeys == ASSUME ScreenTypes, T!KeyInPiece PROVE KeyHandled
<1>1. T!Takes /\ events[1].msg = "key" /\ shifted' = TRUE
      /\ UNCHANGED <<live, asks, polled, pieces, drawn, place, lines>>
  BY DEF T!KeyInPiece, T!Key, T!world, T!poll
<1>2. \/ /\ open' = None /\ post' = post
         /\ streams' = [n \in DOMAIN streams |-> [streams[n] EXCEPT !.on = FALSE]]
      \/ (T!SendLine \/ T!Answer \/ post' = post) /\ UNCHANGED <<open, streams>>
  BY DEF T!KeyInPiece
<1>3. place \in Nat /\ open \in Keys \cup {None}
  BY DEF ScreenTypes
<1>4. StreamsKept /\ open' \in Keys \cup {None}
  BY <1>2, <1>3, StreamsStay, StreamsClose
<1>5. Posted
  BY <1>2, LinePosts, AnswerPosts DEF Posted
<1>6. QED
  BY <1>1, <1>3, <1>4, <1>5 DEF KeyHandled

-----------------------------------------------------------------------------
(* The board the poll sends is of the sessions it read, in another order. *)
LEMMA RosterPushed ==
  ASSUME ScreenTypes, T!PollSends
  PROVE  \E m \in Messages :
           /\ m.msg = "roster" /\ events' = Append(events, m)
           /\ \A k \in Keys : T!Has(m.pieces, k) <=> T!Has(polled.read, k)
<1> DEFINE D == DOMAIN polled.read
<1>1. PICK rank \in [D -> D] :
        /\ T!Sorts(rank, polled.read)
        /\ events' = Append(events, [msg |-> "roster", pieces |-> [i \in D |-> polled.read[rank[i]]]])
  BY DEF T!PollSends
<1>2. polled # None /\ polled.read \in Seq(Board)
  BY DEF T!PollSends, ScreenTypes
<1>3. D = 1..Len(polled.read) /\ Len(polled.read) \in Nat
  BY <1>2
<1> DEFINE board == [i \in D |-> polled.read[rank[i]]]
<1>4. board \in Seq(Board) /\ Len(board) = Len(polled.read)
  BY <1>1, <1>2, <1>3
<1>5. [msg |-> "roster", pieces |-> board] \in Messages
  BY <1>4 DEF Messages
<1>6. ASSUME NEW k \in Keys PROVE T!Has(board, k) <=> T!Has(polled.read, k)
  <2>1. ASSUME T!Has(board, k) PROVE T!Has(polled.read, k)
    <3>1. PICK i \in 1..Len(polled.read) : board[i].key = k
      BY <1>4, <2>1 DEF T!Has
    <3>2. board[i] = polled.read[rank[i]] /\ rank[i] \in 1..Len(polled.read)
      BY <1>1, <1>3
    <3>3. QED
      BY <3>1, <3>2 DEF T!Has
  <2>2. ASSUME T!Has(polled.read, k) PROVE T!Has(board, k)
    <3>1. PICK i \in 1..Len(polled.read) : polled.read[i].key = k
      BY <2>2 DEF T!Has
    <3>2. PICK j \in 1..Len(polled.read) : rank[j] = i
      BY <1>1, <1>3 DEF T!Sorts
    <3>3. board[j] = polled.read[i]
      BY <1>3, <3>2
    <3>4. QED
      BY <1>4, <3>1, <3>3 DEF T!Has
  <2>3. QED
    BY <2>1, <2>2
<1>7. QED
  BY <1>1, <1>5, <1>6

(* A key that is pressed and a line of a stream are messages too. *)
LEMMA KeyPushed ==
  ASSUME ScreenTypes, T!Press
  PROVE  \E m \in Messages : m.msg = "key" /\ m.saw = drawn /\ events' = Append(events, m)
<1>1. PICK c \in Strokes : events' = Append(events, [msg |-> "key", c |-> c, saw |-> drawn])
  BY DEF T!Press, Strokes
<1>2. [msg |-> "key", c |-> c, saw |-> drawn] \in Messages
  BY DEF Messages, ScreenTypes
<1>3. QED
  BY <1>1, <1>2

(* A stream that reads a request it has not seen sends a line. *)
LEMMA LinePushed ==
  ASSUME ScreenTypes, NEW n \in 1..Len(streams), T!StreamReads(n)
  PROVE  \E m \in Messages :
           /\ m.msg = "line" /\ m.n = n /\ events' = Append(events, m)
           /\ T!Shows(streams[n]) /\ streams' = [streams EXCEPT ![n].seen = {streams[n].key}]
<1>1. streams[n] \in Streams /\ n \in Nat
  BY DEF ScreenTypes
<1>2. [msg |-> "line", key |-> streams[n].key, n |-> n] \in Messages
  BY <1>1 DEF Messages, Streams
<1>3. QED
  BY <1>2 DEF T!StreamReads

(* The stream that reads has then seen its request. *)
LEMMA StreamSeen ==
  ASSUME ScreenTypes, NEW n \in 1..Len(streams),
         streams' = [streams EXCEPT ![n].seen = {streams[n].key}]
  PROVE  /\ streams' \in Seq(Streams) /\ Len(streams') = Len(streams)
         /\ ~T!Shows(streams'[n])
         /\ \A o \in 1..Len(streams) : o # n => streams'[o] = streams[o]
<1>1. streams[n] \in Streams
  BY DEF ScreenTypes
<1>2. DOMAIN streams = 1..Len(streams) /\ Len(streams) \in Nat /\ streams \in Seq(Streams)
  BY DEF ScreenTypes
<1>3. PICK s : s = [streams[n] EXCEPT !.seen = {streams[n].key}]
  OBVIOUS
<1>4. s \in Streams /\ s.key = streams[n].key /\ s.seen = {streams[n].key}
  BY <1>1, <1>3 DEF Streams
<1>5. streams' = [streams EXCEPT ![n] = s]
  BY <1>3
<1>6. /\ streams' \in Seq(Streams) /\ Len(streams') = Len(streams)
      /\ streams'[n] = s
      /\ \A o \in 1..Len(streams) : o # n => streams'[o] = streams[o]
  <2>1. PICK q \in Seq(Streams) : q = streams
    BY <1>2
  <2>2. /\ [q EXCEPT ![n] = s] \in Seq(Streams)
        /\ Len([q EXCEPT ![n] = s]) = Len(q)
        /\ \A o \in 1..Len(q) : [q EXCEPT ![n] = s][o] = IF o = n THEN s ELSE q[o]
    BY <1>4, <2>1, ExceptSeq
  <2>3. QED
    BY <1>5, <2>1, <2>2
<1>7. QED
  BY <1>4, <1>6 DEF T!Shows

(* Two sequences, one after the other. *)
LEMMA Joined ==
  ASSUME NEW X, NEW u \in Seq(X), NEW v \in Seq(X), NEW w, w = u \o v
  PROVE  /\ w \in Seq(X) /\ Len(w) = Len(u) + Len(v)
         /\ Len(u) \in Nat /\ Len(v) \in Nat
         /\ \A i \in 1..Len(w) : i <= Len(u) => w[i] = u[i]
         /\ \A i \in 1..Len(w) : i > Len(u) => w[i] = v[i - Len(u)] /\ i - Len(u) \in 1..Len(v)
OBVIOUS

(* Without takes nothing else away and adds nothing. *)
LEMMA EndsFewer ==
  ASSUME ScreenTypes, NEW k \in Keys, T!Ends(k)
  PROVE  live' \in Seq(Keys) /\ \A l \in Keys : Alive(l)' => Alive(l)
<1> DEFINE n == CHOOSE n \in 1..Len(live) : live[n] = k
<1>1. n \in 1..Len(live) /\ Len(live) \in Nat
  BY DEF T!Ends, ScreenTypes
<1>2. live' = SubSeq(live, 1, n - 1) \o SubSeq(live, n + 1, Len(live))
  BY DEF T!Ends, T!Without
<1> HIDE DEF n
<1>3. PICK a, b \in Int : a = n - 1 /\ b = n + 1
  BY <1>1
<1>4. PICK u, v : u = SubSeq(live, 1, a) /\ v = SubSeq(live, b, Len(live)) /\ live' = u \o v
  BY <1>2, <1>3
<1>5. live \in Seq(Keys)
  BY DEF ScreenTypes
<1>6. u \in Seq(Keys) /\ Len(u) = a /\ \A i \in 1..a : u[i] = live[i]
  BY <1>1, <1>3, <1>4, <1>5
<1>7. v \in Seq(Keys) /\ Len(v) = Len(live) - b + 1 /\ \A i \in 1..Len(v) : v[i] = live[i + a + 1]
  BY <1>1, <1>3, <1>4, <1>5
<1>8. /\ live' \in Seq(Keys) /\ Len(live') = Len(u) + Len(v)
      /\ \A i \in 1..Len(live') : i <= Len(u) => live'[i] = u[i]
      /\ \A i \in 1..Len(live') : i > Len(u) => live'[i] = v[i - Len(u)] /\ i - Len(u) \in 1..Len(v)
  <2>1. u \in Seq(Keys) /\ v \in Seq(Keys)
    BY <1>6, <1>7
  <2>2. PICK w : w = live' /\ w = u \o v
    BY <1>4
  <2>3. /\ w \in Seq(Keys) /\ Len(w) = Len(u) + Len(v)
        /\ \A i \in 1..Len(w) : i <= Len(u) => w[i] = u[i]
        /\ \A i \in 1..Len(w) : i > Len(u) => w[i] = v[i - Len(u)] /\ i - Len(u) \in 1..Len(v)
    BY <2>1, <2>2, Joined
  <2>4. QED
    BY <2>2, <2>3
<1>9. ASSUME NEW i \in 1..Len(live') PROVE \E j \in 1..Len(live) : live'[i] = live[j]
  <2>1. CASE i <= a
    <3>1. live'[i] = live[i] /\ i \in 1..Len(live)
      BY <1>1, <1>3, <1>6, <1>7, <1>8, <2>1
    <3>2. QED
      BY <3>1
  <2>2. CASE i > a
    <3>1. PICK j \in 1..Len(v) : j = i - a /\ live'[i] = v[j]
      BY <1>6, <1>8, <2>2
    <3>2. live'[i] = live[i + 1] /\ i + 1 \in 1..Len(live)
      BY <1>1, <1>3, <1>7, <3>1
    <3>3. QED
      BY <3>2
  <2>3. QED
    BY <1>1, <1>3, <2>1, <2>2
<1>10. QED
  BY <1>8, <1>9 DEF Alive

(* A poll has what it read and what it has still to read. *)
LEMMA PollKeeps ==
  ASSUME ScreenTypes, T!PollReads
  PROVE  /\ polled' \in [left : Seq(Keys), read : Seq(Board)]
         /\ polled # None
         /\ \A k \in Keys : Read(k)' => Read(k)
         /\ \A k \in Keys : polled' # None => (Read(k) => Read(k)')
<1>1. polled # None /\ polled.left \in Seq(Keys) /\ polled.read \in Seq(Board) /\ polled.left # <<>>
  BY DEF T!PollReads, ScreenTypes
<1>2. PICK l \in Seq(Keys), r \in Seq(Board) : l = polled.left /\ r = polled.read
  BY <1>1
<1>3. polled' = [left |-> Tail(l), read |-> Append(r, T!Piece(Head(l)))]
  BY <1>2 DEF T!PollReads
<1>4. T!Piece(Head(l)) \in Board /\ T!Piece(Head(l)).key = l[1]
  BY <1>1, <1>2 DEF T!Piece, Board
<1>5. PICK p \in Board : p = T!Piece(Head(l)) /\ p.key = l[1]
  BY <1>4
<1>6. polled'.left = Tail(l) /\ polled'.read = Append(r, p)
  BY <1>3, <1>5
<1>7. /\ Tail(l) \in Seq(Keys) /\ Len(l) \in Nat \ {0} /\ Len(Tail(l)) = Len(l) - 1
      /\ \A i \in 1..Len(l) - 1 : Tail(l)[i] = l[i + 1]
  BY <1>1, <1>2
<1>8. /\ Append(r, p) \in Seq(Board) /\ Len(r) \in Nat /\ Len(Append(r, p)) = Len(r) + 1
      /\ Append(r, p)[Len(r) + 1] = p
      /\ \A i \in 1..Len(r) : Append(r, p)[i] = r[i]
  BY <1>2
<1>9. ASSUME NEW k \in Keys
      PROVE  (\E i \in 1..Len(Tail(l)) : Tail(l)[i] = k) \/ T!Has(Append(r, p), k)
             <=> (\E i \in 1..Len(l) : l[i] = k) \/ T!Has(r, k)
  <2>1. (\E i \in 1..Len(l) : l[i] = k) <=> l[1] = k \/ \E i \in 1..Len(Tail(l)) : Tail(l)[i] = k
    <3>1. ASSUME NEW i \in 1..Len(l), l[i] = k, i # 1 PROVE \E j \in 1..Len(Tail(l)) : Tail(l)[j] = k
      <4>1. i - 1 \in 1..Len(Tail(l)) /\ Tail(l)[i - 1] = l[i]
        BY <1>7, <3>1
      <4>2. QED
        BY <3>1, <4>1
    <3>2. ASSUME NEW i \in 1..Len(Tail(l)), Tail(l)[i] = k PROVE \E j \in 1..Len(l) : l[j] = k
      <4>1. i + 1 \in 1..Len(l) /\ l[i + 1] = k
        BY <1>7, <3>2
      <4>2. QED
        BY <4>1
    <3>3. 1 \in 1..Len(l)
      BY <1>7
    <3>4. QED
      BY <3>1, <3>2, <3>3
  <2>2. T!Has(Append(r, p), k) <=> T!Has(r, k) \/ l[1] = k
    <3>1. ASSUME NEW i \in 1..Len(Append(r, p)) PROVE i \in 1..Len(r) \/ i = Len(r) + 1
      BY <1>8, <3>1
    <3>2. 1..Len(r) \subseteq 1..Len(Append(r, p)) /\ Len(r) + 1 \in 1..Len(Append(r, p))
      BY <1>8
    <3>3. QED
      BY <1>5, <1>8, <3>1, <3>2 DEF T!Has
  <2>3. QED
    BY <2>1, <2>2
<1>10. \A k \in Keys : Read(k) <=> (\E i \in 1..Len(l) : l[i] = k) \/ T!Has(r, k)
  BY <1>1, <1>2 DEF Read
<1>11. \A k \in Keys : Read(k)' <=> polled' # None /\ ((\E i \in 1..Len(Tail(l)) : Tail(l)[i] = k) \/ T!Has(Append(r, p), k))
  BY <1>6 DEF Read
<1>12. QED
  BY <1>1, <1>3, <1>5, <1>7, <1>8, <1>9, <1>10, <1>11

-----------------------------------------------------------------------------
(* Types. *)
LEMMA ScreenTypesKept ==
  ASSUME T!ScreenAssumption, ScreenTypes, T!Next PROVE ScreenTypes'
<1>1. /\ live \in Seq(Keys) /\ polled \in {None} \cup [left : Seq(Keys), read : Seq(Board)]
      /\ events \in Seq(Messages) /\ pieces \in Seq(Board) /\ place \in Nat
      /\ open \in Keys \cup {None} /\ lines \in Seq(Nat) /\ drawn \in Shown
      /\ streams \in Seq(Streams)
  BY DEF ScreenTypes
<1>2. ASSUME NEW k \in Keys, T!Asks(k) \/ T!Settled(k) \/ T!Ends(k) PROVE ScreenTypes'
  <2>1. live' \in Seq(Keys)
    BY <1>1, <1>2, EndsFewer DEF T!Asks, T!Settled
  <2>2. UNCHANGED <<polled, events, pieces, place, open, lines, drawn, streams>>
    BY <1>2 DEF T!Asks, T!Settled, T!Ends, T!poll, T!screen
  <2>3. QED
    BY <1>1, <2>1, <2>2 DEF ScreenTypes
<1>3. CASE T!Poll
  <2>1. polled' \in [left : Seq(Keys), read : Seq(Board)]
    BY <1>1, <1>3 DEF T!Poll
  <2>2. UNCHANGED <<live, events, pieces, place, open, lines, drawn, streams>>
    BY <1>3 DEF T!Poll, T!world, T!screen
  <2>3. QED
    BY <1>1, <2>1, <2>2 DEF ScreenTypes
<1>4. CASE T!PollReads
  <2>1. polled' \in [left : Seq(Keys), read : Seq(Board)]
    BY <1>4, PollKeeps
  <2>2. UNCHANGED <<live, events, pieces, place, open, lines, drawn, streams>>
    BY <1>4 DEF T!PollReads, T!world, T!screen
  <2>3. QED
    BY <1>1, <2>1, <2>2 DEF ScreenTypes
<1>5. ASSUME NEW m \in Messages, events' = Append(events, m) PROVE events' \in Seq(Messages)
  BY <1>1, <1>5
<1>6. CASE T!PollSends
  <2>1. polled' = None /\ UNCHANGED <<live, pieces, place, open, lines, drawn, streams>>
    BY <1>6 DEF T!PollSends, T!world, T!screen
  <2>2. events' \in Seq(Messages)
    BY <1>5, <1>6, RosterPushed
  <2>3. QED
    BY <1>1, <2>1, <2>2 DEF ScreenTypes
<1>7. CASE T!Press
  <2>1. UNCHANGED <<live, polled, pieces, place, open, lines, drawn, streams>>
    BY <1>7 DEF T!Press, T!world, T!poll, T!screen
  <2>2. events' \in Seq(Messages)
    BY <1>5, <1>7, KeyPushed
  <2>3. QED
    BY <1>1, <2>1, <2>2 DEF ScreenTypes
<1>8. CASE T!HandlesRoster
  <2>1. T!Takes /\ events[1].msg = "roster" /\ pieces' = events[1].pieces
        /\ place' = T!CursorAfter(events[1].pieces)
        /\ UNCHANGED <<live, polled, open, lines, drawn, streams>>
    BY <1>8 DEF T!HandlesRoster, T!world, T!poll
  <2>2. pieces' \in Seq(Board) /\ events' \in Seq(Messages)
    BY <2>1, Taken, MessageFields
  <2>3. place' \in Nat
    BY <2>1, <2>2 DEF T!CursorAfter, T!Has, T!Place
  <2>4. QED
    BY <1>1, <2>1, <2>2, <2>3 DEF ScreenTypes
<1>9. CASE T!HandlesLine
  <2>1. T!Takes /\ events[1].msg = "line"
        /\ UNCHANGED <<live, polled, pieces, place, open, drawn, streams>>
        /\ lines' \in {lines, Append(lines, events[1].n)}
    BY <1>9 DEF T!HandlesLine, T!world, T!poll
  <2>2. events[1].n \in Nat /\ events' \in Seq(Messages)
    BY <2>1, Taken, MessageFields
  <2>3. lines' \in Seq(Nat)
    <3>1. Append(lines, events[1].n) \in Seq(Nat)
      BY <1>1, <2>2
    <3>2. QED
      BY <1>1, <2>1, <3>1
  <2>4. QED
    BY <1>1, <2>1, <2>2, <2>3 DEF ScreenTypes
<1>10. ASSUME KeyHandled PROVE ScreenTypes'
  <2>1. events' \in Seq(Messages) /\ streams' \in Seq(Streams)
    BY <1>10, Taken DEF KeyHandled, StreamsKept
  <2>2. lines' \in Seq(Nat)
    <3>1. <<>> \in Seq(Nat)
      OBVIOUS
    <3>2. QED
      BY <1>1, <1>10, <3>1 DEF KeyHandled
  <2>3. UNCHANGED <<live, polled, pieces, drawn>> /\ place' \in Nat /\ open' \in Keys \cup {None}
    BY <1>10 DEF KeyHandled
  <2>4. QED
    BY <1>1, <2>1, <2>2, <2>3 DEF ScreenTypes
<1>11. CASE T!Draw
  <2>1. drawn' \in Shown
    BY <1>11, SelectedKnown DEF T!Draw
  <2>2. UNCHANGED <<live, polled, events, pieces, place, open, lines, streams>>
    BY <1>11 DEF T!Draw, T!world, T!poll, T!screen
  <2>3. QED
    BY <1>1, <2>1, <2>2 DEF ScreenTypes
<1>12. ASSUME NEW n \in 1..Len(streams), T!StreamReads(n) PROVE ScreenTypes'
  <2>1. UNCHANGED <<live, polled, pieces, place, open, lines, drawn>>
    BY <1>12 DEF T!StreamReads, T!world, T!poll, T!screen
  <2>2. events' \in Seq(Messages) /\ streams' \in Seq(Streams)
    BY <1>5, <1>12, LinePushed, StreamSeen
  <2>3. QED
    BY <1>1, <2>1, <2>2 DEF ScreenTypes
<1>13. QED
  BY <1>2, <1>3, <1>4, <1>6, <1>7, <1>8, <1>9, <1>10, <1>11, <1>12, BoardKeys, PieceKeys
  DEF T!Next, T!Loop

-----------------------------------------------------------------------------
(* Sessions that left. *)

(* A message that is no board changes nothing of this, *)
LEMMA FadesAdded ==
  ASSUME ScreenTypes, Fades, UNCHANGED <<live, polled>>, NEW m \in Messages,
         m.msg # "roster", events' = Append(events, m)
  PROVE  /\ Fades'
         /\ \A i \in Boards' : i \in Boards /\ events'[i] = events[i]
<1>1. Boards' = {i \in 1..Len(events') : events'[i].msg = "roster"}
  BY DEF Boards
<1>2. \A i \in Boards' : i \in Boards /\ events'[i] = events[i]
  BY <1>1, Added DEF Boards
<1>3. ASSUME NEW k \in Keys PROVE (Alive(k) <=> Alive(k)') /\ (Read(k) <=> Read(k)')
  BY DEF Alive, Read, T!Has
<1>4. QED
  BY <1>2, <1>3 DEF Fades

(* nor does taking one. *)
LEMMA FadesTaken ==
  ASSUME ScreenTypes, Fades, UNCHANGED <<live, polled>>, T!Takes
  PROVE  /\ Fades'
         /\ \A i \in Boards' : i + 1 \in Boards /\ events'[i] = events[i + 1]
<1>1. Boards' = {i \in 1..Len(events') : events'[i].msg = "roster"}
  BY DEF Boards
<1>2. \A i \in Boards' : i \in Nat /\ i + 1 \in Boards /\ events'[i] = events[i + 1]
  BY <1>1, Taken DEF Boards
<1>3. ASSUME NEW k \in Keys PROVE (Alive(k) <=> Alive(k)') /\ (Read(k) <=> Read(k)')
  BY DEF Alive, Read, T!Has
<1>4. ASSUME NEW k \in Keys, NEW i \in Boards', NEW j \in Boards', i < j,
             T!Has(events'[j].pieces, k)
      PROVE  T!Has(events'[i].pieces, k)
  <2>1. i + 1 \in Boards /\ j + 1 \in Boards /\ i + 1 < j + 1
    BY <1>2, <1>4
  <2>2. T!Has(events[j + 1].pieces, k)
    BY <1>2, <1>4
  <2>3. T!Has(events[i + 1].pieces, k)
    BY <2>1, <2>2 DEF Fades
  <2>4. QED
    BY <1>2, <2>3
<1>5. QED
  BY <1>2, <1>3, <1>4 DEF Fades

(* Boards are read from what is alive and handled in their order. *)
LEMMA FadesKept == ASSUME ScreenTypes, Fades, T!Next PROVE Fades'
<1>1. ASSUME NEW k \in Keys, T!Asks(k) \/ T!Settled(k) \/ T!Ends(k) PROVE Fades'
  <2>1. \A l \in Keys : Alive(l)' => Alive(l)
    BY <1>1, EndsFewer DEF T!Asks, T!Settled, Alive
  <2>2. UNCHANGED <<polled, events>>
    BY <1>1 DEF T!Asks, T!Settled, T!Ends, T!poll
  <2>3. QED
    BY <2>1, <2>2 DEF Fades, Read, Boards, T!Has
<1>2. CASE T!Poll
  <2>1. polled' = [left |-> live, read |-> <<>>] /\ UNCHANGED <<live, events>>
    BY <1>2 DEF T!Poll, T!world
  <2>2. polled'.left = live /\ polled'.read = <<>>
    BY <2>1
  <2>3. ASSUME NEW k \in Keys PROVE /\ Read(k)' => Alive(k)
                                    /\ polled' # None => (Alive(k) => Read(k)')
    BY <2>2 DEF Read, Alive, T!Has
  <2>4. ASSUME NEW k \in Keys PROVE Alive(k) <=> Alive(k)'
    BY <2>1 DEF Alive
  <2>5. Boards' = Boards /\ events' = events
    BY <2>1 DEF Boards
  <2>6. QED
    BY <2>3, <2>4, <2>5 DEF Fades
<1>3. CASE T!PollReads
  <2>1. UNCHANGED <<live, events>>
    BY <1>3 DEF T!PollReads, T!world
  <2>2. /\ polled # None
        /\ \A k \in Keys : Read(k)' => Read(k)
        /\ \A k \in Keys : polled' # None => (Read(k) => Read(k)')
    BY <1>3, PollKeeps
  <2>3. ASSUME NEW k \in Keys PROVE Alive(k) <=> Alive(k)'
    BY <2>1 DEF Alive
  <2>4. Boards' = Boards /\ events' = events
    BY <2>1 DEF Boards
  <2>5. QED
    BY <2>2, <2>3, <2>4 DEF Fades
<1>4. CASE T!PollSends
  <2>1. polled' = None /\ UNCHANGED live /\ polled # None /\ polled.left = <<>>
    BY <1>4 DEF T!PollSends, T!world
  <2>2. PICK m \in Messages :
          /\ m.msg = "roster" /\ events' = Append(events, m)
          /\ \A k \in Keys : T!Has(m.pieces, k) <=> T!Has(polled.read, k)
    BY <1>4, RosterPushed
  <2>3. ASSUME NEW k \in Keys PROVE Read(k) <=> T!Has(m.pieces, k)
    BY <2>1, <2>2 DEF Read
  <2>4. Boards' = {i \in 1..Len(events') : events'[i].msg = "roster"}
    BY DEF Boards
  <2>5. ASSUME NEW i \in Boards'
        PROVE  \/ (i \in Boards /\ events'[i] = events[i] /\ i < Len(events) + 1)
               \/ (i = Len(events) + 1 /\ events'[i] = m)
    <3>1. /\ Len(events) \in Nat /\ Len(events') = Len(events) + 1
          /\ events'[Len(events) + 1] = m
          /\ \A o \in 1..Len(events) : events'[o] = events[o]
      BY <2>2, Added
    <3>2. i \in 1..Len(events') /\ events'[i].msg = "roster"
      BY <2>4
    <3>3. CASE i \in 1..Len(events)
      <4>1. events'[i] = events[i] /\ i < Len(events) + 1
        BY <3>1, <3>3
      <4>2. events[i].msg = "roster"
        BY <3>2, <4>1
      <4>3. i \in Boards
        BY <3>3, <4>2 DEF Boards
      <4>4. QED
        BY <4>1, <4>3
    <3>4. CASE i = Len(events) + 1
      BY <3>1, <3>4
    <3>5. QED
      BY <3>1, <3>2, <3>3, <3>4
  <2>6. ASSUME NEW k \in Keys PROVE (Alive(k) <=> Alive(k)') /\ ~Read(k)'
    BY <2>1 DEF Alive, Read
  <2>7. ASSUME NEW k \in Keys, Alive(k) \/ Read(k), NEW i \in Boards' PROVE T!Has(events'[i].pieces, k)
    BY <2>1, <2>3, <2>5, <2>7 DEF Fades
  <2>8. ASSUME NEW k \in Keys, NEW i \in Boards', NEW j \in Boards', i < j,
               T!Has(events'[j].pieces, k)
        PROVE  T!Has(events'[i].pieces, k)
    <3>1. CASE j = Len(events) + 1
      BY <2>3, <2>5, <2>7, <2>8, <3>1
    <3>2. CASE j \in Boards
      <4>1. Len(events) \in Nat /\ j < Len(events) + 1 /\ i \in Int /\ j \in Int
        BY <2>2, <2>4, <2>5, <2>8, <3>2, Added DEF Boards
      <4>2. i \in Boards /\ events'[i] = events[i] /\ events'[j] = events[j]
        BY <2>5, <2>8, <3>2, <4>1
      <4>3. QED
        BY <2>8, <3>2, <4>2 DEF Fades
    <3>3. QED
      BY <2>5, <3>1, <3>2
  <2>9. QED
    BY <2>1, <2>6, <2>7, <2>8 DEF Fades
<1>5. CASE T!Press
  BY <1>5, KeyPushed, FadesAdded DEF T!Press, T!world, T!poll
<1>6. CASE T!HandlesRoster \/ T!HandlesLine
  BY <1>6, FadesTaken DEF T!HandlesRoster, T!HandlesLine, T!world, T!poll
<1>7. ASSUME KeyHandled PROVE Fades'
  BY <1>7, FadesTaken DEF KeyHandled
<1>8. CASE T!Draw
  BY <1>8 DEF T!Draw, T!world, T!poll, Fades, Alive, Read, Boards, T!Has
<1>9. ASSUME NEW n \in 1..Len(streams), T!StreamReads(n) PROVE Fades'
  <2>1. UNCHANGED <<live, polled>>
    BY <1>9 DEF T!StreamReads, T!world, T!poll
  <2>2. PICK m \in Messages : m.msg = "line" /\ events' = Append(events, m)
    BY <1>9, LinePushed
  <2>3. QED
    BY <2>1, <2>2, FadesAdded
<1>10. QED
  BY <1>1, <1>2, <1>3, <1>4, <1>5, <1>6, <1>7, <1>8, <1>9, BoardKeys, PieceKeys
  DEF T!Next, T!Loop

(* A session that is found nowhere, stays so. *)
Missing(k) == ~Alive(k) /\ ~Read(k) /\ \A i \in Boards : ~T!Has(events[i].pieces, k)

LEMMA MissingKept ==
  ASSUME ScreenTypes, Fades, NEW l \in Keys, Missing(l), T!Next PROVE Missing(l)'
<1>1. ASSUME UNCHANGED <<live, polled>>, NEW m \in Messages, m.msg # "roster",
             events' = Append(events, m)
      PROVE  Missing(l)'
  <2>1. (Alive(l) <=> Alive(l)') /\ (Read(l) <=> Read(l)')
    BY <1>1 DEF Alive, Read, T!Has
  <2>2. \A i \in Boards' : i \in Boards /\ events'[i] = events[i]
    BY <1>1, FadesAdded
  <2>3. QED
    BY <2>1, <2>2 DEF Missing
<1>2. ASSUME UNCHANGED <<live, polled>>, T!Takes PROVE Missing(l)'
  <2>1. (Alive(l) <=> Alive(l)') /\ (Read(l) <=> Read(l)')
    BY <1>2 DEF Alive, Read, T!Has
  <2>2. \A i \in Boards' : i + 1 \in Boards /\ events'[i] = events[i + 1]
    BY <1>2, FadesTaken
  <2>3. QED
    BY <2>1, <2>2 DEF Missing
<1>3. ASSUME UNCHANGED events, Alive(l)' => Alive(l), Read(l)' => Read(l) \/ Alive(l)
      PROVE  Missing(l)'
  <2>1. Boards' = Boards
    BY <1>3 DEF Boards
  <2>2. QED
    BY <1>3, <2>1 DEF Missing
<1>4. ASSUME NEW x \in Keys, T!Asks(x) \/ T!Settled(x) \/ T!Ends(x) PROVE Missing(l)'
  <2>1. Alive(l)' => Alive(l)
    BY <1>4, EndsFewer DEF T!Asks, T!Settled, Alive
  <2>2. UNCHANGED <<polled, events>>
    BY <1>4 DEF T!Asks, T!Settled, T!Ends, T!poll
  <2>3. Read(l)' => Read(l)
    BY <2>2 DEF Read, T!Has
  <2>4. QED
    BY <1>3, <2>1, <2>2, <2>3
<1>5. CASE T!Poll
  <2>1. polled' = [left |-> live, read |-> <<>>] /\ UNCHANGED <<live, events>>
    BY <1>5 DEF T!Poll, T!world
  <2>2. polled'.left = live /\ polled'.read = <<>>
    BY <2>1
  <2>3. Read(l)' => Alive(l)
    BY <2>2 DEF Read, Alive, T!Has
  <2>4. Alive(l)' => Alive(l)
    BY <2>1 DEF Alive
  <2>5. QED
    BY <1>3, <2>1, <2>3, <2>4
<1>6. CASE T!PollReads
  <2>1. UNCHANGED <<live, events>>
    BY <1>6 DEF T!PollReads, T!world
  <2>2. Read(l)' => Read(l)
    BY <1>6, PollKeeps
  <2>3. Alive(l)' => Alive(l)
    BY <2>1 DEF Alive
  <2>4. QED
    BY <1>3, <2>1, <2>2, <2>3
<1>7. CASE T!PollSends
  <2>1. polled' = None /\ polled # None /\ polled.left = <<>> /\ UNCHANGED live
    BY <1>7 DEF T!PollSends, T!world
  <2>2. PICK m \in Messages :
          /\ m.msg = "roster" /\ events' = Append(events, m)
          /\ \A x \in Keys : T!Has(m.pieces, x) <=> T!Has(polled.read, x)
    BY <1>7, RosterPushed
  <2>3. /\ Len(events') = Len(events) + 1 /\ Len(events) \in Nat
        /\ events'[Len(events) + 1] = m
        /\ \A o \in 1..Len(events) : events'[o] = events[o]
    BY <2>2, Added
  <2>4. ~Read(l)' /\ ~Alive(l)'
    BY <2>1 DEF Missing, Read, Alive
  <2>5. ~T!Has(m.pieces, l)
    BY <2>1, <2>2 DEF Missing, Read
  <2>6. ASSUME NEW i \in Boards' PROVE ~T!Has(events'[i].pieces, l)
    <3>1. i \in 1..Len(events') /\ events'[i].msg = "roster"
      BY DEF Boards
    <3>2. CASE i = Len(events) + 1
      BY <2>3, <2>5, <3>2
    <3>3. CASE i \in 1..Len(events)
      <4>1. events'[i] = events[i]
        BY <2>3, <3>3
      <4>2. events[i].msg = "roster"
        BY <3>1, <4>1
      <4>3. i \in Boards
        BY <3>3, <4>2 DEF Boards
      <4>4. QED
        BY <4>1, <4>3 DEF Missing
    <3>4. QED
      BY <2>3, <3>1, <3>2, <3>3
  <2>7. QED
    BY <2>4, <2>6 DEF Missing
<1>8. CASE T!Press
  <2>1. UNCHANGED <<live, polled>>
    BY <1>8 DEF T!Press, T!world, T!poll
  <2>2. PICK m \in Messages : m.msg = "key" /\ events' = Append(events, m)
    BY <1>8, KeyPushed
  <2>3. QED
    BY <1>1, <2>1, <2>2
<1>9. CASE T!HandlesRoster \/ T!HandlesLine
  BY <1>2, <1>9 DEF T!HandlesRoster, T!HandlesLine, T!world, T!poll
<1>10. ASSUME KeyHandled PROVE Missing(l)'
  BY <1>2, <1>10 DEF KeyHandled
<1>11. CASE T!Draw
  <2>1. UNCHANGED <<live, polled, events>>
    BY <1>11 DEF T!Draw, T!world, T!poll
  <2>2. (Alive(l) <=> Alive(l)') /\ (Read(l) <=> Read(l)')
    BY <2>1 DEF Alive, Read, T!Has
  <2>3. QED
    BY <1>3, <2>1, <2>2
<1>12. ASSUME NEW n \in 1..Len(streams), T!StreamReads(n) PROVE Missing(l)'
  <2>1. UNCHANGED <<live, polled>>
    BY <1>12 DEF T!StreamReads, T!world, T!poll
  <2>2. PICK m \in Messages : m.msg = "line" /\ events' = Append(events, m)
    BY <1>12, LinePushed
  <2>3. QED
    BY <1>1, <2>1, <2>2
<1>13. QED
  BY <1>4, <1>5, <1>6, <1>7, <1>8, <1>9, <1>10, <1>11, <1>12, BoardKeys, PieceKeys
  DEF T!Next, T!Loop

(* What each step does to the board and the screen. *)
LEMMA BoardSteps ==
  ASSUME ScreenTypes, T!Next
  PROVE  \/ UNCHANGED <<pieces, drawn>>
         \/ T!HandlesRoster
         \/ T!Draw
<1>1. ASSUME NEW l \in Keys, T!Asks(l) \/ T!Settled(l) \/ T!Ends(l) PROVE UNCHANGED <<pieces, drawn>>
  BY <1>1 DEF T!Asks, T!Settled, T!Ends, T!screen
<1>2. CASE T!Poll \/ T!PollReads \/ T!PollSends \/ T!Press
  BY <1>2 DEF T!Poll, T!PollReads, T!PollSends, T!Press, T!screen
<1>3. CASE T!HandlesLine
  BY <1>3 DEF T!HandlesLine
<1>4. ASSUME NEW n \in 1..Len(streams), T!StreamReads(n) PROVE UNCHANGED <<pieces, drawn>>
  BY <1>4 DEF T!StreamReads, T!screen
<1>5. ASSUME KeyHandled PROVE UNCHANGED <<pieces, drawn>>
  BY <1>5 DEF KeyHandled
<1>6. QED
  BY <1>1, <1>2, <1>3, <1>4, <1>5, BoardKeys, PieceKeys DEF T!Next, T!Loop

(* The session on the screen leaves the board with a board that misses it. *)
LEMMA StaysGoneKept == ASSUME ScreenTypes, Fades, StaysGone, T!Next PROVE StaysGone'
<1>1. StaysGone <=> (drawn.key # None /\ ~T!Has(pieces, drawn.key) => Missing(drawn.key))
  BY DEF StaysGone, Missing
<1>2. StaysGone' <=> (drawn'.key # None /\ ~T!Has(pieces', drawn'.key) => Missing(drawn.key)')
  BY DEF StaysGone, Missing, T!Has
<1>3. drawn.key # None => drawn.key \in Keys
  BY DEF ScreenTypes, Shown
<1>4. CASE UNCHANGED drawn
  <2>1. SUFFICES ASSUME drawn.key # None, ~T!Has(pieces', drawn.key)
                 PROVE  Missing(drawn.key)'
    BY <1>2, <1>4
  <2>2. PICK l \in Keys : l = drawn.key
    BY <1>3, <2>1
  <2>3. ASSUME Missing(l) PROVE Missing(drawn.key)'
    <3>1. Missing(l)'
      BY <2>3, MissingKept
    <3>2. QED
      BY <1>4, <2>2, <3>1
  <2>4. CASE UNCHANGED pieces
    BY <1>1, <2>1, <2>2, <2>3, <2>4
  <2>5. CASE T!HandlesRoster
    <3>1. T!Takes /\ events[1].msg = "roster" /\ pieces' = events[1].pieces
      BY <2>5 DEF T!HandlesRoster
    <3>2. 1 \in Boards
      BY <3>1, Taken DEF Boards
    <3>3. ~T!Has(events[1].pieces, l)
      BY <2>1, <2>2, <3>1
    <3>4. ~Alive(l) /\ ~Read(l)
      BY <3>2, <3>3 DEF Fades
    <3>5. ASSUME NEW i \in Boards PROVE ~T!Has(events[i].pieces, l)
      <4>1. i = 1 \/ 1 < i
        BY DEF Boards
      <4>2. QED
        BY <3>2, <3>3, <4>1 DEF Fades
    <3>6. QED
      BY <2>3, <3>4, <3>5 DEF Missing
  <2>6. UNCHANGED pieces \/ T!HandlesRoster
    BY BoardSteps DEF T!Draw, T!screen
  <2>7. QED
    BY <2>4, <2>5, <2>6
<1>5. CASE T!Draw
  <2>1. drawn' = T!Selected /\ UNCHANGED pieces
    BY <1>5 DEF T!Draw, T!screen
  <2>2. T!Selected.key = None \/ T!Has(pieces, T!Selected.key)
    BY SelectedKnown
  <2>3. QED
    BY <1>2, <2>1, <2>2
<1>6. QED
  BY <1>4, <1>5, BoardSteps DEF T!HandlesRoster

-----------------------------------------------------------------------------
(* What keys saw. *)
LEMMA KeysSawKept == ASSUME ScreenTypes, KeysSaw, T!Next PROVE KeysSaw'
<1>1. CASE UNCHANGED <<events, drawn>>
  BY <1>1 DEF KeysSaw
<1>2. ASSUME T!Takes, UNCHANGED drawn PROVE KeysSaw'
  BY <1>2, Taken DEF KeysSaw
<1>3. ASSUME UNCHANGED drawn, NEW m \in Messages, m.msg = "key" => m.saw = drawn,
             events' = Append(events, m)
      PROVE  KeysSaw'
  <2>1. /\ Len(events') = Len(events) + 1 /\ Len(events) \in Nat
        /\ events'[Len(events) + 1] = m
        /\ \A o \in 1..Len(events) : events'[o] = events[o]
    BY <1>3, Added
  <2>2. ASSUME NEW i \in 1..Len(events'), events'[i].msg = "key" PROVE events'[i].saw = drawn
    <3>1. i \in 1..Len(events) \/ i = Len(events) + 1
      BY <2>1
    <3>2. QED
      BY <1>3, <2>1, <2>2, <3>1 DEF KeysSaw
  <2>3. QED
    BY <1>3, <2>2 DEF KeysSaw
<1>4. ASSUME NEW l \in Keys, T!Asks(l) \/ T!Settled(l) \/ T!Ends(l) PROVE KeysSaw'
  BY <1>1, <1>4 DEF T!Asks, T!Settled, T!Ends
<1>5. CASE T!Poll \/ T!PollReads
  BY <1>1, <1>5 DEF T!Poll, T!PollReads
<1>6. CASE T!PollSends
  <2>1. UNCHANGED drawn
    BY <1>6 DEF T!PollSends
  <2>2. PICK m \in Messages : m.msg = "roster" /\ events' = Append(events, m)
    BY <1>6, RosterPushed
  <2>3. QED
    BY <1>3, <2>1, <2>2
<1>7. CASE T!Press
  <2>1. UNCHANGED drawn
    BY <1>7 DEF T!Press
  <2>2. PICK m \in Messages : m.msg = "key" /\ m.saw = drawn /\ events' = Append(events, m)
    BY <1>7, KeyPushed
  <2>3. QED
    BY <1>3, <2>1, <2>2
<1>8. CASE T!HandlesRoster \/ T!HandlesLine
  BY <1>2, <1>8 DEF T!HandlesRoster, T!HandlesLine
<1>9. ASSUME KeyHandled PROVE KeysSaw'
  BY <1>2, <1>9 DEF KeyHandled
<1>10. CASE T!Draw
  BY <1>10 DEF T!Draw, KeysSaw, ScreenTypes
<1>11. ASSUME NEW n \in 1..Len(streams), T!StreamReads(n) PROVE KeysSaw'
  <2>1. UNCHANGED drawn
    BY <1>11 DEF T!StreamReads
  <2>2. PICK m \in Messages : m.msg = "line" /\ events' = Append(events, m)
    BY <1>11, LinePushed
  <2>3. QED
    BY <1>3, <2>1, <2>2
<1>12. QED
  BY <1>4, <1>5, <1>6, <1>7, <1>8, <1>9, <1>10, <1>11, BoardKeys, PieceKeys DEF T!Next, T!Loop

(* The cursor follows the session that is selected. *)
LEMMA CursorFollows ==
  ASSUME T!ScreenAssumption, ScreenTypes, T!HandlesRoster, NEW k \in Keys,
         T!Selected.key = k, T!Has(events[1].pieces, k)
  PROVE  T!Selected'.key = k
<1>1. /\ T!Takes /\ pieces' = events[1].pieces /\ events[1].msg = "roster"
      /\ place' = T!CursorAfter(events[1].pieces) /\ UNCHANGED open
  BY DEF T!HandlesRoster
<1>2. PICK q \in Seq(Board) : q = events[1].pieces
  BY <1>1, Taken, MessageFields
<1>3. /\ T!Place(q, k) \in 1..Len(q) /\ q[T!Place(q, k)].key = k
  BY <1>2 DEF T!Has, T!Place
<1>4. place' = T!Place(q, k) /\ pieces' = q
  BY <1>1, <1>2 DEF T!CursorAfter
<1>5. k # None
  BY DEF T!ScreenAssumption
<1>6. open \in {None, k}
  BY <1>5, SelectedKnown
<1>7. CASE open = None
  BY <1>1, <1>3, <1>4, <1>7 DEF T!Selected
<1>8. CASE open = k
  <2>1. T!Has(pieces', open')
    BY <1>1, <1>2, <1>4, <1>8
  <2>2. T!Selected' = pieces'[T!Place(pieces', open')]
    BY <1>1, <1>5, <1>8, <2>1 DEF T!Selected, T!Has, T!Place
  <2>3. QED
    BY <1>1, <1>3, <1>4, <1>8, <2>2
<1>9. QED
  BY <1>6, <1>7, <1>8

(* What else moves the selection is a key, or draws it. *)
LEMMA SelectionSteps ==
  ASSUME ScreenTypes, T!Next
  PROVE  \/ UNCHANGED <<pieces, place, open, drawn, shifted, post>>
         \/ T!HandlesRoster /\ UNCHANGED <<drawn, shifted, post>>
         \/ T!Draw
         \/ KeyHandled
<1>1. ASSUME NEW l \in Keys, T!Asks(l) \/ T!Settled(l) \/ T!Ends(l)
      PROVE  UNCHANGED <<pieces, place, open, drawn, shifted, post>>
  BY <1>1 DEF T!Asks, T!Settled, T!Ends, T!screen
<1>2. CASE T!Poll \/ T!PollReads \/ T!PollSends \/ T!Press
  BY <1>2 DEF T!Poll, T!PollReads, T!PollSends, T!Press, T!screen
<1>3. CASE T!HandlesLine
  BY <1>3 DEF T!HandlesLine
<1>4. CASE T!HandlesRoster
  BY <1>4 DEF T!HandlesRoster
<1>5. ASSUME NEW n \in 1..Len(streams), T!StreamReads(n)
      PROVE  UNCHANGED <<pieces, place, open, drawn, shifted, post>>
  BY <1>5 DEF T!StreamReads, T!screen
<1>6. QED
  BY <1>1, <1>2, <1>3, <1>4, <1>5, BoardKeys, PieceKeys DEF T!Next, T!Loop

(* Until a key is handled, boards and draws keep the selection. *)
LEMMA CursorStaysKept ==
  ASSUME T!ScreenAssumption, ScreenTypes, StaysGone, CursorStays, T!Next PROVE CursorStays'
<1>1. CASE UNCHANGED <<pieces, place, open, drawn, shifted, post>>
  BY <1>1 DEF CursorStays, T!Selected, T!Has, T!Place
<1>2. CASE T!HandlesRoster /\ UNCHANGED <<drawn, shifted, post>>
  <2>1. SUFFICES ASSUME ~shifted, T!Has(pieces, drawn.key)' PROVE T!Selected'.key = drawn.key
    BY <1>2 DEF CursorStays
  <2>2. /\ T!Takes /\ pieces' = events[1].pieces /\ events[1].msg = "roster"
    BY <1>2 DEF T!HandlesRoster
  <2>3. T!Has(events[1].pieces, drawn.key)
    BY <1>2, <2>1, <2>2 DEF T!Has
  <2>4. events[1].pieces \in Seq(Board) /\ 1 \in Boards
    BY <2>2, Taken, MessageFields DEF Boards
  <2>5. drawn.key \in Keys
    <3>1. PICK q \in Seq(Board) : q = events[1].pieces
      BY <2>4
    <3>2. PICK i \in 1..Len(q) : q[i].key = drawn.key
      BY <2>3, <3>1 DEF T!Has
    <3>3. q[i] \in Board
      BY <3>1, <3>2
    <3>4. QED
      BY <3>2, <3>3 DEF Board
  <2>6. T!Has(pieces, drawn.key)
    BY <2>3, <2>4, <2>5 DEF StaysGone, T!ScreenAssumption
  <2>7. T!Selected.key = drawn.key
    BY <2>1, <2>6 DEF CursorStays
  <2>8. QED
    BY <1>2, <2>3, <2>5, <2>7, CursorFollows
<1>3. CASE T!Draw
  <2>1. drawn' = T!Selected /\ UNCHANGED <<pieces, place, open>>
    BY <1>3 DEF T!Draw, T!screen
  <2>2. T!Selected' = T!Selected
    BY <2>1 DEF T!Selected, T!Has, T!Place
  <2>3. QED
    BY <2>1, <2>2 DEF CursorStays
<1>4. CASE KeyHandled
  BY <1>4 DEF KeyHandled, CursorStays
<1>5. QED
  BY <1>1, <1>2, <1>3, <1>4, SelectionSteps

(* A key acts on what its person saw. *)
LEMMA ActsOnTheSeenKept ==
  ASSUME ScreenTypes, KeysSaw, CursorStays, T!ActsOnTheSeen, T!Next PROVE T!ActsOnTheSeen'
<1>1. CASE UNCHANGED post
  BY <1>1 DEF T!ActsOnTheSeen
<1>2. CASE KeyHandled
  <2>1. events[1].saw = drawn
    BY <1>2, Taken DEF KeyHandled, KeysSaw
  <2>2. CASE /\ post'.key = T!Selected.key /\ post'.saw = events[1].saw.key
             /\ post'.moved = shifted /\ post'.listed = T!Has(pieces, events[1].saw.key)
    BY <2>1, <2>2 DEF T!ActsOnTheSeen, CursorStays
  <2>3. QED
    BY <1>1, <1>2, <2>2 DEF KeyHandled, Posted
<1>3. QED
  BY <1>1, <1>2, SelectionSteps DEF T!Draw

-----------------------------------------------------------------------------
(* A line that is known stays known. *)
LEMMA KnownStays ==
  ASSUME ScreenTypes, StreamsKept, NEW n \in 1..Len(streams), ~T!Shows(streams[n])
  PROVE  n \in 1..Len(streams') /\ ~T!Shows(streams'[n])
BY DEF ScreenTypes, StreamsKept, T!Shows

(* What is handled, or pressed, or sent by the poll, brings no line. *)
LEMMA LinesTaken ==
  ASSUME ScreenTypes, LinesKnown, LinesOnce, T!ShownOncePerStream,
         T!Takes, lines' \in {lines, <<>>}, StreamsKept
  PROVE  (LinesKnown /\ LinesOnce /\ T!ShownOncePerStream)'
<1>1. /\ Len(events') = Len(events) - 1
      /\ \A i \in 1..Len(events') : i + 1 \in 1..Len(events) /\ events'[i] = events[i + 1]
  BY Taken
<1>2. Len(lines') \in Nat /\ \A j \in 1..Len(lines') : j \in 1..Len(lines) /\ lines'[j] = lines[j]
  BY DEF ScreenTypes
<1>3. LinesKnown'
  <2>1. ASSUME NEW i \in 1..Len(events'), events'[i].msg = "line"
        PROVE  events'[i].n \in 1..Len(streams') /\ ~T!Shows(streams'[events'[i].n])
    <3>1. i + 1 \in 1..Len(events) /\ events[i + 1].msg = "line" /\ events'[i].n = events[i + 1].n
      BY <1>1, <2>1
    <3>2. events'[i].n \in 1..Len(streams) /\ ~T!Shows(streams[events'[i].n])
      BY <3>1 DEF LinesKnown
    <3>3. QED
      BY <3>2, KnownStays
  <2>2. ASSUME NEW j \in 1..Len(lines')
        PROVE  lines'[j] \in 1..Len(streams') /\ ~T!Shows(streams'[lines'[j]])
    <3>1. lines'[j] \in 1..Len(streams) /\ ~T!Shows(streams[lines'[j]])
      BY <1>2 DEF LinesKnown
    <3>2. QED
      BY <3>1, KnownStays
  <2>3. QED
    BY <2>1, <2>2 DEF LinesKnown
<1>4. LinesOnce'
  <2>1. ASSUME NEW i \in 1..Len(events'), NEW j \in 1..Len(events'), events'[i].msg = "line",
               events'[j].msg = "line", events'[i].n = events'[j].n
        PROVE  i = j
    <3>1. /\ i + 1 \in 1..Len(events) /\ j + 1 \in 1..Len(events)
          /\ events[i + 1].msg = "line" /\ events[j + 1].msg = "line"
          /\ events[i + 1].n = events[j + 1].n
      BY <1>1, <2>1
    <3>2. i + 1 = j + 1
      BY <3>1 DEF LinesOnce
    <3>3. QED
      BY <3>2
  <2>2. ASSUME NEW i \in 1..Len(events'), NEW j \in 1..Len(lines'), events'[i].msg = "line"
        PROVE  events'[i].n # lines'[j]
    <3>1. i + 1 \in 1..Len(events) /\ events[i + 1].msg = "line" /\ events'[i].n = events[i + 1].n
      BY <1>1, <2>2
    <3>2. QED
      BY <1>2, <3>1 DEF LinesOnce
  <2>3. QED
    BY <2>1, <2>2 DEF LinesOnce
<1>5. QED
  BY <1>2, <1>3, <1>4 DEF T!ShownOncePerStream

(* Another message is added behind the lines. *)
LEMMA LinesAdded ==
  ASSUME ScreenTypes, LinesKnown, LinesOnce, T!ShownOncePerStream,
         NEW m \in Messages, events' = Append(events, m), m.msg # "line",
         UNCHANGED <<lines, streams>>
  PROVE  (LinesKnown /\ LinesOnce /\ T!ShownOncePerStream)'
<1>1. /\ Len(events) \in Nat /\ Len(events') = Len(events) + 1
      /\ events'[Len(events) + 1] = m
      /\ \A i \in 1..Len(events) : events'[i] = events[i]
  BY Added
<1>2. ASSUME NEW i \in 1..Len(events'), events'[i].msg = "line"
      PROVE  i \in 1..Len(events) /\ events'[i] = events[i]
  BY <1>1, <1>2
<1>3. QED
  BY <1>2 DEF LinesKnown, LinesOnce, T!ShownOncePerStream

(* A line is shown that was not: only the one on its way was of its stream. *)
LEMMA LineShown ==
  ASSUME ScreenTypes, LinesKnown, LinesOnce, T!ShownOncePerStream, T!HandlesLine
  PROVE  (LinesKnown /\ LinesOnce /\ T!ShownOncePerStream)'
<1>1. /\ T!Takes /\ events[1].msg = "line" /\ UNCHANGED streams
      /\ lines' = lines \/ lines' = Append(lines, events[1].n)
  BY DEF T!HandlesLine
<1>2. CASE lines' = lines
  BY <1>1, <1>2, LinesTaken, StreamsStay
<1>3. CASE lines' = Append(lines, events[1].n)
  <2>1. /\ Len(events) \in Nat \ {0} /\ Len(events') = Len(events) - 1
        /\ \A i \in 1..Len(events') : i + 1 \in 1..Len(events) /\ events'[i] = events[i + 1]
    BY <1>1, Taken
  <2>2. PICK l \in Nat : l = events[1].n
    BY <1>1, Taken, MessageFields
  <2>3. /\ Len(lines) \in Nat /\ Len(lines') = Len(lines) + 1 /\ lines'[Len(lines) + 1] = l
        /\ \A j \in 1..Len(lines) : lines'[j] = lines[j]
    BY <1>3, <2>2 DEF ScreenTypes
  <2>4. l \in 1..Len(streams) /\ ~T!Shows(streams[l])
    BY <1>1, <2>1, <2>2 DEF LinesKnown
  <2>5. \A j \in 1..Len(lines) : lines[j] # l
    BY <1>1, <2>1, <2>2 DEF LinesOnce
  <2>6. \A i \in 1..Len(events') : events'[i].msg = "line" => events'[i].n # l
    <3>1. ASSUME NEW i \in 1..Len(events'), events'[i].msg = "line", events'[i].n = l PROVE FALSE
      <4>1. i + 1 = 1
        BY <1>1, <2>1, <2>2, <3>1 DEF LinesOnce
      <4>2. QED
        BY <4>1, <2>1
    <3>2. QED
      BY <3>1
  <2>7. LinesKnown'
    <3>1. ASSUME NEW i \in 1..Len(events'), events'[i].msg = "line"
          PROVE  events'[i].n \in 1..Len(streams') /\ ~T!Shows(streams'[events'[i].n])
      BY <1>1, <2>1, <3>1 DEF LinesKnown
    <3>2. ASSUME NEW j \in 1..Len(lines')
          PROVE  lines'[j] \in 1..Len(streams') /\ ~T!Shows(streams'[lines'[j]])
      <4>1. CASE j \in 1..Len(lines)
        BY <1>1, <2>3, <4>1 DEF LinesKnown
      <4>2. CASE j = Len(lines) + 1
        BY <1>1, <2>3, <2>4, <4>2
      <4>3. QED
        BY <2>3, <4>1, <4>2
    <3>3. QED
      BY <3>1, <3>2 DEF LinesKnown
  <2>8. LinesOnce'
    <3>1. ASSUME NEW i \in 1..Len(events'), NEW j \in 1..Len(events'), events'[i].msg = "line",
                 events'[j].msg = "line", events'[i].n = events'[j].n
          PROVE  i = j
      <4>1. /\ i + 1 \in 1..Len(events) /\ j + 1 \in 1..Len(events)
            /\ events[i + 1].msg = "line" /\ events[j + 1].msg = "line"
            /\ events[i + 1].n = events[j + 1].n
        BY <2>1, <3>1
      <4>2. i + 1 = j + 1
        BY <4>1 DEF LinesOnce
      <4>3. QED
        BY <4>2
    <3>2. ASSUME NEW i \in 1..Len(events'), NEW j \in 1..Len(lines'), events'[i].msg = "line"
          PROVE  events'[i].n # lines'[j]
      <4>1. CASE j \in 1..Len(lines)
        <5>1. i + 1 \in 1..Len(events) /\ events[i + 1].msg = "line" /\ events'[i].n = events[i + 1].n
          BY <2>1, <3>2
        <5>2. QED
          BY <2>3, <4>1, <5>1 DEF LinesOnce
      <4>2. CASE j = Len(lines) + 1
        BY <2>3, <2>6, <3>2, <4>2
      <4>3. QED
        BY <2>3, <4>1, <4>2
    <3>3. QED
      BY <3>1, <3>2 DEF LinesOnce
  <2>9. T!ShownOncePerStream'
    <3>1. ASSUME NEW i \in 1..Len(lines'), NEW j \in 1..Len(lines'), lines'[i] = lines'[j]
          PROVE  i = j
      BY <2>3, <2>5, <3>1 DEF T!ShownOncePerStream
    <3>2. QED
      BY <3>1 DEF T!ShownOncePerStream
  <2>10. QED
    BY <2>7, <2>8, <2>9
<1>4. QED
  BY <1>1, <1>2, <1>3

(* A stream that reads has no line yet: it had not seen the request. *)
LEMMA LineRead ==
  ASSUME ScreenTypes, LinesKnown, LinesOnce, T!ShownOncePerStream,
         NEW n \in 1..Len(streams), T!StreamReads(n)
  PROVE  (LinesKnown /\ LinesOnce /\ T!ShownOncePerStream)'
<1>1. PICK m \in Messages :
        /\ m.msg = "line" /\ m.n = n /\ events' = Append(events, m)
        /\ T!Shows(streams[n]) /\ streams' = [streams EXCEPT ![n].seen = {streams[n].key}]
  BY LinePushed
<1>2. /\ Len(streams') = Len(streams) /\ ~T!Shows(streams'[n])
      /\ \A o \in 1..Len(streams) : o # n => streams'[o] = streams[o]
  BY <1>1, StreamSeen
<1>3. /\ Len(events) \in Nat /\ Len(events') = Len(events) + 1
      /\ events'[Len(events) + 1] = m
      /\ \A i \in 1..Len(events) : events'[i] = events[i]
  BY <1>1, Added
<1>4. lines' = lines
  BY DEF T!StreamReads, T!screen
<1>5. \A i \in 1..Len(events) : events[i].msg = "line" => events[i].n # n
  BY <1>1 DEF LinesKnown
<1>6. \A j \in 1..Len(lines) : lines[j] # n
  BY <1>1 DEF LinesKnown
<1>7. ASSUME NEW i \in 1..Len(events')
      PROVE  (i \in 1..Len(events) /\ events'[i] = events[i]) \/ (i = Len(events) + 1 /\ events'[i] = m)
  BY <1>3
<1>8. LinesKnown'
  <2>1. ASSUME NEW i \in 1..Len(events'), events'[i].msg = "line"
        PROVE  events'[i].n \in 1..Len(streams') /\ ~T!Shows(streams'[events'[i].n])
    <3>1. CASE i \in 1..Len(events) /\ events'[i] = events[i]
      BY <1>2, <1>5, <2>1, <3>1 DEF LinesKnown
    <3>2. CASE events'[i] = m
      BY <1>1, <1>2, <3>2
    <3>3. QED
      BY <1>7, <3>1, <3>2
  <2>2. ASSUME NEW j \in 1..Len(lines')
        PROVE  lines'[j] \in 1..Len(streams') /\ ~T!Shows(streams'[lines'[j]])
    BY <1>2, <1>4, <1>6 DEF LinesKnown
  <2>3. QED
    BY <2>1, <2>2 DEF LinesKnown
<1>9. LinesOnce'
  <2>1. ASSUME NEW i \in 1..Len(events'), NEW j \in 1..Len(events'), events'[i].msg = "line",
               events'[j].msg = "line", events'[i].n = events'[j].n
        PROVE  i = j
    BY <1>1, <1>5, <1>7, <2>1 DEF LinesOnce
  <2>2. ASSUME NEW i \in 1..Len(events'), NEW j \in 1..Len(lines'), events'[i].msg = "line"
        PROVE  events'[i].n # lines'[j]
    BY <1>1, <1>4, <1>6, <1>7, <2>2 DEF LinesOnce
  <2>3. QED
    BY <2>1, <2>2 DEF LinesOnce
<1>10. QED
  BY <1>4, <1>8, <1>9 DEF T!ShownOncePerStream

(* Every step keeps the lines to one per stream. *)
LEMMA LinesKept ==
  ASSUME ScreenTypes, LinesKnown, LinesOnce, T!ShownOncePerStream, T!Next
  PROVE  (LinesKnown /\ LinesOnce /\ T!ShownOncePerStream)'
<1>1. CASE UNCHANGED <<events, lines, streams>>
  BY <1>1 DEF LinesKnown, LinesOnce, T!ShownOncePerStream
<1>2. CASE \/ \E k \in Keys : T!Asks(k) \/ T!Settled(k) \/ T!Ends(k)
           \/ T!Poll \/ T!PollReads \/ T!Draw
  BY <1>1, <1>2 DEF T!Asks, T!Settled, T!Ends, T!Poll, T!PollReads, T!Draw, T!screen
<1>3. CASE T!PollSends
  <2>1. UNCHANGED <<lines, streams>>
    BY <1>3 DEF T!PollSends, T!screen
  <2>2. PICK m \in Messages : m.msg = "roster" /\ events' = Append(events, m)
    BY <1>3, RosterPushed
  <2>3. QED
    BY <2>1, <2>2, LinesAdded
<1>4. CASE T!Press
  <2>1. UNCHANGED <<lines, streams>>
    BY <1>4 DEF T!Press, T!screen
  <2>2. PICK m \in Messages : m.msg = "key" /\ events' = Append(events, m)
    BY <1>4, KeyPushed
  <2>3. QED
    BY <2>1, <2>2, LinesAdded
<1>5. CASE T!HandlesRoster
  <2>1. T!Takes /\ UNCHANGED <<lines, streams>>
    BY <1>5 DEF T!HandlesRoster
  <2>2. QED
    BY <2>1, StreamsStay, LinesTaken
<1>6. CASE KeyHandled
  BY <1>6, LinesTaken DEF KeyHandled
<1>7. QED
  BY <1>2, <1>3, <1>4, <1>5, <1>6, LineShown, LineRead, BoardKeys, PieceKeys DEF T!Next, T!Loop

-----------------------------------------------------------------------------
(* The screen begins empty, with the sessions in any order. *)
LEMMA ScreenStart == ASSUME T!ScreenAssumption, T!Init PROVE ScreenInv
<1>1. T!Cardinality(Keys) \in Nat
  <2>1. IsFiniteSet(Keys)
    BY DEF T!ScreenAssumption, T!IsFiniteSet, IsFiniteSet
  <2>2. Cardinality(Keys) \in Nat
    BY <2>1, FS_CardinalityType
  <2>3. T!Cardinality(Keys) = Cardinality(Keys)
    BY DEF T!Cardinality, Cardinality
  <2>4. QED
    BY <2>2, <2>3
<1>2. live \in Seq(Keys)
  <2>1. live \in [1..T!Cardinality(Keys) -> Keys]
    BY DEF T!Init
  <2>2. QED
    BY <1>1, <2>1
<1>3. /\ polled = None /\ events = <<>> /\ pieces = <<>> /\ place = 1 /\ open = None
      /\ lines = <<>> /\ drawn = [key |-> None, waits |-> FALSE] /\ streams = <<>> /\ post = None
  BY DEF T!Init
<1>4. ScreenTypes
  BY <1>2, <1>3 DEF ScreenTypes, Shown
<1>5. Len(events) = 0 /\ Len(pieces) = 0 /\ Len(lines) = 0
  BY <1>3
<1>6. Fades /\ KeysSaw /\ LinesKnown /\ LinesOnce /\ T!ShownOncePerStream
  BY <1>3, <1>5 DEF Fades, Read, Boards, KeysSaw, LinesKnown, LinesOnce, T!ShownOncePerStream
<1>7. StaysGone /\ CursorStays /\ T!ActsOnTheSeen
  BY <1>3, <1>5 DEF StaysGone, CursorStays, T!Has, T!ActsOnTheSeen
<1>8. QED
  BY <1>4, <1>6, <1>7 DEF ScreenInv

(* The screen is true (cli/tui.rs): a key acts on the session its person saw
   selected, and a stream shows a request once.                               *)
THEOREM ScreenShown ==
  ASSUME T!ScreenAssumption PROVE MCSpec => []ScreenIsTrue
<1>1. MCInit => ScreenInv
  BY ScreenStart DEF MCInit
<1>2. ScreenInv /\ [MCNext]_<<part, exchange, log, proxy, tui, setup, integrate>> => ScreenInv'
  <2>1. ASSUME ScreenInv, UNCHANGED tui PROVE ScreenInv'
    BY <2>1 DEF tui, ScreenInv, ScreenTypes, Fades, StaysGone, KeysSaw, CursorStays, LinesKnown,
       LinesOnce, T!ActsOnTheSeen, T!ShownOncePerStream, Alive, Read, Boards, T!Selected,
       T!Has, T!Place, T!Shows
  <2>2. ASSUME ScreenInv, T!Next PROVE ScreenInv'
    <3>1. /\ ScreenTypes /\ Fades /\ StaysGone /\ KeysSaw /\ CursorStays
          /\ LinesKnown /\ LinesOnce /\ T!ActsOnTheSeen /\ T!ShownOncePerStream
      BY <2>2 DEF ScreenInv
    <3>2. (LinesKnown /\ LinesOnce /\ T!ShownOncePerStream)'
      BY <2>2, <3>1, LinesKept
    <3>3. ScreenTypes' /\ Fades' /\ StaysGone' /\ KeysSaw' /\ CursorStays' /\ T!ActsOnTheSeen'
      BY <2>2, <3>1, ScreenTypesKept, FadesKept, StaysGoneKept, KeysSawKept, CursorStaysKept,
         ActsOnTheSeenKept
    <3>4. QED
      BY <3>2, <3>3 DEF ScreenInv
  <2>3. ASSUME ScreenInv, MCNext PROVE ScreenInv'
    BY <2>1, <2>2, <2>3 DEF MCNext
  <2>4. QED
    BY <2>1, <2>3
<1>3. ScreenInv => ScreenIsTrue
  BY DEF ScreenInv, ScreenIsTrue
<1>4. QED
  BY <1>1, <1>2, <1>3, PTL DEF MCSpec

-----------------------------------------------------------------------------
(***************************************************************************)
(* What setup says without a terminal (setup/mod.rs `headless`).  When it    *)
(* says that all went well, each row was found in place or out of reach at   *)
(* its turn, and that stays true (Passed) since nothing is taken away, what  *)
(* is out of reach stays so, and only the rows before the daemon's check     *)
(* start daemons (PartsKnown).  A unit is there since it goes before the part *)
(* that is checked; the parts that go after it are there, or still to be put *)
(* by the row under way, on a machine where no row was left half way (Tidy). *)
(***************************************************************************)
(* The row of the list that is applied is the one that is at its turn. *)
JobAtTurn ==
  /\ at \in 1..11
  /\ job # S!NoRow => at <= 9 /\ job = S!Rows[at]
  /\ job = S!NoRow => rows = <<>>

AnyPart == {"rosterd", "holder", "scripts", "trayBin", "export", "config", "unit", "enabled", "started",
            "answers", "claude", "claude-agent-acp", "hooks", "lock", "entry"}

(* What the parts still to be put need to be put for. *)
PartsKnown ==
  /\ rows \in Seq(AnyPart)
  /\ \A i \in 1..Len(rows) :
       /\ rows[i] = "trayBin" => S!Is("trayBeside")
       /\ rows[i] = "enabled" => "unit" \in have \/ (i = 2 /\ rows[1] = "unit")
       /\ rows[i] \in {"enabled", "started"} => at <= 5
       /\ rows[i] = "scripts" /\ S!Is("trayBeside") => i + 1 \in 1..Len(rows) /\ rows[i + 1] = "trayBin"
       /\ rows[i] = "hooks" => i + 1 \in 1..Len(rows) /\ rows[i + 1] = "lock"

(* A part that was put, or will be by the row under way. *)
Due(x) == x \in have \/ \E i \in 1..Len(rows) : rows[i] = x

Tidy ==
  /\ job # S!NoRow /\ result = "ok" => rows = <<>>
  /\ clean => /\ "scripts" \in have /\ S!Is("trayBeside") => Due("trayBin")
              /\ "hooks" \in have => Due("lock")

UnitFirst == "enabled" \in have => "unit" \in have

(* Every row before the one at its turn is done or cannot be. *)
Passed == ok => \A i \in 1..9 : i < at => S!Check(S!Rows[i]) # "needed"

SetupInv == mode = "headless" => JobAtTurn /\ PartsKnown /\ UnitFirst /\ Passed /\ Tidy

(* The rows of the list, by their places. *)
LEMMA RowsKnown ==
  /\ Len(S!Rows) = 10 /\ S!Rows[10] = "swarm"
  /\ S!Rows[1] = "binaries" /\ S!Rows[2] = "path" /\ S!Rows[3] = "config"
  /\ S!Rows[4] = "service" /\ S!Rows[5] = "daemon" /\ S!Rows[6] = "harness"
  /\ S!Rows[7] = "adapter" /\ S!Rows[8] = "integration" /\ S!Rows[9] = "tray"
  /\ \A r \in S!RowSet \ S!Optional : \E i \in 1..9 : r = S!Rows[i]
  BY DEF S!Rows, S!RowSet, S!Optional

(* The parts of each row but the last, *)
LEMMA PartsAre ==
  /\ S!Parts("binaries") = <<"rosterd", "holder", "scripts">> \o
       (IF S!Is("trayBeside") THEN <<"trayBin">> ELSE <<>>)
  /\ S!Parts("path") = <<"export">> /\ S!Parts("config") = <<"config">>
  /\ S!Parts("service") = <<"unit", "enabled">> /\ S!Parts("daemon") = <<"started", "answers">>
  /\ S!Parts("harness") = <<"claude">> /\ S!Parts("adapter") = <<"claude-agent-acp">>
  /\ S!Parts("integration") = <<"hooks", "lock">> /\ S!Parts("tray") = <<"entry">>
  BY DEF S!Parts

LEMMA ThreeAndOne ==
  ASSUME NEW A, NEW a \in A, NEW b \in A, NEW c \in A, NEW d \in A, NEW q, q = <<a, b, c>> \o <<d>>
  PROVE  q \in Seq(A) /\ Len(q) = 4 /\ q[1] = a /\ q[2] = b /\ q[3] = c /\ q[4] = d
<1>1. PICK e, f : e = <<a, b, c>> /\ f = <<d>>
  OBVIOUS
<1>2. /\ e \in Seq(A) /\ f \in Seq(A) /\ Len(e) = 3 /\ Len(f) = 1
      /\ e[1] = a /\ e[2] = b /\ e[3] = c /\ f[1] = d
  BY <1>1
<1>3. q = e \o f
  BY <1>1
<1>4. QED
  BY <1>2, <1>3, ConcatProperties

(* and what they need. *)
PartsInOrder(i, q) ==
  /\ q \in Seq(AnyPart) /\ q # <<>>
  /\ \A n \in 1..Len(q) :
       /\ q[n] = "trayBin" => S!Is("trayBeside")
       /\ q[n] = "enabled" => n = 2 /\ q[1] = "unit"
       /\ q[n] \in {"enabled", "started"} => i <= 5
       /\ q[n] = "scripts" /\ S!Is("trayBeside") => n + 1 \in 1..Len(q) /\ q[n + 1] = "trayBin"
       /\ q[n] = "hooks" => n + 1 \in 1..Len(q) /\ q[n + 1] = "lock"

LEMMA PartsOfRow ==
  ASSUME NEW i \in 1..9, NEW q, q = S!Parts(S!Rows[i])
  PROVE  PartsInOrder(i, q)
<1> USE DEF PartsInOrder
<1> DEFINE Three == <<"rosterd", "holder", "scripts">>
<1>1. CASE i = 1
  <2>1. q = Three \o (IF S!Is("trayBeside") THEN <<"trayBin">> ELSE <<>>)
    BY <1>1, RowsKnown, PartsAre
  <2>2. CASE ~S!Is("trayBeside")
    <3>1. q = Three
      BY <2>1, <2>2
    <3>2. QED
      BY <3>1, <1>1, <2>2 DEF AnyPart
  <2>3. CASE S!Is("trayBeside")
    <3>1. q = Three \o <<"trayBin">>
      BY <2>1, <2>3
    <3>2. /\ q \in Seq(AnyPart) /\ Len(q) = 4
          /\ q[1] = "rosterd" /\ q[2] = "holder" /\ q[3] = "scripts" /\ q[4] = "trayBin"
      BY <3>1, ThreeAndOne DEF AnyPart
    <3>3. QED
      BY <3>2, <1>1, <2>3
  <2>4. QED
    BY <2>2, <2>3
<1>2. CASE i = 2
  <2>1. q = <<"export">>
    BY <1>2, RowsKnown, PartsAre
  <2>2. QED
    BY <2>1, <1>2 DEF AnyPart
<1>3. CASE i = 3
  <2>1. q = <<"config">>
    BY <1>3, RowsKnown, PartsAre
  <2>2. QED
    BY <2>1, <1>3 DEF AnyPart
<1>4. CASE i = 4
  <2>1. q = <<"unit", "enabled">>
    BY <1>4, RowsKnown, PartsAre
  <2>2. QED
    BY <2>1, <1>4 DEF AnyPart
<1>5. CASE i = 5
  <2>1. q = <<"started", "answers">>
    BY <1>5, RowsKnown, PartsAre
  <2>2. QED
    BY <2>1, <1>5 DEF AnyPart
<1>6. CASE i = 6
  <2>1. q = <<"claude">>
    BY <1>6, RowsKnown, PartsAre
  <2>2. QED
    BY <2>1, <1>6 DEF AnyPart
<1>7. CASE i = 7
  <2>1. q = <<"claude-agent-acp">>
    BY <1>7, RowsKnown, PartsAre
  <2>2. QED
    BY <2>1, <1>7 DEF AnyPart
<1>8. CASE i = 8
  <2>1. q = <<"hooks", "lock">>
    BY <1>8, RowsKnown, PartsAre
  <2>2. QED
    BY <2>1, <1>8 DEF AnyPart
<1>9. CASE i = 9
  <2>1. q = <<"entry">>
    BY <1>9, RowsKnown, PartsAre
  <2>2. QED
    BY <2>1, <1>9 DEF AnyPart
<1>10. QED
  BY <1>1, <1>2, <1>3, <1>4, <1>5, <1>6, <1>7, <1>8, <1>9

(* The first of the list: it starts with its rows unchecked. *)
LEMMA SetupStarts ==
  ASSUME S!SetupAssumption, S!Init PROVE SetupInv
<1>1. /\ at = 1 /\ job = S!NoRow /\ rows = <<>>
      /\ \E s \in Starts : have = s.have
  BY DEF S!Init
<1>2. UnitFirst
  BY <1>1 DEF S!SetupAssumption, UnitFirst
<1>3. JobAtTurn /\ PartsKnown /\ Passed
  BY <1>1 DEF JobAtTurn, PartsKnown, Passed
<1>4. Tidy
  BY <1>1 DEF S!Init, Tidy
<1>5. QED
  BY <1>2, <1>3, <1>4 DEF SetupInv

(* What a check says follows from the machine, what is in place, and, for
   its own row, the daemon.                                                  *)
LEMMA ChecksStay ==
  ASSUME NEW i \in 1..9, S!Check(S!Rows[i]) # "needed",
         facts' = facts, have \subseteq have',
         "trayBin" \in have' => "trayBin" \in have \/ S!Is("trayBeside"),
         i = 5 => daemon' = daemon
  PROVE  S!Check(S!Rows[i])' # "needed"
<1>1. CASE i = 1
  BY <1>1, RowsKnown DEF S!Check, S!BinariesThere
<1>2. CASE i = 2
  BY <1>2, RowsKnown DEF S!Check, S!Is
<1>3. CASE i = 3
  BY <1>3, RowsKnown DEF S!Check
<1>4. CASE i = 4
  BY <1>4, RowsKnown DEF S!Check, S!CheckService, S!Is
<1>5. CASE i = 5
  BY <1>5, RowsKnown DEF S!Check
<1>6. CASE i = 6
  BY <1>6, RowsKnown DEF S!Check, S!CheckPackage, S!Is
<1>7. CASE i = 7
  BY <1>7, RowsKnown DEF S!Check, S!CheckPackage, S!Is
<1>8. CASE i = 8
  BY <1>8, RowsKnown DEF S!Check
<1>9. CASE i = 9
  BY <1>9, RowsKnown DEF S!Check, S!CheckTray, S!TrayThere, S!Is
<1>10. QED
  BY <1>1, <1>2, <1>3, <1>4, <1>5, <1>6, <1>7, <1>8, <1>9

LEMMA AnyCheck ==
  ASSUME NEW i \in 1..9 PROVE S!Check(S!Rows[i]) \in {"done", "needed", "unavailable"}
  BY RowsKnown DEF S!Check, S!CheckService, S!CheckPackage, S!CheckTray

(* A part is put. *)
LEMMA SetupPuts ==
  ASSUME mode = "headless", JobAtTurn, PartsKnown, UnitFirst, Passed, Tidy, S!PutsPart
  PROVE  (JobAtTurn /\ PartsKnown /\ UnitFirst /\ Passed /\ Tidy)'
<1>1. /\ rows \in Seq(AnyPart) /\ rows # <<>> /\ job # S!NoRow
      /\ S!Put(Head(rows)) /\ rows' = Tail(rows)
      /\ job' = job /\ at' = at /\ ok' = ok /\ facts' = facts /\ clean' = clean
      /\ result' = IF Len(rows) = 1 THEN "ok" ELSE "none"
  BY DEF S!PutsPart, PartsKnown, S!headless
<1>2. at \in 1..9
  BY <1>1 DEF JobAtTurn
<1>3. PICK p : p = Head(rows)
  OBVIOUS
<1>4. /\ p = rows[1] /\ Len(rows) \in Nat /\ Len(rows) >= 1
      /\ rows' \in Seq(AnyPart) /\ Len(rows') = Len(rows) - 1
      /\ \A n \in 1..Len(rows') : rows'[n] = rows[n + 1] /\ n + 1 \in 1..Len(rows)
  BY <1>1, <1>3
<1>5. /\ p = "trayBin" => S!Is("trayBeside")
      /\ p = "enabled" => "unit" \in have
      /\ p \in {"enabled", "started"} => at <= 5
  BY <1>4 DEF PartsKnown
<1>6. S!Put(p)
  BY <1>1, <1>3
<1>7. /\ have' = have \cup {p} \/ have' = have
      /\ p \in {"unit", "trayBin", "lock"} => have' = have \cup {p}
      /\ p \notin {"enabled", "started"} => daemon' = daemon
  BY <1>6 DEF S!Put, S!NewDaemon
<1>8. JobAtTurn'
  BY <1>1, <1>2 DEF JobAtTurn
<1>9. UnitFirst'
  BY <1>5, <1>7 DEF UnitFirst
<1>10. PartsKnown'
  <2>1. ASSUME NEW n \in 1..Len(rows')
        PROVE  /\ rows'[n] = "trayBin" => S!Is("trayBeside")'
               /\ rows'[n] = "enabled" => "unit" \in have' \/ (n = 2 /\ rows'[1] = "unit")
               /\ rows'[n] \in {"enabled", "started"} => at' <= 5
               /\ rows'[n] = "scripts" /\ S!Is("trayBeside")' =>
                    n + 1 \in 1..Len(rows') /\ rows'[n + 1] = "trayBin"
               /\ rows'[n] = "hooks" => n + 1 \in 1..Len(rows') /\ rows'[n + 1] = "lock"
    <3>1. rows'[n] = rows[n + 1] /\ n + 1 \in 1..Len(rows)
      BY <1>4
    <3>2. /\ rows[n + 1] = "trayBin" => S!Is("trayBeside")
          /\ rows[n + 1] = "enabled" => "unit" \in have \/ (n + 1 = 2 /\ rows[1] = "unit")
          /\ rows[n + 1] \in {"enabled", "started"} => at <= 5
      BY <3>1 DEF PartsKnown
    <3>3. /\ rows[n + 1] = "scripts" /\ S!Is("trayBeside") =>
               n + 2 \in 1..Len(rows) /\ rows[n + 2] = "trayBin"
          /\ rows[n + 1] = "hooks" => n + 2 \in 1..Len(rows) /\ rows[n + 2] = "lock"
      <4>1. (n + 1) + 1 = n + 2
        OBVIOUS
      <4>2. QED
        BY <3>1, <4>1 DEF PartsKnown
    <3>4. n + 2 \in 1..Len(rows) => n + 1 \in 1..Len(rows') /\ rows'[n + 1] = rows[n + 2]
      <4>1. n + 2 \in 1..Len(rows) => n + 1 \in 1..Len(rows') /\ (n + 1) + 1 = n + 2
        BY <1>4
      <4>2. QED
        BY <1>4, <4>1
    <3>5. S!Is("trayBeside")' = S!Is("trayBeside")
      BY <1>1 DEF S!Is
    <3>6. QED
      BY <3>1, <3>2, <3>3, <3>4, <3>5, <1>1, <1>4, <1>7
  <2>2. QED
    BY <2>1, <1>4 DEF PartsKnown
<1>11. Passed'
  <2>1. ASSUME ok, NEW i \in 1..9, i < at PROVE S!Check(S!Rows[i])' # "needed"
    <3>1. S!Check(S!Rows[i]) # "needed"
      BY <2>1 DEF Passed
    <3>2. i = 5 => daemon' = daemon
      BY <2>1, <1>2, <1>5, <1>7
    <3>3. /\ have \subseteq have'
          /\ "trayBin" \in have' => "trayBin" \in have \/ S!Is("trayBeside")
      BY <1>5, <1>7
    <3>4. QED
      BY <3>1, <3>2, <3>3, <1>1, ChecksStay
  <2>2. QED
    BY <2>1, <1>1 DEF Passed
<1>12. ASSUME NEW x \in {"trayBin", "lock"}, Due(x) PROVE Due(x)'
  <2>1. CASE x \in have
    BY <2>1, <1>7 DEF Due
  <2>2. ASSUME NEW i \in 1..Len(rows), rows[i] = x PROVE Due(x)'
    <3>1. CASE i = 1
      BY <2>2, <3>1, <1>4, <1>7 DEF Due
    <3>2. CASE i # 1
      <4>1. i - 1 \in 1..Len(rows') /\ (i - 1) + 1 = i
        BY <2>2, <3>2, <1>4
      <4>2. rows'[i - 1] = x
        BY <2>2, <4>1, <1>4
      <4>3. QED
        BY <4>1, <4>2 DEF Due
    <3>3. QED
      BY <3>1, <3>2
  <2>3. QED
    BY <1>12, <2>1, <2>2 DEF Due
<1>13. ASSUME NEW x \in {"trayBin", "lock"}, Len(rows) >= 2, rows[2] = x PROVE Due(x)'
  <2>1. 1 \in 1..Len(rows') /\ rows'[1] = rows[1 + 1]
    BY <1>4, <1>13
  <2>2. QED
    BY <1>13, <2>1 DEF Due
<1>14. Tidy'
  <2>1. result' = "ok" => rows' = <<>>
    BY <1>1, <1>4
  <2>2. ASSUME clean, "scripts" \in have', S!Is("trayBeside") PROVE Due("trayBin")'
    <3>1. CASE "scripts" \in have
      BY <2>2, <3>1, <1>12 DEF Tidy
    <3>2. CASE p = "scripts"
      BY <2>2, <3>2, <1>4, <1>13 DEF PartsKnown
    <3>3. QED
      BY <2>2, <3>1, <3>2, <1>7
  <2>3. ASSUME clean, "hooks" \in have' PROVE Due("lock")'
    <3>1. CASE "hooks" \in have
      BY <2>3, <3>1, <1>12 DEF Tidy
    <3>2. CASE p = "hooks"
      BY <2>3, <3>2, <1>4, <1>13 DEF PartsKnown
    <3>3. QED
      BY <2>3, <3>1, <3>2, <1>7
  <2>4. S!Is("trayBeside")' = S!Is("trayBeside")
    BY <1>1 DEF S!Is
  <2>5. QED
    BY <2>1, <2>2, <2>3, <2>4, <1>1 DEF Tidy
<1>15. QED
  BY <1>8, <1>9, <1>10, <1>11, <1>14

(* A row is checked, and applied or left. *)
LEMMA SetupChecks ==
  ASSUME mode = "headless", JobAtTurn, PartsKnown, UnitFirst, Passed, Tidy, S!HeadlessChecks
  PROVE  (JobAtTurn /\ PartsKnown /\ UnitFirst /\ Passed /\ Tidy)'
<1>1. /\ job = S!NoRow /\ at \in 1..10 /\ ok' = ok /\ facts' = facts /\ have' = have
      /\ daemon' = daemon /\ clean' = clean /\ rows = <<>>
      /\ IF S!Check(S!Rows[at]) = "needed" /\ S!Rows[at] \notin S!Optional
         THEN S!Begins(S!Rows[at]) /\ at' = at
         ELSE at' = at + 1 /\ job' = job /\ rows' = rows
  BY RowsKnown DEF S!HeadlessChecks, JobAtTurn, S!machine, S!worker
<1>2. UnitFirst'
  BY <1>1 DEF UnitFirst
<1>3. \A i \in 1..9 : S!Check(S!Rows[i])' = S!Check(S!Rows[i])
  BY <1>1 DEF S!Check, S!BinariesThere, S!CheckService, S!CheckPackage, S!CheckTray, S!TrayThere, S!Is
<1>4. clean => /\ "scripts" \in have /\ S!Is("trayBeside") => "trayBin" \in have
               /\ "hooks" \in have => "lock" \in have
  BY <1>1 DEF Tidy, Due
<1>5. S!Is("trayBeside")' = S!Is("trayBeside")
  BY <1>1 DEF S!Is
<1>6. CASE S!Begins(S!Rows[at]) /\ at' = at /\ S!Rows[at] \notin S!Optional
  <2>1. at \in 1..9
    BY <1>1, <1>6, RowsKnown DEF S!Optional
  <2>2. PICK q : q = S!Parts(S!Rows[at])
    OBVIOUS
  <2>3. job' = S!Rows[at] /\ rows' = q
    BY <1>6, <2>2 DEF S!Begins
  <2>4. JobAtTurn'
    BY <1>1, <1>6, <2>1, <2>3, RowsKnown DEF JobAtTurn, S!NoRow
  <2>5. PartsKnown'
    <3>1. PartsInOrder(at, q)
      BY <2>1, <2>2, PartsOfRow
    <3>2. /\ rows' = q /\ at' = at /\ S!Is("trayBeside")' = S!Is("trayBeside")
      BY <2>3, <1>5, <1>6
    <3>3. QED
      BY <3>1, <3>2 DEF PartsInOrder, PartsKnown
  <2>6. Passed'
    BY <1>1, <1>3, <1>6 DEF Passed
  <2>7. Tidy'
    <3>1. result' = "none"
      BY <1>6 DEF S!Begins
    <3>2. QED
      BY <3>1, <1>1, <1>4, <1>5 DEF Tidy, Due
  <2>8. QED
    BY <1>2, <2>4, <2>5, <2>6, <2>7
<1>7. CASE /\ at' = at + 1 /\ job' = job /\ rows' = rows
           /\ ~(S!Check(S!Rows[at]) = "needed" /\ S!Rows[at] \notin S!Optional)
  <2>1. JobAtTurn'
    BY <1>1, <1>7 DEF JobAtTurn
  <2>2. PartsKnown'
    BY <1>1, <1>7 DEF JobAtTurn, PartsKnown
  <2>3. Passed'
    <3>1. ASSUME ok, NEW i \in 1..9, i < at + 1 PROVE S!Check(S!Rows[i]) # "needed"
      <4>1. CASE i < at
        BY <3>1, <4>1 DEF Passed
      <4>2. CASE i = at
        BY <4>2, <1>7, RowsKnown DEF S!Optional
      <4>3. QED
        BY <3>1, <1>1, <4>1, <4>2
    <3>2. QED
      BY <3>1, <1>1, <1>3, <1>7 DEF Passed
  <2>4. Tidy'
    BY <1>1, <1>7, <1>4, <1>5 DEF Tidy, Due
  <2>5. QED
    BY <1>2, <2>1, <2>2, <2>3, <2>4
<1>8. QED
  BY <1>1, <1>6, <1>7

(* The row ended, and was checked again. *)
LEMMA SetupGoesOn ==
  ASSUME mode = "headless", JobAtTurn, PartsKnown, UnitFirst, Passed, Tidy, S!HeadlessGoesOn
  PROVE  (JobAtTurn /\ PartsKnown /\ UnitFirst /\ Passed /\ Tidy)'
<1>1. /\ job # S!NoRow /\ ok' = (ok /\ S!RowIsDone) /\ at' = at + 1
      /\ job' = S!NoRow /\ rows' = <<>> /\ facts' = facts /\ have' = have /\ daemon' = daemon
      /\ clean' = (clean /\ result = "ok")
  BY DEF S!HeadlessGoesOn, S!machine
<1>2. at \in 1..9 /\ job = S!Rows[at]
  BY <1>1 DEF JobAtTurn
<1>3. JobAtTurn' /\ PartsKnown' /\ UnitFirst'
  BY <1>1, <1>2 DEF JobAtTurn, PartsKnown, UnitFirst
<1>4. \A i \in 1..9 : S!Check(S!Rows[i])' = S!Check(S!Rows[i])
  BY <1>1 DEF S!Check, S!BinariesThere, S!CheckService, S!CheckPackage, S!CheckTray, S!TrayThere, S!Is
<1>5. Passed'
  <2>1. ASSUME ok', NEW i \in 1..9, i < at + 1 PROVE S!Check(S!Rows[i]) # "needed"
    <3>1. CASE i < at
      BY <1>1, <2>1, <3>1 DEF Passed
    <3>2. CASE i = at
      BY <1>1, <1>2, <2>1, <3>2 DEF S!RowIsDone
    <3>3. QED
      BY <1>2, <2>1, <3>1, <3>2
  <2>2. QED
    BY <1>1, <1>4, <2>1 DEF Passed
<1>6. Tidy'
  BY <1>1 DEF Tidy, Due, S!Is
<1>7. QED
  BY <1>3, <1>5, <1>6

(* The daemon that was started comes up or not: no row after it was reached. *)
LEMMA SetupHears ==
  ASSUME mode = "headless", JobAtTurn, PartsKnown, UnitFirst, Passed, Tidy, S!DaemonAnswers
  PROVE  (JobAtTurn /\ PartsKnown /\ UnitFirst /\ Passed /\ Tidy)'
<1>1. /\ daemon = "starting" /\ have' = have /\ facts' = facts /\ at' = at /\ ok' = ok
      /\ job' = job /\ rows' = rows /\ result' = result /\ clean' = clean
  BY DEF S!DaemonAnswers, S!worker, S!headless
<1>2. JobAtTurn' /\ PartsKnown' /\ UnitFirst' /\ Tidy'
  BY <1>1 DEF JobAtTurn, PartsKnown, UnitFirst, Tidy, Due, S!Is
<1>3. ASSUME ok, NEW i \in 1..9, i < at PROVE S!Check(S!Rows[i])' # "needed"
  <2>1. S!Check(S!Rows[i]) # "needed"
    BY <1>3 DEF Passed
  <2>2. i # 5
    BY <1>1, <2>1, RowsKnown DEF S!Check
  <2>3. QED
    BY <1>1, <2>1, <2>2, ChecksStay
<1>4. QED
  BY <1>1, <1>2, <1>3 DEF Passed

(* Nothing moves but that a row fails. *)
LEMMA SetupRests ==
  ASSUME JobAtTurn, PartsKnown, UnitFirst, Passed, Tidy,
         UNCHANGED <<facts, have, daemon, job, rows, at, ok, clean>>,
         result' \in {result, "failed"}
  PROVE  (JobAtTurn /\ PartsKnown /\ UnitFirst /\ Passed /\ Tidy)'
<1>1. JobAtTurn' /\ UnitFirst'
  BY DEF JobAtTurn, UnitFirst
<1>2. PartsKnown'
  BY DEF PartsKnown, S!Is
<1>3. Passed'
  BY DEF Passed, S!Is, S!Check, S!BinariesThere, S!CheckService, S!CheckPackage, S!CheckTray,
     S!TrayThere
<1>4. Tidy'
  BY DEF Tidy, Due, S!Is
<1>5. QED
  BY <1>1, <1>2, <1>3, <1>4

(* Each step of setup without a terminal; those on the screen are none. *)
LEMMA SetupStep ==
  ASSUME SetupInv, S!Next PROVE SetupInv'
<1>1. mode' = mode
  BY DEF S!Next, S!DaemonAnswers, S!PutsPart, S!RowFails, S!HeadlessChecks, S!HeadlessGoesOn,
     S!RunsAgain, S!AllNeeded, S!Recheck, S!Rechecked, S!Finishes, S!StartsNext, S!Space,
     S!Enter, S!Answers, S!Quits
<1> SUFFICES ASSUME mode = "headless" PROVE (JobAtTurn /\ PartsKnown /\ UnitFirst /\ Passed /\ Tidy)'
  BY <1>1 DEF SetupInv
<1>2. JobAtTurn /\ PartsKnown /\ UnitFirst /\ Passed /\ Tidy
  BY DEF SetupInv
<1>3. CASE S!DaemonAnswers
  BY <1>2, <1>3, SetupHears
<1>4. CASE S!PutsPart
  BY <1>2, <1>4, SetupPuts
<1>5. CASE S!RowFails \/ S!Rechecked
  <2>1. /\ UNCHANGED <<facts, have, daemon, job, rows, at, ok, clean>>
        /\ result' \in {result, "failed"}
    BY <1>5 DEF S!RowFails, S!Rechecked, S!machine, S!worker, S!headless
  <2>2. QED
    BY <1>2, <2>1, SetupRests
<1>6. CASE S!HeadlessChecks
  BY <1>2, <1>6, SetupChecks
<1>7. CASE S!HeadlessGoesOn
  BY <1>2, <1>7, SetupGoesOn
<1>8. CASE S!RunsAgain
  <2>1. /\ at' = 1 /\ job' = S!NoRow /\ rows' = <<>> /\ have' = have /\ facts' = facts
        /\ clean' = (clean /\ (job = S!NoRow \/ result = "ok"))
    BY <1>8 DEF S!RunsAgain, S!machine
  <2>2. Tidy'
    BY <1>2, <2>1 DEF JobAtTurn, Tidy, Due, S!Is
  <2>3. QED
    BY <1>2, <2>1, <2>2 DEF JobAtTurn, PartsKnown, UnitFirst, Passed
<1>9. ~(\/ S!AllNeeded \/ S!Recheck \/ S!Finishes \/ S!StartsNext
        \/ \E r \in S!RowSet : S!Space(r) \/ S!Enter(r)
        \/ \E b \in BOOLEAN : S!Answers(b) \/ S!Quits(b))
  BY DEF S!AllNeeded, S!Recheck, S!Finishes, S!StartsNext, S!Space, S!Enter, S!Answers,
     S!Quits, S!Pressed
<1>10. QED
  BY <1>3, <1>4, <1>5, <1>6, <1>7, <1>8, <1>9 DEF S!Next

(* What is said to be well is in place. *)
LEMMA SetupKeepsWord ==
  ASSUME SetupInv PROVE S!OkMeansInPlace
<1> SUFFICES ASSUME mode = "headless", at > Len(S!Rows), ok, NEW r \in S!RowSet \ S!Optional
             PROVE  /\ S!Allowed(r) => S!Check(r) = "done"
                    /\ S!Check(r) = "done" /\ r \in {"binaries", "service", "integration"} =>
                         \A i \in DOMAIN S!Parts(r) : S!Parts(r)[i] \in have \cup (IF clean THEN {} ELSE {"trayBin", "lock"})
  BY DEF S!OkMeansInPlace
<1>1. PICK n \in 1..9 : r = S!Rows[n]
  BY RowsKnown
<1>2. at = 11 /\ UnitFirst /\ Passed /\ rows = <<>> /\ Tidy
  BY RowsKnown DEF SetupInv, JobAtTurn
<1>3. /\ clean /\ "scripts" \in have /\ S!Is("trayBeside") => "trayBin" \in have
      /\ clean /\ "hooks" \in have => "lock" \in have
  BY <1>2 DEF Tidy, Due
<1>4. S!Allowed(r) => S!Check(r) = "done"
  <2>1. S!Check(r) # "needed"
    BY <1>1, <1>2 DEF Passed
  <2>2. QED
    BY <1>1, <2>1, RowsKnown DEF S!Check, S!CheckService, S!CheckPackage, S!CheckTray, S!Allowed
<1>5. ASSUME S!Check(r) = "done", r = "binaries", NEW i \in DOMAIN S!Parts(r)
      PROVE  S!Parts(r)[i] \in have \cup (IF clean THEN {} ELSE {"trayBin", "lock"})
  <2>1. {"rosterd", "holder", "scripts"} \subseteq have
    BY <1>5 DEF S!Check, S!BinariesThere
  <2>2. PICK q : q = S!Parts(r)
    OBVIOUS
  <2>3. CASE q = <<"rosterd", "holder", "scripts">>
    BY <2>1, <2>2, <2>3, <1>5
  <2>4. CASE q = <<"rosterd", "holder", "scripts">> \o <<"trayBin">> /\ S!Is("trayBeside")
    <3>1. /\ q \in Seq(AnyPart) /\ Len(q) = 4
          /\ q[1] = "rosterd" /\ q[2] = "holder" /\ q[3] = "scripts" /\ q[4] = "trayBin"
      BY <2>4, ThreeAndOne DEF AnyPart
    <3>2. QED
      BY <2>1, <2>2, <2>4, <3>1, <1>5, <1>3
  <2>5. q = <<"rosterd", "holder", "scripts">> \o (IF S!Is("trayBeside") THEN <<"trayBin">> ELSE <<>>)
    BY <2>2, <1>5, PartsAre
  <2>6. CASE S!Is("trayBeside")
    BY <2>4, <2>5, <2>6
  <2>7. CASE ~S!Is("trayBeside")
    BY <2>3, <2>5, <2>7
  <2>8. QED
    BY <2>6, <2>7
<1>6. ASSUME S!Check(r) = "done", r = "service", NEW i \in DOMAIN S!Parts(r)
      PROVE  S!Parts(r)[i] \in have \cup (IF clean THEN {} ELSE {"trayBin", "lock"})
  <2>1. "enabled" \in have
    BY <1>6 DEF S!Check, S!CheckService
  <2>2. PICK q : q = S!Parts(r)
    OBVIOUS
  <2>3. q = <<"unit", "enabled">>
    BY <2>2, <1>6, PartsAre
  <2>4. QED
    BY <1>2, <1>6, <2>1, <2>2, <2>3 DEF UnitFirst
<1>7. ASSUME S!Check(r) = "done", r = "integration", NEW i \in DOMAIN S!Parts(r)
      PROVE  S!Parts(r)[i] \in have \cup (IF clean THEN {} ELSE {"trayBin", "lock"})
  <2>1. "hooks" \in have
    BY <1>7 DEF S!Check
  <2>2. PICK q : q = S!Parts(r)
    OBVIOUS
  <2>3. q = <<"hooks", "lock">>
    BY <2>2, <1>7, PartsAre
  <2>4. QED
    BY <1>7, <1>3, <2>1, <2>2, <2>3
<1>8. QED
  BY <1>4, <1>5, <1>6, <1>7

(* Setup keeps its word (setup/mod.rs `headless`): when it says that all went
   well, every row it may put on that machine passes its check and has its
   parts, also after earlier runs that failed or were cut off, but for the two
   parts no check looks at (the tray's binary, the entry in adapters.lock),
   which are there if no run left a row half way on a machine new to rosterd. *)
THEOREM SetupTellsTrue ==
  ASSUME S!SetupAssumption PROVE MCSpec => []RowsAreDone
<1>1. MCInit => SetupInv
  BY SetupStarts DEF MCInit
<1>2. SetupInv /\ [MCNext]_<<part, exchange, log, proxy, tui, setup, integrate>> => SetupInv'
  <2>1. ASSUME SetupInv, UNCHANGED setup PROVE SetupInv'
    BY <2>1, SetupRests DEF setup, SetupInv
  <2>2. ASSUME SetupInv, MCNext PROVE SetupInv'
    BY <2>1, <2>2, SetupStep DEF MCNext
  <2>3. QED
    BY <2>1, <2>2
<1>3. SetupInv => RowsAreDone
  BY SetupKeepsWord DEF RowsAreDone
<1>4. QED
  BY <1>1, <1>2, <1>3, PTL DEF MCSpec

-----------------------------------------------------------------------------
(***************************************************************************)
(* What a follower of the journal is told (journal/mod.rs, api/routes.rs    *)
(* swarm_changes).  What the entries told, with the changes still to be      *)
(* appended, is always the snapshot that was diffed last (Owed).  While no   *)
(* start lost the count and no entry went to a day that was over, the files  *)
(* are in the order of seq and end at it (FilesRise); so what a replay had   *)
(* is told apart from the broadcast by the last seq it gave alone (Given),   *)
(* and what it did not have is on its way (NoneMissed).                      *)
(***************************************************************************)
(* What an entry may say, and a line of a file. *)
Says == {"session_started", "session_ended", "session_suspended", "renamed", "attention",
         "attention_cleared", "activity", "action", "nothing", "partial", "garbage", "created"}
Line == [seq : Nat, what : Says, of : Listed \cup {"nobody"}]
Client ==
  [phase : {"off", "subscribed", "live"}, queue : Seq(Line), since : Nat, last : Nat,
   got : SUBSET Nat, twice : BOOLEAN, lagged : BOOLEAN]

WriterTypes ==
  /\ roster \in [Listed -> J!Record \cup {J!Gone}]
  /\ prev \in [Listed -> J!Record \cup {J!Gone}]
  /\ todo \in [Listed -> Seq(Says)]
  /\ told \in [Listed -> [there : BOOLEAN, waits : BOOLEAN]]
  /\ running \in BOOLEAN

LogTypes ==
  /\ seq \in Nat
  /\ files \in [1..Days -> Seq(Line)]
  /\ today \in 1..Days
  /\ reset \in BOOLEAN /\ swapped \in BOOLEAN
  /\ limit \in Limits
  /\ kept \in [J!Appenders -> Line]
  /\ \A a \in J!Appenders : kept[a] # J!Nothing => kept[a].seq # 0

ClientTypes ==
  /\ client \in Client
  /\ Len(client.queue) <= Capacity
  /\ client.phase = "off" => client.queue = <<>>
  /\ seqs \in Nat /\ seen \subseteq Nat

(* What a follower knows once the changes it is owed are appended. *)
Ahead(t, q) ==
  CASE Len(q) = 0 -> t
    [] Len(q) = 1 -> J!Told(t, q[1])
    [] Len(q) = 2 -> J!Told(J!Told(t, q[1]), q[2])
    [] OTHER -> J!Told(J!Told(J!Told(t, q[1]), q[2]), q[3])

(* A session that ended stays listed until the writer has seen it, and is new
   when it comes back.                                                        *)
Noticed ==
  \A s \in Listed :
    /\ prev[s].life = "ended" => roster[s] \in {prev[s], J!Gone}
    /\ roster[s] = J!Gone => prev[s].life \in {"ended", "gone"}

Owed ==
  \A s \in Listed :
    /\ Len(todo[s]) \in 0..3
    /\ running => Ahead(told[s], todo[s]) = J!Known(prev[s])
    /\ ~running => prev[s] = J!Gone /\ todo[s] = <<>>

WriterInv == WriterTypes /\ Noticed /\ Owed

Orderly == ~reset /\ ~swapped

(* A line that was not torn, by day and place. *)
Whole(f, d, i) == d \in 1..Days /\ i \in 1..Len(f[d]) /\ f[d][i].seq # 0

Under(f, n) == \A d, i : Whole(f, d, i) => f[d][i].seq <= n

Rising(f) ==
  \A d, i, e, j : Whole(f, d, i) /\ Whole(f, e, j) /\ (d < e \/ (d = e /\ i < j))
                => f[d][i].seq < f[e][j].seq

FilesRise == Orderly => Under(files, seq) /\ Rising(files)

LogInv == LogTypes /\ FilesRise

(* An entry is on its way to the client once, in the channel or by the task
   that wrote it.                                                             *)
Queued(n) == \E i \in 1..Len(client.queue) : client.queue[i].seq = n
Carried(n)   == \E a \in J!Appenders : kept[a] # J!Nothing /\ kept[a].seq = n

OnceOnItsWay ==
  /\ \A i \in 1..Len(client.queue) :
       /\ client.queue[i].seq <= seq /\ ~Carried(client.queue[i].seq)
       /\ \A j \in 1..Len(client.queue) : client.queue[i].seq = client.queue[j].seq => i = j
  /\ \A a \in J!Appenders :
       /\ kept[a].seq <= seq
       /\ \A b \in J!Appenders : kept[a].seq = kept[b].seq /\ kept[a] # J!Nothing => a = b

(* What was given is not given again. *)
Given ==
  client.phase = "live" /\ Orderly =>
    /\ ~client.twice
    /\ client.last = client.since \/ client.last <= seq
    /\ \A n \in client.got : n <= seq /\ (n > client.last => ~Queued(n) /\ ~Carried(n))

(* What was not given comes. *)
Comes(n) == n \in client.got \/ (n > client.last /\ (Queued(n) \/ Carried(n)))

NoneMissed ==
  client.phase = "live" /\ Orderly /\ ~client.lagged =>
    \A d, i, n : Whole(files, d, i) /\ n = files[d][i].seq /\ n > client.since => Comes(n)

ClientInv == ClientTypes /\ OnceOnItsWay /\ Given /\ NoneMissed

JournalInv == WriterInv /\ LogInv /\ ClientInv

(* Case by case. *)
LEMMA AheadIs ==
  ASSUME NEW t, NEW q, Len(q) \in 0..3
  PROVE  /\ Len(q) = 0 => Ahead(t, q) = t
         /\ Len(q) = 1 => Ahead(t, q) = J!Told(t, q[1])
         /\ Len(q) = 2 => Ahead(t, q) = J!Told(J!Told(t, q[1]), q[2])
         /\ Len(q) = 3 => Ahead(t, q) = J!Told(J!Told(J!Told(t, q[1]), q[2]), q[3])
  BY DEF Ahead

(* The first change that is owed is appended. *)
LEMMA AheadTail ==
  ASSUME NEW t, NEW q \in Seq(Says), Len(q) \in 1..3
  PROVE  /\ q # <<>> /\ Tail(q) \in Seq(Says) /\ Len(Tail(q)) = Len(q) - 1
         /\ Ahead(J!Told(t, Head(q)), Tail(q)) = Ahead(t, q)
<1>1. PICK r : r = Tail(q)
  OBVIOUS
<1>2. Len(q) \in 1..3 /\ q # <<>> /\ Head(q) = q[1]
  OBVIOUS
<1>3. /\ r \in Seq(Says) /\ Len(r) = Len(q) - 1
      /\ \A i \in 1..Len(r) : r[i] = q[i + 1]
  BY <1>1, <1>2
<1>4. /\ Len(q) = 2 => r[1] = q[2]
      /\ Len(q) = 3 => r[1] = q[2] /\ r[2] = q[3]
  BY <1>2, <1>3
<1>5. PICK u : u = J!Told(t, q[1])
  OBVIOUS
<1>6. Ahead(u, r) = Ahead(t, q)
  <2>1. CASE Len(q) = 1
    BY <1>3, <1>5, <2>1, AheadIs
  <2>2. CASE Len(q) = 2
    BY <1>3, <1>4, <1>5, <2>2, AheadIs
  <2>3. CASE Len(q) = 3
    BY <1>3, <1>4, <1>5, <2>3, AheadIs
  <2>4. QED
    BY <1>2, <2>1, <2>2, <2>3
<1>7. QED
  BY <1>1, <1>2, <1>3, <1>5, <1>6

(* What one list of at most one change adds. *)
Adds(t, x) == IF Len(x) = 0 THEN t ELSE J!Told(t, x[1])

LEMMA AddsIs ==
  ASSUME NEW t, NEW x, Len(x) \in {0, 1}
  PROVE  (Len(x) = 0 => Adds(t, x) = t) /\ (Len(x) = 1 => Adds(t, x) = J!Told(t, x[1]))
  BY DEF Adds

LEMMA AheadJoined ==
  ASSUME NEW t, NEW x \in Seq(Says), NEW y \in Seq(Says), NEW z \in Seq(Says),
         Len(x) \in {0, 1}, Len(y) \in {0, 1}, Len(z) \in {0, 1}
  PROVE  /\ (x \o y) \o z \in Seq(Says)
         /\ Len((x \o y) \o z) \in 0..3
         /\ Ahead(t, (x \o y) \o z) = Adds(Adds(Adds(t, x), y), z)
<1>12. PICK q : q = (x \o y) \o z
  OBVIOUS
<1>11. PICK w, u, v : w = x \o y /\ q = w \o z /\ u = Adds(t, x) /\ v = Adds(u, y)
  BY <1>12
<1>1. /\ w \in Seq(Says) /\ Len(w) = Len(x) + Len(y)
      /\ \A i \in 1..Len(x) : w[i] = x[i]
      /\ \A i \in 1..Len(y) : w[Len(x) + i] = y[i]
  BY <1>11, ConcatProperties
<1>2. /\ q \in Seq(Says) /\ Len(q) = Len(w) + Len(z)
      /\ \A i \in 1..Len(w) : q[i] = w[i]
      /\ \A i \in 1..Len(z) : q[Len(w) + i] = z[i]
  BY ONLY <1>1, <1>11, z \in Seq(Says), ConcatProperties
<1>3. Len(q) \in 0..3
  <2>1. PICK a \in 0..1, b \in 0..1, c \in 0..1 : a = Len(x) /\ b = Len(y) /\ c = Len(z)
    OBVIOUS
  <2>2. Len(q) = (a + b) + c
    BY <1>1, <1>2, <2>1
  <2>3. QED
    BY <2>2
<1>4. /\ Len(x) = 0 => u = t
      /\ Len(x) = 1 => u = J!Told(t, x[1])
      /\ Len(y) = 0 => v = u
      /\ Len(y) = 1 => v = J!Told(u, y[1])
      /\ Len(z) = 0 => Adds(v, z) = v
      /\ Len(z) = 1 => Adds(v, z) = J!Told(v, z[1])
  BY <1>11, AddsIs
<1>5. /\ Len(q) = 0 => Ahead(t, q) = t
      /\ Len(q) = 1 => Ahead(t, q) = J!Told(t, q[1])
      /\ Len(q) = 2 => Ahead(t, q) = J!Told(J!Told(t, q[1]), q[2])
      /\ Len(q) = 3 => Ahead(t, q) = J!Told(J!Told(J!Told(t, q[1]), q[2]), q[3])
  BY ONLY <1>3, AheadIs
<1>6. CASE Len(x) = 0 /\ Len(y) = 0
  <2>1. Len(q) = Len(z) /\ (Len(z) = 1 => q[1] = z[1])
    BY <1>1, <1>2, <1>6
  <2>2. QED
    BY <1>2, <1>3, <1>4, <1>5, <1>11, <1>6, <2>1
<1>7. CASE Len(x) = 0 /\ Len(y) = 1
  <2>1. Len(q) = 1 + Len(z) /\ q[1] = y[1] /\ (Len(z) = 1 => q[2] = z[1])
    BY <1>1, <1>2, <1>7
  <2>2. QED
    BY <1>2, <1>3, <1>4, <1>5, <1>11, <1>7, <2>1
<1>8. CASE Len(x) = 1 /\ Len(y) = 0
  <2>1. Len(q) = 1 + Len(z) /\ q[1] = x[1] /\ (Len(z) = 1 => q[2] = z[1])
    BY <1>1, <1>2, <1>8
  <2>2. QED
    BY <1>2, <1>3, <1>4, <1>5, <1>11, <1>8, <2>1
<1>9. CASE Len(x) = 1 /\ Len(y) = 1
  <2>1. Len(q) = 2 + Len(z) /\ q[1] = x[1] /\ q[2] = y[1] /\ (Len(z) = 1 => q[3] = z[1])
    BY <1>1, <1>2, <1>9
  <2>2. QED
    BY <1>2, <1>3, <1>4, <1>5, <1>11, <1>9, <2>1
<1>10. QED
  BY <1>3, <1>11, <1>12, <1>2, <1>6, <1>7, <1>8, <1>9

(* A list of one change, or of none. *)
LEMMA OneOrNone ==
  /\ <<>> \in Seq(Says) /\ Len(<<>>) = 0
  /\ \A w \in Says : <<w>> \in Seq(Says) /\ Len(<<w>>) = 1 /\ <<w>>[1] = w
  OBVIOUS

LEMMA SaysKnown ==
  /\ "session_started" \in Says /\ "session_ended" \in Says /\ "session_suspended" \in Says
  /\ "renamed" \in Says /\ "attention" \in Says /\ "attention_cleared" \in Says
  /\ "activity" \in Says
  BY DEF Says

LEMMA ToldIs ==
  ASSUME NEW t \in [there : BOOLEAN, waits : BOOLEAN]
  PROVE  /\ J!Told(t, "session_started") = [there |-> TRUE, waits |-> FALSE]
         /\ J!Told(t, "session_ended") = [there |-> FALSE, waits |-> FALSE]
         /\ J!Told(t, "attention") = [there |-> t.there, waits |-> TRUE]
         /\ J!Told(t, "attention_cleared") = [there |-> t.there, waits |-> FALSE]
         /\ \A w \in {"session_suspended", "renamed", "activity"} : J!Told(t, w) = t
  BY DEF J!Told, J!Untold

LEMMA AddsOne ==
  ASSUME NEW t PROVE Adds(t, <<>>) = t /\ \A w \in Says : Adds(t, <<w>>) = J!Told(t, w)
  BY OneOrNone, AddsIs

(* The changes between two snapshots take who knows the one to the other. *)
LEMMA AheadChanges ==
  ASSUME NEW old \in J!Record \cup {J!Gone}, NEW new \in J!Record \cup {J!Gone},
         old.life = "ended" => new \in {old, J!Gone},
         new = J!Gone => old.life \in {"ended", "gone"},
         NEW q, q = J!ChangesOf(old, new)
  PROVE  /\ q \in Seq(Says) /\ Len(q) \in 0..3
         /\ Ahead(J!Known(old), q) = J!Known(new)
<1>1. /\ J!Gone.life = "gone" /\ J!Gone.needs = FALSE
      /\ \A r \in J!Record : r.life \in {"live", "suspended", "ended"} /\ r.needs \in BOOLEAN
                             /\ r # J!Gone
  BY DEF J!Gone, J!Record
<1>8. /\ J!Known(old) \in [there : BOOLEAN, waits : BOOLEAN]
      /\ J!Known(old) = [there |-> J!Known(old).there, waits |-> J!Known(old).waits]
  BY <1>1 DEF J!Known
<1>2. CASE new = J!Gone
  <2>1. q = <<>>
    BY <1>2 DEF J!ChangesOf
  <2>2. J!Known(old) = J!Known(new)
    BY <1>1, <1>2 DEF J!Known
  <2>3. QED
    BY <2>1, <2>2, OneOrNone DEF Ahead
<1>3. CASE new # J!Gone /\ old = J!Gone /\ new.life = "ended"
  <2>1. q = <<>>
    BY <1>3 DEF J!ChangesOf
  <2>2. J!Known(old) = J!Known(new)
    BY <1>1, <1>3 DEF J!Known
  <2>3. QED
    BY <2>1, <2>2, OneOrNone DEF Ahead
<1>4. CASE new # J!Gone /\ old = J!Gone /\ new.life # "ended"
  <2>1. PICK x : x = <<"session_started">>
    OBVIOUS
  <2>2. PICK z : z = IF new.needs THEN <<"attention">> ELSE <<>>
    OBVIOUS
  <2>3. PICK n : n = <<>>
    OBVIOUS
  <2>4. q = x \o z
    BY <1>4, <2>1, <2>2 DEF J!ChangesOf
  <2>5. /\ x \in Seq(Says) /\ Len(x) = 1 /\ x[1] = "session_started"
        /\ n \in Seq(Says) /\ Len(n) = 0
        /\ z \in Seq(Says) /\ Len(z) \in {0, 1}
        /\ new.needs => Len(z) = 1 /\ z[1] = "attention"
        /\ ~new.needs => Len(z) = 0
    BY <2>1, <2>2, <2>3, OneOrNone, SaysKnown
  <2>6. x = x \o n
    BY <2>3, <2>5
  <2>7. PICK u, v : /\ q = (x \o n) \o z
                  /\ u = Adds(J!Known(old), x) /\ v = Adds(u, n)
    BY <2>4, <2>6
  <2>8. /\ q \in Seq(Says) /\ Len(q) \in 0..3
        /\ Ahead(J!Known(old), q) = Adds(v, z)
    <3>1. Len(x) \in {0, 1} /\ Len(n) \in {0, 1} /\ Len(z) \in {0, 1}
      BY <2>5
    <3>2. x \in Seq(Says) /\ n \in Seq(Says) /\ z \in Seq(Says)
      BY <2>5
    <3>3. QED
      <4>1. PICK k : k = J!Known(old)
        OBVIOUS
      <4>2. q = (x \o n) \o z /\ v = Adds(Adds(k, x), n)
        BY <2>7, <4>1
      <4>3. /\ (x \o n) \o z \in Seq(Says)
            /\ Len((x \o n) \o z) \in 0..3
            /\ Ahead(k, (x \o n) \o z) = Adds(Adds(Adds(k, x), n), z)
        BY ONLY <3>1, <3>2, AheadJoined
      <4>4. QED
        BY <4>1, <4>2, <4>3
  <2>9. v = [there |-> TRUE, waits |-> FALSE]
    BY <2>7, <1>8, <2>5, AddsIs, ToldIs
  <2>10. Adds(v, z) = [there |-> TRUE, waits |-> new.needs]
    <3>1. v \in [there : BOOLEAN, waits : BOOLEAN] /\ v.there = TRUE
      BY <2>9
    <3>2. CASE new.needs = TRUE
      <4>1. Adds(v, z) = J!Told(v, "attention")
        BY <2>2, <3>2, AddsOne, SaysKnown
      <4>2. QED
        BY <3>1, <3>2, <4>1, ToldIs
    <3>3. CASE new.needs = FALSE
      <4>1. Adds(v, z) = v
        BY <2>2, <3>3, AddsOne
      <4>2. QED
        BY <2>9, <3>3, <4>1
    <3>4. QED
      BY <1>1, <1>4, <3>2, <3>3
  <2>11. J!Known(new) = [there |-> TRUE, waits |-> new.needs]
    BY <1>1, <1>4 DEF J!Known
  <2>12. QED
    BY <2>8, <2>9, <2>10, <2>11
<1>5. CASE new # J!Gone /\ old # J!Gone /\ new.life # old.life /\ new.life = "ended"
  <2>1. q = <<"session_ended">>
    BY <1>5 DEF J!ChangesOf
  <2>2. q \in Seq(Says) /\ Len(q) = 1 /\ q[1] = "session_ended"
    BY <2>1, OneOrNone, SaysKnown
  <2>3. Ahead(J!Known(old), q) = J!Untold
    <3>1. Ahead(J!Known(old), q) = J!Told(J!Known(old), "session_ended")
      BY <2>2, AheadIs
    <3>2. J!Told(J!Known(old), "session_ended") = [there |-> FALSE, waits |-> FALSE]
      BY <1>8, ToldIs
    <3>3. QED
      BY <3>1, <3>2 DEF J!Untold
  <2>4. J!Known(new) = J!Untold
    <3>1. (new.life \in {"live", "suspended"}) = FALSE
      BY <1>5
    <3>2. QED
      BY <3>1 DEF J!Known, J!Untold
  <2>5. QED
    BY <2>2, <2>3, <2>4
<1>6. CASE new # J!Gone /\ old # J!Gone /\ ~(new.life # old.life /\ new.life = "ended")
  <2> DEFINE claimed == new.claim # old.claim \/ new.needs # old.needs
  <2>1. PICK x : x = IF new.life # old.life /\ new.life = "suspended"
                     THEN <<"session_suspended">> ELSE <<>>
    OBVIOUS
  <2>2. PICK y : y = IF new.name # old.name THEN <<"renamed">> ELSE <<>>
    OBVIOUS
  <2>3. PICK z : z = IF claimed /\ new.needs THEN <<"attention">>
                     ELSE IF old.needs /\ ~new.needs THEN <<"attention_cleared">>
                     ELSE IF claimed THEN <<"activity">> ELSE <<>>
    OBVIOUS
  <2>4. PICK u, v : /\ q = (x \o y) \o z
                  /\ u = Adds(J!Known(old), x) /\ v = Adds(u, y)
    BY <1>6, <2>1, <2>2, <2>3 DEF J!ChangesOf
  <2>5. /\ x \in Seq(Says) /\ Len(x) \in {0, 1} /\ (Len(x) = 1 => x[1] = "session_suspended")
    BY <2>1, OneOrNone, SaysKnown
  <2>6. /\ y \in Seq(Says) /\ Len(y) \in {0, 1} /\ (Len(y) = 1 => y[1] = "renamed")
    BY <2>2, OneOrNone, SaysKnown
  <2>7. /\ z \in Seq(Says) /\ Len(z) \in {0, 1}
        /\ claimed /\ new.needs => Len(z) = 1 /\ z[1] = "attention"
        /\ old.needs /\ ~new.needs => Len(z) = 1 /\ z[1] = "attention_cleared"
        /\ ~(claimed /\ new.needs) /\ ~(old.needs /\ ~new.needs) /\ Len(z) = 1 => z[1] = "activity"
    <3>1. CASE claimed /\ new.needs
      BY <2>3, <3>1, OneOrNone, SaysKnown
    <3>2. CASE ~(claimed /\ new.needs) /\ old.needs /\ ~new.needs
      BY <2>3, <3>2, OneOrNone, SaysKnown
    <3>3. CASE ~(claimed /\ new.needs) /\ ~(old.needs /\ ~new.needs)
      BY <2>3, <3>3, OneOrNone, SaysKnown
    <3>4. QED
      BY <3>1, <3>2, <3>3
  <2>8. /\ q \in Seq(Says) /\ Len(q) \in 0..3
        /\ Ahead(J!Known(old), q) = Adds(v, z)
    <3>1. Len(x) \in {0, 1} /\ Len(y) \in {0, 1} /\ Len(z) \in {0, 1}
      BY <2>5, <2>6, <2>7
    <3>2. x \in Seq(Says) /\ y \in Seq(Says) /\ z \in Seq(Says)
      BY <2>5, <2>6, <2>7
    <3>3. QED
      <4>1. PICK k : k = J!Known(old)
        OBVIOUS
      <4>2. q = (x \o y) \o z /\ v = Adds(Adds(k, x), y)
        BY <2>4, <4>1
      <4>3. /\ (x \o y) \o z \in Seq(Says)
            /\ Len((x \o y) \o z) \in 0..3
            /\ Ahead(k, (x \o y) \o z) = Adds(Adds(Adds(k, x), y), z)
        BY ONLY <3>1, <3>2, AheadJoined
      <4>4. QED
        BY <4>1, <4>2, <4>3
  <2>9. u = J!Known(old)
    BY <2>4, <1>8, <2>5, AddsIs, ToldIs
  <2>10. v = J!Known(old)
    BY <2>4, <2>9, <1>8, <2>6, AddsIs, ToldIs
  <2>11. Adds(J!Known(old), z) = J!Known(new)
    <3>1. CASE new.life = "ended"
      <4>1. old.life = "ended" /\ new = old
        BY <1>6, <3>1
      <4>2. ~claimed /\ ~(old.needs /\ ~new.needs)
        BY <4>1
      <4>3. Len(z) = 1 => z[1] = "activity"
        BY <1>8, <2>7, <4>2
      <4>4. QED
        BY <1>8, <2>7, <4>1, <4>3, AddsIs, ToldIs
    <3>2. CASE new.life # "ended"
      <4>1. /\ J!Known(new) = [there |-> TRUE, waits |-> new.needs]
            /\ J!Known(old) = [there |-> TRUE, waits |-> old.needs]
            /\ new.needs \in BOOLEAN /\ old.needs \in BOOLEAN
        BY <1>1, <1>6, <3>2 DEF J!Known
      <4>2. CASE claimed /\ new.needs
        <5>1. Adds(J!Known(old), z) = J!Told(J!Known(old), "attention")
          BY <2>3, <4>2, AddsOne, SaysKnown
        <5>2. J!Told(J!Known(old), "attention") = [there |-> J!Known(old).there, waits |-> TRUE]
          BY <1>8, ToldIs
        <5>3. QED
          BY <4>1, <4>2, <5>1, <5>2
      <4>3. CASE ~(claimed /\ new.needs) /\ old.needs /\ ~new.needs
        <5>1. Adds(J!Known(old), z) = J!Told(J!Known(old), "attention_cleared")
          BY <2>3, <4>3, AddsOne, SaysKnown
        <5>2. J!Told(J!Known(old), "attention_cleared")
                = [there |-> J!Known(old).there, waits |-> FALSE]
          BY <1>8, ToldIs
        <5>3. new.needs = FALSE
          BY <4>1, <4>2, <4>3
        <5>4. J!Known(old).there = TRUE
          BY <4>1
        <5>5. QED
          BY <4>1, <5>1, <5>2, <5>3, <5>4
      <4>4. CASE ~(claimed /\ new.needs) /\ ~(old.needs /\ ~new.needs)
        <5>1. new.needs = old.needs
          BY <4>1, <4>4
        <5>2. z = IF claimed THEN <<"activity">> ELSE <<>>
          BY <2>3, <4>4
        <5>3. Adds(J!Known(old), z) = J!Known(old)
          BY <1>8, <5>2, AddsOne, SaysKnown, ToldIs
        <5>4. QED
          BY <4>1, <5>1, <5>3
      <4>5. QED
        BY <4>2, <4>3, <4>4
    <3>3. QED
      BY <3>1, <3>2
  <2>12. QED
    BY <2>8, <2>9, <2>10, <2>11
<1>7. QED
  BY <1>2, <1>3, <1>4, <1>5, <1>6

(* How a record moves on. *)
LEMMA MovesKnown ==
  ASSUME NEW r \in J!Record \cup {J!Gone}, NEW n \in J!Moves(r)
  PROVE  /\ n \in J!Record \cup {J!Gone}
         /\ r.life = "ended" => n = J!Gone
         /\ n = J!Gone => r.life = "ended"
<1>1. /\ J!Gone = [life |-> "gone", needs |-> FALSE, claim |-> 0, name |-> 0]
      /\ \A q \in J!Record : q.life \in {"live", "suspended", "ended"} /\ q # J!Gone
  BY DEF J!Gone, J!Record
<1>2. CASE r.life = "gone"
  <2>1. r = J!Gone
    BY <1>1, <1>2
  <2>2. J!Moves(r) = [life : {"live"}, needs : BOOLEAN, claim : 0..1, name : {0}]
    BY <1>2 DEF J!Moves
  <2>4. n \in J!Record
    BY <2>2 DEF J!Record
  <2>5. QED
    BY <1>1, <1>2, <2>4
<1>3. CASE r.life = "ended"
  BY <1>1, <1>3 DEF J!Moves
<1>4. CASE r.life \in {"live", "suspended"}
  <2>1. r \in J!Record
    BY <1>1, <1>4
  <2>2. \/ \E l \in {"live", "suspended", "ended"} : n = [r EXCEPT !.life = l]
        \/ \E b \in BOOLEAN : n = [r EXCEPT !.claim = 1 - @, !.needs = b]
        \/ n = [r EXCEPT !.name = 1 - @]
    <3>1. J!Moves(r) = {[r EXCEPT !.life = l] : l \in {"live", "suspended", "ended"}}
                         \cup {[r EXCEPT !.claim = 1 - @, !.needs = b] : b \in BOOLEAN}
                         \cup {[r EXCEPT !.name = 1 - @]}
      <4>1. r.life # "gone" /\ r.life # "ended"
        BY <1>4
      <4>2. QED
        BY <4>1, Zenon DEF J!Moves
    <3>2. QED
      BY <3>1, Zenon
  <2>3. n \in J!Record
    <3>1. 1 - r.claim \in 0..1 /\ 1 - r.name \in 0..1
      BY <2>1 DEF J!Record
    <3>2. CASE \E l \in {"live", "suspended", "ended"} : n = [r EXCEPT !.life = l]
      BY <2>1, <3>2 DEF J!Record
    <3>3. CASE \E b \in BOOLEAN : n = [r EXCEPT !.claim = 1 - @, !.needs = b]
      BY <2>1, <3>1, <3>3 DEF J!Record
    <3>4. CASE n = [r EXCEPT !.name = 1 - @]
      BY <2>1, <3>1, <3>4 DEF J!Record
    <3>5. QED
      BY <2>2, <3>2, <3>3, <3>4
  <2>4. QED
    BY <1>1, <1>4, <2>3
<1>5. QED
  BY <1>1, <1>2, <1>3, <1>4

(* What is new in the roster is known when its changes are. *)
LEMMA WriterMoves ==
  ASSUME WriterInv, J!RosterMoves PROVE WriterInv'
<1>1. /\ WriterTypes /\ Noticed /\ Owed
      /\ prev' = prev /\ todo' = todo /\ running' = running /\ told' = told
  BY DEF WriterInv, J!RosterMoves
<1>12. PICK s \in Listed : \E r \in J!Moves(roster[s]) \ {roster[s]} :
        /\ roster[s].life = "ended" => prev[s].life \in {"ended", "gone"}
        /\ roster[s] = J!Gone => prev[s] = J!Gone
        /\ roster' = [roster EXCEPT ![s] = r]
  BY DEF J!RosterMoves
<1>2. PICK r \in J!Moves(roster[s]) :
        /\ r # roster[s]
        /\ roster[s].life = "ended" => prev[s].life \in {"ended", "gone"}
        /\ roster[s] = J!Gone => prev[s] = J!Gone
        /\ roster' = [roster EXCEPT ![s] = r]
  BY <1>12
<1>3. roster[s] \in J!Record \cup {J!Gone} /\ prev[s] \in J!Record \cup {J!Gone}
  BY <1>1 DEF WriterTypes
<1>4. /\ r \in J!Record \cup {J!Gone}
      /\ roster[s].life = "ended" => r = J!Gone
      /\ r = J!Gone => roster[s].life = "ended"
  BY <1>3, MovesKnown
<1>5. WriterTypes'
  BY <1>1, <1>2, <1>4 DEF WriterTypes
<1>6. Owed'
  BY <1>1 DEF Owed
<1>7. roster'[s] = r /\ \A q \in Listed \ {s} : roster'[q] = roster[q]
  BY <1>1, <1>2 DEF WriterTypes
<1>8. J!Gone.life = "gone"
  BY DEF J!Gone
<1>9. prev[s].life = "ended" => r = J!Gone
  <2>1. ASSUME prev[s].life = "ended" PROVE roster[s] \in {prev[s], J!Gone}
    BY <1>1, <2>1 DEF Noticed
  <2>2. QED
    BY <1>2, <1>4, <1>8, <2>1
<1>10. Noticed'
  <2>1. ASSUME NEW q \in Listed
        PROVE  /\ prev[q].life = "ended" => roster'[q] \in {prev[q], J!Gone}
               /\ roster'[q] = J!Gone => prev[q].life \in {"ended", "gone"}
    <3>1. CASE q = s
      BY <1>2, <1>4, <1>7, <1>9, <3>1
    <3>2. CASE q # s
      BY <1>1, <1>7, <3>2 DEF Noticed
    <3>3. QED
      BY <3>1, <3>2
  <2>2. QED
    BY <1>1, <2>1 DEF Noticed
<1>11. QED
  BY <1>5, <1>6, <1>10 DEF WriterInv

LEMMA WriterBegins ==
  ASSUME WriterInv, J!WriterStarts PROVE WriterInv'
<1>1. /\ WriterTypes /\ Noticed /\ Owed
      /\ ~running /\ running' = TRUE /\ prev' = roster /\ roster' = roster /\ todo' = todo
      /\ told' = [s \in Listed |-> [there |-> roster[s].life \notin {"gone", "ended"},
                                    waits |-> roster[s].needs /\ roster[s].life # "ended"]]
  BY DEF WriterInv, J!WriterStarts
<1>2. ASSUME NEW s \in Listed
      PROVE  /\ roster[s].needs \in BOOLEAN
             /\ roster[s].life \in {"live", "suspended", "ended", "gone"}
             /\ roster[s].life = "gone" => roster[s].needs = FALSE
  <2>1. roster[s] \in J!Record \cup {J!Gone}
    BY <1>1 DEF WriterTypes
  <2>2. CASE roster[s] \in J!Record
    BY <2>2 DEF J!Record
  <2>3. CASE roster[s] = J!Gone
    BY <2>3 DEF J!Gone
  <2>4. QED
    BY <2>1, <2>2, <2>3
<1>3. WriterTypes'
  BY <1>1, <1>2 DEF WriterTypes
<1>4. Noticed'
  <2>1. J!Gone.life = "gone"
    BY DEF J!Gone
  <2>2. QED
    BY <1>1, <2>1 DEF Noticed
<1>5. Owed'
  <2>1. ASSUME NEW s \in Listed
        PROVE  todo[s] = <<>> /\ Len(todo[s]) \in 0..3 /\ told'[s] = J!Known(roster[s])
    <3>1. todo[s] = <<>> /\ Len(todo[s]) \in 0..3
      BY <1>1 DEF Owed
    <3>2. /\ (roster[s].life \notin {"gone", "ended"}) = (roster[s].life \in {"live", "suspended"})
          /\ (roster[s].needs /\ roster[s].life # "ended")
               = (roster[s].life \in {"live", "suspended"} /\ roster[s].needs)
      <4>1. CASE roster[s].life \in {"live", "suspended"}
        BY <1>2, <4>1
      <4>2. CASE roster[s].life = "ended"
        BY <1>2, <4>2
      <4>3. CASE roster[s].life = "gone"
        <5>1. roster[s].needs = FALSE
          BY <1>2, <4>3
        <5>2. QED
          BY <4>3, <5>1
      <4>4. QED
        BY <1>2, <4>1, <4>2, <4>3
    <3>3. QED
      BY <1>1, <3>1, <3>2 DEF J!Known
  <2>2. ASSUME NEW s \in Listed PROVE Ahead(told'[s], todo[s]) = told'[s]
    <3>1. Len(todo[s]) = 0
      BY <2>1
    <3>2. QED
      BY <3>1 DEF Ahead
  <2>3. QED
    BY <1>1, <2>1, <2>2 DEF Owed
<1>6. QED
  BY <1>3, <1>4, <1>5 DEF WriterInv

LEMMA WriterLooks ==
  ASSUME WriterInv, J!WriterDiffs PROVE WriterInv'
<1>1. /\ WriterTypes /\ Noticed /\ Owed
      /\ running /\ running' = running /\ prev' = roster /\ roster' = roster /\ told' = told
      /\ \A s \in Listed : todo[s] = <<>>
      /\ todo' = [s \in Listed |-> J!ChangesOf(prev[s], roster[s])]
  BY DEF WriterInv, J!WriterDiffs, J!CaughtUp, J!Changes
<1>2. J!Gone.life = "gone"
  BY DEF J!Gone
<1>3. ASSUME NEW s \in Listed
      PROVE  /\ todo'[s] \in Seq(Says) /\ Len(todo'[s]) \in 0..3
             /\ Ahead(told[s], todo'[s]) = J!Known(roster[s])
  <2>1. /\ prev[s] \in J!Record \cup {J!Gone} /\ roster[s] \in J!Record \cup {J!Gone}
        /\ prev[s].life = "ended" => roster[s] \in {prev[s], J!Gone}
        /\ roster[s] = J!Gone => prev[s].life \in {"ended", "gone"}
    BY <1>1 DEF WriterTypes, Noticed
  <2>2. PICK q : q = J!ChangesOf(prev[s], roster[s])
    OBVIOUS
  <2>3. /\ q \in Seq(Says) /\ Len(q) \in 0..3
        /\ Ahead(J!Known(prev[s]), q) = J!Known(roster[s])
    BY <2>1, <2>2, AheadChanges
  <2>4. told[s] = J!Known(prev[s])
    <3>1. Ahead(told[s], todo[s]) = J!Known(prev[s]) /\ Len(todo[s]) = 0
      BY <1>1 DEF Owed
    <3>2. QED
      BY <3>1 DEF Ahead
  <2>5. todo'[s] = q
    BY <1>1, <2>2
  <2>6. QED
    BY <2>3, <2>4, <2>5
<1>4. WriterTypes'
  <2>1. todo' \in [Listed -> Seq(Says)]
    BY <1>1, <1>3
  <2>2. QED
    BY <1>1, <2>1 DEF WriterTypes
<1>5. Noticed'
  BY <1>1, <1>2 DEF Noticed
<1>6. Owed'
  BY <1>1, <1>3 DEF Owed
<1>7. QED
  BY <1>4, <1>5, <1>6 DEF WriterInv

LEMMA WriterTold ==
  ASSUME WriterInv, J!WriterAppends PROVE WriterInv'
<1>1. /\ WriterTypes /\ Noticed /\ Owed
      /\ roster' = roster /\ prev' = prev /\ running' = running
  BY DEF WriterInv, J!WriterAppends
<1>2. PICK s \in Listed : /\ todo[s] # <<>>
                          /\ told' = [told EXCEPT ![s] = J!Told(@, Head(todo[s]))]
                          /\ todo' = [todo EXCEPT ![s] = Tail(@)]
  BY DEF J!WriterAppends, J!Turn
<1>3. PICK q : q = todo[s]
  OBVIOUS
<1>4. PICK t : t = told[s]
  OBVIOUS
<1>5. q \in Seq(Says) /\ Len(q) \in 0..3 /\ q # <<>>
  BY <1>1, <1>2, <1>3 DEF WriterTypes, Owed
<1>6. Len(q) \in 1..3
  <2>1. Len(q) # 0
    BY <1>5
  <2>2. QED
    BY <1>5, <2>1
<1>7. /\ Tail(q) \in Seq(Says) /\ Len(Tail(q)) \in 0..3
      /\ Ahead(J!Told(t, Head(q)), Tail(q)) = Ahead(t, q)
  BY <1>5, <1>6, AheadTail
<1>8. /\ told'[s] = J!Told(t, Head(q)) /\ todo'[s] = Tail(q)
      /\ \A r \in Listed \ {s} : told'[r] = told[r] /\ todo'[r] = todo[r]
  BY <1>1, <1>2, <1>3, <1>4 DEF WriterTypes
<1>9. J!Told(t, Head(q)) \in [there : BOOLEAN, waits : BOOLEAN]
  <2>1. t \in [there : BOOLEAN, waits : BOOLEAN]
    BY <1>1, <1>4 DEF WriterTypes
  <2>2. QED
    BY <2>1 DEF J!Told, J!Untold
<1>10. WriterTypes'
  BY <1>1, <1>2, <1>3, <1>4, <1>7, <1>9 DEF WriterTypes
<1>11. Noticed'
  BY <1>1 DEF Noticed
<1>12. running
  BY <1>1, <1>2 DEF Owed
<1>13. Owed'
  <2>1. ASSUME NEW r \in Listed
        PROVE  Len(todo'[r]) \in 0..3 /\ Ahead(told'[r], todo'[r]) = J!Known(prev[r])
    <3>1. CASE r = s
      <4>1. Ahead(t, q) = J!Known(prev[s])
        BY <1>1, <1>3, <1>4, <1>12 DEF Owed
      <4>2. QED
        BY <1>7, <1>8, <3>1, <4>1
    <3>2. CASE r # s
      BY <1>1, <1>8, <1>12, <3>2 DEF Owed
    <3>3. QED
      BY <3>1, <3>2
  <2>2. QED
    BY <1>1, <1>12, <2>1 DEF Owed
<1>14. QED
  BY <1>10, <1>11, <1>13 DEF WriterInv

LEMMA WriterAnew ==
  ASSUME WriterInv, J!Restart PROVE WriterInv'
<1>1. /\ WriterTypes
      /\ prev' = [s \in Listed |-> J!Gone] /\ todo' = [s \in Listed |-> <<>>]
      /\ running' = FALSE /\ told' = [s \in Listed |-> J!Untold]
  BY DEF WriterInv, J!Restart
<1>2. \A s \in Listed : roster'[s] \in {roster[s], J!Gone}
  BY DEF J!Restart
<1>3. roster' \in [Listed -> J!Record \cup {J!Gone}]
  <2>1. PICK stay \in SUBSET Listed :
          roster' = [s \in Listed |-> IF s \in stay THEN roster[s] ELSE J!Gone]
    BY DEF J!Restart
  <2>2. \A s \in Listed : roster[s] \in J!Record \cup {J!Gone}
    BY <1>1 DEF WriterTypes
  <2>3. QED
    BY <2>1, <2>2
<1>4. WriterTypes'
  <2>1. <<>> \in Seq(Says) /\ J!Untold \in [there : BOOLEAN, waits : BOOLEAN]
    BY DEF J!Untold
  <2>2. QED
    BY <1>1, <1>3, <2>1 DEF WriterTypes
<1>5. Noticed'
  <2>1. J!Gone.life = "gone"
    BY DEF J!Gone
  <2>2. QED
    BY <1>1, <2>1 DEF Noticed
<1>6. Owed'
  BY <1>1 DEF Owed
<1>7. QED
  BY <1>4, <1>5, <1>6 DEF WriterInv

LEMMA WriterStands ==
  ASSUME WriterInv, UNCHANGED <<roster, prev, todo, running, told>> PROVE WriterInv'
  BY DEF WriterInv, WriterTypes, Noticed, Owed

LEMMA WriterStep ==
  ASSUME WriterInv, J!Next PROVE WriterInv'
<1>1. CASE J!RosterMoves
  BY <1>1, WriterMoves
<1>2. CASE J!WriterStarts
  BY <1>2, WriterBegins
<1>3. CASE J!WriterDiffs
  BY <1>3, WriterLooks
<1>4. CASE J!WriterAppends
  BY <1>4, WriterTold
<1>5. CASE J!Restart
  BY <1>5, WriterAnew
<1>6. CASE \/ J!CallAppends \/ \E a \in J!Appenders : J!Broadcast(a)
           \/ J!Connect \/ J!Replay \/ J!Live \/ J!Disconnect \/ J!NextDay \/ J!Prune
  <2>1. UNCHANGED <<roster, prev, todo, running, told>>
    BY <1>6 DEF J!CallAppends, J!Broadcast, J!Connect, J!Replay, J!Live, J!Disconnect, J!NextDay,
       J!Prune, J!writer
  <2>2. QED
    BY <2>1, WriterStands
<1>7. QED
  BY <1>1, <1>2, <1>3, <1>4, <1>5, <1>6 DEF J!Next

(* A set of numbers has a least one. *)
LEMMA LeastOf ==
  ASSUME NEW W, W \subseteq Nat, W # {} PROVE \E x \in W : \A y \in W : x <= y
<1>1. PICK R : R = OpToRel(<, Nat)
  OBVIOUS
<1>2. IsWellFoundedOn(R, Nat)
  BY <1>1, NatLessThanWellFounded
<1>3. PICK x \in W : \A y \in W : ~(<<y, x>> \in R)
  BY <1>2, WFMin
<1>4. R = {ss \in Nat \X Nat : ss[1] < ss[2]}
  BY <1>1 DEF OpToRel
<1>5. ASSUME NEW a \in Nat, NEW b \in Nat, a < b PROVE <<a, b>> \in R
  <2>1. PICK w : w = <<a, b>>
    OBVIOUS
  <2>2. w \in Nat \X Nat /\ w[1] = a /\ w[2] = b
    BY <2>1
  <2>3. w[1] < w[2]
    BY <1>5, <2>2, Zenon
  <2>4. w \in R
    BY <1>4, <2>2, <2>3, Zenon
  <2>5. QED
    BY <2>1, <2>4
<1>6. ASSUME NEW y \in W PROVE x <= y
  <2>1. x \in Nat /\ y \in Nat
    OBVIOUS
  <2>2. ~(y < x)
    BY <1>3, <1>5, <2>1, Zenon
  <2>3. QED
    BY <2>1, <2>2
<1>7. QED
  BY <1>6

(* The places of whole lines. *)
PlacesOf(f) == UNION {{d} \X {i \in DOMAIN f[d] : f[d][i].seq # 0} : d \in 1..Days}

LEMMA PlacesKnown ==
  ASSUME NEW f \in [1..Days -> Seq(Line)]
  PROVE  /\ \A p \in PlacesOf(f) : p = <<p[1], p[2]>> /\ Whole(f, p[1], p[2])
         /\ \A d, i : Whole(f, d, i) => <<d, i>> \in PlacesOf(f)
<1>1. \A d \in 1..Days : DOMAIN f[d] = 1..Len(f[d])
  OBVIOUS
<1>2. ASSUME NEW p \in PlacesOf(f) PROVE p = <<p[1], p[2]>> /\ Whole(f, p[1], p[2])
  <2>1. PICK d \in 1..Days : p \in {d} \X {i \in DOMAIN f[d] : f[d][i].seq # 0}
    BY DEF PlacesOf
  <2>2. PICK i \in DOMAIN f[d] : f[d][i].seq # 0 /\ p = <<d, i>>
    BY <2>1
  <2>3. QED
    BY <1>1, <2>2 DEF Whole
<1>3. ASSUME NEW d, NEW i, Whole(f, d, i) PROVE <<d, i>> \in PlacesOf(f)
  <2>1. d \in 1..Days /\ i \in DOMAIN f[d] /\ f[d][i].seq # 0
    BY <1>1, <1>3 DEF Whole
  <2>2. <<d, i>> \in {d} \X {j \in DOMAIN f[d] : f[d][j].seq # 0}
    BY <2>1
  <2>3. QED
    BY <2>1, <2>2 DEF PlacesOf
<1>4. QED
  BY <1>2, <1>3

LEMMA PlacesAre == J!Places = PlacesOf(files) /\ J!Places' = PlacesOf(files')
  BY DEF J!Places, PlacesOf

(* One of some places is the last. *)
LEMMA LastOfKnown ==
  ASSUME Days \in Nat, NEW f \in [1..Days -> Seq(Line)], NEW ps \in SUBSET PlacesOf(f), ps # {}
  PROVE  /\ J!LastOf(ps) \in ps
         /\ \A q \in ps : q = J!LastOf(ps) \/ J!Before(q, J!LastOf(ps))
<1>1. \A p \in ps : /\ p = <<p[1], p[2]>> /\ p[1] \in 1..Days /\ p[2] \in 1..Len(f[p[1]])
                    /\ Len(f[p[1]]) \in Nat
  BY PlacesKnown DEF Whole
<1>2. PICK a \in ps : \A q \in ps : q[1] <= a[1]
  <2>1. PICK W : W = {Days - p[1] : p \in ps}
    OBVIOUS
  <2>2. W \subseteq Nat /\ W # {}
    BY <1>1, <2>1
  <2>3. PICK x \in W : \A y \in W : x <= y
    BY <2>2, LeastOf
  <2>4. PICK a \in ps : x = Days - a[1]
    BY <2>1
  <2>5. ASSUME NEW q \in ps PROVE q[1] <= a[1]
    <3>1. Days - q[1] \in W
      BY <2>1
    <3>2. x <= Days - q[1]
      BY <2>3, <3>1
    <3>3. QED
      BY <1>1, <2>4, <3>2
  <2>6. QED
    BY <2>5
<1>3. PICK n \in Nat : n = Len(f[a[1]])
  BY <1>1
<1>4. PICK b \in ps : b[1] = a[1] /\ \A q \in ps : q[1] = a[1] => q[2] <= b[2]
  <2>1. PICK W : W = {n - p[2] : p \in {r \in ps : r[1] = a[1]}}
    OBVIOUS
  <2>2. \A p \in ps : p[1] = a[1] => p[2] \in 1..n
    BY <1>1, <1>3
  <2>3. W \subseteq Nat /\ W # {}
    BY <2>1, <2>2
  <2>4. PICK x \in W : \A y \in W : x <= y
    BY <2>3, LeastOf
  <2>5. PICK b \in ps : b[1] = a[1] /\ x = n - b[2]
    BY <2>1
  <2>6. ASSUME NEW q \in ps, q[1] = a[1] PROVE q[2] <= b[2]
    <3>1. n - q[2] \in W
      BY <2>1, <2>6
    <3>2. x <= n - q[2]
      BY <2>4, <3>1
    <3>3. QED
      BY <2>2, <2>5, <2>6, <3>2
  <2>7. QED
    BY <2>5, <2>6
<1>5. ASSUME NEW q \in ps PROVE q = b \/ J!Before(q, b)
  <2>1. q = <<q[1], q[2]>> /\ b = <<b[1], b[2]>> /\ q[1] <= b[1]
    BY <1>1, <1>2, <1>4
  <2>2. q[1] \in Nat /\ b[1] \in Nat /\ q[2] \in Nat /\ b[2] \in Nat
    BY <1>1
  <2>3. q[1] = b[1] => q[2] <= b[2]
    BY <1>4
  <2>4. QED
    BY <2>1, <2>2, <2>3 DEF J!Before
<1>6. QED
  BY <1>4, <1>5 DEF J!LastOf

(* A file gets an entry, or a mark of one, after all the lines there are. *)
Follows(f, n, day, m) ==
  /\ Days \in Nat /\ f \in [1..Days -> Seq(Line)] /\ n \in Nat /\ day \in 1..Days
  /\ m \in Seq(Line)
  /\ Under(f, n) /\ Rising(f)
  /\ \A e \in (day + 1)..Days : f[e] = <<>>
  /\ \A i \in 1..Len(m) : \/ m[i].seq = 0
                          \/ i \in 1..Len(f[day]) /\ m[i] = f[day][i]
                          \/ i = Len(m) /\ m[i].seq = n + 1

Filed(f, day, m) == [f EXCEPT ![day] = m]

(* An entry that goes after all others keeps the order. *)
LEMMA RisesWith ==
  ASSUME NEW f, NEW n, NEW day, NEW m, Follows(f, n, day, m)
  PROVE  Under(Filed(f, day, m), n + 1) /\ Rising(Filed(f, day, m))
<1>20. /\ Days \in Nat /\ f \in [1..Days -> Seq(Line)] /\ n \in Nat /\ day \in 1..Days
       /\ m \in Seq(Line)
       /\ Under(f, n) /\ Rising(f)
       /\ \A e \in (day + 1)..Days : f[e] = <<>>
       /\ \A i \in 1..Len(m) : \/ m[i].seq = 0
                               \/ i \in 1..Len(f[day]) /\ m[i] = f[day][i]
                               \/ i = Len(m) /\ m[i].seq = n + 1
  BY DEF Follows
<1>0. PICK g : g = Filed(f, day, m)
  OBVIOUS
<1>1. g[day] = m /\ \A d \in 1..Days : d # day => g[d] = f[d]
  BY <1>20, <1>0 DEF Filed
<1>2. ASSUME NEW d, NEW i, Whole(g, d, i)
      PROVE  /\ d \in 1..Days /\ i \in Nat /\ d <= day /\ g[d][i].seq \in Nat
             /\ \/ Whole(f, d, i) /\ g[d][i] = f[d][i]
                \/ d = day /\ i = Len(m) /\ g[d][i].seq = n + 1
             /\ d = day => i <= Len(m)
  <2>1. d \in 1..Days /\ i \in 1..Len(g[d]) /\ g[d][i].seq # 0
    BY <1>20, <1>2 DEF Whole
  <2>2. CASE d = day
    <3>1. i \in 1..Len(m) /\ g[d][i] = m[i] /\ m[i] \in Line
      BY <1>20, <1>1, <2>1, <2>2
    <3>2. g[d][i].seq \in Nat
      BY <1>20, <3>1 DEF Line
    <3>3. \/ Whole(f, d, i) /\ g[d][i] = f[d][i]
          \/ d = day /\ i = Len(m) /\ g[d][i].seq = n + 1
      <4>1. \/ i \in 1..Len(f[day]) /\ m[i] = f[day][i]
            \/ i = Len(m) /\ m[i].seq = n + 1
        <5>1. i \in 1..Len(m) /\ m[i].seq # 0
          BY <2>1, <3>1
        <5>2. \A k \in 1..Len(m) : \/ m[k].seq = 0
                                   \/ k \in 1..Len(f[day]) /\ m[k] = f[day][k]
                                   \/ k = Len(m) /\ m[k].seq = n + 1
          BY ONLY <1>20
        <5>3. QED
          BY ONLY <5>1, <5>2, Zenon
      <4>2. QED
        BY <2>1, <2>2, <3>1, <4>1 DEF Whole
    <3>4. d <= day /\ i \in Nat /\ i <= Len(m)
      BY <1>20, <2>2, <3>1
    <3>5. QED
      BY <2>1, <3>2, <3>3, <3>4
  <2>3. CASE d # day
    <3>1. i \in 1..Len(f[d]) /\ g[d][i] = f[d][i] /\ f[d][i] \in Line /\ f[d] \in Seq(Line)
      <4>1. g[d] = f[d]
        BY ONLY <1>1, <2>1, <2>3
      <4>2. f[d] \in Seq(Line)
        BY ONLY <1>20, <2>1
      <4>3. i \in 1..Len(f[d])
        BY ONLY <2>1, <4>1
      <4>4. f[d][i] \in Line
        BY ONLY <4>2, <4>3
      <4>5. QED
        BY ONLY <4>1, <4>2, <4>3, <4>4
    <3>2. d <= day
      <4>1. Len(f[d]) # 0
        BY <1>20, <3>1
      <4>2. f[d] # <<>>
        BY <1>20, <4>1
      <4>3. d \notin (day + 1)..Days
        BY <1>20, <2>1, <4>2
      <4>4. QED
        BY <1>20, <2>1, <4>3
    <3>3. g[d][i].seq \in Nat
      BY <1>20, <3>1 DEF Line
    <3>4. QED
      BY <1>20, <1>1, <2>1, <2>3, <3>1, <3>2, <3>3 DEF Whole
  <2>4. QED
    BY <1>20, <2>2, <2>3
<1>3. ASSUME NEW d, NEW i, Whole(f, d, i) PROVE f[d][i].seq <= n
  BY <1>20, <1>3 DEF Under
<1>4. ASSUME NEW d, NEW i, Whole(g, d, i) PROVE g[d][i].seq <= n + 1
  <2>1. g[d][i].seq \in Nat
    BY <1>20, <1>2, <1>4
  <2>2. CASE Whole(f, d, i) /\ g[d][i] = f[d][i]
    <3>1. g[d][i].seq <= n
      BY <1>20, <1>3, <2>2
    <3>2. QED
      BY <1>20, <2>1, <3>1
  <2>3. CASE g[d][i].seq = n + 1
    BY <1>20, <2>1, <2>3
  <2>4. QED
    BY <1>20, <1>2, <1>4, <2>2, <2>3
<1>5. ASSUME NEW d, NEW i, NEW e, NEW j, Whole(g, d, i), Whole(g, e, j),
             d < e \/ (d = e /\ i < j)
      PROVE  g[d][i].seq < g[e][j].seq
  <2>1. /\ d \in 1..Days /\ i \in Nat /\ d <= day /\ g[d][i].seq \in Nat
        /\ \/ Whole(f, d, i) /\ g[d][i] = f[d][i]
           \/ d = day /\ i = Len(m) /\ g[d][i].seq = n + 1
    BY <1>20, <1>2, <1>5
  <2>2. /\ e \in 1..Days /\ j \in Nat /\ e <= day /\ g[e][j].seq \in Nat
        /\ \/ Whole(f, e, j) /\ g[e][j] = f[e][j]
           \/ e = day /\ j = Len(m) /\ g[e][j].seq = n + 1
        /\ e = day => j <= Len(m)
    BY <1>20, <1>2, <1>5
  <2>3. CASE d = day /\ i = Len(m) /\ g[d][i].seq = n + 1
    <3>1. e = day
      BY <1>20, <1>5, <2>1, <2>2, <2>3
    <3>2. i < j /\ j <= Len(m) /\ Len(m) \in Nat
      BY <1>20, <1>5, <2>2, <2>3, <3>1
    <3>3. QED
      BY <1>20, <2>2, <2>3, <3>2
  <2>4. CASE Whole(f, d, i) /\ g[d][i] = f[d][i]
    <3>1. CASE Whole(f, e, j) /\ g[e][j] = f[e][j]
      <4>1. f[d][i].seq < f[e][j].seq
        BY <1>20, <1>5, <2>4, <3>1 DEF Rising
      <4>2. QED
        BY <1>20, <2>4, <3>1, <4>1
    <3>2. CASE g[e][j].seq = n + 1
      <4>1. g[d][i].seq <= n
        BY <1>20, <1>3, <2>4
      <4>2. PICK k \in Nat : k = g[d][i].seq
        BY <1>20, <2>1
      <4>3. k < n + 1
        BY <1>20, <4>1, <4>2
      <4>4. QED
        BY <1>20, <3>2, <4>2, <4>3
    <3>3. QED
      BY <1>20, <2>2, <3>1, <3>2
  <2>5. QED
    BY <1>20, <2>1, <2>3, <2>4
<1>6. QED
  BY <1>20, <1>0, <1>4, <1>5 DEF Under, Rising

(* What a line, or a part of one, does to a file. *)
LEMMA AppendedKnown ==
  ASSUME NEW l \in Seq(Line), NEW x \in Line, J!Garbage \in Line, J!Garbage.seq = 0
  PROVE  \E m \in Seq(Line) :
           /\ m = J!Appended(l, x)
           /\ \A i \in 1..Len(m) : \/ m[i].seq = 0
                                   \/ i \in 1..Len(l) /\ m[i] = l[i]
                                   \/ i = Len(m) /\ m[i].seq = x.seq
<1>0. PICK m : m = J!Appended(l, x)
  OBVIOUS
<1>1. CASE J!EndsTorn(l)
  <2>1. PICK y \in Line : y = IF x = J!Partial THEN J!Partial ELSE J!Garbage
    OBVIOUS
  <2>2. y.seq = 0
    BY <2>1 DEF J!Garbage, J!Partial, J!Nothing
  <2>3. m = [l EXCEPT ![Len(l)] = y] /\ l # <<>>
    BY <1>0, <1>1, <2>1 DEF J!Appended, J!EndsTorn
  <2>4. Len(l) \in 1..Len(l)
    BY <2>3
  <2>5. /\ m \in Seq(Line) /\ Len(m) = Len(l) /\ m[Len(l)] = y
        /\ \A i \in 1..Len(l) : i # Len(l) => m[i] = l[i]
    BY <2>3, <2>4
  <2>6. ASSUME NEW i \in 1..Len(m) PROVE m[i].seq = 0 \/ (i \in 1..Len(l) /\ m[i] = l[i])
    <3>1. CASE i = Len(l)
      BY <2>2, <2>5, <3>1
    <3>2. CASE i # Len(l)
      BY <2>5, <3>2
    <3>3. QED
      BY <3>1, <3>2
  <2>7. QED
    BY <1>0, <2>5, <2>6
<1>2. CASE ~J!EndsTorn(l)
  <2>1. m = Append(l, x)
    BY <1>0, <1>2 DEF J!Appended
  <2>2. /\ m \in Seq(Line) /\ Len(m) = Len(l) + 1 /\ m[Len(l) + 1] = x
        /\ \A i \in 1..Len(l) : m[i] = l[i]
    BY <2>1
  <2>3. QED
    BY <1>0, <2>2
<1>3. QED
  BY <1>1, <1>2

LEMMA MarksKnown ==
  /\ J!Nothing \in Line /\ J!Partial \in Line /\ J!Garbage \in Line /\ J!Created \in Line
  /\ J!Nothing.seq = 0 /\ J!Partial.seq = 0 /\ J!Garbage.seq = 0 /\ J!Created.seq = 0
<1>1. J!Nothing = [seq |-> 0, what |-> "nothing", of |-> "nobody"]
  BY DEF J!Nothing
<1>2. /\ J!Partial = [seq |-> 0, what |-> "partial", of |-> "nobody"]
      /\ J!Garbage = [seq |-> 0, what |-> "garbage", of |-> "nobody"]
      /\ J!Created = [seq |-> 0, what |-> "created", of |-> "nobody"]
  BY DEF J!Nothing, J!Partial, J!Garbage, J!Created
<1>3. QED
  BY <1>1, <1>2 DEF Line, Says

(* The four ways an append ends: the entry, a part of it, an empty file, or
   nothing.                                                                   *)
Stores(a, entry, day, m) ==
  /\ entry.seq = seq + 1 /\ seq' = seq + 1
  /\ kept[a] = J!Nothing /\ kept' = [kept EXCEPT ![a] = entry]
  /\ swapped' = (swapped \/ \E d \in (day + 1)..Days : files[d] # <<>>)
  /\ files' = [files EXCEPT ![day] = m]
  /\ \A i \in 1..Len(m) : \/ m[i].seq = 0
                          \/ i \in 1..Len(files[day]) /\ m[i] = files[day][i]
                          \/ i = Len(m) /\ m[i].seq = seq + 1

LEMMA WriteKnown ==
  ASSUME Days \in Nat, LogTypes, NEW a \in J!Appenders, NEW what \in Says, NEW s \in Listed,
         J!Write(a, what, s)
  PROVE  \E entry \in Line : \E day \in 1..Days : \E m \in Seq(Line) : Stores(a, entry, day, m)
<1>1. PICK entry : entry = [seq |-> seq + 1, what |-> what, of |-> s]
  OBVIOUS
<1>2. seq \in Nat /\ files \in [1..Days -> Seq(Line)] /\ today \in 1..Days
  BY DEF LogTypes
<1>3. entry \in Line /\ entry.seq = seq + 1
  BY <1>1, <1>2 DEF Line
<1>4. seq' = seq + 1 /\ kept[a] = J!Nothing /\ kept' = [kept EXCEPT ![a] = entry]
  BY <1>1 DEF J!Write
<1>5. PICK day \in {today - 1, today} \ {0} :
        /\ swapped' = (swapped \/ \E d \in (day + 1)..Days : files[d] # <<>>)
        /\ \/ files' = [files EXCEPT ![day] = J!Appended(@, entry)]
           \/ files' = [files EXCEPT ![day] = J!Appended(@, J!Partial)]
           \/ files' = [files EXCEPT ![day] = <<J!Created>>]
           \/ files' = files
  BY <1>1 DEF J!Write
<1>6. day \in 1..Days
  BY <1>2, <1>5
<1>7. files[day] \in Seq(Line)
  BY <1>2, <1>6
<1>8. \E m \in Seq(Line) :
        /\ files' = [files EXCEPT ![day] = m]
        /\ \A i \in 1..Len(m) : \/ m[i].seq = 0
                                \/ i \in 1..Len(files[day]) /\ m[i] = files[day][i]
                                \/ i = Len(m) /\ m[i].seq = seq + 1
  <2>1. CASE files' = [files EXCEPT ![day] = J!Appended(@, entry)]
    <3>2. PICK m \in Seq(Line) :
          /\ m = J!Appended(files[day], entry)
          /\ \A i \in 1..Len(m) : \/ m[i].seq = 0
                                  \/ i \in 1..Len(files[day]) /\ m[i] = files[day][i]
                                  \/ i = Len(m) /\ m[i].seq = entry.seq
      <4>1. entry \in Line /\ J!Garbage \in Line /\ J!Garbage.seq = 0
        BY <1>3, MarksKnown
      <4>2. QED
        BY ONLY <1>7, <4>1, AppendedKnown
    <3>3. QED
      BY <1>3, <2>1, <3>2, Zenon
  <2>2. CASE files' = [files EXCEPT ![day] = J!Appended(@, J!Partial)]
    <3>2. PICK m \in Seq(Line) :
          /\ m = J!Appended(files[day], J!Partial)
          /\ \A i \in 1..Len(m) : \/ m[i].seq = 0
                                  \/ i \in 1..Len(files[day]) /\ m[i] = files[day][i]
                                  \/ i = Len(m) /\ m[i].seq = J!Partial.seq
      <4>1. J!Partial \in Line /\ J!Garbage \in Line /\ J!Garbage.seq = 0
        BY MarksKnown
      <4>2. QED
        BY ONLY <1>7, <4>1, AppendedKnown
    <3>3. J!Partial.seq = 0
      BY MarksKnown
    <3>4. QED
      BY <2>2, <3>2, <3>3, Zenon
  <2>3. CASE files' = [files EXCEPT ![day] = <<J!Created>>]
    <3>1. PICK m : m = <<J!Created>>
      OBVIOUS
    <3>2. m \in Seq(Line) /\ \A i \in 1..Len(m) : m[i].seq = 0
      BY <3>1, MarksKnown
    <3>3. QED
      BY <2>3, <3>1, <3>2, Zenon
  <2>4. CASE files' = files
    <3>1. files' = [files EXCEPT ![day] = files[day]]
      BY <1>2, <2>4
    <3>2. \A i \in 1..Len(files[day]) : i \in 1..Len(files[day]) /\ files[day][i] = files[day][i]
      OBVIOUS
    <3>3. QED
      BY <1>7, <3>1, <3>2, Zenon
  <2>5. QED
    BY <1>5, <2>1, <2>2, <2>3, <2>4
<1>9. PICK m \in Seq(Line) :
        /\ files' = [files EXCEPT ![day] = m]
        /\ \A i \in 1..Len(m) : \/ m[i].seq = 0
                                \/ i \in 1..Len(files[day]) /\ m[i] = files[day][i]
                                \/ i = Len(m) /\ m[i].seq = seq + 1
  BY ONLY <1>8
<1>10. /\ entry.seq = seq + 1 /\ seq' = seq + 1
       /\ kept[a] = J!Nothing /\ kept' = [kept EXCEPT ![a] = entry]
       /\ swapped' = (swapped \/ \E d \in (day + 1)..Days : files[d] # <<>>)
  BY <1>3, <1>4, <1>5
<1>11. entry \in Line
  BY <1>3
<1>12. QED
  BY <1>6, <1>9, <1>10, <1>11 DEF Stores

LEMMA LogWrites ==
  ASSUME Days \in Nat, LogInv, NEW a \in J!Appenders, NEW what \in Says, NEW s \in Listed,
         J!Write(a, what, s), UNCHANGED <<today, reset, limit>>
  PROVE  LogInv'
<1>1. LogTypes /\ FilesRise
  BY DEF LogInv
<1>2. PICK entry \in Line : \E day \in 1..Days : \E m \in Seq(Line) : Stores(a, entry, day, m)
  BY <1>1, WriteKnown
<1>3. PICK day \in 1..Days : \E m \in Seq(Line) : Stores(a, entry, day, m)
  BY <1>2
<1>0. PICK m \in Seq(Line) : Stores(a, entry, day, m)
  BY <1>3
<1>4. /\ entry.seq = seq + 1 /\ seq' = seq + 1
      /\ kept[a] = J!Nothing /\ kept' = [kept EXCEPT ![a] = entry]
      /\ swapped' = (swapped \/ \E d \in (day + 1)..Days : files[d] # <<>>)
      /\ files' = [files EXCEPT ![day] = m]
      /\ \A i \in 1..Len(m) : \/ m[i].seq = 0
                              \/ i \in 1..Len(files[day]) /\ m[i] = files[day][i]
                              \/ i = Len(m) /\ m[i].seq = seq + 1
  BY <1>0 DEF Stores
<1>5. /\ seq \in Nat /\ files \in [1..Days -> Seq(Line)] /\ kept \in [J!Appenders -> Line]
      /\ swapped \in BOOLEAN /\ reset \in BOOLEAN /\ today \in 1..Days /\ limit \in Limits
  BY <1>1 DEF LogTypes
<1>6. LogTypes'
  <2>1. seq' \in Nat /\ files' \in [1..Days -> Seq(Line)] /\ swapped' \in BOOLEAN
    BY <1>4, <1>5
  <2>2. /\ kept' \in [J!Appenders -> Line]
        /\ \A b \in J!Appenders : kept'[b] # J!Nothing => kept'[b].seq # 0
    <3>1. entry.seq # 0
      BY <1>4, <1>5
    <3>2. kept'[a] = entry /\ \A b \in J!Appenders \ {a} : kept'[b] = kept[b]
      BY <1>4, <1>5
    <3>3. \A b \in J!Appenders : kept[b] # J!Nothing => kept[b].seq # 0
      BY <1>1 DEF LogTypes
    <3>4. kept' \in [J!Appenders -> Line]
      BY <1>4, <1>5
    <3>5. QED
      BY <3>1, <3>2, <3>3, <3>4
  <2>3. QED
    BY <1>5, <2>1, <2>2 DEF LogTypes
<1>7. ASSUME Orderly' PROVE Under(files', seq') /\ Rising(files')
  <2>1. ~reset /\ ~swapped /\ \A d \in (day + 1)..Days : files[d] = <<>>
    BY <1>4, <1>7 DEF Orderly
  <2>2. Under(files, seq) /\ Rising(files)
    BY <1>1, <2>1 DEF FilesRise, Orderly
  <2>3. Under(files', seq + 1) /\ Rising(files')
    <3>1. Follows(files, seq, day, m) /\ files' = [files EXCEPT ![day] = m]
      BY <1>4, <1>5, <2>1, <2>2 DEF Follows
    <3>2. QED
      <4>1. Under(Filed(files, day, m), seq + 1) /\ Rising(Filed(files, day, m))
        BY <3>1, RisesWith, Zenon
      <4>2. files' = Filed(files, day, m)
        BY <3>1 DEF Filed
      <4>3. QED
        BY <4>1, <4>2, Zenon
  <2>4. QED
    BY <1>4, <2>3
<1>8. FilesRise'
  BY <1>7 DEF FilesRise
<1>9. QED
  BY <1>6, <1>8 DEF LogInv

LEMMA LogStands ==
  ASSUME LogInv, UNCHANGED <<seq, files, kept, today, reset, swapped, limit>> PROVE LogInv'
<1>1. LogTypes' /\ (Orderly' <=> Orderly)
  BY DEF LogInv, LogTypes, Orderly
<1>2. FilesRise'
  BY <1>1 DEF LogInv, FilesRise
<1>3. QED
  BY <1>1, <1>2 DEF LogInv

LEMMA LogBroadcast ==
  ASSUME LogInv, NEW a \in J!Appenders, J!Broadcast(a) PROVE LogInv'
<1>1. /\ LogTypes /\ FilesRise /\ kept' = [kept EXCEPT ![a] = J!Nothing]
      /\ UNCHANGED <<seq, files, today, reset, swapped, limit>>
  BY DEF LogInv, J!Broadcast, J!bounds
<1>2. kept \in [J!Appenders -> Line] /\ J!Nothing \in Line
  BY <1>1, MarksKnown DEF LogTypes
<1>3. kept' \in [J!Appenders -> Line] /\ kept'[a] = J!Nothing
      /\ \A b \in J!Appenders \ {a} : kept'[b] = kept[b]
  BY <1>1, <1>2
<1>4. LogTypes'
  BY <1>1, <1>3 DEF LogTypes
<1>5. FilesRise'
  BY <1>1 DEF FilesRise, Orderly
<1>6. QED
  BY <1>4, <1>5 DEF LogInv

LEMMA LogPruned ==
  ASSUME LogInv, J!Prune PROVE LogInv'
<1>1. /\ LogTypes /\ FilesRise
      /\ files' = [d \in 1..Days |-> IF d + KeepDays < today THEN <<>> ELSE files[d]]
      /\ UNCHANGED <<seq, kept, today, reset, swapped, limit>>
  BY DEF LogInv, J!Prune, J!bounds
<1>2. files \in [1..Days -> Seq(Line)] /\ files' \in [1..Days -> Seq(Line)]
  BY <1>1 DEF LogTypes
<1>3. LogTypes'
  BY <1>1, <1>2 DEF LogTypes
<1>4. ASSUME NEW d, NEW i, Whole(files', d, i)
      PROVE  Whole(files, d, i) /\ files'[d][i] = files[d][i]
  <2>1. d \in 1..Days /\ i \in 1..Len(files'[d])
    BY <1>4 DEF Whole
  <2>2. files'[d] = <<>> \/ files'[d] = files[d]
    BY <1>1, <2>1
  <2>3. files'[d] = files[d]
    BY <2>1, <2>2
  <2>4. QED
    BY <1>4, <2>3 DEF Whole
<1>5. ASSUME Under(files, seq), Rising(files) PROVE Under(files', seq) /\ Rising(files')
  <2>1. Under(files', seq)
    BY <1>4, <1>5 DEF Under
  <2>2. Rising(files')
    BY <1>4, <1>5 DEF Rising
  <2>3. QED
    BY <2>1, <2>2
<1>6. FilesRise'
  BY <1>1, <1>5 DEF FilesRise, Orderly
<1>7. QED
  BY <1>3, <1>6 DEF LogInv

(* The seq a start goes on with is that of the last whole line. *)
LEMMA LogRestarted ==
  ASSUME Days \in Nat, LogInv, J!Restart PROVE LogInv'
<1>1. /\ LogTypes /\ FilesRise /\ seq' = J!LastSeq
      /\ reset' = (reset \/ (J!Newest = {} /\ J!Places # {}))
      /\ kept' = [a \in J!Appenders |-> J!Nothing]
      /\ UNCHANGED <<files, today, swapped, limit>>
  BY DEF LogInv, J!Restart
<1>2. files \in [1..Days -> Seq(Line)]
  BY <1>1 DEF LogTypes
<1>3. J!Places = PlacesOf(files) /\ J!Newest \in SUBSET PlacesOf(files)
  BY PlacesAre DEF J!Newest
<1>4. ASSUME NEW p \in J!Places
      PROVE  /\ p = <<p[1], p[2]>> /\ p[1] \in 1..Days /\ p[2] \in Nat
             /\ J!At(p) = files[p[1]][p[2]].seq /\ J!At(p) \in Nat
             /\ Whole(files, p[1], p[2])
  <2>1. p = <<p[1], p[2]>> /\ Whole(files, p[1], p[2])
    BY <1>2, <1>3, <1>4, PlacesKnown
  <2>2. p[1] \in 1..Days /\ p[2] \in 1..Len(files[p[1]])
    BY <2>1 DEF Whole
  <2>3. files[p[1]] \in Seq(Line) /\ files[p[1]][p[2]] \in Line
    BY <1>2, <2>2
  <2>4. p[2] \in Nat
    BY <2>2, <2>3
  <2>5. QED
    BY <2>1, <2>2, <2>3, <2>4 DEF J!At, Line
<1>5. ASSUME J!Newest = {}
      PROVE  seq' \in Nat /\ (Orderly' => Under(files, seq') /\ Rising(files))
  <2>1. seq' = 0
    BY <1>1, <1>5 DEF J!LastSeq
  <2>2. ASSUME Orderly' PROVE Under(files, 0) /\ Rising(files)
    <3>1. J!Places = {} /\ Orderly
      BY <1>1, <1>5, <2>2 DEF Orderly, LogTypes
    <3>2. \A d, i : ~Whole(files, d, i)
      BY <1>2, <1>3, <3>1, PlacesKnown
    <3>3. QED
      BY <3>2 DEF Under, Rising
  <2>3. QED
    BY <2>1, <2>2
<1>6. ASSUME J!Newest # {}
      PROVE  seq' \in Nat /\ (Orderly' => Under(files, seq') /\ Rising(files))
  <2>1. PICK p \in J!Newest : p = J!LastOf(J!Newest) /\ \A q \in J!Newest : q = p \/ J!Before(q, p)
    <3>1. /\ J!LastOf(J!Newest) \in J!Newest
          /\ \A q \in J!Newest : q = J!LastOf(J!Newest) \/ J!Before(q, J!LastOf(J!Newest))
      BY <1>2, <1>3, <1>6, LastOfKnown
    <3>2. QED
      BY <3>1
  <2>2. p \in J!Places /\ seq' = J!At(p) /\ \A d \in (p[1] + 1)..Days : files[d] = <<>>
    BY <1>1, <1>6, <2>1 DEF J!LastSeq, J!Newest
  <2>3. ASSUME NEW d, NEW i, Whole(files, d, i)
        PROVE  /\ i \in Nat /\ d \in 1..Days
               /\ (d = p[1] /\ i = p[2]) \/ d < p[1] \/ (d = p[1] /\ i < p[2])
    <3>1. PICK q : q = <<d, i>>
      OBVIOUS
    <3>2. q \in J!Places /\ q[1] = d /\ q[2] = i
      BY <1>2, <1>3, <2>3, <3>1, PlacesKnown
    <3>3. d \in 1..Days /\ i \in Nat
      BY <1>4, <3>2
    <3>4. CASE q \in J!Newest
      <4>1. q = p \/ J!Before(q, p)
        BY <2>1, <3>4
      <4>2. QED
        BY <3>2, <3>3, <4>1 DEF J!Before
    <3>5. CASE q \notin J!Newest
      <4>1. PICK e \in (d + 1)..Days : files[e] # <<>>
        BY <3>2, <3>5 DEF J!Newest
      <4>2. e \notin (p[1] + 1)..Days
        BY <2>2, <4>1
      <4>3. p[1] \in 1..Days
        BY <1>4, <2>2
      <4>4. QED
        BY <3>3, <4>1, <4>2, <4>3
    <3>6. QED
      BY <3>4, <3>5
  <2>4. ASSUME Orderly' PROVE Under(files, seq') /\ Rising(files)
    <3>1. Under(files, seq) /\ Rising(files)
      BY <1>1, <2>4 DEF FilesRise, Orderly, LogTypes
    <3>2. p[1] \in 1..Days /\ p[2] \in Nat /\ Whole(files, p[1], p[2])
          /\ seq' = files[p[1]][p[2]].seq /\ seq' \in Nat
      BY <1>4, <2>2
    <3>3. ASSUME NEW d, NEW i, Whole(files, d, i) PROVE files[d][i].seq <= seq'
      <4>1. CASE d = p[1] /\ i = p[2]
        BY <3>2, <4>1
      <4>2. CASE d < p[1] \/ (d = p[1] /\ i < p[2])
        <5>1. files[d][i].seq < files[p[1]][p[2]].seq
          BY <3>1, <3>2, <3>3, <4>2 DEF Rising
        <5>2. files[d][i].seq \in Nat
          <6>1. d \in 1..Days /\ i \in 1..Len(files[d])
            BY <3>3 DEF Whole
          <6>2. files[d][i] \in Line
            BY <1>2, <6>1
          <6>3. QED
            BY <6>2 DEF Line
        <5>3. QED
          BY <3>2, <5>1, <5>2
      <4>3. QED
        BY <2>3, <3>3, <4>1, <4>2
    <3>4. QED
      BY <3>1, <3>3 DEF Under
  <2>5. seq' \in Nat
    BY <1>4, <2>2
  <2>6. QED
    BY <2>4, <2>5
<1>7. seq' \in Nat /\ (Orderly' => Under(files', seq') /\ Rising(files'))
  BY <1>1, <1>5, <1>6
<1>8. LogTypes'
  <2>1. reset' \in BOOLEAN
    BY <1>1 DEF LogTypes
  <2>2. J!Nothing \in Line
    BY MarksKnown
  <2>3. kept' \in [J!Appenders -> Line] /\ \A a \in J!Appenders : kept'[a] = J!Nothing
    BY <1>1, <2>2
  <2>4. QED
    BY <1>1, <1>7, <2>1, <2>3 DEF LogTypes
<1>9. FilesRise'
  BY <1>7 DEF FilesRise
<1>10. QED
  BY <1>8, <1>9 DEF LogInv

LEMMA LogStep ==
  ASSUME J!JournalAssumption, WriterTypes, LogInv, J!Next PROVE LogInv'
<1>1. Days \in Nat /\ \A l \in Limits : l.days \in 1..Days
  BY DEF J!JournalAssumption
<1>2. CASE J!WriterAppends
  <2>1. PICK s \in Listed : J!Turn(s) /\ J!Write("writer", Head(todo[s]), s)
    BY <1>2 DEF J!WriterAppends
  <2>2. UNCHANGED <<today, reset, limit>>
    BY <1>2 DEF J!WriterAppends
  <2>3. Head(todo[s]) \in Says
    <3>1. todo[s] \in Seq(Says) /\ todo[s] # <<>>
      BY <2>1 DEF WriterTypes, J!Turn
    <3>2. QED
      BY <3>1
  <2>4. "writer" \in J!Appenders
    BY DEF J!Appenders
  <2>5. QED
    BY <1>1, <2>1, <2>2, <2>3, <2>4, LogWrites
<1>3. CASE J!CallAppends
  <2>1. PICK s \in Listed : J!Write("call", "action", s)
    BY <1>3 DEF J!CallAppends
  <2>2. UNCHANGED <<today, reset, limit>>
    BY <1>3 DEF J!CallAppends
  <2>3. "action" \in Says /\ "call" \in J!Appenders
    BY DEF J!Appenders, Says
  <2>4. QED
    BY <1>1, <2>1, <2>2, <2>3, LogWrites
<1>4. CASE \E a \in J!Appenders : J!Broadcast(a)
  BY <1>4, LogBroadcast
<1>5. CASE J!Prune
  BY <1>5, LogPruned
<1>6. CASE J!Restart
  BY <1>1, <1>6, LogRestarted
<1>7. CASE J!NextDay
  <2>1. /\ LogTypes /\ FilesRise /\ today < limit.days /\ today' = today + 1
        /\ UNCHANGED <<seq, files, kept, reset, swapped, limit>>
    BY <1>7 DEF LogInv, J!NextDay, J!storage
  <2>2. today' \in 1..Days
    <3>1. limit.days \in 1..Days /\ today \in 1..Days
      BY <1>1, <2>1 DEF LogTypes
    <3>2. QED
      BY <1>1, <2>1, <3>1
  <2>3. LogTypes'
    BY <2>1, <2>2 DEF LogTypes
  <2>4. FilesRise'
    BY <2>1 DEF FilesRise, Orderly
  <2>5. QED
    BY <2>3, <2>4 DEF LogInv
<1>8. CASE J!RosterMoves \/ J!WriterStarts \/ J!WriterDiffs
  <2>1. UNCHANGED <<seq, files, kept, today, reset, swapped, limit>>
    BY <1>8 DEF J!RosterMoves, J!WriterStarts, J!WriterDiffs, J!storage, J!bounds
  <2>2. QED
    BY <2>1, LogStands
<1>9. CASE J!Connect \/ J!Replay \/ J!Live \/ J!Disconnect
  <2>1. UNCHANGED <<seq, files, kept, today, reset, swapped, limit>>
    BY <1>9 DEF J!Connect, J!Replay, J!Live, J!Disconnect, J!storage, J!bounds
  <2>2. QED
    BY <2>1, LogStands
<1>10. QED
  BY <1>2, <1>3, <1>4, <1>5, <1>6, <1>7, <1>8, <1>9 DEF J!Next

(* What the step of another leaves to the client. *)
LEMMA ClientKnown ==
  ASSUME ClientTypes
  PROVE  /\ client \in Client /\ client.queue \in Seq(Line) /\ client.got \subseteq Nat
         /\ client.since \in Nat /\ client.last \in Nat /\ client.lagged \in BOOLEAN
         /\ client.twice \in BOOLEAN /\ seqs \in Nat /\ seen \subseteq Nat
         /\ \A i \in 1..Len(client.queue) : client.queue[i] \in Line /\ client.queue[i].seq \in Nat
<1>1. client \in Client
  BY DEF ClientTypes
<1>2. /\ client.queue \in Seq(Line) /\ client.got \subseteq Nat
      /\ client.since \in Nat /\ client.last \in Nat /\ client.lagged \in BOOLEAN
      /\ client.twice \in BOOLEAN
  BY <1>1 DEF Client
<1>3. ASSUME NEW i \in 1..Len(client.queue)
      PROVE  client.queue[i] \in Line /\ client.queue[i].seq \in Nat
  <2>1. client.queue[i] \in Line
    BY <1>2, <1>3
  <2>2. QED
    BY <2>1 DEF Line
<1>4. QED
  BY <1>1, <1>2, <1>3 DEF ClientTypes

LEMMA KeptKnown ==
  ASSUME LogTypes
  PROVE  \A a \in J!Appenders : /\ kept[a] \in Line /\ kept[a].seq \in Nat
                                /\ kept[a] # J!Nothing => kept[a].seq # 0
<1>1. \A a \in J!Appenders : kept[a] \in Line
  BY DEF LogTypes
<1>2. QED
  BY <1>1 DEF LogTypes, Line

(* A new entry is carried, and new to the client. *)
LEMMA ClientWrites ==
  ASSUME Days \in Nat, LogInv, ClientInv, NEW a \in J!Appenders, NEW what \in Says,
         NEW s \in Listed, J!Write(a, what, s), UNCHANGED <<reset, client, seqs, seen>>
  PROVE  ClientInv'
<1>1. /\ LogTypes /\ FilesRise /\ ClientTypes /\ OnceOnItsWay /\ Given /\ NoneMissed
  BY DEF LogInv, ClientInv
<1>2. PICK entry \in Line : \E day \in 1..Days : \E m \in Seq(Line) : Stores(a, entry, day, m)
  BY <1>1, WriteKnown
<1>3. PICK day \in 1..Days : \E m \in Seq(Line) : Stores(a, entry, day, m)
  BY <1>2
<1>0. PICK m \in Seq(Line) : Stores(a, entry, day, m)
  BY <1>3
<1>4. /\ entry.seq = seq + 1 /\ seq' = seq + 1
      /\ kept[a] = J!Nothing /\ kept' = [kept EXCEPT ![a] = entry]
      /\ swapped' = (swapped \/ \E d \in (day + 1)..Days : files[d] # <<>>)
      /\ files' = [files EXCEPT ![day] = m]
      /\ \A i \in 1..Len(m) : \/ m[i].seq = 0
                              \/ i \in 1..Len(files[day]) /\ m[i] = files[day][i]
                              \/ i = Len(m) /\ m[i].seq = seq + 1
  BY <1>0 DEF Stores
<1>5. PICK n \in Nat : n = seq
  BY <1>1 DEF LogTypes
<1>6. files \in [1..Days -> Seq(Line)] /\ kept \in [J!Appenders -> Line]
  BY <1>1 DEF LogTypes
<1>7. ASSUME NEW d, NEW i, Whole(files', d, i)
      PROVE  (Whole(files, d, i) /\ files'[d][i] = files[d][i]) \/ files'[d][i].seq = n + 1
  <2>1. d \in 1..Days /\ i \in 1..Len(files'[d]) /\ files'[d][i].seq # 0
    BY <1>7 DEF Whole
  <2>2. CASE d = day
    <3>1. files'[d] = m
      BY <1>4, <1>6, <2>2
    <3>2. i \in 1..Len(m) /\ m[i].seq # 0
      BY <2>1, <3>1
    <3>3. (i \in 1..Len(files[day]) /\ m[i] = files[day][i]) \/ m[i].seq = n + 1
      BY <1>4, <1>5, <3>2
    <3>4. QED
      BY <2>1, <2>2, <3>1, <3>3 DEF Whole
  <2>3. CASE d # day
    <3>1. files'[d] = files[d]
      BY <1>4, <1>6, <2>1, <2>3
    <3>2. QED
      BY <2>1, <3>1 DEF Whole
  <2>4. QED
    BY <2>2, <2>3
<1>8. kept'[a] = entry /\ \A b \in J!Appenders \ {a} : kept'[b] = kept[b]
  BY <1>4, <1>6
<1>9. entry # J!Nothing /\ entry.seq = n + 1 /\ seq' = n + 1
  BY <1>4, <1>5, MarksKnown
<1>10. ASSUME NEW x PROVE Carried(x)' <=> Carried(x) \/ x = n + 1
  <2>1. ASSUME Carried(x)' PROVE Carried(x) \/ x = n + 1
    <3>1. PICK b \in J!Appenders : kept'[b] # J!Nothing /\ kept'[b].seq = x
      BY <2>1 DEF Carried
    <3>2. QED
      BY <1>8, <1>9, <3>1 DEF Carried
  <2>2. ASSUME Carried(x) PROVE Carried(x)'
    <3>1. PICK b \in J!Appenders : kept[b] # J!Nothing /\ kept[b].seq = x
      BY <2>2 DEF Carried
    <3>2. b # a
      BY <1>4, <3>1
    <3>3. QED
      BY <1>8, <3>1, <3>2 DEF Carried
  <2>3. ASSUME x = n + 1 PROVE Carried(x)'
    BY <1>8, <1>9, <2>3 DEF Carried
  <2>4. QED
    BY <2>1, <2>2, <2>3
<1>11. ASSUME NEW x PROVE Queued(x)' <=> Queued(x)
  BY DEF Queued
<1>12. OnceOnItsWay'
  <2>1. ASSUME NEW i \in 1..Len(client.queue)
        PROVE  /\ client.queue[i].seq <= n + 1 /\ ~Carried(client.queue[i].seq)'
               /\ \A j \in 1..Len(client.queue) : client.queue[i].seq = client.queue[j].seq => i = j
    <3>1. PICK x \in Nat : x = client.queue[i].seq
      BY <1>1, ClientKnown
    <3>2. x <= n /\ ~Carried(x)
      BY <1>1, <1>5, <3>1 DEF OnceOnItsWay
    <3>3. x <= n + 1 /\ ~Carried(x)'
      BY <1>10, <3>2
    <3>4. QED
      BY <1>1, <3>1, <3>3 DEF OnceOnItsWay
  <2>2. ASSUME NEW b \in J!Appenders
        PROVE  /\ kept'[b].seq <= n + 1
               /\ \A c \in J!Appenders : kept'[b].seq = kept'[c].seq /\ kept'[b] # J!Nothing => b = c
    <3>1. ASSUME NEW c \in J!Appenders, c # a
          PROVE  kept'[c] = kept[c] /\ kept'[c].seq <= n /\ kept'[c].seq \in Nat
      BY <1>1, <1>5, <1>8, <3>1, KeptKnown DEF OnceOnItsWay
    <3>2. CASE b = a
      <4>1. kept'[b].seq = n + 1
        BY <1>8, <1>9, <3>2
      <4>2. \A c \in J!Appenders : c # a => kept'[c].seq # n + 1
        BY <3>1
      <4>3. QED
        BY <3>2, <4>1, <4>2
    <3>3. CASE b # a
      <4>1. kept'[b] = kept[b] /\ kept'[b].seq <= n /\ kept'[b].seq \in Nat
        BY <3>1, <3>3
      <4>2. ASSUME NEW c \in J!Appenders, kept'[b].seq = kept'[c].seq, kept'[b] # J!Nothing
            PROVE  b = c
        <5>1. c # a
          BY <1>8, <1>9, <4>1, <4>2
        <5>2. kept'[c] = kept[c]
          BY <3>1, <5>1
        <5>3. QED
          BY <1>1, <4>1, <4>2, <5>2 DEF OnceOnItsWay
      <4>3. QED
        BY <4>1, <4>2
    <3>4. QED
      BY <3>2, <3>3
  <2>3. QED
    BY <1>9, <2>1, <2>2 DEF OnceOnItsWay
<1>13. Orderly' => Orderly
  BY <1>1, <1>4 DEF Orderly, LogTypes
<1>14. client.phase = "live" /\ Orderly =>
         client.last \in Nat /\ client.since \in Nat /\ (client.last = client.since \/ client.last <= n)
  BY <1>1, <1>5, ClientKnown DEF Given
<1>15. Given'
  <2>1. ASSUME client.phase = "live", Orderly
        PROVE  /\ ~client.twice
               /\ client.last = client.since \/ client.last <= n + 1
               /\ \A x \in client.got : x <= n + 1 /\ (x > client.last => ~Queued(x)' /\ ~Carried(x)')
    <3>1. ASSUME NEW x \in client.got
          PROVE  x <= n + 1 /\ (x > client.last => ~Queued(x)' /\ ~Carried(x)')
      <4>1. x <= n /\ (x > client.last => ~Queued(x) /\ ~Carried(x)) /\ x \in Nat
        BY <1>1, <1>5, <2>1, ClientKnown DEF Given
      <4>2. QED
        BY <1>10, <1>11, <4>1
    <3>2. client.last = client.since \/ client.last <= n + 1
      BY <1>14, <2>1
    <3>3. ~client.twice
      BY <1>1, <2>1 DEF Given
    <3>4. QED
      BY <3>1, <3>2, <3>3
  <2>2. QED
    BY <1>9, <1>13, <2>1 DEF Given
<1>16. NoneMissed'
  <2>1. ASSUME client.phase = "live", Orderly, ~client.lagged,
               NEW d, NEW i, NEW x, Whole(files', d, i), x = files'[d][i].seq, x > client.since
        PROVE  Comes(x)'
    <3>1. CASE Whole(files, d, i) /\ files'[d][i] = files[d][i]
      <4>1. Comes(x)
        BY <1>1, <2>1, <3>1 DEF NoneMissed
      <4>2. QED
        BY <1>10, <1>11, <4>1 DEF Comes
    <3>2. CASE files'[d][i].seq = n + 1
      <4>1. x = n + 1 /\ x > client.last
        BY <1>14, <2>1, <3>2
      <4>2. Carried(x)'
        BY <1>10, <4>1
      <4>3. QED
        BY <4>1, <4>2 DEF Comes
    <3>3. QED
      BY <1>7, <2>1, <3>1, <3>2
  <2>2. QED
    BY <1>13, <2>1 DEF NoneMissed
<1>17. ClientTypes'
  BY <1>1 DEF ClientTypes
<1>18. QED
  BY <1>12, <1>15, <1>16, <1>17 DEF ClientInv

(* The channel takes an entry, and drops its oldest when it is full. *)
Takes(c, e, k, q, f) ==
  /\ J!Pushed(c, e) = [c EXCEPT !.queue = q, !.lagged = f]
  /\ f = FALSE => c.lagged = FALSE /\ k = 0
  /\ 1 <= Len(q) /\ Len(q) <= Capacity
  /\ Len(q) = Len(c.queue) + 1 - k
  /\ q[Len(q)] = e
  /\ \A i \in 1..Len(q) : i # Len(q) => i + k \in 1..Len(c.queue) /\ q[i] = c.queue[i + k]

LEMMA PushedKnown ==
  ASSUME Capacity \in Nat \ {0}, NEW c \in Client, Len(c.queue) <= Capacity, c.phase # "off",
         NEW e \in Line
  PROVE  \E k \in 0..1 : \E q \in Seq(Line) : \E f \in BOOLEAN : Takes(c, e, k, q, f)
<1>1. c.queue \in Seq(Line) /\ c.lagged \in BOOLEAN /\ Len(c.queue) \in Nat
  BY DEF Client
<1>2. CASE Len(c.queue) < Capacity
  <2>1. PICK q \in Seq(Line) : q = Append(c.queue, e)
    <3>1. Append(c.queue, e) \in Seq(Line)
      BY <1>1
    <3>2. QED
      BY <3>1
  <2>2. J!Pushed(c, e) = [c EXCEPT !.queue = q, !.lagged = c.lagged]
    <3>1. J!Pushed(c, e) = [c EXCEPT !.queue = q]
      BY <1>2, <2>1 DEF J!Pushed
    <3>2. QED
      BY <3>1 DEF Client
  <2>3. /\ Len(q) = Len(c.queue) + 1 - 0 /\ q[Len(q)] = e /\ Len(q) <= Capacity /\ 1 <= Len(q)
        /\ \A i \in 1..Len(q) : i # Len(q) => i + 0 \in 1..Len(c.queue) /\ q[i] = c.queue[i + 0]
    BY <1>1, <1>2, <2>1
  <2>4. 0 \in 0..1
    OBVIOUS
  <2>5. QED
    BY <1>1, <2>2, <2>3, <2>4 DEF Takes
<1>3. CASE ~(Len(c.queue) < Capacity)
  <2>1. Len(c.queue) = Capacity /\ c.queue # <<>>
    BY <1>1, <1>3
  <2>2. PICK r \in Seq(Line) : r = Tail(c.queue)
    <3>1. Tail(c.queue) \in Seq(Line)
      BY <1>1, <2>1
    <3>2. QED
      BY <3>1
  <2>3. Len(r) = Len(c.queue) - 1 /\ \A i \in 1..Len(r) : r[i] = c.queue[i + 1]
    BY <1>1, <2>1, <2>2
  <2>4. PICK q \in Seq(Line) : q = Append(r, e)
    <3>1. Append(r, e) \in Seq(Line)
      OBVIOUS
    <3>2. QED
      BY <3>1
  <2>5. J!Pushed(c, e) = [c EXCEPT !.queue = q, !.lagged = TRUE]
    BY <1>3, <2>2, <2>4 DEF J!Pushed
  <2>6. /\ Len(q) = Len(c.queue) + 1 - 1 /\ q[Len(q)] = e /\ Len(q) <= Capacity /\ 1 <= Len(q)
        /\ \A i \in 1..Len(q) : i # Len(q) => i + 1 \in 1..Len(c.queue) /\ q[i] = c.queue[i + 1]
    BY <1>1, <2>1, <2>3, <2>4
  <2>7. 1 \in 0..1
    OBVIOUS
  <2>8. QED
    BY <2>5, <2>6, <2>7 DEF Takes
<1>4. QED
  BY <1>2, <1>3

(* A broadcast moves the entry from the task that wrote it to the channel. *)
LEMMA ClientBroadcast ==
  ASSUME Capacity \in Nat \ {0}, LogInv, ClientInv, NEW a \in J!Appenders, J!Broadcast(a)
  PROVE  ClientInv'
<1>1. /\ LogTypes /\ FilesRise /\ ClientTypes /\ OnceOnItsWay /\ Given /\ NoneMissed
      /\ client \in Client /\ Len(client.queue) <= Capacity
  BY DEF LogInv, ClientInv, ClientTypes
<1>2. /\ kept[a] # J!Nothing /\ client' = J!Pushed(client, kept[a])
      /\ kept' = [kept EXCEPT ![a] = J!Nothing]
      /\ UNCHANGED <<seq, files, seqs, seen, reset, swapped>>
  BY DEF J!Broadcast, J!bounds
<1>3. PICK e \in Line : e = kept[a]
  BY <1>1, KeptKnown
<1>4. PICK x \in Nat : x = e.seq
  BY <1>3 DEF Line
<1>5. kept'[a] = J!Nothing /\ \A b \in J!Appenders \ {a} : kept'[b] = kept[b]
  BY <1>1, <1>2 DEF LogTypes
<1>6. PICK n \in Nat : n = seq
  BY <1>1 DEF LogTypes
<1>7. x <= n /\ Carried(x) /\ \A b \in J!Appenders : kept[b].seq = x => b = a
  BY <1>1, <1>2, <1>3, <1>4, <1>6 DEF OnceOnItsWay, Carried
<1>8. ASSUME NEW y PROVE Carried(y)' <=> Carried(y) /\ y # x
  <2>1. ASSUME Carried(y)' PROVE Carried(y) /\ y # x
    <3>1. PICK b \in J!Appenders : kept'[b] # J!Nothing /\ kept'[b].seq = y
      BY <2>1 DEF Carried
    <3>2. b # a /\ kept[b] = kept'[b]
      BY <1>5, <3>1
    <3>3. QED
      BY <1>7, <3>1, <3>2 DEF Carried
  <2>2. ASSUME Carried(y), y # x PROVE Carried(y)'
    <3>1. PICK b \in J!Appenders : kept[b] # J!Nothing /\ kept[b].seq = y
      BY <2>2 DEF Carried
    <3>2. b # a
      BY <1>3, <1>4, <2>2, <3>1
    <3>3. QED
      BY <1>5, <3>1, <3>2 DEF Carried
  <2>3. QED
    BY <2>1, <2>2
<1>9. ASSUME NEW b \in J!Appenders
      PROVE  /\ kept'[b].seq <= n
             /\ \A c \in J!Appenders : kept'[b].seq = kept'[c].seq /\ kept'[b] # J!Nothing => b = c
  <2>1. CASE b = a
    <3>1. kept'[b] = J!Nothing /\ kept'[b].seq = 0
      BY <1>5, <2>1, MarksKnown
    <3>2. QED
      BY <1>6, <3>1
  <2>2. CASE b # a
    <3>1. kept'[b] = kept[b] /\ kept[b].seq <= n
      BY <1>1, <1>5, <1>6, <2>2 DEF OnceOnItsWay
    <3>2. ASSUME NEW c \in J!Appenders, kept'[b].seq = kept'[c].seq, kept'[b] # J!Nothing
          PROVE  b = c
      <4>1. CASE c = a
        <5>1. kept'[c].seq = 0
          BY <1>5, <4>1, MarksKnown
        <5>2. kept[b].seq # 0
          BY <1>1, <3>1, <3>2, KeptKnown
        <5>3. QED
          BY <3>1, <3>2, <5>1, <5>2
      <4>2. CASE c # a
        <5>1. kept'[c] = kept[c]
          BY <1>5, <4>2
        <5>2. QED
          BY <1>1, <3>1, <3>2, <5>1 DEF OnceOnItsWay
      <4>3. QED
        BY <4>1, <4>2
    <3>3. QED
      BY <3>1, <3>2
  <2>3. QED
    BY <2>1, <2>2
<1>10. Orderly' <=> Orderly
  BY <1>2 DEF Orderly
<1>11. CASE client.phase = "off"
  <2>1. client' = client /\ client.queue = <<>>
    BY <1>1, <1>2, <1>11 DEF J!Pushed, ClientTypes
  <2>2. ClientTypes' /\ Given' /\ NoneMissed'
    BY <1>1, <1>2, <1>11, <2>1 DEF ClientTypes, Given, NoneMissed
  <2>3. OnceOnItsWay'
    BY <1>2, <1>6, <1>9, <2>1 DEF OnceOnItsWay
  <2>4. QED
    BY <2>2, <2>3 DEF ClientInv
<1>12. CASE client.phase # "off"
  <2>1. PICK k \in 0..1 : \E q \in Seq(Line) : \E f \in BOOLEAN : Takes(client, e, k, q, f)
    BY <1>1, <1>12, PushedKnown
  <2>2. PICK q \in Seq(Line) : \E f \in BOOLEAN : Takes(client, e, k, q, f)
    BY <2>1
  <2>0. PICK f \in BOOLEAN : Takes(client, e, k, q, f)
    BY <2>2
  <2>3. /\ J!Pushed(client, e) = [client EXCEPT !.queue = q, !.lagged = f]
        /\ f = FALSE => client.lagged = FALSE /\ k = 0
        /\ 1 <= Len(q) /\ Len(q) <= Capacity
        /\ Len(q) = Len(client.queue) + 1 - k
        /\ q[Len(q)] = e
        /\ \A i \in 1..Len(q) : i # Len(q) => i + k \in 1..Len(client.queue) /\ q[i] = client.queue[i + k]
    BY <2>0 DEF Takes
  <2>4. client' = [client EXCEPT !.queue = q, !.lagged = f]
    BY <1>2, <1>3, <2>3
  <2>5. /\ client' \in Client /\ client'.queue = q /\ client'.lagged = f
        /\ client'.phase = client.phase /\ client'.since = client.since
        /\ client'.last = client.last /\ client'.got = client.got /\ client'.twice = client.twice
    BY <1>1, <2>4 DEF Client
  <2>6. PICK l \in Nat : l = Len(client.queue)
    BY <1>1, ClientKnown
  <2>7. PICK h \in Nat : h = Len(q)
    <3>1. Len(q) \in Nat
      OBVIOUS
    <3>2. QED
      BY <3>1
  <2>8. h = l + 1 - k /\ q[h] = e /\ h \in 1..h
        /\ \A i \in 1..h : i # h => i + k \in 1..l /\ q[i] = client.queue[i + k]
    BY <2>3, <2>6, <2>7
  <2>9. /\ \A i \in 1..l : /\ client.queue[i].seq <= n /\ ~Carried(client.queue[i].seq)
                           /\ \A j \in 1..l : client.queue[i].seq = client.queue[j].seq => i = j
    BY <1>1, <1>6, <2>6 DEF OnceOnItsWay
  <2>10. ASSUME NEW y PROVE Queued(y)' => Queued(y) \/ y = x
    <3>1. ASSUME Queued(y)' PROVE Queued(y) \/ y = x
      <4>1. PICK i \in 1..h : q[i].seq = y
        BY <2>5, <2>7, <3>1 DEF Queued
      <4>2. CASE i = h
        BY <1>4, <2>8, <4>1, <4>2
      <4>3. CASE i # h
        <5>1. i + k \in 1..l /\ client.queue[i + k].seq = y
          BY <2>8, <4>1, <4>3
        <5>2. QED
          BY <2>6, <5>1 DEF Queued
      <4>4. QED
        BY <4>2, <4>3
    <3>2. QED
      BY <3>1
  <2>11. Queued(x)'
    <3>1. q[h].seq = x /\ h \in 1..Len(client'.queue)
      BY <1>4, <2>5, <2>7, <2>8
    <3>2. QED
      BY <2>5, <3>1 DEF Queued
  <2>12. ASSUME NEW y, f = FALSE, Queued(y) PROVE Queued(y)'
    <3>1. PICK i \in 1..l : client.queue[i].seq = y
      BY <2>6, <2>12 DEF Queued
    <3>2. k = 0
      BY <2>3, <2>12
    <3>3. i \in 1..h /\ i # h /\ i + 0 = i /\ h = l + 1
      BY <2>8, <3>2
    <3>4. q[i] = client.queue[i]
      BY <2>8, <3>2, <3>3
    <3>5. i \in 1..Len(client'.queue) /\ client'.queue[i].seq = y
      BY <2>5, <2>7, <3>1, <3>3, <3>4
    <3>6. QED
      BY <3>5 DEF Queued
  <2>13. ASSUME NEW i \in 1..h
         PROVE  /\ q[i].seq <= n /\ ~Carried(q[i].seq)'
                /\ \A j \in 1..h : q[i].seq = q[j].seq => i = j
    <3>1. ASSUME NEW j \in 1..h, j # h
          PROVE  /\ q[j] = client.queue[j + k] /\ j + k \in 1..l
                 /\ q[j].seq <= n /\ ~Carried(q[j].seq) /\ q[j].seq # x
      <4>1. q[j] = client.queue[j + k] /\ j + k \in 1..l
        BY <2>8, <3>1
      <4>2. q[j].seq <= n /\ ~Carried(q[j].seq)
        BY <2>9, <4>1
      <4>3. QED
        BY <1>7, <4>1, <4>2
    <3>2. CASE i = h
      <4>1. q[i].seq = x
        BY <1>4, <2>8, <3>2
      <4>2. ~Carried(x)'
        BY <1>8
      <4>3. \A j \in 1..h : j # h => q[j].seq # x
        BY <3>1
      <4>4. QED
        BY <1>7, <3>2, <4>1, <4>2, <4>3
    <3>3. CASE i # h
      <4>1. PICK y : y = q[i].seq
        OBVIOUS
      <4>2. y <= n /\ ~Carried(y) /\ y # x
        BY <3>1, <3>3, <4>1
      <4>3. ~Carried(y)'
        BY <1>8, <4>2
      <4>4. ASSUME NEW j \in 1..h, q[i].seq = q[j].seq PROVE i = j
        <5>1. j # h
          BY <1>4, <2>8, <4>1, <4>2, <4>4
        <5>2. q[j] = client.queue[j + k] /\ j + k \in 1..l /\ q[i] = client.queue[i + k]
              /\ i + k \in 1..l
          BY <3>1, <3>3, <5>1
        <5>3. i + k = j + k
          BY <2>9, <4>4, <5>2
        <5>4. QED
          BY <5>3
      <4>5. QED
        BY <4>1, <4>2, <4>3, <4>4
    <3>4. QED
      BY <3>2, <3>3
  <2>14. OnceOnItsWay'
    BY <1>2, <1>6, <1>9, <2>5, <2>7, <2>13 DEF OnceOnItsWay
  <2>15. ClientTypes'
    BY <1>1, <1>2, <1>12, <2>3, <2>5 DEF ClientTypes
  <2>16. Given'
    <3>1. ASSUME client.phase = "live", Orderly
          PROVE  /\ ~client.twice
                 /\ client.last = client.since \/ client.last <= n
                 /\ \A y \in client.got : y <= n /\ (y > client.last => ~Queued(y)' /\ ~Carried(y)')
      <4>1. ASSUME NEW y \in client.got
            PROVE  y <= n /\ (y > client.last => ~Queued(y)' /\ ~Carried(y)')
        <5>1. y <= n /\ (y > client.last => ~Queued(y) /\ ~Carried(y))
          BY <1>1, <1>6, <3>1 DEF Given
        <5>2. QED
          BY <1>7, <1>8, <2>10, <5>1
      <4>2. QED
        BY <1>1, <1>6, <3>1, <4>1 DEF Given
    <3>2. QED
      BY <1>2, <1>6, <1>10, <2>5, <3>1 DEF Given
  <2>17. NoneMissed'
    <3>1. ASSUME client.phase = "live", Orderly, f = FALSE,
                 NEW d, NEW i, NEW y, Whole(files, d, i), y = files[d][i].seq, y > client.since
          PROVE  Comes(y)'
      <4>1. client.lagged = FALSE
        BY <2>3, <3>1
      <4>2. Comes(y)
        BY <1>1, <3>1, <4>1 DEF NoneMissed
      <4>3. CASE y \in client.got
        BY <2>5, <4>3 DEF Comes
      <4>4. CASE y > client.last /\ (Queued(y) \/ Carried(y))
        <5>1. Queued(y)' \/ Carried(y)'
          BY <1>8, <2>11, <2>12, <3>1, <4>4
        <5>2. QED
          BY <2>5, <4>4, <5>1 DEF Comes
      <4>5. QED
        BY <4>2, <4>3, <4>4 DEF Comes
    <3>2. QED
      BY <1>2, <1>10, <2>5, <3>1 DEF NoneMissed
  <2>18. QED
    BY <2>14, <2>15, <2>16, <2>17 DEF ClientInv
<1>13. QED
  BY <1>11, <1>12

LEMMA PlaceKnown ==
  ASSUME LogTypes, NEW p \in J!Places
  PROVE  /\ p = <<p[1], p[2]>> /\ p[1] \in Nat /\ p[2] \in Nat
         /\ J!At(p) = files[p[1]][p[2]].seq /\ J!At(p) \in Nat
         /\ Whole(files, p[1], p[2])
<1>1. files \in [1..Days -> Seq(Line)] /\ p \in PlacesOf(files)
  BY PlacesAre DEF LogTypes
<1>2. p = <<p[1], p[2]>> /\ Whole(files, p[1], p[2])
  BY <1>1, PlacesKnown
<1>3. p[1] \in 1..Days /\ p[2] \in 1..Len(files[p[1]])
  BY <1>2 DEF Whole
<1>4. files[p[1]] \in Seq(Line) /\ files[p[1]][p[2]] \in Line
  BY <1>1, <1>3
<1>5. p[2] \in Nat /\ p[1] \in Nat
  BY <1>3, <1>4
<1>6. QED
  BY <1>2, <1>4, <1>5 DEF J!At, Line

(* A replay gives every whole line it is asked for, once, and the last it gives
   is the highest.                                                            *)
LEMMA ReadKnown ==
  ASSUME Days \in Nat, LogInv, Orderly, NEW since \in Nat
  PROVE  /\ \A p \in J!Read(since) : J!At(p) \in Nat /\ J!At(p) > since /\ J!At(p) <= seq
         /\ \A p, q \in J!Read(since) : J!At(p) = J!At(q) => p = q
         /\ J!Read(since) # {} =>
              /\ J!LastOf(J!Read(since)) \in J!Read(since)
              /\ \A p \in J!Read(since) : J!At(p) <= J!At(J!LastOf(J!Read(since)))
         /\ \A d, i, n : Whole(files, d, i) /\ n = files[d][i].seq /\ n > since
                         => \E p \in J!Read(since) : J!At(p) = n
<1>1. LogTypes /\ Under(files, seq) /\ Rising(files) /\ files \in [1..Days -> Seq(Line)] /\ seq \in Nat
  BY DEF LogInv, FilesRise, LogTypes
<1>2. \A p \in J!Read(since) : p \in J!Places /\ J!At(p) > since
  BY DEF J!Read
<1>3. ASSUME NEW p \in J!Read(since)
      PROVE  /\ p = <<p[1], p[2]>> /\ p[1] \in Nat /\ p[2] \in Nat
             /\ J!At(p) = files[p[1]][p[2]].seq /\ J!At(p) \in Nat
             /\ Whole(files, p[1], p[2]) /\ J!At(p) <= seq
  <2>1. p \in J!Places
    BY <1>2
  <2>2. /\ p = <<p[1], p[2]>> /\ p[1] \in Nat /\ p[2] \in Nat
        /\ J!At(p) = files[p[1]][p[2]].seq /\ J!At(p) \in Nat
        /\ Whole(files, p[1], p[2])
    BY <1>1, <2>1, PlaceKnown
  <2>3. QED
    BY <1>1, <2>2 DEF Under
<1>4. ASSUME NEW p \in J!Read(since), NEW q \in J!Read(since), J!Before(p, q)
      PROVE  J!At(p) < J!At(q)
  <2>1. Whole(files, p[1], p[2]) /\ Whole(files, q[1], q[2])
        /\ (p[1] < q[1] \/ (p[1] = q[1] /\ p[2] < q[2]))
    BY <1>3, <1>4 DEF J!Before
  <2>2. files[p[1]][p[2]].seq < files[q[1]][q[2]].seq
    BY <1>1, <2>1 DEF Rising
  <2>3. QED
    BY <1>3, <2>2
<1>5. ASSUME NEW p \in J!Read(since), NEW q \in J!Read(since), J!At(p) = J!At(q) PROVE p = q
  <2>1. J!At(p) \in Nat /\ J!At(q) \in Nat
    BY <1>3
  <2>2. ~J!Before(p, q) /\ ~J!Before(q, p)
    BY <1>4, <1>5, <2>1
  <2>3. p[1] \in Nat /\ p[2] \in Nat /\ q[1] \in Nat /\ q[2] \in Nat
    BY <1>3
  <2>4. p[1] = q[1] /\ p[2] = q[2]
    BY <2>2, <2>3 DEF J!Before
  <2>5. QED
    BY <1>3, <2>4
<1>6. ASSUME J!Read(since) # {}
      PROVE  /\ J!LastOf(J!Read(since)) \in J!Read(since)
             /\ \A p \in J!Read(since) : J!At(p) <= J!At(J!LastOf(J!Read(since)))
  <2>1. J!Read(since) \in SUBSET PlacesOf(files)
    BY <1>2, PlacesAre
  <2>2. /\ J!LastOf(J!Read(since)) \in J!Read(since)
        /\ \A q \in J!Read(since) : q = J!LastOf(J!Read(since)) \/ J!Before(q, J!LastOf(J!Read(since)))
    BY <1>1, <1>6, <2>1, LastOfKnown
  <2>3. PICK l \in J!Read(since) : l = J!LastOf(J!Read(since))
    BY <2>2
  <2>4. ASSUME NEW p \in J!Read(since) PROVE J!At(p) <= J!At(l)
    <3>1. J!At(p) \in Nat /\ J!At(l) \in Nat
      BY <1>3
    <3>2. p = l \/ J!At(p) < J!At(l)
      BY <1>4, <2>2, <2>3
    <3>3. QED
      BY <3>1, <3>2
  <2>5. QED
    BY <2>3, <2>4
<1>7. ASSUME NEW d, NEW i, NEW n, Whole(files, d, i), n = files[d][i].seq, n > since
      PROVE  \E p \in J!Read(since) : J!At(p) = n
  <2>1. PICK p : p = <<d, i>>
    OBVIOUS
  <2>2. p \in J!Places /\ p[1] = d /\ p[2] = i
    BY <1>1, <1>7, <2>1, PlacesAre, PlacesKnown
  <2>3. J!At(p) = n
    BY <1>7, <2>2 DEF J!At
  <2>4. p \in J!Read(since)
    BY <1>7, <2>2, <2>3 DEF J!Read
  <2>5. QED
    BY <2>3, <2>4
<1>8. QED
  BY <1>2, <1>3, <1>5, <1>6, <1>7

LEMMA ReadTypes ==
  ASSUME Days \in Nat, LogTypes, NEW since \in Nat
  PROVE  /\ {J!At(p) : p \in J!Read(since)} \subseteq Nat
         /\ J!Read(since) # {} => J!At(J!LastOf(J!Read(since))) \in Nat
<1>1. \A p \in J!Read(since) : p \in J!Places /\ J!At(p) \in Nat
  BY PlaceKnown DEF J!Read
<1>2. J!Read(since) # {} => J!LastOf(J!Read(since)) \in J!Read(since)
  <2>1. J!Read(since) \in SUBSET PlacesOf(files) /\ files \in [1..Days -> Seq(Line)]
    BY <1>1, PlacesAre DEF LogTypes
  <2>2. QED
    BY <2>1, LastOfKnown
<1>3. QED
  BY <1>1, <1>2

LEMMA ClientReplay ==
  ASSUME Days \in Nat, LogInv, ClientInv, J!Replay PROVE ClientInv'
<1>1. /\ LogTypes /\ ClientTypes /\ OnceOnItsWay /\ client \in Client /\ client.since \in Nat
  BY ClientKnown DEF LogInv, ClientInv
<1>2. PICK since \in Nat : since = client.since
  BY <1>1
<1>3. PICK last : last = IF J!Read(since) = {} THEN since ELSE J!At(J!LastOf(J!Read(since)))
  OBVIOUS
<1>4. PICK got : got = {J!At(p) : p \in J!Read(since)}
  OBVIOUS
<1>5. PICK twice : twice = \E p, q \in J!Read(since) : p # q /\ J!At(p) = J!At(q)
  OBVIOUS
<1>6. /\ client' = [client EXCEPT !.phase = "live", !.got = got, !.last = last, !.twice = twice]
      /\ seqs' = last /\ seen' = seen \cup got
      /\ UNCHANGED <<seq, files, kept, reset, swapped>>
  BY <1>2, <1>3, <1>4, <1>5 DEF J!Replay, J!storage, J!bounds
<1>7. got \subseteq Nat /\ last \in Nat /\ twice \in BOOLEAN
  <2>1. got \subseteq Nat
    BY <1>1, <1>4, ReadTypes
  <2>2. last \in Nat
    BY <1>1, <1>3, ReadTypes
  <2>3. twice \in BOOLEAN
    BY <1>5
  <2>4. QED
    BY <2>1, <2>2, <2>3
<1>8. /\ client' \in Client /\ client'.phase = "live" /\ client'.got = got /\ client'.last = last
      /\ client'.twice = twice /\ client'.queue = client.queue /\ client'.since = since
      /\ client'.lagged = client.lagged
  BY <1>1, <1>2, <1>6, <1>7 DEF Client
<1>9. ClientTypes'
  BY <1>1, <1>6, <1>7, <1>8 DEF ClientTypes
<1>10. OnceOnItsWay'
  BY <1>1, <1>6, <1>8 DEF OnceOnItsWay, Carried
<1>11. PICK n \in Nat : n = seq
  BY <1>1 DEF LogTypes
<1>12. ASSUME Orderly
       PROVE  /\ ~twice /\ (last = since \/ last <= n)
              /\ \A x \in got : x <= n /\ x <= last /\ x \in Nat
              /\ \A d, i, x : Whole(files, d, i) /\ x = files[d][i].seq /\ x > since => x \in got
  <2>1. /\ \A p \in J!Read(since) : J!At(p) \in Nat /\ J!At(p) > since /\ J!At(p) <= n
        /\ \A p, q \in J!Read(since) : J!At(p) = J!At(q) => p = q
        /\ J!Read(since) # {} =>
             /\ J!LastOf(J!Read(since)) \in J!Read(since)
             /\ \A p \in J!Read(since) : J!At(p) <= J!At(J!LastOf(J!Read(since)))
        /\ \A d, i, x : Whole(files, d, i) /\ x = files[d][i].seq /\ x > since
                        => \E p \in J!Read(since) : J!At(p) = x
    BY <1>11, <1>12, ReadKnown
  <2>2. ~twice
    BY <1>5, <2>1
  <2>3. last = since \/ last <= n
    BY <1>3, <2>1
  <2>4. ASSUME NEW x \in got PROVE x <= n /\ x <= last /\ x \in Nat
    <3>1. PICK p \in J!Read(since) : x = J!At(p)
      BY <1>4
    <3>2. last = J!At(J!LastOf(J!Read(since)))
      BY <1>3, <3>1
    <3>3. QED
      BY <2>1, <3>1, <3>2
  <2>5. \A d, i, x : Whole(files, d, i) /\ x = files[d][i].seq /\ x > since => x \in got
    BY <1>4, <2>1
  <2>6. QED
    BY <2>2, <2>3, <2>4, <2>5
<1>13. Orderly' <=> Orderly
  BY <1>6 DEF Orderly
<1>14. Given'
  <2>1. ASSUME Orderly, NEW x \in got PROVE x <= n /\ ~(x > last)
    BY <1>7, <1>12, <2>1
  <2>2. QED
    BY <1>6, <1>8, <1>11, <1>12, <1>13, <2>1 DEF Given
<1>15. NoneMissed'
  <2>1. ASSUME Orderly, NEW d, NEW i, NEW x, Whole(files, d, i), x = files[d][i].seq, x > since
        PROVE  Comes(x)'
    <3>1. x \in client'.got
      BY <1>8, <1>12, <2>1
    <3>2. QED
      BY <3>1 DEF Comes
  <2>2. QED
    BY <1>6, <1>8, <1>13, <2>1 DEF NoneMissed
<1>16. QED
  BY <1>9, <1>10, <1>14, <1>15 DEF ClientInv

(* An entry that was waiting is given, unless the replay had it. *)
LEMMA ClientLive ==
  ASSUME Capacity \in Nat, LogInv, ClientInv, J!Live PROVE ClientInv'
<1>1. /\ LogTypes /\ ClientTypes /\ OnceOnItsWay /\ Given /\ NoneMissed
      /\ client \in Client /\ client.queue \in Seq(Line) /\ client.queue # <<>>
      /\ client.phase = "live"
  BY ClientKnown DEF LogInv, ClientInv, J!Live
<1>2. PICK x : x = Head(client.queue).seq
  OBVIOUS
<1>3. PICK fresh : fresh = IF x > client.last THEN {x} ELSE {}
  OBVIOUS
<1>4. PICK twice \in BOOLEAN : twice = (client.twice \/ x \in fresh \cap client.got)
  OBVIOUS
<1>5. PICK q \in Seq(Line) : q = Tail(client.queue)
  <2>1. Tail(client.queue) \in Seq(Line)
    BY <1>1
  <2>2. QED
    BY <2>1
<1>6. PICK l \in Nat : l = Len(client.queue)
  <2>1. Len(client.queue) \in Nat
    BY <1>1
  <2>2. QED
    BY <2>1
<1>7. /\ l >= 1 /\ client.queue[1].seq = x /\ x \in Nat
      /\ Len(q) = l - 1 /\ \A i \in 1..(l - 1) : q[i] = client.queue[i + 1]
  <2>1. l >= 1 /\ Head(client.queue) = client.queue[1] /\ 1 \in 1..l
    BY <1>1, <1>6
  <2>2. x \in Nat
    BY <1>1, <1>2, <1>6, <2>1, ClientKnown
  <2>3. Len(q) = l - 1 /\ \A i \in 1..(l - 1) : q[i] = client.queue[i + 1]
    BY <1>1, <1>5, <1>6
  <2>4. QED
    BY <1>2, <2>1, <2>2, <2>3
<1>8. /\ client' = [client EXCEPT !.queue = q, !.got = client.got \cup fresh, !.twice = twice]
      /\ seqs' = (IF x > client.last THEN x ELSE seqs) /\ seen' = seen \cup fresh
      /\ UNCHANGED <<seq, files, kept, reset, swapped>>
  BY <1>2, <1>3, <1>4, <1>5 DEF J!Live, J!storage, J!bounds
<1>9. fresh \subseteq Nat
  BY <1>3, <1>7
<1>10. /\ client' \in Client /\ client'.phase = "live" /\ client'.got = client.got \cup fresh
       /\ client'.last = client.last /\ client'.twice = twice /\ client'.queue = q
       /\ client'.since = client.since /\ client'.lagged = client.lagged
  BY <1>1, <1>8, <1>9 DEF Client
<1>11. ClientTypes'
  <2>1. Len(q) <= Capacity
    BY <1>1, <1>6, <1>7 DEF ClientTypes
  <2>2. QED
    BY <1>1, <1>7, <1>8, <1>9, <1>10, <2>1 DEF ClientTypes
<1>12. PICK n \in Nat : n = seq
  BY <1>1 DEF LogTypes
<1>13. \A i \in 1..l : /\ client.queue[i].seq <= n /\ ~Carried(client.queue[i].seq)
                       /\ \A j \in 1..l : client.queue[i].seq = client.queue[j].seq => i = j
  BY <1>1, <1>6, <1>12 DEF OnceOnItsWay
<1>14. Queued(x) /\ x <= n /\ ~Carried(x)
  <2>1. 1 \in 1..l
    BY <1>7
  <2>2. QED
    BY <1>6, <1>7, <1>13, <2>1 DEF Queued
<1>15. ASSUME NEW y PROVE Queued(y)' <=> Queued(y) /\ y # x
  <2>1. ASSUME Queued(y)' PROVE Queued(y) /\ y # x
    <3>1. PICK i \in 1..(l - 1) : q[i].seq = y
      BY <1>7, <1>10, <2>1 DEF Queued
    <3>2. i + 1 \in 1..l /\ client.queue[i + 1].seq = y /\ i + 1 # 1 /\ 1 \in 1..l
      BY <1>7, <3>1
    <3>3. y # x
      BY <1>7, <1>13, <3>2
    <3>4. QED
      BY <1>6, <3>2, <3>3 DEF Queued
  <2>2. ASSUME Queued(y), y # x PROVE Queued(y)'
    <3>1. PICK i \in 1..l : client.queue[i].seq = y
      BY <1>6, <2>2 DEF Queued
    <3>2. i # 1
      BY <1>7, <2>2, <3>1
    <3>3. i - 1 \in 1..(l - 1) /\ (i - 1) + 1 = i
      BY <3>1, <3>2
    <3>4. q[i - 1].seq = y
      BY <1>7, <3>1, <3>3
    <3>5. i - 1 \in 1..Len(client'.queue) /\ client'.queue[i - 1].seq = y
      BY <1>7, <1>10, <3>3, <3>4
    <3>6. QED
      BY <3>5 DEF Queued
  <2>3. QED
    BY <2>1, <2>2
<1>16. ASSUME NEW y PROVE Carried(y)' <=> Carried(y)
  BY <1>8 DEF Carried
<1>17. OnceOnItsWay'
  <2>1. ASSUME NEW i \in 1..(l - 1)
        PROVE  /\ q[i].seq <= n /\ ~Carried(q[i].seq)'
               /\ \A j \in 1..(l - 1) : q[i].seq = q[j].seq => i = j
    <3>1. q[i] = client.queue[i + 1] /\ i + 1 \in 1..l
      BY <1>7
    <3>2. PICK y : y = q[i].seq
      OBVIOUS
    <3>3. y <= n /\ ~Carried(y)
      BY <1>13, <3>1, <3>2
    <3>4. ASSUME NEW j \in 1..(l - 1), q[i].seq = q[j].seq PROVE i = j
      <4>1. q[j] = client.queue[j + 1] /\ j + 1 \in 1..l
        BY <1>7
      <4>2. i + 1 = j + 1
        BY <1>13, <3>1, <3>4, <4>1
      <4>3. QED
        BY <4>2
    <3>5. QED
      BY <1>16, <3>2, <3>3, <3>4
  <2>2. QED
    BY <1>1, <1>7, <1>8, <1>10, <1>12, <2>1 DEF OnceOnItsWay
<1>18. Orderly' <=> Orderly
  BY <1>8 DEF Orderly
<1>19. Given'
  <2>1. ASSUME Orderly
        PROVE  /\ ~twice
               /\ client.last = client.since \/ client.last <= n
               /\ \A y \in client.got \cup fresh : y <= n /\ (y > client.last => ~Queued(y)' /\ ~Carried(y)')
    <3>1. /\ ~client.twice /\ (client.last = client.since \/ client.last <= n)
          /\ \A y \in client.got : y <= n /\ (y > client.last => ~Queued(y) /\ ~Carried(y))
      BY <1>1, <1>12, <2>1 DEF Given
    <3>2. ASSUME x \in fresh PROVE x \notin client.got
      <4>1. x > client.last
        BY <1>3, <3>2
      <4>2. QED
        BY <1>14, <3>1, <4>1
    <3>3. ~twice
      BY <1>4, <3>1, <3>2
    <3>4. ASSUME NEW y \in client.got \cup fresh
          PROVE  y <= n /\ (y > client.last => ~Queued(y)' /\ ~Carried(y)')
      <4>1. CASE y \in client.got
        BY <1>15, <1>16, <3>1, <4>1
      <4>2. CASE y \in fresh
        <5>1. y = x
          BY <1>3, <4>2
        <5>2. ~Queued(x)' /\ ~Carried(x)'
          BY <1>14, <1>15, <1>16
        <5>3. QED
          BY <1>14, <5>1, <5>2
      <4>3. QED
        BY <4>1, <4>2
    <3>5. QED
      BY <3>1, <3>3, <3>4
  <2>2. QED
    BY <1>8, <1>10, <1>12, <1>18, <2>1 DEF Given
<1>20. NoneMissed'
  <2>1. ASSUME Orderly, ~client.lagged,
               NEW d, NEW i, NEW y, Whole(files, d, i), y = files[d][i].seq, y > client.since
        PROVE  Comes(y)'
    <3>1. y \in client.got \/ (y > client.last /\ (Queued(y) \/ Carried(y)))
      BY <1>1, <2>1 DEF NoneMissed, Comes
    <3>2. CASE y \in client.got
      BY <1>10, <3>2 DEF Comes
    <3>3. CASE y > client.last /\ y = x
      <4>1. y \in client'.got
        BY <1>3, <1>10, <3>3
      <4>2. QED
        BY <4>1 DEF Comes
    <3>4. CASE y > client.last /\ y # x /\ (Queued(y) \/ Carried(y))
      <4>1. Queued(y)' \/ Carried(y)'
        BY <1>15, <1>16, <3>4
      <4>2. QED
        BY <1>10, <3>4, <4>1 DEF Comes
    <3>5. QED
      BY <3>1, <3>2, <3>3, <3>4
  <2>2. QED
    BY <1>8, <1>10, <1>18, <2>1 DEF NoneMissed
<1>21. QED
  BY <1>11, <1>17, <1>19, <1>20 DEF ClientInv

(* A client that went, or was never there, is owed nothing. *)
LEMMA ClientGone ==
  ASSUME ClientTypes, client' = J!NoClient \/ (client'.phase = "subscribed" /\ client'.queue = <<>> /\ client' \in Client),
         Capacity \in Nat, UNCHANGED <<seqs, seen>>, seq' \in Nat,
         \A a \in J!Appenders : /\ kept'[a].seq <= seq'
                                /\ \A b \in J!Appenders :
                                     kept'[a].seq = kept'[b].seq /\ kept'[a] # J!Nothing => a = b
  PROVE  ClientInv'
<1>1. J!NoClient \in Client /\ J!NoClient.phase = "off" /\ J!NoClient.queue = <<>>
  BY DEF J!NoClient, Client
<1>2. client' \in Client /\ client'.phase # "live" /\ client'.queue = <<>>
  BY <1>1
<1>3. Len(client'.queue) = 0
  BY <1>2
<1>4. ClientTypes'
  BY <1>2, <1>3 DEF ClientTypes
<1>5. OnceOnItsWay'
  BY <1>2, <1>3 DEF OnceOnItsWay
<1>6. Given' /\ NoneMissed'
  BY <1>2 DEF Given, NoneMissed
<1>7. QED
  BY <1>4, <1>5, <1>6 DEF ClientInv

LEMMA ClientStands ==
  ASSUME ClientInv, UNCHANGED <<seq, files, kept, client, seqs, seen, reset, swapped>>
  PROVE  ClientInv'
<1>1. ClientTypes' /\ OnceOnItsWay'
  BY DEF ClientInv, ClientTypes, OnceOnItsWay, Carried
<1>2. Given'
  BY DEF ClientInv, Given, Orderly, Queued, Carried
<1>3. NoneMissed'
  BY DEF ClientInv, NoneMissed, Orderly, Comes, Queued, Carried
<1>4. QED
  BY <1>1, <1>2, <1>3 DEF ClientInv

LEMMA ClientPruned ==
  ASSUME LogInv, ClientInv, J!Prune PROVE ClientInv'
<1>1. /\ LogTypes /\ ClientTypes /\ OnceOnItsWay /\ Given /\ NoneMissed
      /\ files' = [d \in 1..Days |-> IF d + KeepDays < today THEN <<>> ELSE files[d]]
      /\ UNCHANGED <<seq, kept, client, seqs, seen, reset, swapped>>
  BY DEF LogInv, ClientInv, J!Prune, J!bounds, J!reader
<1>2. ASSUME NEW d, NEW i, Whole(files', d, i)
      PROVE  Whole(files, d, i) /\ files'[d][i] = files[d][i]
  <2>1. d \in 1..Days /\ i \in 1..Len(files'[d])
    BY <1>2 DEF Whole
  <2>2. files'[d] = <<>> \/ files'[d] = files[d]
    BY <1>1, <2>1
  <2>3. files'[d] = files[d]
    BY <2>1, <2>2
  <2>4. QED
    BY <1>2, <2>3 DEF Whole
<1>3. ClientTypes' /\ OnceOnItsWay'
  BY <1>1 DEF ClientTypes, OnceOnItsWay, Carried
<1>4. Given'
  BY <1>1 DEF Given, Orderly, Queued, Carried
<1>5. NoneMissed'
  <2>1. ASSUME client.phase = "live", Orderly, ~client.lagged,
               NEW d, NEW i, NEW x, Whole(files', d, i), x = files'[d][i].seq, x > client.since
        PROVE  Comes(x)'
    <3>1. Comes(x)
      BY <1>1, <1>2, <2>1 DEF NoneMissed
    <3>2. QED
      BY <1>1, <3>1 DEF Comes, Queued, Carried
  <2>2. Orderly' <=> Orderly
    BY <1>1 DEF Orderly
  <2>3. QED
    BY <1>1, <2>1, <2>2 DEF NoneMissed
<1>6. QED
  BY <1>3, <1>4, <1>5 DEF ClientInv

LEMMA ClientStep ==
  ASSUME J!JournalAssumption, WriterTypes, LogInv, ClientInv, J!Next PROVE ClientInv'
<1>1. Days \in Nat /\ Capacity \in Nat /\ Capacity \in Nat \ {0}
  BY DEF J!JournalAssumption
<1>2. CASE J!WriterAppends
  <2>1. PICK s \in Listed : J!Turn(s) /\ J!Write("writer", Head(todo[s]), s)
    BY <1>2 DEF J!WriterAppends
  <2>2. UNCHANGED <<reset, client, seqs, seen>>
    BY <1>2 DEF J!WriterAppends, J!reader
  <2>3. Head(todo[s]) \in Says
    <3>1. todo[s] \in Seq(Says) /\ todo[s] # <<>>
      BY <2>1 DEF WriterTypes, J!Turn
    <3>2. QED
      BY <3>1
  <2>4. "writer" \in J!Appenders
    BY DEF J!Appenders
  <2>5. QED
    BY <1>1, <2>1, <2>2, <2>3, <2>4, ClientWrites
<1>3. CASE J!CallAppends
  <2>1. PICK s \in Listed : J!Write("call", "action", s)
    BY <1>3 DEF J!CallAppends
  <2>2. UNCHANGED <<reset, client, seqs, seen>>
    BY <1>3 DEF J!CallAppends, J!reader
  <2>3. "action" \in Says /\ "call" \in J!Appenders
    BY DEF J!Appenders, Says
  <2>4. QED
    BY <1>1, <2>1, <2>2, <2>3, ClientWrites
<1>4. CASE \E a \in J!Appenders : J!Broadcast(a)
  BY <1>1, <1>4, ClientBroadcast
<1>5. CASE J!Prune
  BY <1>5, ClientPruned
<1>6. ClientTypes /\ OnceOnItsWay /\ LogTypes /\ LogInv'
  BY LogStep DEF ClientInv, LogInv
<1>7. seq' \in Nat
  BY <1>6 DEF LogInv, LogTypes
<1>8. CASE J!Restart
  <2>1. /\ client' = J!NoClient /\ kept' = [a \in J!Appenders |-> J!Nothing]
        /\ UNCHANGED <<seqs, seen>>
    BY <1>8 DEF J!Restart
  <2>2. \A a \in J!Appenders : kept'[a] = J!Nothing /\ kept'[a].seq = 0
    BY <2>1, MarksKnown
  <2>3. QED
    BY <1>1, <1>6, <1>7, <2>1, <2>2, ClientGone
<1>9. CASE J!Connect \/ J!Disconnect
  <2>1. UNCHANGED <<seq, kept, seqs, seen>>
    BY <1>9 DEF J!Connect, J!Disconnect, J!storage
  <2>2. client' = J!NoClient \/ (client'.phase = "subscribed" /\ client'.queue = <<>> /\ client' \in Client)
    <3>1. CASE J!Disconnect
      BY <3>1 DEF J!Disconnect
    <3>2. CASE J!Connect
      <4>1. client' = [J!NoClient EXCEPT !.phase = "subscribed", !.since = seqs] /\ seqs \in Nat
        BY <1>6, <3>2 DEF J!Connect, ClientTypes
      <4>2. J!NoClient \in Client /\ J!NoClient.queue = <<>>
        BY DEF J!NoClient, Client
      <4>3. client' \in Client /\ client'.phase = "subscribed" /\ client'.queue = J!NoClient.queue
        BY <4>1, <4>2 DEF Client
      <4>4. QED
        BY <4>2, <4>3
    <3>3. QED
      BY <1>9, <3>1, <3>2
  <2>3. \A a \in J!Appenders : /\ kept'[a].seq <= seq'
                               /\ \A b \in J!Appenders :
                                    kept'[a].seq = kept'[b].seq /\ kept'[a] # J!Nothing => a = b
    BY <1>6, <2>1 DEF OnceOnItsWay
  <2>4. QED
    BY <1>1, <1>6, <1>7, <2>1, <2>2, <2>3, ClientGone
<1>10. CASE J!Replay
  BY <1>1, <1>10, ClientReplay
<1>11. CASE J!Live
  BY <1>1, <1>11, ClientLive
<1>12. CASE J!RosterMoves \/ J!WriterStarts \/ J!WriterDiffs \/ J!NextDay
  <2>1. UNCHANGED <<seq, files, kept, client, seqs, seen, reset, swapped>>
    BY <1>12 DEF J!RosterMoves, J!WriterStarts, J!WriterDiffs, J!NextDay, J!storage, J!reader, J!bounds
  <2>2. QED
    BY <2>1, ClientStands
<1>13. QED
  BY <1>2, <1>3, <1>4, <1>5, <1>8, <1>9, <1>10, <1>11, <1>12 DEF J!Next

LEMMA JournalBegins ==
  ASSUME J!JournalAssumption, J!Init PROVE JournalInv
<1>1. /\ Days \in Nat \ {0} /\ Capacity \in Nat
  BY DEF J!JournalAssumption
<1>2. /\ roster \in [Listed -> {J!Gone, [J!Gone EXCEPT !.life = "live"]}]
      /\ prev = [s \in Listed |-> J!Gone] /\ todo = [s \in Listed |-> <<>>] /\ running = FALSE
      /\ seq = 0 /\ files = [d \in 1..Days |-> <<>>] /\ today = 1
      /\ kept = [a \in J!Appenders |-> J!Nothing]
      /\ client = J!NoClient /\ seqs = 0 /\ seen = {}
      /\ told = [s \in Listed |-> J!Untold] /\ reset = FALSE /\ swapped = FALSE
      /\ limit \in Limits
  BY DEF J!Init
<1>3. J!Gone.life = "gone" /\ [J!Gone EXCEPT !.life = "live"] \in J!Record
  <2>1. /\ J!Gone.life = "gone"
        /\ J!Gone \in [life : {"gone", "live"}, needs : BOOLEAN, claim : 0..1, name : 0..1]
    BY DEF J!Gone
  <2>2. [J!Gone EXCEPT !.life = "live"] \in [life : {"live"}, needs : BOOLEAN, claim : 0..1, name : 0..1]
    BY <2>1
  <2>3. QED
    BY <2>1, <2>2 DEF J!Record
<1>4. WriterInv
  <2>1. roster \in [Listed -> J!Record \cup {J!Gone}] /\ prev \in [Listed -> J!Record \cup {J!Gone}]
    BY <1>2, <1>3
  <2>2. /\ todo \in [Listed -> Seq(Says)]
        /\ told \in [Listed -> [there : BOOLEAN, waits : BOOLEAN]]
    BY <1>2 DEF J!Untold
  <2>3. WriterTypes
    BY <1>2, <2>1, <2>2 DEF WriterTypes
  <2>4. Noticed
    BY <1>2, <1>3 DEF Noticed
  <2>5. Owed
    <3>1. \A s \in Listed : todo[s] = <<>> /\ prev[s] = J!Gone
      BY <1>2
    <3>2. \A s \in Listed : Len(todo[s]) \in 0..3
      BY <3>1
    <3>3. QED
      BY <1>2, <3>1, <3>2 DEF Owed
  <2>6. QED
    BY <2>3, <2>4, <2>5 DEF WriterInv
<1>5. LogInv
  <2>1. J!Nothing \in Line /\ <<>> \in Seq(Line)
    BY MarksKnown
  <2>2. LogTypes
    <3>1. files \in [1..Days -> Seq(Line)] /\ kept \in [J!Appenders -> Line]
          /\ \A a \in J!Appenders : kept[a] = J!Nothing
      BY <1>2, <2>1
    <3>2. today \in 1..Days /\ seq \in Nat
      BY <1>1, <1>2
    <3>3. QED
      BY <1>2, <3>1, <3>2 DEF LogTypes
  <2>3. \A d, i : ~Whole(files, d, i)
    <3>1. \A d \in 1..Days : files[d] = <<>> /\ Len(files[d]) = 0
      BY <1>2
    <3>2. QED
      BY <3>1 DEF Whole
  <2>4. FilesRise
    BY <2>3 DEF FilesRise, Under, Rising
  <2>5. QED
    BY <2>2, <2>4 DEF LogInv
<1>6. ClientInv
  <2>1. client = [phase |-> "off", queue |-> <<>>, since |-> 0, last |-> 0,
                  got |-> {}, twice |-> FALSE, lagged |-> FALSE]
    BY <1>2 DEF J!NoClient
  <2>2. <<>> \in Seq(Line) /\ {} \in SUBSET Nat /\ Len(<<>>) = 0
    OBVIOUS
  <2>3. client \in Client /\ client.phase = "off" /\ Len(client.queue) = 0 /\ client.queue = <<>>
    BY <2>1, <2>2 DEF Client
  <2>4. ClientTypes
    BY <1>1, <1>2, <2>3 DEF ClientTypes
  <2>5. OnceOnItsWay
    <3>1. \A a \in J!Appenders : kept[a] = J!Nothing /\ kept[a].seq = 0
      BY <1>2, MarksKnown
    <3>2. QED
      BY <1>2, <2>3, <3>1 DEF OnceOnItsWay
  <2>6. Given /\ NoneMissed
    BY <2>3 DEF Given, NoneMissed
  <2>7. QED
    BY <2>4, <2>5, <2>6 DEF ClientInv
<1>7. QED
  BY <1>4, <1>5, <1>6 DEF JournalInv

LEMMA JournalStep ==
  ASSUME J!JournalAssumption, JournalInv, J!Next PROVE JournalInv'
<1>1. WriterInv /\ LogInv /\ ClientInv /\ WriterTypes
  BY DEF JournalInv, WriterInv
<1>2. WriterInv' /\ LogInv' /\ ClientInv'
  BY <1>1, WriterStep, LogStep, ClientStep
<1>3. QED
  BY <1>2 DEF JournalInv

LEMMA JournalStands ==
  ASSUME JournalInv, UNCHANGED J!vars PROVE JournalInv'
<1>1. UNCHANGED <<roster, steps, prev, todo, running, told, seq, files, kept, client, seqs, seen,
                  connects, today, actions, torn, restarts, reset, swapped, limit>>
  BY DEF J!vars, J!writer, J!storage, J!reader, J!bounds
<1>2. WriterInv'
  BY <1>1 DEF JournalInv, WriterInv, WriterTypes, Noticed, Owed
<1>3. LogInv'
  BY <1>1, LogStands DEF JournalInv
<1>4. ClientInv'
  BY <1>1, ClientStands DEF JournalInv
<1>5. QED
  BY <1>2, <1>3, <1>4 DEF JournalInv

LEMMA JournalTells == JournalInv => J!WriterTells
<1>1. SUFFICES ASSUME JournalInv, running, J!CaughtUp, roster = prev, NEW s \in Listed
               PROVE  told[s] = J!Known(roster[s])
  BY DEF J!WriterTells
<1>2. Len(todo[s]) = 0
  BY <1>1 DEF J!CaughtUp
<1>3. Ahead(told[s], todo[s]) = told[s]
  BY <1>2 DEF Ahead
<1>4. Ahead(told[s], todo[s]) = J!Known(prev[s])
  BY <1>1 DEF JournalInv, WriterInv, Owed
<1>5. QED
  BY <1>1, <1>3, <1>4

LEMMA JournalRises == JournalInv => J!SeqRises
<1>1. SUFFICES ASSUME JournalInv, ~reset, ~swapped,
                      NEW p \in J!Places, NEW q \in J!Places, J!Before(p, q)
               PROVE  J!At(p) < J!At(q)
  BY DEF J!SeqRises
<1>2. LogTypes /\ Rising(files)
  BY <1>1 DEF JournalInv, LogInv, FilesRise, Orderly
<1>3. /\ J!At(p) = files[p[1]][p[2]].seq /\ Whole(files, p[1], p[2])
      /\ J!At(q) = files[q[1]][q[2]].seq /\ Whole(files, q[1], q[2])
  BY <1>2, PlaceKnown
<1>4. p[1] < q[1] \/ (p[1] = q[1] /\ p[2] < q[2])
  BY <1>1 DEF J!Before
<1>5. QED
  BY <1>2, <1>3, <1>4 DEF Rising

LEMMA JournalSeen == JournalInv => J!ConnectedSeesAll
<1>1. SUFFICES ASSUME JournalInv, client.phase = "live", client.queue = <<>>, ~client.lagged,
                      ~swapped, ~reset, \A a \in J!Appenders : kept[a] = J!Nothing
               PROVE  ~client.twice /\ \A p \in J!Read(client.since) : J!At(p) \in client.got
  BY DEF J!ConnectedSeesAll
<1>2. LogTypes /\ Given /\ NoneMissed /\ Orderly
  BY <1>1 DEF JournalInv, LogInv, ClientInv, Orderly
<1>3. ~client.twice
  BY <1>1, <1>2 DEF Given
<1>4. Len(client.queue) = 0
  BY <1>1
<1>5. ASSUME NEW p \in J!Read(client.since) PROVE J!At(p) \in client.got
  <2>1. p \in J!Places /\ J!At(p) > client.since
    BY <1>5 DEF J!Read
  <2>2. J!At(p) = files[p[1]][p[2]].seq /\ Whole(files, p[1], p[2])
    BY <1>2, <2>1, PlaceKnown
  <2>3. Comes(J!At(p))
    BY <1>1, <1>2, <2>1, <2>2 DEF NoneMissed
  <2>4. ~Queued(J!At(p)) /\ ~Carried(J!At(p))
    BY <1>1, <1>4 DEF Queued, Carried
  <2>5. QED
    BY <2>3, <2>4 DEF Comes
<1>6. QED
  BY <1>3, <1>5

LEMMA JournalTyped == JournalInv => J!TypeOK
<1>1. SUFFICES ASSUME JournalInv PROVE J!TypeOK
  OBVIOUS
<1>2. WriterTypes /\ LogTypes /\ ClientTypes
  BY <1>1 DEF JournalInv, WriterInv, LogInv, ClientInv
<1>3. client.phase \in {"off", "subscribed", "live"} /\ Len(client.queue) <= Capacity
  BY <1>2 DEF ClientTypes, Client
<1>4. \A s \in Listed : told[s] \in [there : BOOLEAN, waits : BOOLEAN]
  BY <1>2 DEF WriterTypes
<1>5. QED
  BY <1>2, <1>3, <1>4 DEF J!TypeOK, WriterTypes, LogTypes, ClientTypes

LEMMA JournalSpec ==
  ASSUME J!JournalAssumption PROVE MCSpec => []JournalInv
<1>1. MCInit => JournalInv
  BY JournalBegins DEF MCInit
<1>2. JournalInv /\ [MCNext]_<<part, exchange, log, proxy, tui, setup, integrate>> => JournalInv'
  <2>1. ASSUME JournalInv, UNCHANGED log PROVE JournalInv'
    <3>1. UNCHANGED J!vars
      BY <2>1 DEF log, J!vars, J!writer, J!storage, J!reader, J!bounds
    <3>2. QED
      BY <2>1, <3>1, JournalStands
  <2>2. ASSUME JournalInv, MCNext PROVE JournalInv'
    BY <2>1, <2>2, JournalStep DEF MCNext
  <2>3. QED
    BY <2>1, <2>2
<1>3. QED
  BY <1>1, <1>2, PTL DEF MCSpec

(* The journal is whole (journal/mod.rs `run`, `append`, `open`): once the
   writer has caught up, whoever followed the entries knows of every session
   what the roster has, however many snapshots were skipped; and the files hold
   the entries in the order of their seq over failed writes, days and restarts,
   while no start lost the count and no entry went to a day that was over.    *)
THEOREM JournalWhole ==
  ASSUME J!JournalAssumption PROVE MCSpec => []JournalIsWhole
<1>1. JournalInv => JournalIsWhole
  BY JournalTyped, JournalTells, JournalRises DEF JournalIsWhole
<1>2. QED
  BY <1>1, JournalSpec, PTL

(* A client that stays connected gets every entry of the files that it asked
   for, none twice, however the replay and the broadcast overlap and in
   whatever order two tasks broadcast (api/routes.rs `swarm_changes`).        *)
THEOREM ConnectedSeen ==
  ASSUME J!JournalAssumption PROVE MCSpec => []ConnectedSeesAll
<1>1. JournalInv => ConnectedSeesAll
  BY JournalSeen DEF ConnectedSeesAll
<1>2. QED
  BY <1>1, JournalSpec, PTL
=============================================================================
