---------------------------- MODULE SessionsProofs ----------------------------
(* Webhooks (hooks.rs) and the relay (holder main.rs, session.rs), proved.   *)
(*                                                                          *)
(* Webhooks: what a receiver gets comes once and, but for what the sender    *)
(* gave up on, in order, though the requests of a round run side by side,    *)
(* the channel drops what it has no room for, and a daemon that starts again *)
(* forgets what was on its way.  Order is not                                *)
(* inductive as it stands.  Two facts carry it: all that was sent is gone by *)
(* in the stream it came from (AllPast), so that what the task takes next is *)
(* newer; and what is still on its way to a receiver is newer than all it    *)
(* saw (ComesLater), because a round is about one event and the next begins  *)
(* when every answer is in (OneRound).  What the sender gave up on has its     *)
(* own: it may come late, but it was not seen, and it is older than what is  *)
(* sent now (NotSeen).                                                       *)
(*                                                                          *)
(* Relay: a request of the agent is kept while it waits, shown once, answered *)
(* once, and a permission asked last shows.  The invariant says where a      *)
(* request is: on its way to the session, pending there, or with its answer  *)
(* on the way (OnePlaceEach), which holds because a request is asked once    *)
(* (AskedOnce) and a replay is what the holder still has (SnapIsFresh).      *)
EXTENDS MCSessions, SequenceTheorems, TLAPS

(* What is sent, and what its receiver sees of it. *)
Requests == [hook : Ids, kind : {"entry", "frame"}, n : Nat, at : {"out", "there"}]
Posts    == [hook : Ids, kind : {"entry", "frame"}, n : Nat]
Events   == [kind : {"entry", "frame"}, n : Nat, late : BOOLEAN]

HooksTypes ==
  /\ inner \subseteq Ids
  /\ file \in (SUBSET Ids) \cup {W!Torn}
  /\ channel \in Seq(Nat) /\ entries \in Nat
  /\ frame \in Nat /\ prev \in Nat
  /\ out \subseteq Requests
  /\ late \subseteq Posts
  /\ got \in [Ids -> Seq(Events)]

(* The channel is in order, and nothing in it is newer than the journal. *)
Rising ==
  /\ \A i, j \in 1..Len(channel) : i < j => channel[i] < channel[j]
  /\ \A i \in 1..Len(channel) : channel[i] <= entries
  /\ prev <= frame

(* Gone by: an event before all that the task still has to take. *)
Past(what, n) ==
  /\ what = "entry" => n <= entries /\ \A i \in 1..Len(channel) : n < channel[i]
  /\ what = "frame" => n <= prev

AllPast ==
  /\ \A r \in out \cup late : Past(r.kind, r.n)
  /\ \A h \in Ids : \A i \in 1..Len(got[h]) : Past(got[h][i].kind, got[h][i].n)

(* The requests of a round are about one event, one for each hook. *)
OneRound ==
  \A r, q \in out : r.kind = q.kind /\ r.n = q.n /\ (r.hook = q.hook => r = q)

(* What is still on its way comes after all that its receiver saw. *)
ComesLater ==
  \A r \in out : r.at = "out" =>
    \A i \in 1..Len(got[r.hook]) : got[r.hook][i].kind = r.kind => got[r.hook][i].n < r.n

(* What the sender gave up on was not seen, and is older than what is sent now. *)
NotSeen ==
  \A r \in late :
    /\ \A q \in out : q.hook = r.hook /\ q.kind = r.kind => r.n < q.n
    /\ \A i \in 1..Len(got[r.hook]) : ~(got[r.hook][i].kind = r.kind /\ got[r.hook][i].n = r.n)

HooksInv ==
  HooksTypes /\ Rising /\ AllPast /\ OneRound /\ ComesLater /\ NotSeen /\ W!InOrder

-----------------------------------------------------------------------------
(* The invariant holds where every daemon begins. *)
LEMMA HooksStart == ASSUME W!Init PROVE HooksInv
BY DEF W!Init, HooksInv, HooksTypes, Rising, AllPast, OneRound, ComesLater, NotSeen, W!InOrder

(* Whatever leaves the streams and the requests alone. *)
LEMMA AsideKeeps ==
  ASSUME HooksInv, HooksTypes', UNCHANGED <<channel, entries, prev, out, late, got>>, frame <= frame'
  PROVE  HooksInv'
<1>1. Rising'
  BY DEF HooksInv, HooksTypes, Rising
<1>2. AllPast' /\ OneRound' /\ ComesLater' /\ NotSeen' /\ W!InOrder'
  BY DEF HooksInv, AllPast, Past, OneRound, ComesLater, NotSeen, W!InOrder
<1>3. QED
  BY <1>1, <1>2 DEF HooksInv

(* A sequence and a new last element. *)
LEMMA Appended ==
  ASSUME NEW u \in Seq(Nat), NEW x \in Nat, NEW t, t = Append(u, x)
  PROVE  /\ t \in Seq(Nat) /\ Len(u) \in Nat /\ Len(t) = Len(u) + 1
         /\ \A i \in 1..Len(u) : t[i] = u[i]
         /\ t[Len(u) + 1] = x
BY AppendProperties

(* The last ones of a sequence. *)
LEMMA Lasts ==
  ASSUME NEW s \in Seq(Nat), NEW k \in 0..Len(s), NEW u, u = SubSeq(s, k + 1, Len(s))
  PROVE  /\ u \in Seq(Nat) /\ Len(s) \in Nat /\ Len(u) = Len(s) - k
         /\ \A i \in 1..Len(u) : u[i] = s[k + i]
<1>1. Len(s) \in Nat /\ k \in Nat /\ k <= Len(s)
  OBVIOUS
<1>2. PICK m \in Int, n \in Int : m = k + 1 /\ n = Len(s)
  BY <1>1
<1>3. \A i \in m..n : s[i] \in Nat
  BY <1>1, <1>2, ElementOfSeq
<1>4. u = SubSeq(s, m, n)
  BY <1>2
<1>5. /\ u \in Seq(Nat)
      /\ Len(u) = IF m <= n THEN n - m + 1 ELSE 0
      /\ \A i \in 1 .. n - m + 1 : u[i] = s[m + i - 1]
  BY <1>1, <1>2, <1>3, <1>4
<1>6. Len(u) = Len(s) - k
  BY <1>1, <1>2, <1>5
<1>7. ASSUME NEW i \in 1..Len(u) PROVE u[i] = s[k + i]
  <2>1. i \in 1 .. n - m + 1 /\ m + i - 1 = k + i
    BY <1>1, <1>2, <1>6
  <2>2. QED
    BY <1>5, <2>1
<1>8. QED
  BY <1>1, <1>5, <1>6, <1>7

(* What the receivers saw, and what is sent to them, are events. *)
LEMMA EventsAreNumbered ==
  ASSUME HooksTypes
  PROVE  /\ \A r \in out \cup late : r.hook \in Ids /\ r.n \in Nat
         /\ \A h \in Ids : /\ Len(got[h]) \in Nat
                          /\ \A i \in 1..Len(got[h]) : got[h][i].n \in Nat
<1>1. \A r \in out \cup late : r.hook \in Ids /\ r.n \in Nat
  BY DEF HooksTypes, Requests, Posts
<1>2. ASSUME NEW h \in Ids
      PROVE  Len(got[h]) \in Nat /\ \A i \in 1..Len(got[h]) : got[h][i].n \in Nat
  <2>1. got[h] \in Seq(Events)
    BY DEF HooksTypes
  <2>2. \A i \in 1..Len(got[h]) : got[h][i] \in Events
    BY <2>1, ElementOfSeq
  <2>3. QED
    BY <2>1, <2>2 DEF Events
<1>3. QED
  BY <1>1, <1>2

(* What is gone by stays so, and so does all that was. *)
LEMMA PastStays ==
  ASSUME HooksInv, UNCHANGED <<late, got>>, \A r \in out' : r \in out \/ Past(r.kind, r.n)',
         \A what, n : n \in Nat /\ Past(what, n) => Past(what, n)'
  PROVE  AllPast'
BY EventsAreNumbered DEF HooksInv, AllPast

(* An entry of the journal enters the channel, which may have to drop its oldest. *)
LEMMA EntryKeeps ==
  ASSUME W!HooksAssumption, HooksInv, W!Entry PROVE HooksInv'
<1> DEFINE over == SubSeq(channel, 1, Len(channel) + 1 - Capacity)
<1>1. /\ channel \in Seq(Nat) /\ entries \in Nat
      /\ Len(over) \in Nat /\ Len(over) <= Len(channel)
  BY DEF W!HooksAssumption, HooksInv, HooksTypes
<1>2. channel' = Append(SubSeq(channel, Len(over) + 1, Len(channel)), entries')
  BY DEF W!Entry
<1>3. entries' = entries + 1 /\ UNCHANGED <<inner, file, saving, frame, prev, out, late, got, starts>>
  BY DEF W!Entry, W!disk, W!wire
<1> DEFINE kept == SubSeq(channel, Len(over) + 1, Len(channel))
<1> HIDE DEF over
<1>4. /\ kept \in Seq(Nat) /\ Len(kept) = Len(channel) - Len(over)
      /\ \A i \in 1..Len(kept) : kept[i] = channel[Len(over) + i]
  <2>1. PICK k \in 0..Len(channel) : k = Len(over)
    BY <1>1
  <2>2. PICK u : u = SubSeq(channel, k + 1, Len(channel))
    OBVIOUS
  <2>3. kept = u
    BY <2>1, <2>2
  <2> HIDE DEF kept
  <2>4. /\ u \in Seq(Nat) /\ Len(u) = Len(channel) - k
        /\ \A i \in 1..Len(u) : u[i] = channel[k + i]
    BY <1>1, <2>2, Lasts
  <2>5. QED
    BY <2>1, <2>3, <2>4
<1> HIDE DEF kept
<1>5. /\ channel' \in Seq(Nat) /\ Len(kept) \in Nat /\ Len(channel') = Len(kept) + 1
      /\ \A i \in 1..Len(kept) : channel'[i] = kept[i]
      /\ channel'[Len(kept) + 1] = entries + 1
  <2>1. channel' = Append(kept, entries + 1) /\ entries + 1 \in Nat
    BY <1>1, <1>2, <1>3 DEF kept
  <2>2. QED
    BY <1>4, <2>1, Appended
<1>6. ASSUME NEW i \in 1..Len(channel')
      PROVE  \/ i = Len(kept) + 1 /\ channel'[i] = entries + 1
             \/ /\ i \in 1..Len(kept) /\ Len(over) + i \in 1..Len(channel)
                /\ channel'[i] = channel[Len(over) + i]
  <2>1. CASE i = Len(kept) + 1
    BY <1>5, <2>1
  <2>2. CASE i \in 1..Len(kept)
    <3>1. Len(over) + i \in 1..Len(channel)
      BY <1>1, <1>4, <2>2
    <3>2. QED
      BY <1>4, <1>5, <2>2, <3>1
  <2>3. QED
    BY <1>5, <2>1, <2>2
<1>7. HooksTypes'
  BY <1>1, <1>3, <1>5 DEF HooksInv, HooksTypes
<1>8. /\ \A i, j \in 1..Len(channel) : i < j => channel[i] < channel[j]
      /\ \A i \in 1..Len(channel) : channel[i] <= entries
      /\ prev <= frame
  BY DEF HooksInv, Rising
<1>9. \A i \in 1..Len(channel) : channel[i] \in Nat
  BY <1>1, ElementOfSeq
<1>10. Rising'
  <2>1. ASSUME NEW i \in 1..Len(channel'), NEW j \in 1..Len(channel'), i < j
        PROVE  channel'[i] < channel'[j]
    <3>1. i # Len(kept) + 1
      BY <1>5, <2>1
    <3>2. Len(over) + i \in 1..Len(channel) /\ channel'[i] = channel[Len(over) + i]
      BY <1>6, <3>1
    <3>3. CASE j = Len(kept) + 1
      <4>1. channel'[j] = entries + 1
        BY <1>5, <3>3
      <4>2. channel'[i] \in Nat /\ channel'[i] <= entries
        BY <1>8, <1>9, <3>2
      <4>3. QED
        BY <1>1, <4>1, <4>2
    <3>4. CASE j # Len(kept) + 1
      <4>1. Len(over) + j \in 1..Len(channel) /\ channel'[j] = channel[Len(over) + j]
        BY <1>6, <3>4
      <4>2. Len(over) + i < Len(over) + j
        BY <1>1, <2>1
      <4>3. QED
        BY <1>8, <3>2, <4>1, <4>2
    <3>5. QED
      BY <3>3, <3>4
  <2>2. ASSUME NEW i \in 1..Len(channel') PROVE channel'[i] <= entries + 1
    <3>1. CASE channel'[i] = entries + 1
      BY <1>1, <3>1
    <3>2. CASE Len(over) + i \in 1..Len(channel) /\ channel'[i] = channel[Len(over) + i]
      <4>1. channel'[i] \in Nat /\ channel'[i] <= entries
        BY <1>8, <1>9, <3>2
      <4>2. QED
        BY <1>1, <4>1
    <3>3. QED
      BY <1>6, <3>1, <3>2
  <2>3. QED
    BY <1>3, <1>8, <2>1, <2>2 DEF Rising
<1>11. ASSUME NEW what, NEW n \in Nat, Past(what, n) PROVE Past(what, n)'
  <2>1. ASSUME what = "entry", NEW i \in 1..Len(channel') PROVE n < channel'[i]
    <3>1. n <= entries /\ \A m \in 1..Len(channel) : n < channel[m]
      BY <1>11, <2>1 DEF Past
    <3>2. CASE channel'[i] = entries + 1
      BY <1>1, <3>1, <3>2
    <3>3. CASE Len(over) + i \in 1..Len(channel) /\ channel'[i] = channel[Len(over) + i]
      BY <3>1, <3>3
    <3>4. QED
      BY <1>6, <3>2, <3>3
  <2>2. what = "entry" => n <= entries + 1
    BY <1>1, <1>11 DEF Past
  <2>3. QED
    BY <1>3, <1>11, <2>1, <2>2 DEF Past
<1>12. AllPast'
  BY <1>3, <1>11, PastStays
<1>13. QED
  BY <1>3, <1>7, <1>10, <1>12 DEF HooksInv, OneRound, ComesLater, NotSeen, W!InOrder

(* The task takes an entry and sends it to every hook that wants it. *)
LEMMA TakesEntryKeeps ==
  ASSUME HooksInv, W!TakesEntry PROVE HooksInv'
<1>1. /\ channel \in Seq(Nat) /\ channel # <<>> /\ out = {}
      /\ channel' = Tail(channel)
      /\ out' = {[hook |-> h, kind |-> "entry", n |-> Head(channel), at |-> "out"] :
                   h \in {x \in inner : W!Wants(x, "entry")}}
      /\ UNCHANGED <<inner, file, entries, frame, prev, late, got>>
  BY DEF HooksInv, HooksTypes, W!TakesEntry, W!RoundOver, W!Deliver, W!disk
<1>2. /\ channel' \in Seq(Nat) /\ Len(channel') = Len(channel) - 1 /\ Len(channel) >= 1
      /\ Head(channel) = channel[1] /\ channel[1] \in Nat
      /\ \A i \in 1..Len(channel') : channel'[i] = channel[i + 1]
  BY <1>1
<1>3. HooksTypes'
  BY <1>1, <1>2 DEF HooksInv, HooksTypes, Requests
<1>4. Rising'
  BY <1>1, <1>2 DEF HooksInv, HooksTypes, Rising
<1>5. ASSUME NEW what, NEW n \in Nat, Past(what, n) PROVE Past(what, n)'
  BY <1>1, <1>2, <1>5 DEF Past
<1>6. PICK m \in Nat : m = channel[1]
  BY <1>2
<1>7. Past("entry", m)'
  <2>1. \A i \in 1..Len(channel') : m < channel'[i]
    BY <1>1, <1>2, <1>6 DEF HooksInv, Rising
  <2>2. m <= entries
    BY <1>1, <1>2, <1>6 DEF HooksInv, Rising
  <2>3. QED
    BY <1>1, <2>1, <2>2 DEF Past
<1>8. \A r \in out' : r.kind = "entry" /\ r.n = m /\ r.hook \in Ids /\ r.at = "out"
  BY <1>1, <1>2, <1>6 DEF HooksInv, HooksTypes
<1>9. AllPast'
  <2>1. \A r \in out' : Past(r.kind, r.n)'
    BY <1>7, <1>8
  <2>2. QED
    BY <1>1, <1>5, <2>1, PastStays
<1>10. OneRound'
  BY <1>1, <1>2 DEF OneRound
<1>11. ComesLater'
  <2>1. \A h \in Ids : \A i \in 1..Len(got[h]) :
          got[h][i].kind = "entry" => got[h][i].n < m
    BY <1>2, <1>6 DEF HooksInv, AllPast, Past
  <2>2. QED
    BY <1>1, <1>8, <2>1 DEF ComesLater
<1>12. NotSeen'
  <2>1. ASSUME NEW r \in late, r.kind = "entry" PROVE r.n < m
    BY <1>2, <1>6, <2>1, EventsAreNumbered DEF HooksInv, AllPast, Past
  <2>2. QED
    BY <1>1, <1>8, <2>1 DEF HooksInv, NotSeen
<1>13. W!InOrder'
  BY <1>1 DEF HooksInv, W!InOrder
<1>14. QED
  BY <1>3, <1>4, <1>9, <1>10, <1>11, <1>12, <1>13 DEF HooksInv

(* The task takes the frame of peers it did not diff yet, and sends what changed. *)
LEMMA TakesFrameKeeps ==
  ASSUME HooksInv, W!TakesFrame PROVE HooksInv'
<1>1. /\ out = {} /\ frame # prev /\ prev' = frame
      /\ out' = {[hook |-> h, kind |-> "frame", n |-> frame, at |-> "out"] :
                   h \in {x \in inner : W!Wants(x, "frame")}}
      /\ UNCHANGED <<inner, file, channel, entries, frame, late, got>>
  BY DEF W!TakesFrame, W!RoundOver, W!Deliver, W!disk
<1>2. prev \in Nat /\ frame \in Nat /\ prev < frame
  BY <1>1 DEF HooksInv, HooksTypes, Rising
<1>3. HooksTypes'
  BY <1>1, <1>2 DEF HooksInv, HooksTypes, Requests
<1>4. Rising'
  BY <1>1, <1>2 DEF HooksInv, Rising
<1>5. ASSUME NEW what, NEW n \in Nat, Past(what, n) PROVE Past(what, n)'
  BY <1>1, <1>2, <1>5 DEF Past
<1>6. \A r \in out' : r.kind = "frame" /\ r.n = frame /\ r.hook \in Ids /\ r.at = "out"
  BY <1>1 DEF HooksInv, HooksTypes
<1>7. AllPast'
  <2>1. \A r \in out' : Past(r.kind, r.n)'
    BY <1>1, <1>2, <1>6 DEF Past
  <2>2. QED
    BY <1>1, <1>5, <2>1, PastStays
<1>8. OneRound'
  BY <1>1 DEF OneRound
<1>9. ComesLater'
  <2>1. \A h \in Ids : \A i \in 1..Len(got[h]) :
          got[h][i].kind = "frame" => got[h][i].n <= prev /\ got[h][i].n \in Nat
    BY EventsAreNumbered DEF HooksInv, AllPast, Past
  <2>2. QED
    BY <1>1, <1>2, <1>6, <2>1 DEF ComesLater
<1>10. NotSeen'
  <2>1. ASSUME NEW r \in late, r.kind = "frame" PROVE r.n < frame
    BY <1>2, <2>1, EventsAreNumbered DEF HooksInv, AllPast, Past
  <2>2. QED
    BY <1>1, <1>6, <2>1 DEF HooksInv, NotSeen
<1>11. W!InOrder'
  BY <1>1 DEF HooksInv, W!InOrder
<1>12. QED
  BY <1>3, <1>4, <1>7, <1>8, <1>9, <1>10, <1>11 DEF HooksInv

(* What its receiver sees of a request: one event more, one that is gone by. *)
LEMMA SeesOneMore ==
  ASSUME HooksInv, NEW h \in Ids, NEW e \in Events, Past(e.kind, e.n),
         \A i \in 1..Len(got[h]) : got[h][i].kind = e.kind =>
           got[h][i].n < e.n \/ (e.late /\ got[h][i].n # e.n),
         got' = [got EXCEPT ![h] = Append(got[h], e)]
  PROVE  /\ got' \in [Ids -> Seq(Events)]
         /\ \A g \in Ids \ {h} : got'[g] = got[g]
         /\ Len(got[h]) \in Nat /\ Len(got'[h]) = Len(got[h]) + 1
         /\ \A i \in 1..Len(got[h]) : got'[h][i] = got[h][i]
         /\ got'[h][Len(got[h]) + 1] = e
         /\ \A g \in Ids : \A i \in 1..Len(got'[g]) : Past(got'[g][i].kind, got'[g][i].n)
         /\ W!InOrder'
<1>1. got \in [Ids -> Seq(Events)]
  BY DEF HooksInv, HooksTypes
<1>2. got' = [got EXCEPT ![h] = Append(got[h], e)]
  OBVIOUS
<1>3. /\ got' \in [Ids -> Seq(Events)]
      /\ \A g \in Ids \ {h} : got'[g] = got[g]
      /\ got'[h] = Append(got[h], e)
  BY <1>1, <1>2
<1>4. /\ Len(got[h]) \in Nat /\ Len(got'[h]) = Len(got[h]) + 1
      /\ got'[h][Len(got[h]) + 1] = e
      /\ \A i \in 1..Len(got[h]) : got'[h][i] = got[h][i]
  BY <1>1, <1>3
<1>5. ASSUME NEW g \in Ids, NEW i \in 1..Len(got'[g])
      PROVE  Past(got'[g][i].kind, got'[g][i].n)
  <2>1. CASE g # h
    BY <1>3, <2>1 DEF HooksInv, AllPast
  <2>2. CASE g = h /\ i = Len(got[h]) + 1
    BY <1>1, <1>4, <2>2
  <2>3. CASE g = h /\ i \in 1..Len(got[h])
    BY <1>4, <2>3 DEF HooksInv, AllPast
  <2>4. QED
    BY <1>4, <2>1, <2>2, <2>3
<1>6. ASSUME NEW g \in Ids, NEW i \in 1..Len(got'[g]), NEW j \in 1..Len(got'[g]),
             i < j, got'[g][i].kind = got'[g][j].kind
      PROVE  \/ got'[g][i].n < got'[g][j].n
             \/ got'[g][j].late /\ got'[g][i].n # got'[g][j].n
  <2>1. \A a, b \in 1..Len(got[g]) : a < b /\ got[g][a].kind = got[g][b].kind =>
          got[g][a].n < got[g][b].n \/ (got[g][b].late /\ got[g][a].n # got[g][b].n)
    BY DEF HooksInv, W!InOrder
  <2>2. CASE g # h
    BY <1>3, <1>6, <2>1, <2>2
  <2>3. CASE g = h /\ j \in 1..Len(got[h])
    <3>1. i \in 1..Len(got[h])
      BY <1>4, <1>6, <2>3
    <3>2. QED
      BY <1>4, <1>6, <2>1, <2>3, <3>1
  <2>4. CASE g = h /\ j = Len(got[h]) + 1
    <3>1. i \in 1..Len(got[h])
      BY <1>4, <1>6, <2>4
    <3>2. got'[g][i] = got[h][i] /\ got'[g][j] = e /\ got[h][i].kind = e.kind
      BY <1>1, <1>4, <1>6, <2>4, <3>1
    <3>3. QED
      BY <1>1, <3>1, <3>2
  <2>5. QED
    BY <1>4, <2>2, <2>3, <2>4
<1>7. W!InOrder'
  BY <1>6 DEF W!InOrder
<1>8. QED
  BY <1>1, <1>3, <1>4, <1>5, <1>7

(* A request arrives in time, *)
LEMMA ArrivesKeeps ==
  ASSUME HooksInv, NEW r \in out, W!Arrives(r) PROVE HooksInv'
<1> DEFINE there == [r EXCEPT !.at = "there"]
           e == [kind |-> r.kind, n |-> r.n, late |-> FALSE]
<1>1. /\ r \in Requests /\ r.at = "out" /\ out \subseteq Requests
      /\ out' = (out \ {r}) \cup {there}
      /\ got' = [got EXCEPT ![r.hook] = Append(got[r.hook], e)]
      /\ UNCHANGED <<inner, file, channel, entries, frame, prev, late>>
  BY DEF HooksInv, HooksTypes, W!Arrives, W!Sees, W!disk, W!feeds
<1>2. /\ there \in Requests /\ there.hook = r.hook /\ there.kind = r.kind /\ there.n = r.n
      /\ there.at = "there"
  BY <1>1 DEF Requests
<1>3. r.hook \in Ids /\ e \in Events /\ e.kind = r.kind /\ e.n = r.n
  BY <1>1 DEF Requests, Events
<1> HIDE DEF there, e
<1>4. Past(e.kind, e.n)
  BY <1>3 DEF HooksInv, AllPast
<1>5. \A i \in 1..Len(got[r.hook]) : got[r.hook][i].kind = e.kind =>
        got[r.hook][i].n < e.n \/ (e.late /\ got[r.hook][i].n # e.n)
  BY <1>1, <1>3 DEF HooksInv, ComesLater
<1>6. /\ got' \in [Ids -> Seq(Events)]
      /\ \A g \in Ids \ {r.hook} : got'[g] = got[g]
      /\ Len(got[r.hook]) \in Nat /\ Len(got'[r.hook]) = Len(got[r.hook]) + 1
      /\ \A i \in 1..Len(got[r.hook]) : got'[r.hook][i] = got[r.hook][i]
      /\ got'[r.hook][Len(got[r.hook]) + 1] = e
      /\ \A g \in Ids : \A i \in 1..Len(got'[g]) : Past(got'[g][i].kind, got'[g][i].n)
      /\ W!InOrder'
  BY <1>1, <1>3, <1>4, <1>5, SeesOneMore
<1>7. HooksTypes' /\ Rising'
  BY <1>1, <1>2, <1>6 DEF HooksInv, HooksTypes, Rising
<1>8. \A what, n : Past(what, n)' <=> Past(what, n)
  BY <1>1 DEF Past
<1>9. AllPast'
  <2>1. \A q \in out' \cup late' : Past(q.kind, q.n)
    BY <1>1, <1>2 DEF HooksInv, AllPast
  <2>2. QED
    BY <1>6, <1>8, <2>1 DEF AllPast
<1>10. OneRound'
  BY <1>1, <1>2 DEF HooksInv, OneRound
<1>11. ComesLater'
  <2>1. \A q \in out' : q.at = "out" => q \in out /\ q.hook # r.hook
    BY <1>1, <1>2 DEF HooksInv, OneRound
  <2>2. \A q \in out' : q.hook \in Ids
    BY <1>7 DEF HooksTypes, Requests
  <2>3. QED
    BY <1>6, <2>1, <2>2 DEF HooksInv, ComesLater
<1>12. NotSeen'
  <2> SUFFICES ASSUME NEW q \in late
               PROVE  /\ \A s \in out' : s.hook = q.hook /\ s.kind = q.kind => q.n < s.n
                      /\ \A i \in 1..Len(got'[q.hook]) :
                           ~(got'[q.hook][i].kind = q.kind /\ got'[q.hook][i].n = q.n)
    BY <1>1 DEF NotSeen
  <2>1. q.hook \in Ids
    BY EventsAreNumbered DEF HooksInv
  <2>2. \A s \in out' : s.hook = q.hook /\ s.kind = q.kind => q.n < s.n
    BY <1>1, <1>2 DEF HooksInv, NotSeen
  <2>3. ~(r.hook = q.hook /\ r.kind = q.kind /\ r.n = q.n)
    BY EventsAreNumbered DEF HooksInv, NotSeen
  <2>4. ASSUME NEW i \in 1..Len(got'[q.hook])
        PROVE  ~(got'[q.hook][i].kind = q.kind /\ got'[q.hook][i].n = q.n)
    <3> \A k \in 1..Len(got[q.hook]) : ~(got[q.hook][k].kind = q.kind /\ got[q.hook][k].n = q.n)
      BY DEF HooksInv, NotSeen
    <3>1. CASE q.hook # r.hook
      BY <1>6, <2>1, <3>1
    <3>2. CASE q.hook = r.hook /\ i \in 1..Len(got[r.hook])
      BY <1>6, <3>2
    <3>3. CASE q.hook = r.hook /\ i = Len(got[r.hook]) + 1
      BY <1>3, <1>6, <2>3, <3>3
    <3>4. QED
      BY <1>6, <3>1, <3>2, <3>3
  <2>5. QED
    BY <2>2, <2>4
<1>13. QED
  BY <1>6, <1>7, <1>9, <1>10, <1>11, <1>12 DEF HooksInv

(* or late, *)
LEMMA ArrivesLateKeeps ==
  ASSUME HooksInv, NEW r \in late, W!ArrivesLate(r) PROVE HooksInv'
<1> DEFINE e == [kind |-> r.kind, n |-> r.n, late |-> TRUE]
<1>1. /\ late' = late \ {r} /\ late \subseteq Posts
      /\ got' = [got EXCEPT ![r.hook] = Append(got[r.hook], e)]
      /\ UNCHANGED <<inner, file, channel, entries, frame, prev, out>>
  BY DEF HooksInv, HooksTypes, W!ArrivesLate, W!Sees, W!disk, W!feeds
<1>2. r.hook \in Ids /\ e \in Events /\ e.kind = r.kind /\ e.n = r.n /\ e.late
  BY <1>1 DEF Posts, Events
<1> HIDE DEF e
<1>3. Past(e.kind, e.n)
  BY <1>2 DEF HooksInv, AllPast
<1>4. \A i \in 1..Len(got[r.hook]) : got[r.hook][i].kind = e.kind =>
        got[r.hook][i].n < e.n \/ (e.late /\ got[r.hook][i].n # e.n)
  BY <1>2 DEF HooksInv, NotSeen
<1>5. /\ got' \in [Ids -> Seq(Events)]
      /\ \A g \in Ids \ {r.hook} : got'[g] = got[g]
      /\ Len(got[r.hook]) \in Nat /\ Len(got'[r.hook]) = Len(got[r.hook]) + 1
      /\ \A i \in 1..Len(got[r.hook]) : got'[r.hook][i] = got[r.hook][i]
      /\ got'[r.hook][Len(got[r.hook]) + 1] = e
      /\ \A g \in Ids : \A i \in 1..Len(got'[g]) : Past(got'[g][i].kind, got'[g][i].n)
      /\ W!InOrder'
  BY <1>1, <1>2, <1>3, <1>4, SeesOneMore
<1>6. HooksTypes' /\ Rising'
  BY <1>1, <1>5 DEF HooksInv, HooksTypes, Rising
<1>7. \A what, n : Past(what, n)' <=> Past(what, n)
  BY <1>1 DEF Past
<1>8. AllPast'
  BY <1>1, <1>5, <1>7 DEF HooksInv, AllPast
<1>9. OneRound'
  BY <1>1 DEF HooksInv, OneRound
<1>10. ComesLater'
  <2> SUFFICES ASSUME NEW q \in out, q.at = "out", NEW i \in 1..Len(got'[q.hook]),
                      got'[q.hook][i].kind = q.kind
               PROVE  got'[q.hook][i].n < q.n
    BY <1>1 DEF ComesLater
  <2>1. q.hook \in Ids
    BY EventsAreNumbered DEF HooksInv
  <2>2. CASE i \in 1..Len(got[q.hook])
    BY <1>5, <2>1, <2>2 DEF HooksInv, ComesLater
  <2>3. CASE q.hook = r.hook /\ i = Len(got[r.hook]) + 1
    BY <1>2, <1>5, <2>3 DEF HooksInv, NotSeen
  <2>4. QED
    BY <1>5, <2>1, <2>2, <2>3
<1>11. NotSeen'
  <2> SUFFICES ASSUME NEW q \in late \ {r}
               PROVE  /\ \A s \in out : s.hook = q.hook /\ s.kind = q.kind => q.n < s.n
                      /\ \A i \in 1..Len(got'[q.hook]) :
                           ~(got'[q.hook][i].kind = q.kind /\ got'[q.hook][i].n = q.n)
    BY <1>1 DEF NotSeen
  <2>1. q.hook \in Ids
    BY EventsAreNumbered DEF HooksInv
  <2>2. ~(r.hook = q.hook /\ r.kind = q.kind /\ r.n = q.n)
    BY <1>1 DEF Posts
  <2>3. ASSUME NEW i \in 1..Len(got'[q.hook])
        PROVE  ~(got'[q.hook][i].kind = q.kind /\ got'[q.hook][i].n = q.n)
    <3> \A k \in 1..Len(got[q.hook]) : ~(got[q.hook][k].kind = q.kind /\ got[q.hook][k].n = q.n)
      BY DEF HooksInv, NotSeen
    <3>1. CASE q.hook # r.hook
      BY <1>5, <2>1, <3>1
    <3>2. CASE q.hook = r.hook /\ i \in 1..Len(got[r.hook])
      BY <1>5, <3>2
    <3>3. CASE q.hook = r.hook /\ i = Len(got[r.hook]) + 1
      BY <1>2, <1>5, <2>2, <3>3
    <3>4. QED
      BY <1>5, <3>1, <3>2, <3>3
  <2>4. QED
    BY <2>3 DEF HooksInv, NotSeen
<1>12. QED
  BY <1>5, <1>6, <1>8, <1>9, <1>10, <1>11 DEF HooksInv

(* What is given up on, if it did not arrive yet, may come late. *)
LEMMA GivenUp ==
  ASSUME HooksInv, NEW rs \in SUBSET out, late' = late \cup W!Abandoned(rs), out' = out \ rs,
         UNCHANGED got
  PROVE  /\ late' \subseteq Posts /\ NotSeen'
         /\ \A r \in late' : r \in late \/ \E q \in out : r.kind = q.kind /\ r.n = q.n
<1>1. ASSUME NEW r \in late' \ late
      PROVE  \E q \in rs : /\ q.at = "out" /\ r = [hook |-> q.hook, kind |-> q.kind, n |-> q.n]
                           /\ r.hook = q.hook /\ r.kind = q.kind /\ r.n = q.n
  BY <1>1 DEF W!Abandoned
<1>2. late' \subseteq Posts
  BY <1>1 DEF HooksInv, HooksTypes, Requests, Posts
<1>3. ASSUME NEW r \in late'
      PROVE  /\ \A q \in out' : q.hook = r.hook /\ q.kind = r.kind => r.n < q.n
             /\ \A i \in 1..Len(got[r.hook]) :
                  ~(got[r.hook][i].kind = r.kind /\ got[r.hook][i].n = r.n)
  <2>1. CASE r \in late
    BY <2>1 DEF HooksInv, NotSeen
  <2>2. CASE r \notin late
    <3>1. PICK q \in rs : /\ q.at = "out"
                          /\ r.hook = q.hook /\ r.kind = q.kind /\ r.n = q.n
      BY <1>1, <2>2
    <3>2. q.hook \in Ids /\ q.n \in Nat /\ q \in out
      BY EventsAreNumbered DEF HooksInv
    <3>3. \A s \in out' : s.hook # q.hook
      BY <3>2 DEF HooksInv, OneRound
    <3>4. \A i \in 1..Len(got[q.hook]) :
            got[q.hook][i].kind = q.kind => got[q.hook][i].n < q.n /\ got[q.hook][i].n \in Nat
      BY <3>1, <3>2, EventsAreNumbered DEF HooksInv, ComesLater
    <3>5. QED
      BY <3>1, <3>2, <3>3, <3>4
  <2>3. QED
    BY <2>1, <2>2
<1>4. NotSeen'
  BY <1>3 DEF NotSeen
<1>5. QED
  BY <1>1, <1>2, <1>4

(* A request is answered, fails or times out. *)
LEMMA SettlesKeeps ==
  ASSUME HooksInv, NEW r \in out, W!Settles(r) PROVE HooksInv'
<1>1. /\ out' = out \ {r} /\ late' = late \cup W!Abandoned({r})
      /\ UNCHANGED <<inner, file, channel, entries, frame, prev, got>>
  BY DEF W!Settles, W!disk, W!feeds
<1>2. /\ late' \subseteq Posts /\ NotSeen'
      /\ \A q \in late' : q \in late \/ \E s \in out : q.kind = s.kind /\ q.n = s.n
  BY <1>1, GivenUp
<1>3. HooksTypes' /\ Rising'
  BY <1>1, <1>2 DEF HooksInv, HooksTypes, Rising
<1>4. AllPast'
  <2>1. ASSUME NEW q \in late' PROVE Past(q.kind, q.n)
    BY <1>2, <2>1 DEF HooksInv, AllPast
  <2>2. \A what, n : Past(what, n)' <=> Past(what, n)
    BY <1>1 DEF Past
  <2>3. QED
    BY <1>1, <2>1, <2>2 DEF HooksInv, AllPast
<1>5. OneRound' /\ ComesLater' /\ W!InOrder'
  BY <1>1 DEF HooksInv, OneRound, ComesLater, W!InOrder
<1>6. QED
  BY <1>2, <1>3, <1>4, <1>5 DEF HooksInv

(* A daemon starts again: the channel and the round are new, the receivers are not. *)
LEMMA RestartsKeeps ==
  ASSUME HooksInv, W!Restarts PROVE HooksInv'
<1>1. /\ inner' = IF file = W!Torn THEN {} ELSE file
      /\ channel' = <<>> /\ prev' = frame /\ out' = out \ out
      /\ late' = late \cup W!Abandoned(out)
      /\ UNCHANGED <<file, entries, frame, got>>
  BY DEF W!Restarts
<1>2. /\ late' \subseteq Posts /\ NotSeen'
      /\ \A q \in late' : q \in late \/ \E s \in out : q.kind = s.kind /\ q.n = s.n
  BY <1>1, GivenUp
<1>3. HooksTypes' /\ Rising'
  BY <1>1, <1>2 DEF HooksInv, HooksTypes, Rising
<1>4. ASSUME NEW what, NEW n \in Nat, Past(what, n) PROVE Past(what, n)'
  BY <1>1, <1>4 DEF HooksInv, HooksTypes, Rising, Past
<1>5. AllPast'
  <2>1. ASSUME NEW q \in late' PROVE q.n \in Nat /\ Past(q.kind, q.n)
    BY <1>2, <2>1 DEF HooksInv, AllPast, Posts
  <2>2. QED
    BY <1>1, <1>4, <2>1, EventsAreNumbered DEF HooksInv, AllPast
<1>6. OneRound' /\ ComesLater' /\ W!InOrder'
  BY <1>1 DEF HooksInv, OneRound, ComesLater, W!InOrder
<1>7. QED
  BY <1>2, <1>3, <1>5, <1>6 DEF HooksInv

(* One step per action of Hooks. *)
LEMMA HooksStep ==
  ASSUME W!HooksAssumption, HooksInv, W!Next PROVE HooksInv'
<1>1. ASSUME NEW h \in Ids, W!Adds(h) \/ W!Removes(h) PROVE HooksInv'
  <2>1. /\ HooksTypes' /\ UNCHANGED <<channel, entries, prev, out, late, got>> /\ frame <= frame'
    BY <1>1 DEF W!Adds, W!Removes, W!Saves, W!feeds, W!wire, HooksInv, HooksTypes
  <2>2. QED
    BY <2>1, AsideKeeps
<1>2. CASE W!SaveEnds \/ W!Frame
  <2>1. /\ HooksTypes' /\ UNCHANGED <<channel, entries, prev, out, late, got>> /\ frame <= frame'
    BY <1>2 DEF W!SaveEnds, W!Frame, W!feeds, W!disk, W!wire, HooksInv, HooksTypes
  <2>2. QED
    BY <2>1, AsideKeeps
<1>3. QED
  BY <1>1, <1>2, EntryKeeps, TakesEntryKeeps, TakesFrameKeeps, ArrivesKeeps, ArrivesLateKeeps, SettlesKeeps,
     RestartsKeeps DEF W!Next, W!Run, W!TimesOut

(* A receiver sees nothing twice, and an older event after a newer one of its
   stream only if the sender had given up on it before it arrived (hooks.rs: run
   awaits every delivery of an event, or its timeout, before it takes the next). *)
THEOREM ReceiversSeeOrder ==
  ASSUME W!HooksAssumption PROVE MCSpec => []InOrder
<1>1. MCInit => HooksInv
  BY HooksStart DEF MCInit
<1>2. HooksInv /\ [MCNext]_<<part, relay, handoff, hooks>> => HooksInv'
  <2>1. ASSUME HooksInv, UNCHANGED hooks PROVE HooksInv'
    BY <2>1 DEF hooks, HooksInv, HooksTypes, Rising, AllPast, Past, OneRound, ComesLater,
       NotSeen, W!InOrder
  <2>2. ASSUME HooksInv, MCNext PROVE HooksInv'
    BY <2>1, <2>2, HooksStep DEF MCNext
  <2>3. QED
    BY <2>1, <2>2
<1>3. HooksInv => InOrder
  BY DEF HooksInv, InOrder
<1>4. QED
  BY <1>1, <1>2, <1>3, PTL DEF MCSpec

-----------------------------------------------------------------------------
(* An element of a list, and one that is there once at most. *)
In(x, q)   == \E i \in 1..Len(q) : q[i] = x
Once(x, q) == \A i, j \in 1..Len(q) : q[i] = x /\ q[j] = x => i = j

-----------------------------------------------------------------------------
(* Nothing is in an empty list. *)
LEMMA InNone ==
  ASSUME NEW x PROVE ~In(x, <<>>) /\ Once(x, <<>>)
BY DEF In, Once

(* A list with a new last element. *)
Longer(t, q, e) == t = Append(q, e)

LEMMA InLonger ==
  ASSUME NEW E, NEW q \in Seq(E), NEW e \in E, NEW t, Longer(t, q, e)
  PROVE  /\ t \in Seq(E) /\ Len(q) \in Nat /\ Len(t) = Len(q) + 1
         /\ t[Len(t)] = e /\ \A i \in 1..Len(q) : t[i] = q[i]
         /\ \A x : In(x, t) <=> In(x, q) \/ x = e
         /\ \A x : Once(x, q) /\ (x = e => ~In(x, q)) => Once(x, t)
<1>1. /\ t \in Seq(E) /\ Len(q) \in Nat /\ Len(t) = Len(q) + 1
      /\ t[Len(t)] = e /\ \A i \in 1..Len(q) : t[i] = q[i]
  BY AppendProperties DEF Longer
<1>2. \A i \in 1..Len(t) : i \in 1..Len(q) \/ i = Len(t)
  BY <1>1
<1>3. Len(t) \in 1..Len(t) /\ \A i \in 1..Len(q) : i \in 1..Len(t)
  BY <1>1
<1>4. ASSUME NEW x PROVE In(x, t) <=> In(x, q) \/ x = e
  BY <1>1, <1>2, <1>3 DEF In
<1>5. ASSUME NEW x, Once(x, q), x = e => ~In(x, q) PROVE Once(x, t)
  BY <1>1, <1>2, <1>5 DEF In, Once
<1>6. QED
  BY <1>1, <1>4, <1>5

(* A list without its first element. *)
LEMMA InShorter ==
  ASSUME NEW E, NEW q \in Seq(E), q # <<>>, NEW t, t = Tail(q)
  PROVE  /\ t \in Seq(E) /\ Len(q) \in Nat /\ Len(q) >= 1 /\ Len(t) = Len(q) - 1
         /\ Head(q) = q[1] /\ q[1] \in E
         /\ \A i \in 1..Len(t) : i + 1 \in 1..Len(q) /\ t[i] = q[i + 1]
         /\ \A x : In(x, q) <=> In(x, t) \/ x = q[1]
         /\ \A x : Once(x, q) => Once(x, t) /\ (x = q[1] => ~In(x, t))
<1>1. /\ t \in Seq(E) /\ Len(q) \in Nat /\ Len(q) >= 1 /\ Len(t) = Len(q) - 1
      /\ Head(q) = q[1] /\ q[1] \in E
      /\ \A i \in 1..Len(t) : t[i] = q[i + 1]
  OBVIOUS
<1>2. /\ 1 \in 1..Len(q)
      /\ \A i \in 1..Len(t) : i + 1 \in 1..Len(q) /\ i + 1 # 1
      /\ \A i \in 1..Len(q) : i = 1 \/ \E j \in 1..Len(t) : j + 1 = i
  <2>1. \A i \in 1..Len(q) : i # 1 => i - 1 \in 1..Len(t) /\ (i - 1) + 1 = i
    BY <1>1
  <2>2. QED
    BY <1>1, <2>1
<1>3. ASSUME NEW x PROVE In(x, q) <=> In(x, t) \/ x = q[1]
  BY <1>1, <1>2 DEF In
<1>4. ASSUME NEW x, Once(x, q) PROVE Once(x, t) /\ (x = q[1] => ~In(x, t))
  <2>1. ASSUME NEW i \in 1..Len(t), NEW j \in 1..Len(t), t[i] = x, t[j] = x PROVE i = j
    <3>1. i + 1 \in 1..Len(q) /\ j + 1 \in 1..Len(q) /\ q[i + 1] = x /\ q[j + 1] = x
      BY <1>1, <1>2, <2>1
    <3>2. i + 1 = j + 1
      BY <1>4, <3>1 DEF Once
    <3>3. QED
      BY <3>2
  <2>2. ASSUME NEW i \in 1..Len(t), t[i] = x, x = q[1] PROVE FALSE
    <3>1. i + 1 \in 1..Len(q) /\ q[i + 1] = x /\ i + 1 # 1
      BY <1>1, <1>2, <2>2
    <3>2. QED
      BY <1>2, <1>4, <2>2, <3>1 DEF Once
  <2>3. QED
    BY <2>1, <2>2 DEF In, Once
<1>5. QED
  BY <1>1, <1>2, <1>3, <1>4

(* Two lists, one after the other. *)
LEMMA Joined ==
  ASSUME NEW E, NEW u \in Seq(E), NEW v \in Seq(E), NEW w, w = u \o v
  PROVE  /\ w \in Seq(E) /\ Len(u) \in Nat /\ Len(v) \in Nat /\ Len(w) = Len(u) + Len(v)
         /\ \A i \in 1..Len(u) : w[i] = u[i]
         /\ \A i \in 1..Len(v) : w[Len(u) + i] = v[i]
BY ConcatProperties

(* Some of a list, from the first or up to the last. *)
LEMMA InSome ==
  ASSUME NEW E, NEW q \in Seq(E), NEW a \in Int, NEW b \in Int, 1 <= a, b <= Len(q),
         NEW t, t = SubSeq(q, a, b)
  PROVE  /\ t \in Seq(E)
         /\ \A x : In(x, t) => In(x, q)
         /\ \A x : Once(x, q) => Once(x, t)
<1>1. Len(q) \in Nat
  OBVIOUS
<1>2. \A i \in a..b : q[i] \in E
  BY <1>1, ElementOfSeq
<1>3. /\ t \in Seq(E)
      /\ Len(t) = IF a <= b THEN b - a + 1 ELSE 0
      /\ \A i \in 1 .. b - a + 1 : t[i] = q[a + i - 1]
  BY <1>1, <1>2
<1>4. ASSUME NEW i \in 1..Len(t)
      PROVE  a + i - 1 \in 1..Len(q) /\ t[i] = q[a + i - 1]
  <2>1. i \in 1 .. b - a + 1 /\ a + i - 1 \in 1..Len(q)
    BY <1>1, <1>3
  <2>2. QED
    BY <1>3, <2>1
<1>5. ASSUME NEW x, Once(x, q) PROVE Once(x, t)
  <2>1. ASSUME NEW i \in 1..Len(t), NEW j \in 1..Len(t), t[i] = x, t[j] = x PROVE i = j
    <3>1. a + i - 1 = a + j - 1
      BY <1>4, <1>5, <2>1 DEF Once
    <3>2. QED
      BY <3>1
  <2>2. QED
    BY <2>1 DEF Once
<1>6. QED
  BY <1>3, <1>4, <1>5 DEF In

(* A list without one of its elements. *)
LEMMA InWithout ==
  ASSUME NEW E, NEW q \in Seq(E), NEW n \in 1..Len(q), NEW t, t = R!RemoveAt(q, n)
  PROVE  /\ t \in Seq(E) /\ Len(q) \in Nat /\ Len(t) = Len(q) - 1
         /\ \A x : In(x, t) => In(x, q)
         /\ \A x : In(x, q) => In(x, t) \/ x = q[n]
         /\ \A x : Once(x, q) => Once(x, t) /\ (x = q[n] => ~In(x, t))
         /\ n # Len(q) => t # <<>> /\ t[Len(t)] = q[Len(q)]
<1>1. n \in Nat /\ n >= 1 /\ Len(q) \in Nat /\ n <= Len(q)
  OBVIOUS
<1>2. PICK u, v : u = SubSeq(q, 1, n - 1) /\ v = SubSeq(q, n + 1, Len(q)) /\ t = u \o v
  BY DEF R!RemoveAt
<1>3. u \in Seq(E) /\ Len(u) = n - 1 /\ \A j \in 1..(n - 1) : u[j] = q[j]
  BY <1>1, <1>2
<1>4. v \in Seq(E) /\ Len(v) = Len(q) - n /\ \A j \in 1..(Len(q) - n) : v[j] = q[n + j]
  BY <1>1, <1>2
<1>5. /\ t \in Seq(E) /\ Len(t) = Len(u) + Len(v)
      /\ \A j \in 1..Len(u) : t[j] = u[j]
      /\ \A j \in 1..Len(v) : t[Len(u) + j] = v[j]
  <2>1. u \in Seq(E) /\ v \in Seq(E) /\ t = u \o v
    BY <1>2, <1>3, <1>4
  <2>2. QED
    BY <2>1, Joined
<1>6. Len(t) = Len(q) - 1
  BY <1>1, <1>3, <1>4, <1>5
<1>7. ASSUME NEW j \in 1..(n - 1) PROVE t[j] = q[j] /\ j \in 1..Len(q) /\ j # n /\ j \in 1..Len(t)
  BY <1>1, <1>3, <1>5, <1>6
<1>8. ASSUME NEW j \in n..(Len(q) - 1)
      PROVE t[j] = q[j + 1] /\ j + 1 \in 1..Len(q) /\ j + 1 # n /\ j \in 1..Len(t)
  <2>1. PICK m \in 1..Len(v) : m = j - (n - 1)
    BY <1>1, <1>4
  <2>2. t[j] = v[m] /\ v[m] = q[n + m] /\ n + m = j + 1
    BY <1>1, <1>3, <1>4, <1>5, <2>1
  <2>3. QED
    BY <1>1, <1>6, <2>2
<1>9. \A j \in 1..Len(t) : j \in 1..(n - 1) \/ j \in n..(Len(q) - 1)
  BY <1>1, <1>6
<1>10. ASSUME NEW x, In(x, t) PROVE In(x, q)
  BY <1>7, <1>8, <1>9, <1>10 DEF In
<1>11. ASSUME NEW x, In(x, q) PROVE In(x, t) \/ x = q[n]
  <2>1. PICK i \in 1..Len(q) : q[i] = x
    BY <1>11 DEF In
  <2>2. CASE i < n
    <3>1. i \in 1..(n - 1)
      BY <1>1, <2>2
    <3>2. QED
      BY <1>7, <2>1, <3>1 DEF In
  <2>3. CASE i = n
    BY <2>1, <2>3
  <2>4. CASE i > n
    <3>1. i - 1 \in n..(Len(q) - 1) /\ (i - 1) + 1 = i
      BY <1>1, <2>4
    <3>2. t[i - 1] = x /\ i - 1 \in 1..Len(t)
      BY <1>8, <2>1, <3>1
    <3>3. QED
      BY <3>2 DEF In
  <2>5. QED
    BY <1>1, <2>2, <2>3, <2>4
<1>12. ASSUME NEW x, Once(x, q) PROVE Once(x, t) /\ (x = q[n] => ~In(x, t))
  <2>1. ASSUME NEW i \in 1..Len(t), t[i] = x
        PROVE \E k \in 1..Len(q) : q[k] = x /\ k # n /\ k = IF i < n THEN i ELSE i + 1
    <3>1. CASE i \in 1..(n - 1)
      BY <1>7, <2>1, <3>1
    <3>2. CASE i \in n..(Len(q) - 1)
      BY <1>8, <2>1, <3>2
    <3>3. QED
      BY <1>9, <3>1, <3>2
  <2>2. ASSUME NEW i \in 1..Len(t), NEW j \in 1..Len(t), t[i] = x, t[j] = x PROVE i = j
    <3>1. (IF i < n THEN i ELSE i + 1) = (IF j < n THEN j ELSE j + 1)
      BY <1>12, <2>1, <2>2 DEF Once
    <3>2. QED
      BY <1>1, <3>1
  <2>3. ASSUME NEW i \in 1..Len(t), t[i] = x, x = q[n] PROVE FALSE
    BY <1>12, <2>1, <2>3 DEF Once
  <2>4. QED
    BY <2>2, <2>3 DEF In, Once
<1>13. ASSUME n # Len(q) PROVE t # <<>> /\ t[Len(t)] = q[Len(q)]
  <2>1. Len(q) - 1 \in n..(Len(q) - 1) /\ (Len(q) - 1) + 1 = Len(q)
    BY <1>1, <1>13
  <2>2. t[Len(q) - 1] = q[Len(q)] /\ Len(q) - 1 \in 1..Len(t)
    BY <1>8, <2>1
  <2>3. QED
    BY <1>6, <2>2
<1>14. QED
  BY <1>1, <1>5, <1>6, <1>10, <1>11, <1>12, <1>13
(***************************************************************************)
(* The relay.                                                              *)

(* Who is connected to whom. *)
Links ==
  /\ In(R!Exited, up) => ~alive
  /\ hand # R!Exited
  /\ alive => phase # "closed" /\ (link <=> phase = "open")
  /\ alive /\ ~link => up = <<>>
  /\ alive /\ link => rest = <<>>
  /\ taking => ~link
  /\ phase = "starting" => sess.perms = <<>> /\ sess.quests = <<>> /\ sess.out = <<>>
  /\ phase = "dropped" => "dropped" \in mishap

(* A replay is of what the holder has, unless something crossed the connection. *)
SnapIsFresh ==
  "raced" \notin mishap =>
    /\ hand # R!Nothing => ~link /\ ~taking
    /\ taking => snap = buffer

(* A request is asked once: before that, it is nowhere. *)
Nowhere(r) ==
  /\ ~In(R!Ask(r), buffer) /\ ~In(R!Ask(r), snap) /\ ~In(R!Ask(r), up) /\ hand # R!Ask(r)
  /\ ~In(r, sess.perms) /\ ~In(r, sess.quests)
  /\ ~In(R!Answer(r), sess.out) /\ ~In(R!Answer(r), rest)
  /\ heard[r] = 0 /\ r \notin await

AskedOnce ==
  \A r \in R!Requests : Once(R!Ask(r), buffer) /\ (kind[r] = "none" => Nowhere(r))

(* A cancel, on its way or there, is known. *)
CancelsKnown ==
  cancelled \/ In(R!CancelIt, sess.out) \/ In(R!CancelIt, rest) => "cancelled" \in mishap

(* A request waited for is kept. *)
Kept == "overflowed" \notin mishap => \A r \in await : In(R!Ask(r), buffer)

(* A request is at one place: on its way to the session, pending, or with its
   answer on the way; and no answer was heard before.                        *)
Pending(r) == In(r, sess.perms) \/ In(r, sess.quests)

AtOnePlace(r) ==
  /\ Once(R!Ask(r), up) /\ Once(r, sess.perms) /\ Once(r, sess.quests)
  /\ Once(R!Answer(r), sess.out) /\ Once(R!Answer(r), rest)
  /\ ~(In(r, sess.perms) /\ In(r, sess.quests))
  /\ In(R!Ask(r), up) => ~Pending(r) /\ ~In(R!Answer(r), sess.out)
  /\ Pending(r) => ~In(R!Answer(r), sess.out)
  /\ In(R!Ask(r), up) \/ In(R!Ask(r), buffer) => heard[r] = 0
  /\ Pending(r) \/ In(R!Answer(r), sess.out) \/ In(R!Answer(r), rest) => heard[r] = 0

OnePlaceEach ==
  alive /\ "dropped" \notin mishap /\ "raced" \notin mishap => \A r \in R!Requests : AtOnePlace(r)

HeardOnce == "dropped" \notin mishap /\ "raced" \notin mishap => \A r \in R!Requests : heard[r] <= 1

(* What is to be answered yet is waited for. *)
Awaited ==
  alive /\ mishap = {} =>
    \A r \in R!Requests :
      In(R!Ask(r), buffer) \/ In(R!Ask(r), up) \/ Pending(r) => r \in await

(* What the agent asked last, the holder has last; the session will show it, shows
   it or has answered it.                                                        *)
Closing(f)  == f = R!Over(TRUE) \/ f = R!Over(FALSE)
Coming(r, q) == \E i \in 1..Len(q) : q[i] = R!Ask(r) /\ \A j \in (i + 1)..Len(q) : Closing(q[j])
Held(r) == In(r, sess.perms) /\ sess.activity = "attention" /\ \A i \in 1..Len(up) : Closing(up[i])
LastShows ==
  alive /\ "raced" \notin mishap =>
    \A r \in R!Requests : last = R!Ask(r) /\ r \in await /\ kind[r] = "permission" =>
      /\ buffer # <<>> /\ buffer[Len(buffer)] = R!Ask(r)
      /\ link => Coming(r, up) \/ Held(r) \/ In(R!Answer(r), sess.out)

RelayInv ==
  /\ R!TypeOK /\ Links /\ SnapIsFresh /\ AskedOnce /\ CancelsKnown
  /\ Kept /\ OnePlaceEach /\ HeardOnce /\ Awaited /\ LastShows

-----------------------------------------------------------------------------
LEMMA RelayStart == ASSUME R!RelayAssumption, R!Init PROVE RelayInv
<1>1. R!TypeOK
  <2>1. /\ sess.perms = <<>> /\ sess.quests = <<>> /\ sess.out = <<>>
        /\ sess = [perms |-> <<>>, quests |-> <<>>, out |-> <<>>, activity |-> "unknown"]
    BY DEF R!Init, R!NoSession
  <2>2. /\ <<>> \in Seq(R!Requests) /\ <<>> \in Seq(R!Line) /\ <<>> \in Seq(R!Wire)
        /\ <<>> \in Seq(R!Prompts) /\ <<>> \in Seq(R!Buffered) /\ Len(<<>>) = 0
    OBVIOUS
  <2>3. sess \in [perms : Seq(R!Requests), quests : Seq(R!Requests), out : Seq(R!Line),
                  activity : {"unknown", "active", "idle", "attention"}]
    BY <2>1, <2>2
  <2>4. /\ rounds \in Seq(R!Prompts) /\ buffer \in Seq(R!Buffered) /\ snap \in Seq(R!Buffered)
        /\ up \in Seq(R!Wire) /\ rest \in Seq(R!Line) /\ Len(buffer) = 0
    BY <2>2 DEF R!Init
  <2>5. MaxUpdates \in Nat /\ MaxEvents \in Nat /\ MaxBuffer \in Nat
    BY DEF R!RelayAssumption
  <2>6. /\ kind \in [R!Requests -> {"none", "permission", "question"}]
        /\ heard \in [R!Requests -> 0..2]
        /\ outcome \in [R!Prompts -> {"none", "waiting", "answered", "ended", "failed", "gone"}]
    BY DEF R!Init
  <2>7. /\ alive \in BOOLEAN /\ await \subseteq R!Requests /\ cancelled \in BOOLEAN
        /\ taking \in BOOLEAN /\ link \in BOOLEAN
    BY DEF R!Init
  <2>8. /\ updates \in 0..MaxUpdates /\ events \in 0..MaxEvents /\ Len(buffer) <= MaxBuffer
    BY <2>4, <2>5 DEF R!Init
  <2>9. /\ saved \in R!Policies /\ policy \in R!Policies /\ mishap \subseteq R!Troubles
        /\ phase \in {"starting", "open", "dropped", "closed"}
        /\ hand = R!Nothing /\ last = R!Nothing
    BY DEF R!Init, R!Policies
  <2>10. QED
    BY <2>3, <2>4, <2>6, <2>7, <2>8, <2>9 DEF R!TypeOK
<1>2. Links /\ SnapIsFresh /\ AskedOnce /\ CancelsKnown
  BY InNone DEF R!Init, R!NoSession, Links, SnapIsFresh, AskedOnce, Nowhere, CancelsKnown, R!Nothing, R!Exited, R!Ask
<1>3. Kept /\ OnePlaceEach /\ HeardOnce /\ Awaited
  BY InNone DEF R!Init, R!NoSession, Kept, OnePlaceEach, AtOnePlace, HeardOnce, Awaited, Pending
<1>4. LastShows
  BY DEF R!Init, LastShows
<1>5. QED
  BY <1>1, <1>2, <1>3, <1>4 DEF RelayInv

(* A replay of what the holder has. *)
LEMMA ReplayOf ==
  ASSUME NEW fs \in Seq(R!Buffered), NEW t, t = R!Replay(fs)
  PROVE  /\ t \in Seq(R!Wire) /\ ~In(R!Exited, t)
         /\ \A r \in R!Requests : In(R!Ask(r), t) => In(R!Ask(r), fs)
         /\ \A r \in R!Requests : Once(R!Ask(r), fs) => Once(R!Ask(r), t)
         /\ \A r \in R!Requests : fs # <<>> /\ fs[Len(fs)] = R!Ask(r) => Coming(r, t)
<1> DEFINE body == [i \in DOMAIN fs |-> IF fs[i] = R!Update THEN R!Past ELSE fs[i]]
           over == R!Over(\E i \in DOMAIN fs : fs[i] = R!Update)
<1>1. Len(fs) \in Nat /\ DOMAIN fs = 1..Len(fs) /\ \A i \in 1..Len(fs) : fs[i] \in R!Buffered
  BY ElementOfSeq
<1>2. /\ R!Begins \in R!Wire /\ R!Past \in R!Wire /\ over \in R!Wire /\ Closing(over)
      /\ R!Buffered \subseteq R!Wire
  BY DEF R!Wire, R!Frame, R!Over, Closing
<1>3. body \in Seq(R!Wire) /\ Len(body) = Len(fs)
  <2>1. \A i \in 1..Len(fs) : body[i] \in R!Wire
    BY <1>1, <1>2
  <2>2. body = [i \in 1..Len(fs) |-> body[i]]
    BY <1>1
  <2>3. QED
    BY <1>1, <2>1, <2>2
<1>4. \A i \in 1..Len(fs) : body[i] = IF fs[i] = R!Update THEN R!Past ELSE fs[i]
  BY <1>1
<1>5. PICK u, b : u = body /\ b = over /\ t = (<<R!Begins>> \o u) \o <<b>>
  BY DEF R!Replay
<1> HIDE DEF body, over
<1>6. PICK v : v = <<R!Begins>> \o u /\ t = v \o <<b>>
  BY <1>5
<1>7. /\ v \in Seq(R!Wire) /\ Len(v) = Len(fs) + 1 /\ v[1] = R!Begins
      /\ \A i \in 1..Len(fs) : v[1 + i] = u[i]
  <2>1. PICK w : w = <<R!Begins>>
    OBVIOUS
  <2>2. w \in Seq(R!Wire) /\ Len(w) = 1 /\ w[1] = R!Begins
    BY <1>2, <2>1
  <2>3. u \in Seq(R!Wire) /\ Len(u) = Len(fs) /\ v = w \o u
    BY <1>3, <1>5, <1>6, <2>1
  <2>4. /\ v \in Seq(R!Wire) /\ Len(v) = Len(w) + Len(u)
        /\ \A i \in 1..Len(w) : v[i] = w[i]
        /\ \A i \in 1..Len(u) : v[Len(w) + i] = u[i]
    <3>1. w \in Seq(R!Wire) /\ u \in Seq(R!Wire) /\ v = w \o u
      BY <2>2, <2>3
    <3>2. QED
      BY <3>1, Joined
  <2>5. QED
    BY <1>1, <2>2, <2>3, <2>4
<1>8. /\ t \in Seq(R!Wire) /\ Len(t) = Len(fs) + 2
      /\ t[1] = R!Begins /\ t[Len(fs) + 2] = b
      /\ \A i \in 1..Len(fs) : t[i + 1] = u[i]
  <2>1. PICK w : w = <<b>>
    OBVIOUS
  <2>2. w \in Seq(R!Wire) /\ Len(w) = 1 /\ w[1] = b
    BY <1>2, <1>5, <2>1
  <2>3. v \in Seq(R!Wire) /\ t = v \o w
    BY <1>6, <1>7, <2>1
  <2>4. /\ t \in Seq(R!Wire) /\ Len(t) = Len(v) + Len(w)
        /\ \A i \in 1..Len(v) : t[i] = v[i]
        /\ \A i \in 1..Len(w) : t[Len(v) + i] = w[i]
    <3>1. v \in Seq(R!Wire) /\ w \in Seq(R!Wire) /\ t = v \o w
      BY <2>2, <2>3
    <3>2. QED
      BY <3>1, Joined
  <2>5. \A i \in 1..Len(fs) : i + 1 \in 1..Len(v) /\ v[i + 1] = u[i]
    BY <1>1, <1>7
  <2>6. QED
    BY <1>1, <1>7, <2>2, <2>4, <2>5
<1>9. ASSUME NEW i \in 1..Len(t)
      PROVE  \/ i = 1 /\ t[i] = R!Begins
             \/ i = Len(fs) + 2 /\ Closing(t[i])
             \/ /\ i - 1 \in 1..Len(fs)
                /\ t[i] = IF fs[i - 1] = R!Update THEN R!Past ELSE fs[i - 1]
  <2>1. CASE i = 1
    BY <1>8, <2>1
  <2>2. CASE i = Len(fs) + 2
    BY <1>2, <1>5, <1>8, <2>2
  <2>3. CASE i # 1 /\ i # Len(fs) + 2
    <3>1. i - 1 \in 1..Len(fs) /\ (i - 1) + 1 = i
      BY <1>1, <1>8, <2>3
    <3>2. t[i] = u[i - 1]
      BY <1>8, <3>1
    <3>3. QED
      BY <1>4, <1>5, <3>1, <3>2
  <2>4. QED
    BY <2>1, <2>2, <2>3
<1>10. ~In(R!Exited, t)
  BY <1>1, <1>9 DEF In, Closing, R!Exited, R!Begins, R!Over, R!Past, R!Buffered, R!Update, R!Ask
<1>11. ASSUME NEW r \in R!Requests, NEW i \in 1..Len(t), t[i] = R!Ask(r)
       PROVE  i - 1 \in 1..Len(fs) /\ fs[i - 1] = R!Ask(r)
  BY <1>9, <1>11 DEF Closing, R!Begins, R!Over, R!Past, R!Ask
<1>12. ASSUME NEW r \in R!Requests, In(R!Ask(r), t) PROVE In(R!Ask(r), fs)
  BY <1>11, <1>12 DEF In
<1>13. ASSUME NEW r \in R!Requests, Once(R!Ask(r), fs) PROVE Once(R!Ask(r), t)
  <2>1. ASSUME NEW i \in 1..Len(t), NEW j \in 1..Len(t), t[i] = R!Ask(r), t[j] = R!Ask(r)
        PROVE  i = j
    <3>1. i - 1 = j - 1
      BY <1>11, <1>13, <2>1 DEF Once
    <3>2. QED
      BY <3>1
  <2>2. QED
    BY <2>1 DEF Once
<1>14. ASSUME NEW r \in R!Requests, fs # <<>>, fs[Len(fs)] = R!Ask(r) PROVE Coming(r, t)
  <2>1. Len(fs) \in 1..Len(fs) /\ Len(fs) + 1 \in 1..Len(t)
    BY <1>1, <1>8, <1>14
  <2>2. R!Ask(r) # R!Update
    BY DEF R!Ask, R!Update
  <2>3. t[Len(fs) + 1] = R!Ask(r)
    BY <1>4, <1>5, <1>8, <1>14, <2>1, <2>2
  <2>4. ASSUME NEW j \in ((Len(fs) + 1) + 1)..Len(t) PROVE Closing(t[j])
    <3>1. j = Len(fs) + 2
      BY <1>1, <1>8
    <3>2. QED
      BY <1>2, <1>5, <1>8, <3>1
  <2>5. QED
    BY <2>1, <2>3, <2>4 DEF Coming
<1>15. QED
  BY <1>8, <1>10, <1>12, <1>13, <1>14

(* Frames and lines are told apart. *)
LEMMA Words ==
  ASSUME NEW r \in R!Requests
  PROVE  /\ R!Ask(r) \in R!Buffered /\ R!Ask(r) \in R!Wire /\ R!Ask(r)[1] = "ask" /\ R!Ask(r)[2] = r
         /\ R!Ask(r) # R!Update /\ R!Ask(r) # R!Exited /\ R!Ask(r) # R!Nothing /\ ~Closing(R!Ask(r))
         /\ \A p : R!Ask(r) # R!Result(p)
         /\ \A q : R!Ask(r) = R!Ask(q) => r = q
         /\ R!Answer(r) \in R!Line /\ R!Answer(r) # R!CancelIt
         /\ \A q : R!Answer(r) = R!Answer(q) => r = q
         /\ \A p : R!Answer(r) # R!Prompt(p) /\ \A x \in R!Policies : R!Answer(r) # R!SetTo(x)
BY DEF R!Ask, R!Buffered, R!Wire, R!Frame, R!Update, R!Exited, R!Nothing, Closing, R!Over, R!Result,
   R!Answer, R!Line, R!CancelIt, R!Prompt, R!SetTo, R!Policies

(* The types of the lists. *)
LEMMA Lists ==
  ASSUME R!TypeOK
  PROVE  /\ buffer \in Seq(R!Buffered) /\ snap \in Seq(R!Buffered) /\ up \in Seq(R!Wire)
         /\ rest \in Seq(R!Line) /\ rounds \in Seq(R!Prompts)
         /\ sess.perms \in Seq(R!Requests) /\ sess.quests \in Seq(R!Requests)
         /\ sess.out \in Seq(R!Line)
         /\ sess.activity \in {"unknown", "active", "idle", "attention"}
BY DEF R!TypeOK

(* What the holder keeps of what the agent says. *)
LEMMA PushKeeps ==
  ASSUME R!RelayAssumption, R!TypeOK, NEW f \in R!Frame, buffer' = R!Push(buffer, f)
  PROVE  /\ buffer' \in Seq(R!Buffered) /\ Len(buffer') <= MaxBuffer
         /\ f \notin R!Buffered => buffer' = buffer
         /\ \A x : In(x, buffer') => In(x, buffer) \/ (x = f /\ f \in R!Buffered)
         /\ \A x : Once(x, buffer) /\ (x = f => ~In(x, buffer)) => Once(x, buffer')
         /\ f \in R!Buffered => buffer' # <<>> /\ buffer'[Len(buffer')] = f /\ In(f, buffer')
         /\ ~R!Overflows(f) => \A r \in await : In(R!Ask(r), buffer) => In(R!Ask(r), buffer')
<1>1. buffer \in Seq(R!Buffered) /\ Len(buffer) <= MaxBuffer /\ MaxBuffer \in Nat /\ MaxBuffer >= 1
  BY DEF R!TypeOK, R!RelayAssumption
<1>2. CASE f \notin R!Buffered
  <2>1. buffer' = buffer
    BY <1>2 DEF R!Push
  <2>2. QED
    BY <1>1, <1>2, <2>1
<1>3. CASE f \in R!Buffered /\ Len(buffer) < MaxBuffer
  <2>1. PICK q : q = buffer /\ buffer' = Append(q, f)
    BY <1>1, <1>3 DEF R!Push
  <2>2. q \in Seq(R!Buffered)
    BY <1>1, <2>1
  <2>3. PICK t : t = Append(q, f)
    OBVIOUS
  <2>4. /\ t \in Seq(R!Buffered) /\ Len(q) \in Nat /\ Len(t) = Len(q) + 1
        /\ t[Len(t)] = f
        /\ \A x : In(x, t) <=> In(x, q) \/ x = f
        /\ \A x : Once(x, q) /\ (x = f => ~In(x, q)) => Once(x, t)
    <3>1. f \in R!Buffered /\ q \in Seq(R!Buffered) /\ Longer(t, q, f)
      BY <1>3, <2>2, <2>3 DEF Longer
    <3>2. QED
      BY <3>1, InLonger
  <2>5. buffer' = t /\ t # <<>>
    BY <2>1, <2>3, <2>4
  <2>6. QED
    BY <1>1, <1>3, <2>1, <2>4, <2>5
<1>4. CASE f \in R!Buffered /\ Len(buffer) >= MaxBuffer
  <2>1. PICK q, m, t : q = buffer /\ m = Tail(q) /\ t = Append(m, f) /\ buffer' = t
    BY <1>1, <1>4 DEF R!Push
  <2>2. q \in Seq(R!Buffered) /\ q # <<>>
    BY <1>1, <1>4, <2>1
  <2>3. /\ m \in Seq(R!Buffered) /\ Len(q) \in Nat /\ Len(m) = Len(q) - 1 /\ Head(q) = q[1]
        /\ \A x : In(x, q) <=> In(x, m) \/ x = q[1]
        /\ \A x : Once(x, q) => Once(x, m)
    BY <2>1, <2>2, InShorter
  <2>4. m \in Seq(R!Buffered)
    BY <2>3
  <2>5. /\ t \in Seq(R!Buffered) /\ Len(m) \in Nat /\ Len(t) = Len(m) + 1
        /\ t[Len(t)] = f
        /\ \A x : In(x, t) <=> In(x, m) \/ x = f
        /\ \A x : Once(x, m) /\ (x = f => ~In(x, m)) => Once(x, t)
    <3>1. f \in R!Buffered /\ Longer(t, m, f)
      BY <1>4, <2>1 DEF Longer
    <3>2. QED
      BY <2>4, <3>1, InLonger
  <2>6. t # <<>> /\ Len(t) <= MaxBuffer
    BY <1>1, <2>1, <2>3, <2>5
  <2>7. ASSUME ~R!Overflows(f), NEW r \in await, In(R!Ask(r), q) PROVE In(R!Ask(r), t)
    <3>1. q[1] # R!Ask(r)
      BY <1>4, <2>1, <2>3, <2>7 DEF R!Overflows
    <3>2. QED
      BY <2>3, <2>5, <2>7, <3>1
  <2>8. QED
    BY <1>4, <2>1, <2>3, <2>5, <2>6, <2>7
<1>5. QED
  <2>1. Len(buffer) \in Nat
    BY <1>1
  <2>2. QED
    BY <1>1, <1>2, <1>3, <1>4, <2>1

(* What is sent on to the session, when there is a connection. *)
LEMMA UpGrows ==
  ASSUME R!TypeOK, NEW f \in R!Wire, up' = IF link THEN Append(up, f) ELSE up
  PROVE  /\ up' \in Seq(R!Wire)
         /\ ~link => up' = up
         /\ link => up' # <<>> /\ up'[Len(up')] = f
         /\ \A x : In(x, up') => In(x, up) \/ (x = f /\ link)
         /\ \A x : Once(x, up) /\ (x = f => ~In(x, up)) => Once(x, up')
<1>1. up \in Seq(R!Wire)
  BY Lists
<1>2. CASE link
  <2>1. PICK q, t : q = up /\ t = Append(q, f) /\ up' = t
    BY <1>2
  <2>2. q \in Seq(R!Wire)
    BY <1>1, <2>1
  <2>3. /\ t \in Seq(R!Wire) /\ Len(q) \in Nat /\ Len(t) = Len(q) + 1 /\ t[Len(t)] = f
        /\ \A x : In(x, t) <=> In(x, q) \/ x = f
        /\ \A x : Once(x, q) /\ (x = f => ~In(x, q)) => Once(x, t)
    <3>1. Longer(t, q, f)
      BY <2>1 DEF Longer
    <3>2. QED
      BY <2>2, <3>1, InLonger
  <2>4. t # <<>>
    BY <2>3
  <2>5. QED
    BY <1>2, <2>1, <2>3, <2>4
<1>3. CASE ~link
  BY <1>1, <1>3
<1>4. QED
  BY <1>2, <1>3

(* The agent says something: the holder keeps it and sends it on. *)
LEMMA SaysDoes ==
  ASSUME R!RelayAssumption, R!TypeOK, NEW f \in R!Buffered \cup {R!Result(p) : p \in R!Prompts},
         R!Says(f)
  PROVE  /\ alive /\ hand = R!Nothing /\ hand' = IF link THEN R!Nothing ELSE f
         /\ up' = (IF link THEN Append(up, f) ELSE up) /\ buffer' = R!Push(buffer, f)
         /\ last' = f /\ f \in R!Wire /\ f \in R!Frame
         /\ mishap \subseteq mishap' /\ mishap' \subseteq R!Troubles
         /\ (taking => "raced" \in mishap') /\ (R!Overflows(f) => "overflowed" \in mishap')
         /\ UNCHANGED <<taking, snap, link, rest, saved, phase, sess, policy, outcome, events>>
BY DEF R!Says, R!TypeOK, R!Wire, R!Frame, R!Troubles, R!session

LEMMA SpeaksKeeps ==
  ASSUME R!RelayAssumption, RelayInv,
         NEW f \in R!Buffered \cup {R!Result(p) : p \in R!Prompts}, R!Says(f),
         rounds' \in Seq(R!Prompts), cancelled' \in BOOLEAN, cancelled' => cancelled,
         updates' \in 0..MaxUpdates, UNCHANGED <<alive, heard>>,
         \/ /\ kind' = kind /\ \A r \in R!Requests : f # R!Ask(r)
            /\ await' = await \/ (await' = {} /\ (mishap = {} => await = {}))
         \/ \E r \in R!Requests, k \in {"permission", "question"} :
              /\ f = R!Ask(r) /\ kind[r] = "none"
              /\ kind' = [kind EXCEPT ![r] = k] /\ await' = await \cup {r}
  PROVE  RelayInv'
<1>1. R!TypeOK
  BY DEF RelayInv
<1>2. /\ alive /\ hand = R!Nothing /\ hand' = IF link THEN R!Nothing ELSE f
      /\ up' = (IF link THEN Append(up, f) ELSE up) /\ buffer' = R!Push(buffer, f)
      /\ last' = f /\ f \in R!Wire /\ f \in R!Frame
      /\ mishap \subseteq mishap' /\ mishap' \subseteq R!Troubles
      /\ (taking => "raced" \in mishap') /\ (R!Overflows(f) => "overflowed" \in mishap')
      /\ UNCHANGED <<taking, snap, link, rest, saved, phase, sess, policy, outcome, events>>
  BY <1>1, SaysDoes
<1>3. /\ buffer' \in Seq(R!Buffered) /\ Len(buffer') <= MaxBuffer
      /\ f \notin R!Buffered => buffer' = buffer
      /\ \A x : In(x, buffer') => In(x, buffer) \/ (x = f /\ f \in R!Buffered)
      /\ \A x : Once(x, buffer) /\ (x = f => ~In(x, buffer)) => Once(x, buffer')
      /\ f \in R!Buffered => buffer' # <<>> /\ buffer'[Len(buffer')] = f /\ In(f, buffer')
      /\ ~R!Overflows(f) => \A r \in await : In(R!Ask(r), buffer) => In(R!Ask(r), buffer')
  BY <1>1, <1>2, PushKeeps
<1>4. /\ up' \in Seq(R!Wire)
      /\ ~link => up' = up
      /\ link => up' # <<>> /\ up'[Len(up')] = f
      /\ \A x : In(x, up') => In(x, up) \/ (x = f /\ link)
      /\ \A x : Once(x, up) /\ (x = f => ~In(x, up)) => Once(x, up')
  BY <1>1, <1>2, UpGrows
<1>5. f # R!Exited /\ f # R!Nothing
  BY DEF R!Buffered, R!Update, R!Ask, R!Result, R!Exited, R!Nothing
<1>6. /\ \A r \in R!Requests : kind'[r] = "none" => kind[r] = "none"
      /\ kind' \in [R!Requests -> {"none", "permission", "question"}] /\ await' \subseteq R!Requests
      /\ \A r \in await' : r \in await \/ (f = R!Ask(r) /\ f \in R!Buffered)
      /\ \A r \in R!Requests : f = R!Ask(r) => kind[r] = "none" /\ kind'[r] # "none" /\ r \in await'
      /\ await \subseteq await' \/ (mishap = {} => await = {})
  <2>1. /\ kind \in [R!Requests -> {"none", "permission", "question"}]
        /\ await \subseteq R!Requests
    BY <1>1 DEF R!TypeOK
  <2>2. CASE /\ kind' = kind /\ \A r \in R!Requests : f # R!Ask(r)
             /\ await' = await \/ (await' = {} /\ (mishap = {} => await = {}))
    BY <2>1, <2>2
  <2>3. ASSUME NEW r \in R!Requests, NEW k \in {"permission", "question"},
               f = R!Ask(r), kind[r] = "none",
               kind' = [kind EXCEPT ![r] = k], await' = await \cup {r}
        PROVE  /\ \A q \in R!Requests : kind'[q] = "none" => kind[q] = "none"
               /\ kind' \in [R!Requests -> {"none", "permission", "question"}]
               /\ await' \subseteq R!Requests
               /\ \A q \in await' : q \in await \/ (f = R!Ask(q) /\ f \in R!Buffered)
               /\ \A q \in R!Requests :
                    f = R!Ask(q) => kind[q] = "none" /\ kind'[q] # "none" /\ q \in await'
               /\ await \subseteq await'
    <3>1. f \in R!Buffered /\ \A q : f = R!Ask(q) => q = r
      BY <2>3, Words
    <3>2. kind'[r] = k /\ \A q \in R!Requests : q # r => kind'[q] = kind[q]
      BY <2>1, <2>3
    <3>3. QED
      BY <2>1, <2>3, <3>1, <3>2
  <2>4. QED
    BY <2>2, <2>3
<1>7. R!TypeOK'
  <2>1. last' \in R!Buffered \cup {R!Result(p) : p \in R!Prompts} \cup {R!Nothing}
    BY <1>2
  <2>2. hand' \in R!Frame \cup {R!Nothing}
    BY <1>2
  <2>3. QED
    BY <1>1, <1>2, <1>3, <1>4, <1>6, <2>1, <2>2 DEF R!TypeOK
<1>8. Links'
  BY <1>2, <1>4, <1>5 DEF RelayInv, Links
<1>9. SnapIsFresh'
  BY <1>2 DEF RelayInv, SnapIsFresh
<1>10. AskedOnce'
  <2>1. ASSUME NEW r \in R!Requests PROVE Once(R!Ask(r), buffer')
    BY <1>3, <1>6 DEF RelayInv, AskedOnce, Nowhere
  <2>2. ASSUME NEW r \in R!Requests, kind'[r] = "none" PROVE Nowhere(r)'
    <3>1. Nowhere(r) /\ f # R!Ask(r)
      BY <1>6, <2>2 DEF RelayInv, AskedOnce
    <3>2. hand' # R!Ask(r)
      BY <1>2, <3>1, Words
    <3>3. r \notin await'
      BY <1>6, <3>1 DEF Nowhere
    <3>4. QED
      BY <1>2, <1>3, <1>4, <3>1, <3>2, <3>3 DEF Nowhere
  <2>3. QED
    BY <2>1, <2>2 DEF AskedOnce
<1>11. CancelsKnown'
  BY <1>2 DEF RelayInv, CancelsKnown
<1>12. Kept'
  BY <1>2, <1>3, <1>6 DEF RelayInv, Kept
<1>13. OnePlaceEach'
  <2>1. ASSUME alive', "dropped" \notin mishap', "raced" \notin mishap', NEW r \in R!Requests
        PROVE  AtOnePlace(r)'
    <3>1. AtOnePlace(r) /\ (f = R!Ask(r) => Nowhere(r))
      BY <1>2, <1>6, <2>1 DEF RelayInv, OnePlaceEach, AskedOnce
    <3>2. Pending(r)' = Pending(r)
      BY <1>2 DEF Pending
    <3>3. Nowhere(r) => ~Pending(r)
      BY DEF Nowhere, Pending
    <3>4. Once(R!Ask(r), up')
      BY <1>4, <3>1 DEF AtOnePlace, Nowhere
    <3>5. In(R!Ask(r), up') => ~Pending(r) /\ ~In(R!Answer(r), sess.out)
      BY <1>4, <3>1, <3>3 DEF AtOnePlace, Nowhere
    <3>6. In(R!Ask(r), up') \/ In(R!Ask(r), buffer') => heard[r] = 0
      <4>1. In(R!Ask(r), up) \/ In(R!Ask(r), buffer) \/ f = R!Ask(r) => heard[r] = 0
        BY <3>1 DEF AtOnePlace, Nowhere
      <4>2. QED
        BY <1>3, <1>4, <4>1
    <3>7. /\ UNCHANGED <<sess, rest>> /\ heard'[r] = heard[r]
          /\ Once(r, sess.perms) /\ Once(r, sess.quests)
          /\ Once(R!Answer(r), sess.out) /\ Once(R!Answer(r), rest)
          /\ ~(In(r, sess.perms) /\ In(r, sess.quests))
          /\ Pending(r) => ~In(R!Answer(r), sess.out)
          /\ Pending(r) \/ In(R!Answer(r), sess.out) \/ In(R!Answer(r), rest) => heard[r] = 0
      BY <1>2, <3>1 DEF AtOnePlace
    <3>8. QED
      BY <3>2, <3>4, <3>5, <3>6, <3>7 DEF AtOnePlace
  <2>2. QED
    BY <2>1 DEF OnePlaceEach
<1>14. HeardOnce'
  BY <1>2 DEF RelayInv, HeardOnce
<1>15. Awaited'
  <2>1. ASSUME mishap' = {}, NEW r \in R!Requests,
               In(R!Ask(r), buffer') \/ In(R!Ask(r), up') \/ Pending(r)'
        PROVE  r \in await'
    <3>1. mishap = {} /\ Pending(r)' = Pending(r)
      BY <1>2, <2>1 DEF Pending
    <3>2. In(R!Ask(r), buffer) \/ In(R!Ask(r), up) \/ Pending(r) => r \in await
      BY <1>2, <3>1 DEF RelayInv, Awaited
    <3>3. QED
      BY <1>3, <1>4, <1>6, <2>1, <3>1, <3>2
  <2>2. QED
    BY <2>1 DEF Awaited
<1>16. LastShows'
  <2>1. ASSUME NEW r \in R!Requests, f = R!Ask(r), link
        PROVE  Coming(r, up')
    <3>1. Len(up') \in 1..Len(up') /\ \A j \in (Len(up') + 1)..Len(up') : FALSE
      BY <1>4, <2>1
    <3>2. QED
      BY <1>4, <2>1, <3>1 DEF Coming
  <2>2. \A r \in R!Requests : f = R!Ask(r) => f \in R!Buffered
    BY Words
  <2>3. QED
    BY <1>2, <1>3, <2>1, <2>2 DEF LastShows
<1>17. QED
  BY <1>7, <1>8, <1>9, <1>10, <1>11, <1>12, <1>13, <1>14, <1>15, <1>16 DEF RelayInv

(* An update, a request or the end of a turn. *)
LEMMA AgentWorksKeeps == ASSUME R!RelayAssumption, RelayInv, R!AgentWorks PROVE RelayInv'
<1>1. /\ R!Says(R!Update) /\ updates < MaxUpdates /\ updates' = updates + 1
      /\ UNCHANGED <<alive, kind, await, heard, rounds, cancelled>>
  BY DEF R!AgentWorks
<1>2. updates' \in 0..MaxUpdates /\ rounds' \in Seq(R!Prompts) /\ cancelled' \in BOOLEAN
  BY <1>1 DEF RelayInv, R!TypeOK, R!RelayAssumption
<1>3. R!Update \in R!Buffered /\ \A r \in R!Requests : R!Update # R!Ask(r)
  BY DEF R!Buffered, R!Update, R!Ask
<1>4. QED
  BY <1>1, <1>2, <1>3, SpeaksKeeps

LEMMA AgentAsksKeeps ==
  ASSUME R!RelayAssumption, RelayInv, NEW r \in R!Requests, NEW k \in {"permission", "question"},
         R!AgentAsks(r, k)
  PROVE  RelayInv'
<1>1. /\ R!Says(R!Ask(r)) /\ kind[r] = "none"
      /\ kind' = [kind EXCEPT ![r] = k] /\ await' = await \cup {r}
      /\ UNCHANGED <<alive, heard, rounds, cancelled, updates>>
  BY DEF R!AgentAsks
<1>2. updates' \in 0..MaxUpdates /\ rounds' \in Seq(R!Prompts) /\ cancelled' \in BOOLEAN
  BY <1>1 DEF RelayInv, R!TypeOK
<1>3. R!Ask(r) \in R!Buffered
  BY Words
<1>4. QED
  BY <1>1, <1>2, <1>3, SpeaksKeeps

LEMMA TurnEndsKeeps == ASSUME R!RelayAssumption, RelayInv, R!TurnEnds PROVE RelayInv'
<1>1. /\ rounds # <<>> /\ await' = {} /\ cancelled' = FALSE
      /\ rounds' = Tail(rounds) /\ R!Says(R!Result(Head(rounds)))
      /\ UNCHANGED <<alive, kind, heard, updates>>
  BY DEF R!TurnEnds
<1>2. await = {} \/ cancelled
  BY DEF R!TurnEnds
<1>3. rounds' \in Seq(R!Prompts) /\ Head(rounds) \in R!Prompts
  BY <1>1, Lists DEF RelayInv
<1>4. mishap = {} => await = {}
  BY <1>2 DEF RelayInv, CancelsKnown
<1>5. updates' \in 0..MaxUpdates
  BY <1>1 DEF RelayInv, R!TypeOK
<1>6. PICK p \in R!Prompts : p = Head(rounds)
  BY <1>3
<1>7. R!Says(R!Result(p)) /\ \A r \in R!Requests : R!Result(p) # R!Ask(r)
  BY <1>1, <1>6 DEF R!Result, R!Ask
<1>8. QED
  BY <1>1, <1>3, <1>4, <1>5, <1>7, SpeaksKeeps

(* The rest of a line of the agent, when a connection was being taken. *)
LEMMA SendsOnKeeps == ASSUME R!RelayAssumption, RelayInv, R!SendsOn PROVE RelayInv'
<1>1. /\ hand # R!Nothing /\ hand' = R!Nothing
      /\ up' = IF link THEN Append(up, hand) ELSE up
      /\ UNCHANGED <<alive, kind, await, heard, rounds, cancelled, updates, buffer, taking, snap,
                     link, rest, saved, phase, sess, policy, outcome, events, last, mishap>>
  BY DEF R!SendsOn, R!agent, R!session
<1>2. R!TypeOK /\ hand \in R!Frame /\ hand \in R!Wire /\ hand # R!Exited
  BY <1>1 DEF RelayInv, Links, R!TypeOK, R!Wire
<1>3. PICK f \in R!Wire : f = hand /\ up' = IF link THEN Append(up, f) ELSE up
  BY <1>1, <1>2
<1>4. /\ up' \in Seq(R!Wire) /\ (~link => up' = up)
      /\ \A x : In(x, up') => In(x, up) \/ (x = f /\ link)
  BY <1>2, <1>3, UpGrows
<1>5. R!TypeOK'
  BY <1>1, <1>2, <1>4 DEF R!TypeOK
<1>6. R!Exited # R!Nothing /\ \A r \in R!Requests : R!Ask(r) # R!Nothing
  BY Words DEF R!Exited, R!Nothing
<1>7. Links'
  BY <1>1, <1>2, <1>3, <1>4, <1>6 DEF RelayInv, Links
<1>8. "raced" \notin mishap => ~link
  BY <1>1 DEF RelayInv, SnapIsFresh
<1>9. SnapIsFresh'
  BY <1>1 DEF RelayInv, SnapIsFresh
<1>10. AskedOnce'
  BY <1>1, <1>3, <1>4, <1>6 DEF RelayInv, AskedOnce, Nowhere
<1>11. CancelsKnown' /\ Kept' /\ HeardOnce'
  BY <1>1 DEF RelayInv, CancelsKnown, Kept, HeardOnce
<1>12. OnePlaceEach'
  <2>1. CASE "raced" \in mishap
    BY <1>1, <2>1 DEF OnePlaceEach
  <2>2. CASE "raced" \notin mishap
    <3>1. up' = up
      BY <1>4, <1>8, <2>2
    <3>2. QED
      BY <1>1, <3>1 DEF RelayInv, OnePlaceEach, AtOnePlace, Pending
  <2>3. QED
    BY <2>1, <2>2
<1>13. Awaited'
  <2>1. ASSUME mishap = {} PROVE up' = up
    BY <1>4, <1>8, <2>1
  <2>2. QED
    BY <1>1, <2>1 DEF RelayInv, Awaited, Pending
<1>14. LastShows'
  BY <1>1, <1>8 DEF RelayInv, LastShows
<1>15. QED
  BY <1>5, <1>7, <1>9, <1>10, <1>11, <1>12, <1>13, <1>14 DEF RelayInv

(* The agent ends: nobody waits any more. *)
LEMMA AgentExitsKeeps == ASSUME R!RelayAssumption, RelayInv, R!AgentExits PROVE RelayInv'
<1>1. /\ alive' = FALSE /\ await' = {} /\ rounds' = <<>> /\ cancelled' = FALSE /\ hand' = R!Nothing
      /\ up' = IF link THEN Append(up, R!Exited) ELSE up
      /\ events < MaxEvents /\ events' = events + 1
      /\ UNCHANGED <<kind, heard, updates, buffer, taking, snap, link, rest, saved, phase, sess,
                     policy, outcome, last, mishap>>
  BY DEF R!AgentExits, R!Happens, R!session
<1>2. R!TypeOK /\ R!Exited \in R!Wire
  BY DEF RelayInv, R!Wire, R!Frame
<1>3. /\ up' \in Seq(R!Wire) /\ (~link => up' = up)
      /\ \A x : In(x, up') => In(x, up) \/ (x = R!Exited /\ link)
  BY <1>1, <1>2, UpGrows
<1>4. R!TypeOK'
  <2>1. events' \in 0..MaxEvents /\ rounds' \in Seq(R!Prompts)
    <3>1. events \in 0..MaxEvents /\ MaxEvents \in Nat
      BY <1>2 DEF R!TypeOK, R!RelayAssumption
    <3>2. QED
      BY <1>1, <3>1
  <2>2. QED
    BY <1>1, <1>2, <1>3, <2>1 DEF R!TypeOK
<1>5. R!Exited # R!Nothing /\ \A r \in R!Requests : R!Ask(r) # R!Nothing /\ R!Ask(r) # R!Exited
  BY Words DEF R!Exited, R!Nothing
<1>6. Links' /\ SnapIsFresh'
  BY <1>1, <1>5 DEF RelayInv, Links, SnapIsFresh
<1>7. AskedOnce'
  BY <1>1, <1>3, <1>5 DEF RelayInv, AskedOnce, Nowhere
<1>8. CancelsKnown' /\ Kept' /\ HeardOnce'
  BY <1>1 DEF RelayInv, CancelsKnown, Kept, HeardOnce
<1>9. OnePlaceEach' /\ Awaited' /\ LastShows'
  BY <1>1 DEF OnePlaceEach, Awaited, LastShows
<1>10. QED
  BY <1>4, <1>6, <1>7, <1>8, <1>9 DEF RelayInv

(* A new connection begins with what the holder has. *)
LEMMA AttachReadsKeeps == ASSUME R!RelayAssumption, RelayInv, R!AttachReads PROVE RelayInv'
<1>1. /\ ~link /\ taking' = TRUE /\ snap' = buffer
      /\ mishap' = IF hand # R!Nothing THEN mishap \cup {"raced"} ELSE mishap
      /\ UNCHANGED <<alive, kind, await, heard, rounds, cancelled, updates, hand, buffer, link, up,
                     rest, saved, phase, sess, policy, outcome, events, last>>
  BY DEF R!AttachReads, R!agent, R!session
<1>2. R!TypeOK'
  BY <1>1 DEF RelayInv, R!TypeOK, R!Troubles
<1>3. mishap \subseteq mishap' /\ (mishap' = {} => mishap = {})
  BY <1>1
<1>4. Links' /\ SnapIsFresh'
  BY <1>1, <1>3 DEF RelayInv, Links, SnapIsFresh
<1>5. AskedOnce'
  BY <1>1 DEF RelayInv, AskedOnce, Nowhere
<1>6. CancelsKnown' /\ Kept' /\ HeardOnce'
  BY <1>1, <1>3 DEF RelayInv, CancelsKnown, Kept, HeardOnce
<1>7. OnePlaceEach'
  BY <1>1, <1>3 DEF RelayInv, OnePlaceEach, AtOnePlace, Pending
<1>8. Awaited'
  BY <1>1, <1>3 DEF RelayInv, Awaited, Pending
<1>9. LastShows'
  BY <1>1, <1>3 DEF RelayInv, LastShows
<1>10. QED
  BY <1>2, <1>4, <1>5, <1>6, <1>7, <1>8, <1>9 DEF RelayInv

(* The replay is sent: a session of a new daemon has nothing yet. *)
LEMMA AttachInstallsKeeps == ASSUME R!RelayAssumption, RelayInv, R!AttachInstalls PROVE RelayInv'
<1>1. /\ alive /\ taking /\ taking' = FALSE /\ snap' = <<>> /\ link' = TRUE
      /\ up' = R!Replay(snap) /\ rest' = <<>> /\ phase' = "open"
      /\ UNCHANGED <<alive, kind, await, heard, rounds, cancelled, updates, hand, buffer, saved,
                     sess, policy, outcome, events, last, mishap>>
  BY DEF R!AttachInstalls, R!agent
<1>2. R!TypeOK /\ snap \in Seq(R!Buffered)
  BY Lists DEF RelayInv
<1>3. PICK fs, t : fs \in Seq(R!Buffered) /\ fs = snap /\ t = R!Replay(fs) /\ up' = t
  BY <1>1, <1>2
<1>4. /\ t \in Seq(R!Wire) /\ ~In(R!Exited, t)
      /\ \A r \in R!Requests : In(R!Ask(r), t) => In(R!Ask(r), fs)
      /\ \A r \in R!Requests : Once(R!Ask(r), fs) => Once(R!Ask(r), t)
      /\ \A r \in R!Requests : fs # <<>> /\ fs[Len(fs)] = R!Ask(r) => Coming(r, t)
  <2>1. fs \in Seq(R!Buffered) /\ t = R!Replay(fs)
    BY <1>3
  <2>2. QED
    BY <2>1, ReplayOf
<1>5. R!TypeOK'
  <2>1. up' \in Seq(R!Wire) /\ snap' \in Seq(R!Buffered) /\ rest' \in Seq(R!Line)
    BY <1>1, <1>3, <1>4
  <2>2. QED
    BY <1>1, <1>2, <2>1 DEF R!TypeOK
<1>6. /\ phase = "starting" \/ "dropped" \in mishap
      /\ "raced" \notin mishap => hand = R!Nothing /\ snap = buffer
  BY <1>1, <1>2 DEF RelayInv, Links, SnapIsFresh, R!TypeOK
<1>7. Links' /\ SnapIsFresh'
  BY <1>1, <1>3, <1>4, <1>6 DEF RelayInv, Links, SnapIsFresh
<1>8. AskedOnce'
  BY <1>1, <1>3, <1>4, InNone DEF RelayInv, AskedOnce, Nowhere
<1>9. CancelsKnown' /\ Kept' /\ HeardOnce'
  BY <1>1, InNone DEF RelayInv, CancelsKnown, Kept, HeardOnce
<1>10. OnePlaceEach'
  <2>1. ASSUME "dropped" \notin mishap, "raced" \notin mishap, NEW r \in R!Requests
        PROVE  AtOnePlace(r)'
    <3>1. /\ AtOnePlace(r) /\ Once(R!Ask(r), buffer) /\ snap = buffer
          /\ sess.perms = <<>> /\ sess.quests = <<>> /\ sess.out = <<>>
      BY <1>1, <1>6, <2>1 DEF RelayInv, OnePlaceEach, AskedOnce, Links
    <3>2. ~Pending(r)' /\ ~In(R!Answer(r), sess.out)
      BY <1>1, <3>1, InNone DEF Pending
    <3>3. Once(R!Ask(r), up') /\ (In(R!Ask(r), up') => In(R!Ask(r), buffer))
      BY <1>3, <1>4, <3>1
    <3>4. In(R!Ask(r), buffer) => heard[r] = 0
      BY <3>1 DEF AtOnePlace
    <3>5. Once(r, sess.perms) /\ Once(r, sess.quests) /\ Once(R!Answer(r), sess.out)
      BY <3>1, InNone
    <3>6. Once(R!Answer(r), rest') /\ ~In(R!Answer(r), rest')
      BY <1>1, InNone
    <3>7. QED
      BY <1>1, <3>2, <3>3, <3>4, <3>5, <3>6 DEF AtOnePlace, Pending
  <2>2. QED
    BY <1>1, <2>1 DEF OnePlaceEach
<1>11. Awaited'
  <2>1. ASSUME mishap = {}, NEW r \in R!Requests,
               In(R!Ask(r), buffer) \/ In(R!Ask(r), up') \/ Pending(r)
        PROVE  r \in await
    <3>1. In(R!Ask(r), up') => In(R!Ask(r), buffer)
      BY <1>3, <1>4, <1>6, <2>1
    <3>2. QED
      BY <1>1, <2>1, <3>1 DEF RelayInv, Awaited
  <2>2. QED
    BY <1>1, <2>1 DEF Awaited, Pending
<1>12. LastShows'
  <2>1. ASSUME "raced" \notin mishap, NEW r \in R!Requests,
               last = R!Ask(r), r \in await, kind[r] = "permission"
        PROVE  buffer # <<>> /\ buffer[Len(buffer)] = R!Ask(r) /\ Coming(r, up')
    <3>1. buffer # <<>> /\ buffer[Len(buffer)] = R!Ask(r)
      BY <1>1, <2>1 DEF RelayInv, LastShows
    <3>2. QED
      BY <1>3, <1>4, <1>6, <2>1, <3>1
  <2>2. QED
    BY <1>1, <2>1 DEF LastShows
<1>13. QED
  BY <1>5, <1>7, <1>8, <1>9, <1>10, <1>11, <1>12 DEF RelayInv

(* Nobody takes the connection of an agent that ended. *)
LEMMA ConnectFailsKeeps == ASSUME R!RelayAssumption, RelayInv, R!ConnectFails PROVE RelayInv'
<1>1. /\ ~alive /\ phase' = "closed" /\ link' = FALSE /\ taking' = FALSE /\ snap' = <<>>
      /\ outcome' = [p \in R!Prompts |-> IF outcome[p] = "waiting" THEN "failed" ELSE outcome[p]]
      /\ UNCHANGED <<alive, kind, await, heard, rounds, cancelled, updates, hand, buffer, up,
                     rest, saved, sess, policy, events, last, mishap>>
  BY DEF R!ConnectFails, R!Close, R!agent
<1>2. R!TypeOK'
  <2>1. snap' \in Seq(R!Buffered)
        /\ outcome' \in [R!Prompts -> {"none", "waiting", "answered", "ended", "failed", "gone"}]
    BY <1>1 DEF RelayInv, R!TypeOK
  <2>2. QED
    BY <1>1, <2>1 DEF RelayInv, R!TypeOK
<1>3. Links' /\ SnapIsFresh'
  BY <1>1 DEF RelayInv, Links, SnapIsFresh
<1>4. AskedOnce'
  BY <1>1, InNone DEF RelayInv, AskedOnce, Nowhere
<1>5. CancelsKnown' /\ Kept' /\ HeardOnce'
  BY <1>1 DEF RelayInv, CancelsKnown, Kept, HeardOnce
<1>6. OnePlaceEach' /\ Awaited' /\ LastShows'
  BY <1>1 DEF OnePlaceEach, Awaited, LastShows
<1>7. QED
  BY <1>2, <1>3, <1>4, <1>5, <1>6 DEF RelayInv

(* A line to the holder. *)
LEMMA LineSent ==
  ASSUME R!TypeOK, NEW l \in R!Line, sess'.out = Append(sess.out, l)
  PROVE  /\ sess'.out \in Seq(R!Line)
         /\ \A x : In(x, sess'.out) <=> In(x, sess.out) \/ x = l
         /\ \A x : Once(x, sess.out) /\ (x = l => ~In(x, sess.out)) => Once(x, sess'.out)
<1>1. PICK q, t : q \in Seq(R!Line) /\ q = sess.out /\ t = sess'.out /\ Longer(t, q, l)
  BY Lists DEF Longer
<1>2. q \in Seq(R!Line) /\ Longer(t, q, l)
  BY <1>1
<1>3. /\ t \in Seq(R!Line)
      /\ \A x : In(x, t) <=> In(x, q) \/ x = l
      /\ \A x : Once(x, q) /\ (x = l => ~In(x, q)) => Once(x, t)
  BY <1>2, InLonger
<1>4. QED
  BY <1>1, <1>3


(* A line that answers nothing, from a session that serves clients. *)
LEMMA OrderKeeps ==
  ASSUME RelayInv, R!TypeOK', NEW l \in R!Line, \A r \in R!Requests : l # R!Answer(r),
         sess'.out = Append(sess.out, l), sess'.perms = sess.perms, sess'.quests = sess.quests,
         phase # "starting", mishap \subseteq mishap', l = R!CancelIt => "cancelled" \in mishap',
         last' = R!Nothing \/ (last' = last /\ sess'.activity = sess.activity),
         UNCHANGED <<alive, kind, await, heard, cancelled, hand, buffer, taking, snap, link, up,
                     rest, phase>>
  PROVE  RelayInv'
<1>1. /\ \A x : In(x, sess'.out) <=> In(x, sess.out) \/ x = l
      /\ \A x : Once(x, sess.out) /\ (x = l => ~In(x, sess.out)) => Once(x, sess'.out)
  BY LineSent DEF RelayInv
<1>2. Links' /\ SnapIsFresh'
  BY DEF RelayInv, Links, SnapIsFresh
<1>3. AskedOnce'
  BY <1>1 DEF RelayInv, AskedOnce, Nowhere
<1>4. CancelsKnown' /\ Kept' /\ HeardOnce'
  BY <1>1 DEF RelayInv, CancelsKnown, Kept, HeardOnce
<1>5. OnePlaceEach'
  <2>1. ASSUME alive, "dropped" \notin mishap, "raced" \notin mishap, NEW r \in R!Requests
        PROVE  AtOnePlace(r)'
    <3>1. AtOnePlace(r)
      BY <2>1 DEF RelayInv, OnePlaceEach
    <3>2. Pending(r)' = Pending(r)
      BY DEF Pending
    <3>3. In(R!Answer(r), sess'.out) <=> In(R!Answer(r), sess.out)
      BY <1>1
    <3>4. Once(R!Answer(r), sess'.out)
      BY <1>1, <3>1 DEF AtOnePlace
    <3>5. QED
      BY <3>1, <3>2, <3>3, <3>4 DEF AtOnePlace
  <2>2. QED
    BY <2>1 DEF OnePlaceEach
<1>6. Awaited'
  <2>1. mishap' = {} => mishap = {}
    OBVIOUS
  <2>2. QED
    BY <2>1 DEF RelayInv, Awaited, Pending
<1>7. LastShows'
  <2>1. \A r \in R!Requests : R!Ask(r) # R!Nothing
    BY Words
  <2>2. CASE last' = R!Nothing
    BY <2>1, <2>2 DEF LastShows
  <2>3. CASE last' = last /\ sess'.activity = sess.activity
    BY <1>1, <2>3 DEF RelayInv, LastShows, Held
  <2>4. QED
    BY <2>2, <2>3
<1>8. QED
  BY <1>2, <1>3, <1>4, <1>5, <1>6, <1>7 DEF RelayInv

LEMMA PromptSendsKeeps ==
  ASSUME R!RelayAssumption, RelayInv, NEW p \in R!Prompts, R!PromptSends(p) PROVE RelayInv'
<1>1. R!TypeOK /\ R!Prompt(p) \in R!Line /\ R!Prompt(p) # R!CancelIt
      /\ \A r \in R!Requests : R!Prompt(p) # R!Answer(r)
  BY Words DEF RelayInv, R!Line, R!Prompt, R!CancelIt
<1>2. /\ phase # "starting" /\ last' = R!Nothing
      /\ outcome' = [outcome EXCEPT ![p] = "waiting"]
      /\ sess' = [sess EXCEPT !.out = Append(sess.out, R!Prompt(p)), !.activity = "active"]
      /\ UNCHANGED <<alive, kind, await, heard, rounds, cancelled, updates, hand, buffer, taking,
                     snap, link, up, rest, saved, phase, policy, events, mishap>>
  BY <1>1 DEF R!PromptSends, R!Served, R!agent, R!holder, R!Sends, R!ClaimsAs, R!TypeOK
<1>3. /\ sess'.out = Append(sess.out, R!Prompt(p)) /\ sess'.perms = sess.perms
      /\ sess'.quests = sess.quests /\ sess'.activity = "active"
      /\ sess' = [perms |-> sess'.perms, quests |-> sess'.quests, out |-> sess'.out,
                  activity |-> sess'.activity]
  BY <1>1, <1>2 DEF R!TypeOK
<1>4. R!TypeOK'
  <2>1. sess'.out \in Seq(R!Line)
    BY <1>1, <1>3, LineSent
  <2>2. sess' \in [perms : Seq(R!Requests), quests : Seq(R!Requests), out : Seq(R!Line),
                   activity : {"unknown", "active", "idle", "attention"}]
    BY <1>1, <1>3, <2>1, Lists
  <2>3. QED
    BY <1>1, <1>2, <2>2 DEF R!TypeOK
<1>5. QED
  BY <1>1, <1>2, <1>3, <1>4, OrderKeeps

LEMMA CancelKeeps ==
  ASSUME R!RelayAssumption, RelayInv, R!Cancel PROVE RelayInv'
<1>1. R!TypeOK /\ R!CancelIt \in R!Line /\ \A r \in R!Requests : R!CancelIt # R!Answer(r)
  BY Words DEF RelayInv, R!Line
<1>2. /\ phase # "starting" /\ last' = R!Nothing /\ events' = MaxEvents /\ MaxEvents > 0
      /\ sess' = [sess EXCEPT !.out = Append(sess.out, R!CancelIt), !.activity = "idle"]
      /\ mishap' = mishap \cup {"cancelled"}
      /\ UNCHANGED <<alive, kind, await, heard, rounds, cancelled, updates, hand, buffer, taking,
                     snap, link, up, rest, saved, phase, policy, outcome>>
  BY <1>1 DEF R!Cancel, R!Upsets, R!Served, R!agent, R!holder, R!Sends, R!ClaimsAs, R!TypeOK
<1>3. /\ sess'.out = Append(sess.out, R!CancelIt) /\ sess'.perms = sess.perms
      /\ sess'.quests = sess.quests /\ sess'.activity = "idle"
      /\ sess' = [perms |-> sess'.perms, quests |-> sess'.quests, out |-> sess'.out,
                  activity |-> sess'.activity]
  BY <1>1, <1>2 DEF R!TypeOK
<1>4. R!TypeOK'
  <2>1. sess'.out \in Seq(R!Line)
    BY <1>1, <1>3, LineSent
  <2>2. sess' \in [perms : Seq(R!Requests), quests : Seq(R!Requests), out : Seq(R!Line),
                   activity : {"unknown", "active", "idle", "attention"}]
    BY <1>1, <1>3, <2>1, Lists
  <2>3. events' \in 0..MaxEvents /\ mishap' \subseteq R!Troubles
    BY <1>1, <1>2 DEF R!RelayAssumption, R!TypeOK, R!Troubles
  <2>4. QED
    BY <1>1, <1>2, <2>2, <2>3 DEF R!TypeOK
<1>5. QED
  BY <1>1, <1>2, <1>3, <1>4, OrderKeeps

LEMMA SetPolicyKeeps ==
  ASSUME R!RelayAssumption, RelayInv, NEW x \in R!Policies, R!SetPolicy(x) PROVE RelayInv'
<1>1. R!TypeOK /\ R!SetTo(x) \in R!Line /\ R!SetTo(x) # R!CancelIt
      /\ \A r \in R!Requests : R!SetTo(x) # R!Answer(r)
  BY Words DEF RelayInv, R!Line, R!SetTo, R!CancelIt, R!Policies
<1>2. /\ phase # "starting" /\ policy' = x
      /\ events < MaxEvents /\ events' = events + 1
      /\ sess' = [sess EXCEPT !.out = Append(sess.out, R!SetTo(x))]
      /\ UNCHANGED <<alive, kind, await, heard, rounds, cancelled, updates, hand, buffer, taking,
                     snap, link, up, rest, saved, phase, outcome, last, mishap>>
  BY <1>1 DEF R!SetPolicy, R!Happens, R!Served, R!agent, R!holder, R!Sends, R!TypeOK
<1>3. /\ sess'.out = Append(sess.out, R!SetTo(x)) /\ sess'.perms = sess.perms
      /\ sess'.quests = sess.quests /\ sess'.activity = sess.activity
      /\ sess' = [perms |-> sess'.perms, quests |-> sess'.quests, out |-> sess'.out,
                  activity |-> sess'.activity]
  BY <1>1, <1>2 DEF R!TypeOK
<1>4. R!TypeOK'
  <2>1. sess'.out \in Seq(R!Line)
    BY <1>1, <1>3, LineSent
  <2>2. sess' \in [perms : Seq(R!Requests), quests : Seq(R!Requests), out : Seq(R!Line),
                   activity : {"unknown", "active", "idle", "attention"}]
    BY <1>1, <1>3, <2>1, Lists
  <2>3. events' \in 0..MaxEvents
    <3>1. events \in 0..MaxEvents /\ MaxEvents \in Nat
      BY <1>1 DEF R!TypeOK, R!RelayAssumption
    <3>2. QED
      BY <1>2, <3>1
  <2>4. QED
    BY <1>1, <1>2, <2>2, <2>3 DEF R!TypeOK
<1>5. QED
  BY <1>1, <1>2, <1>3, <1>4, OrderKeeps

(* The end of a prompt, and a prompt that comes too late: a claim, and no more. *)
LEMMA ClaimKeeps ==
  ASSUME RelayInv, R!TypeOK', sess'.perms = sess.perms, sess'.quests = sess.quests,
         sess'.out = sess.out, mishap \subseteq mishap',
         "raced" \in mishap' \/ sess'.activity = sess.activity \/ ~alive
           \/ (\A r \in R!Requests : last # R!Ask(r)),
         UNCHANGED <<alive, kind, await, heard, cancelled, hand, buffer, taking, snap, link, up,
                     rest, phase, last>>
  PROVE  RelayInv'
<1>1. Links' /\ SnapIsFresh'
  BY DEF RelayInv, Links, SnapIsFresh
<1>2. AskedOnce'
  BY DEF RelayInv, AskedOnce, Nowhere
<1>3. CancelsKnown' /\ Kept' /\ HeardOnce'
  BY DEF RelayInv, CancelsKnown, Kept, HeardOnce
<1>4. OnePlaceEach'
  BY DEF RelayInv, OnePlaceEach, AtOnePlace, Pending
<1>5. Awaited'
  <2>1. mishap' = {} => mishap = {}
    OBVIOUS
  <2>2. QED
    BY <2>1 DEF RelayInv, Awaited, Pending
<1>6. LastShows'
  BY DEF RelayInv, LastShows, Held
<1>7. QED
  BY <1>1, <1>2, <1>3, <1>4, <1>5, <1>6 DEF RelayInv

LEMMA PromptReturnsKeeps ==
  ASSUME R!RelayAssumption, RelayInv, NEW p \in R!Prompts, R!PromptReturns(p) PROVE RelayInv'
<1>1. /\ outcome' = [outcome EXCEPT ![p] = "ended"]
      /\ sess' = IF phase = "closed" THEN sess ELSE [sess EXCEPT !.activity = "idle"]
      /\ mishap' = IF last \in {R!Result(p), R!Nothing} THEN mishap ELSE mishap \cup {"raced"}
      /\ UNCHANGED <<alive, kind, await, heard, rounds, cancelled, updates, hand, buffer, taking,
                     snap, link, up, rest, saved, phase, policy, events, last>>
  BY DEF R!PromptReturns, R!agent, R!holder, R!ClaimsAs
<1>2. R!TypeOK
  BY DEF RelayInv
<1>3. /\ sess'.perms = sess.perms /\ sess'.quests = sess.quests /\ sess'.out = sess.out
      /\ sess' \in [perms : Seq(R!Requests), quests : Seq(R!Requests), out : Seq(R!Line),
                    activity : {"unknown", "active", "idle", "attention"}]
  BY <1>1, <1>2 DEF R!TypeOK
<1>4. R!TypeOK'
  <2>1. mishap' \subseteq R!Troubles
    BY <1>1, <1>2 DEF R!TypeOK, R!Troubles
  <2>2. QED
    BY <1>1, <1>2, <1>3, <2>1 DEF R!TypeOK
<1>5. "raced" \in mishap' \/ \A r \in R!Requests : last # R!Ask(r)
  BY <1>1, Words
<1>6. QED
  BY <1>1, <1>3, <1>4, <1>5, ClaimKeeps

LEMMA PromptIsLateKeeps ==
  ASSUME R!RelayAssumption, RelayInv, NEW p \in R!Prompts, R!PromptIsLate(p) PROVE RelayInv'
<1>1. /\ outcome' = [outcome EXCEPT ![p] = "waiting"]
      /\ sess' = [sess EXCEPT !.activity = "active"]
      /\ mishap' = mishap \cup {"raced"}
      /\ UNCHANGED <<alive, kind, await, heard, rounds, cancelled, updates, hand, buffer, taking,
                     snap, link, up, rest, saved, phase, policy, events, last>>
  BY DEF R!PromptIsLate, R!agent, R!holder, R!ClaimsAs
<1>2. R!TypeOK
  BY DEF RelayInv
<1>3. /\ sess'.perms = sess.perms /\ sess'.quests = sess.quests /\ sess'.out = sess.out
      /\ sess' \in [perms : Seq(R!Requests), quests : Seq(R!Requests), out : Seq(R!Line),
                    activity : {"unknown", "active", "idle", "attention"}]
  BY <1>1, <1>2 DEF R!TypeOK
<1>4. R!TypeOK'
  <2>1. mishap' \subseteq R!Troubles
    BY <1>1, <1>2 DEF R!TypeOK, R!Troubles
  <2>2. QED
    BY <1>1, <1>2, <1>3, <2>1 DEF R!TypeOK
<1>5. QED
  BY <1>1, <1>3, <1>4, ClaimKeeps

(* A pending request is answered: it leaves the list it is in, and the answer is
   on its way.                                                                 *)
LEMMA AnswerKeeps ==
  ASSUME RelayInv, R!TypeOK', NEW r \in R!Requests,
         Pending(r), sess'.out = Append(sess.out, R!Answer(r)),
         \A q : In(q, sess'.perms) => In(q, sess.perms),
         \A q : In(q, sess'.quests) => In(q, sess.quests),
         \A q : Once(q, sess.perms) => Once(q, sess'.perms),
         \A q : Once(q, sess.quests) => Once(q, sess'.quests),
         /\ Once(r, sess.perms) /\ Once(r, sess.quests)
           /\ ~(In(r, sess.perms) /\ In(r, sess.quests))
             => ~In(r, sess'.perms) /\ ~In(r, sess'.quests),
         phase # "starting", last' = R!Nothing,
         UNCHANGED <<alive, kind, await, heard, cancelled, hand, buffer, taking, snap, link, up,
                     rest, phase, mishap>>
  PROVE  RelayInv'
<1>1. R!TypeOK /\ R!Answer(r) \in R!Line /\ R!Answer(r) # R!CancelIt
  BY Words DEF RelayInv
<1>2. /\ \A x : In(x, sess'.out) <=> In(x, sess.out) \/ x = R!Answer(r)
      /\ \A x : Once(x, sess.out) /\ (x = R!Answer(r) => ~In(x, sess.out)) => Once(x, sess'.out)
  BY <1>1, LineSent
<1>3. Links' /\ SnapIsFresh'
  BY DEF RelayInv, Links, SnapIsFresh
<1>4. AskedOnce'
  <2>1. ASSUME NEW q \in R!Requests, kind[q] = "none" PROVE Nowhere(q)'
    <3>1. Nowhere(q)
      BY <2>1 DEF RelayInv, AskedOnce
    <3>2. q # r
      BY <3>1 DEF Nowhere, Pending
    <3>3. ~In(R!Answer(q), sess'.out)
      BY <1>2, <3>1, <3>2, Words DEF Nowhere
    <3>4. QED
      BY <3>1, <3>3 DEF Nowhere
  <2>2. QED
    BY <2>1 DEF RelayInv, AskedOnce
<1>5. CancelsKnown' /\ Kept' /\ HeardOnce'
  BY <1>1, <1>2 DEF RelayInv, CancelsKnown, Kept, HeardOnce
<1>6. OnePlaceEach'
  <2>1. ASSUME alive, "dropped" \notin mishap, "raced" \notin mishap, NEW q \in R!Requests
        PROVE  AtOnePlace(q)'
    <3>1. AtOnePlace(q) /\ AtOnePlace(r)
      BY <2>1 DEF RelayInv, OnePlaceEach
    <3>2. Pending(q)' => Pending(q)
      BY DEF Pending
    <3>3. Once(q, sess'.perms) /\ Once(q, sess'.quests)
          /\ ~(In(q, sess'.perms) /\ In(q, sess'.quests))
      BY <3>1 DEF AtOnePlace
    <3>4. /\ Once(R!Ask(q), up) /\ Once(R!Answer(q), rest)
          /\ In(R!Ask(q), up) \/ In(R!Ask(q), buffer) \/ In(R!Answer(q), rest) => heard[q] = 0
          /\ Pending(q) => heard[q] = 0
      BY <3>1 DEF AtOnePlace
    <3>5. CASE q # r
      <4>1. In(R!Answer(q), sess'.out) <=> In(R!Answer(q), sess.out)
        BY <1>2, <3>5, Words
      <4>2. Once(R!Answer(q), sess'.out)
        BY <1>2, <3>1, <3>5, Words DEF AtOnePlace
      <4>3. /\ In(R!Ask(q), up) => ~Pending(q)' /\ ~In(R!Answer(q), sess'.out)
            /\ Pending(q)' => ~In(R!Answer(q), sess'.out)
            /\ In(R!Answer(q), sess'.out) => heard[q] = 0
        BY <3>1, <3>2, <4>1 DEF AtOnePlace
      <4>4. QED
        BY <3>2, <3>3, <3>4, <4>2, <4>3 DEF AtOnePlace
    <3>6. CASE q = r
      <4>1. ~In(R!Ask(r), up) /\ ~In(R!Answer(r), sess.out) /\ heard[r] = 0
        BY <3>1 DEF AtOnePlace
      <4>2. Once(R!Answer(r), sess'.out)
        BY <1>2, <3>1, <4>1 DEF AtOnePlace
      <4>3. ~Pending(r)'
        BY <3>1 DEF AtOnePlace, Pending
      <4>4. QED
        BY <3>3, <3>4, <3>6, <4>1, <4>2, <4>3 DEF AtOnePlace
    <3>7. QED
      BY <3>5, <3>6
  <2>2. QED
    BY <2>1 DEF OnePlaceEach
<1>7. Awaited'
  <2>1. \A q : Pending(q)' => Pending(q)
    BY DEF Pending
  <2>2. QED
    BY <2>1 DEF RelayInv, Awaited
<1>8. LastShows'
  BY Words DEF LastShows
<1>9. QED
  BY <1>3, <1>4, <1>5, <1>6, <1>7, <1>8 DEF RelayInv

(* The request at a place of a list leaves it. *)
LEMMA Leaves ==
  ASSUME NEW E, NEW q \in Seq(E), NEW r, NEW n \in DOMAIN q, q[n] = r, NEW t, t = R!RemoveAt(q, n)
  PROVE  /\ t \in Seq(E) /\ In(r, q)
         /\ \A x : In(x, t) => In(x, q)
         /\ \A x : Once(x, q) => Once(x, t)
         /\ Once(r, q) => ~In(r, t)
<1>1. n \in 1..Len(q)
  OBVIOUS
<1>2. /\ t \in Seq(E)
      /\ \A x : In(x, t) => In(x, q)
      /\ \A x : Once(x, q) => Once(x, t) /\ (x = q[n] => ~In(x, t))
  BY <1>1, InWithout
<1>3. QED
  BY <1>1, <1>2 DEF In

LEMMA AnswerPermissionKeeps ==
  ASSUME R!RelayAssumption, RelayInv, NEW r \in R!Requests, R!AnswerPermission(r) PROVE RelayInv'
<1>1. R!TypeOK /\ R!Answer(r) \in R!Line
  BY Words DEF RelayInv
<1>2. PICK n \in DOMAIN sess.perms :
        /\ sess.perms[n] = r
        /\ sess' = [sess EXCEPT !.perms = R!RemoveAt(sess.perms, n),
                                !.out = Append(sess.out, R!Answer(r)), !.activity = "active"]
  BY <1>1 DEF R!AnswerPermission, R!First, R!ClaimsAs, R!Sends, R!TypeOK
<1>3. /\ phase # "starting" /\ last' = R!Nothing
      /\ UNCHANGED <<alive, kind, await, heard, rounds, cancelled, updates, hand, buffer, taking,
                     snap, link, up, rest, saved, phase, policy, outcome, events, mishap>>
  BY DEF R!AnswerPermission, R!Served, R!agent, R!holder
<1>4. /\ sess'.out = Append(sess.out, R!Answer(r)) /\ sess'.perms = R!RemoveAt(sess.perms, n)
      /\ sess'.quests = sess.quests /\ sess'.activity = "active"
      /\ sess' = [perms |-> sess'.perms, quests |-> sess'.quests, out |-> sess'.out,
                  activity |-> sess'.activity]
  BY <1>1, <1>2 DEF R!TypeOK
<1>5. /\ sess'.perms \in Seq(R!Requests) /\ In(r, sess.perms)
      /\ \A x : In(x, sess'.perms) => In(x, sess.perms)
      /\ \A x : Once(x, sess.perms) => Once(x, sess'.perms)
      /\ Once(r, sess.perms) => ~In(r, sess'.perms)
  <2>1. PICK q, t : q = sess.perms /\ t = sess'.perms
    OBVIOUS
  <2>2. q \in Seq(R!Requests) /\ n \in DOMAIN q /\ q[n] = r /\ t = R!RemoveAt(q, n)
    BY <1>1, <1>2, <1>4, <2>1, Lists
  <2>3. /\ t \in Seq(R!Requests) /\ In(r, q)
        /\ \A x : In(x, t) => In(x, q)
        /\ \A x : Once(x, q) => Once(x, t)
        /\ Once(r, q) => ~In(r, t)
    BY <2>2, Leaves
  <2>4. QED
    BY <2>1, <2>3
<1>6. R!TypeOK'
  <2>1. sess'.out \in Seq(R!Line)
    BY <1>1, <1>4, LineSent
  <2>2. sess' \in [perms : Seq(R!Requests), quests : Seq(R!Requests), out : Seq(R!Line),
                   activity : {"unknown", "active", "idle", "attention"}]
    BY <1>1, <1>4, <1>5, <2>1, Lists
  <2>3. QED
    BY <1>1, <1>3, <2>2 DEF R!TypeOK
<1>7. Pending(r) /\ (~(In(r, sess.perms) /\ In(r, sess.quests)) => ~In(r, sess'.quests))
  BY <1>4, <1>5 DEF Pending
<1>8. QED
  BY <1>3, <1>4, <1>5, <1>6, <1>7, AnswerKeeps

LEMMA AnswerQuestionKeeps ==
  ASSUME R!RelayAssumption, RelayInv, NEW r \in R!Requests, R!AnswerQuestion(r) PROVE RelayInv'
<1>1. R!TypeOK /\ R!Answer(r) \in R!Line
  BY Words DEF RelayInv
<1>2. PICK n \in DOMAIN sess.quests :
        /\ sess.quests[n] = r
        /\ sess' = [sess EXCEPT !.quests = R!RemoveAt(sess.quests, n),
                                !.out = Append(sess.out, R!Answer(r)), !.activity = "active"]
  BY <1>1 DEF R!AnswerQuestion, R!First, R!ClaimsAs, R!Sends, R!TypeOK
<1>3. /\ phase # "starting" /\ last' = R!Nothing
      /\ UNCHANGED <<alive, kind, await, heard, rounds, cancelled, updates, hand, buffer, taking,
                     snap, link, up, rest, saved, phase, policy, outcome, events, mishap>>
  BY DEF R!AnswerQuestion, R!Served, R!agent, R!holder
<1>4. /\ sess'.out = Append(sess.out, R!Answer(r)) /\ sess'.quests = R!RemoveAt(sess.quests, n)
      /\ sess'.perms = sess.perms /\ sess'.activity = "active"
      /\ sess' = [perms |-> sess'.perms, quests |-> sess'.quests, out |-> sess'.out,
                  activity |-> sess'.activity]
  BY <1>1, <1>2 DEF R!TypeOK
<1>5. /\ sess'.quests \in Seq(R!Requests) /\ In(r, sess.quests)
      /\ \A x : In(x, sess'.quests) => In(x, sess.quests)
      /\ \A x : Once(x, sess.quests) => Once(x, sess'.quests)
      /\ Once(r, sess.quests) => ~In(r, sess'.quests)
  <2>1. PICK q, t : q = sess.quests /\ t = sess'.quests
    OBVIOUS
  <2>2. q \in Seq(R!Requests) /\ n \in DOMAIN q /\ q[n] = r /\ t = R!RemoveAt(q, n)
    BY <1>1, <1>2, <1>4, <2>1, Lists
  <2>3. /\ t \in Seq(R!Requests) /\ In(r, q)
        /\ \A x : In(x, t) => In(x, q)
        /\ \A x : Once(x, q) => Once(x, t)
        /\ Once(r, q) => ~In(r, t)
    BY <2>2, Leaves
  <2>4. QED
    BY <2>1, <2>3
<1>6. R!TypeOK'
  <2>1. sess'.out \in Seq(R!Line)
    BY <1>1, <1>4, LineSent
  <2>2. sess' \in [perms : Seq(R!Requests), quests : Seq(R!Requests), out : Seq(R!Line),
                   activity : {"unknown", "active", "idle", "attention"}]
    BY <1>1, <1>4, <1>5, <2>1, Lists
  <2>3. QED
    BY <1>1, <1>3, <2>2 DEF R!TypeOK
<1>7. Pending(r) /\ (~(In(r, sess.perms) /\ In(r, sess.quests)) => ~In(r, sess'.perms))
  BY <1>4, <1>5 DEF Pending
<1>8. QED
  BY <1>3, <1>4, <1>5, <1>6, <1>7, AnswerKeeps

(* A connection breaks: what was on its way is gone. *)
LEMMA DropKeeps == ASSUME R!RelayAssumption, RelayInv, R!Drop PROVE RelayInv'
<1>1. R!TypeOK
  BY DEF RelayInv
<1>2. PICK n \in 0..Len(sess.out) :
        sess' = [sess EXCEPT !.out = SubSeq(sess.out, n + 1, Len(sess.out))]
  BY <1>1 DEF R!Drop, R!TypeOK
<1>3. /\ link /\ alive /\ link' = FALSE /\ up' = <<>> /\ phase' = "dropped"
      /\ mishap' = mishap \cup {"dropped"} /\ events' = MaxEvents /\ MaxEvents > 0
      /\ UNCHANGED <<alive, kind, await, heard, rounds, cancelled, updates, hand, buffer, taking,
                     snap, rest, saved, policy, outcome, last>>
  BY DEF R!Drop, R!Upsets, R!agent
<1>4. /\ sess'.out = SubSeq(sess.out, n + 1, Len(sess.out)) /\ sess'.perms = sess.perms
      /\ sess'.quests = sess.quests /\ sess'.activity = sess.activity
      /\ sess' = [perms |-> sess'.perms, quests |-> sess'.quests, out |-> sess'.out,
                  activity |-> sess'.activity]
  BY <1>1, <1>2 DEF R!TypeOK
<1>5. sess'.out \in Seq(R!Line) /\ \A x : In(x, sess'.out) => In(x, sess.out)
  <2>1. PICK q, t, a, b : q = sess.out /\ t = sess'.out /\ a = n + 1 /\ b = Len(q) /\ t = SubSeq(q, a, b)
    BY <1>4
  <2>2. q \in Seq(R!Line) /\ a \in Int /\ b \in Int /\ 1 <= a /\ b <= Len(q) /\ t = SubSeq(q, a, b)
    BY <1>1, <2>1, Lists
  <2>3. t \in Seq(R!Line) /\ \A x : In(x, t) => In(x, q)
    BY <2>2, InSome
  <2>4. QED
    BY <2>1, <2>3
<1>6. R!TypeOK'
  <2>1. sess' \in [perms : Seq(R!Requests), quests : Seq(R!Requests), out : Seq(R!Line),
                   activity : {"unknown", "active", "idle", "attention"}]
    BY <1>1, <1>4, <1>5, Lists
  <2>2. events' \in 0..MaxEvents /\ mishap' \subseteq R!Troubles /\ up' \in Seq(R!Wire)
    <3>1. MaxEvents \in Nat /\ mishap \subseteq R!Troubles
      BY <1>1 DEF R!RelayAssumption, R!TypeOK
    <3>2. QED
      BY <1>3, <3>1 DEF R!Troubles
  <2>3. QED
    BY <1>1, <1>3, <2>1, <2>2 DEF R!TypeOK
<1>7. Links' /\ SnapIsFresh'
  BY <1>3, <1>4, InNone DEF RelayInv, Links, SnapIsFresh
<1>8. AskedOnce'
  BY <1>3, <1>4, <1>5, InNone DEF RelayInv, AskedOnce, Nowhere
<1>9. CancelsKnown' /\ Kept' /\ HeardOnce'
  BY <1>3, <1>5 DEF RelayInv, CancelsKnown, Kept, HeardOnce
<1>10. OnePlaceEach' /\ Awaited'
  BY <1>3 DEF OnePlaceEach, Awaited
<1>11. LastShows'
  BY <1>3 DEF RelayInv, LastShows
<1>12. QED
  BY <1>6, <1>7, <1>8, <1>9, <1>10, <1>11 DEF RelayInv

(* A new daemon: some of what the old one wrote may be read yet. *)
LEMMA RestartKeeps == ASSUME R!RelayAssumption, RelayInv, R!Restart PROVE RelayInv'
<1>1. R!TypeOK
  BY DEF RelayInv
<1>2. PICK n \in 0..Len(sess.out) : rest' = IF link THEN SubSeq(sess.out, 1, n) ELSE <<>>
  BY DEF R!Restart
<1>3. /\ phase # "closed" /\ events < MaxEvents /\ events' = events + 1
      /\ sess' = [perms |-> <<>>, quests |-> <<>>, out |-> <<>>, activity |-> "unknown"]
      /\ policy' = saved /\ link' = FALSE /\ up' = <<>> /\ taking' = FALSE /\ snap' = <<>>
      /\ phase' = "starting"
      /\ outcome' = [p \in R!Prompts |->
                      IF outcome[p] \in {"waiting", "answered"} THEN "gone" ELSE outcome[p]]
      /\ UNCHANGED <<alive, kind, await, heard, rounds, cancelled, updates, hand, buffer, saved,
                     last, mishap>>
  BY DEF R!Restart, R!Happens, R!NoSession, R!agent
<1>4. /\ rest' \in Seq(R!Line) /\ \A x : In(x, rest') => In(x, sess.out)
      /\ \A x : Once(x, sess.out) => Once(x, rest')
  <2>1. CASE link
    <3>1. PICK q, t, a, b : q = sess.out /\ t = rest' /\ a = 1 /\ b = n /\ t = SubSeq(q, a, b)
      BY <1>2, <2>1
    <3>2. q \in Seq(R!Line) /\ a \in Int /\ b \in Int /\ 1 <= a /\ b <= Len(q) /\ t = SubSeq(q, a, b)
      BY <1>1, <3>1, Lists
    <3>3. /\ t \in Seq(R!Line) /\ \A x : In(x, t) => In(x, q)
          /\ \A x : Once(x, q) => Once(x, t)
      BY <3>2, InSome
    <3>4. QED
      BY <3>1, <3>3
  <2>2. CASE ~link
    BY <1>2, <2>2, InNone
  <2>3. QED
    BY <2>1, <2>2
<1>5. sess'.perms = <<>> /\ sess'.quests = <<>> /\ sess'.out = <<>>
  BY <1>3
<1>6. R!TypeOK'
  <2>1. sess' \in [perms : Seq(R!Requests), quests : Seq(R!Requests), out : Seq(R!Line),
                   activity : {"unknown", "active", "idle", "attention"}]
    <3>1. <<>> \in Seq(R!Requests) /\ <<>> \in Seq(R!Line)
      OBVIOUS
    <3>2. QED
      BY <1>3, <3>1
  <2>2. events' \in 0..MaxEvents
    <3>1. events \in 0..MaxEvents /\ MaxEvents \in Nat
      BY <1>1 DEF R!TypeOK, R!RelayAssumption
    <3>2. QED
      BY <1>3, <3>1
  <2>3. up' \in Seq(R!Wire) /\ snap' \in Seq(R!Buffered)
    BY <1>3
  <2>4. outcome' \in [R!Prompts -> {"none", "waiting", "answered", "ended", "failed", "gone"}]
    BY <1>1, <1>3 DEF R!TypeOK
  <2>5. QED
    BY <1>1, <1>3, <1>4, <2>1, <2>2, <2>3, <2>4 DEF R!TypeOK
<1>7. Links' /\ SnapIsFresh'
  BY <1>3, <1>5, InNone DEF RelayInv, Links, SnapIsFresh
<1>8. AskedOnce'
  BY <1>3, <1>4, <1>5, InNone DEF RelayInv, AskedOnce, Nowhere
<1>9. CancelsKnown' /\ Kept' /\ HeardOnce'
  BY <1>3, <1>4, <1>5, InNone DEF RelayInv, CancelsKnown, Kept, HeardOnce
<1>10. OnePlaceEach'
  <2>1. ASSUME alive, "dropped" \notin mishap, "raced" \notin mishap, NEW r \in R!Requests
        PROVE  AtOnePlace(r)'
    <3>1. AtOnePlace(r)
      BY <2>1 DEF RelayInv, OnePlaceEach
    <3>2. ~Pending(r)' /\ ~In(R!Answer(r), sess'.out) /\ ~In(R!Ask(r), up')
          /\ Once(R!Ask(r), up') /\ Once(r, sess'.perms) /\ Once(r, sess'.quests)
          /\ Once(R!Answer(r), sess'.out) /\ ~In(r, sess'.perms)
      BY <1>3, <1>5, InNone DEF Pending
    <3>3. Once(R!Answer(r), rest') /\ (In(R!Answer(r), rest') => heard[r] = 0)
      BY <1>4, <3>1 DEF AtOnePlace
    <3>4. In(R!Ask(r), buffer) => heard[r] = 0
      BY <3>1 DEF AtOnePlace
    <3>5. QED
      BY <1>3, <3>2, <3>3, <3>4 DEF AtOnePlace
  <2>2. QED
    BY <1>3, <2>1 DEF OnePlaceEach
<1>11. Awaited'
  BY <1>3, <1>5, InNone DEF RelayInv, Awaited, Pending
<1>12. LastShows'
  BY <1>3 DEF RelayInv, LastShows
<1>13. QED
  BY <1>6, <1>7, <1>8, <1>9, <1>10, <1>11, <1>12 DEF RelayInv

(* What the holder keeps once a request was answered. *)
LEMMA UnaskedKeeps ==
  ASSUME NEW b \in Seq(R!Buffered), NEW r \in R!Requests, NEW t, t = R!Unasked(b, r)
  PROVE  /\ t \in Seq(R!Buffered) /\ Len(t) <= Len(b)
         /\ \A x : In(x, t) => In(x, b)
         /\ \A x : In(x, b) /\ x # R!Ask(r) => In(x, t)
         /\ \A x : Once(x, b) => Once(x, t)
         /\ Once(R!Ask(r), b) => ~In(R!Ask(r), t)
         /\ b # <<>> /\ b[Len(b)] # R!Ask(r) => t # <<>> /\ t[Len(t)] = b[Len(b)]
<1>1. CASE \E n \in DOMAIN b : b[n] = R!Ask(r)
  <2>1. PICK n \in DOMAIN b : b[n] = R!Ask(r) /\ t = R!RemoveAt(b, n)
    BY <1>1 DEF R!Unasked
  <2>2. n \in 1..Len(b) /\ t = R!RemoveAt(b, n)
    BY <2>1
  <2>3. /\ t \in Seq(R!Buffered) /\ Len(b) \in Nat /\ Len(t) = Len(b) - 1
        /\ \A x : In(x, t) => In(x, b)
        /\ \A x : In(x, b) => In(x, t) \/ x = b[n]
        /\ \A x : Once(x, b) => Once(x, t) /\ (x = b[n] => ~In(x, t))
        /\ n # Len(b) => t # <<>> /\ t[Len(t)] = b[Len(b)]
    BY <2>2, InWithout
  <2>4. Len(t) <= Len(b) /\ (b[Len(b)] # R!Ask(r) => n # Len(b))
    BY <2>1, <2>3
  <2>5. QED
    BY <2>1, <2>3, <2>4
<1>2. CASE ~\E n \in DOMAIN b : b[n] = R!Ask(r)
  <2>1. t = b
    BY <1>2 DEF R!Unasked
  <2>2. ~In(R!Ask(r), b) /\ Len(b) \in Nat
    BY <1>2 DEF In
  <2>3. QED
    BY <2>1, <2>2
<1>3. QED
  BY <1>1, <1>2

(* The holder takes a line: from the session, or from what a dead daemon left. *)
LEMMA LineTaken ==
  ASSUME RelayInv, R!HolderReads
  PROVE  \E l \in R!Line :
           /\ In(l, sess.out) \/ In(l, rest)
           /\ \A x : In(x, sess'.out) => In(x, sess.out)
           /\ \A x : In(x, rest') => In(x, rest)
           /\ \A x : Once(x, sess.out) => Once(x, sess'.out)
           /\ \A x : Once(x, rest) => Once(x, rest')
           /\ \A x : In(x, sess.out) /\ x # l => In(x, sess'.out)
           /\ link => In(l, sess.out) /\ (Once(l, sess.out) => ~In(l, sess'.out)) /\ rest' = rest
           /\ ~link => In(l, rest) /\ (Once(l, rest) => ~In(l, rest')) /\ sess' = sess
           /\ sess'.out \in Seq(R!Line) /\ rest' \in Seq(R!Line)
           /\ sess' = [perms |-> sess.perms, quests |-> sess.quests, out |-> sess'.out,
                       activity |-> sess.activity]
           /\ R!Takes(l)
<1>1. R!TypeOK
  BY DEF RelayInv
<1>2. CASE link
  <2>1. /\ sess.out # <<>> /\ R!Takes(Head(sess.out)) /\ rest' = rest
        /\ sess' = [sess EXCEPT !.out = Tail(sess.out)]
    BY <1>1, <1>2 DEF R!HolderReads, R!TypeOK
  <2>2. sess' = [perms |-> sess.perms, quests |-> sess.quests, out |-> Tail(sess.out),
                 activity |-> sess.activity]
    BY <1>1, <2>1 DEF R!TypeOK
  <2>3. PICK q, t : q = sess.out /\ t = sess'.out /\ t = Tail(q)
    BY <2>2
  <2>4. q \in Seq(R!Line) /\ q # <<>> /\ t = Tail(q)
    BY <1>1, <2>1, <2>3, Lists
  <2>5. /\ t \in Seq(R!Line) /\ Head(q) = q[1] /\ q[1] \in R!Line
        /\ \A x : In(x, q) <=> In(x, t) \/ x = q[1]
        /\ \A x : Once(x, q) => Once(x, t) /\ (x = q[1] => ~In(x, t))
    BY <2>4, InShorter
  <2>6. PICK l \in R!Line : l = q[1]
    BY <2>5
  <2>7. /\ R!Takes(l) /\ In(l, sess.out) /\ (Once(l, sess.out) => ~In(l, sess'.out))
        /\ \A x : In(x, sess'.out) => In(x, sess.out)
        /\ \A x : Once(x, sess.out) => Once(x, sess'.out)
        /\ \A x : In(x, sess.out) /\ x # l => In(x, sess'.out)
        /\ sess'.out \in Seq(R!Line) /\ rest' \in Seq(R!Line)
    BY <1>1, <2>1, <2>3, <2>5, <2>6, Lists
  <2>8. sess' = [perms |-> sess.perms, quests |-> sess.quests, out |-> sess'.out,
                 activity |-> sess.activity]
    BY <2>2
  <2>9. QED
    BY <1>2, <2>1, <2>7, <2>8
<1>3. CASE ~link
  <2>1. rest # <<>> /\ R!Takes(Head(rest)) /\ sess' = sess /\ rest' = Tail(rest)
    BY <1>3 DEF R!HolderReads
  <2>2. PICK q, t : q = rest /\ t = rest' /\ t = Tail(q)
    BY <2>1
  <2>3. q \in Seq(R!Line) /\ q # <<>> /\ t = Tail(q)
    BY <1>1, <2>1, <2>2, Lists
  <2>4. /\ t \in Seq(R!Line) /\ Head(q) = q[1] /\ q[1] \in R!Line
        /\ \A x : In(x, q) <=> In(x, t) \/ x = q[1]
        /\ \A x : Once(x, q) => Once(x, t) /\ (x = q[1] => ~In(x, t))
    BY <2>3, InShorter
  <2>5. PICK l \in R!Line : l = q[1]
    BY <2>4
  <2>6. /\ R!Takes(l) /\ In(l, rest) /\ (Once(l, rest) => ~In(l, rest'))
        /\ \A x : In(x, rest') => In(x, rest)
        /\ \A x : Once(x, rest) => Once(x, rest')
        /\ sess'.out \in Seq(R!Line) /\ rest' \in Seq(R!Line)
    BY <1>1, <2>1, <2>2, <2>4, <2>5, Lists
  <2>7. sess' = [perms |-> sess.perms, quests |-> sess.quests, out |-> sess'.out,
                 activity |-> sess.activity]
    BY <1>1, <2>1 DEF R!TypeOK
  <2>8. QED
    BY <1>3, <2>1, <2>6, <2>7
<1>4. QED
  BY <1>2, <1>3

LEMMA HolderReadsKeeps == ASSUME R!RelayAssumption, RelayInv, R!HolderReads PROVE RelayInv'
<1>1. /\ alive /\ mishap' = (IF taking THEN mishap \cup {"raced"} ELSE mishap)
      /\ UNCHANGED <<alive, kind, updates, hand, taking, snap, link, up, phase, policy, outcome,
                     events, last>>
  BY DEF R!HolderReads
<1>2. PICK l \in R!Line :
        /\ In(l, sess.out) \/ In(l, rest)
        /\ \A x : In(x, sess'.out) => In(x, sess.out)
        /\ \A x : In(x, rest') => In(x, rest)
        /\ \A x : Once(x, sess.out) => Once(x, sess'.out)
        /\ \A x : Once(x, rest) => Once(x, rest')
        /\ \A x : In(x, sess.out) /\ x # l => In(x, sess'.out)
        /\ link => In(l, sess.out) /\ (Once(l, sess.out) => ~In(l, sess'.out)) /\ rest' = rest
        /\ ~link => In(l, rest) /\ (Once(l, rest) => ~In(l, rest')) /\ sess' = sess
        /\ sess'.out \in Seq(R!Line) /\ rest' \in Seq(R!Line)
        /\ sess' = [perms |-> sess.perms, quests |-> sess.quests, out |-> sess'.out,
                    activity |-> sess.activity]
        /\ R!Takes(l)
  BY LineTaken
<1>3. R!TypeOK
  BY DEF RelayInv
<1>4. /\ sess'.perms = sess.perms /\ sess'.quests = sess.quests /\ sess'.activity = sess.activity
      /\ sess' \in [perms : Seq(R!Requests), quests : Seq(R!Requests), out : Seq(R!Line),
                    activity : {"unknown", "active", "idle", "attention"}]
  <2>1. PICK o : o \in Seq(R!Line) /\ sess' = [perms |-> sess.perms, quests |-> sess.quests,
                                             out |-> o, activity |-> sess.activity]
    BY <1>2
  <2>2. QED
    BY <1>3, <2>1, Lists
<1>5. mishap \subseteq mishap' /\ mishap' \subseteq R!Troubles /\ (taking => "raced" \in mishap')
      /\ (mishap' = {} => mishap = {})
  BY <1>1, <1>3 DEF R!TypeOK, R!Troubles
<1>6. Links'
  <2>1. phase = "starting" => ~link
    BY <1>1 DEF RelayInv, Links
  <2>2. alive /\ link => rest' = <<>>
    BY <1>2 DEF RelayInv, Links
  <2>3. QED
    BY <1>1, <1>2, <1>4, <1>5, <2>1, <2>2 DEF RelayInv, Links
<1>7. CASE \E r \in R!Requests : l = R!Answer(r)
  <2>1. PICK r \in R!Requests : l = R!Answer(r)
    BY <1>7
  <2>2. /\ buffer' = R!Unasked(buffer, r) /\ await' = await \ {r}
        /\ heard' = [heard EXCEPT ![r] = IF @ = 2 THEN 2 ELSE @ + 1]
        /\ UNCHANGED <<rounds, cancelled, saved>>
    BY <1>2, <2>1 DEF R!Takes, R!Answer
  <2>3. PICK b, t : b = buffer /\ t = buffer' /\ t = R!Unasked(b, r)
    BY <2>2
  <2>4. b \in Seq(R!Buffered) /\ t = R!Unasked(b, r)
    BY <1>3, <2>3, Lists
  <2>5. /\ t \in Seq(R!Buffered) /\ Len(t) <= Len(b)
        /\ \A x : In(x, t) => In(x, b)
        /\ \A x : In(x, b) /\ x # R!Ask(r) => In(x, t)
        /\ \A x : Once(x, b) => Once(x, t)
        /\ Once(R!Ask(r), b) => ~In(R!Ask(r), t)
        /\ b # <<>> /\ b[Len(b)] # R!Ask(r) => t # <<>> /\ t[Len(t)] = b[Len(b)]
    BY <2>4, UnaskedKeeps
  <2>6. /\ heard \in [R!Requests -> 0..2] /\ heard' \in [R!Requests -> 0..2]
        /\ \A q \in R!Requests : q # r => heard'[q] = heard[q]
        /\ heard[r] = 0 => heard'[r] = 1
    BY <1>3, <2>2 DEF R!TypeOK
  <2>7. R!TypeOK'
    <3>1. /\ buffer' \in Seq(R!Buffered) /\ Len(buffer') <= MaxBuffer
      <4>1. Len(b) \in Nat /\ Len(t) \in Nat /\ MaxBuffer \in Nat /\ Len(b) <= MaxBuffer
        <5>1. Len(b) \in Nat /\ Len(t) \in Nat
          BY <2>4, <2>5
        <5>2. MaxBuffer \in Nat /\ Len(b) <= MaxBuffer
          BY <1>3, <2>3 DEF R!TypeOK, R!RelayAssumption
        <5>3. QED
          BY <5>1, <5>2
      <4>2. QED
        BY <2>3, <2>5, <4>1
    <3>2. QED
      BY <1>1, <1>2, <1>3, <1>4, <1>5, <2>2, <2>6, <3>1 DEF R!TypeOK
  <2>8. SnapIsFresh'
    BY <1>1, <1>5 DEF RelayInv, SnapIsFresh
  <2>9. \A q \in R!Requests : q # r => R!Ask(q) # R!Ask(r) /\ R!Answer(q) # l
    BY <2>1, Words
  <2>10. AskedOnce'
    <3>1. ASSUME NEW q \in R!Requests, kind[q] = "none" PROVE Nowhere(q)'
      <4>1. Nowhere(q)
        BY <3>1 DEF RelayInv, AskedOnce
      <4>2. q # r
        BY <1>2, <2>1, <4>1 DEF Nowhere
      <4>3. ~In(R!Ask(q), buffer') /\ heard'[q] = 0 /\ q \notin await'
        BY <2>2, <2>3, <2>5, <2>6, <4>1, <4>2 DEF Nowhere
      <4>4. QED
        BY <1>1, <1>2, <1>4, <4>1, <4>3 DEF Nowhere
    <3>2. \A q \in R!Requests : Once(R!Ask(q), buffer')
      BY <2>3, <2>5 DEF RelayInv, AskedOnce
    <3>3. QED
      BY <1>1, <3>1, <3>2 DEF AskedOnce
  <2>11. CancelsKnown'
    BY <1>2, <1>5, <2>2 DEF RelayInv, CancelsKnown
  <2>12. Kept'
    BY <1>5, <2>2, <2>3, <2>5, <2>9, <1>3 DEF RelayInv, Kept, R!TypeOK
  <2>13. ASSUME "dropped" \notin mishap', "raced" \notin mishap'
         PROVE  /\ heard[r] = 0 /\ ~In(R!Ask(r), up) /\ ~In(R!Ask(r), buffer') /\ ~Pending(r)
                /\ ~In(R!Answer(r), sess'.out) /\ ~In(R!Answer(r), rest')
    <3>1. /\ AtOnePlace(r) /\ Once(R!Ask(r), buffer) /\ "dropped" \notin mishap
          /\ alive /\ Links
      BY <1>1, <1>5, <2>13 DEF RelayInv, OnePlaceEach, AskedOnce
    <3>2. heard[r] = 0 /\ ~In(R!Ask(r), buffer')
      BY <1>2, <2>1, <2>3, <2>5, <3>1 DEF AtOnePlace
    <3>3. CASE link
      <4>1. In(R!Answer(r), sess.out) /\ ~In(R!Answer(r), sess'.out) /\ rest' = rest
        BY <1>2, <2>1, <3>1, <3>3 DEF AtOnePlace
      <4>2. rest = <<>>
        BY <3>1, <3>3 DEF Links
      <4>3. QED
        BY <3>1, <3>2, <4>1, <4>2, InNone DEF AtOnePlace
    <3>4. CASE ~link
      <4>1. up = <<>> /\ sess.perms = <<>> /\ sess.quests = <<>> /\ sess.out = <<>>
        BY <1>3, <3>1, <3>4 DEF Links, R!TypeOK
      <4>2. ~In(R!Answer(r), rest') /\ sess' = sess
        BY <1>2, <2>1, <3>1, <3>4 DEF AtOnePlace
      <4>3. QED
        BY <3>2, <4>1, <4>2, InNone DEF Pending
    <3>5. QED
      BY <3>3, <3>4
  <2>14. OnePlaceEach'
    <3>1. ASSUME "dropped" \notin mishap', "raced" \notin mishap', NEW q \in R!Requests
          PROVE  AtOnePlace(q)'
      <4>1. AtOnePlace(q)
        BY <1>1, <1>5, <3>1 DEF RelayInv, OnePlaceEach
      <4>2. Pending(q)' <=> Pending(q)
        BY <1>4 DEF Pending
      <4>3. /\ Once(R!Ask(q), up) /\ Once(q, sess'.perms) /\ Once(q, sess'.quests)
            /\ Once(R!Answer(q), sess'.out) /\ Once(R!Answer(q), rest')
            /\ ~(In(q, sess'.perms) /\ In(q, sess'.quests))
            /\ In(R!Ask(q), up) => ~Pending(q) /\ ~In(R!Answer(q), sess'.out)
            /\ Pending(q) => ~In(R!Answer(q), sess'.out)
        BY <1>2, <1>4, <4>1 DEF AtOnePlace
      <4>4. /\ In(R!Ask(q), up) \/ In(R!Ask(q), buffer') => heard'[q] = 0
            /\ Pending(q) \/ In(R!Answer(q), sess'.out) \/ In(R!Answer(q), rest') => heard'[q] = 0
        <5>1. CASE q = r
          BY <2>13, <3>1, <5>1
        <5>2. CASE q # r
          BY <1>2, <2>3, <2>5, <2>6, <4>1, <5>2 DEF AtOnePlace
        <5>3. QED
          BY <5>1, <5>2
      <4>5. QED
        BY <1>1, <4>2, <4>3, <4>4 DEF AtOnePlace
    <3>2. QED
      BY <3>1 DEF OnePlaceEach
  <2>15. HeardOnce'
    <3>1. ASSUME "dropped" \notin mishap', "raced" \notin mishap', NEW q \in R!Requests
          PROVE  heard'[q] <= 1
      <4>1. heard[q] <= 1
        BY <1>5, <3>1 DEF RelayInv, HeardOnce
      <4>2. QED
        BY <2>6, <2>13, <3>1, <4>1
    <3>2. QED
      BY <3>1 DEF HeardOnce
  <2>16. Awaited'
    <3>1. ASSUME mishap' = {}, NEW q \in R!Requests,
                 In(R!Ask(q), buffer') \/ In(R!Ask(q), up) \/ Pending(q)
          PROVE  q \in await'
      <4>1. q # r
        BY <2>13, <3>1
      <4>2. In(R!Ask(q), buffer) \/ In(R!Ask(q), up) \/ Pending(q)
        BY <2>3, <2>5, <3>1
      <4>3. q \in await
        BY <1>1, <1>5, <3>1, <4>2 DEF RelayInv, Awaited
      <4>4. QED
        BY <2>2, <4>1, <4>3
    <3>2. \A q : Pending(q)' <=> Pending(q)
      BY <1>4 DEF Pending
    <3>3. QED
      BY <1>1, <3>1, <3>2 DEF Awaited
  <2>17. LastShows'
    <3>1. ASSUME "raced" \notin mishap', NEW q \in R!Requests,
                 last = R!Ask(q), q \in await', kind[q] = "permission"
          PROVE  /\ buffer' # <<>> /\ buffer'[Len(buffer')] = R!Ask(q)
                 /\ link => Coming(q, up) \/ Held(q)' \/ In(R!Answer(q), sess'.out)
      <4>1. q # r /\ q \in await
        BY <2>2, <3>1
      <4>2. /\ buffer # <<>> /\ buffer[Len(buffer)] = R!Ask(q)
            /\ link => Coming(q, up) \/ Held(q) \/ In(R!Answer(q), sess.out)
        BY <1>1, <1>5, <3>1, <4>1 DEF RelayInv, LastShows
      <4>3. buffer' # <<>> /\ buffer'[Len(buffer')] = R!Ask(q)
        BY <2>3, <2>5, <2>9, <4>1, <4>2
      <4>4. Held(q) => Held(q)'
        BY <1>1, <1>4 DEF Held
      <4>5. In(R!Answer(q), sess.out) => In(R!Answer(q), sess'.out)
        BY <1>2, <2>9, <4>1
      <4>6. QED
        BY <4>2, <4>3, <4>4, <4>5
    <3>2. QED
      BY <1>1, <3>1 DEF LastShows
  <2>18. QED
    BY <1>6, <2>7, <2>8, <2>10, <2>11, <2>12, <2>14, <2>15, <2>16, <2>17 DEF RelayInv
<1>8. CASE \A r \in R!Requests : l # R!Answer(r)
  <2>1. /\ UNCHANGED <<buffer, await, heard>>
        /\ rounds' \in Seq(R!Prompts) /\ cancelled' \in BOOLEAN /\ saved' \in R!Policies
        /\ cancelled' => cancelled \/ l = R!CancelIt
    <3>1. rounds \in Seq(R!Prompts) /\ cancelled \in BOOLEAN /\ saved \in R!Policies
      BY <1>3 DEF R!TypeOK
    <3>2. CASE \E p \in R!Prompts : l = R!Prompt(p)
      <4>1. PICK p \in R!Prompts : l = R!Prompt(p)
        BY <3>2
      <4>2. rounds' = Append(rounds, p) /\ UNCHANGED <<buffer, await, heard, cancelled, saved>>
        BY <1>2, <4>1 DEF R!Takes, R!Prompt
      <4>3. QED
        BY <3>1, <4>2
    <3>3. CASE l = R!CancelIt
      <4>1. cancelled' = (rounds # <<>>) /\ UNCHANGED <<buffer, await, heard, rounds, saved>>
        BY <1>2, <3>3 DEF R!Takes, R!CancelIt
      <4>2. QED
        BY <3>1, <3>3, <4>1
    <3>4. CASE \E x \in R!Policies : l = R!SetTo(x)
      <4>1. PICK x \in R!Policies : l = R!SetTo(x)
        BY <3>4
      <4>2. saved' = x /\ UNCHANGED <<buffer, await, heard, rounds, cancelled>>
        BY <1>2, <4>1 DEF R!Takes, R!SetTo, R!Policies
      <4>3. QED
        BY <3>1, <4>1, <4>2
    <3>5. QED
      BY <1>8, <3>2, <3>3, <3>4 DEF R!Line
  <2>2. R!TypeOK'
    BY <1>1, <1>2, <1>3, <1>4, <1>5, <2>1 DEF R!TypeOK
  <2>3. SnapIsFresh'
    BY <1>1, <1>5, <2>1 DEF RelayInv, SnapIsFresh
  <2>4. AskedOnce'
    BY <1>1, <1>2, <1>4, <2>1 DEF RelayInv, AskedOnce, Nowhere
  <2>5. CancelsKnown'
    BY <1>2, <1>5, <2>1 DEF RelayInv, CancelsKnown
  <2>6. Kept' /\ HeardOnce'
    BY <1>5, <2>1 DEF RelayInv, Kept, HeardOnce
  <2>7. \A q : Pending(q)' <=> Pending(q)
    BY <1>4 DEF Pending
  <2>8. OnePlaceEach'
    <3>1. ASSUME "dropped" \notin mishap', "raced" \notin mishap', NEW q \in R!Requests
          PROVE  AtOnePlace(q)'
      <4>1. AtOnePlace(q)
        BY <1>1, <1>5, <3>1 DEF RelayInv, OnePlaceEach
      <4>2. /\ Once(R!Ask(q), up) /\ Once(q, sess'.perms) /\ Once(q, sess'.quests)
            /\ Once(R!Answer(q), sess'.out) /\ Once(R!Answer(q), rest')
            /\ ~(In(q, sess'.perms) /\ In(q, sess'.quests))
            /\ In(R!Ask(q), up) => ~Pending(q) /\ ~In(R!Answer(q), sess'.out)
            /\ Pending(q) => ~In(R!Answer(q), sess'.out)
        BY <1>2, <1>4, <4>1 DEF AtOnePlace
      <4>3. /\ In(R!Ask(q), up) \/ In(R!Ask(q), buffer) => heard[q] = 0
            /\ Pending(q) \/ In(R!Answer(q), sess'.out) \/ In(R!Answer(q), rest') => heard[q] = 0
        BY <1>2, <4>1 DEF AtOnePlace
      <4>4. QED
        BY <1>1, <2>1, <2>7, <4>2, <4>3 DEF AtOnePlace
    <3>2. QED
      BY <3>1 DEF OnePlaceEach
  <2>9. Awaited'
    BY <1>1, <1>5, <2>1, <2>7 DEF RelayInv, Awaited
  <2>10. LastShows'
    <3>1. \A q \in R!Requests : In(R!Answer(q), sess.out) => In(R!Answer(q), sess'.out)
      BY <1>2, <1>8
    <3>2. \A q : Held(q) => Held(q)'
      BY <1>1, <1>4 DEF Held
    <3>3. QED
      BY <1>1, <1>5, <2>1, <3>1, <3>2 DEF RelayInv, LastShows
  <2>11. QED
    BY <1>6, <2>2, <2>3, <2>4, <2>5, <2>6, <2>8, <2>9, <2>10 DEF RelayInv
<1>9. QED
  BY <1>7, <1>8

(* What comes next keeps its place before what ends a replay. *)
LEMMA ComesNext ==
  ASSUME NEW q \in Seq(R!Wire), q # <<>>, NEW t, t = Tail(q), NEW r, Coming(r, q)
  PROVE  \/ q[1] # R!Ask(r) /\ Coming(r, t)
         \/ q[1] = R!Ask(r) /\ \A i \in 1..Len(t) : Closing(t[i])
         \/ q[1] = R!Ask(r) /\ Coming(r, t)
<1>1. /\ Len(q) \in Nat /\ Len(t) \in Nat /\ Len(t) = Len(q) - 1
      /\ \A i \in 1..Len(t) : i + 1 \in 1..Len(q) /\ t[i] = q[i + 1]
  BY InShorter
<1>2. PICK i \in 1..Len(q) : q[i] = R!Ask(r) /\ \A j \in (i + 1)..Len(q) : Closing(q[j])
  BY DEF Coming
<1>3. CASE i = 1
  <2>1. ASSUME NEW j \in 1..Len(t) PROVE Closing(t[j])
    <3>1. j + 1 \in (i + 1)..Len(q) /\ t[j] = q[j + 1]
      BY <1>1, <1>3
    <3>2. QED
      BY <1>2, <3>1
  <2>2. QED
    BY <1>2, <1>3, <2>1
<1>4. CASE i # 1
  <2>1. i - 1 \in 1..Len(t) /\ (i - 1) + 1 = i
    BY <1>1, <1>4
  <2>2. t[i - 1] = R!Ask(r)
    BY <1>1, <1>2, <2>1
  <2>3. ASSUME NEW j \in ((i - 1) + 1)..Len(t) PROVE Closing(t[j])
    <3>1. j + 1 \in (i + 1)..Len(q) /\ j \in 1..Len(t)
      BY <1>1, <2>1
    <3>2. t[j] = q[j + 1]
      BY <1>1, <3>1
    <3>3. QED
      BY <1>2, <3>1, <3>2
  <2>4. Coming(r, t)
    BY <2>1, <2>2, <2>3 DEF Coming
  <2>5. QED
    BY <2>4
<1>5. QED
  BY <1>3, <1>4

(* The session takes a frame. *)
LEMMA FrameTaken ==
  ASSUME RelayInv, R!Handle
  PROVE  \E f \in R!Wire :
           /\ In(f, up) /\ up' \in Seq(R!Wire)
           /\ \A x : In(x, up') => In(x, up)
           /\ \A x : Once(x, up) => Once(x, up') /\ (x = f => ~In(x, up'))
           /\ \A r : Coming(r, up) => \/ Coming(r, up')
                                      \/ f = R!Ask(r) /\ \A i \in 1..Len(up') : Closing(up'[i])
           /\ (\A i \in 1..Len(up) : Closing(up[i])) =>
                Closing(f) /\ \A i \in 1..Len(up') : Closing(up'[i])
           /\ f = Head(up)
<1>1. up # <<>> /\ up' = Tail(up) /\ up \in Seq(R!Wire)
  BY Lists DEF R!Handle, RelayInv
<1>2. PICK q, t : q = up /\ t = up' /\ t = Tail(q)
  BY <1>1
<1>3. q \in Seq(R!Wire) /\ q # <<>> /\ t = Tail(q)
  BY <1>1, <1>2
<1>4. /\ t \in Seq(R!Wire) /\ Len(q) \in Nat /\ Len(q) >= 1 /\ Head(q) = q[1] /\ q[1] \in R!Wire
      /\ \A i \in 1..Len(t) : i + 1 \in 1..Len(q) /\ t[i] = q[i + 1]
      /\ \A x : In(x, q) <=> In(x, t) \/ x = q[1]
      /\ \A x : Once(x, q) => Once(x, t) /\ (x = q[1] => ~In(x, t))
  <2>1. /\ t \in Seq(R!Wire) /\ Head(q) = q[1] /\ q[1] \in R!Wire
        /\ \A x : In(x, q) <=> In(x, t) \/ x = q[1]
        /\ \A x : Once(x, q) => Once(x, t) /\ (x = q[1] => ~In(x, t))
    BY <1>3, InShorter
  <2>2. /\ Len(q) \in Nat /\ Len(q) >= 1
        /\ \A i \in 1..Len(t) : i + 1 \in 1..Len(q) /\ t[i] = q[i + 1]
    BY <1>3, InShorter
  <2>3. QED
    BY <2>1, <2>2
<1>5. PICK f \in R!Wire : f = q[1] /\ f = Head(up)
  BY <1>2, <1>4
<1>6. ASSUME NEW r, Coming(r, q)
      PROVE  Coming(r, t) \/ (f = R!Ask(r) /\ \A i \in 1..Len(t) : Closing(t[i]))
  BY <1>3, <1>5, <1>6, ComesNext
<1>7. (\A i \in 1..Len(q) : Closing(q[i])) => Closing(f) /\ \A i \in 1..Len(t) : Closing(t[i])
  BY <1>4, <1>5
<1>8. In(f, up) /\ up' \in Seq(R!Wire) /\ (\A x : In(x, up') => In(x, up))
  BY <1>2, <1>4, <1>5
<1>9. \A x : Once(x, up) => Once(x, up') /\ (x = f => ~In(x, up'))
  BY <1>2, <1>4, <1>5
<1>10. QED
  BY <1>2, <1>5, <1>6, <1>7, <1>8, <1>9

(* The connection closes with its agent. *)
LEMMA ClosedKeeps ==
  ASSUME RelayInv, R!TypeOK', ~alive, link' = FALSE, phase' = "closed",
         \A x : In(x, up') => In(x, up),
         UNCHANGED <<alive, kind, await, heard, cancelled, hand, buffer, taking, snap, rest, sess,
                     last, mishap>>
  PROVE  RelayInv'
<1>1. Links' /\ SnapIsFresh'
  BY DEF RelayInv, Links, SnapIsFresh
<1>2. AskedOnce'
  BY DEF RelayInv, AskedOnce, Nowhere
<1>3. CancelsKnown' /\ Kept' /\ HeardOnce'
  BY DEF RelayInv, CancelsKnown, Kept, HeardOnce
<1>4. OnePlaceEach' /\ Awaited' /\ LastShows'
  BY DEF OnePlaceEach, Awaited, LastShows
<1>5. QED
  BY <1>1, <1>2, <1>3, <1>4 DEF RelayInv

(* A request is shown, or answered by the policy. *)
LEMMA AskedKeeps ==
  ASSUME RelayInv, R!TypeOK', NEW r \in R!Requests, phase = "open",
         In(R!Ask(r), up),
         \A x : In(x, up') => In(x, up),
         \A x : Once(x, up) => Once(x, up') /\ (x = R!Ask(r) => ~In(x, up')),
         \A q : Coming(q, up) => \/ Coming(q, up')
                                 \/ R!Ask(r) = R!Ask(q) /\ \A i \in 1..Len(up') : Closing(up'[i]),
         ~\A i \in 1..Len(up) : Closing(up[i]),
         \/ /\ UNCHANGED <<sess.perms, sess.quests>>
            /\ sess'.out = Append(sess.out, R!Answer(r))
         \/ /\ kind[r] = "permission" /\ UNCHANGED <<sess.quests, sess.out>>
            /\ sess'.perms = Append(sess.perms, r) /\ sess'.activity = "attention"
         \/ /\ kind[r] # "permission" /\ UNCHANGED <<sess.perms, sess.out>>
            /\ sess'.quests = Append(sess.quests, r) /\ sess'.activity = "attention",
         UNCHANGED <<alive, kind, await, heard, cancelled, hand, buffer, taking, snap, link, rest,
                     phase, last, mishap>>
  PROVE  RelayInv'
<1>1. R!TypeOK /\ kind[r] # "none" /\ R!Answer(r) # R!CancelIt /\ R!Answer(r) \in R!Line
  BY Words DEF RelayInv, AskedOnce, Nowhere
<1>2. ASSUME NEW q, NEW t, q \in Seq(R!Requests), t = Append(q, r)
      PROVE  /\ \A x : In(x, t) <=> In(x, q) \/ x = r
             /\ \A x : Once(x, q) /\ (x = r => ~In(x, q)) => Once(x, t)
  <2>1. Longer(t, q, r) /\ q \in Seq(R!Requests)
    BY <1>2 DEF Longer
  <2>2. QED
    BY <2>1, InLonger
<1>3. /\ \A x : In(x, sess'.out) => In(x, sess.out) \/ x = R!Answer(r)
      /\ \A x : In(x, sess.out) => In(x, sess'.out)
      /\ \A x : In(x, sess'.perms) => In(x, sess.perms) \/ (x = r /\ sess'.out = sess.out)
      /\ \A x : In(x, sess.perms) => In(x, sess'.perms)
      /\ \A x : In(x, sess'.quests) => In(x, sess.quests) \/ (x = r /\ sess'.out = sess.out)
      /\ sess'.perms = sess.perms \/ sess'.quests = sess.quests
      /\ \A x : Once(x, sess.out) /\ (x = R!Answer(r) => ~In(x, sess.out)) => Once(x, sess'.out)
      /\ \A x : Once(x, sess.perms) /\ (x = r => ~In(x, sess.perms)) => Once(x, sess'.perms)
      /\ \A x : Once(x, sess.quests) /\ (x = r => ~In(x, sess.quests)) => Once(x, sess'.quests)
  <2>1. CASE UNCHANGED <<sess.perms, sess.quests>> /\ sess'.out = Append(sess.out, R!Answer(r))
    <3>1. /\ \A x : In(x, sess'.out) <=> In(x, sess.out) \/ x = R!Answer(r)
          /\ \A x : Once(x, sess.out) /\ (x = R!Answer(r) => ~In(x, sess.out)) => Once(x, sess'.out)
      BY <1>1, <2>1, LineSent
    <3>2. QED
      BY <2>1, <3>1
  <2>2. CASE UNCHANGED <<sess.quests, sess.out>> /\ sess'.perms = Append(sess.perms, r)
    <3>1. PICK q, t : q = sess.perms /\ t = sess'.perms /\ q \in Seq(R!Requests) /\ t = Append(q, r)
      BY <1>1, <2>2, Lists
    <3>2. /\ \A x : In(x, t) <=> In(x, q) \/ x = r
          /\ \A x : Once(x, q) /\ (x = r => ~In(x, q)) => Once(x, t)
      BY <1>2, <3>1
    <3>3. QED
      BY <2>2, <3>1, <3>2
  <2>3. CASE UNCHANGED <<sess.perms, sess.out>> /\ sess'.quests = Append(sess.quests, r)
    <3>1. PICK q, t : q = sess.quests /\ t = sess'.quests /\ q \in Seq(R!Requests) /\ t = Append(q, r)
      BY <1>1, <2>3, Lists
    <3>2. /\ \A x : In(x, t) <=> In(x, q) \/ x = r
          /\ \A x : Once(x, q) /\ (x = r => ~In(x, q)) => Once(x, t)
      BY <1>2, <3>1
    <3>3. QED
      BY <2>3, <3>1, <3>2
  <2>4. QED
    BY <2>1, <2>2, <2>3
<1>4. Links' /\ SnapIsFresh'
  <2>1. alive /\ ~link => FALSE
    BY DEF RelayInv, Links
  <2>2. QED
    BY <2>1 DEF RelayInv, Links, SnapIsFresh
<1>5. AskedOnce'
  <2>1. ASSUME NEW q \in R!Requests, kind[q] = "none" PROVE Nowhere(q)'
    <3>1. Nowhere(q) /\ q # r
      BY <1>1, <2>1 DEF RelayInv, AskedOnce
    <3>2. R!Answer(q) # R!Answer(r)
      BY <3>1, Words
    <3>3. QED
      BY <1>3, <3>1, <3>2 DEF Nowhere
  <2>2. QED
    BY <2>1 DEF RelayInv, AskedOnce
<1>6. CancelsKnown' /\ Kept' /\ HeardOnce'
  BY <1>1, <1>3 DEF RelayInv, CancelsKnown, Kept, HeardOnce
<1>7. OnePlaceEach'
  <2>1. ASSUME alive, "dropped" \notin mishap, "raced" \notin mishap, NEW q \in R!Requests
        PROVE  AtOnePlace(q)'
    <3>1. AtOnePlace(q)
      BY <2>1 DEF RelayInv, OnePlaceEach
    <3>2. CASE q # r
      <4>1. R!Answer(q) # R!Answer(r)
        BY <3>2, Words
      <4>2. /\ Once(R!Ask(q), up') /\ Once(q, sess'.perms) /\ Once(q, sess'.quests)
            /\ Once(R!Answer(q), sess'.out) /\ Once(R!Answer(q), rest)
            /\ In(R!Ask(q), up') => In(R!Ask(q), up)
            /\ In(R!Answer(q), sess'.out) => In(R!Answer(q), sess.out)
            /\ In(q, sess'.perms) => In(q, sess.perms)
            /\ In(q, sess'.quests) => In(q, sess.quests)
        BY <1>3, <3>1, <3>2, <4>1 DEF AtOnePlace
      <4>3. QED
        BY <3>1, <4>2 DEF AtOnePlace, Pending
    <3>3. CASE q = r
      <4>1. /\ ~In(R!Ask(r), up') /\ ~In(r, sess.perms) /\ ~In(r, sess.quests)
            /\ ~In(R!Answer(r), sess.out) /\ heard[r] = 0 /\ Once(R!Ask(r), up')
            /\ Once(r, sess.perms) /\ Once(r, sess.quests)
            /\ Once(R!Answer(r), sess.out) /\ Once(R!Answer(r), rest)
        BY <3>1, <3>3 DEF AtOnePlace, Pending
      <4>2. /\ Once(r, sess'.perms) /\ Once(r, sess'.quests) /\ Once(R!Answer(r), sess'.out)
            /\ ~(In(r, sess'.perms) /\ In(r, sess'.quests))
        BY <1>3, <4>1
      <4>3. Pending(r)' => ~In(R!Answer(r), sess'.out)
        BY <1>3, <4>1 DEF Pending
      <4>4. QED
        BY <3>3, <4>1, <4>2, <4>3 DEF AtOnePlace
    <3>4. QED
      BY <3>2, <3>3
  <2>2. QED
    BY <2>1 DEF OnePlaceEach
<1>8. Awaited'
  <2>1. ASSUME alive, mishap = {}, NEW q \in R!Requests,
               In(R!Ask(q), buffer) \/ In(R!Ask(q), up') \/ Pending(q)'
        PROVE  q \in await
    <3>1. In(R!Ask(q), buffer) \/ In(R!Ask(q), up) \/ Pending(q)
      BY <1>3, <2>1 DEF Pending
    <3>2. QED
      BY <2>1, <3>1 DEF RelayInv, Awaited
  <2>2. QED
    BY <2>1 DEF Awaited
<1>9. LastShows'
  <2>1. ASSUME alive, "raced" \notin mishap, NEW q \in R!Requests,
               last = R!Ask(q), q \in await, kind[q] = "permission", link
        PROVE  Coming(q, up') \/ Held(q)' \/ In(R!Answer(q), sess'.out)
    <3>1. Coming(q, up) \/ In(R!Answer(q), sess.out)
      BY <2>1 DEF RelayInv, LastShows, Held
    <3>2. CASE In(R!Answer(q), sess.out)
      BY <1>3, <3>2
    <3>3. CASE Coming(q, up')
      BY <3>3
    <3>4. CASE R!Ask(r) = R!Ask(q) /\ \A i \in 1..Len(up') : Closing(up'[i])
      <4>1. q = r
        BY <3>4, Words
      <4>2. CASE sess'.out = Append(sess.out, R!Answer(r))
        BY <1>1, <4>1, <4>2, LineSent
      <4>3. CASE sess'.perms = Append(sess.perms, r) /\ sess'.activity = "attention"
        <5>1. PICK l, t : l = sess.perms /\ t = sess'.perms /\ l \in Seq(R!Requests) /\ t = Append(l, r)
          BY <1>1, <4>3, Lists
        <5>2. In(r, t)
          BY <1>2, <5>1
        <5>3. In(q, sess'.perms)
          BY <4>1, <5>1, <5>2
        <5>4. QED
          BY <3>4, <4>3, <5>3 DEF Held
      <4>4. QED
        BY <2>1, <4>1, <4>2, <4>3
    <3>5. QED
      BY <3>1, <3>2, <3>3, <3>4
  <2>2. QED
    BY <2>1 DEF RelayInv, LastShows
<1>10. QED
  BY <1>4, <1>5, <1>6, <1>7, <1>8, <1>9 DEF RelayInv

(* Another frame claims an activity at most. *)
LEMMA FrameKeeps ==
  ASSUME RelayInv, R!TypeOK', NEW f \in R!Wire, phase = "open",
         \A r \in R!Requests : f # R!Ask(r),
         \A x : In(x, up') => In(x, up),
         \A x : Once(x, up) => Once(x, up'),
         \A q : Coming(q, up) => \/ Coming(q, up')
                                 \/ f = R!Ask(q) /\ \A i \in 1..Len(up') : Closing(up'[i]),
         (\A i \in 1..Len(up) : Closing(up[i])) =>
                Closing(f) /\ \A i \in 1..Len(up') : Closing(up'[i]),
         UNCHANGED <<sess.perms, sess.quests, sess.out>>,
         Closing(f) /\ sess.perms # <<>> => sess'.activity = sess.activity,
         UNCHANGED <<alive, kind, await, heard, cancelled, hand, buffer, taking, snap, link, rest,
                     phase, last, mishap>>
  PROVE  RelayInv'
<1>1. Links' /\ SnapIsFresh'
  <2>1. alive /\ ~link => FALSE
    BY DEF RelayInv, Links
  <2>2. QED
    BY <2>1 DEF RelayInv, Links, SnapIsFresh
<1>2. AskedOnce'
  BY DEF RelayInv, AskedOnce, Nowhere
<1>3. CancelsKnown' /\ Kept' /\ HeardOnce'
  BY DEF RelayInv, CancelsKnown, Kept, HeardOnce
<1>4. \A q : Pending(q)' <=> Pending(q)
  BY DEF Pending
<1>5. OnePlaceEach'
  BY <1>4 DEF RelayInv, OnePlaceEach, AtOnePlace
<1>6. Awaited'
  BY <1>4 DEF RelayInv, Awaited
<1>7. LastShows'
  <2>1. ASSUME NEW q \in R!Requests, Held(q) PROVE Held(q)'
    <3>1. sess.perms # <<>>
      BY <2>1, InNone DEF Held
    <3>2. QED
      BY <2>1, <3>1 DEF Held
  <2>2. \A q \in R!Requests : Coming(q, up) => Coming(q, up')
    OBVIOUS
  <2>3. QED
    BY <2>1, <2>2 DEF RelayInv, LastShows
<1>8. QED
  BY <1>1, <1>2, <1>3, <1>5, <1>6, <1>7 DEF RelayInv

LEMMA HandleKeeps == ASSUME R!RelayAssumption, RelayInv, R!Handle PROVE RelayInv'
<1>1. /\ phase = "open"
      /\ UNCHANGED <<alive, kind, await, heard, rounds, cancelled, updates, hand, buffer, taking,
                     snap, rest, saved, policy, events, last, mishap>>
  BY DEF R!Handle, R!agent
<1>2. PICK f \in R!Wire :
        /\ In(f, up) /\ up' \in Seq(R!Wire)
        /\ \A x : In(x, up') => In(x, up)
        /\ \A x : Once(x, up) => Once(x, up') /\ (x = f => ~In(x, up'))
        /\ \A r : Coming(r, up) => \/ Coming(r, up')
                                   \/ f = R!Ask(r) /\ \A i \in 1..Len(up') : Closing(up'[i])
        /\ (\A i \in 1..Len(up) : Closing(up[i])) =>
             Closing(f) /\ \A i \in 1..Len(up') : Closing(up'[i])
        /\ f = Head(up)
  BY FrameTaken
<1>3. R!TypeOK
  BY DEF RelayInv
<1>4. CASE f = R!Exited /\ R!Close /\ sess' = sess
  <2>1. /\ link' = FALSE /\ phase' = "closed"
        /\ outcome' = [p \in R!Prompts |-> IF outcome[p] = "waiting" THEN "failed" ELSE outcome[p]]
    BY <1>4 DEF R!Close
  <2>2. outcome' \in [R!Prompts -> {"none", "waiting", "answered", "ended", "failed", "gone"}]
    BY <1>3, <2>1 DEF R!TypeOK
  <2>3. R!TypeOK'
    BY <1>1, <1>2, <1>3, <1>4, <2>1, <2>2 DEF R!TypeOK
  <2>4. ~alive
    BY <1>2, <1>4 DEF RelayInv, Links
  <2>5. QED
    BY <1>1, <1>2, <1>4, <2>1, <2>3, <2>4, ClosedKeeps
<1>5. CASE /\ f[1] = "result" /\ outcome' = [outcome EXCEPT ![f[2]] = "answered"]
           /\ UNCHANGED <<phase, link, sess>>
  <2>1. f[2] \in R!Prompts /\ \A r \in R!Requests : f # R!Ask(r)
    BY <1>5, Words DEF R!Wire, R!Frame, R!Buffered, R!Update, R!Ask, R!Result, R!Exited, R!Begins,
       R!Past, R!Over
  <2>2. R!TypeOK'
    BY <1>1, <1>2, <1>3, <1>5, <2>1 DEF R!TypeOK
  <2>3. QED
    BY <1>1, <1>2, <1>5, <2>1, <2>2, FrameKeeps
<1>6. CASE sess' = R!Received(sess, f) /\ UNCHANGED <<phase, link, outcome>>
  <2>1. CASE \E r \in R!Requests : f = R!Ask(r)
    <3>1. PICK r \in R!Requests : f = R!Ask(r)
      BY <2>1
    <3>2. sess' = R!Asked(sess, r)
      <4>1. /\ f[1] = "ask" /\ f[2] = r /\ f # R!Update /\ f[1] # "result" /\ f # R!Over(TRUE)
        BY <3>1, Words DEF Closing
      <4>2. QED
        BY <1>6, <4>1 DEF R!Received
    <3>3. R!Answer(r) \in R!Line /\ ~Closing(R!Ask(r))
      BY Words
    <3>4. \/ sess' = [sess EXCEPT !.out = Append(sess.out, R!Answer(r))]
          \/ /\ kind[r] = "permission"
             /\ sess' = [sess EXCEPT !.perms = Append(sess.perms, r), !.activity = "attention"]
          \/ /\ kind[r] # "permission"
             /\ sess' = [sess EXCEPT !.quests = Append(sess.quests, r), !.activity = "attention"]
      BY <1>3, <3>2 DEF R!Asked, R!Sends, R!ClaimsAs, R!TypeOK
    <3>5. /\ sess' \in [perms : Seq(R!Requests), quests : Seq(R!Requests), out : Seq(R!Line),
                        activity : {"unknown", "active", "idle", "attention"}]
          /\ \/ /\ UNCHANGED <<sess.perms, sess.quests>>
                /\ sess'.out = Append(sess.out, R!Answer(r))
             \/ /\ kind[r] = "permission" /\ UNCHANGED <<sess.quests, sess.out>>
                /\ sess'.perms = Append(sess.perms, r) /\ sess'.activity = "attention"
             \/ /\ kind[r] # "permission" /\ UNCHANGED <<sess.perms, sess.out>>
                /\ sess'.quests = Append(sess.quests, r) /\ sess'.activity = "attention"
      <4>1. /\ sess = [perms |-> sess.perms, quests |-> sess.quests, out |-> sess.out,
                       activity |-> sess.activity]
            /\ sess.perms \in Seq(R!Requests) /\ sess.quests \in Seq(R!Requests)
            /\ sess.out \in Seq(R!Line)
            /\ sess.activity \in {"unknown", "active", "idle", "attention"}
        BY <1>3 DEF R!TypeOK
      <4>2. CASE sess' = [sess EXCEPT !.out = Append(sess.out, R!Answer(r))]
        <5>1. PICK o : o = Append(sess.out, R!Answer(r)) /\ o \in Seq(R!Line)
          <6>1. PICK q \in Seq(R!Line) : q = sess.out
            BY <4>1
          <6>2. Append(q, R!Answer(r)) \in Seq(R!Line)
            BY <3>3
          <6>3. QED
            BY <6>1, <6>2
        <5>2. sess' = [perms |-> sess.perms, quests |-> sess.quests, out |-> o,
                       activity |-> sess.activity]
          BY <4>1, <4>2, <5>1
        <5>3. QED
          BY <4>1, <5>1, <5>2
      <4>3. CASE /\ kind[r] = "permission"
                 /\ sess' = [sess EXCEPT !.perms = Append(sess.perms, r), !.activity = "attention"]
        <5>1. PICK o : o = Append(sess.perms, r) /\ o \in Seq(R!Requests)
          <6>1. PICK q \in Seq(R!Requests) : q = sess.perms
            BY <4>1
          <6>2. Append(q, r) \in Seq(R!Requests)
            BY <3>3
          <6>3. QED
            BY <6>1, <6>2
        <5>2. sess' = [perms |-> o, quests |-> sess.quests, out |-> sess.out,
                       activity |-> "attention"]
          BY <4>1, <4>3, <5>1
        <5>3. QED
          BY <4>1, <4>3, <5>1, <5>2
      <4>4. CASE /\ kind[r] # "permission"
                 /\ sess' = [sess EXCEPT !.quests = Append(sess.quests, r), !.activity = "attention"]
        <5>1. PICK o : o = Append(sess.quests, r) /\ o \in Seq(R!Requests)
          <6>1. PICK q \in Seq(R!Requests) : q = sess.quests
            BY <4>1
          <6>2. Append(q, r) \in Seq(R!Requests)
            BY <3>3
          <6>3. QED
            BY <6>1, <6>2
        <5>2. sess' = [perms |-> sess.perms, quests |-> o, out |-> sess.out,
                       activity |-> "attention"]
          BY <4>1, <4>4, <5>1
        <5>3. QED
          BY <4>1, <4>4, <5>1, <5>2
      <4>5. QED
        BY <3>4, <4>2, <4>3, <4>4
    <3>6. R!TypeOK'
      BY <1>1, <1>2, <1>3, <1>6, <3>5 DEF R!TypeOK
    <3>7. ~\A i \in 1..Len(up) : Closing(up[i])
      BY <1>2, <3>1, <3>3
    <3>8. In(R!Ask(r), up)
      BY <1>2, <3>1
    <3>9. /\ \A x : Once(x, up) => Once(x, up') /\ (x = R!Ask(r) => ~In(x, up'))
          /\ \A q : Coming(q, up) => \/ Coming(q, up')
                                     \/ R!Ask(r) = R!Ask(q) /\ \A i \in 1..Len(up') : Closing(up'[i])
      BY <1>2, <3>1
    <3>10. QED
      BY <1>1, <1>2, <1>6, <3>5, <3>6, <3>7, <3>8, <3>9, AskedKeeps
  <2>2. CASE \A r \in R!Requests : f # R!Ask(r)
    <3>1. f[1] # "ask"
      BY <2>2 DEF R!Wire, R!Frame, R!Buffered, R!Update, R!Ask, R!Result, R!Exited, R!Begins,
         R!Past, R!Over
    <3>2. \/ sess' = sess
          \/ f = R!Update /\ sess' = [sess EXCEPT !.activity = "active"]
          \/ f[1] = "result" /\ sess' = [sess EXCEPT !.activity = "idle"]
          \/ sess.perms = <<>> /\ sess' = [sess EXCEPT !.activity = "active"]
      <4>1. sess' = R!Received(sess, f)
        BY <1>6
      <4>2. CASE f = R!Update
        <5>1. f[1] # "result" /\ f # R!Over(TRUE)
          BY <4>2 DEF R!Update, R!Over
        <5>2. QED
          BY <3>1, <4>1, <4>2, <5>1 DEF R!Received, R!ClaimsAs
      <4>3. CASE f[1] = "result"
        <5>1. f # R!Update /\ f # R!Over(TRUE)
          BY <4>3 DEF R!Update, R!Over
        <5>2. QED
          BY <3>1, <4>1, <4>3, <5>1 DEF R!Received, R!ClaimsAs
      <4>4. CASE f # R!Update /\ f[1] # "result" /\ f = R!Over(TRUE) /\ sess.perms = <<>>
        BY <3>1, <4>1, <4>4 DEF R!Received, R!ClaimsAs
      <4>5. CASE f # R!Update /\ f[1] # "result" /\ ~(f = R!Over(TRUE) /\ sess.perms = <<>>)
        BY <3>1, <4>1, <4>5 DEF R!Received
      <4>6. QED
        BY <4>2, <4>3, <4>4, <4>5
    <3>3. ~Closing(R!Update) /\ (f[1] = "result" => ~Closing(f))
      BY DEF Closing, R!Update, R!Over
    <3>4. /\ sess'.perms = sess.perms /\ sess'.quests = sess.quests /\ sess'.out = sess.out
          /\ sess' \in [perms : Seq(R!Requests), quests : Seq(R!Requests), out : Seq(R!Line),
                        activity : {"unknown", "active", "idle", "attention"}]
      <4>1. sess \in [perms : Seq(R!Requests), quests : Seq(R!Requests), out : Seq(R!Line),
                       activity : {"unknown", "active", "idle", "attention"}]
        BY <1>3 DEF R!TypeOK
      <4>2. CASE sess' = sess
        BY <4>1, <4>2
      <4>3. CASE sess' = [sess EXCEPT !.activity = "active"]
        BY <4>1, <4>3
      <4>4. CASE sess' = [sess EXCEPT !.activity = "idle"]
        BY <4>1, <4>4
      <4>5. QED
        BY <3>2, <4>2, <4>3, <4>4
    <3>5. Closing(f) /\ sess.perms # <<>> => sess'.activity = sess.activity
      BY <3>2, <3>3
    <3>6. R!TypeOK'
      BY <1>1, <1>2, <1>3, <1>6, <3>4 DEF R!TypeOK
    <3>7. QED
      BY <1>1, <1>2, <1>6, <2>2, <3>4, <3>5, <3>6, FrameKeeps
  <2>3. QED
    BY <2>1, <2>2
<1>7. QED
  BY <1>2, <1>4, <1>5, <1>6 DEF R!Handle

-----------------------------------------------------------------------------
(* One step per action of Relay. *)
LEMMA RelayStep == ASSUME R!RelayAssumption, RelayInv, R!Next PROVE RelayInv'
BY AgentWorksKeeps, AgentAsksKeeps, TurnEndsKeeps, AgentExitsKeeps, SendsOnKeeps, HolderReadsKeeps,
   AttachReadsKeeps, AttachInstallsKeeps, HandleKeeps, PromptSendsKeeps, PromptIsLateKeeps,
   PromptReturnsKeeps, CancelKeeps, AnswerPermissionKeeps, AnswerQuestionKeeps, SetPolicyKeeps,
   DropKeeps, ConnectFailsKeeps, RestartKeeps DEF R!Next

LEMMA RelayAside == ASSUME RelayInv, UNCHANGED relay PROVE RelayInv'
<1>1. R!TypeOK' /\ Links' /\ SnapIsFresh' /\ CancelsKnown' /\ Kept' /\ HeardOnce'
  BY DEF relay, RelayInv, R!TypeOK, Links, SnapIsFresh, CancelsKnown, Kept, HeardOnce
<1>2. AskedOnce' /\ Awaited'
  BY DEF relay, RelayInv, AskedOnce, Nowhere, Awaited, Pending
<1>3. OnePlaceEach'
  BY DEF relay, RelayInv, OnePlaceEach, AtOnePlace, Pending
<1>4. LastShows'
  BY DEF relay, RelayInv, LastShows, Held
<1>5. QED
  BY <1>1, <1>2, <1>3, <1>4 DEF RelayInv

(* A list and the set of its elements. *)
LEMMA InIsMember ==
  ASSUME NEW E, NEW q \in Seq(E), NEW x
  PROVE  x \in R!ToSet(q) <=> In(x, q)
BY DEF R!ToSet, In

(* The promises of the relay, from its invariant. *)
LEMMA RelayPromises ==
  ASSUME RelayInv
  PROVE  R!TypeOK /\ R!RequestsAreKept /\ R!AnsweredOnce /\ R!ShownIsAsked /\ R!BlockedIsAttention
<1>1. R!TypeOK
  BY DEF RelayInv
<1>2. /\ \A x : x \in R!ToSet(buffer) <=> In(x, buffer)
      /\ \A x : x \in R!ToSet(sess.perms) <=> In(x, sess.perms)
      /\ \A x : x \in R!ToSet(sess.quests) <=> In(x, sess.quests)
      /\ \A x : x \in R!ToSet(sess.out) <=> In(x, sess.out)
  BY <1>1, Lists, InIsMember
<1>3. R!RequestsAreKept
  BY <1>2 DEF RelayInv, Kept, R!RequestsAreKept
<1>4. R!AnsweredOnce
  BY DEF RelayInv, HeardOnce, R!AnsweredOnce
<1>5. R!ShownIsAsked
  <2>1. ASSUME mishap = {}, alive, NEW r \in R!Requests, R!Shown(r)
        PROVE  /\ r \in await
               /\ \A q \in {sess.perms, sess.quests} :
                    \A m, n \in DOMAIN q : q[m] = r /\ q[n] = r => m = n
               /\ ~(r \in R!ToSet(sess.perms) /\ r \in R!ToSet(sess.quests))
               /\ R!Answer(r) \notin R!ToSet(sess.out)
    <3>1. Pending(r)
      BY <1>2, <2>1 DEF R!Shown, Pending
    <3>2. AtOnePlace(r) /\ r \in await
      BY <2>1, <3>1 DEF RelayInv, OnePlaceEach, Awaited
    <3>3. DOMAIN sess.perms = 1..Len(sess.perms) /\ DOMAIN sess.quests = 1..Len(sess.quests)
      BY <1>1, Lists
    <3>4. \A q \in {sess.perms, sess.quests} :
            \A m, n \in DOMAIN q : q[m] = r /\ q[n] = r => m = n
      BY <3>2, <3>3 DEF AtOnePlace, Once
    <3>5. QED
      BY <1>2, <3>1, <3>2, <3>4 DEF AtOnePlace
  <2>2. QED
    BY <2>1 DEF R!ShownIsAsked
<1>6. R!BlockedIsAttention
  <2>1. ASSUME NEW r \in R!Requests, R!Handled(r), kind[r] = "permission"
        PROVE  sess.activity = "attention"
    <3>1. /\ link /\ alive /\ up = <<>> /\ r \in await /\ last = R!Ask(r) /\ "raced" \notin mishap
          /\ R!Answer(r) \notin R!ToSet(sess.out)
      BY <2>1 DEF R!Handled
    <3>2. Coming(r, up) \/ Held(r) \/ In(R!Answer(r), sess.out)
      BY <2>1, <3>1 DEF RelayInv, LastShows
    <3>3. ~Coming(r, up)
      BY <3>1 DEF Coming
    <3>4. QED
      BY <1>2, <3>1, <3>2, <3>3 DEF Held
  <2>2. QED
    BY <2>1 DEF R!BlockedIsAttention
<1>7. QED
  BY <1>1, <1>3, <1>4, <1>5, <1>6

(* What an agent asks is kept while it waits and shown once, it is told an answer
   once, and who waits for a permission shows it (holder main.rs: child_wrote,
   daemon_wrote, attach; session.rs: replay, handle_permission, answer).         *)
THEOREM RequestsRelayed ==
  ASSUME R!RelayAssumption PROVE MCSpec => []RequestsAreRelayed
<1>1. MCInit => RelayInv
  BY RelayStart DEF MCInit
<1>2. RelayInv /\ [MCNext]_<<part, relay, handoff, hooks>> => RelayInv'
  BY RelayStep, RelayAside DEF MCNext
<1>3. RelayInv => RequestsAreRelayed
  BY RelayPromises DEF RequestsAreRelayed
<1>4. QED
  BY <1>1, <1>2, <1>3, PTL DEF MCSpec
=============================================================================
