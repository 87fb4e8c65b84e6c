--------------------------- MODULE HandoffProofs ---------------------------
(***************************************************************************)
(* A conversation is in one place with all its turns, for any number of     *)
(* nodes, sessions, handoffs, exports and restarts, as long as nothing went *)
(* on beside a handoff (`trouble`).                                         *)
(***************************************************************************)
EXTENDS Handoff, FiniteSetTheorems, TLAPS

(* Who bears the conversation: a session that has it or is being given it, one
   that is parked, unless its import has been answered and it only waits to be
   ended, and a call whose import has not begun.                             *)
Moving(k) == life[k] \in {"spawned", "loading", "live"}
Doomed(k) == \E c \in waiting : moved[c] = k /\ step[c] = "created"
Parked(k) == life[k] = "suspended" /\ ~Doomed(k)
Goes(c)   == step[c] = "asked"

(* What is launched comes from a parked key or from a call. *)
LaunchesKnown ==
  \A j \in Keys :
    /\ life[j] = "spawned" => /\ from[j] \in Keys /\ by[j] = Nobody
                              /\ at[j] = at[from[j]]
                              /\ life[from[j]] \in {"suspended", "ended"}
    /\ life[j] = "loading" => \/ from[j] \in Keys /\ by[j] = Nobody
                              \/ /\ from[j] = Nobody /\ by[j] \in Calls
                                 /\ step[by[j]] = "importing" /\ at[j] = to[by[j]]

(* The session of a handoff that is waited for, or of an export, does not run. *)
CallsKnown ==
  \A c \in Calls :
    /\ step[c] = "free" => c \notin waiting \cup carried
    /\ c \in waiting => moved[c] \in Keys /\ life[moved[c]] \in {"suspended", "ended"}
    /\ step[c] \in {"asked", "importing"} =>
         /\ moved[c] \in Keys
         /\ c \in waiting \/ (c \in carried /\ life[moved[c]] = "ended")

(* One bears it, or a parked session and what was launched or sent from it. *)
OneBearer ==
  /\ \A j, k \in Keys : Moving(j) /\ Moving(k) => j = k
  /\ \A c, d \in Calls : Goes(c) /\ Goes(d) => c = d
  /\ \A c \in Calls, k \in Keys : ~(Goes(c) /\ Moving(k))
  /\ \A j, k \in Keys : Parked(j) /\ Parked(k) => j = k
  /\ \A j, k \in Keys : Moving(j) /\ Parked(k) =>
       \/ life[j] = "spawned" /\ from[j] = k
       \/ life[j] = "loading" /\ by[j] \in Calls /\ moved[by[j]] = k
  /\ \A c \in Calls, k \in Keys : Goes(c) /\ Parked(k) => moved[c] = k

(* And whoever bears it has all its turns. *)
WholeBearers ==
  /\ \A k \in Keys : Moving(k) \/ Parked(k) => copy[at[k]] = 1..turns
  /\ \A k \in Keys : life[k] = "loading" /\ by[k] \in Calls => packed[by[k]] = 1..turns
  /\ \A c \in Calls : Goes(c) => packed[c] = 1..turns

Ordered == LaunchesKnown /\ CallsKnown /\ OneBearer /\ WholeBearers
HandoffInv == trouble = {} => Ordered

-----------------------------------------------------------------------------
(* The next key is an unborn one ... *)
LEMMA FreshKey == ASSUME Unborn # {} PROVE Fresh \in Keys /\ life[Fresh] = "unborn"
BY DEF Unborn, Fresh

(* ... and the next call is a free one. *)
LEMMA FreeCall ==
  ASSUME \E c \in Calls : step[c] = "free"
  PROVE  NextCall \in Calls /\ step[NextCall] = "free"
BY DEF NextCall

(* What the assumption says of the bounds. *)
LEMMA BoundsAreNumbers ==
  ASSUME HandoffAssumption PROVE MaxTurns \in Nat /\ MaxRestarts \in Nat
BY DEF HandoffAssumption

(* Nobody is neither a key nor a call. *)
LEMMA NobodyIsNone == ASSUME HandoffAssumption PROVE Nobody \notin Keys /\ Nobody \notin Calls
BY DEF HandoffAssumption, Keys, Calls, Nobody

(* Whoever stops bearing the conversation disturbs nobody. *)
LEMMA FewerBear ==
  ASSUME OneBearer, UNCHANGED <<from, by, moved>>,
         \A j \in Keys : /\ Moving(j)' => Moving(j) /\ life'[j] = life[j]
                         /\ Parked(j)' => Parked(j),
         \A c \in Calls : Goes(c)' => Goes(c)
  PROVE  OneBearer'
<1>1. /\ (\A j, k \in Keys : Moving(j) /\ Moving(k) => j = k)'
      /\ (\A c, d \in Calls : Goes(c) /\ Goes(d) => c = d)'
      /\ (\A c \in Calls, k \in Keys : ~(Goes(c) /\ Moving(k)))'
      /\ (\A j, k \in Keys : Parked(j) /\ Parked(k) => j = k)'
      /\ (\A c \in Calls, k \in Keys : Goes(c) /\ Parked(k) => moved[c] = k)'
  BY DEF OneBearer
<1>2. (\A j, k \in Keys : Moving(j) /\ Parked(k) =>
         \/ life[j] = "spawned" /\ from[j] = k
         \/ life[j] = "loading" /\ by[j] \in Calls /\ moved[by[j]] = k)'
  <2> SUFFICES ASSUME NEW j \in Keys, NEW k \in Keys, Moving(j)', Parked(k)'
               PROVE  (\/ life[j] = "spawned" /\ from[j] = k
                       \/ life[j] = "loading" /\ by[j] \in Calls /\ moved[by[j]] = k)'
    OBVIOUS
  <2>1. Moving(j) /\ Parked(k) /\ life'[j] = life[j]
    OBVIOUS
  <2>2. QED
    BY <2>1 DEF OneBearer
<1>3. QED
  BY <1>1, <1>2 DEF OneBearer

(* The agent of the one live session writes the turn where it is. *)
LEMMA TurnKeeps ==
  ASSUME HandoffAssumption, TypeOK, Ordered, trouble = {}, trouble' = {},
         NEW k \in Keys, Turn(k)
  PROVE  Ordered'
<1> USE NobodyIsNone DEF Turn,
        TypeOK, Ordered, sessions, calls, texts, Moving, Parked, Doomed, Goes
<1>1. LaunchesKnown'
  BY DEF LaunchesKnown
<1>2. CallsKnown'
  BY DEF CallsKnown, LaunchesKnown
<1>3. OneBearer'
  BY DEF LaunchesKnown, CallsKnown, OneBearer
<1>4. WholeBearers'
  <2>1. \A j \in Keys : ~Parked(j) /\ (Moving(j) => j = k)
    BY DEF OneBearer
  <2>2. \A c \in Calls : ~Goes(c)
    BY DEF OneBearer
  <2>3. copy'[at[k]] = (1..turns) \cup {turns + 1}
    BY DEF WholeBearers
  <2>4. (1..turns) \cup {turns + 1} = 1..(turns + 1)
    BY DEF HandoffAssumption
  <2>5. copy'[at[k]] = 1..turns' /\ UNCHANGED <<at, life, by, step, moved, waiting>>
    BY <2>3, <2>4
  <2> HIDE DEF Turn, TypeOK, Moving, Parked, Goes
  <2>6. ASSUME NEW j \in Keys PROVE life[j] = "loading" => Moving(j)
    BY DEF Moving
  <2>7. \A j \in Keys : (Moving(j)' <=> Moving(j)) /\ (Parked(j)' <=> Parked(j))
    BY <2>5 DEF Moving, Parked
  <2>8. \A c \in Calls : Goes(c)' <=> Goes(c)
    BY <2>5 DEF Goes
  <2>9. life[k] = "live"
    BY DEF Turn
  <2>10. QED
    BY <2>1, <2>2, <2>5, <2>6, <2>7, <2>8, <2>9 DEF WholeBearers
<1>5. QED
  BY <1>1, <1>2, <1>3, <1>4

(* What ran is parked. *)
LEMMA SuspendKeeps ==
  ASSUME HandoffAssumption, TypeOK, Ordered, trouble = {}, trouble' = {},
         NEW k \in Keys, Suspend(k)
  PROVE  Ordered'
<1> USE NobodyIsNone DEF Suspend,
        TypeOK, Ordered, sessions, calls, texts, Moving, Parked, Doomed, Goes
<1>1. LaunchesKnown'
  BY DEF LaunchesKnown
<1>2. CallsKnown'
  BY DEF CallsKnown, LaunchesKnown
<1>3. OneBearer'
  BY DEF LaunchesKnown, CallsKnown, OneBearer
<1>4. WholeBearers'
  BY DEF LaunchesKnown, CallsKnown, OneBearer, WholeBearers
<1>5. QED
  BY <1>1, <1>2, <1>3, <1>4

(* Nothing was launched or sent from the key that is resumed. *)
LEMMA ResumeKeeps ==
  ASSUME HandoffAssumption, TypeOK, Ordered, trouble = {}, trouble' = {},
         NEW k \in Keys, Resume(k)
  PROVE  Ordered'
<1> USE NobodyIsNone, FreshKey DEF Resume, Spawn, Resuming, IsOut,
        TypeOK, Ordered, sessions, calls, texts, Moving, Parked, Doomed, Goes
<1>1. LaunchesKnown'
  BY DEF LaunchesKnown
<1>2. CallsKnown'
  BY DEF CallsKnown, LaunchesKnown
<1>3. OneBearer'
  BY DEF LaunchesKnown, CallsKnown, OneBearer
<1>4. WholeBearers'
  BY DEF LaunchesKnown, CallsKnown, OneBearer, WholeBearers
<1>5. QED
  BY <1>1, <1>2, <1>3, <1>4

(* The new key takes over from the old one. *)
LEMMA ResumeUnparksKeeps ==
  ASSUME HandoffAssumption, TypeOK, Ordered, trouble = {}, trouble' = {},
         NEW k \in Keys, ResumeUnparks(k)
  PROVE  Ordered'
<1> USE NobodyIsNone DEF ResumeUnparks,
        TypeOK, Ordered, sessions, calls, texts, Moving, Parked, Doomed, Goes
<1>1. LaunchesKnown'
  BY DEF LaunchesKnown
<1>2. CallsKnown'
  BY DEF CallsKnown, LaunchesKnown
<1>3. OneBearer'
  <2>1. \A i \in Keys : ~Parked(i)'
    BY DEF LaunchesKnown, OneBearer
  <2>2. \A i \in Keys : Moving(i)' => i = k
    BY DEF LaunchesKnown, OneBearer
  <2>3. \A c \in Calls : ~Goes(c)'
    BY DEF OneBearer
  <2> HIDE DEF Moving, Parked, Goes, ResumeUnparks, TypeOK
  <2>4. QED
    BY <2>1, <2>2, <2>3 DEF OneBearer
<1>4. WholeBearers'
  BY DEF LaunchesKnown, CallsKnown, OneBearer, WholeBearers
<1>5. QED
  BY <1>1, <1>2, <1>3, <1>4

(* The new key loads the conversation; the old one is not parked any more. *)
LEMMA ResumeLoadsKeeps ==
  ASSUME HandoffAssumption, TypeOK, Ordered, trouble = {}, trouble' = {},
         NEW k \in Keys, ResumeLoads(k)
  PROVE  Ordered'
<1> USE NobodyIsNone DEF ResumeLoads,
        TypeOK, Ordered, sessions, calls, texts, Moving, Parked, Doomed, Goes
<1>1. LaunchesKnown'
  BY DEF LaunchesKnown
<1>2. CallsKnown'
  BY DEF CallsKnown, LaunchesKnown
<1>3. OneBearer'
  BY DEF LaunchesKnown, CallsKnown, OneBearer
<1>4. WholeBearers'
  BY DEF LaunchesKnown, CallsKnown, OneBearer, WholeBearers
<1>5. QED
  BY <1>1, <1>2, <1>3, <1>4

(* A resume that fails leaves at most the parked key. *)
LEMMA ResumeFailsKeeps ==
  ASSUME HandoffAssumption, TypeOK, Ordered, trouble = {}, trouble' = {},
         NEW k \in Keys, ResumeFails(k)
  PROVE  Ordered'
<1> USE NobodyIsNone DEF ResumeFails,
        TypeOK, Ordered, sessions, calls, texts, Moving, Parked, Doomed, Goes
<1>1. LaunchesKnown'
  BY DEF LaunchesKnown
<1>2. CallsKnown'
  BY DEF CallsKnown, LaunchesKnown
<1>3. OneBearer'
  BY DEF LaunchesKnown, CallsKnown, OneBearer
<1>4. WholeBearers'
  BY DEF LaunchesKnown, CallsKnown, OneBearer, WholeBearers
<1>5. QED
  BY <1>1, <1>2, <1>3, <1>4

(* A parked key goes, what was sent from it does not. *)
LEMMA DiscardKeeps ==
  ASSUME HandoffAssumption, TypeOK, Ordered, trouble = {}, trouble' = {},
         NEW k \in Keys, Discard(k)
  PROVE  Ordered'
<1> USE NobodyIsNone DEF Discard, Ends,
        TypeOK, Ordered, sessions, calls, texts, Moving, Parked, Doomed, Goes
<1>1. LaunchesKnown'
  BY DEF LaunchesKnown
<1>2. CallsKnown'
  BY DEF CallsKnown, LaunchesKnown
<1>3. OneBearer'
  <2>1. \A j \in Keys : /\ Moving(j)' => Moving(j) /\ life'[j] = life[j]
                        /\ Parked(j)' => Parked(j)
    OBVIOUS
  <2>2. UNCHANGED <<from, by, moved>> /\ \A c \in Calls : Goes(c)' => Goes(c)
    OBVIOUS
  <2> HIDE DEF Moving, Parked, Goes, Discard, Ends
  <2>3. QED
    BY <2>1, <2>2, FewerBear
<1>4. WholeBearers'
  BY DEF LaunchesKnown, CallsKnown, OneBearer, WholeBearers
<1>5. QED
  BY <1>1, <1>2, <1>3, <1>4

(* Nothing else was launched or sent from the key that is handed off. *)
LEMMA HandoffExportsKeeps ==
  ASSUME HandoffAssumption, TypeOK, Ordered, trouble = {}, trouble' = {},
         NEW k \in Keys, NEW n \in Nodes, HandoffExports(k, n)
  PROVE  Ordered'
<1> USE NobodyIsNone, FreeCall DEF HandoffExports, Asked, Disturbed, IsOut, IsResumed,
        TypeOK, Ordered, sessions, calls, texts, Moving, Parked, Doomed, Goes
<1>1. LaunchesKnown'
  BY DEF LaunchesKnown
<1>2. CallsKnown'
  BY DEF CallsKnown, LaunchesKnown
<1>3. OneBearer'
  <2>1. \A j \in Keys : ~Moving(j)'
    BY DEF LaunchesKnown, CallsKnown, OneBearer
  <2>2. \A j \in Keys : Parked(j)' => j = k
    BY DEF LaunchesKnown, CallsKnown, OneBearer
  <2>3. \A c \in Calls : Goes(c)' => c = NextCall
    BY DEF LaunchesKnown, CallsKnown, OneBearer
  <2>4. moved'[NextCall] = k
    OBVIOUS
  <2> HIDE DEF Moving, Parked, Goes
  <2>5. QED
    BY <2>1, <2>2, <2>3, <2>4 DEF OneBearer
<1>4. WholeBearers'
  BY DEF LaunchesKnown, CallsKnown, OneBearer, WholeBearers
<1>5. QED
  BY <1>1, <1>2, <1>3, <1>4

(* The client has what the key had. *)
LEMMA ExportKeeps ==
  ASSUME HandoffAssumption, TypeOK, Ordered, trouble = {}, trouble' = {},
         NEW k \in Keys, NEW n \in Nodes, Export(k, n)
  PROVE  Ordered'
<1> USE NobodyIsNone, FreeCall DEF Export, Asked, Disturbed, IsOut, IsResumed,
        TypeOK, Ordered, sessions, calls, texts, Moving, Parked, Doomed, Goes
<1>1. LaunchesKnown'
  BY DEF LaunchesKnown
<1>2. CallsKnown'
  BY DEF CallsKnown, LaunchesKnown
<1>3. OneBearer'
  <2>1. \A j \in Keys : ~Moving(j)'
    BY DEF LaunchesKnown, CallsKnown, OneBearer
  <2>2. \A j \in Keys : ~Parked(j)'
    BY DEF LaunchesKnown, CallsKnown, OneBearer
  <2>3. \A c \in Calls : Goes(c)' => c = NextCall
    BY DEF LaunchesKnown, CallsKnown, OneBearer
  <2> HIDE DEF Moving, Parked, Goes, Export, TypeOK
  <2>4. QED
    BY <2>1, <2>2, <2>3 DEF OneBearer
<1>4. WholeBearers'
  BY DEF LaunchesKnown, CallsKnown, OneBearer, WholeBearers
<1>5. QED
  BY <1>1, <1>2, <1>3, <1>4

(* The call gives it to the session it launches. *)
LEMMA ImportStartsKeeps ==
  ASSUME HandoffAssumption, TypeOK, Ordered, trouble = {}, trouble' = {},
         NEW c \in Calls, ImportStarts(c)
  PROVE  Ordered'
<1> USE NobodyIsNone, FreshKey DEF ImportStarts, Place, Spawn,
        TypeOK, Ordered, sessions, calls, texts, Moving, Parked, Doomed, Goes
<1>1. LaunchesKnown'
  BY DEF LaunchesKnown, OneBearer
<1>2. CallsKnown'
  BY DEF CallsKnown, LaunchesKnown, OneBearer
<1>3. OneBearer'
  BY DEF LaunchesKnown, CallsKnown, OneBearer
<1>4. WholeBearers'
  BY DEF LaunchesKnown, CallsKnown, OneBearer, WholeBearers
<1>5. QED
  BY <1>1, <1>2, <1>3, <1>4

(* An import that is refused leaves the key parked. *)
LEMMA ImportRefusesKeeps ==
  ASSUME HandoffAssumption, TypeOK, Ordered, trouble = {}, trouble' = {},
         NEW c \in Calls, ImportRefuses(c)
  PROVE  Ordered'
<1> USE NobodyIsNone DEF ImportRefuses,
        TypeOK, Ordered, sessions, calls, texts, Moving, Parked, Doomed, Goes
<1>1. LaunchesKnown'
  BY DEF LaunchesKnown, OneBearer
<1>2. CallsKnown'
  BY DEF CallsKnown, LaunchesKnown, OneBearer
<1>3. OneBearer'
  BY DEF LaunchesKnown, CallsKnown, OneBearer
<1>4. WholeBearers'
  BY DEF LaunchesKnown, CallsKnown, OneBearer, WholeBearers
<1>5. QED
  BY <1>1, <1>2, <1>3, <1>4

(* The key at home is to be ended from then on. *)
LEMMA ImportLoadsKeeps ==
  ASSUME HandoffAssumption, TypeOK, Ordered, trouble = {}, trouble' = {},
         NEW k \in Keys, ImportLoads(k)
  PROVE  Ordered'
<1> USE NobodyIsNone DEF ImportLoads,
        TypeOK, Ordered, sessions, calls, texts, Moving, Parked, Doomed, Goes
<1>1. LaunchesKnown'
  BY DEF LaunchesKnown, OneBearer
<1>2. CallsKnown'
  BY DEF CallsKnown, LaunchesKnown, OneBearer
<1>3. OneBearer'
  BY DEF LaunchesKnown, CallsKnown, OneBearer
<1>4. WholeBearers'
  BY DEF LaunchesKnown, CallsKnown, OneBearer, WholeBearers
<1>5. QED
  BY <1>1, <1>2, <1>3, <1>4

(* The key at home or the client has it again. *)
LEMMA ImportFailsKeeps ==
  ASSUME HandoffAssumption, TypeOK, Ordered, trouble = {}, trouble' = {},
         NEW k \in Keys, ImportFails(k)
  PROVE  Ordered'
<1> USE NobodyIsNone DEF ImportFails,
        TypeOK, Ordered, sessions, calls, texts, Moving, Parked, Doomed, Goes
<1>1. LaunchesKnown'
  BY DEF LaunchesKnown, OneBearer
<1>2. CallsKnown'
  BY DEF CallsKnown, LaunchesKnown, OneBearer
<1>3. OneBearer'
  BY DEF LaunchesKnown, CallsKnown, OneBearer
<1>4. WholeBearers'
  BY DEF LaunchesKnown, CallsKnown, OneBearer, WholeBearers
<1>5. QED
  BY <1>1, <1>2, <1>3, <1>4

(* The session at home goes. *)
LEMMA HandoffEndsKeeps ==
  ASSUME HandoffAssumption, TypeOK, Ordered, trouble = {}, trouble' = {},
         NEW c \in Calls, HandoffEnds(c)
  PROVE  Ordered'
<1> USE NobodyIsNone DEF HandoffEnds, Ends,
        TypeOK, Ordered, sessions, calls, texts, Moving, Parked, Doomed, Goes
<1>1. LaunchesKnown'
  BY DEF LaunchesKnown
<1>2. CallsKnown'
  BY DEF CallsKnown, LaunchesKnown
<1>3. OneBearer'
  <2>1. \A j \in Keys : Moving(j)' => Moving(j) /\ life'[j] = life[j]
    OBVIOUS
  <2>2. \A j \in Keys : Parked(j)' => Parked(j)
    <3> SUFFICES ASSUME NEW j \in Keys, Parked(j)' PROVE Parked(j)
      OBVIOUS
    <3>1. life[j] = "suspended" /\ j # moved[c]
      BY DEF CallsKnown
    <3>2. ~Doomed(j)
      BY <3>1
    <3>3. QED
      BY <3>1, <3>2
  <2>3. UNCHANGED <<from, by, moved>> /\ \A d \in Calls : Goes(d)' => Goes(d)
    OBVIOUS
  <2> HIDE DEF Moving, Parked, Goes, HandoffEnds, Ends
  <2>4. QED
    BY <2>1, <2>2, <2>3, FewerBear
<1>4. WholeBearers'
  BY DEF LaunchesKnown, CallsKnown, OneBearer, WholeBearers
<1>5. QED
  BY <1>1, <1>2, <1>3, <1>4

(* The session at home stays parked. *)
LEMMA HandoffFailsKeeps ==
  ASSUME HandoffAssumption, TypeOK, Ordered, trouble = {}, trouble' = {},
         NEW c \in Calls, HandoffFails(c)
  PROVE  Ordered'
<1> USE NobodyIsNone DEF HandoffFails,
        TypeOK, Ordered, sessions, calls, texts, Moving, Parked, Doomed, Goes
<1>1. LaunchesKnown'
  BY DEF LaunchesKnown
<1>2. CallsKnown'
  BY DEF CallsKnown, LaunchesKnown
<1>3. OneBearer'
  <2>1. \A j \in Keys : (Parked(j)' <=> Parked(j)) /\ (Moving(j)' <=> Moving(j))
    OBVIOUS
  <2>2. \A d \in Calls : Goes(d)' => Goes(d)
    OBVIOUS
  <2> HIDE DEF Moving, Parked, Goes
  <2>3. QED
    BY <2>1, <2>2 DEF OneBearer
<1>4. WholeBearers'
  BY DEF LaunchesKnown, CallsKnown, OneBearer, WholeBearers
<1>5. QED
  BY <1>1, <1>2, <1>3, <1>4

(* A handoff gives up on its import only as trouble. *)
LEMMA HandoffGivesUpKeeps ==
  ASSUME HandoffAssumption, TypeOK, Ordered, trouble = {}, trouble' = {},
         NEW c \in Calls, HandoffGivesUp(c)
  PROVE  Ordered'
<1> USE NobodyIsNone DEF HandoffGivesUp,
        TypeOK, Ordered, sessions, calls, texts, Moving, Parked, Doomed, Goes
<1>1. LaunchesKnown'
  BY DEF LaunchesKnown
<1>2. CallsKnown'
  BY DEF CallsKnown, LaunchesKnown
<1>3. OneBearer'
  BY DEF LaunchesKnown, CallsKnown, OneBearer
<1>4. WholeBearers'
  BY DEF LaunchesKnown, CallsKnown, OneBearer, WholeBearers
<1>5. QED
  BY <1>1, <1>2, <1>3, <1>4

(* No import is cut off and no answer of one is lost; a resume that is cut off
   has taken over or left nothing.                                           *)
LEMMA RestartKeeps ==
  ASSUME HandoffAssumption, TypeOK, Ordered, trouble = {}, trouble' = {},
         NEW n \in Nodes, NEW reboot \in BOOLEAN, Restart(n, reboot)
  PROVE  Ordered'
<1> USE DEF TypeOK, Ordered
<1> DEFINE launched == {k \in Keys : at[k] = n /\ life[k] \in {"spawned", "loading"}}
           dropped  == {c \in waiting : at[moved[c]] = n}
<1>1. /\ \A c \in Calls : ~(to[c] = n /\ step[c] = "importing")
      /\ \A c \in dropped : step[c] = "refused"
      /\ waiting' = waiting \ dropped
      /\ UNCHANGED <<at, from, by, moved, to, carried, turns, copy, placed, packed>>
  BY DEF Restart, texts
<1>2. step' = step
  BY <1>1 DEF Restart
<1>3. PICK up \in SUBSET {k \in launched : life[k] = "loading" /\ ~reboot} :
        life' = [k \in Keys |->
                   IF k \in up THEN "live"
                   ELSE IF k \in launched THEN "ended"
                   ELSE IF at[k] = n /\ life[k] = "live" /\ reboot THEN "suspended"
                   ELSE life[k]]
  BY DEF Restart
<1>4. \A k \in Keys :
        \/ life'[k] = life[k]
        \/ life[k] \in {"spawned", "loading"} /\ life'[k] = "ended"
        \/ life[k] = "loading" /\ life'[k] = "live" /\ from[k] \in Keys /\ by[k] = Nobody
        \/ life[k] = "live" /\ life'[k] = "suspended"
  <2> SUFFICES ASSUME NEW k \in Keys
               PROVE  \/ life'[k] = life[k]
                      \/ life[k] \in {"spawned", "loading"} /\ life'[k] = "ended"
                      \/ life[k] = "loading" /\ life'[k] = "live" /\ from[k] \in Keys /\ by[k] = Nobody
                      \/ life[k] = "live" /\ life'[k] = "suspended"
    OBVIOUS
  <2>1. CASE k \in up
    <3>1. life[k] = "loading" /\ at[k] = n /\ life'[k] = "live"
      BY <1>3, <2>1
    <3>2. from[k] \in Keys /\ by[k] = Nobody
      BY <1>1, <3>1 DEF LaunchesKnown
    <3>3. QED  BY <3>1, <3>2
  <2>2. CASE k \notin up
    BY <1>3, <2>2
  <2>3. QED  BY <2>1, <2>2
<1> HIDE DEF launched, dropped
<1>5. \A k \in Keys : Doomed(k)' <=> Doomed(k)
  BY <1>1, <1>2 DEF Doomed, dropped
<1>6. LaunchesKnown'
  BY <1>1, <1>2, <1>4 DEF LaunchesKnown
<1>7. CallsKnown'
  BY <1>1, <1>2, <1>4 DEF CallsKnown, dropped
<1>8. OneBearer'
  BY <1>1, <1>2, <1>4, <1>5, NobodyIsNone DEF OneBearer, Moving, Parked, Goes
<1>9. WholeBearers'
  BY <1>1, <1>2, <1>4, <1>5 DEF WholeBearers, Moving, Parked, Goes
<1>10. QED
  BY <1>6, <1>7, <1>8, <1>9

-----------------------------------------------------------------------------
(* The variables have their types at first ... *)
LEMMA HandoffTypesStart == ASSUME HandoffAssumption, Init PROVE TypeOK
<1>1. Origin \in Nodes /\ 0 \in 0..MaxTurns /\ 0 \in 0..MaxRestarts
  BY BoundsAreNumbers DEF HandoffAssumption
<1>2. at \in [Keys -> Nodes] /\ from \in [Keys -> Keys \cup {Nobody}]
      /\ by \in [Keys -> Calls \cup {Nobody}] /\ why \in [Keys -> Reasons]
      /\ life \in [Keys -> {"unborn", "spawned", "loading", "live", "suspended", "ended"}]
  BY <1>1 DEF Init, Reasons
<1>3. /\ step \in [Calls -> {"free", "asked", "importing", "created", "refused", "silent", "over"}]
      /\ moved \in [Calls -> Keys \cup {Nobody}] /\ to \in [Calls -> Nodes]
      /\ packed \in [Calls -> SUBSET Turns]
  BY <1>1 DEF Init
<1>4. copy \in [Nodes -> SUBSET Turns] /\ placed \subseteq Nodes
      /\ waiting = {} /\ carried = {} /\ trouble = {} /\ turns = 0 /\ restarts = 0
  BY <1>1 DEF Init
<1>5. QED
  BY <1>1, <1>2, <1>3, <1>4 DEF TypeOK

(* ... in every step. *)
LEMMA HandoffTypesStep == ASSUME HandoffAssumption, TypeOK, [Next]_vars PROVE TypeOK'
<1> USE DEF TypeOK, Reasons, sessions, calls, texts
<1>1. ASSUME NEW k \in Keys, Turn(k) PROVE TypeOK'
  <2>1. turns \in 0..MaxTurns /\ turns < MaxTurns /\ turns' = turns + 1
    BY <1>1 DEF Turn
  <2>2. turns' \in 0..MaxTurns /\ turns' \in Turns
    <3> HIDE DEF TypeOK
    <3>1. MaxTurns \in Nat
      BY BoundsAreNumbers
    <3>2. QED
      BY <2>1, <3>1 DEF Turns
  <2>3. copy' \in [Nodes -> SUBSET Turns] /\ placed' \subseteq Nodes
    <3>1. /\ placed' = placed
          /\ copy' = [copy EXCEPT ![at[k]] = @ \cup {turns'}]
      BY <1>1 DEF Turn
    <3>2. at[k] \in Nodes /\ copy \in [Nodes -> SUBSET Turns] /\ placed \subseteq Nodes
      OBVIOUS
    <3> HIDE DEF TypeOK
    <3>3. QED
      BY <2>2, <3>1, <3>2
  <2>4. UNCHANGED <<sessions, calls, packed, trouble, restarts>>
    BY <1>1 DEF Turn
  <2>5. QED
    BY <2>2, <2>3, <2>4, ZenonT(30)
<1>2. ASSUME NEW k \in Keys, Suspend(k) PROVE TypeOK'
  BY <1>2 DEF Suspend
<1>3. ASSUME NEW k \in Keys, Resume(k) PROVE TypeOK'
  BY <1>3, FreshKey DEF Resume, Spawn
<1>4. ASSUME NEW k \in Keys, Discard(k) PROVE TypeOK'
  BY <1>4 DEF Discard, Ends
<1>5. ASSUME NEW k \in Keys, ResumeUnparks(k) PROVE TypeOK'
  BY <1>5 DEF ResumeUnparks
<1>6. ASSUME NEW k \in Keys, ResumeLoads(k) PROVE TypeOK'
  BY <1>6 DEF ResumeLoads
<1>7. ASSUME NEW k \in Keys, ResumeFails(k) PROVE TypeOK'
  BY <1>7 DEF ResumeFails
<1>8. ASSUME NEW k \in Keys, ImportLoads(k) PROVE TypeOK'
  BY <1>8 DEF ImportLoads
<1>9. ASSUME NEW k \in Keys, ImportFails(k) PROVE TypeOK'
  BY <1>9 DEF ImportFails
<1>10. ASSUME NEW k \in Keys, NEW n \in Nodes, HandoffExports(k, n) PROVE TypeOK'
  <2>1. NextCall \in Calls
    BY <1>10, FreeCall DEF HandoffExports
  <2>2. /\ packed' \in [Calls -> SUBSET Turns] /\ moved' \in [Calls -> Keys \cup {Nobody}]
        /\ to' \in [Calls -> Nodes]
        /\ step' \in [Calls -> {"free", "asked", "importing", "created", "refused", "silent", "over"}]
    BY <1>10, <2>1 DEF HandoffExports, Asked
  <2>3. /\ life' \in [Keys -> {"unborn", "spawned", "loading", "live", "suspended", "ended"}]
        /\ why' \in [Keys -> Reasons]
        /\ {waiting', carried'} \subseteq SUBSET Calls
    BY <1>10, <2>1 DEF HandoffExports
  <2>4. trouble' \subseteq {"resuming", "resumed", "exported", "given up"}
    BY <1>10 DEF HandoffExports, Disturbed
  <2>5. UNCHANGED <<at, from, by, turns, copy, placed, restarts>>
    BY <1>10 DEF HandoffExports
  <2>6. QED
    BY <2>2, <2>3, <2>4, <2>5, ZenonT(30)
<1>11. ASSUME NEW k \in Keys, NEW n \in Nodes, Export(k, n) PROVE TypeOK'
  <2>1. NextCall \in Calls
    BY <1>11, FreeCall DEF Export
  <2>2. /\ packed' \in [Calls -> SUBSET Turns] /\ moved' \in [Calls -> Keys \cup {Nobody}]
        /\ to' \in [Calls -> Nodes]
        /\ step' \in [Calls -> {"free", "asked", "importing", "created", "refused", "silent", "over"}]
    BY <1>11, <2>1 DEF Export, Asked
  <2>3. /\ life' \in [Keys -> {"unborn", "spawned", "loading", "live", "suspended", "ended"}]
        /\ why' \in [Keys -> Reasons]
        /\ {waiting', carried'} \subseteq SUBSET Calls
    BY <1>11, <2>1 DEF Export
  <2>4. trouble' \subseteq {"resuming", "resumed", "exported", "given up"}
    BY <1>11 DEF Export, Disturbed
  <2>5. UNCHANGED <<at, from, by, turns, copy, placed, restarts>>
    BY <1>11 DEF Export
  <2>6. QED
    BY <2>2, <2>3, <2>4, <2>5, ZenonT(30)
<1>12. ASSUME NEW c \in Calls, ImportRefuses(c) PROVE TypeOK'
  BY <1>12 DEF ImportRefuses
<1>13. ASSUME NEW c \in Calls, ImportStarts(c) PROVE TypeOK'
  <2>1. Fresh \in Keys
    BY <1>13, FreshKey DEF ImportStarts, Spawn
  <2>2. /\ at' \in [Keys -> Nodes] /\ why' \in [Keys -> Reasons]
        /\ from' \in [Keys -> Keys \cup {Nobody}] /\ by' \in [Keys -> Calls \cup {Nobody}]
    BY <1>13, <2>1 DEF ImportStarts, Spawn
  <2>3. /\ life' \in [Keys -> {"unborn", "spawned", "loading", "live", "suspended", "ended"}]
        /\ step' \in [Calls -> {"free", "asked", "importing", "created", "refused", "silent", "over"}]
    BY <1>13, <2>1 DEF ImportStarts, Spawn
  <2>4. copy' \in [Nodes -> SUBSET Turns] /\ placed' \subseteq Nodes
    <3>1. to[c] \in Nodes /\ packed[c] \in SUBSET Turns
      OBVIOUS
    <3>2. copy' = [copy EXCEPT ![to[c]] = packed[c]] /\ placed' = placed \cup {to[c]}
      BY <1>13 DEF ImportStarts, Place
    <3>3. copy \in [Nodes -> SUBSET Turns] /\ placed \subseteq Nodes
      OBVIOUS
    <3> HIDE DEF TypeOK
    <3>4. QED
      BY <3>1, <3>2, <3>3
  <2>5. UNCHANGED <<moved, to, waiting, carried, trouble, turns, packed, restarts>>
    BY <1>13 DEF ImportStarts, Place
  <2>6. QED
    BY <2>2, <2>3, <2>4, <2>5, ZenonT(30)
<1>14. ASSUME NEW c \in Calls, HandoffEnds(c) PROVE TypeOK'
  <2>1. /\ life' \in [Keys -> {"unborn", "spawned", "loading", "live", "suspended", "ended"}]
        /\ why' \in [Keys -> Reasons]
    BY <1>14 DEF HandoffEnds, Ends
  <2>2. /\ step' \in [Calls -> {"free", "asked", "importing", "created", "refused", "silent", "over"}]
        /\ waiting' \subseteq Calls
    BY <1>14 DEF HandoffEnds
  <2>3. UNCHANGED <<at, from, by, moved, to, carried, trouble, turns, copy, placed, packed, restarts>>
    BY <1>14 DEF HandoffEnds
  <2>4. QED
    BY <2>1, <2>2, <2>3, ZenonT(30)
<1>15. ASSUME NEW c \in Calls, HandoffFails(c) PROVE TypeOK'
  BY <1>15 DEF HandoffFails
<1>16. ASSUME NEW c \in Calls, HandoffGivesUp(c) PROVE TypeOK'
  BY <1>16 DEF HandoffGivesUp
<1>17. ASSUME NEW n \in Nodes, NEW reboot \in BOOLEAN, Restart(n, reboot) PROVE TypeOK'
  <2>1. \E up : life' = [k \in Keys |->
                   IF k \in up THEN "live"
                   ELSE IF k \in {i \in Keys : at[i] = n /\ life[i] \in {"spawned", "loading"}}
                   THEN "ended"
                   ELSE IF at[k] = n /\ life[k] = "live" /\ reboot THEN "suspended"
                   ELSE life[k]]
    BY <1>17, ZenonT(60) DEF Restart
  <2>2. life' \in [Keys -> {"unborn", "spawned", "loading", "live", "suspended", "ended"}]
    BY <2>1
  <2>3. why' \in [Keys -> Reasons]
    BY <1>17 DEF Restart
  <2>4. step' \in [Calls -> {"free", "asked", "importing", "created", "refused", "silent", "over"}]
    BY <1>17 DEF Restart
  <2>5. trouble' \subseteq {"resuming", "resumed", "exported", "given up"} /\ waiting' \subseteq Calls
    BY <1>17 DEF Restart
  <2>6. restarts' \in 0..MaxRestarts
    <3>1. restarts < MaxRestarts /\ restarts' = restarts + 1
      BY <1>17, Zenon DEF Restart
    <3>2. restarts \in 0..MaxRestarts
      OBVIOUS
    <3> HIDE DEF TypeOK
    <3>3. MaxRestarts \in Nat
      BY BoundsAreNumbers
    <3>4. QED
      BY <3>1, <3>2, <3>3
  <2>7. UNCHANGED <<at, from, by, moved, to, carried, texts>>
    BY <1>17 DEF Restart
  <2>8. QED
    BY <2>2, <2>3, <2>4, <2>5, <2>6, <2>7, ZenonT(30)
<1>18. CASE UNCHANGED vars
  BY <1>18 DEF vars
<1>19. QED
  BY <1>1, <1>2, <1>3, <1>4, <1>5, <1>6, <1>7, <1>8, <1>9, <1>10, <1>11, <1>12, <1>13, <1>14, <1>15, <1>16, <1>17, <1>18 DEF Next

-----------------------------------------------------------------------------
(* The origin's session bears the conversation at first, *)
LEMMA HandoffStart == ASSUME HandoffAssumption, Init PROVE HandoffInv
<1>1. LaunchesKnown /\ CallsKnown /\ OneBearer
  BY DEF Init, LaunchesKnown, CallsKnown, OneBearer, Moving, Parked, Goes
<1>2. WholeBearers
  BY DEF Init, WholeBearers, Moving, Parked, Goes, HandoffAssumption
<1>3. QED
  BY <1>1, <1>2 DEF HandoffInv, Ordered

(* and every step keeps it in one place.  What is troubled stays so. *)
LEMMA HandoffStep ==
  ASSUME HandoffAssumption, TypeOK, HandoffInv, [Next]_vars PROVE HandoffInv'
<1> SUFFICES ASSUME trouble' = {} PROVE Ordered'
  BY DEF HandoffInv
<1>1. CASE UNCHANGED vars
  BY <1>1 DEF vars, sessions, calls, texts, HandoffInv, Ordered, LaunchesKnown, CallsKnown,
     OneBearer, WholeBearers, Moving, Parked, Doomed, Goes
<1>2. CASE Next
  <2>1. trouble = {}
    BY <1>2 DEF Next, Turn, Suspend, Resume, Discard, ResumeUnparks, ResumeLoads, ResumeFails,
       ImportLoads, ImportFails, HandoffExports, Export, Disturbed, ImportRefuses, ImportStarts,
       HandoffEnds, HandoffFails, HandoffGivesUp, Restart
  <2>2. Ordered
    BY <2>1 DEF HandoffInv
  <2>3. QED
    BY <1>2, <2>1, <2>2, TurnKeeps, SuspendKeeps, ResumeKeeps, DiscardKeeps,
       ResumeUnparksKeeps, ResumeLoadsKeeps, ResumeFailsKeeps, ImportLoadsKeeps, ImportFailsKeeps,
       HandoffExportsKeeps, ExportKeeps, ImportRefusesKeeps, ImportStartsKeeps,
       HandoffEndsKeeps, HandoffFailsKeeps, HandoffGivesUpKeeps, RestartKeeps
    DEF Next
<1>3. QED
  BY <1>1, <1>2

(* A set whose members are all the same has one at most. *)
LEMMA AtMostOne ==
  ASSUME NEW S, \A x, y \in S : x = y
  PROVE  Cardinality(S) <= 1
<1>1. CASE S = {}
  BY <1>1, FS_EmptySet
<1>2. CASE S # {}
  <2>1. PICK x \in S : TRUE
    BY <1>2
  <2>2. S = {x}
    BY <2>1
  <2>3. QED
    BY <2>2, FS_Singleton
<1>3. QED
  BY <1>1, <1>2

(* What the handlers of handoffs, exports and imports (api/routes.rs) and the
   runners promise of the conversation as long as nothing goes on beside them:
   it runs in one process at most, is in one place once no handoff is under
   way, and who has it has all its turns.                                     *)
THEOREM ConversationInOnePlace ==
  HandoffAssumption => (Spec => [](TypeOK /\ OneHome /\ InOnePlace /\ TranscriptIsWhole))
<1> SUFFICES ASSUME HandoffAssumption
             PROVE  Spec => [](TypeOK /\ OneHome /\ InOnePlace /\ TranscriptIsWhole)
  OBVIOUS
<1>1. Init => TypeOK /\ HandoffInv
  BY HandoffTypesStart, HandoffStart
<1>2. TypeOK /\ HandoffInv /\ [Next]_vars => (TypeOK /\ HandoffInv)'
  BY HandoffTypesStep, HandoffStep
<1>3. TypeOK /\ HandoffInv => OneHome /\ InOnePlace /\ TranscriptIsWhole
  <2> SUFFICES ASSUME TypeOK, Ordered, trouble = {}
               PROVE  /\ Cardinality(Live) <= 1
                      /\ waiting = {} =>
                           Cardinality({k \in Keys : life[k] \in {"loading", "live", "suspended"}}) <= 1
                      /\ \A k \in Live : copy[at[k]] = 1..turns
    BY DEF HandoffInv, OneHome, InOneProcess, InOnePlace, TranscriptIsWhole
  <2>1. \A j, k \in Live : j = k
    BY DEF Live, Ordered, OneBearer, Moving
  <2>2. ASSUME waiting = {},
               NEW j \in {k \in Keys : life[k] \in {"loading", "live", "suspended"}},
               NEW k \in {k \in Keys : life[k] \in {"loading", "live", "suspended"}}
        PROVE  j = k
    <3>1. \A i \in {j, k} : Moving(i) \/ Parked(i)
      BY <2>2 DEF Moving, Parked, Doomed
    <3>2. \A i \in Keys : Parked(i) => life[i] = "suspended"
      BY DEF Parked
    <3>3. ASSUME NEW a \in Keys, NEW b \in Keys, Moving(a), Parked(b),
                 life[a] \in {"loading", "live"}
          PROVE  FALSE
      <4>1. by[a] \in Calls /\ moved[by[a]] = b /\ life[a] = "loading"
        BY <3>3 DEF Ordered, OneBearer
      <4>2. step[by[a]] = "importing"
        BY <3>3, <4>1 DEF Ordered, LaunchesKnown, Nobody, Calls
      <4>3. life[b] = "ended"
        BY <2>2, <4>1, <4>2 DEF Ordered, CallsKnown
      <4>4. QED
        BY <3>2, <3>3, <4>3
    <3>4. (Moving(j) /\ Moving(k)) \/ (Parked(j) /\ Parked(k))
      BY <3>1, <3>2, <3>3 DEF Moving, Parked
    <3>5. QED
      BY <3>4 DEF Ordered, OneBearer
  <2>3. \A k \in Live : copy[at[k]] = 1..turns
    BY DEF Live, Ordered, WholeBearers, Moving
  <2>4. QED
    BY <2>1, <2>2, <2>3, AtMostOne
<1>4. QED
  BY <1>1, <1>2, <1>3, PTL DEF Spec

-----------------------------------------------------------------------------
(* Whatever goes on beside a handoff, nothing is lost.  Who keeps the          *)
(* conversation: a session that has it, is parked or takes over from a parked  *)
(* one, unless its handoff has only to end it; not a session that an import    *)
(* still launches, which may fail and leave nothing.                           *)
Keeps(k) ==
  \/ life[k] \in {"spawned", "live"}
  \/ life[k] = "loading" /\ from[k] # Nobody
  \/ Parked(k)

KeptOrGone ==
  \/ carried # {}
  \/ \E k \in Keys : Keeps(k) \/ why[k] = "expired" \/ (why[k] = "failed" /\ from[k] # Nobody)

(* What was resumed or sent on does not run any more, and what is launched has
   its origin; a reason is that of an end.                                    *)
OriginsKnown ==
  \A k \in Keys :
    /\ from[k] # Nobody => life[from[k]] \in {"suspended", "ended"}
    /\ by[k] # Nobody => from[k] = Nobody
    /\ life[k] = "spawned" => from[k] # Nobody
    /\ life[k] = "loading" => from[k] # Nobody \/ by[k] # Nobody
    /\ why[k] # "none" => life[k] = "ended"

MovedKnown ==
  \A c \in Calls :
    /\ moved[c] # Nobody => life[moved[c]] \in {"suspended", "ended"}
    /\ c \in waiting => moved[c] # Nobody

KeptInv == KeptOrGone /\ OriginsKnown /\ MovedKnown

(* Where the sessions and the calls are kept. *)
Functions ==
  /\ life \in [Keys -> {"unborn", "spawned", "loading", "live", "suspended", "ended"}]
  /\ why \in [Keys -> Reasons]
  /\ from \in [Keys -> Keys \cup {Nobody}]
  /\ by \in [Keys -> Calls \cup {Nobody}]
  /\ step \in [Calls -> {"free", "asked", "importing", "created", "refused", "silent", "over"}]
  /\ moved \in [Calls -> Keys \cup {Nobody}]
  /\ waiting \subseteq Calls /\ carried \subseteq Calls

(* A restart: what was launched has the conversation or has failed, *)
LEMMA RestartsSessions ==
  ASSUME TypeOK, NEW n \in Nodes, NEW reboot \in BOOLEAN, Restart(n, reboot)
  PROVE  /\ \A k \in Keys :
              \/ life'[k] = life[k] /\ why'[k] = why[k]
              \/ life[k] = "live" /\ life'[k] = "suspended" /\ why'[k] = why[k]
              \/ life[k] = "loading" /\ life'[k] = "live" /\ why'[k] = why[k]
              \/ life[k] \in {"spawned", "loading"} /\ life'[k] = "ended" /\ why'[k] = "failed"
         /\ UNCHANGED <<from, by>>
<1>1. PICK up \in SUBSET {k \in Keys : life[k] = "loading"} :
        LET launched == {k \in Keys : at[k] = n /\ life[k] \in {"spawned", "loading"}} IN
        /\ life' = [k \in Keys |->
             IF k \in up THEN "live"
             ELSE IF k \in launched THEN "ended"
             ELSE IF at[k] = n /\ life[k] = "live" /\ reboot THEN "suspended"
             ELSE life[k]]
        /\ why' = [k \in Keys |-> IF k \in launched \ up THEN "failed" ELSE why[k]]
  BY ZenonT(60) DEF Restart
<1>2. UNCHANGED <<from, by>>
  BY DEF Restart
<1> HIDE DEF Restart, TypeOK
<1>3. QED
  BY <1>1, <1>2

(* and of the calls at most one that was being imported goes back. *)
LEMMA RestartsCalls ==
  ASSUME TypeOK, NEW n \in Nodes, NEW reboot \in BOOLEAN, Restart(n, reboot)
  PROVE  /\ \A c \in Calls : step'[c] = step[c] \/ step'[c] \in {"asked", "silent"}
         /\ waiting' \subseteq waiting
         /\ UNCHANGED <<moved, carried>>
<1>1. step' = [c \in Calls |->
        IF c \in {d \in Calls : to[d] = n /\ step[d] = "importing"}
        THEN IF c \in carried THEN "asked" ELSE "silent" ELSE step[c]]
  BY Zenon DEF Restart
<1>2. waiting' \subseteq waiting /\ UNCHANGED <<moved, carried>>
  BY Zenon DEF Restart
<1>3. QED
  BY <1>1, <1>2

(* The origins stay known, whatever is launched, parked, moved or ended. *)
LEMMA OriginsStep ==
  ASSUME HandoffAssumption, TypeOK, KeptInv, [Next]_vars
  PROVE  (OriginsKnown /\ MovedKnown)'
<1> USE NobodyIsNone, FreshKey, FreeCall
    DEF KeptInv, OriginsKnown, MovedKnown, sessions, calls, texts
<1>0. Functions
  BY DEF TypeOK, Functions
<1> USE <1>0 DEF Functions
<1>1. ASSUME NEW k \in Keys, Turn(k) PROVE (OriginsKnown /\ MovedKnown)'
  BY <1>1 DEF Turn
<1>2. ASSUME NEW k \in Keys, Suspend(k) PROVE (OriginsKnown /\ MovedKnown)'
  BY <1>2 DEF Suspend
<1>3. ASSUME NEW k \in Keys, Resume(k) PROVE (OriginsKnown /\ MovedKnown)'
  BY <1>3 DEF Resume, Spawn, Resuming
<1>4. ASSUME NEW k \in Keys, Discard(k) PROVE (OriginsKnown /\ MovedKnown)'
  BY <1>4 DEF Discard, Ends
<1>5. ASSUME NEW k \in Keys, ResumeUnparks(k) PROVE (OriginsKnown /\ MovedKnown)'
  BY <1>5 DEF ResumeUnparks
<1>6. ASSUME NEW k \in Keys, ResumeLoads(k) PROVE (OriginsKnown /\ MovedKnown)'
  BY <1>6 DEF ResumeLoads
<1>7. ASSUME NEW k \in Keys, ResumeFails(k) PROVE (OriginsKnown /\ MovedKnown)'
  BY <1>7 DEF ResumeFails
<1>8. ASSUME NEW k \in Keys, ImportLoads(k) PROVE (OriginsKnown /\ MovedKnown)'
  BY <1>8 DEF ImportLoads
<1>9. ASSUME NEW k \in Keys, ImportFails(k) PROVE (OriginsKnown /\ MovedKnown)'
  BY <1>9 DEF ImportFails
<1>10. ASSUME NEW k \in Keys, NEW n \in Nodes, HandoffExports(k, n) PROVE (OriginsKnown /\ MovedKnown)'
  BY <1>10 DEF HandoffExports, Asked
<1>11. ASSUME NEW k \in Keys, NEW n \in Nodes, Export(k, n) PROVE (OriginsKnown /\ MovedKnown)'
  BY <1>11 DEF Export, Asked
<1>12. ASSUME NEW c \in Calls, ImportRefuses(c) PROVE (OriginsKnown /\ MovedKnown)'
  BY <1>12 DEF ImportRefuses
<1>13. ASSUME NEW c \in Calls, ImportStarts(c) PROVE (OriginsKnown /\ MovedKnown)'
  BY <1>13 DEF ImportStarts, Place, Spawn
<1>14. ASSUME NEW c \in Calls, HandoffEnds(c) PROVE (OriginsKnown /\ MovedKnown)'
  BY <1>14 DEF HandoffEnds, Ends
<1>15. ASSUME NEW c \in Calls, HandoffFails(c) PROVE (OriginsKnown /\ MovedKnown)'
  BY <1>15 DEF HandoffFails
<1>16. ASSUME NEW c \in Calls, HandoffGivesUp(c) PROVE (OriginsKnown /\ MovedKnown)'
  BY <1>16 DEF HandoffGivesUp
<1>17. ASSUME NEW n \in Nodes, NEW reboot \in BOOLEAN, Restart(n, reboot) PROVE (OriginsKnown /\ MovedKnown)'
  BY <1>17, RestartsSessions, RestartsCalls
<1>18. CASE UNCHANGED vars
  BY <1>18 DEF vars
<1> HIDE DEF KeptInv, OriginsKnown, MovedKnown
<1>19. QED
  BY <1>1, <1>2, <1>3, <1>4, <1>5, <1>6, <1>7, <1>8, <1>9, <1>10, <1>11, <1>12, <1>13, <1>14,
     <1>15, <1>16, <1>17, <1>18 DEF Next

(* Somebody keeps the conversation on. *)
LEMMA KeptStep ==
  ASSUME HandoffAssumption, TypeOK, KeptInv, [Next]_vars
  PROVE  KeptOrGone'
<1> USE NobodyIsNone, FreshKey, FreeCall
    DEF KeptInv, KeptOrGone, Keeps, Parked, Doomed, OriginsKnown, MovedKnown, sessions, calls, texts
<1>0. Functions
  BY DEF TypeOK, Functions
<1> USE <1>0 DEF Functions
<1>1. ASSUME NEW k \in Keys, Turn(k) PROVE KeptOrGone'
  BY <1>1 DEF Turn
<1>2. ASSUME NEW k \in Keys, Suspend(k) PROVE KeptOrGone'
  BY <1>2 DEF Suspend
<1>3. ASSUME NEW k \in Keys, Resume(k) PROVE KeptOrGone'
  BY <1>3 DEF Resume, Spawn, Resuming
<1>4. ASSUME NEW k \in Keys, Discard(k) PROVE KeptOrGone'
  BY <1>4 DEF Discard, Ends
<1>5. ASSUME NEW k \in Keys, ResumeUnparks(k) PROVE KeptOrGone'
  BY <1>5 DEF ResumeUnparks
<1>6. ASSUME NEW k \in Keys, ResumeLoads(k) PROVE KeptOrGone'
  BY <1>6 DEF ResumeLoads
<1>7. ASSUME NEW k \in Keys, ResumeFails(k) PROVE KeptOrGone'
  BY <1>7 DEF ResumeFails
<1>8. ASSUME NEW k \in Keys, ImportLoads(k) PROVE KeptOrGone'
  BY <1>8 DEF ImportLoads
<1>9. ASSUME NEW k \in Keys, ImportFails(k) PROVE KeptOrGone'
  BY <1>9 DEF ImportFails
<1>10. ASSUME NEW k \in Keys, NEW n \in Nodes, HandoffExports(k, n) PROVE KeptOrGone'
  BY <1>10 DEF HandoffExports, Asked
<1>11. ASSUME NEW k \in Keys, NEW n \in Nodes, Export(k, n) PROVE KeptOrGone'
  BY <1>11 DEF Export, Asked
<1>12. ASSUME NEW c \in Calls, ImportRefuses(c) PROVE KeptOrGone'
  BY <1>12 DEF ImportRefuses
<1>13. ASSUME NEW c \in Calls, ImportStarts(c) PROVE KeptOrGone'
  BY <1>13 DEF ImportStarts, Place, Spawn
<1>14. ASSUME NEW c \in Calls, HandoffEnds(c) PROVE KeptOrGone'
  BY <1>14 DEF HandoffEnds, Ends
<1>15. ASSUME NEW c \in Calls, HandoffFails(c) PROVE KeptOrGone'
  BY <1>15 DEF HandoffFails
<1>16. ASSUME NEW c \in Calls, HandoffGivesUp(c) PROVE KeptOrGone'
  <2>1. waiting' \subseteq waiting /\ UNCHANGED <<sessions, step, moved, carried>>
    BY <1>16, Zenon DEF HandoffGivesUp
  <2>2. QED
    BY <2>1
<1>17. ASSUME NEW n \in Nodes, NEW reboot \in BOOLEAN, Restart(n, reboot) PROVE KeptOrGone'
  BY <1>17, RestartsSessions, RestartsCalls
<1>18. CASE UNCHANGED vars
  BY <1>18 DEF vars
<1> HIDE DEF KeptInv, KeptOrGone, Keeps, Parked, Doomed, OriginsKnown, MovedKnown
<1>19. QED
  BY <1>1, <1>2, <1>3, <1>4, <1>5, <1>6, <1>7, <1>8, <1>9, <1>10, <1>11, <1>12, <1>13, <1>14,
     <1>15, <1>16, <1>17, <1>18 DEF Next

(* With any number of handoffs, crossings and restarts the conversation is in
   one place, as above, and it is somewhere: what a refused, failed or abandoned
   import leaves behind (routes.rs, handoff and import) is never nothing.      *)
THEOREM OnePlaceHolds == HandoffAssumption => (Spec => []OnePlace)
<1> SUFFICES ASSUME HandoffAssumption PROVE Spec => []OnePlace
  OBVIOUS
<1>1. Init => KeptInv
  BY NobodyIsNone DEF HandoffAssumption, Init, KeptInv, KeptOrGone, Keeps, OriginsKnown, MovedKnown, Keys, Calls, Nobody
<1>2. TypeOK /\ KeptInv /\ [Next]_vars => KeptInv'
  BY OriginsStep, KeptStep DEF KeptInv
<1>3. KeptInv => NothingIsLost
  BY DEF KeptInv, KeptOrGone, Keeps, Parked, NothingIsLost
<1>4. Spec => [](TypeOK /\ OneHome /\ InOnePlace /\ TranscriptIsWhole)
  BY ConversationInOnePlace
<1>5. TypeOK /\ OneHome /\ InOnePlace /\ TranscriptIsWhole /\ KeptInv => OnePlace
  BY <1>3 DEF OnePlace
<1>6. QED
  BY <1>1, <1>2, <1>4, <1>5, PTL DEF Spec
=============================================================================
