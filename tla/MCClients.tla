------------------------------ MODULE MCClients ------------------------------
(* Small instances of the modules about what clients see and do, the        *)
(* sessions of other nodes included, and about what the command line        *)
(* installs, side by side in one run: `part` says which of the six goes;    *)
(* the others stay as they begin.                                           *)
EXTENDS Exchange

CONSTANTS
  s1, k1, k2, None,
  Keys, AskSets,
  Listed, Limits, Capacity, KeepDays, Days,
  Sockets, MaxDown,
  MaxPress,
  Starts, MaxKeys, MaxSetups,
  Procs, MaxRuns, MaxEdits

VARIABLES
  part,
  \* Journal
  roster, steps, prev, todo, running, seq, files, today, kept, client, seqs, seen,
  told, reset, swapped, actions, connects, torn, restarts, limit,
  \* AcpProxy
  asked, loads, sender, sessions, sent, down, shown, socket, frames, agents, ended,
  waits, given, answers, slipped, hung,
  \* Tui
  live, asks, polled, polls, events, pieces, place, open, line, lines, drawn, pressed,
  streams, shifted, post,
  \* Setup
  mode, facts, have, daemon, spare, job, rows, result, at, ok, runs, clean,
  found, picked, queue, asking, blocked, keys, quit,
  \* Integrate
  disk, tmp, whole, pc, op, base, lock, installs, edits

(* One day with many changes; two days, and three, with a write that fails;  *)
(* two days with two connections.                                            *)
MCLimits == {
  [steps |-> 4, actions |-> 0, connects |-> 0, torn |-> 0, restarts |-> 1, days |-> 1],
  [steps |-> 1, actions |-> 1, connects |-> 1, torn |-> 1, restarts |-> 1, days |-> 2],
  [steps |-> 0, actions |-> 2, connects |-> 1, torn |-> 1, restarts |-> 1, days |-> 3],
  [steps |-> 1, actions |-> 1, connects |-> 2, torn |-> 0, restarts |-> 1, days |-> 2]}

(* Two tasks load one session, or one each; or one loads it while the other
   speaks to it.                                                             *)
Ask(id, kind, key) == [id |-> id, kind |-> kind, key |-> key]
MCAsks == {
  {Ask(1, "load", k1), Ask(2, "load", k1)},
  {Ask(1, "load", k1), Ask(2, "load", k2)},
  {Ask(1, "load", k1), Ask(2, "other", k1)}}

(* Machines, and what an earlier setup left on them. *)
Mac   == {"macos", "npm", "holderBeside", "trayBeside", "display", "packagesOnPath"}
Linux == {"systemd", "npm", "holderBeside", "display", "onPath"}
Bare  == {"holderBeside"}
Most  == {"rosterd", "holder", "scripts", "export", "config", "claude",
          "claude-agent-acp", "hooks", "entry"}
MCStarts ==
  [mode : {"headless"}, facts : {Mac, Linux, Bare}, have : {{}, Most}]
  \cup [mode : {"screen"}, facts : {Mac}, have : {Most, Most \ {"hooks"}}]

(* hooks files: none, an old release's, an edited one, and a mixed entry. *)
MCFiles == {
  <<>>,
  <<{"theirs"}, {"old hook"}, {"other"}>>,
  <<{"hook"}, {"theirs"}, {"old hook"}>>,
  <<{"hook", "theirs"}>>}

J == INSTANCE Journal WITH Sessions <- Listed,
                           held <- kept, cursor <- seqs, late <- swapped
P == INSTANCE AcpProxy WITH Asking <- Keys, task <- loads, up <- sent
T == INSTANCE Tui WITH Fields <- {k2}, queue <- events, cursor <- place, moved <- shifted
S == INSTANCE Setup WITH Cases <- Starts, MaxRuns <- MaxSetups,
                         todo <- rows, seen <- found
I == INSTANCE Integrate WITH Files <- MCFiles, runs <- installs

ASSUME ExchangeAssumption /\ P!ProxyAssumption /\ T!ScreenAssumption /\ J!JournalAssumption
       /\ S!SetupAssumption

exchange  == vars
log       == <<roster, steps, prev, todo, running, seq, files, today, kept, client,
               seqs, seen, told, reset, swapped, actions, connects, torn, restarts, limit>>
proxy     == <<asked, loads, sender, sessions, sent, down, shown, socket, frames, agents,
               ended, waits, given, answers, slipped, hung>>
tui       == <<live, asks, polled, polls, events, pieces, place, open, line, lines,
               drawn, pressed, streams, shifted, post>>
setup     == <<mode, facts, have, daemon, spare, job, rows, result, at, ok, runs, clean,
               found, picked, queue, asking, blocked, keys, quit>>
integrate == <<disk, tmp, whole, pc, op, base, lock, installs, edits>>

MCInit ==
  /\ part \in {"exchange", "journal", "proxy", "tui", "setup", "integrate"}
  /\ Init /\ J!Init /\ P!Init /\ T!Init /\ S!Init /\ I!Init
  /\ part # "exchange" => list = [p \in Peers |-> "none"]
  /\ part # "journal" => /\ roster = [x \in Listed |-> J!Gone]
                         /\ limit = CHOOSE l \in Limits : TRUE
  /\ part # "proxy" => asked = CHOOSE q \in AskSets : TRUE
  /\ part # "tui" => live = <<k1, k2>>
  /\ part # "setup" =>
       [mode |-> mode, facts |-> facts, have |-> have] = CHOOSE s \in Starts : TRUE
  /\ part # "integrate" => disk = <<>>

MCNext ==
  \/ part = "exchange" /\ Next /\ UNCHANGED <<part, log, proxy, tui, setup, integrate>>
  \/ part = "journal" /\ J!Next /\ UNCHANGED <<part, exchange, proxy, tui, setup, integrate>>
  \/ part = "proxy" /\ P!Next /\ UNCHANGED <<part, exchange, log, tui, setup, integrate>>
  \/ part = "tui" /\ T!Next /\ UNCHANGED <<part, exchange, log, proxy, setup, integrate>>
  \/ part = "setup" /\ S!Next /\ UNCHANGED <<part, exchange, log, proxy, tui, integrate>>
  \/ part = "integrate" /\ I!Next /\ UNCHANGED <<part, exchange, log, proxy, tui, setup>>

MCSpec == MCInit /\ [][MCNext]_<<part, exchange, log, proxy, tui, setup, integrate>>

-----------------------------------------------------------------------------
(* Whoever follows the entries knows what the roster has once the writer has
   caught up, and the seq only rises through the files (Journal: WriterTells,
   SeqRises).                                                                 *)
JournalIsWhole == part = "journal" => J!TypeOK /\ J!WriterTells /\ J!SeqRises

(* A client that stays connected gets every entry once (Journal:
   ConnectedSeesAll).                                                         *)
ConnectedSeesAll == part = "journal" => J!ConnectedSeesAll

(* A request of the editor is answered once, by whoever it was for, and no
   waiter is forgotten (AcpProxy: AnsweredOnce, ToTheAsker, WaitersAreServed). *)
EditorIsServed == part = "proxy" => P!AnsweredOnce /\ P!ToTheAsker /\ P!WaitersAreServed

(* A key acts on the session the screen showed, and a piece is shown once per
   stream (Tui: ActsOnTheSeen, ShownOncePerStream).                           *)
ScreenIsTrue == part = "tui" => T!ActsOnTheSeen /\ T!ShownOncePerStream

(* What setup says is well is in place (Setup: OkMeansInPlace). *)
RowsAreDone == part = "setup" => S!OkMeansInPlace

(* An install that runs alone keeps what others wrote. *)
OthersAreKeptAlone == I!OthersAreKeptAlone
=============================================================================
