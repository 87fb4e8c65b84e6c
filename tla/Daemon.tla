------------------------------- MODULE Daemon -------------------------------
(***************************************************************************)
(* Starts of the daemon on one machine: main.rs `serve` reads or creates    *)
(* the node's key and loads the members of its swarm, the runner takes back *)
(* the holders it finds, and api/mod.rs `serve` binds the socket and the    *)
(* loopback port, in this order.                                            *)
(* A daemon may be killed and started again, and two may overlap: the       *)
(* service manager starts one while somebody runs `rosterd daemon`.         *)
(*                                                                         *)
(* There is one headless session, with its holder (crates/holder/src/       *)
(* main.rs), which writes its state file before it listens and serves one   *)
(* daemon at a time.                                                        *)
(*                                                                         *)
(* node.key and swarm.json are written in place (config.rs write_private:   *)
(* open and truncate, then write), so a daemon killed in between leaves a   *)
(* torn file, and a daemon that reads one gives up.  Two that write the list *)
(* at once leave the longer one's end after the shorter one's text.         *)
(*                                                                         *)
(* Abstractions.  loopback.token is created as node.key is, but an empty    *)
(* one counts as none and is created anew; it stops nobody and is left out, *)
(* as are the files a daemon reads without failing (seqs, hooks, journal).  *)
(* Whether a crash is resumed is Lifecycle's question; here it ends the     *)
(* session.  The listeners on the tailnet are left out: a port is taken or  *)
(* not, as the loopback one.                                                *)
(***************************************************************************)
EXTENDS Naturals

CONSTANTS
  Daemons,    \* the processes that may run as the daemon
  None,
  MaxStarts   \* bound on the starts

VARIABLES
  pc,         \* how far a daemon is
  saw,        \* the state file of the session was there when recover listed them
  session,    \* what a daemon's runner has of the session
  holder,     \* none, filed (state file written, not listening yet), up, gone
  file,       \* the session's state file is there
  link,       \* the daemon the holder serves
  sock,       \* the daemon whose socket is at the path, running or not
  port,       \* the daemon that has the loopback port
  keyFile,    \* node.key: none, torn or whole
  swarmTorn,  \* swarm.json does not parse
  saving,     \* daemons in the middle of a write of swarm.json,
  mixed,      \* those of them that will write over what another one has written
  starts,
  refused,    \* daemons that gave up while starting
  \* history
  met,        \* daemons that ran beside another one
  hasty,      \* daemons that found the file before the holder listened
  cut         \* a daemon was killed while it wrote one of the two files, or two
              \* wrote the list at once and left it torn

process == <<pc, saw, session>>
held    == <<holder, file, link>>
net     == <<sock, port>>
files   == <<keyFile, swarmTorn, saving, mixed>>
history == <<met, hasty, cut>>
vars    == <<process, held, net, files, starts, refused, history>>

Init ==
  /\ pc = [d \in Daemons |-> "off"]
  /\ saw = [d \in Daemons |-> FALSE]
  /\ session = [d \in Daemons |-> "none"]
  /\ holder = "none"
  /\ file = FALSE
  /\ link = None
  /\ sock = None
  /\ port = None
  /\ keyFile = "none"
  /\ swarmTorn = FALSE
  /\ saving = {}
  /\ mixed = {}
  /\ starts = 0
  /\ refused = {}
  /\ met = {}
  /\ hasty = {}
  /\ cut = FALSE

Running(d) == pc[d] # "off"
Listens(d) == pc[d] \in {"bound", "serving"}
At(d, here, there) == pc[d] = here /\ pc' = [pc EXCEPT ![d] = there]

(* A process goes: its sockets close, its session is lost.                 *)
(* The file of its socket stays.                                            *)
Gone(d) ==
  /\ pc' = [pc EXCEPT ![d] = "off"]
  /\ session' = [session EXCEPT ![d] = "none"]
  /\ saw' = [saw EXCEPT ![d] = FALSE]
  /\ link' = IF link = d THEN None ELSE link
  /\ port' = IF port = d THEN None ELSE port
  /\ saving' = saving \ {d}
  /\ mixed' = mixed \ {d}
  /\ hasty' = hasty \ {d}
  /\ met' = met \ {d}

-----------------------------------------------------------------------------
(* main.rs serve *)

(* Identity::load_or_create looks for node.key. *)
Starts(d) ==
  /\ pc[d] = "off"
  /\ pc' = [pc EXCEPT ![d] = CASE keyFile = "none"  -> "keyless"
                               [] keyFile = "torn"  -> "failing"
                               [] keyFile = "whole" -> "loading"]
  /\ starts < MaxStarts
  /\ starts' = starts + 1
  /\ refused' = refused \ {d}
  /\ met' = LET others == {e \in Daemons \ {d} : Running(e)}
            IN  IF others = {} THEN met ELSE met \cup others \cup {d}
  /\ UNCHANGED <<saw, session, held, net, files, hasty, cut>>

(* When there is none it is created: opened and truncated, *)
Creates(d) ==
  /\ At(d, "keyless", "creating")
  /\ keyFile' = "torn"
  /\ UNCHANGED <<saw, session, held, net, swarmTorn, saving, mixed, starts, refused, history>>

(* then written. *)
Writes(d) ==
  /\ At(d, "creating", "loading")
  /\ keyFile' = "whole"
  /\ UNCHANGED <<saw, session, held, net, swarmTorn, saving, mixed, starts, refused, history>>

(* Mesh::new: Membership::load reads swarm.json. *)
Loads(d) ==
  /\ At(d, "loading", "recovering")
  /\ ~swarmTorn
  /\ UNCHANGED <<saw, session, held, net, files, starts, refused, history>>

(* A key that is not 32 bytes long and a list that does not parse are errors *)
(* that end `serve`.                                                        *)
GivesUp(d) ==
  /\ pc[d] = "failing" \/ (pc[d] = "loading" /\ swarmTorn)
  /\ Gone(d)
  /\ refused' = refused \cup {d}
  /\ UNCHANGED <<holder, file, sock, keyFile, swarmTorn, starts, cut>>

(* Mesh::run is going from here on: what it hears of the members is saved,  *)
(* in two steps as the key is, ...                                          *)
Saves(d) ==
  /\ pc[d] \notin {"off", "keyless", "creating", "loading", "failing"}
  /\ d \notin saving
  /\ saving' = saving \cup {d}
  /\ swarmTorn' = TRUE
  /\ mixed' = {}
  /\ UNCHANGED <<process, held, net, keyFile, starts, refused, history>>

(* ... the second of which makes the file whole, unless it is written over    *)
(* another daemon's longer one.                                             *)
Saved(d) ==
  /\ d \in saving
  /\ saving' = saving \ {d}
  /\ mixed' = (mixed \cup saving) \ {d}
  /\ swarmTorn' \in IF d \in mixed THEN BOOLEAN ELSE {FALSE}
  /\ cut' = (cut \/ swarmTorn')
  /\ UNCHANGED <<process, held, net, keyFile, starts, refused, met, hasty>>

(* Runner::recover: list_states, *)
Recovers(d) ==
  /\ At(d, "recovering", "connecting")
  /\ saw' = [saw EXCEPT ![d] = file]
  /\ UNCHANGED <<session, held, net, files, starts, refused, history>>

(* then connect to the holder.  It serves the newest connection and drops   *)
(* the one it had; a socket nobody listens on is a crash, and its files go. *)
Attaches(d) ==
  /\ At(d, "connecting", "recovered")
  /\ \/ /\ saw[d] /\ holder = "up"
        /\ session' = [session EXCEPT ![d] = "linked"]
        /\ link' = d
        /\ UNCHANGED <<file, hasty>>
     \/ /\ saw[d] /\ holder # "up"
        /\ session' = [session EXCEPT ![d] = "crashed"]
        /\ file' = FALSE
        /\ hasty' = IF holder = "filed" THEN hasty \cup {d} ELSE hasty
        /\ UNCHANGED link
     \/ /\ ~saw[d]
        /\ UNCHANGED <<session, file, link, hasty>>
  /\ saw' = [saw EXCEPT ![d] = FALSE]
  /\ UNCHANGED <<holder, net, files, starts, refused, met, cut>>

(* api/mod.rs serve.  bind_socket: a socket that answers is another daemon's. *)
(* A daemon that ends by itself lets a write it has begun come to its end.   *)
Refuses(d) ==
  /\ pc[d] = "recovered"
  /\ sock # None /\ Listens(sock)
  /\ d \notin saving
  /\ Gone(d)
  /\ refused' = refused \cup {d}
  /\ UNCHANGED <<holder, file, sock, keyFile, swarmTorn, starts, cut>>

Probes(d) ==
  /\ At(d, "recovered", "probed")
  /\ ~(sock # None /\ Listens(sock))
  /\ UNCHANGED <<saw, session, held, net, files, starts, refused, history>>

(* Mutant: the stale file stays. *)
UnlinksNot(d) ==
  /\ At(d, "probed", "unlinked")
  /\ UNCHANGED <<saw, session, held, net, files, starts, refused, history>>

(* any other file is stale and goes, *)
Unlinks(d) ==
  /\ At(d, "probed", "unlinked")
  /\ sock' = None
  /\ UNCHANGED <<saw, session, held, port, files, starts, refused, history>>

(* and the path is taken. *)
Binds(d) ==
  /\ At(d, "unlinked", "bound")
  /\ sock = None
  /\ sock' = d
  /\ UNCHANGED <<saw, session, held, port, files, starts, refused, history>>

(* The loopback port, which only one process can have. *)
Serves(d) ==
  /\ At(d, "bound", "serving")
  /\ port = None
  /\ port' = d
  /\ UNCHANGED <<saw, session, held, sock, files, starts, refused, history>>

(* Either bind fails when another was there first; the daemon ends. *)
BindFails(d) ==
  /\ (pc[d] = "unlinked" /\ sock # None) \/ (pc[d] = "bound" /\ port # None)
  /\ d \notin saving
  /\ Gone(d)
  /\ refused' = refused \cup {d}
  /\ UNCHANGED <<holder, file, sock, keyFile, swarmTorn, starts, cut>>

(* The machine, the service manager or a person ends it, in the middle of a *)
(* write too: the file stays torn.                                          *)
Killed(d) ==
  /\ Running(d)
  /\ Gone(d)
  /\ cut' = (cut \/ pc[d] = "creating" \/ d \in saving)
  /\ UNCHANGED <<holder, file, sock, keyFile, swarmTorn, starts, refused>>

-----------------------------------------------------------------------------
(* The session and its holder. *)

(* The first start of the session: the holder writes its state file ... *)
Launches(d) ==
  /\ pc[d] = "serving"
  /\ holder = "none"
  /\ holder' = "filed"
  /\ file' = TRUE
  /\ session' = [session EXCEPT ![d] = "opening"]
  /\ UNCHANGED <<pc, saw, link, net, files, starts, refused, history>>

(* ... then listens, *)
HolderListens ==
  /\ holder = "filed"
  /\ holder' = "up"
  /\ UNCHANGED <<process, file, link, net, files, starts, refused, history>>

(* and the daemon that waits for it (connect_retry) connects. *)
Opens(d) ==
  /\ session[d] = "opening"
  /\ holder = "up"
  /\ session' = [session EXCEPT ![d] = "linked"]
  /\ link' = d
  /\ UNCHANGED <<pc, saw, holder, file, net, files, starts, refused, history>>

(* The adapter exits: the holder tells its daemon and removes its files. *)
HolderExits ==
  /\ holder = "up"
  /\ holder' = "gone"
  /\ file' = FALSE
  /\ link' = None
  /\ session' = IF link = None THEN session ELSE [session EXCEPT ![link] = "ended"]
  /\ UNCHANGED <<pc, saw, net, files, starts, refused, history>>

(* The holder is killed. *)
HolderKilled ==
  /\ holder = "up"
  /\ holder' = "gone"
  /\ link' = None
  /\ UNCHANGED <<process, file, net, files, starts, refused, history>>

(* Session::io_loop sees the socket close, whoever the holder serves now. *)
Drops(d) ==
  /\ session[d] = "linked"
  /\ link # d
  /\ session' = [session EXCEPT ![d] = "dropped"]
  /\ UNCHANGED <<pc, saw, held, net, files, starts, refused, history>>

(* Mutant: a dropped connection is a crash at once. *)
ReconnectsNot(d) ==
  /\ session[d] = "dropped"
  /\ session' = [session EXCEPT ![d] = "crashed"]
  /\ file' = FALSE
  /\ UNCHANGED <<pc, saw, holder, link, net, files, starts, refused, history>>

(* Half a second later it tries once more: a live holder takes it back, a   *)
(* dead one is a crash.                                                     *)
Reconnects(d) ==
  /\ session[d] = "dropped"
  /\ IF holder = "up"
     THEN /\ session' = [session EXCEPT ![d] = "linked"]
          /\ link' = d
          /\ UNCHANGED file
     ELSE /\ session' = [session EXCEPT ![d] = "crashed"]
          /\ file' = FALSE
          /\ UNCHANGED link
  /\ UNCHANGED <<pc, saw, holder, net, files, starts, refused, history>>

Steps(d) ==
  \/ Creates(d) \/ Writes(d) \/ Loads(d) \/ GivesUp(d) \/ Recovers(d) \/ Attaches(d) \/ Refuses(d)
  \/ Probes(d) \/ Unlinks(d) \/ Binds(d) \/ Serves(d) \/ BindFails(d)

Next ==
  \/ HolderListens \/ HolderExits \/ HolderKilled
  \/ \E d \in Daemons :
       \/ Starts(d) \/ Steps(d) \/ Saves(d) \/ Saved(d) \/ Killed(d)
       \/ Launches(d) \/ Opens(d) \/ Drops(d) \/ Reconnects(d)

Spec == Init /\ [][Next]_vars

(* The task of a session goes on while its daemon runs.  Nobody has to start *)
(* a daemon, to go on with a start or to kill one.                          *)
Fairness == \A d \in Daemons : WF_vars(Drops(d)) /\ WF_vars(Reconnects(d))
FairSpec == Spec /\ Fairness

-----------------------------------------------------------------------------
(* While the holder listens no daemon reports a crash, however many fight   *)
(* over its one connection.  The one exception is a daemon that looked for  *)
(* it between its state file and its socket.                                *)
CrashedIsGone == \A d \in Daemons \ hasty : session[d] = "crashed" => holder = "gone"

(* A daemon gives up starting only if another one ran meanwhile: neither the *)
(* socket's file nor anything else a killed one left behind keeps the next  *)
(* from serving.  One exception is the code's own: a daemon killed in the   *)
(* middle of a write of node.key or swarm.json, or two that write the list  *)
(* at once, leave a file that the next ones fail to load, with nobody else  *)
(* running.                                                                 *)
RefusedForAnother ==
  [][\A d \in refused' \ refused : d \in met \/ (cut /\ pc[d] \in {"failing", "loading"})]_vars

(* A daemon that serves gets its session's holder back after another took   *)
(* its connection and gave up.                                              *)
HolderComesBack ==
  \A d \in Daemons :
    (session[d] = "dropped" /\ holder = "up")
      ~> (link = d \/ holder # "up" \/ ~Running(d))

(* bind_socket: "a live one (another daemon answering) is refused": no      *)
(* daemon removes the socket another one listens on.                        *)
LiveIsRefused ==
  [][\A d \in Daemons : sock = d /\ Listens(d) => sock' = d \/ ~Listens(d)']_vars
=============================================================================
