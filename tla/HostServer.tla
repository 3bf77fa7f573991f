----------------------------- MODULE HostServer -----------------------------
(***************************************************************************)
(* The life of one host process: main(), the control server it runs, the   *)
(* state file a supervisor probes, and the clients that connect.           *)
(*                                                                         *)
(* The server is serial.  It accepts one client, blocks in recv for the    *)
(* handshake, serves it until it leaves or g_stop is set, and only then    *)
(* accepts the next one.  In the Qt lane the server has a thread of its    *)
(* own and main sits in the event loop until a queued quit arrives; the    *)
(* first browser source makes the server wait for main to initialise CEF.  *)
(*                                                                         *)
(* What is sent and received has no timeout either, and what runs code of  *)
(* user modules may never return; the environment decides when a client    *)
(* that holds the server lets go of it, and owes it nothing.               *)
(***************************************************************************)
EXTENDS Naturals, Sequences

CONSTANTS
  Clients,
  None,
  MaxBoots  \* bound of the exploration: starts of the host

ASSUME NoneAssumption ==
  None \notin Clients \cup [status : {"ready", "stopped"}, boot : Nat, whole : BOOLEAN]
ASSUME BoundAssumption == MaxBoots \in Nat \ {0}

VARIABLES
  qt,         \* STREAMMATE_HAS_CEF_QT_LOOP: the lane this host was built for
  boot,       \* number of this start
  main,       \* where main() is
  server,     \* where ControlServer::run is
  stop,       \* g_stop
  quit,       \* TRUE: the queued quit waits for, or has reached, the event loop
  engine,     \* EngineLifecycle::started_
  cef,        \* cef_once: untried, asked of the event loop, or tried
  listening,  \* TRUE: the server socket is open
  backlog,    \* clients that wait for accept
  client,     \* the client that was accepted, or None
  wire,       \* per client: what the server would read from it next
  temp,       \* content of the temporary state file
  file,       \* content of the state file
  late        \* history: messages handled since g_stop was set

process == <<main, server, stop, quit, engine, listening, backlog, client>>
disk == <<temp, file>>
vars == <<qt, cef, boot, process, wire, disk, late>>

Messages == {"call", "browser", "shutdown"}

Running == main \notin {"exit_ok", "exit_runtime", "exit_usage", "killed"}

\* What one write of a start leaves: all of its text, or less of it.
Contents == [status : {"ready", "stopped"}, boot : 1..MaxBoots, whole : BOOLEAN]
Status(s, whole) == [status |-> s, boot |-> boot, whole |-> whole]

\* f comes from this start's write of s.
Says(f, s) == f # None /\ f.status = s /\ f.boot = boot

Init ==
  /\ qt \in BOOLEAN /\ cef = "untried" /\ boot = 1 /\ main = "boot" /\ server = "off"
  /\ stop = FALSE /\ quit = FALSE /\ engine = FALSE /\ listening = FALSE
  /\ backlog = <<>> /\ client = None /\ wire = [c \in Clients |-> "away"]
  /\ temp = None /\ file = None /\ late = 0

-----------------------------------------------------------------------------
(* StateFile                                                               *)

\* The stream's state is not looked at after the write: on a full disk less than
\* the text, or nothing, is what replace_file publishes.
WriteTemp(from, s, to) ==
  /\ server = from /\ server' = to
  /\ temp' \in {Status(s, TRUE), Status(s, FALSE)}
  /\ UNCHANGED <<qt, cef, boot, main, stop, quit, engine, listening, backlog, client, wire, file, late>>

\* Mutant of ReplaceFile: its error is not looked at.
ReplaceFileUnchecked(from, to) ==
  /\ server = from /\ server' = to
  /\ \/ file' = temp /\ temp' = None
     \/ UNCHANGED disk
  /\ UNCHANGED <<qt, cef, boot, main, stop, quit, engine, listening, backlog, client, wire, late>>

\* replace_file is one rename; a failure of it, or of the directory before it,
\* is thrown out of run.
ReplaceFile(from, to) ==
  /\ server = from
  /\ \/ server' = to /\ file' = temp /\ temp' = None
     \/ server' = "failed" /\ UNCHANGED disk
  /\ UNCHANGED <<qt, cef, boot, main, stop, quit, engine, listening, backlog, client, wire, late>>

WriteReady == WriteTemp("ready_temp", "ready", "ready_move") \/ ReplaceFile("ready_move", "accept")

\* Mutant of WriteStopped: announced while the clients can still connect.
WriteStoppedEarly ==
  \/ WriteTemp("closing", "stopped", "stopped_move")
  \/ ReplaceFile("stopped_move", "stopped_temp")
  \/ /\ server = "stopped_temp" /\ server' = "done" /\ listening' = FALSE
     /\ UNCHANGED <<qt, cef, boot, main, stop, quit, engine, backlog, client, wire, disk, late>>

WriteStopped == WriteTemp("stopped_temp", "stopped", "stopped_move") \/ ReplaceFile("stopped_move", "done")

-----------------------------------------------------------------------------
(* ControlServer::run and handle_client                                    *)

At(p, q) == server = p /\ server' = q

Bind ==
  /\ \/ At("bind", "ready_temp") /\ listening' = TRUE
     \/ At("bind", "failed") /\ UNCHANGED listening
  /\ UNCHANGED <<qt, cef, boot, main, stop, quit, engine, backlog, client, wire, disk, late>>

\* The loop looks at g_stop, then waits in select for at most 200 ms.
AcceptLoop ==
  /\ IF stop THEN At("accept", "closing") ELSE At("accept", "select")
  /\ UNCHANGED <<qt, cef, boot, main, stop, quit, engine, listening, backlog, client, wire, disk, late>>

Accept ==
  /\ IF backlog # <<>>
     THEN At("select", "handshake") /\ client' = Head(backlog) /\ backlog' = Tail(backlog)
     ELSE At("select", "accept") /\ UNCHANGED <<client, backlog>>
  /\ UNCHANGED <<qt, cef, boot, main, stop, quit, engine, listening, wire, disk, late>>

\* handle_client has returned: the client is closed, whatever it sent.
Drop == client' = None /\ wire' = [wire EXCEPT ![client] = "away"]

\* recv blocks until the client sends or leaves: there is no timeout here.
Handshake ==
  /\ server = "handshake"
  /\ \/ /\ wire[client] = "good" /\ server' = "serve"
        /\ wire' = [wire EXCEPT ![client] = "silent"] /\ UNCHANGED client
     \/ /\ wire[client] \in {"bad", "eof"} /\ server' = "accept" /\ Drop
  /\ UNCHANGED <<qt, cef, boot, main, stop, quit, engine, listening, backlog, disk, late>>

ServeLoop ==
  /\ IF stop THEN At("serve", "accept") /\ Drop
             ELSE At("serve", "wait") /\ UNCHANGED <<client, wire>>
  /\ UNCHANGED <<qt, cef, boot, main, stop, quit, engine, listening, backlog, disk, late>>

\* ensure_cef_initialized_for_kind: once, and in the Qt lane only, the server
\* queues the initialisation for the event loop of main and waits until it ran.
AsksForCef == wire[client] = "browser" /\ qt /\ cef = "untried"

\* The handler of a message has run, or the rest of it has: its answer is sent, its
\* client does not read it yet, or what it threw ends run, with every socket still
\* open.  host.shutdown does not throw.
Handled(m) ==
  \/ server' \in {"reply", "blocked"}
  \/ m # "shutdown" /\ server' = "failed"

\* One message, at most, between two looks at g_stop.  The rest of a message
\* that has begun is awaited without a timeout.
HandleMessage ==
  /\ server \in {"wait", "rest"} /\ wire[client] \in Messages
  /\ IF AsksForCef THEN server' = "cef" /\ cef' = "asked"
                   ELSE Handled(wire[client]) /\ UNCHANGED cef
  /\ late' = IF stop THEN late + 1 ELSE late
  /\ UNCHANGED <<qt, boot, main, stop, quit, engine, listening, backlog, client, wire, disk>>

\* send_all has returned; host.shutdown sets g_stop after its answer.
Reply ==
  /\ At("reply", "serve")
  /\ stop' = (stop \/ wire[client] = "shutdown")
  /\ wire' = [wire EXCEPT ![client] = "silent"]
  /\ UNCHANGED <<qt, cef, boot, main, quit, engine, listening, backlog, client, disk, late>>

\* Nothing came within 200 ms, and a tick or a heartbeat may be due; a part came,
\* whose rest is awaited; or the client is gone.
Wait ==
  /\ server \in {"wait", "rest"}
  /\ \/ /\ wire[client] = "silent" /\ server = "wait" /\ server' \in {"serve", "held"}
        /\ UNCHANGED <<client, wire>>
     \/ /\ wire[client] = "half" /\ At("wait", "rest") /\ UNCHANGED <<client, wire>>
     \/ /\ wire[client] = "eof" /\ server' = "accept" /\ Drop
  /\ UNCHANGED <<qt, cef, boot, main, stop, quit, engine, listening, backlog, disk, late>>

\* Clients that were never accepted are reset with the listening socket.
CloseServer ==
  /\ At("closing", "stopped_temp") /\ listening' = FALSE /\ backlog' = <<>>
  /\ wire' = [c \in Clients |-> "away"]
  /\ UNCHANGED <<qt, cef, boot, main, stop, quit, engine, client, disk, late>>

Server ==
  \/ Bind \/ WriteReady \/ AcceptLoop \/ Accept \/ Handshake \/ ServeLoop
  \/ HandleMessage \/ Reply \/ Wait \/ CloseServer \/ WriteStopped

-----------------------------------------------------------------------------
(* main()                                                                  *)

\* The process is gone, and with it its sockets.
Exit(code) ==
  /\ main' = code /\ server' = "off" /\ listening' = FALSE /\ backlog' = <<>> /\ client' = None
  /\ wire' = [c \in Clients |-> "away"]

\* The engine starts, fails, or is left in a user module that never returns: a probe
\* without a watchdog, or a post-load hook.  The modules are PluginSentinel's.
StartEngine ==
  /\ main = "boot"
  /\ \/ engine' = TRUE /\ main' = "run" /\ UNCHANGED <<server, listening, backlog, client, wire>>
     \/ UNCHANGED engine /\ Exit("exit_runtime")
     \/ UNCHANGED engine /\ main' = "hung" /\ UNCHANGED <<server, listening, backlog, client, wire>>
  /\ UNCHANGED <<qt, cef, boot, stop, quit, disk, late>>

RunServer ==
  /\ main = "run" /\ server' = "bind" /\ main' = IF qt THEN "spawned" ELSE "join"
  /\ UNCHANGED <<qt, cef, boot, stop, quit, engine, listening, backlog, client, wire, disk, late>>

\* Mutant of PostQuit: quit is called directly, and is lost before exec runs.
QuitDirectly ==
  /\ server \in {"done", "failed"} /\ qt
  /\ quit' = (main = "exec") /\ server' = IF server = "done" THEN "ended" ELSE "ended_failed"
  /\ UNCHANGED <<qt, cef, boot, main, stop, engine, listening, backlog, client, wire, disk, late>>

\* The end of the server thread: the quit is queued, before or after exec starts.
PostQuit ==
  /\ server \in {"done", "failed"} /\ qt
  /\ quit' = TRUE /\ server' = IF server = "done" THEN "ended" ELSE "ended_failed"
  /\ UNCHANGED <<qt, cef, boot, main, stop, engine, listening, backlog, client, wire, disk, late>>

\* The queued initialisation runs in the event loop, whether or not it finds CEF,
\* and the handler that waited for it goes on.
InitializeCef ==
  /\ main = "exec" /\ cef = "asked"
  /\ cef' = "tried" /\ Handled("browser")
  /\ UNCHANGED <<qt, boot, main, stop, quit, engine, listening, backlog, client, wire, disk, late>>

\* Mutant of Exec: the event loop ends as soon as a stop was asked for.
ExecUntilStop ==
  /\ \/ main = "spawned" /\ main' = "exec"
     \/ main = "exec" /\ (quit \/ stop) /\ main' = "join"
  /\ UNCHANGED <<qt, cef, boot, server, stop, quit, engine, listening, backlog, client, wire, disk, late>>

Exec ==
  /\ \/ main = "spawned" /\ main' = "exec"
     \/ main = "exec" /\ quit /\ main' = "join"
  /\ UNCHANGED <<qt, cef, boot, server, stop, quit, engine, listening, backlog, client, wire, disk, late>>

\* server_thread.join, then a carried exception or engine.shutdown.  Without
\* the Qt lane run has simply returned, or thrown.
Finish ==
  /\ main = "join"
  /\ \/ /\ server = IF qt THEN "ended" ELSE "done"
        /\ engine' = FALSE /\ main' = "shutdown"
        /\ UNCHANGED <<server, listening, backlog, client, wire>>
     \/ /\ server = IF qt THEN "ended_failed" ELSE "failed"
        /\ UNCHANGED engine /\ Exit("exit_usage")
  /\ UNCHANGED <<qt, cef, boot, stop, quit, disk, late>>

Return ==
  /\ main = "shutdown" /\ Exit("exit_ok")
  /\ UNCHANGED <<qt, cef, boot, stop, quit, engine, disk, late>>

Main == StartEngine \/ RunServer \/ PostQuit \/ InitializeCef \/ Exec \/ Finish \/ Return

-----------------------------------------------------------------------------
(* The environment: clients, signals and the supervisor                    *)

Connect(c) ==
  /\ listening /\ wire[c] = "away" /\ wire' = [wire EXCEPT ![c] = "silent"]
  /\ backlog' = Append(backlog, c)
  /\ UNCHANGED <<qt, cef, boot, main, server, stop, quit, engine, listening, client, disk, late>>

\* The client that has authenticated, and whose next message nothing precedes.
Served(c) == client = c /\ server # "handshake"

\* A client sends its handshake once, then messages, each whole or in two parts.
Send(c) ==
  /\ \/ wire[c] = "silent" /\ ~Served(c) /\ wire' \in {[wire EXCEPT ![c] = m] : m \in {"good", "bad"}}
     \/ wire[c] = "silent" /\ Served(c)
        /\ wire' \in {[wire EXCEPT ![c] = m] : m \in Messages \cup {"half"}}
     \/ wire[c] = "half" /\ wire' \in {[wire EXCEPT ![c] = m] : m \in Messages}
  /\ UNCHANGED <<qt, cef, boot, process, disk, late>>

\* The client reads again, or has left, and send_all returns.
Drain ==
  /\ At("blocked", "reply") \/ At("held", "serve")
  /\ UNCHANGED <<qt, cef, boot, main, stop, quit, engine, listening, backlog, client, wire, disk, late>>

Leave(c) ==
  /\ wire[c] \in {"silent", "half"} /\ wire' = [wire EXCEPT ![c] = "eof"]
  /\ UNCHANGED <<qt, cef, boot, process, disk, late>>

Signal ==
  /\ Running /\ ~stop /\ stop' = TRUE
  /\ UNCHANGED <<qt, cef, boot, main, server, quit, engine, listening, backlog, client, wire, disk, late>>

Kill ==
  /\ Running /\ Exit("killed") /\ UNCHANGED <<qt, cef, boot, stop, quit, engine, disk, late>>

\* The supervisor starts the host again; the files are what they were.
Restart ==
  /\ ~Running /\ boot < MaxBoots /\ boot' = boot + 1 /\ main' = "boot"
  /\ stop' = FALSE /\ quit' = FALSE /\ engine' = FALSE /\ cef' = "untried" /\ late' = 0
  /\ UNCHANGED <<qt, server, listening, backlog, client, wire, disk>>

Environment == Signal \/ Kill \/ Restart \/ Drain \/ \E c \in Clients : Connect(c) \/ Send(c) \/ Leave(c)

Next == Server \/ Main \/ Environment

Spec == Init /\ [][Next]_vars

\* Both threads go on as long as they can; clients, modules and the supervisor need not.
Fairness == WF_vars(Server) /\ WF_vars(Main)

FairSpec == Spec /\ Fairness

-----------------------------------------------------------------------------
(* Properties                                                              *)

\* Every variable has its type.
TypeOK ==
  /\ qt \in BOOLEAN /\ boot \in 1..MaxBoots
  /\ main \in {"boot", "run", "spawned", "exec", "join", "shutdown",
               "exit_ok", "exit_runtime", "exit_usage", "killed", "hung"}
  /\ server \in {"off", "bind", "ready_temp", "ready_move", "accept", "select", "handshake",
                 "serve", "wait", "rest", "cef", "reply", "blocked", "held", "closing", "stopped_temp", "stopped_move",
                 "done", "failed", "ended", "ended_failed"}
  /\ stop \in BOOLEAN /\ quit \in BOOLEAN /\ engine \in BOOLEAN /\ listening \in BOOLEAN
  /\ backlog \in Seq(Clients) /\ client \in Clients \cup {None}
  /\ cef \in {"untried", "asked", "tried"}
  /\ wire \in [Clients -> {"away", "silent", "good", "bad", "half", "eof"} \cup Messages]
  /\ temp \in Contents \cup {None} /\ file \in Contents \cup {None}
  /\ late \in Nat

\* While the host runs, "ready" of this start is in place only if clients can
\* connect or the stop has been asked for, and "stopped" only when nobody can.  It
\* speaks of the write the file comes from, which may have come out short.
StateFileTruthful ==
  /\ Running /\ Says(file, "ready") => listening \/ stop
  /\ Says(file, "stopped") => ~listening /\ client = None

\* Exit status 0 is the status of a host that has put its announcement of the end
\* into place, short or whole, and shut its engine down.
CleanExit == main = "exit_ok" => Says(file, "stopped") /\ ~engine

\* No client is served by a host whose engine is not up.
EngineWhileServing == client # None => engine

\* After a stop was asked for, one message more may be handled, never two.
OneLateMessage == late <= 1

\* While the control thread waits for CEF, the event loop that it waits for is
\* still to run: no quit is queued before it, and main does not join it.
LoopOutlivesServer == server = "cef" => main \in {"spawned", "exec"} /\ ~quit

\* A message that creates a browser source is handled to its end: the control
\* thread, which main joins, does not wait for main for ever.
BrowserCallsReturn == server = "cef" ~> server # "cef"

\* The client keeps the control thread inside a recv or a send without a timeout.
HeldByClient == server \in {"handshake", "rest", "blocked", "held"}

\* Once a stop was asked for, by signal or by host.shutdown, the process ends.  The
\* exceptions are the two that the code cannot end: a client that stays and neither
\* sends the rest of what it began nor reads, and a module that never returns.
StopIsHonoured == <>[]HeldByClient \/ (stop ~> ~Running \/ main = "hung")
=============================================================================
