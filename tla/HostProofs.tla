----------------------------- MODULE HostProofs -----------------------------
(* Proofs about the process: HostServer, for every set of clients and number *)
(* of starts, and FrameCapture, the waits of its control thread, for every   *)
(* set of sources, every window and any number of captures.                  *)
EXTENDS HostServer, FrameCapture, TLAPS

Serving == {"handshake", "serve", "wait", "rest", "cef", "reply", "blocked", "held"}
Over == {"done", "ended"}

\* main() and the server thread: who has started whom, who waits for whom.
Lanes ==
  /\ main \in {"boot", "run", "hung"} => server = "off" /\ late = 0 /\ ~quit /\ cef = "untried"
  /\ main = "run" => engine
  /\ main \in {"spawned", "exec", "join"} => engine /\ server # "off"
  /\ main = "shutdown" => server \in Over /\ ~engine
  /\ ~Running => server = "off"
  /\ main = "exit_ok" => ~engine
  /\ quit => server \in {"off", "ended", "ended_failed"}
  /\ qt /\ main = "join" => quit
  /\ server = "cef" => qt /\ cef = "asked" /\ main \in {"spawned", "exec"}
  /\ cef = "asked" => server \in {"cef", "off"}

\* A client is held while it is served, and by a run that its handler threw out of,
\* whose sockets stay open.
Holding ==
  /\ server \in Serving => client # None
  /\ client # None => server \in Serving \cup {"failed", "ended_failed"}
  /\ server \in {"off", "bind", "stopped_temp", "stopped_move"} \cup Over => ~listening
  /\ server \in {"ready_temp", "ready_move", "accept", "select", "closing"} \cup Serving => listening

\* Which write the files come from at each point, however short it came out.
Disk ==
  /\ temp # None => temp.boot <= boot
  /\ file # None => file.boot <= boot
  /\ server = "ready_move" => Says(temp, "ready")
  /\ server = "stopped_move" => Says(temp, "stopped")
  /\ server \in Over \/ main = "exit_ok" => Says(file, "stopped")
  /\ Says(file, "stopped") => server \in Over \cup {"off"} /\ main \notin {"boot", "run", "hung"}
  /\ Running /\ Says(file, "ready") => server # "off" /\ (listening \/ stop)

\* g_stop is looked at between the first late message and a second one.
Lateness ==
  /\ late <= 1
  /\ late > 0 => stop /\ server \notin {"bind", "ready_temp", "ready_move", "select", "handshake", "wait", "rest"}

\* After the loops have seen it, g_stop stays set.
Stopping == server \in {"closing", "stopped_temp", "stopped_move"} \cup Over => stop

IInv == TypeOK /\ Lanes /\ Holding /\ Disk /\ Lateness /\ Stopping

-----------------------------------------------------------------------------

\* The empty backlog is a sequence of clients.
LEMMA EmptyBacklog == <<>> \in Seq(Clients)
  OBVIOUS

\* A socket that is bound, or not.
LEMMA BindStep == ASSUME IInv, Bind PROVE IInv'
<1> USE NoneAssumption, BoundAssumption DEF TypeOK, Running, At, disk, Bind
<1>1. TypeOK'
  <2>1. server' \in {"ready_temp", "failed"} /\ listening' \in BOOLEAN  BY DEF IInv
  <2> HIDE DEF Bind
  <2>2. UNCHANGED <<qt, cef, boot, main, stop, quit, engine, backlog, client, wire, disk, late>>
    BY DEF Bind
  <2> QED  BY <2>1, <2>2 DEF IInv
<1>2. Lanes'  BY DEF IInv, Lanes, Serving, Over, Lateness
<1>3. Holding'  BY DEF IInv, Lanes, Holding, Serving, Over
<1>4. Disk'  BY
       DEF IInv, Lanes, Holding, Disk, Stopping, Serving, Over, Contents, Status, Says
<1>5. Lateness'  BY DEF IInv, Lanes, Lateness
<1>6. Stopping'  BY DEF IInv, Lanes, Stopping, Over
<1> QED  BY <1>1, <1>2, <1>3, <1>4, <1>5, <1>6 DEF IInv

\* A write of this start leaves what is this start's, whole or not.
LEMMA TempWritten ==
  ASSUME TypeOK, NEW from, NEW s \in {"ready", "stopped"}, NEW to, WriteTemp(from, s, to)
  PROVE  /\ server = from /\ server' = to /\ file' = file /\ temp' \in Contents
         /\ Says(temp', s) /\ boot' = boot
<1>1. boot \in 1..MaxBoots /\ boot' = boot /\ server = from /\ server' = to /\ file' = file
  BY DEF TypeOK, WriteTemp
<1>2. PICK whole \in BOOLEAN : temp' = [status |-> s, boot |-> boot, whole |-> whole]
  BY DEF WriteTemp, Status
<1>3. temp' \in Contents  BY <1>1, <1>2 DEF Contents
<1>4. temp'.status = s /\ temp'.boot = boot  BY <1>2
<1>5. temp' # None
  <2>1. temp' \in [status : {"ready", "stopped"}, boot : Nat, whole : BOOLEAN]
    BY <1>1, <1>2, BoundAssumption
  <2> QED  BY <2>1, NoneAssumption
<1> QED  BY <1>1, <1>3, <1>4, <1>5 DEF Says

\* "ready" is published by a server that listens.
LEMMA WriteReadyStep == ASSUME IInv, WriteReady PROVE IInv'
<1> USE NoneAssumption, BoundAssumption DEF Running
<1>0. IInv /\ TypeOK /\ Lanes /\ Holding /\ Disk /\ Lateness /\ Stopping  BY DEF IInv
<1>1. CASE WriteTemp("ready_temp", "ready", "ready_move")
  <2>1. /\ server = "ready_temp" /\ server' = "ready_move" /\ file' = file /\ temp' \in Contents
        /\ Says(temp', "ready") /\ boot' = boot
    BY <1>0, <1>1, TempWritten
  <2>2. UNCHANGED <<qt, cef, main, stop, quit, engine, listening, backlog, client, wire, late>>
    BY <1>1 DEF WriteTemp
  <2>3. TypeOK'  BY <1>0, <2>1, <2>2 DEF TypeOK
  <2>4. Lanes' /\ Holding'  BY <1>0, <2>1, <2>2 DEF Lanes, Holding, Serving, Over
  <2>5. Disk'  BY <1>0, <2>1, <2>2 DEF TypeOK, Disk, Says, Over
  <2>6. Lateness' /\ Stopping'  BY <1>0, <2>1, <2>2 DEF Lateness, Stopping, Over
  <2> QED  BY <2>3, <2>4, <2>5, <2>6 DEF IInv
<1>2. CASE ReplaceFile("ready_move", "accept")
  <2>1. /\ server = "ready_move" /\ boot' = boot /\ temp' \in {temp, None}
        /\ \/ server' = "accept" /\ file' = temp /\ temp' = None
           \/ server' = "failed" /\ file' = file /\ temp' = temp
    BY <1>2 DEF ReplaceFile, disk
  <2>2. UNCHANGED <<qt, cef, main, stop, quit, engine, listening, backlog, client, wire, late>>
    BY <1>2 DEF ReplaceFile
  <2>3. TypeOK'
    <3>1. temp' \in Contents \cup {None} /\ file' \in Contents \cup {None}  BY <1>0, <2>1 DEF TypeOK
    <3>2. server' \in {"accept", "failed"}  BY <2>1
    <3> QED  BY <1>0, <2>1, <2>2, <3>1, <3>2 DEF TypeOK
  <2>4. Lanes'
    <3>1. server' \in {"accept", "failed"}  BY <2>1
    <3> QED  BY <1>0, <2>1, <2>2, <3>1 DEF Lanes, Over
  <2>5. Holding'
    <3>1. server' \in {"accept", "failed"}  BY <2>1
    <3> QED  BY <1>0, <2>1, <2>2, <3>1 DEF Holding, Serving, Over
  <2>6. Disk'
    <3>1. Says(temp, "ready")  BY <1>0, <2>1 DEF Disk
    <3>2. CASE server' = "failed"  BY <1>0, <2>1, <2>2, <3>2 DEF Disk, Says, Over
    <3>3. CASE server' = "accept"  BY <1>0, <2>1, <2>2, <3>1, <3>3 DEF Lanes, Holding, Disk, Says, Over
    <3> QED  BY <2>1, <3>2, <3>3
  <2>7. Lateness' /\ Stopping'  BY <1>0, <2>1, <2>2 DEF Lateness, Stopping, Over
  <2> QED  BY <2>3, <2>4, <2>5, <2>6, <2>7 DEF IInv
<1> QED  BY <1>1, <1>2 DEF WriteReady

\* g_stop is seen before the next client.
LEMMA AcceptLoopStep == ASSUME IInv, AcceptLoop PROVE IInv'
  BY NoneAssumption, BoundAssumption
       DEF IInv, TypeOK, Lanes, Holding, Disk, Lateness, Stopping, Serving, Over,
           Contents, Status, Says, Running, At, Exit, Drop, WriteTemp, ReplaceFile, disk,
           AcceptLoop

\* The head of the backlog is taken.
LEMMA AcceptStep == ASSUME IInv, Accept PROVE IInv'
<1> USE NoneAssumption, BoundAssumption DEF TypeOK, Running, At, disk, Accept
<1>0. backlog # <<>> => Head(backlog) \in Clients /\ Tail(backlog) \in Seq(Clients)
  BY DEF IInv
<1>1. TypeOK'  BY <1>0 DEF IInv, Contents
<1>2. Lanes'  BY DEF IInv, Lanes, Serving, Over, Lateness
<1>3. Holding'  BY <1>0 DEF IInv, Lanes, Holding, Serving, Over
<1>4. Disk'  BY
       DEF IInv, Lanes, Holding, Disk, Stopping, Serving, Over, Contents, Status, Says
<1>5. Lateness'  BY DEF IInv, Lanes, Lateness
<1>6. Stopping'  BY DEF IInv, Lanes, Stopping, Over
<1> QED  BY <1>1, <1>2, <1>3, <1>4, <1>5, <1>6 DEF IInv

\* The handshake is accepted, refused or missed.
LEMMA HandshakeStep == ASSUME IInv, Handshake PROVE IInv'
<1> USE NoneAssumption, BoundAssumption DEF TypeOK, Running, At, disk, Drop, Handshake
<1>1. TypeOK'  BY DEF IInv, Contents
<1>2. Lanes'  BY DEF IInv, Lanes, Serving, Over, Lateness
<1>3. Holding'  BY DEF IInv, Lanes, Holding, Serving, Over
<1>4. Disk'  BY
       DEF IInv, Lanes, Holding, Disk, Stopping, Serving, Over, Contents, Status, Says
<1>5. Lateness'  BY DEF IInv, Lanes, Lateness
<1>6. Stopping'  BY DEF IInv, Lanes, Stopping, Over
<1> QED  BY <1>1, <1>2, <1>3, <1>4, <1>5, <1>6 DEF IInv

\* g_stop is seen before the next message.
LEMMA ServeLoopStep == ASSUME IInv, ServeLoop PROVE IInv'
<1> USE NoneAssumption, BoundAssumption DEF TypeOK, Running, At, disk, Drop, ServeLoop
<1>1. TypeOK'  BY DEF IInv, Contents
<1>2. Lanes'  BY DEF IInv, Lanes, Serving, Over, Lateness
<1>3. Holding'  BY DEF IInv, Lanes, Holding, Serving, Over
<1>4. Disk'  BY
       DEF IInv, Lanes, Holding, Disk, Stopping, Serving, Over, Contents, Status, Says
<1>5. Lateness'  BY DEF IInv, Lanes, Lateness
<1>6. Stopping'  BY DEF IInv, Lanes, Stopping, Over
<1> QED  BY <1>1, <1>2, <1>3, <1>4, <1>5, <1>6 DEF IInv

\* One message is handled between two looks at g_stop.
LEMMA HandleMessageStep == ASSUME IInv, HandleMessage PROVE IInv'
<1> USE NoneAssumption, BoundAssumption DEF TypeOK, Running, At, disk, AsksForCef, Handled, Messages, HandleMessage
<1>1. TypeOK'  BY DEF IInv, Lanes, Holding, Serving, Over, Contents
<1>2. Lanes'  BY DEF IInv, Lanes, Serving, Over, Lateness
<1>3. Holding'  BY DEF IInv, Lanes, Holding, Serving, Over
<1>4. Disk'  BY
       DEF IInv, Lanes, Holding, Disk, Stopping, Serving, Over, Contents, Status, Says
<1>5. Lateness'  BY DEF IInv, Lanes, Lateness
<1>6. Stopping'  BY DEF IInv, Lanes, Stopping, Over
<1> QED  BY <1>1, <1>2, <1>3, <1>4, <1>5, <1>6 DEF IInv

\* Main initialises CEF while the server waits for it.
LEMMA InitializeCefStep == ASSUME IInv, InitializeCef PROVE IInv'
<1> USE NoneAssumption, BoundAssumption DEF TypeOK, Running, At, disk, Handled, InitializeCef
<1>1. TypeOK'  BY DEF IInv, Contents
<1>2. Lanes'  BY DEF IInv, Lanes, Serving, Over, Lateness
<1>3. Holding'  BY DEF IInv, Lanes, Holding, Serving, Over
<1>4. Disk'  BY
       DEF IInv, Lanes, Holding, Disk, Stopping, Serving, Over, Contents, Status, Says
<1>5. Lateness'  BY DEF IInv, Lanes, Lateness
<1>6. Stopping'  BY DEF IInv, Lanes, Stopping, Over
<1> QED  BY <1>1, <1>2, <1>3, <1>4, <1>5, <1>6 DEF IInv

\* The answer is out, and a shutdown is heeded.
LEMMA ReplyStep == ASSUME IInv, Reply PROVE IInv'
<1> USE NoneAssumption, BoundAssumption DEF TypeOK, Running, At, disk, Reply
<1>1. TypeOK'  BY DEF IInv, Lanes, Holding, Serving, Over, Contents
<1>2. Lanes'  BY DEF IInv, Lanes, Serving, Over, Lateness
<1>3. Holding'  BY DEF IInv, Lanes, Holding, Serving, Over
<1>4. Disk'  BY
       DEF IInv, Lanes, Holding, Disk, Stopping, Serving, Over, Contents, Status, Says
<1>5. Lateness'  BY DEF IInv, Lanes, Lateness
<1>6. Stopping'  BY DEF IInv, Lanes, Stopping, Over
<1> QED  BY <1>1, <1>2, <1>3, <1>4, <1>5, <1>6 DEF IInv

\* The client lets go of the server.
LEMMA DrainStep == ASSUME IInv, Drain PROVE IInv'
<1> USE NoneAssumption, BoundAssumption DEF TypeOK, Running, At, disk, Drain
<1>1. TypeOK'  BY DEF IInv, Contents
<1>2. Lanes'  BY DEF IInv, Lanes, Serving, Over, Lateness
<1>3. Holding'  BY DEF IInv, Lanes, Holding, Serving, Over
<1>4. Disk'  BY
       DEF IInv, Lanes, Holding, Disk, Stopping, Serving, Over, Contents, Status, Says
<1>5. Lateness'  BY DEF IInv, Lanes, Lateness
<1>6. Stopping'  BY DEF IInv, Lanes, Stopping, Over
<1> QED  BY <1>1, <1>2, <1>3, <1>4, <1>5, <1>6 DEF IInv

\* The client has sent nothing, a part, or has left.
LEMMA WaitStep == ASSUME IInv, Wait PROVE IInv'
<1> USE NoneAssumption, BoundAssumption DEF TypeOK, Running, At, disk, Drop, Wait
<1>1. TypeOK'  BY DEF IInv, Contents
<1>2. Lanes'  BY DEF IInv, Lanes, Serving, Over, Lateness
<1>3. Holding'  BY DEF IInv, Lanes, Holding, Serving, Over
<1>4. Disk'  BY
       DEF IInv, Lanes, Holding, Disk, Stopping, Serving, Over, Contents, Status, Says
<1>5. Lateness'  BY DEF IInv, Lanes, Lateness
<1>6. Stopping'  BY DEF IInv, Lanes, Stopping, Over
<1> QED  BY <1>1, <1>2, <1>3, <1>4, <1>5, <1>6 DEF IInv

\* The socket closes after a stop only.
LEMMA CloseServerStep == ASSUME IInv, CloseServer PROVE IInv'
<1> USE NoneAssumption, BoundAssumption DEF TypeOK, Running, At, disk, CloseServer
<1>1. TypeOK'
  <2>1. /\ server' = "stopped_temp" /\ listening' = FALSE /\ backlog' = <<>>
        /\ wire' = [c \in Clients |-> "away"]
        /\ UNCHANGED <<qt, cef, boot, main, stop, quit, engine, client, disk, late>>
    OBVIOUS
  <2> HIDE DEF CloseServer
  <2>2. wire' \in [Clients -> {"away", "silent", "good", "bad", "half", "eof"} \cup Messages]  BY <2>1
  <2>3. backlog' \in Seq(Clients)  BY <2>1, EmptyBacklog
  <2>4. /\ qt' \in BOOLEAN /\ boot' \in 1..MaxBoots /\ stop' \in BOOLEAN /\ quit' \in BOOLEAN
        /\ engine' \in BOOLEAN /\ listening' \in BOOLEAN /\ late' \in Nat
    BY <2>1 DEF IInv
  <2>5. temp' \in Contents \cup {None} /\ file' \in Contents \cup {None}  BY <2>1 DEF IInv
  <2>6. client' \in Clients \cup {None} /\ cef' \in {"untried", "asked", "tried"}  BY <2>1 DEF IInv
  <2>7. main' = main  BY <2>1
  <2>8. TypeOK  BY DEF IInv
  <2> QED  BY <2>1, <2>2, <2>3, <2>4, <2>5, <2>6, <2>7, <2>8
<1>2. Lanes'  BY DEF IInv, Lanes, Serving, Over, Lateness
<1>3. Holding'  BY DEF IInv, Lanes, Holding, Serving, Over
<1>4. Disk'  BY
       DEF IInv, Lanes, Holding, Disk, Stopping, Serving, Over, Contents, Status, Says
<1>5. Lateness'  BY DEF IInv, Lanes, Lateness
<1>6. Stopping'  BY DEF IInv, Lanes, Stopping, Over
<1> QED  BY <1>1, <1>2, <1>3, <1>4, <1>5, <1>6 DEF IInv

\* "stopped" is published after the socket closed.
LEMMA WriteStoppedStep == ASSUME IInv, WriteStopped PROVE IInv'
<1> USE NoneAssumption, BoundAssumption DEF Running
<1>0. IInv /\ TypeOK /\ Lanes /\ Holding /\ Disk /\ Lateness /\ Stopping  BY DEF IInv
<1>1. CASE WriteTemp("stopped_temp", "stopped", "stopped_move")
  <2>1. /\ server = "stopped_temp" /\ server' = "stopped_move" /\ file' = file /\ temp' \in Contents
        /\ Says(temp', "stopped") /\ boot' = boot
    BY <1>0, <1>1, TempWritten
  <2>2. UNCHANGED <<qt, cef, main, stop, quit, engine, listening, backlog, client, wire, late>>
    BY <1>1 DEF WriteTemp
  <2>3. TypeOK'  BY <1>0, <2>1, <2>2 DEF TypeOK
  <2>4. Lanes' /\ Holding'  BY <1>0, <2>1, <2>2 DEF Lanes, Holding, Serving, Over
  <2>5. Disk'  BY <1>0, <2>1, <2>2 DEF TypeOK, Disk, Says, Over
  <2>6. Lateness' /\ Stopping'  BY <1>0, <2>1, <2>2 DEF Lateness, Stopping, Over
  <2> QED  BY <2>3, <2>4, <2>5, <2>6 DEF IInv
<1>2. CASE ReplaceFile("stopped_move", "done")
  <2>1. /\ server = "stopped_move" /\ boot' = boot /\ temp' \in {temp, None}
        /\ \/ server' = "done" /\ file' = temp /\ temp' = None
           \/ server' = "failed" /\ file' = file /\ temp' = temp
    BY <1>2 DEF ReplaceFile, disk
  <2>2. UNCHANGED <<qt, cef, main, stop, quit, engine, listening, backlog, client, wire, late>>
    BY <1>2 DEF ReplaceFile
  <2>3. TypeOK'
    <3>1. temp' \in Contents \cup {None} /\ file' \in Contents \cup {None}  BY <1>0, <2>1 DEF TypeOK
    <3>2. server' \in {"done", "failed"}  BY <2>1
    <3> QED  BY <1>0, <2>1, <2>2, <3>1, <3>2 DEF TypeOK
  <2>4. Lanes'
    <3>1. server' \in {"done", "failed"}  BY <2>1
    <3> QED  BY <1>0, <2>1, <2>2, <3>1 DEF Lanes, Over
  <2>5. Holding'
    <3>1. server' \in {"done", "failed"}  BY <2>1
    <3> QED  BY <1>0, <2>1, <2>2, <3>1 DEF Holding, Serving, Over
  <2>6. Disk'
    <3>1. Says(temp, "stopped")  BY <1>0, <2>1 DEF Disk
    <3>2. CASE server' = "failed"  BY <1>0, <2>1, <2>2, <3>2 DEF Disk, Says, Over
    <3>3. CASE server' = "done"  BY <1>0, <2>1, <2>2, <3>1, <3>3 DEF Lanes, Holding, Disk, Says, Over, Stopping
    <3> QED  BY <2>1, <3>2, <3>3
  <2>7. Lateness' /\ Stopping'  BY <1>0, <2>1, <2>2 DEF Lateness, Stopping, Over
  <2> QED  BY <2>3, <2>4, <2>5, <2>6, <2>7 DEF IInv
<1> QED  BY <1>1, <1>2 DEF WriteStopped

\* The engine is up, or main returns.
LEMMA StartEngineStep == ASSUME IInv, StartEngine PROVE IInv'
<1> USE NoneAssumption, BoundAssumption DEF TypeOK, Running, At, disk, Exit, StartEngine
<1>1. TypeOK'
  <2>1. engine' \in BOOLEAN /\ UNCHANGED <<qt, cef, boot, stop, quit, disk, late>>  BY DEF IInv
  <2>2. \/ Exit("exit_runtime")
        \/ main' \in {"run", "hung"} /\ UNCHANGED <<server, listening, backlog, client, wire>>
    OBVIOUS
  <2> HIDE DEF StartEngine
  <2>3. CASE Exit("exit_runtime")  BY <2>1, <2>3, EmptyBacklog DEF IInv
  <2>4. CASE main' \in {"run", "hung"} /\ UNCHANGED <<server, listening, backlog, client, wire>>
    BY <2>1, <2>4 DEF IInv
  <2> QED  BY <2>2, <2>3, <2>4
<1>2. Lanes'  BY DEF IInv, Lanes, Serving, Over, Lateness
<1>3. Holding'
  <2>1. CASE Exit("exit_runtime")  BY <2>1 DEF IInv, Holding, Serving, Over
  <2>2. CASE UNCHANGED <<server, listening, client>>  BY <2>2
       DEF IInv, Holding, Serving, Over
  <2> QED  BY <2>1, <2>2
<1>4. Disk'  BY
       DEF IInv, Lanes, Holding, Disk, Stopping, Serving, Over, Contents, Status, Says
<1>5. Lateness'  BY DEF IInv, Lanes, Lateness
<1>6. Stopping'  BY DEF IInv, Lanes, Stopping, Over
<1> QED  BY <1>1, <1>2, <1>3, <1>4, <1>5, <1>6 DEF IInv

\* The server starts with the engine up.
LEMMA RunServerStep == ASSUME IInv, RunServer PROVE IInv'
<1> USE NoneAssumption, BoundAssumption DEF TypeOK, Running, At, disk, RunServer
<1>1. TypeOK'  BY DEF IInv, Contents
<1>2. Lanes'  BY DEF IInv, Lanes, Serving, Over, Lateness
<1>3. Holding'  BY DEF IInv, Lanes, Holding, Serving, Over
<1>4. Disk'  BY
       DEF IInv, Lanes, Holding, Disk, Stopping, Serving, Over, Contents, Status, Says
<1>5. Lateness'  BY DEF IInv, Lanes, Lateness
<1>6. Stopping'  BY DEF IInv, Lanes, Stopping, Over
<1> QED  BY <1>1, <1>2, <1>3, <1>4, <1>5, <1>6 DEF IInv

\* The server thread ends.
LEMMA PostQuitStep == ASSUME IInv, PostQuit PROVE IInv'
  BY NoneAssumption, BoundAssumption
       DEF IInv, TypeOK, Lanes, Holding, Disk, Lateness, Stopping, Serving, Over,
           Contents, Status, Says, Running, At, Exit, Drop, WriteTemp, ReplaceFile, disk,
           PostQuit

\* The event loop starts and ends.
LEMMA ExecStep == ASSUME IInv, Exec PROVE IInv'
  BY NoneAssumption, BoundAssumption
       DEF IInv, TypeOK, Lanes, Holding, Disk, Lateness, Stopping, Serving, Over,
           Contents, Status, Says, Running, At, Exit, Drop, WriteTemp, ReplaceFile, disk, Exec

\* The server is over when the engine is shut down.
LEMMA FinishStep == ASSUME IInv, Finish PROVE IInv'
<1> USE NoneAssumption, BoundAssumption DEF TypeOK, Running, At, disk, Exit, Finish
<1>1. TypeOK'
  <2>1. engine' \in BOOLEAN /\ UNCHANGED <<qt, cef, boot, stop, quit, disk, late>>  BY DEF IInv
  <2>2. \/ Exit("exit_usage")
        \/ main' = "shutdown" /\ UNCHANGED <<server, listening, backlog, client, wire>>
    OBVIOUS
  <2> HIDE DEF Finish
  <2>3. CASE Exit("exit_usage")  BY <2>1, <2>3, EmptyBacklog DEF IInv
  <2>4. CASE main' = "shutdown" /\ UNCHANGED <<server, listening, backlog, client, wire>>
    BY <2>1, <2>4 DEF IInv
  <2> QED  BY <2>2, <2>3, <2>4
<1>2. Lanes'  BY DEF IInv, Lanes, Serving, Over, Lateness
<1>3. Holding'
  <2>1. CASE Exit("exit_usage")  BY <2>1 DEF IInv, Holding, Serving, Over
  <2>2. CASE UNCHANGED <<server, listening, client>>  BY <2>2
       DEF IInv, Holding, Serving, Over
  <2> QED  BY <2>1, <2>2
<1>4. Disk'  BY
       DEF IInv, Lanes, Holding, Disk, Stopping, Serving, Over, Contents, Status, Says
<1>5. Lateness'  BY DEF IInv, Lanes, Lateness
<1>6. Stopping'  BY DEF IInv, Lanes, Stopping, Over
<1> QED  BY <1>1, <1>2, <1>3, <1>4, <1>5, <1>6 DEF IInv

\* The process ends.
LEMMA ReturnStep == ASSUME IInv, Return PROVE IInv'
<1> USE NoneAssumption, BoundAssumption DEF TypeOK, Running, At, disk, Exit, Return
<1>1. TypeOK'  BY EmptyBacklog DEF IInv
<1>2. Lanes'  BY DEF IInv, Lanes, Serving, Over, Lateness
<1>3. Holding'  BY DEF IInv, Lanes, Holding, Serving, Over
<1>4. Disk'  BY
       DEF IInv, Lanes, Holding, Disk, Stopping, Serving, Over, Contents, Status, Says
<1>5. Lateness'  BY DEF IInv, Lanes, Lateness
<1>6. Stopping'  BY DEF IInv, Lanes, Stopping, Over
<1> QED  BY <1>1, <1>2, <1>3, <1>4, <1>5, <1>6 DEF IInv

\* A signal only sets g_stop.
LEMMA SignalStep == ASSUME IInv, Signal PROVE IInv'
  BY NoneAssumption, BoundAssumption
       DEF IInv, TypeOK, Lanes, Holding, Disk, Lateness, Stopping, Serving, Over,
           Contents, Status, Says, Running, At, Exit, Drop, WriteTemp, ReplaceFile, disk, Signal

\* A killed process has no server.
LEMMA KillStep == ASSUME IInv, Kill PROVE IInv'
<1> USE NoneAssumption, BoundAssumption DEF TypeOK, Running, At, disk, Exit, Kill
<1>1. TypeOK'  BY EmptyBacklog DEF IInv
<1>2. Lanes'  BY DEF IInv, Lanes, Serving, Over, Lateness
<1>3. Holding'  BY DEF IInv, Lanes, Holding, Serving, Over
<1>4. Disk'  BY
       DEF IInv, Lanes, Holding, Disk, Stopping, Serving, Over, Contents, Status, Says
<1>5. Lateness'  BY DEF IInv, Lanes, Lateness
<1>6. Stopping'  BY DEF IInv, Lanes, Stopping, Over
<1> QED  BY <1>1, <1>2, <1>3, <1>4, <1>5, <1>6 DEF IInv

\* What the files say is of an earlier start.
LEMMA RestartStep == ASSUME IInv, Restart PROVE IInv'
<1> USE NoneAssumption, BoundAssumption DEF TypeOK, Running, At, disk, Restart
<1>0. boot \in 1..MaxBoots /\ boot' = boot + 1 /\ boot' \in 1..MaxBoots /\ boot < boot'
  BY DEF IInv
<1>1. TypeOK'
  <2>1. UNCHANGED <<server, quit, listening, backlog, client, wire, temp, file>> \/ quit' = FALSE
    OBVIOUS
  <2> QED  BY <1>0 DEF IInv, Lanes, Holding, Serving, Over, Contents
<1>2. Lanes'  BY DEF IInv, Lanes, Serving, Over, Lateness
<1>3. Holding'  BY DEF IInv, Lanes, Holding, Serving, Over
<1>4. Disk'
  <2>1. Disk /\ server' = "off" /\ temp' = temp /\ file' = file /\ server = "off"
    BY DEF IInv, Lanes
  <2>2. temp # None => temp.boot \in 1..MaxBoots /\ temp.boot <= boot
    BY <2>1 DEF IInv, Disk, Contents
  <2>3. file # None => file.boot \in 1..MaxBoots /\ file.boot <= boot /\ file.boot # boot'
    BY <1>0, <2>1 DEF IInv, Disk, Contents
  <2>4. ~Says(file, "ready")' /\ ~Says(file, "stopped")'
    BY <2>1, <2>3 DEF Says
  <2> QED  BY <1>0, <2>1, <2>2, <2>3, <2>4 DEF Disk, Over
<1>5. Lateness'  BY DEF IInv, Lanes, Lateness
<1>6. Stopping'  BY DEF IInv, Lanes, Stopping, Over
<1> QED  BY <1>1, <1>2, <1>3, <1>4, <1>5, <1>6 DEF IInv

\* Clients change only what is on the wire.
LEMMA EnvironmentStep == ASSUME IInv, NEW c \in Clients, Connect(c) \/ Send(c) \/ Leave(c) PROVE IInv'
<1> USE NoneAssumption, BoundAssumption DEF TypeOK, Running, disk, process, Connect, Send, Leave
<1>1. TypeOK'
  <2>1. CASE Connect(c)  BY <2>1 DEF IInv, Contents
  <2>2. CASE Send(c)
    <3>1. PICK m \in {"good", "bad", "half"} \cup Messages : wire' = [wire EXCEPT ![c] = m]
      BY <2>2
    <3> QED  BY <2>2, <3>1 DEF IInv, Contents
  <2>3. CASE Leave(c)  BY <2>3 DEF IInv, Contents
  <2> QED  BY <2>1, <2>2, <2>3
<1>2. UNCHANGED <<qt, cef, boot, main, server, stop, quit, engine, listening, client, temp, file, late>>
  OBVIOUS
<1> QED  BY <1>1, <1>2 DEF IInv, Lanes, Holding, Disk, Lateness, Stopping, Contents, Status, Says

-----------------------------------------------------------------------------
(* The invariant is inductive.                                             *)

\* The invariant holds before the first step.
LEMMA InitIInv == ASSUME Init PROVE IInv
<1> USE NoneAssumption, BoundAssumption DEF Init, Running
<1>1. TypeOK
  <2>1. 1 \in 1..MaxBoots  OBVIOUS
  <2> QED  BY <2>1, EmptyBacklog DEF TypeOK, Contents
<1>2. Lanes /\ Holding /\ Lateness /\ Stopping  BY
       DEF Lanes, Holding, Lateness, Stopping, Serving, Over
<1>4. Disk  BY DEF Disk, Serving, Over, Says
<1> QED  BY <1>1, <1>2, <1>4 DEF IInv

\* Every step preserves the invariant.
LEMMA NextIInv == ASSUME IInv, [Next]_vars PROVE IInv'
<1>1. CASE UNCHANGED vars
  BY <1>1
       DEF IInv, TypeOK, Lanes, Holding, Disk, Lateness, Stopping, Contents, Status, Says,
           Running, vars, process, disk
<1>2. CASE Server
  BY <1>2, BindStep, WriteReadyStep, AcceptLoopStep, AcceptStep, HandshakeStep, ServeLoopStep,
     HandleMessageStep, ReplyStep, WaitStep, CloseServerStep, WriteStoppedStep DEF Server
<1>3. CASE Main
  BY <1>3, StartEngineStep, RunServerStep, PostQuitStep, InitializeCefStep, ExecStep,
     FinishStep, ReturnStep
       DEF Main
<1>4. CASE Environment
  BY <1>4, SignalStep, KillStep, RestartStep, DrainStep, EnvironmentStep DEF Environment
<1> QED  BY <1>1, <1>2, <1>3, <1>4 DEF Next

\* What holds of main and the server thread, of the client that is held, of
\* the files and of late messages is preserved by every step.
THEOREM InductiveInvariant == Spec => []IInv
<1>1. Init => IInv  BY InitIInv
<1>2. IInv /\ [Next]_vars => IInv'  BY NextIInv
<1> QED  BY <1>1, <1>2, PTL DEF Spec

\* Every variable keeps its type.
THEOREM TypeCorrect == Spec => []TypeOK
<1>1. IInv => TypeOK  BY DEF IInv
<1> QED  BY <1>1, InductiveInvariant, PTL

\* What this start has put into place is so: "ready" while clients can connect or a stop
\* is asked for, "stopped" when nobody can, through short writes, failed renames and kills.
THEOREM StateFileIsTruthful == Spec => []StateFileTruthful
<1>1. IInv => StateFileTruthful
  BY DEF IInv, Lanes, Holding, Disk, StateFileTruthful, Serving, Over
<1> QED  BY <1>1, InductiveInvariant, PTL

\* Exit status 0 means that the announcement of the end was put into place, and that the
\* engine is down, whether or not the disk took all of the announcement.
THEOREM ExitIsClean == Spec => []CleanExit
<1>1. IInv => CleanExit  BY DEF IInv, Lanes, Disk, CleanExit
<1> QED  BY <1>1, InductiveInvariant, PTL

\* The engine is up as long as a client is held.
THEOREM EngineIsUpWhileServing == Spec => []EngineWhileServing
<1>1. IInv => EngineWhileServing
  BY DEF IInv, TypeOK, Lanes, Holding, EngineWhileServing, Serving, Over, Running
<1> QED  BY <1>1, InductiveInvariant, PTL

\* The event loop is still to run whenever the control thread waits for it, so
\* that neither main's join nor the queued quit leaves it waiting.
THEOREM CefIsPumped == Spec => []LoopOutlivesServer
<1>1. IInv => LoopOutlivesServer  BY DEF IInv, Lanes, LoopOutlivesServer
<1> QED  BY <1>1, InductiveInvariant, PTL

\* At most one message is handled after the stop.
THEOREM StopIsSeen == Spec => []OneLateMessage
<1>1. IInv => OneLateMessage  BY DEF IInv, Lateness, OneLateMessage
<1> QED  BY <1>1, InductiveInvariant, PTL

-----------------------------------------------------------------------------
(* FrameCapture                                                            *)

\* Only the capture under way has a filter or a callback, and only while it waits.
OneAttached ==
  /\ attached = IF pc \in Waiting THEN {target} ELSE {}
  /\ \A c \in Channels : inside[c] # Nothing => pc \in Waiting /\ c = target /\ inside[c] = captures
  /\ pc # "idle" => captures > 0

\* One frame, or a window of the mix.
Complete(h, c) ==
  IF c = Mix THEN h.count >= Window /\ \E n \in Chunks \cup {1} : h.count < Window + n
  ELSE h.count = 1

\* What is held belongs to the capture under way.
HeldIsOwn ==
  pc # "idle" =>
    IF got THEN held.from = {<<target, captures>>} /\ Complete(held, target)
    ELSE /\ held.from \subseteq {<<target, captures>>} /\ held.count < Window
         /\ target # Mix => held.count = 0

\* A wait that succeeded found its frames.
SuccessIsTrue == pc \in {"woken", "detach", "read"} /\ success => got

CaptureIInv == CaptureTypeOK /\ OneAttached /\ HeldIsOwn /\ SuccessIsTrue /\ AnswersItsOwn

\* The empty state is one that a capture may begin with.
LEMMA EmptyHolds ==
  /\ Empty \in Holdings /\ Empty.from = {} /\ Empty.count = 0
  /\ \E n \in Chunks \cup {1} : Empty.count < Window + n
  /\ Refusal \in [ok : BOOLEAN, held : Holdings] /\ ~Refusal.ok
<1>1. Empty \in Holdings /\ Empty.from = {} /\ Empty.count = 0  BY DEF Empty, Holdings
<1>2. 0 < Window + 1  BY NumbersAssumption
<1> QED  BY <1>1, <1>2 DEF Refusal

\* The initial state satisfies the inductive invariant.
LEMMA CaptureInitInvariant == CaptureInit => CaptureIInv
<1> SUFFICES ASSUME CaptureInit PROVE CaptureIInv  OBVIOUS
<1>1. held = Empty /\ reply = Refusal /\ captures \in 0..MaxCaptures /\ pc = "idle"
  BY NumbersAssumption DEF CaptureInit
<1>2. held \in Holdings /\ (\E n \in Chunks \cup {1} : held.count < Window + n)
      /\ reply \in [ok : BOOLEAN, held : Holdings] /\ ~reply.ok
  BY <1>1, EmptyHolds
<1>3. CaptureTypeOK  BY <1>1, <1>2 DEF CaptureInit, CaptureTypeOK
<1> QED  BY <1>1, <1>2, <1>3 DEF CaptureInit, CaptureIInv, OneAttached, HeldIsOwn, SuccessIsTrue, AnswersItsOwn, Waiting

\* A capture begins with nothing held.
LEMMA BeginStep == ASSUME CaptureIInv, NEW c \in Channels, Begin(c) PROVE CaptureIInv'
<1>1. CaptureTypeOK'
  <2>1. target' # Nothing /\ target' \in Channels  BY ChannelsAssumption DEF Begin
  <2>2. armed' \in BOOLEAN /\ captures' \in 0..MaxCaptures
    BY NumbersAssumption DEF CaptureIInv, CaptureTypeOK, Begin
  <2> QED  BY <2>1, <2>2, EmptyHolds DEF CaptureIInv, CaptureTypeOK, Begin
<1>2. OneAttached'  BY NumbersAssumption DEF CaptureIInv, CaptureTypeOK, OneAttached, Begin, Waiting
<1>3. HeldIsOwn'  BY EmptyHolds, NumbersAssumption DEF Begin, HeldIsOwn
<1> QED  BY <1>1, <1>2, <1>3 DEF CaptureIInv, Begin, SuccessIsTrue, AnswersItsOwn, Waiting

\* The steps of the control thread.
LEMMA ControlStep == ASSUME CaptureIInv, Control PROVE CaptureIInv'
<1>1. CASE Unavailable
  <2>1. CaptureTypeOK'  BY <1>1, EmptyHolds DEF CaptureIInv, CaptureTypeOK, Unavailable, Refuse, Refusal, Waiting
  <2> QED  BY <1>1, <2>1 DEF CaptureIInv, Unavailable, Refuse, Refusal, OneAttached, HeldIsOwn, SuccessIsTrue,
             AnswersItsOwn, Waiting
<1>2. CASE Attach
  <2>1. CaptureTypeOK'  BY <1>2 DEF CaptureIInv, CaptureTypeOK, Attach, Waiting
  <2>2. OneAttached'  BY <1>2 DEF CaptureIInv, OneAttached, Attach, Waiting
  <2> QED  BY <1>2, <2>1, <2>2 DEF CaptureIInv, Attach, HeldIsOwn, SuccessIsTrue, AnswersItsOwn, Complete
<1>3. CASE Wake \/ TimeOut \/ Unlock
  <2>1. CaptureTypeOK'  BY <1>3 DEF CaptureIInv, CaptureTypeOK, Wake, TimeOut, Unlock, Waiting
  <2>2. OneAttached'  BY <1>3 DEF CaptureIInv, OneAttached, Wake, TimeOut, Unlock, Waiting
  <2> QED  BY <1>3, <2>1, <2>2 DEF CaptureIInv, Wake, TimeOut, Unlock, HeldIsOwn, SuccessIsTrue, AnswersItsOwn,
             Complete
<1>4. CASE Detach
  <2>1. CaptureTypeOK'  BY <1>4 DEF CaptureIInv, CaptureTypeOK, Detach, Waiting
  <2>2. OneAttached'  BY <1>4 DEF CaptureIInv, OneAttached, Detach, Waiting
  <2> QED  BY <1>4, <2>1, <2>2 DEF CaptureIInv, Detach, HeldIsOwn, SuccessIsTrue, AnswersItsOwn, Complete
<1>5. CASE Answer
  <2>1. CaptureTypeOK'
    <3>1. pc' = "idle" /\ held' = Empty /\ reply' \in [ok : BOOLEAN, held : Holdings]
      <4>1. held \in Holdings  BY DEF CaptureIInv, CaptureTypeOK
      <4>2. CASE success
        <5>1. pc' = "idle" /\ held' = Empty /\ reply' = [ok |-> TRUE, held |-> held]
          BY <1>5, <4>2 DEF Answer
        <5> QED  BY <5>1, <4>1
      <4>3. CASE ~success  BY <1>5, <4>3, EmptyHolds DEF Answer, Refuse
      <4> QED  BY <4>2, <4>3
    <3> QED  BY <1>5, <3>1, EmptyHolds DEF CaptureIInv, CaptureTypeOK, Answer
  <2>2. OneAttached'  BY <1>5 DEF CaptureIInv, OneAttached, Answer, Refuse, Waiting
  <2>3. AnswersItsOwn'
    BY <1>5 DEF CaptureIInv, Answer, Refuse, Refusal, HeldIsOwn, SuccessIsTrue, AnswersItsOwn, Complete
  <2> QED  BY <1>5, <2>1, <2>2, <2>3 DEF CaptureIInv, Answer, Refuse, HeldIsOwn, SuccessIsTrue
<1> QED  BY <1>1, <1>2, <1>3, <1>4, <1>5 DEF Control

\* A callback begins.
LEMMA EnterStep == ASSUME CaptureIInv, NEW c \in Channels, Enter(c) PROVE CaptureIInv'
<1>1. pc \in Waiting /\ c = target /\ captures \in 1..MaxCaptures
  BY NumbersAssumption DEF CaptureIInv, CaptureTypeOK, OneAttached, Enter, Waiting
<1>2. CaptureTypeOK'  BY <1>1 DEF CaptureIInv, CaptureTypeOK, Enter
<1>3. OneAttached'  BY <1>1 DEF CaptureIInv, CaptureTypeOK, OneAttached, Enter
<1> QED  BY <1>2, <1>3 DEF CaptureIInv, Enter, HeldIsOwn, SuccessIsTrue, AnswersItsOwn, Complete

\* A callback copies what it carries, or finds that nothing is asked for.
LEMMA StoreStep == ASSUME CaptureIInv, NEW c \in Channels, NEW n \in Chunks \cup {1}, Store(c, n) PROVE CaptureIInv'
<1>1. /\ pc \in Waiting /\ pc # "idle" /\ c = target /\ inside[c] = captures /\ pc' = pc /\ target' = target
      /\ captures' = captures /\ captures \in 1..MaxCaptures /\ reply' = reply /\ success' = success
      /\ n \in Nat /\ (c # Mix => n = 1)
  BY NumbersAssumption DEF CaptureIInv, CaptureTypeOK, OneAttached, Store, Waiting
<1>2. OneAttached'  BY <1>1 DEF CaptureIInv, CaptureTypeOK, OneAttached, Store
<1>3. CASE ~Takes(c)
  <2>1. held' = held /\ got' = got  BY <1>3 DEF Store
  <2>2. CaptureTypeOK'  BY <1>1, <2>1 DEF CaptureIInv, CaptureTypeOK, Store
  <2> QED  BY <1>1, <1>2, <2>1, <2>2 DEF CaptureIInv, HeldIsOwn, SuccessIsTrue, AnswersItsOwn, Complete
<1>4. CASE Takes(c)
  <2>1. /\ ~got /\ held.from \subseteq {<<target, captures>>} /\ held.count < Window
        /\ held.count \in Nat /\ Window \in Nat /\ (target # Mix => held.count = 0)
    BY <1>1, <1>4, NumbersAssumption DEF CaptureIInv, CaptureTypeOK, Takes, HeldIsOwn, Holdings
  <2>2. /\ held' = [from |-> held.from \cup {<<target, captures>>}, count |-> held.count + n]
        /\ got' <=> (c # Mix \/ held'.count >= Window)
    BY <1>1, <1>4 DEF Store, Delivery
  <2>3. held'.from = {<<target, captures>>} /\ held'.count = held.count + n
    BY <2>1, <2>2
  <2>4. held' \in Holdings /\ held'.count < Window + n
    BY <1>1, <2>1, <2>2, <2>3, NumbersAssumption DEF Holdings
  <2>5. CaptureTypeOK'  BY <1>1, <2>2, <2>4 DEF CaptureIInv, CaptureTypeOK, Store
  <2>6. HeldIsOwn'
    <3>1. CASE c = Mix
      <4>1. (got' <=> held'.count >= Window) /\ held'.count \in Nat  BY <3>1, <1>1, <2>1, <2>2, <2>3
      <4> QED  BY <3>1, <4>1, <1>1, <2>1, <2>3, <2>4 DEF HeldIsOwn, Complete
    <3>2. CASE c # Mix
      <4>1. got' /\ held'.count = 1  BY <3>2, <1>1, <2>1, <2>2, <2>3
      <4> QED  BY <3>2, <4>1, <1>1, <2>3 DEF HeldIsOwn, Complete
    <3> QED  BY <3>1, <3>2
  <2> QED  BY <1>1, <1>2, <2>1, <2>5, <2>6 DEF CaptureIInv, SuccessIsTrue, AnswersItsOwn
<1> QED  BY <1>3, <1>4

\* Every step keeps the inductive invariant.
LEMMA CaptureNextInvariant == CaptureIInv /\ [CaptureNext]_captureVars => CaptureIInv'
<1> SUFFICES ASSUME CaptureIInv, [CaptureNext]_captureVars PROVE CaptureIInv'  OBVIOUS
<1>1. CASE \E c \in Channels : Begin(c)  BY <1>1, BeginStep
<1>2. CASE \E c \in Channels : Enter(c)  BY <1>2, EnterStep
<1>3. CASE \E c \in Channels : Delivers(c)  BY <1>3, StoreStep DEF Delivers
<1>4. CASE Control  BY <1>4, ControlStep
<1>5. CASE UNCHANGED captureVars
  BY <1>5 DEF captureVars, CaptureIInv, CaptureTypeOK, OneAttached, HeldIsOwn, SuccessIsTrue, AnswersItsOwn, Complete
<1> QED  BY <1>1, <1>2, <1>3, <1>4, <1>5 DEF CaptureNext

\* The inductive invariant holds in every reachable state.
THEOREM CaptureInductiveInvariant == CaptureSpec => []CaptureIInv
BY CaptureInitInvariant, CaptureNextInvariant, PTL DEF CaptureSpec

\* Every variable has its type, and no state holds more than one window.
THEOREM CaptureTypeCorrect == CaptureSpec => []CaptureTypeOK
<1>1. CaptureIInv => CaptureTypeOK  BY DEF CaptureIInv
<1> QED  BY <1>1, CaptureInductiveInvariant, PTL

\* The answers of source.captureFrame, program.captureFrame and
\* program.captureAudio are made of frames of their own capture.
THEOREM AnswersAreOwn == CaptureSpec => []AnswersItsOwn
<1>1. CaptureIInv => AnswersItsOwn  BY DEF CaptureIInv
<1> QED  BY <1>1, CaptureInductiveInvariant, PTL

\* No callback runs when the state on the stack that it writes is gone.
THEOREM GrabsOutlive == CaptureSpec => []GrabOutlivesCallbacks
<1>1. CaptureIInv => GrabOutlivesCallbacks
  BY DEF CaptureIInv, OneAttached, GrabOutlivesCallbacks, Grabs, Channels
<1> QED  BY <1>1, CaptureInductiveInvariant, PTL
=============================================================================
