-------------------------- MODULE OutputController --------------------------
(***************************************************************************)
(* The streaming output: one controller that drives either a fake ingest   *)
(* socket on the loopback or a live RTMP output of libobs, the control     *)
(* loop that calls it, and the libobs thread that signals the output's end.*)
(*                                                                         *)
(* Requests come from one client at a time; every request is followed by   *)
(* one tick before the next is read, and nothing ticks without a client.   *)
(* Nothing ticks either while the client holds the control thread: inside  *)
(* read_text_frame with a frame that it began, or inside send_all with one *)
(* that it does not read.  Neither has a timeout.                          *)
(***************************************************************************)
EXTENDS Naturals

CONSTANTS
  Ids,        \* output ids a client may name
  Keys,       \* stream keys a client may send
  None        \* the empty id and the empty key

ASSUME NoneAssumption == None \notin Ids \cup Keys

VARIABLES
  launch,                           \* launch_allow_live_egress_
  outputId, endpoint, armed,        \* output_id_ (None: not configured_), endpoint_, allow_live_egress_
  running, live, panic,             \* running_, live_active_, panic_audio_hard_muted_
  startedPending, stoppedPending,   \* events the next tick owes
  ingest,                           \* the fake ingest socket and its peer
  key,                              \* stream_key_
  output, service, encoders,        \* obs_output_, obs_service_, the two encoders
  fallback, program,                \* fallback_scene_bound_; what output source 0 shows
  stopPending, stopCode, reconnectPending,   \* the atomics the signals store into
  signal,                           \* the libobs thread inside output_stop_signal
  loop,                             \* where handle_client is
  emitted,                          \* events sent by the last step
  cause                             \* history: how the output of this session ended

config == <<launch, outputId, endpoint, armed>>
objects == <<output, service, encoders, fallback>>
atomics == <<stopPending, stopCode, reconnectPending, signal>>
vars == <<config, running, live, panic, startedPending, stoppedPending, ingest, key,
          objects, program, atomics, loop, emitted, cause>>

Endpoints == {"loopback", "remote"}
Requested == {"absent", "unparsable"} \cup Endpoints

-----------------------------------------------------------------------------
Init ==
  /\ launch \in BOOLEAN
  /\ outputId = None /\ endpoint = "none" /\ armed = FALSE
  /\ running = FALSE /\ live = FALSE /\ panic = FALSE
  /\ startedPending = FALSE /\ stoppedPending = FALSE
  /\ ingest = "closed" /\ key = None
  /\ output = "none" /\ service = FALSE /\ encoders = FALSE
  /\ fallback = FALSE /\ program = "none"
  /\ stopPending = FALSE /\ stopCode = "success" /\ reconnectPending = FALSE
  /\ signal = "idle"
  /\ loop = "away" /\ emitted = {} /\ cause = "none"

-----------------------------------------------------------------------------
(* The helpers the handlers share.                                         *)

\* live_egress_launch_gate lets the request pass.
LaunchGate(allow) == allow => launch

\* The endpoint after a request that named ep and was parsed.
Parsed(ep) == IF ep = "absent" THEN endpoint ELSE ep

\* Mutant of ClearStreamKey: the service keeps the key.
ForgetKeyOnly == key' = None /\ UNCHANGED service

\* clear_stream_key: the key and the service that holds a copy of it.
ClearStreamKey == key' = None /\ service' = FALSE

\* stop_live_output.  Releasing the output joins its thread: a signal under
\* way is raised, and an output that was still active signals its own end.
StopLiveOutput ==
  /\ live' = FALSE /\ output' = "none" /\ encoders' = FALSE
  /\ fallback' = FALSE /\ program' = IF fallback THEN "none" ELSE program
  /\ stopPending' = (stopPending \/ output = "active" \/ signal = "storing")
  /\ stopCode' = IF output = "active" THEN "success" ELSE stopCode
  /\ signal' = "idle" /\ UNCHANGED reconnectPending

\* What every end of a session does.
TearDown ==
  /\ running' = FALSE /\ ingest' = "closed" /\ panic' = FALSE
  /\ StopLiveOutput /\ ClearStreamKey

\* A message was read and its handler ran; the tick of this iteration is next, or
\* the reply is not taken yet.
Answer == loop \in {"wait", "reading"} /\ loop' \in {"tick", "replying"} /\ emitted' = {}

-----------------------------------------------------------------------------
(* output.configure                                                        *)

Configure(id, ep, allow) ==
  /\ Answer
  /\ LaunchGate(allow) /\ ep # "unparsable"
  /\ outputId' = id /\ endpoint' = Parsed(ep) /\ armed' = allow
  /\ UNCHANGED <<launch, running, live, panic, startedPending, stoppedPending, ingest,
                 key, objects, program, atomics, cause>>

-----------------------------------------------------------------------------
(* output.start                                                            *)

\* The prefix of start: the gate, the endpoint, and the id of an unconfigured
\* controller.  The endpoint is taken over before the id is compared.
Accept(id, ep, allow) ==
  /\ Answer /\ LaunchGate(allow) /\ ep # "unparsable"
  /\ endpoint' = Parsed(ep)
  /\ outputId' = IF outputId = None THEN id ELSE outputId
  /\ UNCHANGED <<armed, launch>>

Untouched == UNCHANGED <<running, live, panic, startedPending, stoppedPending, ingest, key,
                         objects, program, atomics, cause>>

\* The id, the path and its preconditions refuse the request.
StartRefused(id, ep, allow, k) ==
  /\ Accept(id, ep, allow)
  /\ \/ id # outputId'
     \/ k = None
     \/ endpoint' # "loopback" /\ ~(armed /\ launch)
     \/ endpoint' = "none"
  /\ Untouched

\* Both gates are open: start takes the live path.
Live == armed /\ launch

\* The session a successful start begins.
Begin(k) == /\ key' = k /\ running' = TRUE /\ panic' = TRUE
            /\ startedPending' = TRUE /\ stoppedPending' = FALSE /\ cause' = "none"

StartFake(id, ep, allow, k) ==
  /\ Accept(id, ep, allow) /\ id = outputId'
  /\ ~Live /\ endpoint' = "loopback" /\ k # None
  /\ StopLiveOutput
  /\ \/ ingest' = "open" /\ Begin(k) /\ UNCHANGED service
     \/ /\ ingest' = "closed" /\ ClearStreamKey          \* connect failed
        /\ UNCHANGED <<running, panic, startedPending, stoppedPending, cause>>
     \/ /\ ingest' = "closed"                            \* no socket
        /\ UNCHANGED <<key, service, running, panic, startedPending, stoppedPending, cause>>

\* ensure_live_source: a scene of our own when output source 0 is empty.
EnsureLiveSource(shown) ==
  /\ fallback' = (shown = "none")
  /\ program' = IF shown = "none" THEN "fallback" ELSE shown

\* Mutant of ResetSignals: a stop that the release raised stays pending.
ResetReconnectOnly ==
  /\ stopPending' = (stopPending \/ output = "active" \/ signal = "storing")
  /\ stopCode' = IF output = "active" THEN "success" ELSE stopCode
  /\ reconnectPending' = FALSE /\ signal' = "idle"

\* The atomics are reset after the old output is gone.
ResetSignals == /\ stopPending' = FALSE /\ stopCode' = "success"
                /\ reconnectPending' = FALSE /\ signal' = "idle"

\* What output source 0 shows once stop_live_output released the old output.
Shown == IF fallback THEN "none" ELSE program

StartLive(id, ep, allow, k) ==
  /\ Accept(id, ep, allow) /\ id = outputId'
  /\ Live /\ endpoint' # "none" /\ k # None
  /\ ingest' = "closed" /\ ResetSignals
  /\ live' = TRUE /\ output' = "active" /\ service' = TRUE /\ encoders' = TRUE
  /\ EnsureLiveSource(Shown) /\ Begin(k)

\* The output, the service, an encoder, the scene or the start fails; every
\* stage rolls back all of it, and the session that ran before is gone too.
StartLiveFails(id, ep, allow, k) ==
  /\ Accept(id, ep, allow) /\ id = outputId'
  /\ Live /\ endpoint' # "none" /\ k # None
  /\ ingest' = "closed" /\ ResetSignals
  /\ live' = FALSE /\ output' = "none" /\ encoders' = FALSE
  /\ fallback' = FALSE /\ program' = Shown /\ ClearStreamKey
  /\ UNCHANGED <<running, panic, startedPending, stoppedPending, cause>>

-----------------------------------------------------------------------------
(* output.stop                                                             *)

Stop(id) ==
  /\ Answer
  /\ id = None \/ outputId \in {None, id}
  /\ stoppedPending' = (stoppedPending \/ running)
  /\ TearDown
  /\ UNCHANGED <<config, startedPending, cause>>

\* A request to another component; render.program.set binds a scene to output 0.
OtherRequest ==
  /\ Answer /\ program' \in {program, "program"}
  /\ UNCHANGED <<config, running, live, panic, startedPending, stoppedPending, ingest, key,
                 objects, atomics, cause>>

-----------------------------------------------------------------------------
(* tick                                                                    *)

\* The tick of an iteration, whose events or heartbeat the client may not take yet.
Ticking == loop \in {"wait", "tick"} /\ loop' \in {"wait", "sending"}

TickIdle ==
  /\ Ticking /\ ~running /\ loop = "tick"
  /\ emitted' = {}
  /\ UNCHANGED <<config, running, live, panic, startedPending, stoppedPending, ingest, key,
                 objects, program, atomics, cause>>

\* fail_output, with the flag that made it fail already exchanged.
Fail == /\ TearDown /\ emitted' = {"output.error"}
        /\ UNCHANGED <<config, startedPending, stoppedPending, cause>>

\* The events a tick that reached its end owes.
Owed(stopped) == (IF startedPending THEN {"output.started"} ELSE {})
                   \cup (IF stopped THEN {"output.stopped"} ELSE {})

Emit(stopped) == /\ emitted' = Owed(stopped)
                 /\ startedPending' = FALSE /\ stoppedPending' = FALSE

\* The output is released after the flags were exchanged, so the end of an
\* output that is still active raises stopPending once more.
ReleaseAfterExchange(reconnected, stopped) ==
  /\ live' = FALSE /\ output' = "none" /\ encoders' = FALSE
  /\ fallback' = FALSE /\ program' = Shown
  /\ stopPending' = \/ stopPending /\ ~stopped
                    \/ output = "active" \/ signal = "storing"
  /\ stopCode' = IF output = "active" \/ stopped THEN "success" ELSE stopCode
  /\ reconnectPending' = (reconnectPending /\ ~reconnected)
  /\ signal' = "idle"

LiveEnds(reconnected, stopped) ==
  /\ running' = FALSE /\ panic' = FALSE
  /\ ReleaseAfterExchange(reconnected, stopped) /\ ClearStreamKey

TickReconnect ==
  /\ Ticking /\ running /\ live /\ reconnectPending
  /\ LiveEnds(TRUE, FALSE) /\ ingest' = "closed" /\ emitted' = {"output.error"}
  /\ UNCHANGED <<config, startedPending, stoppedPending, cause>>

TickLiveError ==
  /\ Ticking /\ running /\ live /\ ~reconnectPending
  /\ stopPending /\ stopCode # "success"
  /\ LiveEnds(FALSE, TRUE) /\ ingest' = "closed" /\ emitted' = {"output.error"}
  /\ UNCHANGED <<config, startedPending, stoppedPending, cause>>

\* The remote end stopped cleanly: this end is reported as output.stopped.
TickLiveStopped ==
  /\ Ticking /\ running /\ live /\ ~reconnectPending
  /\ stopPending /\ stopCode = "success"
  /\ LiveEnds(FALSE, TRUE) /\ Emit(TRUE)
  /\ UNCHANGED <<config, ingest, cause>>

TickLive ==
  /\ Ticking /\ running /\ live /\ ~reconnectPending /\ ~stopPending
  /\ Emit(stoppedPending)
  /\ UNCHANGED <<config, running, live, panic, ingest, key, objects, program, atomics, cause>>

\* Mutants of IngestAlive: an invalid socket is taken for a silent peer; the
\* peer's end is not looked at.
IngestUnbroken == ingest # "broken"
IngestValid == ingest # "closed"

\* send_ingest_chunk and ingest_disconnected find a connected peer.
IngestAlive == ingest = "open"

TickFake ==
  /\ Ticking /\ running /\ ~live /\ IngestAlive
  /\ Emit(stoppedPending)
  /\ UNCHANGED <<config, running, live, panic, ingest, key, objects, program, atomics, cause>>

TickFakeFails ==
  /\ Ticking /\ running /\ ~live /\ ~IngestAlive
  /\ Fail

-----------------------------------------------------------------------------
(* The client, the ingest peer and libobs                                  *)

Sockets == UNCHANGED <<config, running, live, panic, startedPending, stoppedPending, key,
                       objects, program, atomics, cause>>

\* A client authenticates; it is the only one until it leaves.
Connect == loop = "away" /\ loop' = "wait" /\ emitted' = {} /\ UNCHANGED ingest /\ Sockets

\* read_text_frame or a heartbeat fails: handle_client returns without a tick.
Leave == loop \in {"wait", "reading", "sending"} /\ loop' = "away" /\ emitted' = {} /\ UNCHANGED ingest /\ Sockets

\* The client begins a frame, and read_text_frame waits for the rest of it.
BeginFrame == loop = "wait" /\ loop' = "reading" /\ emitted' = {} /\ UNCHANGED ingest /\ Sockets

\* send_all returns: the client took what it was sent, or left, which only a
\* heartbeat would notice (Leave); the results of the other sends are ignored.
SendEnds ==
  /\ \/ loop = "replying" /\ loop' = "tick"
     \/ loop = "sending" /\ loop' = "wait"
  /\ emitted' = {} /\ UNCHANGED ingest /\ Sockets

PeerCloses == ingest = "open" /\ ingest' = "broken" /\ UNCHANGED <<loop, emitted>> /\ Sockets

Lib == UNCHANGED <<config, running, live, panic, startedPending, stoppedPending, ingest, key,
                   service, encoders, fallback, program, loop, emitted>>

\* Mutant of EndStored: the flag is raised without its code.
EndUncoded(code) ==
  /\ output = "active" /\ output' = "ended" /\ cause' = code
  /\ signal' = "storing"
  /\ UNCHANGED <<stopPending, stopCode, reconnectPending>> /\ Lib

\* output_stop_signal, in two steps: the code, then the flag.
EndStored(code) ==
  /\ output = "active" /\ output' = "ended" /\ cause' = code
  /\ stopCode' = code /\ signal' = "storing"
  /\ UNCHANGED <<stopPending, reconnectPending>> /\ Lib

EndRaised ==
  /\ signal = "storing" /\ signal' = "idle" /\ stopPending' = TRUE
  /\ UNCHANGED <<stopCode, reconnectPending, output, cause>> /\ Lib

Reconnecting ==
  /\ output = "active" /\ ~reconnectPending /\ reconnectPending' = TRUE
  /\ UNCHANGED <<stopCode, stopPending, signal, output, cause>> /\ Lib

-----------------------------------------------------------------------------
Tick == TickIdle \/ TickReconnect \/ TickLiveError \/ TickLiveStopped \/ TickLive
          \/ TickFake \/ TickFakeFails

Next ==
  \/ \E id \in Ids, ep \in Requested, allow \in BOOLEAN : Configure(id, ep, allow)
  \/ \E id \in Ids, ep \in Requested, allow \in BOOLEAN, k \in Keys \cup {None} :
       \/ StartRefused(id, ep, allow, k)
       \/ StartFake(id, ep, allow, k)
       \/ StartLive(id, ep, allow, k)
       \/ StartLiveFails(id, ep, allow, k)
  \/ \E id \in Ids \cup {None} : Stop(id)
  \/ OtherRequest \/ Tick \/ Connect \/ BeginFrame \/ SendEnds \/ Leave \/ PeerCloses
  \/ \E code \in {"success", "disconnected"} : EndStored(code)
  \/ EndRaised \/ Reconnecting

Spec == Init /\ [][Next]_vars

\* handle_client ticks at least every 200 ms while its thread is its own (loop is
\* "wait" or "tick"), and a thread inside the signal handler gets to its end.  That a
\* client ends a frame or reads what it is sent is not assumed.
Fairness == WF_vars(Tick) /\ WF_vars(EndRaised)

FairSpec == Spec /\ Fairness

-----------------------------------------------------------------------------
(* Properties                                                              *)

\* The controller's fields have their types.
TypeOK ==
  /\ {launch, armed, running, live, panic, startedPending, stoppedPending, service,
      encoders, fallback, stopPending, reconnectPending} \subseteq BOOLEAN
  /\ outputId \in Ids \cup {None} /\ endpoint \in Endpoints \cup {"none"}
  /\ ingest \in {"closed", "open", "broken"} /\ key \in Keys \cup {None}
  /\ output \in {"none", "active", "ended"} /\ program \in {"none", "fallback", "program"}
  /\ stopCode \in {"success", "disconnected"} /\ signal \in {"idle", "storing"}
  /\ loop \in {"away", "wait", "reading", "replying", "tick", "sending"}
  /\ emitted \subseteq {"output.error", "output.started", "output.stopped"}
  /\ cause \in {"none", "success", "disconnected"}

\* However a session ended, nothing of it is left: no socket, no libobs
\* object, no key, no hard mute.
IdleIsClean ==
  ~running => /\ ingest = "closed" /\ output = "none" /\ ~live
              /\ key = None /\ ~service /\ ~encoders /\ ~fallback /\ ~panic

\* There is one sink at most, and a live sink is complete: the output with its
\* encoders and the service that carries the key.
OneSink == /\ ingest # "closed" => output = "none"
           /\ live = (output # "none")
           /\ live = encoders
           /\ live => service /\ running

\* Once the tick of an iteration is over, a controller that says it runs has a
\* sink: a start that failed on top of a session never leaves "running" behind.
RunningHasSink == loop \notin {"replying", "tick"} /\ running => live \/ ingest # "closed"

\* streamKeyStatus "cleared" is the truth for libobs too.
KeyHonest == key = None => ~service

\* A stop flag seen by a live session is this session's: the end that an
\* earlier output raised when it was released never ends a later one.
NoStaleStop == live /\ (stopPending \/ signal = "storing") => output = "ended"

\* Output source 0 never shows the fallback scene after its release.
FallbackHeld == program = "fallback" => fallback

\* A live output only comes to be with both gates open.
BothGates == [][output = "none" /\ output' # "none" => armed /\ launch]_vars

\* The end of a live output is reported as what it was: output.stopped only
\* for a clean end.
TruthfulEnd == [][live /\ "output.stopped" \in emitted' => cause = "success"]_vars

\* The client keeps the control thread inside a recv or a send.
HeldByClient == loop \in {"reading", "replying", "sending"}

\* A sink that ended ends the session, or the client leaves and nothing ticks until
\* the next one.  The one exception is a client that stops in the middle of a frame, or
\* stops reading, and stays: it holds the control thread, and with it the tick, for ever.
DeadSinkEnds ==
  \/ <>[]HeldByClient
  \/ (running /\ (ingest = "broken" \/ output = "ended"))
       ~> (~running \/ ingest = "open" \/ output = "active" \/ loop = "away")
=============================================================================
