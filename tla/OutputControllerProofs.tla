----------------------- MODULE OutputControllerProofs -----------------------
(***************************************************************************)
(* Proofs about OutputController, for every set of output ids and keys.    *)
(*                                                                         *)
(* The invariant of the run is strengthened with what relates the stop     *)
(* atomics to the life of the libobs output (SignalsAgree) and with what   *)
(* the flags owe (FlagsAgree); the result is inductive.                    *)
(***************************************************************************)
EXTENDS OutputController, TLAPS

\* The atomics tell the end of the present output and of no other: the signal
\* thread runs only for an output that ended, and its code is the cause.
SignalsAgree == /\ signal = "storing" => output = "ended"
                /\ live /\ output = "active" => ~stopPending
                /\ output = "ended" => stopCode = cause

\* The gates and the owed events.
FlagsAgree == /\ armed => launch
              /\ fallback => live
              /\ stoppedPending => ~running
              /\ "output.stopped" \in emitted => ~live

IInv == /\ TypeOK /\ IdleIsClean /\ OneSink /\ RunningHasSink /\ KeyHonest
        /\ NoStaleStop /\ FallbackHeld /\ SignalsAgree /\ FlagsAgree

-----------------------------------------------------------------------------
\* The initial states have the strengthening.
LEMMA InitInv == Init => IInv
BY NoneAssumption DEF Init, IInv, TypeOK, IdleIsClean, OneSink, RunningHasSink, KeyHonest, NoStaleStop, FallbackHeld, SignalsAgree, FlagsAgree, Endpoints

\* One step per action; every leaf opens the action and the invariant.
LEMMA StepInv == IInv /\ [Next]_vars => IInv'
<1> SUFFICES ASSUME IInv, [Next]_vars
             PROVE  IInv'
    OBVIOUS
<1> USE NoneAssumption
    DEF IInv, TypeOK, IdleIsClean, OneSink, RunningHasSink, KeyHonest, NoStaleStop,
         FallbackHeld, SignalsAgree, FlagsAgree, Endpoints, config, objects, atomics
<1>1. ASSUME NEW id \in Ids, NEW ep \in Requested, NEW allow \in BOOLEAN, Configure(id, ep, allow)
      PROVE  IInv'
    BY <1>1 DEF Configure, Answer, LaunchGate, Parsed, Requested
<1>2. ASSUME NEW id \in Ids, NEW ep \in Requested, NEW allow \in BOOLEAN,
             NEW k \in Keys \cup {None}, StartRefused(id, ep, allow, k)
      PROVE  IInv'
    BY <1>2 DEF StartRefused, Accept, Answer, LaunchGate, Parsed, Untouched, Requested
<1>3. ASSUME NEW id \in Ids, NEW ep \in Requested, NEW allow \in BOOLEAN,
             NEW k \in Keys \cup {None}, StartFake(id, ep, allow, k)
      PROVE  IInv'
  <2> USE <1>3 DEF StartFake, Accept, Answer, LaunchGate, Parsed, Requested, StopLiveOutput
  <2>1. CASE ingest' = "open" /\ Begin(k) /\ UNCHANGED service
      BY <2>1 DEF Begin, Live
  <2>2. CASE /\ ingest' = "closed" /\ ClearStreamKey
             /\ UNCHANGED <<running, panic, startedPending, stoppedPending, cause>>
    <3> USE <2>2 DEF ClearStreamKey
    <3>1. TypeOK'  OBVIOUS
    <3>2. (IdleIsClean /\ OneSink /\ RunningHasSink /\ KeyHonest)'  OBVIOUS
    <3>3. (NoStaleStop /\ FallbackHeld /\ SignalsAgree /\ FlagsAgree)'  OBVIOUS
    <3> HIDE DEF StartFake, TypeOK, IdleIsClean, OneSink, RunningHasSink, KeyHonest, NoStaleStop, FallbackHeld,
                 SignalsAgree, FlagsAgree
    <3> QED  BY <3>1, <3>2, <3>3
  <2>3. CASE /\ ingest' = "closed"
             /\ UNCHANGED <<key, service, running, panic, startedPending, stoppedPending, cause>>
    <3> USE <2>3
    <3>1. TypeOK'  OBVIOUS
    <3>2. (IdleIsClean /\ OneSink /\ RunningHasSink /\ KeyHonest)'  OBVIOUS
    <3>3. (NoStaleStop /\ FallbackHeld /\ SignalsAgree /\ FlagsAgree)'  OBVIOUS
    <3> HIDE DEF StartFake, TypeOK, IdleIsClean, OneSink, RunningHasSink, KeyHonest, NoStaleStop, FallbackHeld,
                 SignalsAgree, FlagsAgree
    <3> QED  BY <3>1, <3>2, <3>3
  <2> QED
      BY <2>1, <2>2, <2>3
<1>4. ASSUME NEW id \in Ids, NEW ep \in Requested, NEW allow \in BOOLEAN,
             NEW k \in Keys \cup {None}, StartLive(id, ep, allow, k)
      PROVE  IInv'
    BY <1>4 DEF StartLive, Accept, Answer, LaunchGate, Parsed, Requested,
          ResetSignals, EnsureLiveSource, Shown, Begin, Live
<1>5. ASSUME NEW id \in Ids, NEW ep \in Requested, NEW allow \in BOOLEAN,
             NEW k \in Keys \cup {None}, StartLiveFails(id, ep, allow, k)
      PROVE  IInv'
    BY <1>5 DEF StartLiveFails, Accept, Answer, LaunchGate, Parsed, Requested,
          ResetSignals, Shown, ClearStreamKey, Live
<1>6. ASSUME NEW id \in Ids \cup {None}, Stop(id)
      PROVE  IInv'
  <2> USE <1>6 DEF Stop, Answer, TearDown, StopLiveOutput, ClearStreamKey
  <2>1. TypeOK'  OBVIOUS
  <2>2. (IdleIsClean /\ OneSink /\ RunningHasSink /\ KeyHonest)'  OBVIOUS
  <2>3. (NoStaleStop /\ FallbackHeld /\ SignalsAgree /\ FlagsAgree)'  OBVIOUS
  <2> HIDE DEF Stop, TypeOK, IdleIsClean, OneSink, RunningHasSink, KeyHonest, NoStaleStop, FallbackHeld,
               SignalsAgree, FlagsAgree
  <2> QED  BY <2>1, <2>2, <2>3
<1>7. CASE OtherRequest
    BY <1>7 DEF OtherRequest, Answer
<1>8. CASE TickIdle
    BY <1>8 DEF TickIdle, Ticking
<1>9. CASE TickReconnect
  <2> USE <1>9 DEF TickReconnect, Ticking, LiveEnds, ReleaseAfterExchange, Shown, ClearStreamKey
  <2>1. TypeOK'
    <3>1. {launch', armed', startedPending', stoppedPending', stopPending', reconnectPending'} \subseteq BOOLEAN
      OBVIOUS
    <3>2. {running', live', panic', service', encoders', fallback'} \subseteq BOOLEAN  OBVIOUS
    <3>3. /\ outputId' \in Ids \cup {None} /\ endpoint' \in Endpoints \cup {"none"}
          /\ ingest' \in {"closed", "open", "broken"} /\ key' \in Keys \cup {None}
      OBVIOUS
    <3>4. /\ output' \in {"none", "active", "ended"} /\ program' \in {"none", "fallback", "program"}
          /\ stopCode' \in {"success", "disconnected"} /\ signal' \in {"idle", "storing"}
          /\ loop' \in {"away", "wait", "reading", "replying", "tick", "sending"}
          /\ emitted' \subseteq {"output.error", "output.started", "output.stopped"}
          /\ cause' \in {"none", "success", "disconnected"}
      OBVIOUS
    <3> HIDE DEF TickReconnect, IdleIsClean, OneSink, RunningHasSink, KeyHonest, NoStaleStop, FallbackHeld, SignalsAgree,
                 FlagsAgree
    <3> QED  BY <3>1, <3>2, <3>3, <3>4
  <2>2. (IdleIsClean /\ OneSink /\ RunningHasSink /\ KeyHonest)'  OBVIOUS
  <2>3. (NoStaleStop /\ FallbackHeld /\ SignalsAgree /\ FlagsAgree)'  OBVIOUS
  <2> HIDE DEF TickReconnect, TypeOK, IdleIsClean, OneSink, RunningHasSink, KeyHonest, NoStaleStop, FallbackHeld,
               SignalsAgree, FlagsAgree
  <2> QED  BY <2>1, <2>2, <2>3
<1>10. CASE TickLiveError
  <2> USE <1>10 DEF TickLiveError, Ticking, LiveEnds, ReleaseAfterExchange, Shown, ClearStreamKey
  <2>1. TypeOK'
    <3>1. {launch', armed', startedPending', stoppedPending', stopPending', reconnectPending'} \subseteq BOOLEAN
      OBVIOUS
    <3>2. {running', live', panic', service', encoders', fallback'} \subseteq BOOLEAN  OBVIOUS
    <3>3. /\ outputId' \in Ids \cup {None} /\ endpoint' \in Endpoints \cup {"none"}
          /\ ingest' \in {"closed", "open", "broken"} /\ key' \in Keys \cup {None}
      OBVIOUS
    <3>4. /\ output' \in {"none", "active", "ended"} /\ program' \in {"none", "fallback", "program"}
          /\ stopCode' \in {"success", "disconnected"} /\ signal' \in {"idle", "storing"}
          /\ loop' \in {"away", "wait", "reading", "replying", "tick", "sending"}
          /\ emitted' \subseteq {"output.error", "output.started", "output.stopped"}
          /\ cause' \in {"none", "success", "disconnected"}
      OBVIOUS
    <3> HIDE DEF TickLiveError, IdleIsClean, OneSink, RunningHasSink, KeyHonest, NoStaleStop, FallbackHeld, SignalsAgree,
                 FlagsAgree
    <3> QED  BY <3>1, <3>2, <3>3, <3>4
  <2>2. (IdleIsClean /\ OneSink /\ RunningHasSink /\ KeyHonest)'  OBVIOUS
  <2>3. (NoStaleStop /\ FallbackHeld /\ SignalsAgree /\ FlagsAgree)'  OBVIOUS
  <2> HIDE DEF TickLiveError, TypeOK, IdleIsClean, OneSink, RunningHasSink, KeyHonest, NoStaleStop, FallbackHeld,
               SignalsAgree, FlagsAgree
  <2> QED  BY <2>1, <2>2, <2>3
<1>11. CASE TickLiveStopped
  <2> USE <1>11 DEF TickLiveStopped, Ticking, LiveEnds, ReleaseAfterExchange, Shown, ClearStreamKey, Emit, Owed
  <2>1. TypeOK'
    <3>1. {launch', armed', startedPending', stoppedPending', stopPending', reconnectPending'} \subseteq BOOLEAN
      OBVIOUS
    <3>2. {running', live', panic', service', encoders', fallback'} \subseteq BOOLEAN  OBVIOUS
    <3>3. /\ outputId' \in Ids \cup {None} /\ endpoint' \in Endpoints \cup {"none"}
          /\ ingest' \in {"closed", "open", "broken"} /\ key' \in Keys \cup {None}
      OBVIOUS
    <3>4. /\ output' \in {"none", "active", "ended"} /\ program' \in {"none", "fallback", "program"}
          /\ stopCode' \in {"success", "disconnected"} /\ signal' \in {"idle", "storing"}
          /\ loop' \in {"away", "wait", "reading", "replying", "tick", "sending"}
          /\ emitted' \subseteq {"output.error", "output.started", "output.stopped"}
          /\ cause' \in {"none", "success", "disconnected"}
      OBVIOUS
    <3> HIDE DEF TickLiveStopped, IdleIsClean, OneSink, RunningHasSink, KeyHonest, NoStaleStop, FallbackHeld, SignalsAgree,
                 FlagsAgree
    <3> QED  BY <3>1, <3>2, <3>3, <3>4
  <2>2. (IdleIsClean /\ OneSink /\ RunningHasSink /\ KeyHonest)'  OBVIOUS
  <2>3. (NoStaleStop /\ FallbackHeld /\ SignalsAgree /\ FlagsAgree)'  OBVIOUS
  <2> HIDE DEF TickLiveStopped, TypeOK, IdleIsClean, OneSink, RunningHasSink, KeyHonest, NoStaleStop, FallbackHeld,
               SignalsAgree, FlagsAgree
  <2> QED  BY <2>1, <2>2, <2>3
<1>12. CASE TickLive
  <2> USE <1>12 DEF TickLive, Ticking, Emit, Owed
  <2>1. TypeOK'  OBVIOUS
  <2>2. (IdleIsClean /\ OneSink /\ RunningHasSink /\ KeyHonest)'  OBVIOUS
  <2>3. (NoStaleStop /\ FallbackHeld /\ SignalsAgree /\ FlagsAgree)'  OBVIOUS
  <2> HIDE DEF TickLive, TypeOK, IdleIsClean, OneSink, RunningHasSink, KeyHonest, NoStaleStop, FallbackHeld,
               SignalsAgree, FlagsAgree
  <2> QED  BY <2>1, <2>2, <2>3
<1>13. CASE TickFake
  <2> USE <1>13 DEF TickFake, Ticking, IngestAlive, Emit, Owed
  <2>1. TypeOK'  OBVIOUS
  <2>2. (IdleIsClean /\ OneSink /\ RunningHasSink /\ KeyHonest)'  OBVIOUS
  <2>3. (NoStaleStop /\ FallbackHeld /\ SignalsAgree /\ FlagsAgree)'  OBVIOUS
  <2> HIDE DEF TickFake, TypeOK, IdleIsClean, OneSink, RunningHasSink, KeyHonest, NoStaleStop, FallbackHeld,
               SignalsAgree, FlagsAgree
  <2> QED  BY <2>1, <2>2, <2>3
<1>14. CASE TickFakeFails
    BY <1>14 DEF TickFakeFails, Ticking, IngestAlive, Fail, TearDown, StopLiveOutput,
          ClearStreamKey
<1>15. CASE Connect
    BY <1>15 DEF Connect, Sockets
<1>16. CASE Leave \/ BeginFrame \/ SendEnds
    BY <1>16 DEF Leave, BeginFrame, SendEnds, Sockets
<1>17. CASE PeerCloses
    BY <1>17 DEF PeerCloses, Sockets
<1>18. ASSUME NEW code \in {"success", "disconnected"}, EndStored(code)
      PROVE  IInv'
    BY <1>18 DEF EndStored, Lib
<1>19. CASE EndRaised
    BY <1>19 DEF EndRaised, Lib
<1>20. CASE Reconnecting
    BY <1>20 DEF Reconnecting, Lib
<1>21. CASE UNCHANGED vars
    BY <1>21 DEF vars
<1> HIDE DEF IInv
<1> QED
    BY <1>1, <1>2, <1>3, <1>4, <1>5, <1>6, <1>7, <1>8, <1>9,
       <1>10, <1>11, <1>12, <1>13, <1>14, <1>15, <1>16, <1>17, <1>18, <1>19, <1>20, <1>21
    DEF Next, Tick

-----------------------------------------------------------------------------
(* The theorems.                                                           *)

\* The strengthened invariant holds in every reachable state: configure, start,
\* stop, tick and the signal thread all preserve it.
THEOREM InductiveInvariant == Spec => []IInv
<1>1. Init => IInv
    BY InitInv
<1>2. IInv /\ [Next]_vars => IInv'
    BY StepInv
<1> QED
    BY <1>1, <1>2, PTL DEF Spec

\* The controller's fields have their types, for every set of ids and keys.
THEOREM TypeCorrect == Spec => []TypeOK
<1>1. IInv => TypeOK
    BY DEF IInv
<1> QED
    BY <1>1, InductiveInvariant, PTL

\* A session that ended, by stop, by an error or by the remote end, left no
\* socket, libobs object, key or hard mute behind.
THEOREM SessionsEndClean == Spec => []IdleIsClean
<1>1. IInv => IdleIsClean
    BY DEF IInv
<1> QED
    BY <1>1, InductiveInvariant, PTL

\* There is one sink at most, and a live one is complete.
THEOREM SinksExclude == Spec => []OneSink
<1>1. IInv => OneSink
    BY DEF IInv
<1> QED
    BY <1>1, InductiveInvariant, PTL

\* After the tick of an iteration a running controller has a sink, whatever
\* stage of a start failed.
THEOREM RunningIsBacked == Spec => []RunningHasSink
<1>1. IInv => RunningHasSink
    BY DEF IInv
<1> QED
    BY <1>1, InductiveInvariant, PTL

\* Without a key in the controller no libobs service holds one, and a stop
\* flag seen by a live session is its own.
THEOREM KeysAndStops == Spec => [](KeyHonest /\ NoStaleStop /\ FallbackHeld)
<1>1. IInv => KeyHonest /\ NoStaleStop /\ FallbackHeld
    BY DEF IInv
<1> QED
    BY <1>1, InductiveInvariant, PTL

\* What a step may do to the gates and to the events.
LEMMA StepsAreTruthful ==
  ASSUME IInv, [Next]_vars
  PROVE  /\ live /\ "output.stopped" \in emitted' => cause = "success"
         /\ output = "none" /\ output' # "none" => armed /\ launch
<1> USE DEF objects
<1>1. ASSUME NEW id \in Ids, NEW ep \in Requested, NEW allow \in BOOLEAN, Configure(id, ep, allow)
      PROVE  emitted' = {} /\ output' = output
    BY <1>1 DEF Configure, Answer
<1>2. ASSUME NEW id \in Ids, NEW ep \in Requested, NEW allow \in BOOLEAN,
             NEW k \in Keys \cup {None}, StartRefused(id, ep, allow, k)
      PROVE  emitted' = {} /\ output' = output
    BY <1>2 DEF StartRefused, Accept, Answer, Untouched
<1>3. ASSUME NEW id \in Ids, NEW ep \in Requested, NEW allow \in BOOLEAN,
             NEW k \in Keys \cup {None},
             StartFake(id, ep, allow, k) \/ StartLiveFails(id, ep, allow, k)
      PROVE  emitted' = {} /\ output' = "none"
    BY <1>3 DEF StartFake, StartLiveFails, Accept, Answer, StopLiveOutput
<1>4. ASSUME NEW id \in Ids, NEW ep \in Requested, NEW allow \in BOOLEAN,
             NEW k \in Keys \cup {None}, StartLive(id, ep, allow, k)
      PROVE  emitted' = {} /\ armed /\ launch
    BY <1>4 DEF StartLive, Accept, Answer, Live
<1>5. ASSUME NEW id \in Ids \cup {None}, Stop(id)
      PROVE  emitted' = {} /\ output' = "none"
    BY <1>5 DEF Stop, Answer, TearDown, StopLiveOutput
<1>6. CASE OtherRequest \/ Connect \/ Leave \/ BeginFrame \/ SendEnds
    BY <1>6 DEF OtherRequest, Connect, Leave, BeginFrame, SendEnds, Answer, Sockets
<1>7. CASE TickIdle \/ TickReconnect \/ TickLiveError
  <2>1. output' = output \/ output' = "none"
      BY <1>7 DEF TickIdle, TickReconnect, TickLiveError, LiveEnds, ReleaseAfterExchange
  <2>2. emitted' = {} \/ emitted' = {"output.error"}
      BY <1>7 DEF TickIdle, TickReconnect, TickLiveError
  <2> QED
      BY <2>1, <2>2
<1>8. CASE TickLiveStopped
    BY <1>8 DEF TickLiveStopped, LiveEnds, ReleaseAfterExchange, IInv, NoStaleStop, SignalsAgree
<1>9. CASE TickLive
    BY <1>9 DEF TickLive, Emit, Owed, IInv, FlagsAgree, OneSink
<1>10. CASE TickFake \/ TickFakeFails
    BY <1>10 DEF TickFake, TickFakeFails, Fail, TearDown, StopLiveOutput
<1>11. CASE PeerCloses \/ UNCHANGED vars
    BY <1>11 DEF PeerCloses, Sockets, vars, IInv, FlagsAgree
<1>12. ASSUME NEW code \in {"success", "disconnected"}, EndStored(code)
       PROVE  emitted' = emitted /\ output = "active"
    BY <1>12 DEF EndStored, Lib
<1>13. CASE EndRaised \/ Reconnecting
    BY <1>13 DEF EndRaised, Reconnecting, Lib, IInv, FlagsAgree
<1> HIDE DEF IInv
<1> QED
    BY <1>1, <1>2, <1>3, <1>4, <1>5, <1>6, <1>7, <1>8, <1>9, <1>10, <1>11, <1>12, <1>13
    DEF Next, Tick, IInv, FlagsAgree

\* A live end is reported as output.stopped only when it was clean.
THEOREM EndsAreTruthful == Spec => TruthfulEnd
<1>1. IInv /\ [Next]_vars => [live /\ "output.stopped" \in emitted' => cause = "success"]_vars
  <2> SUFFICES ASSUME IInv, [Next]_vars
               PROVE  live /\ "output.stopped" \in emitted' => cause = "success"
      OBVIOUS
  <2> QED
      BY StepsAreTruthful
<1> QED
    BY <1>1, InductiveInvariant, PTL DEF Spec, TruthfulEnd

\* A live output only comes to be with the launch flag and the configured flag.
THEOREM LiveNeedsBothGates == Spec => BothGates
<1>1. IInv /\ [Next]_vars => [output = "none" /\ output' # "none" => armed /\ launch]_vars
  <2> SUFFICES ASSUME IInv, [Next]_vars
               PROVE  output = "none" /\ output' # "none" => armed /\ launch
      OBVIOUS
  <2> QED
      BY StepsAreTruthful
<1> QED
    BY <1>1, InductiveInvariant, PTL DEF Spec, BothGates

=============================================================================
