----------------------------- MODULE FrameCapture -----------------------------
(***************************************************************************)
(* The captures that wait for libobs: source.captureFrame with the private *)
(* filter and its one static state, program.captureFrame and               *)
(* program.captureAudio with a raw callback and a state on the stack.  The *)
(* control thread waits on a condition variable for five seconds at most;  *)
(* the threads of libobs deliver frames whenever they like, and never more *)
(* to a filter or a callback once its removal has returned.                *)
(***************************************************************************)
EXTENDS Naturals

CONSTANTS
  Sources,      \* sources of which frames may be captured
  Program,      \* the program video
  Mix,          \* the program audio
  Nothing,      \* no channel, and no capture
  Chunks,       \* how many audio frames one callback may carry
  Window,       \* target_frames
  MaxCaptures   \* bound of the exploration: captures

Channels == Sources \cup {Program, Mix}

ASSUME ChannelsAssumption ==
  Program \notin Sources /\ Mix \notin Sources /\ Program # Mix /\ Nothing \notin Channels
ASSUME NumbersAssumption == Chunks \subseteq Nat \ {0} /\ Window \in Nat \ {0} /\ MaxCaptures \in Nat

VARIABLES
  pc,        \* of the control thread: "idle", "attach", "wait", "woken", "detach", "read"
  target,    \* the channel of the capture under way
  locked,    \* the control thread holds the mutex of the state
  armed,     \* the state of the filter takes a frame
  got,       \* got, done
  held,      \* what was copied: the deliveries it is made of, and how many frames
  success,   \* what wait_for returned
  attached,  \* channels with a filter or a callback of the host
  inside,    \* per channel: Nothing, or the capture during which its callback began
  captures,  \* history: captures begun
  reply      \* history: the answer to the last capture

captureVars == <<pc, target, locked, armed, got, held, success, attached, inside, captures, reply>>

\* The state of the filter is static, that of a raw callback is on the stack.
Grabs == {Program, Mix}
Empty == [from |-> {}, count |-> 0]
Refusal == [ok |-> FALSE, held |-> Empty]
Refuse == pc' = "idle" /\ reply' = Refusal

CaptureInit ==
  /\ pc = "idle" /\ target = Nothing
  /\ locked = FALSE /\ armed = FALSE /\ got = FALSE /\ success = FALSE
  /\ held = Empty /\ attached = {} /\ inside = [c \in Channels |-> Nothing]
  /\ captures = 0 /\ reply = Refusal

-----------------------------------------------------------------------------
(* The control thread                                                      *)

Begin(c) ==
  /\ pc = "idle" /\ captures < MaxCaptures
  /\ pc' = "attach" /\ target' = c /\ captures' = captures + 1
  /\ held' = Empty /\ got' = FALSE
  /\ armed' = (c \in Sources)
  /\ UNCHANGED <<locked, success, attached, inside, reply>>

\* obs_source_create_private fails, or the pipeline is not initialized.
Unavailable ==
  /\ pc = "attach" /\ Refuse /\ armed' = FALSE
  /\ UNCHANGED <<target, locked, got, held, success, attached, inside, captures>>

Attach ==
  /\ pc = "attach" /\ pc' = "wait" /\ attached' = attached \cup {target}
  /\ UNCHANGED <<target, locked, armed, got, held, success, inside, captures, reply>>

\* wait_for returns with the mutex held, and returns what the state says then.
Wake ==
  /\ pc = "wait" /\ got
  /\ pc' = "woken" /\ locked' = TRUE /\ success' = TRUE
  /\ UNCHANGED <<target, armed, got, held, attached, inside, captures, reply>>

\* Mutant of TimeOut: the capture is refused where it stands.
TimeOutReturns ==
  /\ pc = "wait" /\ ~got /\ Refuse
  /\ UNCHANGED <<target, locked, armed, got, held, success, attached, inside, captures>>

TimeOut ==
  /\ pc = "wait" /\ ~got
  /\ pc' = "woken" /\ locked' = TRUE /\ success' = FALSE
  /\ UNCHANGED <<target, armed, got, held, attached, inside, captures, reply>>

\* Mutant of Unlock: the removal is inside the scope of the lock.
UnlockLater ==
  /\ pc = "woken" /\ pc' = "detach" /\ armed' = FALSE
  /\ UNCHANGED <<target, locked, got, held, success, attached, inside, captures, reply>>

Unlock ==
  /\ pc = "woken" /\ pc' = "detach" /\ locked' = FALSE /\ armed' = FALSE
  /\ UNCHANGED <<target, got, held, success, attached, inside, captures, reply>>

\* Mutant of Detach: the filter stays on its source.
DetachNothing ==
  /\ pc = "detach" /\ inside[target] = Nothing
  /\ pc' = "read"
  /\ UNCHANGED <<target, locked, armed, got, held, success, attached, inside, captures, reply>>

\* The removal waits for a callback that is running.
Detach ==
  /\ pc = "detach" /\ inside[target] = Nothing
  /\ pc' = "read" /\ attached' = attached \ {target}
  /\ UNCHANGED <<target, locked, armed, got, held, success, inside, captures, reply>>

\* The digest, or the levels.
Answer ==
  /\ pc = "read"
  /\ IF success THEN pc' = "idle" /\ reply' = [ok |-> TRUE, held |-> held] ELSE Refuse
  /\ held' = Empty
  /\ UNCHANGED <<target, locked, armed, got, success, attached, inside, captures>>

Control == Unavailable \/ Attach \/ Wake \/ TimeOut \/ Unlock \/ Detach \/ Answer

-----------------------------------------------------------------------------
(* The threads of libobs                                                   *)

\* capture_tap_filter_video, program_frame_grab_cb, program_audio_grab_cb.
Enter(c) ==
  /\ c \in attached /\ inside[c] = Nothing
  /\ inside' = [inside EXCEPT ![c] = captures]
  /\ UNCHANGED <<pc, target, locked, armed, got, held, success, attached, captures, reply>>

Takes(c) == ~got /\ (c \in Sources => armed)
Delivery(c) == <<c, inside[c]>>

\* The frame is copied under the mutex and goes on to its consumer unchanged.
Store(c, n) ==
  /\ inside[c] # Nothing /\ ~locked /\ (c # Mix => n = 1)
  /\ IF Takes(c)
     THEN /\ held' = [from |-> held.from \cup {Delivery(c)}, count |-> held.count + n]
          /\ got' = (c # Mix \/ held'.count >= Window)
     ELSE UNCHANGED <<held, got>>
  /\ inside' = [inside EXCEPT ![c] = Nothing]
  /\ UNCHANGED <<pc, target, locked, armed, success, attached, captures, reply>>

Delivers(c) == \E n \in Chunks \cup {1} : Store(c, n)

CaptureNext == \/ \E c \in Channels : Begin(c) \/ Enter(c) \/ Delivers(c)
        \/ Control

CaptureSpec == CaptureInit /\ [][CaptureNext]_captureVars

\* Threads run, the bound of the wait passes, and a removal gets the lock of
\* libobs, which is free between two frames.
CaptureFairness ==
  /\ WF_captureVars(Control) /\ SF_captureVars(Detach)
  /\ \A c \in Channels : WF_captureVars(Delivers(c))
FairCaptureSpec == CaptureSpec /\ CaptureFairness

-----------------------------------------------------------------------------
(* Properties                                                              *)

Holdings == [from : SUBSET (Channels \X (1..MaxCaptures)), count : Nat]
Waiting == {"wait", "woken", "detach"}

\* Every variable has its type, and no state holds more than one window.
CaptureTypeOK ==
  /\ pc \in {"idle", "attach", "read"} \cup Waiting /\ target \in Channels \cup {Nothing}
  /\ (pc # "idle" => target # Nothing)
  /\ {locked, armed, got, success} \subseteq BOOLEAN
  /\ held \in Holdings /\ (\E n \in Chunks \cup {1} : held.count < Window + n)
  /\ attached \subseteq Channels
  /\ inside \in [Channels -> 1..MaxCaptures \cup {Nothing}] /\ captures \in 0..MaxCaptures
  /\ reply \in [ok : BOOLEAN, held : Holdings]

\* An answer is made of what was asked for, delivered while it was captured:
\* of one frame of this source, or of a window of the mix, and of no frame that
\* came after it was complete.  No frame of another source or of an earlier
\* capture that timed out is passed off as it.
AnswersItsOwn ==
  reply.ok /\ pc = "idle" =>
    /\ reply.held.from = {<<target, captures>>}
    /\ IF target = Mix
       THEN reply.held.count >= Window /\ \E n \in Chunks \cup {1} : reply.held.count < Window + n
       ELSE reply.held.count = 1

\* A state on the stack outlives the callbacks that write it, also when the wait
\* for it ended without one.
GrabOutlivesCallbacks ==
  \A c \in Grabs : inside[c] # Nothing => pc \in Waiting /\ target = c

\* A capture is answered: the five seconds bound the wait, and nobody waits for
\* the mutex while he holds the lock that the other one needs.
CapturesEnd == pc # "idle" ~> pc = "idle"
=============================================================================
