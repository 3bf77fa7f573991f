--------------------------- MODULE PluginSentinel ---------------------------
(***************************************************************************)
(* The containment of user plugins: the load sentinel file, the boot that  *)
(* resolves it against the manifest's retry list, the loop that loads one  *)
(* candidate after the other, and the watchdog thread.                     *)
(*                                                                         *)
(* The sentinel file survives the process; everything else is lost when    *)
(* the process ends.  A module is an arbitrary program: while it is loaded *)
(* it may return, abort the process, or never return.                      *)
(***************************************************************************)
EXTENDS Integers, FiniteSets

CONSTANTS
  Modules,       \* the module refs that the manifests and the roots can name
  None,          \* no module
  MaxSuspects,   \* kMaxSuspects
  MaxEntries,    \* kMaxSentinelBytes, counted in refs the file names
  MaxBoots,      \* bound of the exploration: launches of the host
  EnvFaults      \* what may go wrong around the host, see FaultKinds

\* "probe", "loading", "idle", "deadline": that write of the sentinel may
\* fail.  "kill": the process may be killed from outside at any moment.
\* "late": a loaded module may abort the process from its post-load hook, or
\* never return from it.
FaultKinds == {"probe", "loading", "idle", "deadline", "kill", "late"}

ASSUME NoneAssumption == None \notin Modules
ASSUME BoundsAssumption == /\ MaxSuspects \in Nat
                           /\ MaxEntries \in Nat
                           /\ MaxBoots \in Nat
ASSUME FaultsAssumption == EnvFaults \subseteq FaultKinds

VARIABLES
  phase, moduleRef, suspects, consumed,  \* the sentinel file
  pc,                      \* where the main thread is, "down" without a process
  retry,                   \* the manifest's retry list of this boot
  mSuspects, mConsumed,    \* PluginContainment, the resolution in memory
  todo,                    \* plan.candidates that were not reached yet
  cur,                     \* the candidate being handled
  loaded,                  \* modules of this process that libobs keeps
  dog, dogRef,             \* the watchdog: "off", "armed" or "firing"; module_ref_
  boots,                   \* launches so far
  faults, lateFaults,      \* history: aborts and hangs per module, in and after its load
  grants,                  \* history: fresh retries honoured per module
  culprit                  \* history: the module that ended the last process

file == <<phase, moduleRef, suspects, consumed>>
memory == <<retry, mSuspects, mConsumed, todo, cur, loaded>>
watchdog == <<dog, dogRef>>
history == <<boots, faults, lateFaults, grants, culprit>>
vars == <<file, memory, watchdog, history, pc>>

Kinds == {"clear", "crash", "hang"}
Phases == {"idle", "loading", "deadline-exceeded"}
Points == {"down", "probe", "startup", "select", "record", "arm", "open", "init",
           "hung", "disarm", "disarmRefused", "classify", "stuck", "finish",
           "postLoad", "wedged", "running"}

\* Main is writing the sentinel's temporary file.
MainWriting == pc \in {"probe", "record", "finish"}

\* Main is between the loading record of cur and the end of its load.
LoadWindow == pc \in {"arm", "open", "init", "hung", "disarm", "disarmRefused",
                      "classify", "stuck"}

\* The resolution of a boot is on disk and the process is alive.
Resolved == pc \notin {"down", "probe"}

-----------------------------------------------------------------------------
(* The file, as load_or_throw and resolve read it.                         *)

SuspectsOf(map) == {m \in Modules : map[m] # "clear"}

\* Mutant of Promoted: an exceeded deadline is no suspicion.
PromotedCrashesOnly ==
  [m \in Modules |-> IF phase = "loading" /\ m = moduleRef THEN "crash" ELSE suspects[m]]

\* The map with the leftover record promoted: loading to a crash, an
\* exceeded deadline to a hang.
Promoted ==
  [m \in Modules |-> IF phase # "idle" /\ m = moduleRef
                     THEN IF phase = "loading" THEN "crash" ELSE "hang"
                     ELSE suspects[m]]

Fresh(r) == r \ consumed

\* Mutant of ResolvedSuspects: a spent retry clears the suspicion again.
ClearEveryRetry(r) == [m \in Modules |-> IF m \in r THEN "clear" ELSE Promoted[m]]

\* A fresh grant clears the suspicion, a spent one does not; a retry that the
\* manifest withdrew drops out of the consumed set.
ResolvedSuspects(r) ==
  [m \in Modules |-> IF m \in Fresh(r) THEN "clear" ELSE Promoted[m]]

Entries == Cardinality(SuspectsOf(suspects)) + Cardinality(consumed)
             + (IF phase = "idle" THEN 0 ELSE 1)

\* The strict parse and resolve accept the file.
Readable == /\ Entries <= MaxEntries
            /\ Cardinality(SuspectsOf(Promoted)) <= MaxSuspects

\* write(): tmp and rename, so the file is replaced as a whole or kept.
WriteRecord(ph, ref) == /\ phase' = ph
                        /\ moduleRef' = ref
                        /\ suspects' = mSuspects
                        /\ consumed' = mConsumed

WriteFails(kind) == kind \in EnvFaults /\ UNCHANGED file

-----------------------------------------------------------------------------
Init ==
  /\ phase = "idle" /\ moduleRef = None
  /\ suspects = [m \in Modules |-> "clear"] /\ consumed = {}
  /\ pc = "down" /\ retry = {}
  /\ mSuspects = [m \in Modules |-> "clear"] /\ mConsumed = {}
  /\ todo = {} /\ cur = None /\ loaded = {}
  /\ dog = "off" /\ dogRef = None
  /\ boots = 0
  /\ faults = [m \in Modules |-> 0] /\ lateFaults = [m \in Modules |-> 0]
  /\ grants = [m \in Modules |-> 0]
  /\ culprit = None

\* The process is gone: nothing but the file and the history remains.
ProcessEnds == /\ pc' = "down"
               /\ retry' = {} /\ todo' = {} /\ cur' = None /\ loaded' = {}
               /\ mSuspects' = [m \in Modules |-> "clear"] /\ mConsumed' = {}
               /\ dog' = "off" /\ dogRef' = None

ModuleEnds(m) == /\ faults' = [faults EXCEPT ![m] = @ + 1]
                 /\ culprit' = m
                 /\ UNCHANGED <<boots, lateFaults, grants>>

\* parse_args: the supervisor starts the host with some retry list.
Launch(r) ==
  /\ pc = "down" /\ boots < MaxBoots
  /\ boots' = boots + 1
  /\ IF Readable
     THEN /\ pc' = "probe"
          /\ retry' = r
          /\ mSuspects' = ResolvedSuspects(r)
          /\ mConsumed' = r
     ELSE UNCHANGED <<pc, retry, mSuspects, mConsumed>>
  /\ UNCHANGED <<file, todo, cur, loaded, watchdog, faults, lateFaults, grants, culprit>>

\* The writability probe makes the resolution durable.
ProbeWritten ==
  /\ pc = "probe"
  /\ WriteRecord("idle", None)
  /\ pc' = "startup"
  /\ grants' = [m \in Modules |-> grants[m] + (IF m \in Fresh(retry) THEN 1 ELSE 0)]
  /\ culprit' = None
  /\ UNCHANGED <<memory, watchdog, boots, faults, lateFaults>>

ProbeFails ==
  /\ pc = "probe"
  /\ WriteFails("probe")
  /\ ProcessEnds
  /\ UNCHANGED history

\* The remaining argument checks, obs_startup, video, audio and the bundled
\* modules: the launch is refused, or the plan's candidates are filtered.
StartupFails == pc = "startup" /\ ProcessEnds /\ UNCHANGED <<file, history>>

\* Mutant of RefuseSuspects: the plan is not filtered.
KeepSuspects(found) ==
  /\ pc = "startup" /\ todo' = found /\ pc' = "select"
  /\ UNCHANGED <<file, retry, mSuspects, mConsumed, cur, loaded, watchdog, history>>

RefuseSuspects(found) ==
  /\ pc = "startup"
  /\ todo' = {m \in found : mSuspects[m] = "clear"}
  /\ pc' = "select"
  /\ UNCHANGED <<file, retry, mSuspects, mConsumed, cur, loaded, watchdog, history>>

-----------------------------------------------------------------------------
(* load_user_plugin_candidates                                             *)

\* A collision with a bundled module, or a binary that is no longer confined.
SkipCandidate(m) ==
  /\ pc = "select" /\ m \in todo
  /\ todo' = todo \ {m}
  /\ UNCHANGED <<file, retry, mSuspects, mConsumed, cur, loaded, watchdog, history, pc>>

BeginCandidate(m) ==
  /\ pc = "select" /\ m \in todo
  /\ todo' = todo \ {m}
  /\ cur' = m
  /\ pc' = "record"
  /\ UNCHANGED <<file, retry, mSuspects, mConsumed, loaded, watchdog, history>>

RecordLoading ==
  /\ pc = "record"
  /\ WriteRecord("loading", cur)
  /\ pc' = "arm"
  /\ UNCHANGED <<memory, watchdog, history>>

\* The attempt is refused and the loop goes on.
RecordFails ==
  /\ pc = "record"
  /\ WriteFails("loading")
  /\ pc' = "select"
  /\ UNCHANGED <<memory, watchdog, history>>

\* Mutant of Arm: the load starts unwatched.
LoadUnwatched == /\ pc = "arm" /\ pc' = "open"
                 /\ UNCHANGED <<file, memory, watchdog, history>>

Arm ==
  /\ pc = "arm" /\ dog # "firing"
  /\ dog' = "armed" /\ dogRef' = cur
  /\ pc' = "open"
  /\ UNCHANGED <<file, memory, history>>

\* obs_open_module.
OpenSucceeds == /\ pc = "open" /\ pc' = "init"
                /\ UNCHANGED <<file, memory, watchdog, history>>
OpenRefused == /\ pc = "open" /\ pc' = "disarmRefused"
               /\ UNCHANGED <<file, memory, watchdog, history>>

\* obs_init_module returns, true or false: libobs keeps the module either way.
InitReturns == /\ pc = "init" /\ pc' = "disarm"
               /\ loaded' = loaded \cup {cur}
               /\ UNCHANGED <<file, retry, mSuspects, mConsumed, todo, cur, watchdog, history>>

\* Mutant of Disarm: the watchdog stays armed after a load.
LeaveArmed == /\ pc \in {"disarm", "disarmRefused"} /\ dog # "firing"
              /\ \/ pc' = "select"
                 \/ pc = "disarmRefused" /\ pc' = "classify"
              /\ UNCHANGED <<file, memory, watchdog, history>>

\* disarm waits for the mutex, which a firing watchdog never gives back.
Disarm ==
  /\ pc \in {"disarm", "disarmRefused"} /\ dog # "firing"
  /\ dog' = "off"
  /\ \/ pc' = "select"
     \/ pc = "disarmRefused" /\ pc' = "classify"
  /\ UNCHANGED <<file, memory, dogRef, history>>

\* classify_failed_dlopen: a second dlopen that no watchdog covers.
Classified == /\ pc = "classify" /\ pc' = "select"
              /\ UNCHANGED <<file, memory, watchdog, history>>

\* The module aborts the process, or never returns.
ModuleAborts == /\ pc \in {"open", "init", "classify"}
                /\ ModuleEnds(cur)
                /\ ProcessEnds
                /\ UNCHANGED file
ModuleHangs == /\ \/ pc \in {"open", "init"} /\ pc' = "hung"
                  \/ pc = "classify" /\ pc' = "stuck"
               /\ UNCHANGED <<file, memory, watchdog, history>>

(* PluginLoadWatchdog::run.  Time is abstracted: the deadline may pass at  *)
(* any moment while the watchdog is armed.                                 *)

DeadlinePasses == /\ dog = "armed" /\ dog' = "firing"
                  /\ UNCHANGED <<file, memory, dogRef, history, pc>>

\* The record's result is ignored, the process ends in any case.
WatchdogExits ==
  /\ dog = "firing"
  /\ WriteRecord("deadline-exceeded", dogRef) \/ WriteFails("deadline")
  /\ ModuleEnds(dogRef)
  /\ ProcessEnds

-----------------------------------------------------------------------------
\* build_user_plugins_boot_report_json: the loop is over.
LoopEnds == /\ pc = "select" /\ todo = {}
            /\ pc' = "finish"
            /\ UNCHANGED <<file, memory, watchdog, history>>

\* The final record; its result is ignored.
FinalRecord == /\ pc = "finish"
               /\ WriteRecord("idle", None) \/ WriteFails("idle")
               /\ pc' = "postLoad"
               /\ UNCHANGED <<memory, watchdog, history>>

\* obs_post_load_modules runs the hooks of the modules libobs keeps, and no
\* watchdog covers them.
PostLoad == /\ pc = "postLoad" /\ pc' = "running"
            /\ UNCHANGED <<file, memory, watchdog, history>>
PostLoadAborts(m) ==
  /\ pc = "postLoad" /\ m \in loaded /\ "late" \in EnvFaults
  /\ lateFaults' = [lateFaults EXCEPT ![m] = @ + 1]
  /\ ProcessEnds
  /\ UNCHANGED <<file, boots, faults, grants, culprit>>

PostLoadHangs ==
  /\ pc = "postLoad" /\ loaded # {} /\ "late" \in EnvFaults
  /\ pc' = "wedged"
  /\ UNCHANGED <<file, memory, watchdog, history>>

HostExits == pc = "running" /\ ProcessEnds /\ UNCHANGED <<file, history>>

\* The supervisor or the machine ends the process.
Killed == /\ pc # "down" /\ "kill" \in EnvFaults
          /\ ProcessEnds
          /\ UNCHANGED <<file, history>>

MainStep ==
  \/ ProbeWritten \/ ProbeFails \/ StartupFails
  \/ \E found \in SUBSET Modules : RefuseSuspects(found)
  \/ \E m \in Modules : SkipCandidate(m) \/ BeginCandidate(m)
  \/ RecordLoading \/ RecordFails \/ Arm
  \/ OpenSucceeds \/ OpenRefused \/ InitReturns \/ Disarm
  \/ Classified \/ ModuleAborts \/ ModuleHangs
  \/ LoopEnds \/ FinalRecord \/ PostLoad
  \/ PostLoadHangs
  \/ \E m \in Modules : PostLoadAborts(m)

WatchdogStep == DeadlinePasses \/ WatchdogExits

Next == \/ \E r \in SUBSET Modules : Launch(r)
        \/ MainStep
        \/ WatchdogStep
        \/ HostExits
        \/ Killed

Spec == Init /\ [][Next]_vars

\* Main runs until a module keeps it; the watchdog polls every 50 ms and a
\* deadline passes while it stays armed.
Fairness == WF_vars(MainStep) /\ WF_vars(WatchdogStep)
FairSpec == Spec /\ Fairness

-----------------------------------------------------------------------------
(* Properties                                                              *)

TypeOK ==
  /\ phase \in Phases /\ moduleRef \in Modules \cup {None}
  /\ suspects \in [Modules -> Kinds] /\ consumed \subseteq Modules
  /\ pc \in Points /\ retry \subseteq Modules
  /\ mSuspects \in [Modules -> Kinds] /\ mConsumed \subseteq Modules
  /\ todo \subseteq Modules /\ cur \in Modules \cup {None} /\ loaded \subseteq Modules
  /\ dog \in {"off", "armed", "firing"} /\ dogRef \in Modules \cup {None}
  /\ boots \in Nat
  /\ faults \in [Modules -> Nat] /\ lateFaults \in [Modules -> Nat]
  /\ grants \in [Modules -> Nat]
  /\ culprit \in Modules \cup {None}

\* The file holds m responsible: it is in the map, or the open record names it.
HeldResponsible(m) == Promoted[m] # "clear"

\* A module ends the process from its load at most once, and once more per
\* fresh retry, whatever writes fail, whenever the process is killed and
\* however the deadline races the return of the load.
CrashesBounded == \A m \in Modules : faults[m] <= 1 + grants[m]

\* The module that ended the last process is held responsible by the file
\* until the next boot has resolved it: no end of a process goes unattributed.
Attribution == culprit # None => HeldResponsible(culprit)

\* A module only runs under a durable record that names it, so whatever it
\* does can be pinned on it: never the record of the candidate before it.
NoUnattributedLoad == LoadWindow => /\ phase = "loading"
                                    /\ moduleRef = cur
                                    /\ suspects[cur] = "clear"

\* The main thread and the watchdog never write the temporary file at the
\* same time, and a deadline that fires names the module that is running.
WatchdogExclusive == dog = "firing" => ~MainWriting /\ LoadWindow /\ dogRef = cur

\* Suspicion leaves the durable map, and a spent retry becomes usable again,
\* only when a boot resolves the file, by a fresh retry and by a manifest
\* that no longer lists the ref respectively.
DurableStep ==
  \A m \in Modules :
    /\ suspects[m] # "clear" /\ suspects'[m] = "clear"
         => pc = "probe" /\ m \in retry /\ m \notin consumed
    /\ m \in consumed /\ m \notin consumed' => pc = "probe" /\ m \notin retry
SuspicionIsDurable == [][DurableStep]_vars

\* When nothing kills the process from outside and the final record can be
\* written, only a module that itself ended a process is ever suspected.
OnlyCulpritsSuspected ==
  \A m \in Modules : suspects[m] # "clear" => faults[m] > 0

\* The load phase ends: every candidate is passed and the final record is written,
\* or the process ends, by the watchdog if by nothing else when a module does not
\* return from obs_open_module or obs_init_module.  Only a module that hangs inside
\* the classification probe, which runs after disarm, keeps the host in it.  What
\* follows, the post-load hooks, has no bound at all and is not promised to end.
LoadPhaseEnds == pc = "select" ~> pc \in {"postLoad", "down", "stuck"}

(* The inductive strengthening that carries the safety properties.          *)

\* Each write of this process repeats the resolution it made at launch.
MemoryMatchesFile ==
  /\ pc = "probe" => mSuspects = ResolvedSuspects(retry) /\ mConsumed = retry
  /\ Resolved => mSuspects = suspects /\ mConsumed = consumed

\* A candidate that is still to be loaded is not suspected, and the open
\* record names none of them: each is loaded at most once per process.
CandidatesAreClear ==
  /\ pc \in {"down", "probe", "startup"} => todo = {}
  /\ pc = "startup" => phase = "idle"
  /\ Resolved => \A m \in todo : suspects[m] = "clear" /\ (phase = "idle" \/ moduleRef # m)
  /\ pc = "record" => /\ cur \in Modules \ todo
                      /\ suspects[cur] = "clear"
                      /\ phase = "idle" \/ moduleRef # cur
  /\ LoadWindow => cur \in Modules \ todo

OpenRecordNamesClear == phase # "idle" => /\ moduleRef \in Modules
                                         /\ suspects[moduleRef] = "clear"

WatchdogCoversLoad ==
  dog # "off" => /\ pc \in {"open", "init", "hung", "disarm", "disarmRefused"}
                 /\ dogRef = cur

\* While the process lives only the map counts; once it is gone, or before
\* the next one has resolved the file, the open record counts as well.
Owing(m) == IF Resolved THEN suspects[m] # "clear" ELSE HeldResponsible(m)

CrashesPaidFor ==
  \A m \in Modules : faults[m] <= grants[m] + (IF Owing(m) THEN 1 ELSE 0)

CulpritHeld == /\ Resolved => culprit = None
               /\ Attribution

IInv == /\ TypeOK
        /\ MemoryMatchesFile
        /\ CandidatesAreClear
        /\ OpenRecordNamesClear
        /\ NoUnattributedLoad
        /\ WatchdogCoversLoad
        /\ CrashesPaidFor
        /\ CulpritHeld

\* A record that is left open when the process ends names a module that ended
\* a process, and a process that finished its load phase leaves none open.
InnocentAreClear ==
  /\ OnlyCulpritsSuspected
  /\ pc \in {"down", "probe"} /\ phase # "idle" => faults[moduleRef] > 0
  /\ pc \in {"postLoad", "wedged", "running"} => phase = "idle"

(* The promise this code keeps.                                             *)

\* A module whose record is still open is on trial, unless the map already
\* suspects it.
TrialStatus == [m \in Modules |->
                 CASE suspects[m] # "clear" -> "suspected"
                   [] suspects[m] = "clear" /\ phase # "idle" /\ m = moduleRef -> "trial"
                   [] OTHER -> "trusted"]

Containment == INSTANCE LoadContainment WITH
                 status <- TrialStatus, spent <- consumed, up <- Resolved,
                 crashes <- faults, granted <- grants

\* Every step on the file and the process is a step of LoadContainment or
\* leaves it unchanged.
ImplementsContainment == Containment!Spec

(* What the repository says and the code does not do.                      *)

\* "a crash-looping module can never restart-loop the host: each module
\* crashes at most once per explicit retry".  The post-load hooks run after
\* the final idle record, outside every attribution window.
NoRestartLoop == \A m \in Modules : faults[m] + lateFaults[m] <= 1 + grants[m]
=============================================================================
