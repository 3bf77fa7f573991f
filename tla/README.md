# A verification project for the Stream Mate Studio Host

These TLA+ modules model the Studio Host (`src/src/studio_host.cpp`): the process that a supervisor
starts, that loads OBS and the user's plugins, and that one client at a time controls over a
loopback WebSocket. TLC checks the modules on small instances; TLAPS proves their safety properties
for every value of the constants. The definitions are translated from the source. `PROJECT.json`
maps each of them to its lines, lists the runs, the mutants that every property must detect, the
hazards, the findings and the theorems.

Contents: [Inventory](#inventory) · [How the parts interact](#how-the-parts-interact) ·
[Modules](#modules-and-their-code) · [Runs](#runs-and-what-they-show) · [Bounds](#bounds) ·
[Fairness](#fairness) · [Proofs](#proofs) · [Findings](#findings) · [Not
modelled](#what-is-not-modelled) · [Plan](#plan)

## Inventory

| Component | State it keeps | Operations | What makes it correct |
|---|---|---|---|
| Plugin load sentinel and watchdog (`plugin_sentinel`, `PluginContainment`, `PluginLoadWatchdog`, `load_user_plugin_candidates`) | the sentinel file: phase, module, suspects, consumed retries; a copy in memory; the armed deadline | resolve at launch, probe write, one record per load, deadline record and `_Exit`, final record | a module ends the host from its load once, and once more per explicit retry; every such end is attributed; a load that hangs ends the process |
| User plugin inventory, plan and report (`build_user_plugin_inventory`, `build_user_plugin_load_plan`, `build_user_plugins_boot_report_json`) | records of the candidates, the plan, snapshots of the registered types | scan, plan, refuse suspects, load, freeze the report | the first copy of a ref counts; nothing refused is opened; types are credited to the module that registered them; nobody is dropped silently |
| Output controller (`OutputController`) | configuration, stream key, fake ingest socket, libobs output, service, encoders, fallback scene; three atomics that libobs threads write | `output.configure/start/stop`, `tick` | one sink at most; no end of a session leaves anything behind; a stop signal belongs to the session it ends; an end is reported as what it was |
| Renderer state and its mirror (`RendererState`) | scenes, sources and filters; the libobs scenes, sources and items that mirror them; what output source 0 shows | `scene.*`, `source.*`, `filter.*`, `audio.setVolume` | the bookkeeping of libobs objects holds nothing the model denies, no dead item is used, what is suppressed is reported |
| Captures (`capture_tap`, `capture_source_frame`, `capture_program_frame`, `capture_program_audio`) | one static filter state, grabs on the stack | attach, wait at most five seconds, detach, digest | an answer is made of what was asked for; no callback outlives its state; no capture waits for ever |
| Recording and replay scaffold (`RecordReplayController`, `send_record_result`) | sessions by id; files by destination | `record.start/stop/status`, `replay.start/save/stop/status` | a file holds what its session reports; an announced segment is whole; an event follows its own reply |
| WebSocket frames (`send_text_frame`, `read_text_frame`, `receive_exact`) | the bytes in flight | write a frame, read one field by field | the client reads what was written, the host what was sent, whatever the network cuts |
| OBS import custody (`ObsImporter`) | the imported workspaces, the temporary one, reports | `import.load`, `import.report` | no credential of a collection is imported; an edit during the copy is seen; a report describes its import; a failure before the removal keeps the last import |
| Control server and process lifecycle (`ControlServer`, `StateFile`, `main`) | server socket, client, `g_stop`, the state file, the Qt event loop | bind, accept, serve, stop, write the file, exit | what the state file says is true; exit 0 means an announced end; a stop is honoured |
| Engine and CEF (`EngineLifecycle`, `ensure_cef_initialized_for_kind`) | started or not; CEF initialised or not | start, shut down, initialise CEF on the event loop of main | nothing is served without the engine; a browser source never waits for a loop that ended |
| Import report and map (`parse_obs_source_entries`, `write_import_map`, `build_report`, prompt sources) | the stacks of one walk; handles of prompt sources | walk over a collection, classify each entry twice, create and release prompt sources | every entry is reported once and with its parent; the map mirrors the report; an import starts no capture |
| Plugin manifest (`user_plugins::load_or_throw`, `ManifestScanner`) | scanner position, keys seen, what was read | read, parse, refuse, hand to the boot | a text is accepted exactly if it is well formed, and as what it says |
| Native overlays (`NativeOverlayManager`) | one surface per overlay | `source.create/update/remove` of its ids | routed by id, before the renderer looks |
| JSON helpers, PNG, SHA-256, header parsing, test modules, smoke programs, packaging | none that outlives a call, or straight-line | | |

The hard behaviours are: a process that dies or is killed between two writes of a file that the next
process reads; a watchdog that races the return of a load; libobs threads that store into atomics,
or call back into a stack frame, while the control thread tears an output or a capture down; a
libobs call that fails in the middle of a verb; an owner who edits files while they are copied; a
client that stops halfway through a handshake or a frame, or stops reading; one-pass parsers that
patch what they found earlier; a control thread that waits for an event loop which may be on its way
to wait for it. Each is a hazard of `PROJECT.json`, with the line and the properties that would
notice it.

## How the parts interact

`main` resolves the sentinel from the launch arguments, starts the engine, which loads the user
modules under the sentinel and freezes the plugin report, and then runs the server: in its own
thread when the CEF/Qt lane is built, on the main thread otherwise. The server is serial:
`handle_client` reads one message, calls one handler to its end, and calls `OutputController::tick`;
without a message it ticks at least every 200 ms, and without a client nothing ticks. The components
therefore share the control thread and never run against each other. What does run against them are
the watchdog thread, the threads of libobs (signals of an output, frames of a capture), the file
system (the owner of an OBS directory, a full disk), signals, the supervisor, and the client.

Two objects are shared by several components: the sentinel file, of which `PluginSentinel` has the
whole and `PluginPlan` the verdict (its `suspect`), and output source 0, which `RendererMirror`
binds for `scene.setProgram` and `OutputController` binds for its fallback scene. The second is in
both modules from the side of its owner (`SetProgram` there, `OtherRequest` here).

Three modules compose others: `RecordSession` calls the verbs of `RecordReplay` over the frames of
`WireFrames`, with the client that `Rfc6455` describes; `PluginLaunch` hands what `Manifest`
accepted to the boot of `PluginPlan`; `ImportReport` runs `SceneCollection`'s walk inside the
requests that `ImportCustody` takes as one step each. `RendererMirror` has the ids of the overlays
beside those of the sources, because one verb is routed to either.

## Modules and their code

`X.tla` has the state, the actions, the specification and the properties of a component; `MCX.tla`
and `X.cfg` instantiate it for TLC; `XProofs.tla` has the theorems. A comment "Mutant of D" marks an
operator that differs from `D` the way a plausible bug would; no specification uses it.

**PluginSentinel**, with the abstract **LoadContainment**. `pc` is where the main thread is:
`Launch` is `parse_args` with `resolve`; `ProbeWritten` the write that makes the resolution durable;
`RefuseSuspects` the filter on the plan; `RecordLoading`, `Arm`, `Open…`, `Init…`, `Disarm`,
`Classified` one pass of `load_user_plugin_candidates`; `FinalRecord` the write whose result is
ignored; `PostLoad` `obs_post_load_modules`. `DeadlinePasses` and `WatchdogExits` are the watchdog
thread: it writes and exits under the mutex that `arm` and `disarm` want, which is why both wait for
`dog # "firing"`. Every write replaces the file as a whole or leaves it, because `write()` renames a
temporary file. A module is an arbitrary program: it returns, aborts or hangs, in its load (`hung`,
which the watchdog ends), in the classification probe (`stuck`) and in a post-load hook
(`PostLoadHangs`, `wedged`), which nothing ends. The candidates are a set of refs, because a ref is
opened at most once per boot (`OnlyFirstCopyOpens` of PluginPlan) and no property depends on their
order. `LoadContainment` is what the sentinel promises without a file: each module is trusted, on
trial or suspected, and only one on trial can end the host.

**Manifest**, **ManifestLanguage**, **PluginLaunch**. `Manifest` is the parser, over tokens: an
action per key of the schema with the refusal of each branch, and `skip_value` as a recursive
function (`SkipAt` is one call of it, `SkipFrom` all of them; the marks have names, `LBrace` to
`Comma`). `ManifestLanguage` says without a parser what a text means: the grammar of JSON over spans
of the text (`Derives`), members by how deep they are enclosed, and the faults a schema can find.
`PluginLaunch` composes: an accepted text becomes the policy of PluginPlan's boot.

**PluginPlan**. `Discover` appends one candidate of the roots in the order of the scan, with a kind
of file chosen freely; `BuildPlan`, `RefuseSuspects` and the load actions follow the code function
by function. A file is looked at once more before it is opened, and may have become anything
meanwhile, so `Refuse` and `OpenFails` do not depend on the first look. A static constructor of a
file whose open fails is assumed to register no types.

**OutputController**. One variable per field that decides something. The signal handler is two
steps, `EndStored` and `EndRaised`, as its two stores are; `StopLiveOutput` says what releasing an
output does to them, because libobs joins the output's thread and an output that is still active
signals its own end. `loop` is where `handle_client` is: a request is answered in "wait" and its
tick is the next step, unless the client holds the thread: "reading" is a frame whose rest is
awaited, "replying" and "sending" are an answer and a heartbeat that the client does not read
(`BeginFrame`, `SendEnds`). `StartLiveFails` is all the stages of `start_live` that may fail; each
rolls back to the same state.

**RendererMirror**. A verb is one action, with a libobs call that may fail as a disjunct, at the
place where it fails: `RefuseEarly` before the old source is released, `RefuseLate` after; both
enter the new source first and take it back with `RestoreReplaced`, as the code does. `mirror` and
`item` are the bookkeeping (`obs_sources_`, `obs_scene_items_`), not libobs: what libobs keeps on a
scene object that was replaced is `kept`. `orphan` and `kept` are the scene object that output
source 0 still shows after its id was loaded again. Order, geometry, settings and media state are
data: their verbs (`SetItemOrder` to `ItemTransform`) are modelled by the object they need and by
their answer. `overlays` are the ids of `NativeOverlayManager`: `OverlayVerb` is its three verbs,
and `RemoveSource` and `UpdateSource` are only reached by ids that it does not have. An overlay may
take the id of a source of the renderer, which then can be neither updated nor removed until the
overlay is.

**FrameCapture**. `Begin` to `Answer` are the three capture functions, which have one shape;
`locked` is the mutex of their state, `Enter` and `Store` a callback of libobs before and inside its
critical section. The code does not hold that mutex while it removes a filter or callback, and the
removal of libobs waits for a callback that runs: both are in `Unlock` and `Detach`. Captures run on
the control thread, one after the other.

**RecordReplay**, **WireFrames**, **Rfc6455**, **RecordSession**, with the abstract
**ControlCalls**. In `RecordReplay` a file is the sequence of writes it consists of, by session; a
session and its destination are different things, so two sessions may share a file. `opened` is
FALSE when `ofstream` cannot open it; a file that was opened is assumed to take what is written to
it, because the code does not look at the stream again. Each operation is given the `answer` it
makes: `Refused`, or the result with its event (`send_record_result`). `WireFrames` is
`send_text_frame` and the reading of a frame field by field (`Wanted` is what `receive_exact` still
misses); the numbers of the protocol are constants. `Rfc6455` is not this program: it is the
client's frames (`ClientFrame`) and the standard's reading of a stream (`FramesIn`, the frames that
are whole in it, each with its opcode, its FIN and reserved bits, the form of its length and its
payload) and of a frame (`IsMessage`: one with FIN, no reserved bit and no continuation). The host
masks the first byte (`Opcode`) and takes every text frame for a message, so a fragment that spells
a request is carried out; to the standard it asks nothing yet (`Part`). `RecordSession` is the
specification of all: bytes in both directions, the loop of `handle_client`, and a client that asks,
hears and leaves at any byte; `asked` and `told` are what the standard reads in the two streams.
`ControlCalls` is the promise without bytes: requests taken once and in order, one reply each, and
its event after it; and what the host makes of a part, an answer as to a message.

**ImportCustody**. A collection is a body; `Secrets` are those that carry a credential, whatever its
type: the redaction replaces the value of a credential key, or refuses a body that does not parse to
its end (`Malformed`). `Visible` are those that the safety net can find: a raw string, before any
token that does not parse. The scan and the net look at files that end in `.json` (`Scanned`);
`Backups` are the others, which are copied as they are. The digests are one step each: the property
that depends on them (`OneEditIsSeen`) is stated for one edit, for which a digest taken file by file
gives the same answer. The copy and the scan are one step per file, because the owner writes between
them. `MayTear` is a `remove_all` that fails halfway.

**SceneCollection**, **ImportReport**, **ObsCollections**. `SceneCollection` is
`parse_obs_source_entries` with an action per kind of token: a stack of objects, a stack of arrays,
the entries, and `pending`, the filters whose parent has no name yet. `ImportReport` has what
`import.load`, `import.report` and `host.exerciseTccPrompts` make of the entries: `ImportMap`, the
items of the report by the branches of `build_report` in their order, and the prompt sources. An id
is what `build_report` joins it from: `Parts` are the parts that the colons of a name separate, each
with the numbers behind it, so that filter `G` of source `A:F` and filter `F:G` of source `A` get
one id, and `one.lua-2` that of the second `one.lua`. Prompt sources are made one try after the
other: `CreateFails` and `CreatePrompt` are what a try may give, `Handle` what is held of it,
`GiveUp` the end of the tries; `obs` counts what libobs has, separately from the handles, and
`Released` undoes each handle by what was asked for it. `RefuseLoad` are the error answers of
`import.load`, which leave the prompt sources of earlier requests as they are. `ObsCollections` says
which collections are considered (`Saved`), writes each as the tokens that the walk is given
(`CollectionText`), and lists its entries from the tree (`CollectionHolds`). These collections are
sources with filters, transitions and scripts, each with settings or without; a `groups` array,
global audio devices and other members of a file are not among them, and what a source holds besides
its filters is represented by one nested member (`Clutter`).

**HostServer**. `server` and `main` are the two threads; without the Qt lane main waits at "join"
while `run` is on its stack. `wire` is what the server would read next: nothing, a handshake, a
message, half of one, or the end. A recv or a send without a timeout is a point of its own:
"handshake" and "rest" (of a message) on the way in, "blocked" (an answer) and "held" (a tick's
event or a heartbeat) on the way out, which only the client can end (`Send`, `Drain`, `Leave`). A
handler may throw, which ends the run (`Handled`). `WriteTemp` and `ReplaceFile` are the two halves
of a state file write; the stream is not looked at after the first, so every write may come out
short. `StartEngine` may also stay in a user module for ever ("hung"). `cef` is how far the
initialisation of CEF is: the first browser source asks the event loop for it and waits
(`AsksForCef`, `InitializeCef`); later ones find it done.

## Runs and what they show

A passing run is the exhaustive check of one instance; each property of it has a mutant in
`PROJECT.json` that the same run refutes.

**sentinel** (293,456 states). Two modules, four boots, any manifest retries, every kind of write
failing and a kill at any step. `CrashesBounded`: a module ends the process from its load at most
once, plus once per fresh retry. `Attribution`: whichever module ended the last process, the file
holds it responsible until the next boot has resolved it. `WatchdogExclusive`: main and watchdog
never write the temporary file at once, and the deadline fires on the module that runs.
`ImplementsContainment`: every boot is a behaviour of `LoadContainment` (`trust` is the verdict of
the file, the open record included). `LoadPhaseEnds`: once the candidates are selected, the loads
end, by the final record or by the end of the process, except for a module that hangs in the
classification probe, which runs after `disarm()`. The post-load hooks, which come after the final
record, are not covered by it: they have no bound, and the model lets them hang for ever.

**output** (11,840 states). Configure, start, stop and ticks in every order, with every stage of
`start_live` failing, the ingest peer leaving and libobs ending the output between any two steps.
`IdleIsClean`: no end of a session leaves a socket, libobs object, key or hard mute.
`RunningHasSink`: when an iteration is over, a controller that reports `running` has a sink,
although a failed restart leaves `running_` set until the tick. `NoStaleStop`: the stop signal of a
released output never ends its successor. `TruthfulEnd`: `output.stopped` is sent for a clean end
only, although the code and the flag are two stores. `DeadSinkEnds`: a dead sink ends the session,
or the client leaves and nothing ticks until the next one. A client that stops in the middle of a
frame, or stops reading, and stays holds the thread that ticks, and the property names it as its
exception (`HeldByClient`).

**renderer** (18,928 states). Every verb with every libobs call failing, and overlays that share the
ids of sources. `MirrorWithinModel`: the bookkeeping has no source that the model denies, and none
of another kind; that libobs itself may keep one is the finding of `renderer_ghost`. `ItemsAlive`:
an item that the bookkeeping hands to libobs belongs to a present scene object and a present source.
`SuppressionReported`: what is muted, hidden or disabled of the objects in the bookkeeping is listed
so.

**record** (342,807 states). Clients that come and leave at any byte, frames of every form of a
length, masked or not, of text and other kinds, whole messages, fragments and frames with a reserved
bit, cut anywhere by the network, files that cannot be opened. `ImplementsCalls`: read by the
standard, the bytes of both directions are a behaviour of `ControlCalls`: nothing is taken twice,
half a request does nothing, an event follows its own reply, and nothing of one connection is seen
on the next. A fragment is answered at once, and `ControlCalls` says so: the standard has the host
wait for the rest. `FilesMatchSessions`: a file that one recording alone was started in begins with
its header, holds the frames its session reports, and has a trailer exactly if the session was
stopped. A destination shared by two sessions is outside of the property: the code lets both write
it. `AnnouncedAreWhole`: each replay segment that `replay.saved` announced is a whole buffer. Both
assume that a file that was opened takes its writes. `TypeOK` is the type invariant.

**host** (31,556 states). Both lanes, two clients that stop anywhere and need not read, handlers
that throw, signals and kills at any moment, bind and rename failing, writes that come out short,
browser sources, a start that hangs, and a second start over the old files. `StateFileTruthful`: if
what is in place comes from this start's write of "ready", clients can connect or a stop was asked
for; if it comes from that of "stopped", none can. `CleanExit`: exit 0 means that the write of the
end was put into place, short or whole, and that the engine is down. What a probe reads may be cut
or empty; see the [disagreements](#findings). `BrowserCallsReturn`: a control thread that waits for
CEF gets its answer, although the loop that gives it may be quitting. `StopIsHonoured`: a stop ends
the process, except where the code has no way to: a client that holds the server for ever in a recv
or a send (`HeldByClient`), and a module that never returns from the start of the engine.

**import** (4,952,262 states). Two collections, one of them unreadable, and a backup beside them,
with credentials that the net finds and that it does not; two imports; two edits anywhere in them; a
`remove_all` that fails halfway; a kill anywhere. `NoSecretImported`: no imported collection holds a
credential that is a raw string, whatever was edited in, and none holds one of any type if the owner
edited once at most. With two edits a credential that the net does not find (a number, a nested
value, or anything after a token that does not parse) can pass: it comes after the scan and is gone
before the second digest. The backups are outside of the property: they are copied as they are.
`OneEditIsSeen`: what was imported while the owner edited once at most is the redacted tree of the
first digest; two edits that undo each other are not told apart. `ReportDescribesImport`: the cached
report and the map describe the text that was imported. `PriorKept`: an import that fails, is
refused or is killed before its checks have passed leaves the import it found; after that the old
one is removed before the new one is renamed.

**plugin_plan** (2,271,632 states). Launches from the manifest on: every selection and exclusion
over two names, notes at and beyond the depth limit, and six texts with each token removed, doubled,
replaced or the rest cut off; then up to three candidates of three names, in every order, with every
kind of file and every outcome of a load. `AcceptedAsMeant`: a text is accepted exactly if the
grammar derives it and the schema has no fault to find in it, and then the manifest is what it says.
`RefusedForCause`: the code of a refusal of JSON is a fault that the text has; a text that is not
JSON is refused as such, or for a fault that stands before the place where it breaks, with JSON in
front of it: a key that comes again, a list with something that is no ref, a root that is none.
`BootFollowsManifest`: nothing excluded, unselected, or of a refused launch is opened.
`OnlyFirstCopyOpens`: of the copies of a ref, only the first of the scan is opened.
`CreditedToOwner`: a type is credited to the module whose load registered it. `NothingDropped`: the
frozen report says of every candidate that is not loaded why.

**collection** (1,327,956 states). 176 collections, whole and beheaded, with one order of the keys
and mixed ones, and with names that hold colons; loads, refused loads, reports and exercises, three
in a row, with and without loaded plugins. `WalkFaithful`: with one order of keys the walk finds
exactly what the tree holds, each entry with its settings and its parent; with mixed orders exactly
those entries that do not repeat the name and the id of the one before, in their order.
`EveryEntryAccounted`: each entry that the walk kept is an item of the report, with one order of
keys that is everything the collection holds, and no two items share an id as long as no name holds
a colon and no script ends in a number (`PlainNames`). `MapCoversReport`: what the report calls
missing has a placeholder under the same id, and nothing else has one but the sources of
`OnlyInMap`, where the map does not mirror the report; and a source that a loaded plugin backs has
the name of its module, unless its id is one of OBS. The map names no module for transitions, for
filters of a source and for sources whose settings need a migration. `ImportDefersPrompts`: when an
import has succeeded, nothing that an earlier request activated is active, also not what stayed
inactive when it was asked for. A refused import is answered before the release, and leaves it.
`TypeOK` also says that no index of the walk is outside of what it found.

**capture** (1,238 states). Three captures in every order against callbacks at any time.
`AnswersItsOwn`: an answer is made of frames of what was asked for, delivered during its own
capture. `GrabOutlivesCallbacks`: no callback runs on a stack frame that returned. `CapturesEnd`:
every capture is answered.

Three runs refute one statement each: `sentinel_post_load_loop`, `renderer_ghost` and
`collection_drop`; they are the [findings](#findings).

## Bounds

Every bound is a constant or a set in a `.cfg`.

- *sentinel*: two modules, because what one module can do to another is to leave the open record
  that the next boot promotes, to fill the file, or to be passed over. `MaxBoots = 4` is one boot to
  crash, one to refuse, one with a retry, and one with the retry spent. `MaxEntries = 3` and
  `MaxSuspects = 2` stand for `kMaxSentinelBytes` and `kMaxSuspects`, small enough to be
  exceeded, so that refused files occur.
- *output*: two ids and two keys are a mismatch each, and a key that outlives its session.
- *renderer*: two scenes (program and other; reloaded and kept) and one source. Verbs on different
  sources touch each other's state only through a scene, and the theorems hold for any number of
  both. Symmetry is sound there: ids are only compared and no liveness is checked.
- *record*: two recordings, a replay buffer and two destinations; `MaxSessions = 2` of the three
  exist at once, because a recording and a buffer share nothing and two recordings share at most a
  file; `MaxSaves = 2` gives a save after a save. A byte has two values (`Base = 2`), `Plain = 2` is
  the first length that is not written in seven bits and `LongDigits = 3` the longest form, so that
  texts of one to four bytes need all three forms and stand on both sides of both limits; a mask of
  two bytes is applied cyclically to them. `MaxFrames = 2` frames are in flight when a client asks
  again, and unusual ones (`MCFirstBytesOf` lists the first bytes: last fragments, first fragments,
  reserved bits, controls), or several at once, are explored while there is no session
  (`ProbedSessions = 0`): how a frame is read does not depend on the sessions. Symmetry is sound:
  ids and destinations are only compared, and no liveness is checked.
- *host*: two clients (the one served and the one waiting), `MaxBoots = 2` (a start over the files
  of the last).
- *import*: the second collection is listed and refused, the third file is no `.json`; `MaxLoads =
  2` is an import in the place of an import; `MaxEdits = 2` is an edit and its reversal, which is
  the case that a digest cannot see; `MaxKills = 1` is a restart over the workspaces left behind.
- *plugin_plan*: three candidates are a duplicate pair and an unrelated one. Names are a selected
  one, another one and one that is not portable; one of the two types is portable. `MaxDepth = 3`
  and `MaxTokens = 42` stand for the limits of the scanner, and texts beyond both occur; the texts
  have every key of the schema, members in several orders, unknown values of several depths, and
  each fault as the change of one token.
- *collection*: two sources next to each other are what the walk can confuse; every id that a branch
  of the classification names stands for those that all branches treat alike, and two are of no
  vocabulary. `MaxRequests = 2` is two requests after the first, as an import after an exercise
  after an import. The loaded types are none, or one of each kind, of which one has an id of OBS.
- *capture*: two sources, so that the tap may have served the other; a window of 3 with chunks of 1
  and 2, so that it is met and overshot; three captures, so that a late frame of the first meets the
  second and third.

`CHECK_DEADLOCK FALSE` is set where the modelled system stops: the last boot of the sentinel run has
ended, the host has exited for the last time, the plugin report is frozen, the last capture is
answered, the last request on a collection is. The other runs check deadlock.

## Fairness

- *sentinel*: `WF(MainStep)`, because the loader is straight-line code that only a module can keep,
  and a module that keeps it is its own point (`hung`, `stuck`, `wedged`) without a main step;
  `WF(WatchdogStep)`, because the thread polls every 50 ms and an armed deadline passes. Modules are
  never assumed to return: a hang in a load, the probe or a hook is a step, and what follows it is
  not a main step.
- *output*: `WF(Tick)`, because `handle_client` ticks after every message and at least every 200 ms;
  `Tick` is enabled only while the thread is its own. A client that holds it in a frame or a send is
  assumed neither to go on nor to leave; it is the exception of `DeadSinkEnds`. `WF(EndRaised)`,
  because the signal handler consists of two stores. Nothing assumes that an output ends, a client
  asks or a peer closes.
- *host*: `WF` of the two threads, and of nothing else. What a client or a module must do is not a
  step of theirs: the rest of a message, the end of a blocked send and of a hung start belong to the
  environment. A handler that calls neither is assumed to end, and so is `initialize()` of CEF.
- *capture*: `WF` of the control thread, whose wait is bounded by five seconds, and of a callback
  that is inside; `SF(Detach)`, because the removal waits for the lock libobs takes for each frame
  and which is free between two frames, so it is enabled again and again rather than for ever.

## Proofs

The eight `*Proofs` modules are checked by TLAPS from nothing but the `ASSUME`s of the modules they
extend: that the "none" values are distinct from the values they stand beside, that bounds are
naturals, that each subset is one, that a message has a size which its length can carry
(`SizesAssumption`), that a first byte is a number (`FirstBytesAssumption`), that a ref is no other
token (`RefsAreRefs`: it begins with `module:`), that a text is a sequence of tokens
(`TextsAssumption`), that names are told apart by their parts (`PartsAssumption`), and that the
scene collections are files that OBS saved, in the shape of `Saved`: it names each source once, each
transition once and each filter of a source once, an id is registered for one kind of object
(`CollectionsAssumption`), and a file is the whole text of its collection or has lost the first
brace (`FilesAssumption`). No theorem assumes that a set is finite or small, and none uses fairness.
Each has an `InductiveInvariant` (a strengthening `IInv` that the initial states satisfy and that
every step keeps, one proof step per action) from which the others follow.

- **PluginSentinelProofs**. `CrashesBounded` is not inductive: it needs a ledger. `CrashesPaidFor`
  says that a module has ended at most as many processes as it had fresh retries, plus one if the
  durable state *owes* that end, that is, holds it responsible; a crash is only possible while it
  owes nothing (`CandidatesAreClear`, `OpenRecordNamesClear`) and makes it owe. That needs
  `MemoryMatchesFile` (each write repeats the resolution made at launch) and `WatchdogCoversLoad`.
  `NoUnattributedLoad` (`LoadsAreAttributed`), `SuspicionIsDurable` and `OnlyCulpritsSuspected`
  (with no kill and no failing final record: its hypothesis) are proved only.
  `ContainmentImplemented` is the refinement: initial states map to initial states and each step to
  a step or a stutter.
- **OutputControllerProofs**. The strengthening says how the flags follow the signals: a raised stop
  flag of a live session belongs to its own output, which ended with the code that is stored. Proved
  only: one sink at most, and a live one complete (`SinksExclude`); that no libobs service outlives
  a cleared key and no released fallback scene is shown (`KeysAndStops`); and that a live output
  comes to be only with the launch flag and the configured one (`LiveNeedsBothGates`).
- **RendererMirrorProofs**. The three state properties together are inductive: what the bookkeeping has
  of a source is listed, its item is in a live scene object, and what is suppressed is reported; each
  verb needs all three of the source it touches. A refusal needs that `restore_replaced` gives back
  what was there (`Restored`).
- **HostProofs**. The strengthening relates the point of main to the point of the server (`Lanes`),
  both to the write that each of the two files comes from (`Disk`), however much of it arrived, and
  to the client that is held (`Holding`), by a run that a handler threw out of as well. Proved only:
  a client is held only while the engine is up (`EngineIsUpWhileServing`), at most one message is
  handled after a stop (`StopIsSeen`), and a wait for CEF is one that the event loop still serves
  (`CefIsPumped`). Of FrameCapture, the strengthening `CaptureIInv` ties what is attached, entered
  and held to the capture under way.
- **ImportCustodyProofs**. A request under way that passed the net has no raw string credential in
  the collections of its temporary workspace (`Underway`), and no import is of a later run of the
  host; for any number of edits and restarts, and whatever the net finds. A second strengthening,
  `WInv`, says what a request has seen: while its digest still fits and there was one edit at most,
  every override and every copied file is the redaction of what was digested (`EditsAreSeen`),
  backups as they are, and until the checks have passed the last import is where it was found
  (`PriorIsKept`). `ImportsAreRedacted` takes the raw strings from the first and, for one edit at
  most, credentials of any type from the second.
- **PluginPlanProofs**. The strengthening is what the plan and the refusals have granted so far.
  Proved only: whatever is opened was selected and refused by none of the four that may refuse
  (`OpeningIsGranted`). `LaunchInvariant` carries it over to the composition with the parser: what
  the parser has read when it accepts is the policy of the boot, whatever the text
  (`ManifestRules`).

  The second half is about the language of the manifest, for texts of any length and depth:
  `AcceptanceMeansIt` (an accepted text is derived by the grammar, has no fault, and means what was
  read) and `RefusalHasACause` (a refused one has the fault it is refused for: if it is JSON one of
  the faults of the whole text, if not, that it breaks, or a fault that stands before that place).
  Neither is inductive, because a fault may be found in the first member of a text whose end was
  never read. `LanguageInv` is the strengthening: wherever the scanner stands, `Scanned` says what
  it has passed. The members read so far are those of the text up to there, their keys are the keys
  seen, what was read is what they mean, and between each open bracket and the scanner there are
  whole items (`Within`). It rests on three groups of lemmas. The grammar is recursive over spans;
  it has a solution, the least one (`GrammarSolved`), and its spans nest as their brackets do, so
  that a value has one end. `skip_value` computes that end, or gives up exactly where the text is no
  value or is too deep (`SkippedIs`); the proof is an induction over what is left of the text, over
  the depth, and over the items behind a comma. And each branch of the parser, one lemma per action,
  adds exactly one member or element to what was scanned, or finds a fault that no continuation can
  mend.
- **ImportReportProofs**. For every collection: the indices of open objects and pending filters are
  those of entries (`TypeCorrect`), an entry that was found keeps its name, kind, settings and
  parent once it has them (`WalkKeepsWhatItFound`), no entry is without an item
  (`NothingIsDropped`), the map and the report differ by `OnlyInMap` alone (`MapCovers`), and libobs
  has as many prompt sources as are held and as many active ones as handles are `"activated"`,
  through refused loads as well, so that a release leaves none (`PromptsAreDeferred`).

  The second half is about what the walk finds, for collections of any size (`WalkIsFaithful`). The
  steps of the walk are those of a function of the state and the token (`StepOf`; one lemma per
  action), so at the end of the text the walk is where the course of that function is: `Traced` is
  the invariant. What remains is what the function does over the text of a collection. `Lists` says
  it of a part of a text: whatever was found before, the part adds the entries of what it holds, one
  by one and without those that repeat the entry in front of them (`Adds`), and leaves the objects
  and arrays that are open as they were. The proof goes up the tree: the members of an object, an
  object, the objects of an array (`Joined`, by induction over their number), the collection
  (`WholeFound`, and `BeheadedFound` for a file without its first brace). The hard part is a source
  whose filters are written before its name: they are in the list without a parent and wait
  (`Waiting`), until the name closes and gives it to them and to no filter of another source
  (`Patching`). Nothing is lost when the keys have one order because there no entry repeats the one
  in front of it (`OneOrderDiffers`). With mixed orders `AddsExact` says which entries are there:
  `Fresh` ones, that is those that do not have the name and the id of the entry before them, each at
  the place that the number of fresh ones up to it gives (`Taken`).

  The same course gives `EveryEntryIsAccounted`. Under `PlainNames` the id of an item shows its
  entry (`ItemShows`), so two entries go by one id only if they share kind, parent and name
  (`IdsDiffer`; scripts may share a file name and are told apart by a count); it holds where names
  are distinct (`AccountedFor`), and they are, because what a collection holds has names of its own
  (`HoldsApart`), which adding keeps (`AddsApart`), and no report is made before the walk is over
  (`ReadThrough`).
- **RecordSessionProofs**. `FilesMatchSessions` needs that a session *wrote* its file: its id is
  among the writers of it, and a file with one writer holds nothing but what that session put there
  (`OwnFiles`). `AnnouncedAreWhole` needs that a buffer is full while it runs (`BuffersFull`). Both
  for any ids and destinations, any interleaving of clients, and any form of the frames.
  `CallsImplemented` is the refinement of `ControlCalls`. Its invariant `Wired` says that what each
  side has written and the other has not read is a chain of whole frames while the client is there
  (`Framed`), or the beginning of one after it left; that the host has no byte beyond the frame it
  is reading (`NoMoreThanFrame`), which each `Receive` keeps because it asks for what is missing of
  one field; and that the frames spell nothing but requests (`Spoken`). The lemmas under it go from
  bytes to messages: the digits of a length make the length again, in each form and for every base
  (`DigitsMakeNumber`); a frame depends on its own bytes only (`SameFrame`); behind whole frames the
  reading starts anew (`FramesJoin`), and the loss of the end takes the last frames
  (`FramesOfPrefix`); a frame of the host and one of a client, masked or not, are one frame with the
  payload that was put in (`TextFrameIs`, `ClientFrameIs`); and when `read_text_frame` wants no
  more, what it has is exactly one frame, which it takes for what the standard does (`WholeIsOne`),
  except that a part is answered like a message. The induction theorems of the library take
  operators, so the recursions are solved by an induction over sets of naturals (`SetInduction`).

Model-checked only are the liveness properties (`LoadPhaseEnds`, `DeadSinkEnds`, `StopIsHonoured`,
`BrowserCallsReturn`, `CapturesEnd`), which are beyond the prover. Every invariant that a run checks
is proved.

## Findings

Each is a run that refutes what the repository says of itself.

1. `sentinel_post_load_loop`: `obs_post_load_modules` runs after the final idle record and without
   the watchdog. A module that aborts there ends every boot and is never named.
2. `renderer_ghost`: loading the program scene again drops the bookkeeping of its items without
   removing them, and output source 0 keeps the old scene object; a source removed afterwards goes
   on rendering, which is what the comment on `release_obs_source` warns of.
3. `collection_drop`: the walk takes an entry for a repetition when the one before it has its name
   and its id, whatever their parents. With mixed orders of the keys the last filter of a source and
   the first of the next one meet, and the second of two equal ones is in no report.
   `tests/integration/test_import_parity.py` says that no scene-collection entry silently drops, and
   the walk means to read files in any order of keys ("JSON key order is not a contract").

Other disagreements between the code and its words are hazards without a run of their own:

- The replacement of the state file is atomic, its content is not: `README.md` of the repository
  lists "atomic state-file writes for supervisor probes", but the stream is not looked at after the
  write, so a full disk puts a cut or empty file into place, and the host goes on, and may exit with
  0. The host run has these writes.
- The comment on `write_import_map` says that it mirrors the report exactly. Sources of a device or
  another platform whose id is in no vocabulary of upstream (`xshm_input_v2`, the pipewire ids,
  `aja_source`) and `third_party_camera_fx` with its plugin loaded have a placeholder, while the
  report calls them a missing device, or mapped. `MapCoversReport` holds exactly up to these.
- Report ids are not unique, although a comment on the numbering of scripts says that they stay so:
  a name with a colon, or a script whose name ends in a number, may give an id that another entry
  has.
- No copy of a collection may carry secrets into the workspace, says the comment on the scan; the
  backups that OBS keeps beside a collection do not end in `.json` and are copied as they are.
- The result of the final idle write is ignored (`build_user_plugins_boot_report_json`): if it
  fails, the next boot suspects a module that loaded well.
- Re-creating a browser source releases the old one before `obs_scene_add`: when that fails the verb
  is refused and the model restored, but libobs has lost the source.
- A plugin that registers an id of OBS is reported as mapped by the plugin, but the map names no
  module for it.

And one with a standard that the repository does not cite for it: FIN and the reserved bits of a
frame are ignored, so that each fragment of a request is answered, and a first one that spells a
request is carried out.

## What is not modelled

- *Straight-line conversions*: the lookups of members in a JSON text, PNG, SHA-256, header parsing.
  They keep no state between calls; unit tests reach them. A text is what it says, and in the two
  parsers that are modelled a token is whole: escapes, digits and white space are left out.
- *Rasterisation*: of overlays and of the scene frame of the scaffold.
- *Statistics* of the output and their subscription, which feed no decision; the smoke programs, the
  test modules, packaging.
- *Parts of the connection*: the handshake is one action, although the code takes what one `recv`
  returns for all of it; a send is whole, blocks, or the client is gone, as `send_all` makes it.
- *Engine start* is one step (`StartEngine`), with its failure and the hang of a module; a start
  that fails leaves libobs and the directory of the module configuration behind, and the process
  ends.
- *libobs* is modelled from the way the code uses it: which calls fail, that releasing an output
  joins its thread and signals the end of an active one, that removing a callback waits for one that
  runs, that an output source keeps a scene alive. Threads of libobs that change no state of the
  host are left out.

What the models simplify: a recording or segment file that was opened takes every write (the code
does not look at those streams either); the digest of a config directory is one step, and the last
import is removed at once before the rename; a file that cannot be read is copied as an empty one
where the scan has replaced it, and fails the copy otherwise; a module whose open failed registers
no types; `source.update` and `item.transform` change the model only, because the code tells libobs
nothing there; the mutex of the capture requests is not a variable, because one control thread makes
them all. Time is order: a deadline passes or does not.

## Plan

The modules were written in this order: sentinel, output, renderer, record, host, import, plan,
capture; then the walk and the report of an import, the manifest and its launch, the frames and the
calls of the recording verbs, CEF, and the overlays. What would add most next:

1. *Compose.* `ProgramOutput`: RendererMirror with OutputController on output source 0, where the
   fallback scene replaces the program and its end unbinds it. `ControlLoop`: HostServer with
   OutputController, so that a stop in the middle of a session meets the tick.
2. *Abstract.* `OneSession` (what an output session promises) and `StateFile` (what a probe may
   read), each implemented by its module.
3. *Prove.* What these promise, from the invariants that the components have.
