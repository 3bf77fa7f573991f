---------------------------- MODULE ImportReport ----------------------------
(***************************************************************************)
(* What ObsImporter makes of the entries of a collection: import.load      *)
(* analyses them, writes the import map, builds the report and creates the *)
(* sources that will ask for permissions; import.report builds the report  *)
(* alone, unless one is cached (ImportCustody).  Map and report each       *)
(* classify every entry on their own, and the map claims to mirror the     *)
(* report.                                                                 *)
(***************************************************************************)
EXTENDS SceneCollection

CONSTANTS
  Parts,        \* of a name, the parts that its colons separate: [text, numbers behind it]
  Unplugged,    \* labels in which "Unplugged" occurs
  Migrating,    \* settings with a plugin_settings_version that is not 1
  LoadedTypes,  \* the type maps that boot may have left: [sources, filters, transitions]
  MaxRequests   \* bound of the exploration: requests after the first

Prefixes == {"scene", "source", "filter", "transition", "script"}
NameParts == Seq([text : STRING \cup Prefixes, numbers : Seq(Nat)])

\* A name is its parts, joined with colons: "cam-2" ends in the number 2.
ASSUME PartsAssumption ==
  /\ Parts \in [Strings -> NameParts]
  /\ \A s \in Strings : Parts[s] # <<>>
  /\ \A s, t \in Strings : Parts[s] = Parts[t] => s = t
ASSUME RequestsAssumption == MaxRequests \in Nat

VARIABLES
  types,      \* user_plugin_types_: frozen at boot
  request,    \* "load", "report" or "exercise"; "refused" is a load answered with an error
  stage,      \* how far the request is
  map,        \* streammate-import-map.json: placeholders, and modules that back a source
  report,     \* the report: an item per entry, or None where nothing was pushed
  handles,    \* prompt_sources_: of each source that is held, "activated" or "idle"
  asking,     \* the loop over the sources to ask with: [next, tried : ids of its class]
  obs,        \* libobs: private sources alive, and references that make one active
  requests    \* number of requests so far

results == <<map, report>>
prompts == <<handles, asking, obs>>
vars == <<walk, types, request, stage, results, prompts, requests>>

-----------------------------------------------------------------------------
(* The vocabularies: of ids that every test treats alike, one is named.    *)

upstream_source_ids ==
  {"scene", "group", "color_source", "vlc_source", "av_capture_input", "coreaudio_input_capture",
   "screen_capture", "window_capture", "syphon-input", "xshm_input"}
upstream_filter_ids == {"color_filter"}
upstream_transition_ids == {"fade_transition"}
mapped_native_source_ids == {"color_source", "group"}
screen_permission_source_ids == {"screen_capture", "window_capture"}
camera_permission_source_ids == {"av_capture_input"}
device_backed_source_ids == {"syphon-input", "aja_source"}
other_platform_source_ids == {"xshm_input", "xshm_input_v2"}

\* prompt_source_class
PromptClass(module) ==
  CASE module = "av_capture_input" -> "camera"
    [] module = "coreaudio_input_capture" -> "microphone"
    [] module = "screen_capture" -> "screen"
    [] OTHER -> "none"

\* exercise_source_ids: how many ids are tried for a class.
ExerciseIds == [camera |-> 1, microphone |-> 1, screen |-> 2, none |-> 0]

-----------------------------------------------------------------------------
(* Classification                                                          *)

\* plugin_disposition
Disposition(e) ==
  IF e.module \in {Empty, "scene"} \cup upstream_source_ids THEN "none"
  ELSE IF e.settings \in Migrating THEN "migration"
  ELSE IF e.module \in types.sources THEN "mapped_source"
  ELSE IF e.module \in types.filters THEN "mapped_filter"
  ELSE "missing"

Prefixed(prefix, parts) == <<[text |-> prefix, numbers |-> <<>>]>> \o parts

\* The id of an item: the label behind a prefix, of a filter with its parent.
ItemId(prefix, e) ==
  Prefixed(prefix, IF e.kind = "filter" THEN Parts[e.parent] \o Parts[e.label] ELSE Parts[e.label])

Item(id, bucket, reason) == [id |-> id, bucket |-> bucket, reason |-> reason]

Reasons ==
  {"mapped_native", "mapped_plugin", "missing_plugin", "settings_migration_required",
   "permission_required", "missing_device", "dependency_missing",
   "unsupported_frontend_feature", "unsupported_plugin_class"}

ItemTypes ==
  [id : NameParts, bucket : {"mapped", "degraded", "unresolved"}, reason : Reasons]

ASSUME NoneAssumption == None \notin ItemTypes

\* A transition, or a nested filter: native, loaded or missing.
Replaceable(prefix, e, native, loaded) ==
  IF e.module \in native THEN Item(ItemId(prefix, e), "mapped", "mapped_native")
  ELSE IF e.module \in loaded THEN Item(ItemId(prefix, e), "mapped", "mapped_plugin")
  ELSE Item(ItemId(prefix, e), "degraded", "missing_plugin")

PermissionItem(e) ==
  Item(ItemId("source", e), "degraded",
       IF e.module \in camera_permission_source_ids /\ e.label \in Unplugged
       THEN "missing_device" ELSE "permission_required")

\* Mutant of SourceItem: an upstream id that no branch names is passed over.
SourceItemNamed(e) ==
  IF e.module = "scene" THEN Item(ItemId("scene", e), "mapped", "mapped_native")
  ELSE IF e.module \in mapped_native_source_ids THEN Item(ItemId("source", e), "mapped", "mapped_native")
  ELSE IF Disposition(e) = "missing" THEN Item(ItemId("source", e), "degraded", "missing_plugin")
  ELSE None

\* Any other source, by the branches of build_report in their order.
SourceItem(e) ==
  IF e.module = "scene" THEN Item(ItemId("scene", e), "mapped", "mapped_native")
  ELSE IF e.module \in mapped_native_source_ids THEN Item(ItemId("source", e), "mapped", "mapped_native")
  ELSE IF Disposition(e) = "migration"
    THEN Item(ItemId("source", e), "degraded", "settings_migration_required")
  ELSE IF e.module \in types.sources THEN Item(ItemId("source", e), "mapped", "mapped_plugin")
  ELSE IF e.module \in types.filters THEN Item(ItemId("filter", e), "mapped", "mapped_plugin")
  ELSE IF e.module \in camera_permission_source_ids \cup {"coreaudio_input_capture"}
                       \cup screen_permission_source_ids THEN PermissionItem(e)
  ELSE IF e.module \in device_backed_source_ids \cup other_platform_source_ids
    THEN Item(ItemId("source", e), "degraded", "missing_device")
  ELSE IF e.module = "vlc_source" THEN Item(ItemId("source", e), "degraded", "dependency_missing")
  ELSE IF e.module = "third_party_camera_fx" \/ Disposition(e) = "missing"
    THEN Item(ItemId("source", e), "degraded", "missing_plugin")
  ELSE IF e.module # Empty THEN Item(ItemId("source", e), "degraded", "unsupported_frontend_feature")
  ELSE None

\* Scripts of one file name are numbered.
Numbered(parts, n) ==
  IF n = 1 THEN parts ELSE [parts EXCEPT ![Len(parts)].numbers = Append(@, n)]

ScriptItem(i) ==
  LET twins == {j \in 1..i : entries[j].kind = "script" /\ entries[j].label = entries[i].label}
  IN  Item(Prefixed("script", Numbered(Parts[entries[i].label], Cardinality(twins))),
           "unresolved", "unsupported_plugin_class")

ReportItem(i) ==
  LET e == entries[i]
  IN  IF e.kind = "script" THEN ScriptItem(i)
      ELSE IF e.kind = "transition"
        THEN Replaceable("transition", e, upstream_transition_ids, types.transitions)
      ELSE IF e.kind = "filter"
        THEN Replaceable("filter", e, upstream_filter_ids, types.filters)
      ELSE SourceItem(e)

-----------------------------------------------------------------------------
(* write_import_map, with what analyze_custody found                       *)

\* Mutant of Placeholder: filters are not looked at.
PlaceholderUnfiltered(e) ==
  \/ /\ e.kind = "transition"
     /\ e.module \notin upstream_transition_ids \cup types.transitions
  \/ e.kind = "source" /\ Disposition(e) = "missing"

\* The entries that the map declares to be placeholders.
Placeholder(e) ==
  \/ /\ e.kind = "transition"
     /\ e.module \notin upstream_transition_ids \cup types.transitions
  \/ /\ e.kind = "filter"
     /\ e.module \notin upstream_filter_ids \cup types.filters
  \/ /\ e.kind = "source"
     /\ \/ Disposition(e) = "missing"
        \/ e.module = "third_party_camera_fx" /\ Disposition(e) # "migration"

PlaceholderId(e) == ItemId(e.kind, e)

\* The entries for which the map names the module of a user plugin.
Backed(e) == Disposition(e) \in {"mapped_source", "mapped_filter"}

Found == {entries[i] : i \in DOMAIN entries}

ImportMap ==
  [placeholders |-> {PlaceholderId(e) : e \in {f \in Found : Placeholder(f)}},
   modules |-> {e.label : e \in {f \in Found : Backed(f)}}]

WriteMap ==
  /\ stage = "walk" /\ Walked /\ request = "load"
  /\ map' = ImportMap
  /\ stage' = "mapped"
  /\ UNCHANGED <<walk, types, request, report, prompts, requests>>

BuildReport ==
  /\ \/ stage = "mapped"
     \/ stage = "walk" /\ Walked /\ request = "report"
  /\ report' = [i \in DOMAIN entries |-> ReportItem(i)]
  /\ stage' = IF request = "load" THEN "reported" ELSE "done"
  /\ UNCHANGED <<walk, types, request, map, prompts, requests>>

-----------------------------------------------------------------------------
(* Sources that make the system ask for a permission                       *)

Activated(held) == Cardinality({i \in DOMAIN held : held[i] = "activated"})

\* release_prompt_sources: what was activated is deactivated, every source released.
Released == [alive |-> obs.alive - Len(handles), active |-> obs.active - Activated(handles)]

AskAnew == handles' = <<>> /\ obs' = Released /\ asking' = [next |-> 1, tried |-> 0]

\* The sources to ask with, by how many ids are tried: one per entry of a class,
\* or one per class.
Asked ==
  IF request = "load" THEN [i \in DOMAIN entries |-> ExerciseIds[PromptClass(entries[i].module)]]
  ELSE <<ExerciseIds.camera, ExerciseIds.microphone, ExerciseIds.screen>>

NextAsked == asking' = [next |-> asking.next + 1, tried |-> 0]
NextId == asking' = [asking EXCEPT !.tried = @ + 1]
Asking == stage = "ask" /\ asking.next <= Len(Asked)
IdLeft == asking.tried < Asked[asking.next]

\* Mutant of Handle: only what became active is deactivated in the end.
HandleIfActive(activate, active) == IF activate /\ active THEN "activated" ELSE "idle"

\* The handle of a source: whether it was activated, even if it stayed inactive.
Handle(activate, active) == IF activate THEN "activated" ELSE "idle"

\* create_prompt_source gives nothing: no settings, no source, or no device.
CreateFails ==
  /\ Asking /\ IdLeft
  /\ NextId
  /\ UNCHANGED <<walk, types, request, stage, results, handles, obs, requests>>

\* create_prompt_source makes a source, activates it in an exercise, and holds it;
\* an activated one that stays inactive counts as a failure, and the next id is tried.
CreatePrompt(active) ==
  LET activate == request = "exercise"
  IN  /\ Asking /\ IdLeft /\ (active => activate)
      /\ obs' = [alive |-> obs.alive + 1, active |-> IF activate THEN obs.active + 1 ELSE obs.active]
      /\ handles' = Append(handles, Handle(activate, active))
      /\ IF activate /\ ~active THEN NextId ELSE NextAsked
      /\ UNCHANGED <<walk, types, request, stage, results, requests>>

\* No id is left for this source, or its entry asks for nothing.
GiveUp ==
  /\ Asking /\ ~IdLeft
  /\ NextAsked
  /\ UNCHANGED <<walk, types, request, stage, results, handles, obs, requests>>

\* The load or the exercise is answered.
Answer ==
  /\ stage = "ask" /\ asking.next > Len(Asked)
  /\ stage' = "done"
  /\ UNCHANGED <<walk, types, request, results, prompts, requests>>

\* instantiate_prompt_sources: sources for the entries of this collection.
InstantiatePrompts ==
  /\ stage = "reported"
  /\ AskAnew
  /\ stage' = "ask"
  /\ UNCHANGED <<walk, types, request, results, requests>>

\* exercise_tcc_prompts: one active source for each class.
ExerciseTccPrompts ==
  /\ stage = "done" /\ requests < MaxRequests /\ requests' = requests + 1
  /\ AskAnew
  /\ request' = "exercise" /\ stage' = "ask"
  /\ UNCHANGED <<walk, types, results>>

\* load returns an error, before or after the collection was parsed: no map is
\* published, and the sources of an earlier request are not released.
RefuseLoad ==
  /\ request = "load"
  /\ \/ stage = "walk" /\ (pos = 1 \/ Walked)
     \/ stage = "mapped"
  /\ request' = "refused" /\ stage' = "done" /\ map' = None
  /\ UNCHANGED <<walk, types, report, prompts, requests>>

-----------------------------------------------------------------------------
StartOver(d) ==
  /\ stage = "done" /\ requests < MaxRequests /\ requests' = requests + 1
  /\ doc' = d /\ pos' = 1 /\ stack' = <<>> /\ arrays' = <<>> /\ entries' = <<>> /\ pending' = {}
  /\ request' \in {"load", "report"} /\ stage' = "walk"
  /\ map' = None /\ report' = None
  /\ UNCHANGED <<types, prompts>>

Init ==
  /\ WalkInit /\ types \in LoadedTypes
  /\ request \in {"load", "report"} /\ stage = "walk"
  /\ map = None /\ report = None
  /\ handles = <<>> /\ asking = [next |-> 1, tried |-> 0] /\ obs = [alive |-> 0, active |-> 0]
  /\ requests = 0

Parse == Walk /\ stage = "walk" /\ UNCHANGED <<types, request, stage, results, prompts, requests>>

Ask == CreateFails \/ (\E active \in BOOLEAN : CreatePrompt(active)) \/ GiveUp \/ Answer

Next ==
  \/ Parse \/ WriteMap \/ BuildReport \/ InstantiatePrompts \/ ExerciseTccPrompts \/ Ask
  \/ RefuseLoad
  \/ \E d \in DOMAIN Documents : StartOver(d)

Spec == Init /\ [][Next]_vars

-----------------------------------------------------------------------------
(* Properties                                                              *)

\* Every variable has its type, and no index that the walk keeps, in an object
\* that is open or for a filter without a parent, is outside the entries.
TypeOK ==
  /\ WalkTypeOK
  /\ types \in LoadedTypes /\ request \in {"load", "report", "exercise", "refused"}
  /\ stage \in {"walk", "mapped", "reported", "ask", "done"}
  /\ map = None \/ DOMAIN map = {"placeholders", "modules"}
  /\ report # None => report \in Seq(ItemTypes \cup {None}) /\ Len(report) = Len(entries)
  /\ handles \in Seq({"activated", "idle"}) /\ asking \in [next : Nat \ {0}, tried : 0..2]
  /\ obs \in [alive : Nat, active : Nat]
  /\ requests \in 0..MaxRequests

\* An entry like the one just before it; a script, which has no id, is like none.
Alike(g, h) == h.module # Empty /\ g.label = h.label /\ g.module = h.module

\* The entries of a file that are not like the one before.
Fresh(holds) == {n \in DOMAIN holds : n = 1 \/ ~Alike(holds[n - 1], holds[n])}

\* The walk finds what the collection holds, with its settings and parents, in
\* the order of the text.  When all objects give their keys in one order that is
\* everything; in a mixed order it is all but the entries that have the name and
\* the id of the entry just before them, and of these nothing is left.
WalkFaithful ==
  Walked =>
    LET holds == Documents[doc].holds
        fresh == Fresh(holds)
    IN  /\ Documents[doc].ordered => entries = holds
        /\ Len(entries) = Cardinality(fresh)
        /\ \A n \in fresh : entries[Cardinality(fresh \cap (1..n))] = holds[n]

\* Names without a colon, and scripts whose file names do not end in a number.
PlainNames ==
  \A e \in Found :
    /\ Len(Parts[e.label]) = 1 /\ (e.kind = "filter" => Len(Parts[e.parent]) = 1)
    /\ e.kind = "script" => Parts[e.label][1].numbers = <<>>

\* No silent drop when all objects give their keys in one order: everything that
\* the collection holds is an entry, and every entry an item of the report.  And
\* build_report joins names to ids: as long as no name has what it joins them
\* with, no two items have the same id.
EveryEntryAccounted ==
  report # None =>
    /\ Documents[doc].ordered => entries = Documents[doc].holds
    /\ \A i \in DOMAIN report : report[i] # None
    /\ PlainNames => \A i, j \in DOMAIN report : i # j => report[i].id # report[j].id

\* test_import_parity.py: no entry of a scene collection silently drops from the
\* report.
NoEntryDrops ==
  report # None =>
    \A n \in DOMAIN Documents[doc].holds :
      \E i \in DOMAIN report : entries[i] = Documents[doc].holds[n] /\ report[i] # None

MissingIds == {report[i].id : i \in {j \in DOMAIN report : report[j].reason = "missing_plugin"}}
Mapped == map # None /\ report # None

PluginLabels ==
  {entries[i].label : i \in {j \in DOMAIN report :
                               /\ entries[j].kind = "source" /\ report[j].reason = "mapped_plugin"
                               /\ entries[j].module \notin upstream_source_ids}}

\* The placeholders of which the report says something else: of sources of a
\* device or a platform, and of third_party_camera_fx when it is loaded.
OnlyInMap ==
  {PlaceholderId(e) : e \in {f \in Found :
     /\ f.kind = "source"
     /\ \/ f.module \in device_backed_source_ids \cup other_platform_source_ids
        \/ f.module = "third_party_camera_fx" /\ Backed(f)}}

\* What the report says of a plugin the map can serve: a source, filter or
\* transition without its plugin has a placeholder under the id of the report,
\* and no other has one but those above, for which the map does not mirror the
\* report as write_import_map's comment says.  A source that a loaded plugin
\* backs has the name of its module, unless the plugin has registered an id of
\* OBS itself.  The map names no module for a transition or a filter of a source.
MapCoversReport ==
  Mapped =>
    /\ MissingIds \subseteq map.placeholders /\ map.placeholders \subseteq MissingIds \cup OnlyInMap
    /\ PluginLabels \subseteq map.modules

\* An import that succeeds defers the permissions: when it is answered nothing
\* that an earlier exercise activated is active, also not a source that stayed
\* inactive, and libobs has the sources of this import only.
ImportDefersPrompts ==
  stage = "done" /\ request = "load" => obs = [alive |-> Len(handles), active |-> 0]
=============================================================================
