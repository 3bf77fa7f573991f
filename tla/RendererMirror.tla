--------------------------- MODULE RendererMirror ---------------------------
(***************************************************************************)
(* RendererState: the scenes and sources that scene.list answers from, and *)
(* their mirror in libobs (scene objects, source objects, scene items and  *)
(* what output source 0 shows).                                            *)
(*                                                                         *)
(* Every verb runs to its end before the next; what makes the mirror hard  *)
(* is that each libobs call in the middle of a verb may fail, and that     *)
(* libobs keeps objects alive that the bookkeeping has forgotten: a scene  *)
(* that was replaced while it was the program keeps rendering its items.   *)
(*                                                                         *)
(* Overlays have a manager of their own, and no object in libobs; an id    *)
(* may be an overlay's and a source's at once, and the overlay comes first.*)
(***************************************************************************)
EXTENDS Naturals

CONSTANTS
  Scenes, Sources,  \* ids a client may name
  None,
  SceneFaults       \* BOOLEAN: obs_scene_create and the re-adding of an item may fail

ASSUME NoneAssumption == None \notin Scenes \cup Sources
ASSUME FaultsAssumption == SceneFaults \in BOOLEAN

VARIABLES
  scenes, program,  \* scenes_, program_scene_id_
  src,              \* sources_ and filters_: what the model says of each source
  obsScenes,        \* ids of obs_scenes_
  mirror,           \* obs_sources_: the libobs source of each id
  item,             \* obs_scene_items_: the item of each source in its scene object
  output,           \* id of the scene object that output source 0 shows
  orphan,           \* that object was replaced: obs_scenes_ no longer holds it
  kept,             \* the sources whose items the orphan still holds
  overlays,         \* ids that NativeOverlayManager has
  reply             \* how the last verb ended

model == <<scenes, program, src>>
libobs == <<obsScenes, mirror, item, output, orphan, kept>>
vars == <<model, libobs, overlays, reply>>

Kinds == {"browser", "plugin"}
FilterStates == {"none", "on", "off"}
SourceRecords == [scene : Scenes, kind : Kinds, muted : BOOLEAN, visible : BOOLEAN,
                  filter : FilterStates]
MirrorRecords == [kind : Kinds, muted : BOOLEAN, filter : FilterStates]
ItemRecords == [scene : Scenes, visible : BOOLEAN]

ASSUME RecordsAssumption == None \notin SourceRecords \cup MirrorRecords \cup ItemRecords

Known(x) == src[x] # None
ItemsOf(s) == {x \in Sources : item[x] # None /\ item[x].scene = s}

\* What the program output renders.
Rendered == IF orphan THEN kept
            ELSE {x \in Sources : output # None /\ x \in ItemsOf(output) /\ item[x].visible}

-----------------------------------------------------------------------------
Init ==
  /\ scenes = {} /\ program = None
  /\ src = [x \in Sources |-> None]
  /\ obsScenes = {} /\ output = None /\ orphan = FALSE /\ kept = {}
  /\ mirror = [x \in Sources |-> None] /\ item = [x \in Sources |-> None]
  /\ overlays = {} /\ reply = "none"

-----------------------------------------------------------------------------
(* scene.load and scene.setProgram                                         *)

\* purge_obs_scene_items drops the bookkeeping of s, and the sources of s that
\* libobs has are added to the new scene object, visible, except the lost ones.
Remounted(s, made, lost) ==
  [x \in Sources |->
     IF made /\ Known(x) /\ src[x].scene = s /\ mirror[x] # None /\ x \notin lost
     THEN [scene |-> s, visible |-> TRUE]
     ELSE IF x \in ItemsOf(s) THEN None ELSE item[x]]

LoadScene(s, made, lost) ==
  /\ scenes' = scenes \cup {s}
  /\ program' = IF program = None THEN s ELSE program
  /\ obsScenes' = IF made THEN obsScenes \cup {s} ELSE obsScenes \ {s}
  /\ item' = Remounted(s, made, lost)
  /\ IF output = s /\ ~orphan
     THEN orphan' = TRUE /\ kept' = ItemsOf(s)
     ELSE UNCHANGED <<orphan, kept>>
  /\ reply' = "ok"
  /\ UNCHANGED <<src, mirror, output>>

\* A scene without a scene object becomes the program of the model only.
SetProgram(s) ==
  /\ s \in scenes
  /\ program' = s
  /\ IF s \in obsScenes
     THEN output' = s /\ orphan' = FALSE /\ kept' = {}
     ELSE UNCHANGED <<output, orphan, kept>>
  /\ reply' = "ok"
  /\ UNCHANGED <<scenes, src, obsScenes, mirror, item>>

-----------------------------------------------------------------------------
(* source.create and source.remove                                         *)

\* Mutants of Released: the source object stays, or the item does.
ReleaseItemOnly(x) == item' = [item EXCEPT ![x] = None] /\ UNCHANGED mirror
ReleaseSourceOnly(x) == mirror' = [mirror EXCEPT ![x] = None] /\ UNCHANGED item

\* release_obs_source: the item is removed from its scene and the source let go.
Released(x) == /\ item' = [item EXCEPT ![x] = None]
               /\ mirror' = [mirror EXCEPT ![x] = None]

Scenery == UNCHANGED <<scenes, program, obsScenes, output, orphan, kept>>

\* The model of a new source; its filter list holds at most one filter.
NewSource(s, kind, muted, filter) ==
  [scene |-> s, kind |-> kind, muted |-> muted, visible |-> TRUE,
   filter |-> IF filter THEN "on" ELSE "none"]

\* The entries of the id in sources_ and filters_ are replaced before libobs is asked.
Entered(x, new) == [src EXCEPT ![x] = new]

\* Mutant of RestoreReplaced: the entry of filters_ is left.
RestoreSourceOnly(x, entered) ==
  [entered EXCEPT ![x] = IF Known(x) THEN [src[x] EXCEPT !.filter = entered[x].filter] ELSE None]

\* restore_replaced: both entries of the id become what they were.
RestoreReplaced(x, entered) == [entered EXCEPT ![x] = src[x]]

\* Refused before anything of libobs was released.
RefuseEarly(x, new) ==
  /\ src' = RestoreReplaced(x, Entered(x, new)) /\ UNCHANGED <<mirror, item>> /\ reply' = "refused"

\* Refused after the old source of the id was released.
RefuseLate(x, new) ==
  /\ Released(x) /\ src' = RestoreReplaced(x, Entered(x, new)) /\ reply' = "refused"

\* The libobs source is never created muted.
Created(x, s, kind, muted, filter, added, mounted) ==
  /\ src' = Entered(x, NewSource(s, kind, muted, filter))
  /\ mirror' = [mirror EXCEPT ![x] = [kind |-> kind, muted |-> FALSE,
                                      filter |-> IF added THEN "on" ELSE "none"]]
  /\ item' = [item EXCEPT ![x] = IF mounted THEN [scene |-> s, visible |-> TRUE] ELSE None]
  /\ reply' = "ok"

\* mirror_source_create: no type or no object refuses early; an item that is
\* not made refuses after the release; a filter that is not made is tolerated.
CreateBrowser(x, s, muted) ==
  /\ s \in scenes
  /\ \/ RefuseEarly(x, NewSource(s, "browser", muted, TRUE))
     \/ s \in obsScenes /\ RefuseLate(x, NewSource(s, "browser", muted, TRUE))
     \/ \E added \in BOOLEAN :
          s \in obsScenes /\ Created(x, s, "browser", muted, TRUE, added, TRUE)
  /\ Scenery

\* mirror_plugin_source_create: released before the new object is tried; an
\* item that is not made is tolerated, a filter that is not made refuses.
CreatePlugin(x, s, muted, filter) ==
  /\ s \in scenes
  /\ \/ s \notin obsScenes /\ RefuseEarly(x, NewSource(s, "plugin", muted, filter))
     \/ s \in obsScenes /\ RefuseLate(x, NewSource(s, "plugin", muted, filter))
     \/ \E mounted \in BOOLEAN :
          s \in obsScenes /\ Created(x, s, "plugin", muted, filter, filter, mounted)
  /\ Scenery

RemoveSource(x) ==
  /\ Known(x) /\ x \notin overlays
  /\ Released(x) /\ src' = [src EXCEPT ![x] = None]
  /\ reply' = "ok" /\ Scenery

-----------------------------------------------------------------------------
(* The verbs that change a property: libobs first, then the model.         *)

Refuse == reply' = "refused" /\ UNCHANGED <<src, mirror, item>>

\* source.mute
SetMuted(x, muted) ==
  /\ Known(x)
  /\ \/ mirror[x] = None /\ Refuse
     \/ /\ mirror[x] # None
        /\ mirror' = [mirror EXCEPT ![x].muted = muted]
        /\ src' = [src EXCEPT ![x].muted = muted]
        /\ reply' = "ok" /\ UNCHANGED item
  /\ Scenery

\* audio.setVolume: the bottom of the fader mutes, any other value unmutes.
SetAudioVolume(x, bottom) == SetMuted(x, bottom)

\* scene.setItemVisible.  The item is looked up under the scene of the source.
SetItemVisible(x, visible) ==
  /\ Known(x)
  /\ \/ x \notin ItemsOf(src[x].scene) /\ Refuse
     \/ /\ x \in ItemsOf(src[x].scene)
        /\ item' = [item EXCEPT ![x].visible = visible]
        /\ src' = [src EXCEPT ![x].visible = visible]
        /\ reply' = "ok" /\ UNCHANGED mirror
  /\ Scenery

\* filter.setEnabled.  The filter of the model may be one that libobs lacks.
SetFilterEnabled(x, state) ==
  /\ Known(x) /\ src[x].filter # "none"
  /\ LET has == mirror[x] # None /\ mirror[x].filter # "none"
     IN  \/ ~has /\ Refuse
         \/ /\ has
            /\ mirror' = [mirror EXCEPT ![x].filter = state]
            /\ src' = [src EXCEPT ![x].filter = state]
            /\ reply' = "ok" /\ UNCHANGED item
  /\ Scenery

\* What these verbs change is data that the model does not tell apart; what is
\* left of them is the object of libobs that they need.
Told(x, has) == /\ Known(x)
                /\ reply' = IF has THEN "ok" ELSE "refused"
                /\ UNCHANGED <<src, mirror, item>> /\ Scenery

SetItemOrder(x) == Known(x) /\ Told(x, x \in ItemsOf(src[x].scene))

\* filter.setSettings
SetFilterSettings(x) ==
  /\ Known(x) /\ src[x].filter # "none"
  /\ Told(x, mirror[x] # None /\ mirror[x].filter # "none")

MediaControl(x) == Told(x, mirror[x] # None)
RefreshBrowser(x) == Told(x, mirror[x] # None)

\* source.update and the transform of an item change the model; libobs is not told.
UpdateSource(x) == x \notin overlays /\ Told(x, TRUE)
ItemTransform(x) == Told(x, TRUE)

-----------------------------------------------------------------------------
(* NativeOverlayManager, by the routes of source.create, update and remove *)

\* Of the id, only the manager is asked: it may be a source of the renderer.
CreateOverlay(x) ==
  IF x \in overlays THEN reply' = "refused" /\ UNCHANGED overlays
  ELSE reply' = "ok" /\ overlays' = overlays \cup {x}

\* The action is drawn, or it is one that the renderer does not know.
UpdateOverlay(x) == x \in overlays /\ reply' \in {"ok", "refused"} /\ UNCHANGED overlays

RemoveOverlay(x) == x \in overlays /\ reply' = "ok" /\ overlays' = overlays \ {x}

OverlayVerb(x) ==
  /\ CreateOverlay(x) \/ UpdateOverlay(x) \/ RemoveOverlay(x)
  /\ UNCHANGED <<model, libobs>>

-----------------------------------------------------------------------------
RendererVerb ==
  \/ \E s \in Scenes, made \in {TRUE, ~SceneFaults}, lost \in SUBSET Sources :
       (lost = {} \/ SceneFaults) /\ LoadScene(s, made, lost)
  \/ \E s \in Scenes : SetProgram(s)
  \/ \E x \in Sources, s \in Scenes, muted \in BOOLEAN :
       \/ CreateBrowser(x, s, muted)
       \/ \E filter \in BOOLEAN : CreatePlugin(x, s, muted, filter)
  \/ \E x \in Sources :
       \/ RemoveSource(x)
       \/ \E b \in BOOLEAN : SetMuted(x, b) \/ SetAudioVolume(x, b) \/ SetItemVisible(x, b)
       \/ \E state \in {"on", "off"} : SetFilterEnabled(x, state)
       \/ SetItemOrder(x) \/ SetFilterSettings(x) \/ MediaControl(x) \/ RefreshBrowser(x)
       \/ UpdateSource(x) \/ ItemTransform(x)

Next == (RendererVerb /\ UNCHANGED overlays) \/ \E x \in Sources : OverlayVerb(x)

Spec == Init /\ [][Next]_vars

-----------------------------------------------------------------------------
(* Properties                                                              *)

\* Model and bookkeeping have their types.
TypeOK ==
  /\ scenes \subseteq Scenes /\ program \in scenes \cup {None}
  /\ src \in [Sources -> SourceRecords \cup {None}]
  /\ obsScenes \subseteq scenes
  /\ mirror \in [Sources -> MirrorRecords \cup {None}]
  /\ item \in [Sources -> ItemRecords \cup {None}]
  /\ output \in scenes \cup {None} /\ orphan \in BOOLEAN /\ kept \subseteq Sources
  /\ overlays \subseteq Sources /\ reply \in {"none", "ok", "refused"}

\* The bookkeeping of libobs objects has a source only for an id that the model
\* lists, and one of its kind: neither a refused re-creation nor a removal
\* leaves one behind.  libobs may have more, on a scene object that was
\* replaced while it was the program: see NoGhostRender.
MirrorWithinModel ==
  \A x \in Sources : mirror[x] # None => Known(x) /\ mirror[x].kind = src[x].kind

\* Every item that the bookkeeping hands to libobs is alive: it belongs to the
\* present scene object of the source's scene and to a present source.
ItemsAlive ==
  \A x \in Sources : item[x] # None => /\ mirror[x] # None
                                       /\ item[x].scene \in obsScenes
                                       /\ item[x].scene = src[x].scene

\* What libobs suppresses of the sources and items in the bookkeeping the model
\* reports: a muted source, a hidden item and a disabled filter are listed as
\* such, also after refused re-creations.
SuppressionReported ==
  \A x \in Sources :
    /\ mirror[x] # None /\ mirror[x].muted => src[x].muted
    /\ item[x] # None /\ ~item[x].visible => ~src[x].visible
    /\ mirror[x] # None /\ mirror[x].filter # "none" => mirror[x].filter = src[x].filter

\* The comment of release_obs_source: no source keeps rendering in the live
\* scene while scene.list and source.remove deny it exists.
NoGhostRender == \A x \in Rendered : Known(x)
=============================================================================
