------------------------ MODULE RendererMirrorProofs ------------------------
(***************************************************************************)
(* Proofs about RendererMirror, for every set of scenes and sources and    *)
(* with every libobs call failing.  The invariants of the run are inductive*)
(* together: an action that changes one property of a source only keeps    *)
(* model and libobs in agreement because the two describe the same source. *)
(***************************************************************************)
EXTENDS RendererMirror, TLAPS

\* The four invariants of the run, together.
IInv == TypeOK /\ MirrorWithinModel /\ ItemsAlive /\ SuppressionReported

\* No scene, no source, no object.
LEMMA InitInv == Init => IInv
BY NoneAssumption DEF Init, IInv, TypeOK, MirrorWithinModel, ItemsAlive, SuppressionReported

\* What restore_replaced gives back.
LEMMA Restored ==
  ASSUME TypeOK, NEW x \in Sources, NEW new
  PROVE  RestoreReplaced(x, Entered(x, new)) = src
BY DEF TypeOK, RestoreReplaced, Entered

\* One step per verb; creation and change build one record each.
LEMMA StepInv == IInv /\ [Next]_vars => IInv'
<1>0. ASSUME IInv, NEW x \in Sources, OverlayVerb(x)
      PROVE  IInv'
    BY <1>0 DEF OverlayVerb, CreateOverlay, UpdateOverlay, RemoveOverlay, model, libobs, IInv, TypeOK,
                MirrorWithinModel, ItemsAlive, SuppressionReported, Known, ItemsOf
<1> SUFFICES ASSUME IInv, RendererVerb \/ UNCHANGED vars, UNCHANGED overlays
             PROVE  IInv'
    BY <1>0 DEF Next, vars
<1> USE NoneAssumption, RecordsAssumption
    DEF IInv, TypeOK, MirrorWithinModel, ItemsAlive, SuppressionReported, Known, ItemsOf,
        SourceRecords, MirrorRecords, ItemRecords, Kinds, FilterStates
<1>1. ASSUME NEW s \in Scenes, NEW made \in BOOLEAN, NEW lost \in SUBSET Sources,
             LoadScene(s, made, lost)
      PROVE  IInv'
    BY <1>1 DEF LoadScene, Remounted
<1>2. ASSUME NEW s \in Scenes, SetProgram(s)
      PROVE  IInv'
    BY <1>2 DEF SetProgram
<1>3. ASSUME NEW x \in Sources, NEW s \in Scenes, NEW muted \in BOOLEAN,
             CreateBrowser(x, s, muted)
      PROVE  IInv'
  <2> USE <1>3 DEF Scenery
  <2>0. RestoreReplaced(x, Entered(x, NewSource(s, "browser", muted, TRUE))) = src
      BY Restored
  <2>1. CASE RefuseEarly(x, NewSource(s, "browser", muted, TRUE))
      BY <2>0, <2>1 DEF CreateBrowser, RefuseEarly
  <2>2. CASE RefuseLate(x, NewSource(s, "browser", muted, TRUE))
      BY <2>0, <2>2 DEF CreateBrowser, RefuseLate, Released
  <2>3. ASSUME NEW added \in BOOLEAN, s \in obsScenes,
               Created(x, s, "browser", muted, TRUE, added, TRUE)
        PROVE  IInv'
    <3> DEFINE new == NewSource(s, "browser", muted, TRUE)
               object == [kind |-> "browser", muted |-> FALSE,
                          filter |-> IF added THEN "on" ELSE "none"]
               mount == IF TRUE THEN [scene |-> s, visible |-> TRUE] ELSE None
    <3>1. new \in SourceRecords /\ new.scene = s /\ new.kind = "browser"
        BY DEF NewSource
    <3>2. object \in MirrorRecords
        OBVIOUS
    <3>3. new.filter = object.filter \/ object.filter = "none"
        BY DEF NewSource
    <3>4. src' = [src EXCEPT ![x] = new] /\ mirror' = [mirror EXCEPT ![x] = object]
          /\ item' = [item EXCEPT ![x] = mount] /\ reply' = "ok"
        BY <2>3 DEF Created, Entered
    <3>5. UNCHANGED <<scenes, program, obsScenes, output, orphan, kept>>
        BY DEF CreateBrowser
    <3> HIDE DEF new, object
    <3>6. TypeOK'
        BY <3>1, <3>2, <3>4, <3>5
    <3>7. MirrorWithinModel'
        BY <3>1, <3>4, <3>5, object.kind = "browser", new # None DEF object
    <3>8. ItemsAlive'
        BY <3>1, <3>2, <3>4, <3>5, <2>3
    <3>9. SuppressionReported'
        BY <3>1, <3>3, <3>4, <3>5, object.muted = FALSE DEF object
    <3> QED
        BY <3>6, <3>7, <3>8, <3>9
  <2> QED
      BY <2>1, <2>2, <2>3 DEF CreateBrowser
<1>4. ASSUME NEW x \in Sources, NEW s \in Scenes, NEW muted \in BOOLEAN,
             NEW filter \in BOOLEAN, CreatePlugin(x, s, muted, filter)
      PROVE  IInv'
  <2> USE <1>4 DEF Scenery
  <2>0. RestoreReplaced(x, Entered(x, NewSource(s, "plugin", muted, filter))) = src
      BY Restored
  <2>1. CASE RefuseEarly(x, NewSource(s, "plugin", muted, filter))
      BY <2>0, <2>1 DEF CreatePlugin, RefuseEarly
  <2>2. CASE RefuseLate(x, NewSource(s, "plugin", muted, filter))
      BY <2>0, <2>2 DEF CreatePlugin, RefuseLate, Released
  <2>3. ASSUME NEW mounted \in BOOLEAN, s \in obsScenes,
               Created(x, s, "plugin", muted, filter, filter, mounted)
        PROVE  IInv'
    <3> DEFINE new == NewSource(s, "plugin", muted, filter)
               object == [kind |-> "plugin", muted |-> FALSE,
                          filter |-> IF filter THEN "on" ELSE "none"]
               mount == IF mounted THEN [scene |-> s, visible |-> TRUE] ELSE None
    <3>1. new \in SourceRecords /\ new.scene = s /\ new.kind = "plugin"
        BY DEF NewSource
    <3>2. object \in MirrorRecords
        OBVIOUS
    <3>3. new.filter = object.filter \/ object.filter = "none"
        BY DEF NewSource
    <3>4. src' = [src EXCEPT ![x] = new] /\ mirror' = [mirror EXCEPT ![x] = object]
          /\ item' = [item EXCEPT ![x] = mount] /\ reply' = "ok"
        BY <2>3 DEF Created, Entered
    <3>5. UNCHANGED <<scenes, program, obsScenes, output, orphan, kept>>
        BY DEF CreatePlugin
    <3> HIDE DEF new, object
    <3>6. TypeOK'
        BY <3>1, <3>2, <3>4, <3>5
    <3>7. MirrorWithinModel'
        BY <3>1, <3>4, <3>5, object.kind = "plugin", new # None DEF object
    <3>8. ItemsAlive'
        BY <3>1, <3>2, <3>4, <3>5, <2>3
    <3>9. SuppressionReported'
        BY <3>1, <3>3, <3>4, <3>5, object.muted = FALSE DEF object
    <3> QED
        BY <3>6, <3>7, <3>8, <3>9
  <2> QED
      BY <2>1, <2>2, <2>3 DEF CreatePlugin
<1>5. ASSUME NEW x \in Sources, RemoveSource(x)
      PROVE  IInv'
    BY <1>5 DEF RemoveSource, Released, Scenery
<1>6. ASSUME NEW x \in Sources, NEW b \in BOOLEAN, SetMuted(x, b) \/ SetAudioVolume(x, b)
      PROVE  IInv'
  <2> USE DEF SetMuted, SetAudioVolume, Refuse, Scenery
  <2>1. CASE mirror[x] = None
      BY <1>6, <2>1
  <2>2. CASE mirror[x] # None
    <3>1. /\ src' = [src EXCEPT ![x] = [src[x] EXCEPT !.muted = b]]
          /\ mirror' = [mirror EXCEPT ![x] = [mirror[x] EXCEPT !.muted = b]]
          /\ UNCHANGED item
        BY <1>6, <2>2
    <3>2. /\ [src[x] EXCEPT !.muted = b] \in SourceRecords
          /\ [mirror[x] EXCEPT !.muted = b] \in MirrorRecords
      <4>1. src[x] \in SourceRecords /\ mirror[x] \in MirrorRecords
          BY <1>6, <2>2
      <4> QED
          BY <4>1, <1>6
    <3>3. UNCHANGED <<scenes, program, obsScenes, output, orphan, kept>> /\ reply' = "ok"
        BY <1>6, <2>2
    <3>4. TypeOK'
        BY <2>2, <3>1, <3>2, <3>3
    <3>5. MirrorWithinModel'
        BY <2>2, <3>1, <3>2, <3>3
    <3>6. ItemsAlive'
        BY <2>2, <3>1, <3>2, <3>3
    <3>7. SuppressionReported'
        BY <2>2, <3>1, <3>2, <3>3
    <3> QED
        BY <3>4, <3>5, <3>6, <3>7
  <2> QED
      BY <2>1, <2>2
<1>7. ASSUME NEW x \in Sources, NEW b \in BOOLEAN, SetItemVisible(x, b)
      PROVE  IInv'
  <2> USE DEF SetItemVisible, Refuse, Scenery
  <2>1. CASE x \notin ItemsOf(src[x].scene)
      BY <1>7, <2>1
  <2>2. CASE x \in ItemsOf(src[x].scene)
    <3>1. /\ src' = [src EXCEPT ![x] = [src[x] EXCEPT !.visible = b]]
          /\ item' = [item EXCEPT ![x] = [item[x] EXCEPT !.visible = b]]
          /\ UNCHANGED mirror
        BY <1>7, <2>2
    <3>2. /\ [src[x] EXCEPT !.visible = b] \in SourceRecords
          /\ [item[x] EXCEPT !.visible = b] \in ItemRecords
      <4>1. src[x] \in SourceRecords /\ item[x] \in ItemRecords
          BY <1>7, <2>2
      <4> QED
          BY <4>1, <1>7
    <3>3. UNCHANGED <<scenes, program, obsScenes, output, orphan, kept>> /\ reply' = "ok"
        BY <1>7, <2>2
    <3>4. TypeOK'
        BY <2>2, <3>1, <3>2, <3>3
    <3>5. MirrorWithinModel'
        BY <2>2, <3>1, <3>2, <3>3
    <3>6. ItemsAlive'
        BY <2>2, <3>1, <3>2, <3>3
    <3>7. SuppressionReported'
        BY <2>2, <3>1, <3>2, <3>3
    <3> QED
        BY <3>4, <3>5, <3>6, <3>7
  <2> QED
      BY <2>1, <2>2
<1>8. ASSUME NEW x \in Sources, NEW state \in {"on", "off"}, SetFilterEnabled(x, state)
      PROVE  IInv'
  <2> USE DEF SetFilterEnabled, Refuse, Scenery
  <2>1. CASE ~(mirror[x] # None /\ mirror[x].filter # "none")
      BY <1>8, <2>1
  <2>2. CASE mirror[x] # None /\ mirror[x].filter # "none"
    <3>1. /\ src' = [src EXCEPT ![x] = [src[x] EXCEPT !.filter = state]]
          /\ mirror' = [mirror EXCEPT ![x] = [mirror[x] EXCEPT !.filter = state]]
          /\ UNCHANGED item
        BY <1>8, <2>2
    <3>2. /\ [src[x] EXCEPT !.filter = state] \in SourceRecords
          /\ [mirror[x] EXCEPT !.filter = state] \in MirrorRecords
      <4>1. src[x] \in SourceRecords /\ mirror[x] \in MirrorRecords
          BY <1>8, <2>2
      <4> QED
          BY <4>1, <1>8
    <3>3. UNCHANGED <<scenes, program, obsScenes, output, orphan, kept>> /\ reply' = "ok"
        BY <1>8, <2>2
    <3>4. TypeOK'
        BY <2>2, <3>1, <3>2, <3>3
    <3>5. MirrorWithinModel'
        BY <2>2, <3>1, <3>2, <3>3
    <3>6. ItemsAlive'
        BY <2>2, <3>1, <3>2, <3>3
    <3>7. SuppressionReported'
        BY <2>2, <3>1, <3>2, <3>3
    <3> QED
        BY <3>4, <3>5, <3>6, <3>7
  <2> QED
      BY <2>1, <2>2
<1>9. ASSUME NEW x \in Sources,
             SetItemOrder(x) \/ SetFilterSettings(x) \/ MediaControl(x) \/ RefreshBrowser(x)
               \/ UpdateSource(x) \/ ItemTransform(x)
      PROVE  IInv'
  <2>1. reply' \in {"ok", "refused"} /\ UNCHANGED <<src, mirror, item>> /\ Scenery
      BY <1>9 DEF SetItemOrder, SetFilterSettings, MediaControl, RefreshBrowser, UpdateSource,
                  ItemTransform, Told
  <2> QED
      BY <2>1 DEF Scenery
<1>10. CASE UNCHANGED vars
    BY <1>10 DEF vars, model, libobs
<1>11. \A made \in {TRUE, ~SceneFaults} : made \in BOOLEAN
    BY FaultsAssumption
<1> HIDE DEF IInv
<1> QED
    BY <1>1, <1>2, <1>3, <1>4, <1>5, <1>6, <1>7, <1>8, <1>9, <1>10, <1>11 DEF RendererVerb

-----------------------------------------------------------------------------
(* The theorems.                                                           *)

\* Model and libobs keep their agreement under every verb.
THEOREM InductiveInvariant == Spec => []IInv
<1> QED
    BY InitInv, StepInv, PTL DEF Spec

\* The bookkeeping has its types, for every set of ids.
THEOREM TypeCorrect == Spec => []TypeOK
<1>1. IInv => TypeOK
    BY DEF IInv
<1> QED
    BY <1>1, InductiveInvariant, PTL

\* The bookkeeping has an object for no source but those that the model lists,
\* whatever call failed.
THEOREM MirrorIsWithinModel == Spec => []MirrorWithinModel
<1>1. IInv => MirrorWithinModel
    BY DEF IInv
<1> QED
    BY <1>1, InductiveInvariant, PTL

\* No verb hands libobs an item whose scene object or source is gone.
THEOREM ItemsStayAlive == Spec => []ItemsAlive
<1>1. IInv => ItemsAlive
    BY DEF IInv
<1> QED
    BY <1>1, InductiveInvariant, PTL

\* What libobs mutes, hides or disables, scene.list reports.
THEOREM SuppressionIsReported == Spec => []SuppressionReported
<1>1. IInv => SuppressionReported
    BY DEF IInv
<1> QED
    BY <1>1, InductiveInvariant, PTL
=============================================================================
