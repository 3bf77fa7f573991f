---------------------------- MODULE PluginLaunch ----------------------------
(***************************************************************************)
(* A launch from its manifest to the frozen report: Manifest reads and     *)
(* validates the file, and only what it accepts becomes the policy that    *)
(* PluginPlan's boot follows.  The resolution of the retries against the   *)
(* sentinel is PluginSentinel's.                                           *)
(***************************************************************************)
EXTENDS PluginPlan, ManifestLanguage

ASSUME RefsAssumption == Portable \subseteq Refs

plan == <<policy, pc, inventory, candidates, registered, before, opened, owner>>

LaunchInit ==
  /\ Init /\ ParseInit
  /\ \A name \in Portable : ~policy[name].excluded /\ ~policy[name].selected

\* Mutant of Selected: an empty selection is taken for none.
SelectedNonempty(name) == manifest.selected # {} => name \in manifest.selected

\* Without a selection everything is selected.
Selected(name) == manifest.hasSelected => name \in manifest.selected

\* The options are handed to the engine; what only the parser knew is gone.
Boot ==
  /\ outcome = "accepted" /\ outcome' = "booted"
  /\ policy' = [name \in Portable |->
       [policy[name] EXCEPT !.excluded = name \in manifest.exclude, !.selected = Selected(name)]]
  /\ pc' = IF manifest.roots = <<>> THEN "plan" ELSE "discover"
  /\ text' = <<>> /\ at' = 1 /\ frame' = "open" /\ keys' = {} /\ rootKeys' = {}
  /\ root' = [binaryDir |-> Empty, dataDir |-> Empty] /\ version' = FALSE
  /\ UNCHANGED <<manifest, inventory, candidates, registered, before, opened, owner>>

LaunchNext ==
  \/ ParseNext /\ UNCHANGED plan
  \/ Boot
  \/ outcome = "booted" /\ Next /\ UNCHANGED parser

LaunchSpec == LaunchInit /\ [][LaunchNext]_<<plan, parser>>

-----------------------------------------------------------------------------
(* Properties                                                              *)

\* The manifest rules the boot: nothing is opened for a launch whose manifest
\* was refused, or names no root, and nothing that the manifest excludes or
\* does not select.
BootFollowsManifest ==
  /\ outcome # "booted" => inventory = <<>> /\ opened = {}
  /\ manifest.roots = <<>> => inventory = <<>>
  /\ \A i \in opened :
       /\ inventory[i].name \notin manifest.exclude
       /\ manifest.hasSelected => inventory[i].name \in manifest.selected
=============================================================================
