------------------------------ MODULE PluginPlan ------------------------------
(***************************************************************************)
(* User plugins from the manifest's roots to the frozen report of a boot:  *)
(* the inventory of what the roots hold, the plan, the modules that are    *)
(* opened, and the types each of them is credited with.                    *)
(*                                                                         *)
(* The files belong to the user.  What a file is, is looked at once for    *)
(* the inventory and once more before it is opened, and it may have been   *)
(* replaced in between.  The sentinel around a load is PluginSentinel's,   *)
(* which takes the candidates of this module for a set of refs.            *)
(***************************************************************************)
EXTENDS Naturals, Sequences

CONSTANTS
  Names,          \* names of modules in the roots
  Portable,       \* those that may form a module ref
  Types,          \* type ids a module may register
  PortableTypes,  \* those that may be reported
  MaxModules      \* bound of the exploration: candidates in the roots

ASSUME NamesAssumption == Portable \subseteq Names /\ PortableTypes \subseteq Types
ASSUME BoundAssumption == MaxModules \in Nat

VARIABLES
  policy,      \* per ref: excluded, selected, suspected, or bundled as well
  pc,          \* "discover", "plan", "suspects", "load", "frozen"
  inventory,   \* the records, in the order of the scan
  candidates,  \* plan.candidates: indices that are still to be loaded
  registered,  \* the types libobs knows
  before,      \* the snapshot that the next delta is taken from
  opened,      \* history: the indices whose file was opened
  owner        \* history: per type, the index of the module that registered it

vars == <<policy, pc, inventory, candidates, registered, before, opened, owner>>

\* What the bytes of a file say when they are looked at.
Kinds == {"good", "other-arch", "symlink-refused", "unreadable-binary"}
Refusals == {"symlink-refused", "unreadable-binary"}
Lifecycles == {"discovered", "excluded", "duplicate_in_roots", "duplicate_of_bundled",
               "load_failed", "loaded"}
States == {"null", "architecture_mismatch", "runtime_crash", "module_load_failed",
           "libobs_version_mismatch", "dependency_missing", "type_not_registered"}
Reasons == Refusals \cup {"null", "name-not-portable", "not-selected", "suspected",
             "sentinel-write-failed", "missing-exports", "library-not-loaded", "module-init-failed"}
\* The state and the reason of a file that libobs did not open.
OpenFailures == {<<"module_load_failed", "missing-exports">>, <<"libobs_version_mismatch", "null">>,
                 <<"dependency_missing", "library-not-loaded">>}

Record(name, foreign, lifecycle, reason) ==
  [name |-> name, foreign |-> foreign, lifecycle |-> lifecycle, state |-> "null", reason |-> reason,
   types |-> {}]

Indices == 1..Len(inventory)
Set(i, lifecycle, state, reason) ==
  inventory' = [inventory EXCEPT ![i].lifecycle = lifecycle, ![i].state = state, ![i].reason = reason]

Init ==
  /\ policy \in [Portable -> [excluded : BOOLEAN, selected : BOOLEAN, suspect : BOOLEAN, bundled : BOOLEAN]]
  /\ pc = "discover" /\ inventory = <<>> /\ candidates = {}
  /\ registered = {} /\ before = {}
  /\ opened = {} /\ owner = [t \in Types |-> 0]

-----------------------------------------------------------------------------
(* build_user_plugin_inventory and build_user_plugin_load_plan             *)

\* An exclusion comes before a duplicate, and does not make one.
Seen == {inventory[j].name : j \in {j \in Indices : inventory[j].lifecycle # "excluded"}} \cap Portable

\* Mutant of Lifecycle: the copies of a ref are not told apart.
LifecycleEach(name) == IF policy[name].excluded THEN "excluded" ELSE "discovered"

Lifecycle(name) ==
  IF policy[name].excluded THEN "excluded"
  ELSE IF name \in Seen THEN "duplicate_in_roots" ELSE "discovered"

\* The first copy of a ref is the one that counts, whatever its file is.
Discovered(name, kind) ==
  IF name \notin Portable
  THEN Record(name, FALSE, "discovered", "name-not-portable")
  ELSE Record(name, kind = "other-arch", Lifecycle(name), IF kind \in Refusals THEN kind ELSE "null")

Discover(name, kind) ==
  /\ pc = "discover" /\ Len(inventory) < MaxModules
  /\ inventory' = Append(inventory, Discovered(name, kind))
  /\ UNCHANGED <<policy, pc, candidates, registered, before, opened, owner>>

\* The roots have been listed, or a bound of the scan was reached.
ScanEnds ==
  /\ pc = "discover" /\ pc' = "plan"
  /\ UNCHANGED <<policy, inventory, candidates, registered, before, opened, owner>>

Plannable(i) == inventory[i].lifecycle = "discovered" /\ inventory[i].reason = "null"

\* Mutant of Planned: what was not selected gets no reason.
PlannedSilently(i) ==
  IF Plannable(i) /\ inventory[i].foreign
  THEN [inventory[i] EXCEPT !.state = "architecture_mismatch"] ELSE inventory[i]

\* The architecture is a fact of the header; the selection is asked after it.
Planned(i) ==
  IF ~Plannable(i) THEN inventory[i]
  ELSE IF inventory[i].foreign THEN [inventory[i] EXCEPT !.state = "architecture_mismatch"]
  ELSE IF policy[inventory[i].name].selected THEN inventory[i]
  ELSE [inventory[i] EXCEPT !.reason = "not-selected"]

BuildPlan ==
  /\ pc = "plan" /\ pc' = "suspects"
  /\ inventory' = [i \in Indices |-> Planned(i)]
  /\ candidates' = {i \in Indices : Plannable(i) /\ ~inventory[i].foreign /\ policy[inventory[i].name].selected}
  /\ UNCHANGED <<policy, registered, before, opened, owner>>

-----------------------------------------------------------------------------
(* build_user_plugins_boot_report_json and load_user_plugin_candidates     *)

Suspected(i) == i \in candidates /\ policy[inventory[i].name].suspect

\* The bundled modules and the capture tap are registered by now.
RefuseSuspects ==
  /\ pc = "suspects" /\ pc' = "load"
  /\ inventory' = [i \in Indices |->
       IF Suspected(i)
       THEN [inventory[i] EXCEPT !.lifecycle = "excluded", !.state = "runtime_crash",
                                 !.reason = "suspected"]
       ELSE inventory[i]]
  /\ candidates' = {i \in candidates : ~Suspected(i)}
  /\ UNCHANGED <<policy, registered, before, opened, owner>>

\* Candidates are taken in the order of the inventory.
Taken(i) ==
  /\ pc = "load" /\ i \in candidates /\ \A j \in candidates : i <= j
  /\ candidates' = candidates \ {i}
Bundled(i) == policy[inventory[i].name].bundled

\* A bundled module wins, even a broken one; a file is looked at once more; an
\* attempt that cannot be recorded is refused.
Refuse(i) ==
  /\ Taken(i)
  /\ IF Bundled(i) THEN Set(i, "duplicate_of_bundled", "null", "null")
     ELSE \/ Set(i, "load_failed", "module_load_failed", "symlink-refused")
          \/ Set(i, "excluded", "null", "sentinel-write-failed")
  /\ UNCHANGED <<policy, pc, registered, before, opened, owner>>

Opens(i) == Taken(i) /\ ~Bundled(i) /\ opened' = opened \cup {i}

OpenFails(i) ==
  /\ Opens(i)
  /\ \E why \in OpenFailures : Set(i, "load_failed", why[1], why[2])
  /\ UNCHANGED <<policy, pc, registered, before, owner>>

\* libobs gives a type to the first module that registers it.
Registers(i, new) ==
  /\ new \subseteq Types \ registered /\ registered' = registered \cup new
  /\ owner' = [t \in Types |-> IF t \in new THEN i ELSE owner[t]]

\* Mutant of InitFails: the snapshot is not taken again.
InitFailsUnrolled(i, new) ==
  /\ Opens(i) /\ Registers(i, new)
  /\ Set(i, "load_failed", "module_load_failed", "module-init-failed")
  /\ UNCHANGED <<policy, pc, before>>

\* What a module registered before it failed is credited to nobody.
InitFails(i, new) ==
  /\ Opens(i) /\ Registers(i, new)
  /\ Set(i, "load_failed", "module_load_failed", "module-init-failed")
  /\ before' = registered'
  /\ UNCHANGED <<policy, pc>>

Loads(i, new) ==
  /\ Opens(i) /\ Registers(i, new)
  /\ LET types == (registered' \ before) \cap PortableTypes
     IN inventory' = [inventory EXCEPT
          ![i].lifecycle = "loaded", ![i].types = types,
          ![i].state = IF types = {} THEN "type_not_registered" ELSE "null"]
  /\ before' = registered'
  /\ UNCHANGED <<policy, pc>>

\* The report is what it is until the host ends.
Freeze ==
  /\ pc = "load" /\ candidates = {} /\ pc' = "frozen"
  /\ UNCHANGED <<policy, inventory, candidates, registered, before, opened, owner>>

Next ==
  \/ \E name \in Names, kind \in Kinds : Discover(name, kind)
  \/ ScanEnds \/ BuildPlan \/ RefuseSuspects \/ Freeze
  \/ \E i \in Indices :
       \/ Refuse(i) \/ OpenFails(i)
       \/ \E new \in SUBSET Types : InitFails(i, new) \/ Loads(i, new)

Spec == Init /\ [][Next]_vars

-----------------------------------------------------------------------------
(* Properties                                                              *)

Policies == [excluded : BOOLEAN, selected : BOOLEAN, suspect : BOOLEAN, bundled : BOOLEAN]
Records == [name : Names, foreign : BOOLEAN, lifecycle : Lifecycles, state : States,
            reason : Reasons, types : SUBSET PortableTypes]

\* Every variable has its type.
TypeOK ==
  /\ policy \in [Portable -> Policies]
  /\ pc \in {"discover", "plan", "suspects", "load", "frozen"}
  /\ inventory \in Seq(Records) /\ Len(inventory) <= MaxModules
  /\ candidates \subseteq Indices /\ opened \subseteq Indices /\ candidates \cap opened = {}
  /\ before = registered /\ registered \subseteq Types
  /\ owner \in [Types -> 0..MaxModules]

\* Only the first copy of a ref is ever opened: a module is loaded once, and a
\* copy in a later root never takes the place of one that was refused.
OnlyFirstCopyOpens ==
  \A i \in opened, j \in Indices : j < i => inventory[j].name # inventory[i].name

\* What is opened was asked for and refused by nobody: the manifest, the
\* sentinel, the bundled modules, and the inventory.
OpenedWasGranted ==
  \A i \in opened :
    LET p == policy[inventory[i].name]
    IN  /\ ~p.excluded /\ p.selected /\ ~p.suspect /\ ~p.bundled
        /\ inventory[i].name \in Portable /\ ~inventory[i].foreign
        /\ inventory[i].reason \notin Refusals \cup {"name-not-portable"}

\* A loaded module is credited with the types it registered itself, and no other
\* module with any: not with those of one that failed before it.
CreditedToOwner ==
  \A i \in Indices :
    inventory[i].types = IF inventory[i].lifecycle = "loaded"
                         THEN {t \in PortableTypes : owner[t] = i} ELSE {}

\* No candidate is dropped silently: the report of the boot says of each one
\* that was not loaded why it was not.
NothingDropped ==
  pc = "frozen" => \A i \in Indices :
    inventory[i].lifecycle = "discovered" => inventory[i].reason # "null" \/ inventory[i].state # "null"
=============================================================================
