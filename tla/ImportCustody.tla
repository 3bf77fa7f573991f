---------------------------- MODULE ImportCustody ----------------------------
(***************************************************************************)
(* ObsImporter: a copy of an OBS config directory is taken while OBS may   *)
(* be writing to it.                                                       *)
(*                                                                         *)
(* import.load reads the collection, digests the tree, redacts every scene *)
(* collection, copies the tree into a temporary workspace, digests the     *)
(* tree again, and puts the workspace in the place of the last import.     *)
(* The host handles one request at a time; the owner of the config         *)
(* directory keeps to no schedule, and the host may be killed.             *)
(***************************************************************************)
EXTENDS Naturals, FiniteSets

CONSTANTS
  Collections,  \* the files of basic/scenes
  Backups,      \* those whose name does not end in .json
  Bodies,       \* what such a file may hold
  Secrets,      \* the bodies that carry a credential
  Visible,      \* those where it is a raw string, before any token that does not parse
  Malformed,    \* the bodies with a string, or a credential's value, that does not end
  Redacted,     \* a body whose credentials are redacted
  Blank,        \* the body of an empty file
  Unreadable,   \* the collections whose files cannot be opened
  None,         \* no file, no workspace, no report
  Torn,         \* a workspace of which a part has been removed
  MaxEdits,     \* bound of the exploration: edits by the owner
  MaxKills,     \* bound of the exploration: restarts of the host
  MaxLoads      \* bound of the exploration: calls of import.load

ASSUME BodiesAssumption ==
  /\ Visible \subseteq Secrets /\ Secrets \subseteq Bodies /\ Malformed \subseteq Bodies
  /\ Bodies \cap {Redacted, Blank} = {} /\ Redacted # Blank
  /\ None \notin Bodies \cup {Redacted, Blank} \cup Collections
  /\ Unreadable \subseteq Collections /\ Backups \subseteq Collections
ASSUME BoundAssumption == MaxEdits \in Nat /\ MaxKills \in Nat /\ MaxLoads \in Nat

VARIABLES
  source,     \* the config directory: the body of every collection
  pc,         \* where import.load is
  target,     \* the collection it imports
  json,       \* that collection, as it was read first
  before,     \* the tree as it was digested before the copy
  overrides,  \* the redacted bodies that replace files of the copy
  visited,    \* the files the scan, or the copy, has come to
  temp,       \* the temporary workspace
  workspace,  \* per collection: its imported workspace, or None
  report,     \* last_report_by_collection_
  edits,      \* number of edits so far
  undetected, \* history: edits since the digest before the copy
  kills,      \* number of restarts so far
  loads,      \* number of imports begun so far
  prior       \* history: the import the request found in its place

request == <<pc, target, json, before, overrides, visited, prior>>
history == <<edits, undetected, kills, loads>>
vars == <<source, request, temp, workspace, report, history>>

Texts == Bodies \cup {Blank}
Trees == [Collections -> Texts \cup {Redacted, None}]
Empty == [c \in Collections |-> None]

\* Whatever its type, the value of a credential key is replaced.
Redact(body) == IF body \in Secrets THEN Redacted ELSE body

\* find_collection, the scan and the safety net look at files that end in .json.
Scanned == Collections \ Backups

\* What a read of a collection gives: a file that cannot be opened reads as empty.
Text(c) == IF source[c] # None /\ c \in Unreadable THEN Blank ELSE source[c]
Tree == [c \in Collections |-> Text(c)]

Init ==
  /\ source \in [Collections -> Bodies]
  /\ pc = "idle" /\ target = None /\ json = None
  /\ before = Empty /\ overrides = Empty /\ visited = {} /\ temp = Empty
  /\ workspace = [c \in Collections |-> None] /\ report = [c \in Collections |-> None]
  /\ edits = 0 /\ undetected = 0 /\ kills = 0 /\ loads = 0 /\ prior = None

-----------------------------------------------------------------------------
(* import.load                                                             *)

Goto(from, to) == pc = from /\ pc' = to

\* The request is answered: its locals are gone.
EndRequest ==
  /\ pc' = "idle" /\ target' = None /\ json' = None
  /\ before' = Empty /\ overrides' = Empty /\ visited' = {} /\ prior' = None

\* The collection is read before the tree is digested.
Load(c) ==
  /\ Goto("idle", "digest") /\ c \in Scanned /\ source[c] # None
  /\ loads < MaxLoads /\ loads' = loads + 1
  /\ target' = c /\ json' = Text(c) /\ prior' = workspace[c]
  /\ UNCHANGED <<source, before, overrides, visited, temp, workspace, report, edits, undetected, kills>>

DigestBefore ==
  /\ Goto("digest", "scan")
  /\ before' = Tree /\ overrides' = Empty /\ visited' = {} /\ undetected' = 0
  /\ UNCHANGED <<source, target, json, temp, workspace, report, edits, kills, loads, prior>>

\* A body that does not parse to its end is refused (Refused).
Scan(c) ==
  /\ pc = "scan" /\ c \in Scanned \ visited /\ visited' = visited \cup {c}
  /\ Text(c) \notin Malformed
  /\ overrides' = [overrides EXCEPT ![c] = Redact(Text(c))]
  /\ UNCHANGED <<source, pc, target, json, before, prior, temp, workspace, report, history>>

\* Mutant of BeginCopy: the old workspace is cleared with the temporary one.
BeginCopyFresh ==
  /\ Goto("scan", "copy") /\ visited = Scanned /\ visited' = {}
  /\ temp' = Empty /\ workspace' = [workspace EXCEPT ![target] = None]
  /\ UNCHANGED <<source, target, json, before, overrides, prior, report, history>>

BeginCopy ==
  /\ Goto("scan", "copy") /\ visited = Scanned /\ visited' = {}
  /\ temp' = Empty
  /\ UNCHANGED <<source, target, json, before, overrides, prior, workspace, report, history>>

\* A file without an override is copied as it is at this moment.
Copied(c) == IF source[c] # None /\ overrides[c] # None THEN overrides[c] ELSE source[c]
CanCopy(c) == c \in Unreadable /\ source[c] # None => overrides[c] # None

CopyFile(c) ==
  /\ pc = "copy" /\ c \notin visited /\ CanCopy(c) /\ visited' = visited \cup {c}
  /\ temp' = [temp EXCEPT ![c] = Copied(c)]
  /\ UNCHANGED <<source, pc, target, json, before, overrides, prior, workspace, report, history>>

\* Mutant of Unchanged: the check after the copy is dropped.
NeverLooks == TRUE

\* The digest after the copy.
Unchanged == before = Tree

\* Mutant of Unredacted: only the collection that is imported is looked at.
UnredactedTarget == temp[target] \in Visible

\* The safety net: a credential of the kind that it finds, in a file that it looks at.
Unredacted == \E c \in Scanned : temp[c] \in Visible

DigestAfter ==
  /\ Goto("copy", "net") /\ visited = Collections /\ Unchanged
  /\ UNCHANGED <<source, target, json, before, overrides, visited, prior, temp, workspace, report, history>>

SafetyNet ==
  /\ Goto("net", "remove") /\ ~Unredacted
  /\ UNCHANGED <<source, target, json, before, overrides, visited, prior, temp, workspace, report, history>>

\* The map is in the temporary workspace; the import of the last time goes.
RemoveOld ==
  /\ Goto("remove", "rename") /\ workspace' = [workspace EXCEPT ![target] = None]
  /\ UNCHANGED <<source, target, json, before, overrides, visited, prior, temp, report, history>>

\* Mutant of Publish: a report that is known is not built again.
PublishKeepReport ==
  /\ pc = "rename" /\ EndRequest
  /\ workspace' = [workspace EXCEPT ![target] = [files |-> temp, map |-> json, edits |-> undetected,
                                                 kills |-> kills, before |-> before]]
  /\ report' = IF report[target] = None THEN [report EXCEPT ![target] = json] ELSE report
  /\ temp' = Empty /\ UNCHANGED <<source, history>>

\* The rename, and the report of what was imported.
Publish ==
  /\ pc = "rename" /\ EndRequest
  /\ workspace' = [workspace EXCEPT ![target] = [files |-> temp, map |-> json, edits |-> undetected,
                                                 kills |-> kills, before |-> before]]
  /\ report' = [report EXCEPT ![target] = json]
  /\ temp' = Empty /\ UNCHANGED <<source, history>>

\* A remove_all that fails, or is killed, may leave a part.
MayTear ==
  \/ UNCHANGED workspace
  \/ pc = "remove" /\ workspace[target] # None
     /\ workspace' = [workspace EXCEPT ![target] = Torn]

\* Any step of the import may throw, and the two checks may refuse: the temporary
\* workspace is removed, whatever has become of the last import by then.
Refused ==
  /\ \/ pc \in {"digest", "scan", "copy", "remove", "rename"}
     \/ pc = "net" /\ Unredacted
  /\ EndRequest /\ temp' = Empty /\ MayTear
  /\ UNCHANGED <<source, report, history>>

Import ==
  \/ DigestBefore \/ BeginCopy \/ DigestAfter \/ SafetyNet \/ RemoveOld \/ Publish \/ Refused
  \/ \E c \in Collections :
       Load(c) \/ CopyFile(c) \/ Scan(c)

-----------------------------------------------------------------------------
(* import.report, the owner of the config directory, and restarts          *)

\* A report that is known is given out as it is; another one is built and kept.
Report(c) ==
  /\ pc = "idle" /\ c \in Scanned
  /\ report' = IF report[c] = None THEN [report EXCEPT ![c] = Text(c)] ELSE report
  /\ UNCHANGED <<source, request, temp, workspace, history>>

\* OBS, or its user, writes a collection or deletes it.
Edit(c, body) ==
  /\ edits < MaxEdits /\ source[c] # body /\ edits' = edits + 1
  /\ source' = [source EXCEPT ![c] = body]
  /\ undetected' = IF pc = "idle" THEN 0 ELSE undetected + 1
  /\ UNCHANGED <<request, temp, workspace, report, kills, loads>>

\* The temporary workspace stays until the next import of its collection.
Kill ==
  /\ kills < MaxKills /\ kills' = kills + 1
  /\ EndRequest /\ report' = [c \in Collections |-> None] /\ MayTear
  /\ UNCHANGED <<source, temp, edits, undetected, loads>>

Next ==
  \/ Import \/ Kill
  \/ \E c \in Collections : Report(c) \/ \E body \in Bodies \cup {None} : Edit(c, body)

Spec == Init /\ [][Next]_vars

-----------------------------------------------------------------------------
(* Properties                                                              *)

\* Every variable has its type.
TypeOK ==
  /\ source \in [Collections -> Bodies \cup {None}]
  /\ pc \in {"idle", "digest", "scan", "copy", "net", "remove", "rename"}
  /\ target \in Collections \cup {None} /\ (pc = "idle") = (target = None)
  /\ json \in Texts \cup {None} /\ report \in [Collections -> Texts \cup {None}]
  /\ {before, overrides, temp} \subseteq Trees /\ visited \subseteq Collections
  /\ workspace \in [Collections -> [files : Trees, map : Texts, edits : Nat, kills : Nat,
                                    before : Trees] \cup {None, Torn}]
  /\ edits \in 0..MaxEdits /\ undetected \in Nat /\ kills \in 0..MaxKills
  /\ loads \in 0..MaxLoads

Imports == {workspace[c] : c \in Collections} \ {None, Torn}

\* No imported collection holds a credential that is a raw string, whatever was edited,
\* unreadable or moved during the import; and none holds a credential of any type,
\* unless the owner edited the tree twice while it was copied.  With two edits one that
\* the net does not find may pass, and a file that does not end in .json always does.
NoSecretImported ==
  \A w \in Imports, c \in Scanned :
    /\ w.files[c] \notin Visible
    /\ w.edits <= 1 => w.files[c] \notin Secrets

\* What the redaction of a tree gives.
Redactions(tree) == [c \in Collections |-> IF c \in Scanned THEN Redact(tree[c]) ELSE tree[c]]

\* An import during which the tree was edited once at most is the redacted tree
\* of its first digest: one edit is always seen.  A tree that was edited and
\* edited back is not told apart.
OneEditIsSeen == \A w \in Imports : w.edits <= 1 => w.files = Redactions(w.before)

\* The report that is given out for an import of this run of the host is built
\* from what its map was written from.
ReportDescribesImport ==
  \A c \in Collections :
    workspace[c] \notin {None, Torn} /\ workspace[c].kills = kills => report[c] = workspace[c].map

\* An import that fails, is refused or is killed before its checks have passed
\* leaves the import it found in place.  After that the old one is removed before
\* the new one is renamed, and a failure between the two leaves neither.
PriorKept ==
  [][(pc' = "idle" /\ pc \notin {"idle", "remove", "rename"}) => (workspace'[target] = prior)]_vars
=============================================================================
