------------------------ MODULE ImportCustodyProofs ------------------------
(* Proofs about ImportCustody, for every set of collections, of bodies, of  *)
(* backups and of files that cannot be opened, whatever the net finds, and  *)
(* every number of edits, imports and restarts.                             *)
EXTENDS ImportCustody, TLAPS

\* The request under way has read its collection, and passed the net in time.
Underway ==
  /\ pc # "idle" => json # None
  /\ pc \in {"remove", "rename"} => \A c \in Scanned : temp[c] \notin Visible

\* An import is never of a later run of the host than this one.
Dated == \A w \in Imports : w.kills <= kills

\* The net's part of NoSecretImported: it is looked at after every edit that counts.
Netted == \A w \in Imports, c \in Scanned : w.files[c] \notin Visible

IInv == TypeOK /\ Underway /\ Dated /\ Netted /\ ReportDescribesImport

-----------------------------------------------------------------------------

\* A tree without files, and what reads and redactions give, are trees.
LEMMA Reads ==
  /\ Empty \in Trees
  /\ TypeOK => Tree \in Trees
  /\ \A c \in Collections : TypeOK => Text(c) \in Texts \cup {None}
  /\ \A body \in Texts \cup {None} : Redact(body) \in Texts \cup {Redacted, None}
BY BodiesAssumption DEF Empty, Trees, Tree, Text, Texts, Redact, TypeOK

\* No action but Publish puts an import in its place, and reports stay with it.
LEMMA Kept ==
  ASSUME IInv, kills' \in Nat, kills' >= kills,
         \A c \in Collections : workspace'[c] \in {workspace[c], None, Torn},
         \A c \in Collections : workspace[c] \notin {None, Torn} /\ kills' = workspace[c].kills
                                  => report'[c] = report[c]
  PROVE  Dated' /\ Netted' /\ ReportDescribesImport'
<1> USE DEF IInv, TypeOK, Imports
<1>1. \A w \in Imports' : w \in Imports
  OBVIOUS
<1>2. \A w \in Imports : w.kills \in Nat
  OBVIOUS
<1>3. Dated'  BY <1>1, <1>2 DEF Dated
<1>4. Netted'  BY <1>1 DEF Netted
<1>5. ReportDescribesImport'
  <2> SUFFICES ASSUME NEW c \in Collections,
                      workspace'[c] \notin {None, Torn}, workspace'[c].kills = kills'
               PROVE  report'[c] = workspace'[c].map
    BY DEF ReportDescribesImport
  <2>1. workspace'[c] = workspace[c] /\ workspace[c] \in Imports  OBVIOUS
  <2>2. workspace[c].kills <= kills /\ workspace[c].kills \in Nat /\ kills \in Nat
    BY <2>1, <1>2 DEF Dated
  <2>3. workspace[c].kills = kills  BY <2>1, <2>2
  <2> QED  BY <2>1, <2>3 DEF ReportDescribesImport
<1> QED  BY <1>3, <1>4, <1>5

\* The steps that read: the import of the last time is not touched.
LEMMA ReadStep ==
  ASSUME IInv,
         DigestBefore \/ BeginCopy \/ \E c \in Collections : Load(c) \/ Scan(c) \/ CopyFile(c)
  PROVE  IInv'
<1> USE DEF IInv
<1>1. TypeOK'
  <2>1. CASE \E c \in Collections : Load(c)
    BY <2>1, Reads, BoundAssumption, BodiesAssumption DEF TypeOK, Load, Goto, history
  <2>2. CASE DigestBefore \/ BeginCopy
    BY <2>2, Reads DEF TypeOK, DigestBefore, BeginCopy, Goto, history
  <2>3. CASE \E c \in Collections : Scan(c) \/ CopyFile(c)
    BY <2>3, Reads, BodiesAssumption DEF TypeOK, Scan, CopyFile, Copied, history, Trees, Texts
  <2> QED  BY <2>1, <2>2, <2>3
<1>2. Underway'
  BY BodiesAssumption
     DEF TypeOK, Underway, Load, DigestBefore, Scan, BeginCopy, CopyFile, Goto, Text, Texts
<1>3. workspace' = workspace /\ report' = report /\ kills' = kills
  BY DEF Load, DigestBefore, Scan, BeginCopy, CopyFile, history
<1>4. Dated' /\ Netted' /\ ReportDescribesImport'
  BY <1>3 DEF Dated, Netted, ReportDescribesImport, Imports
<1> QED  BY <1>1, <1>2, <1>4

\* The two checks, and the removal of the import of the last time.
LEMMA CheckStep == ASSUME IInv, DigestAfter \/ SafetyNet \/ RemoveOld PROVE IInv'
<1> USE DEF IInv
<1>1. TypeOK'  BY DEF TypeOK, DigestAfter, SafetyNet, RemoveOld, Goto, history
<1>2. Underway'
  BY DEF TypeOK, Underway, DigestAfter, SafetyNet, RemoveOld, Goto, Unredacted
<1>3. report' = report /\ kills' = kills /\ kills \in Nat
  BY BoundAssumption DEF DigestAfter, SafetyNet, RemoveOld, history, TypeOK
<1>4. \A c \in Collections : workspace'[c] \in {workspace[c], None, Torn}
  BY DEF DigestAfter, SafetyNet, RemoveOld, TypeOK
<1> QED  BY <1>1, <1>2, <1>3, <1>4, Kept

\* The import takes its place, with the report of what its map was written from.
LEMMA PublishStep == ASSUME IInv, Publish PROVE IInv'
<1> USE DEF IInv
<1> DEFINE new == [files |-> temp, map |-> json, edits |-> undetected, kills |-> kills, before |-> before]
<1>1. /\ target \in Collections /\ json \in Texts /\ kills \in Nat /\ edits \in Nat
      /\ new \in [files : Trees, map : Texts, edits : Nat, kills : Nat, before : Trees]
  BY BoundAssumption DEF TypeOK, Publish, Underway
<1>2. /\ workspace' = [workspace EXCEPT ![target] = new]
      /\ report' = [report EXCEPT ![target] = json] /\ kills' = kills
  BY DEF Publish, history
<1> HIDE DEF new
<1>3. TypeOK'
  BY <1>1, <1>2, Reads DEF TypeOK, Publish, EndRequest, history
<1>4. new.kills = kills /\ new.map = json /\ \A c \in Scanned : new.files[c] \notin Visible
  BY DEF new, Publish, Underway
<1>5. Underway'  BY DEF Underway, Publish, EndRequest
<1>6. \A w \in Imports' : w \in Imports \/ w = new
  BY <1>1, <1>2 DEF Imports, TypeOK
<1>7. Dated'  BY <1>1, <1>2, <1>4, <1>6 DEF Dated
<1>8. Netted'  BY <1>4, <1>6 DEF Netted
<1>9. ReportDescribesImport'
  BY <1>1, <1>2, <1>4 DEF ReportDescribesImport, TypeOK
<1> QED  BY <1>3, <1>5, <1>7, <1>8, <1>9

\* A request that fails, and a host that is killed.
LEMMA EndStep == ASSUME IInv, Refused \/ Kill PROVE IInv'
<1> USE DEF IInv
<1>1. TypeOK'
  BY Reads, BoundAssumption DEF TypeOK, Refused, Kill, EndRequest, MayTear, history
<1>2. Underway'  BY DEF Underway, Refused, Kill, EndRequest
<1>3. kills \in Nat /\ kills' \in Nat /\ kills' >= kills /\ (kills' = kills => report' = report)
  BY BoundAssumption DEF TypeOK, Refused, Kill, history
<1>4. \A c \in Collections : workspace'[c] \in {workspace[c], None, Torn}
  BY DEF Refused, Kill, MayTear, TypeOK
<1>5. \A c \in Collections : workspace[c] \notin {None, Torn} /\ kills' = workspace[c].kills
                               => report'[c] = report[c]
  BY <1>3 DEF Dated, Imports, TypeOK
<1> QED  BY <1>1, <1>2, <1>3, <1>4, <1>5, Kept

\* import.report, and the owner of the config directory.
LEMMA OtherStep ==
  ASSUME IInv, NEW c \in Collections, Report(c) \/ \E body \in Bodies \cup {None} : Edit(c, body)
  PROVE  IInv'
<1> USE DEF IInv
<1>1. TypeOK'
  BY Reads, BoundAssumption, BodiesAssumption DEF TypeOK, Report, Edit, request, history
<1>2. Underway'  BY DEF Underway, Report, Edit, request
<1>3. workspace' = workspace /\ kills' = kills /\ kills \in Nat
  BY BoundAssumption DEF Report, Edit, history, TypeOK
<1>4. \A d \in Collections : workspace[d] \notin {None, Torn} /\ kills' = workspace[d].kills
                               => report'[d] = report[d]
  BY <1>3, BodiesAssumption DEF Report, Edit, ReportDescribesImport, TypeOK, Texts
<1> QED  BY <1>1, <1>2, <1>3, <1>4, Kept

\* What the request knows, and what the imports of this run hold, is inductive.
THEOREM InductiveInvariant == Spec => []IInv
<1>1. Init => IInv
  BY Reads, BoundAssumption
     DEF Init, IInv, TypeOK, Underway, Dated, Netted, ReportDescribesImport, Imports
<1>2. IInv /\ [Next]_vars => IInv'
  <2> SUFFICES ASSUME IInv, [Next]_vars PROVE IInv'  OBVIOUS
  <2>1. CASE UNCHANGED vars
    BY <2>1 DEF vars, request, history, IInv, TypeOK, Underway, Dated, Netted,
                ReportDescribesImport, Imports
  <2>2. CASE Next
    BY <2>2, ReadStep, CheckStep, PublishStep, EndStep, OtherStep DEF Next, Import
  <2> QED  BY <2>1, <2>2
<1> QED  BY <1>1, <1>2, PTL DEF Spec

\* Every variable has its type.
THEOREM TypeCorrect == Spec => []TypeOK
BY InductiveInvariant, PTL DEF IInv

\* An import of this run and its report are of the same text.
THEOREM ReportsAreOfTheImport == Spec => []ReportDescribesImport
BY InductiveInvariant, PTL DEF IInv

-----------------------------------------------------------------------------
(* One edit during a copy is seen, and a failure keeps the last import.     *)

\* While the digest still fits, what was read is what was digested, provided
\* that there was one edit at most; without an edit, it does fit.
Watched ==
  /\ pc \in {"scan", "copy"} /\ undetected = 0 => Tree = before
  /\ pc \in {"scan", "copy"} => \A c \in Backups : overrides[c] = None
  /\ pc \in {"scan", "copy"} /\ undetected <= 1 /\ Tree = before =>
       \A c \in Collections :
         /\ c \in Scanned /\ (pc = "copy" \/ c \in visited) => overrides[c] = Redactions(before)[c]
         /\ pc = "copy" /\ c \in visited => temp[c] = Redactions(before)[c]
  /\ pc \in {"net", "remove", "rename"} /\ undetected <= 1 => temp = Redactions(before)

\* Until its checks have passed, the request has the last import before it.
Found == pc \in {"digest", "scan", "copy", "net"} => workspace[target] = prior

WInv == Watched /\ OneEditIsSeen /\ Found

\* While the tree is what was digested, a collection is copied redacted, and what is
\* beside the collections as it is.
LEMMA CopiedIsRedacted ==
  ASSUME TypeOK, NEW c \in Collections, Tree = before, CanCopy(c),
         c \in Scanned => overrides[c] = Redactions(before)[c],
         c \in Backups => overrides[c] = None
  PROVE  Copied(c) = Redactions(before)[c]
<1>1. before[c] = Text(c)
  BY DEF Tree
<1>2. CASE c \in Scanned
  <2>1. Redactions(before)[c] = Redact(Text(c))
    BY <1>1, <1>2 DEF Redactions
  <2>2. CASE source[c] = None
    BY <1>2, <2>1, <2>2, BodiesAssumption DEF Copied, Text, Redact
  <2>3. CASE source[c] # None
    <3>1. Text(c) # None /\ Redact(Text(c)) # None
      BY <2>3, BodiesAssumption DEF Text, Redact, TypeOK
    <3> QED  BY <1>2, <2>1, <2>3, <3>1 DEF Copied
  <2> QED  BY <2>2, <2>3
<1>3. CASE c \notin Scanned
  <2>1. c \in Backups /\ overrides[c] = None /\ Redactions(before)[c] = Text(c)
    BY <1>1, <1>3 DEF Redactions, Scanned
  <2>2. Text(c) = source[c]  BY <2>1 DEF CanCopy, Text
  <2> QED  BY <2>1, <2>2 DEF Copied
<1> QED  BY <1>2, <1>3

\* What the steps of a request before its checks keep.
LEMMA WatchRead ==
  ASSUME IInv, WInv,
         DigestBefore \/ BeginCopy \/ \E c \in Collections : Load(c) \/ Scan(c) \/ CopyFile(c)
  PROVE  WInv'
<1> USE DEF IInv
<1>1. workspace' = workspace /\ source' = source /\ Tree' = Tree
  BY DEF Load, DigestBefore, Scan, BeginCopy, CopyFile, Tree, Text
<1>2. OneEditIsSeen'
  BY <1>1 DEF WInv, OneEditIsSeen, Imports
<1>3. Found'
  BY <1>1 DEF WInv, Found, Load, DigestBefore, Scan, BeginCopy, CopyFile, Goto, TypeOK
<1>4. Watched'
  <2>1. CASE \E c \in Collections : Load(c)
    BY <2>1 DEF Load, Goto, Watched
  <2>2. CASE DigestBefore
    <3>1. /\ pc' = "scan" /\ before' = Tree /\ overrides' = Empty /\ visited' = {} /\ undetected' = 0
      BY <2>2 DEF DigestBefore, Goto
    <3>2. \A c \in Backups : overrides'[c] = None
      BY <3>1, BodiesAssumption DEF Empty
    <3> QED  BY <1>1, <3>1, <3>2 DEF Watched
  <2>3. CASE BeginCopy
    BY <1>1, <2>3 DEF BeginCopy, Goto, Watched, WInv, history, Redactions, Scanned
  <2>4. ASSUME NEW c \in Collections, Scan(c) PROVE Watched'
    <3>1. /\ pc = "scan" /\ pc' = pc /\ visited' = visited \cup {c} /\ before' = before
          /\ undetected' = undetected /\ Redactions(before)' = Redactions(before)
          /\ overrides' = [overrides EXCEPT ![c] = Redact(Text(c))]
      BY <2>4 DEF Scan, history, Redactions
    <3>2. c \in Scanned /\ c \notin Backups /\ (Tree = before => Redact(Text(c)) = Redactions(before)[c])
      BY <2>4 DEF Scan, Scanned, Tree, Redactions
    <3>3. overrides \in Trees
      BY DEF TypeOK
    <3> QED  BY <1>1, <3>1, <3>2, <3>3 DEF Watched, WInv, Trees
  <2>5. ASSUME NEW c \in Collections, CopyFile(c) PROVE Watched'
    <3>1. /\ pc = "copy" /\ pc' = pc /\ visited' = visited \cup {c} /\ before' = before
          /\ undetected' = undetected /\ Redactions(before)' = Redactions(before) /\ overrides' = overrides
          /\ temp' = [temp EXCEPT ![c] = Copied(c)]
      BY <2>5 DEF CopyFile, history, Redactions
    <3>2. /\ Tree = before
          /\ c \in Scanned => overrides[c] = Redactions(before)[c]
          /\ c \in Backups => overrides[c] = None
          => Copied(c) = Redactions(before)[c]
      BY <2>5, CopiedIsRedacted DEF CopyFile
    <3>3. temp \in Trees
      BY DEF TypeOK
    <3> QED  BY <1>1, <3>1, <3>2, <3>3 DEF Watched, WInv, Trees
  <2> QED  BY <2>1, <2>2, <2>3, <2>4, <2>5
<1> QED  BY <1>2, <1>3, <1>4 DEF WInv

\* The checks, the removal, the rename, and every end of a request.
LEMMA WatchEnd ==
  ASSUME IInv, WInv,
         DigestAfter \/ SafetyNet \/ RemoveOld \/ Publish \/ Refused \/ Kill
  PROVE  WInv'
<1> USE DEF IInv, WInv
<1>1. CASE DigestAfter
  <2>1. /\ pc = "copy" /\ pc' = "net" /\ Tree = before /\ visited = Collections
        /\ UNCHANGED <<source, target, before, prior, temp, workspace, undetected>>
    BY <1>1 DEF DigestAfter, Goto, Unchanged, history
  <2>2. undetected <= 1 => temp = Redactions(before)
    BY <2>1 DEF Watched, Redactions, TypeOK, Trees
  <2>3. Watched'  BY <2>1, <2>2 DEF Watched, Redactions
  <2>4. Found' /\ OneEditIsSeen'  BY <2>1 DEF Found, OneEditIsSeen, Imports
  <2> QED  BY <2>3, <2>4
<1>2. CASE SafetyNet
  BY <1>2 DEF SafetyNet, Goto, history, Watched, Redactions, Found, OneEditIsSeen, Imports
<1>3. CASE RemoveOld
  <2>1. Watched' /\ Found'
    BY <1>3 DEF RemoveOld, Goto, history, Watched, Redactions, Found
  <2>2. \A w \in Imports' : w \in Imports
    BY <1>3 DEF RemoveOld, Imports, TypeOK
  <2> QED  BY <2>1, <2>2 DEF OneEditIsSeen
<1>4. CASE Publish
  <2> DEFINE new == [files |-> temp, map |-> json, edits |-> undetected, kills |-> kills,
                     before |-> before]
  <2>1. workspace' = [workspace EXCEPT ![target] = new]
    BY <1>4 DEF Publish
  <2>2. new.edits <= 1 => new.files = Redactions(new.before)
    BY <1>4 DEF Publish, Watched, Redactions
  <2> HIDE DEF new
  <2>3. \A w \in Imports' : w \in Imports \/ w = new
    BY <2>1 DEF Imports, TypeOK
  <2>4. OneEditIsSeen'  BY <2>2, <2>3 DEF OneEditIsSeen
  <2>5. Watched' /\ Found'  BY <1>4 DEF Publish, EndRequest, Watched, Found
  <2> QED  BY <2>4, <2>5
<1>5. CASE Refused \/ Kill
  <2>1. Watched' /\ Found'  BY <1>5 DEF Refused, Kill, EndRequest, Watched, Found
  <2>2. \A w \in Imports' : w \in Imports
    BY <1>5 DEF Refused, Kill, MayTear, Imports, TypeOK
  <2> QED  BY <2>1, <2>2 DEF OneEditIsSeen
<1> QED  BY <1>1, <1>2, <1>3, <1>4, <1>5

\* The owner of the config directory: of two edits the second one may hide the first.
LEMMA WatchOther ==
  ASSUME IInv, WInv, NEW c \in Collections,
         Report(c) \/ \E body \in Bodies \cup {None} : Edit(c, body)
  PROVE  WInv'
<1> USE DEF IInv, WInv
<1>1. workspace' = workspace /\ UNCHANGED request /\ temp' = temp
  BY DEF Report, Edit
<1>2. Found' /\ OneEditIsSeen'
  BY <1>1 DEF Found, OneEditIsSeen, Imports, request
<1>3. Redactions(before)' = Redactions(before)
  BY <1>1 DEF request, Redactions
<1>4. CASE Report(c)
  BY <1>1, <1>2, <1>3, <1>4 DEF Report, Watched, request, history, Tree, Text
<1>5. CASE \E body \in Bodies \cup {None} : Edit(c, body)
  <2>1. pc # "idle" => undetected' = undetected + 1 /\ undetected \in Nat
    BY <1>5 DEF Edit, TypeOK
  <2>2. Watched'
    BY <1>1, <1>3, <2>1 DEF Watched, request
  <2> QED  BY <1>2, <2>2
<1> QED  BY <1>4, <1>5

\* What a request has seen of its tree, and found in its place, is inductive.
THEOREM WatchInvariant == Spec => []WInv
<1>1. Init => WInv
  BY DEF Init, WInv, Watched, Found, OneEditIsSeen, Imports
<1>2. IInv /\ WInv /\ [Next]_vars => WInv'
  <2> SUFFICES ASSUME IInv, WInv, [Next]_vars PROVE WInv'  OBVIOUS
  <2>1. CASE UNCHANGED vars
    BY <2>1 DEF vars, request, history, WInv, Watched, Found, OneEditIsSeen, Imports, Redactions,
                Tree, Text
  <2>2. CASE Next
    BY <2>2, WatchRead, WatchEnd, WatchOther DEF Next, Import
  <2> QED  BY <2>1, <2>2
<1> QED  BY <1>1, <1>2, InductiveInvariant, PTL DEF Spec

\* An import is the redacted tree of its first digest, if the owner edited once at most.
THEOREM EditsAreSeen == Spec => []OneEditIsSeen
BY WatchInvariant, PTL DEF WInv

\* No edit, unreadable file, failure or restart brings a raw string credential into an
\* imported collection, and one edit brings none of any type.
THEOREM ImportsAreRedacted == Spec => []NoSecretImported
<1>1. IInv /\ WInv => NoSecretImported
  <2> SUFFICES ASSUME IInv, WInv, NEW w \in Imports, NEW c \in Scanned
               PROVE  w.files[c] \notin Visible /\ (w.edits <= 1 => w.files[c] \notin Secrets)
    BY DEF NoSecretImported
  <2>1. w.files[c] \notin Visible  BY DEF IInv, Netted
  <2>2. ASSUME w.edits <= 1 PROVE w.files[c] \notin Secrets
    <3>1. w.files = Redactions(w.before)  BY <2>2 DEF WInv, OneEditIsSeen
    <3>2. c \in Collections  BY DEF Scanned
    <3>3. w.files[c] = Redact(w.before[c])  BY <3>1, <3>2 DEF Redactions
    <3> QED  BY <3>3, BodiesAssumption DEF Redact
  <2> QED  BY <2>1, <2>2
<1> QED  BY <1>1, InductiveInvariant, WatchInvariant, PTL

\* A request that ends before its checks have passed leaves the import it found.
THEOREM PriorIsKept == Spec => PriorKept
<1>1. IInv /\ WInv /\ [Next]_vars =>
        [(pc' = "idle" /\ pc \notin {"idle", "remove", "rename"}) => (workspace'[target] = prior)]_vars
  <2> SUFFICES ASSUME IInv, WInv, [Next]_vars, pc' = "idle",
                      pc \notin {"idle", "remove", "rename"}
               PROVE  workspace'[target] = prior \/ UNCHANGED vars
    OBVIOUS
  <2>1. pc \in {"digest", "scan", "copy", "net"} /\ workspace[target] = prior
    BY DEF IInv, WInv, TypeOK, Found
  <2>2. CASE Refused \/ Kill
    BY <2>1, <2>2 DEF Refused, Kill, MayTear
  <2>3. CASE Next /\ ~Refused /\ ~Kill
    <3>1. pc = "rename" \/ pc' = pc \/ pc' # "idle"
      BY <2>3 DEF Next, Import, Load, DigestBefore, Scan, BeginCopy, CopyFile, DigestAfter, SafetyNet,
                  RemoveOld, Publish, Goto, Report, Edit, request
    <3> QED  BY <2>1, <3>1
  <2> QED  BY <2>2, <2>3
<1> QED  BY <1>1, InductiveInvariant, WatchInvariant, PTL DEF Spec, PriorKept
=============================================================================
