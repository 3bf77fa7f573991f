--------------------------- MODULE SceneCollection ---------------------------
(***************************************************************************)
(* parse_obs_source_entries: one pass over the tokens of an OBS scene      *)
(* collection that finds its sources, filters, transitions and scripts.    *)
(*                                                                         *)
(* No tree is built.  The walk keeps a stack of the objects that are open, *)
(* a stack of the arrays that are open, and the entries found so far.  An  *)
(* entry is made as soon as an object has a name and an id; what the text  *)
(* gives later, its settings or the name of its parent, is patched in.     *)
(***************************************************************************)
EXTENDS Naturals, Sequences, FiniteSets

CONSTANTS
  Files,      \* a sequence of collections: [text : the tokens, holds : the entries
              \* in it, ordered : its objects give their keys in one order]
  Strings,    \* the names, ids and labels that occur in them, with "" for unset
  Settings,   \* the bodies of "settings" objects
  Keys,       \* the keys that open an array, with "" for an array without key
  None

Empty == ""

ASSUME SettingsAssumption == None \notin Settings
ASSUME StringsAssumption == Empty \in Strings /\ Empty \in Keys

VARIABLES
  doc,      \* the collection that is walked
  pos,      \* the token that is next
  stack,    \* the objects that are open, the innermost last
  arrays,   \* the arrays that are open, the innermost last
  entries,  \* what was found
  pending   \* <<entry, depth of its parent>> of the filters without a parent

walk == <<doc, pos, stack, arrays, entries, pending>>

EntryKinds == {"source", "filter", "transition", "script"}

\* Tokens: {, }, [ and ] with the key of an array, and the members name, id,
\* path (of a script: its directory is kept apart) and settings.
Token(sym, val) == [sym |-> sym, dir |-> Empty, val |-> val]
PathToken(dir, file) == [sym |-> "path", dir |-> dir, val |-> file]

IsToken(t) ==
  \/ t.sym \in {"{", "}", "]"}
  \/ t.sym = "[" /\ t.val \in Keys
  \/ t.sym \in {"name", "id", "path"} /\ t.val \in Strings
  \/ t.sym = "settings" /\ t.val \in Settings

Documents == Files

ASSUME DocumentsAssumption ==
  \A d \in DOMAIN Documents :
    LET text == Documents[d].text
    IN  /\ text \in Seq([sym : STRING, dir : STRING, val : Strings \cup Keys \cup Settings])
        /\ \A i \in DOMAIN text : IsToken(text[i])

-----------------------------------------------------------------------------
(* The parts of the walk                                                   *)


Text == Documents[doc].text

Innermost(seq) == seq[Len(seq)]
Outer(seq) == SubSeq(seq, 1, Len(seq) - 1)
WithInnermost(seq, e) == [seq EXCEPT ![Len(seq)] = e]

\* ObjectFields, as an object of this kind begins.
Opened(kind, parent, depth) ==
  [name |-> Empty, id |-> Empty, emitted |-> FALSE, settings |-> None, entry |-> 0,
   kind |-> kind, parent |-> parent, depth |-> depth]

\* What the innermost array says of the objects in it.
InArray(a) ==
  CASE a.key = "filters" -> Opened("filter", a.owner, a.depth)
    [] a.key = "transitions" -> Opened("transition", Empty, 0)
    [] a.key = "scripts-tool" -> Opened("script", Empty, 0)
    [] OTHER -> Opened("source", Empty, 0)

\* An array knows the object whose member it is; one without key, no object.
ArrayContext(key) ==
  IF key = Empty \/ stack = <<>>
  THEN [key |-> key, owner |-> Empty, depth |-> 0]
  ELSE [key |-> key, owner |-> Innermost(stack).name, depth |-> Len(stack)]

Entry(object) ==
  [label |-> object.name, module |-> object.id, settings |-> object.settings,
   kind |-> IF object.kind = "script" THEN "source" ELSE object.kind,
   parent |-> object.parent]

ScriptEntry(file) ==
  [label |-> file, module |-> Empty, settings |-> None, kind |-> "script", parent |-> Empty]

\* Settings that come after the name and the id of their object.
SettingsPatched(object, settings) ==
  IF object.entry # 0 /\ entries[object.entry].settings = None
  THEN [entries EXCEPT ![object.entry].settings = settings]
  ELSE entries

\* Mutant of ParentPatched: every filter of that depth is patched.
ParentPatchedAnew(found, object) ==
  IF object.name = Empty THEN found
  ELSE [i \in DOMAIN found |->
          IF <<i, Len(stack)>> \in pending THEN [found[i] EXCEPT !.parent = object.name]
          ELSE found[i]]

\* The filters that were found before the name of the object that closes.
ParentPatched(found, object) ==
  IF object.name = Empty THEN found
  ELSE [i \in DOMAIN found |->
          IF <<i, Len(stack)>> \in pending /\ found[i].parent = Empty
          THEN [found[i] EXCEPT !.parent = object.name] ELSE found[i]]

\* An entry like the one before it is not made twice.
Repeats(object) ==
  /\ entries # <<>>
  /\ Innermost(entries).label = object.name /\ Innermost(entries).module = object.id

Complete(object) == ~object.emitted /\ object.name # Empty /\ object.id # Empty

-----------------------------------------------------------------------------
(* One action per kind of token                                            *)

At(sym) == pos <= Len(Text) /\ Text[pos].sym = sym /\ pos' = pos + 1 /\ UNCHANGED doc
Value == Text[pos].val

OpenObject ==
  /\ At("{")
  /\ stack' = Append(stack, IF arrays = <<>> THEN Opened("source", Empty, 0)
                            ELSE InArray(Innermost(arrays)))
  /\ UNCHANGED <<arrays, entries, pending>>

CloseObject ==
  /\ At("}") /\ stack # <<>>
  /\ LET closing == Innermost(stack)
     IN  entries' = ParentPatched(
                      IF closing.settings = None THEN entries
                      ELSE SettingsPatched(closing, closing.settings), closing)
  /\ stack' = Outer(stack)
  /\ UNCHANGED <<arrays, pending>>

OpenArray ==
  /\ At("[")
  /\ arrays' = Append(arrays, ArrayContext(Value))
  /\ UNCHANGED <<stack, entries, pending>>

CloseArray ==
  /\ At("]") /\ arrays # <<>>
  /\ arrays' = Outer(arrays)
  /\ UNCHANGED <<stack, entries, pending>>

ReadSettings ==
  /\ At("settings") /\ stack # <<>>
  /\ stack' = WithInnermost(stack, [Innermost(stack) EXCEPT !.settings = Value])
  /\ entries' = SettingsPatched(Innermost(stack), Value)
  /\ UNCHANGED <<arrays, pending>>

\* Mutant of IndexGiven: the index is taken after the entry was added.
IndexBehind(object) == IF Repeats(object) THEN 0 ELSE Len(entries) + 2

\* The entry that the object patches from now on: none if it repeats another.
IndexGiven(object) == IF Repeats(object) THEN 0 ELSE Len(entries) + 1

Orphan(object) == object.kind = "filter" /\ object.parent = Empty /\ object.depth # 0

\* The innermost object, with the member that was read: the entry is made once
\* it has a name and an id.
Read(object) ==
  /\ stack' = WithInnermost(stack, IF Complete(object)
                                   THEN [object EXCEPT !.emitted = TRUE, !.entry = IndexGiven(object)]
                                   ELSE object)
  /\ IF Complete(object) /\ ~Repeats(object)
     THEN /\ entries' = Append(entries, Entry(object))
          /\ pending' = IF Orphan(object) THEN pending \cup {<<Len(entries) + 1, object.depth>>}
                        ELSE pending
     ELSE UNCHANGED <<entries, pending>>
  /\ UNCHANGED arrays

ReadName ==
  /\ At("name") /\ stack # <<>>
  /\ Read([Innermost(stack) EXCEPT !.name = Value])

ReadId ==
  /\ At("id") /\ stack # <<>>
  /\ Read([Innermost(stack) EXCEPT !.id = Value])

Scripted == stack # <<>> /\ Innermost(stack).kind = "script" /\ ~Innermost(stack).emitted

\* The path of a script makes its entry, under the name of its file.
ReadPath ==
  /\ At("path") /\ Scripted
  /\ entries' = Append(entries, ScriptEntry(Value))
  /\ stack' = WithInnermost(stack, [Innermost(stack) EXCEPT !.emitted = TRUE])
  /\ UNCHANGED <<arrays, pending>>

\* A token that means nothing where it is: the pass goes on behind it.
Ignore ==
  /\ \/ At("path") /\ ~Scripted
     \/ stack = <<>> /\ (At("}") \/ At("name") \/ At("id"))
     \/ At("]") /\ arrays = <<>>
  /\ UNCHANGED <<stack, arrays, entries, pending>>

Walk ==
  \/ OpenObject \/ CloseObject \/ OpenArray \/ CloseArray
  \/ ReadSettings \/ ReadName \/ ReadId \/ ReadPath \/ Ignore

WalkInit ==
  /\ doc \in DOMAIN Documents /\ pos = 1
  /\ stack = <<>> /\ arrays = <<>> /\ entries = <<>> /\ pending = {}

Walked == pos > Len(Text)

-----------------------------------------------------------------------------
(* The types of the walk                                                   *)

ObjectTypes ==
  [name : Strings, id : Strings, emitted : BOOLEAN, settings : Settings \cup {None},
   entry : 0..Len(entries), kind : EntryKinds, parent : Strings, depth : Nat]
ArrayTypes == [key : Keys, owner : Strings, depth : Nat]
EntryTypes ==
  [label : Strings, module : Strings, settings : Settings \cup {None}, kind : EntryKinds,
   parent : Strings]

WalkTypeOK ==
  /\ doc \in DOMAIN Documents /\ pos \in 1..Len(Text) + 1
  /\ stack \in Seq(ObjectTypes) /\ arrays \in Seq(ArrayTypes)
  /\ entries \in Seq(EntryTypes) /\ pending \subseteq (1..Len(entries)) \X Nat
=============================================================================
