------------------------- MODULE ImportReportProofs -------------------------
(***************************************************************************)
(* Proofs for ImportReport, for every collection, vocabulary of loaded     *)
(* types and number of requests: the walk keeps its indices in range,      *)
(* loses nothing it has found and finds what a saved collection holds,     *)
(* every entry it kept has an item of the report, the map covers the       *)
(* report, and an import that succeeds leaves no permission prompt active. *)
(***************************************************************************)
EXTENDS ImportReport, ObsCollections, FiniteSetTheorems, SequenceTheorems, NaturalsInduction,
        WellFoundedInduction, TLAPS

-----------------------------------------------------------------------------
(* The tokens and the two stacks                                           *)

\* The token that is next is one of those the walk knows.
LEMMA NextToken ==
  ASSUME WalkTypeOK, pos <= Len(Text)
  PROVE  IsToken(Text[pos])
<1>1. doc \in DOMAIN Documents /\ pos \in 1..Len(Text) + 1
  BY DEF WalkTypeOK
<1>2. Text \in Seq([sym : STRING, dir : STRING, val : Strings \cup Keys \cup Settings])
  BY <1>1, DocumentsAssumption DEF Text
<1>3. Len(Text) \in Nat /\ DOMAIN Text = 1..Len(Text)
  BY <1>2, LenProperties
<1>4. pos \in DOMAIN Text
  BY <1>1, <1>3
<1> QED
  BY <1>1, <1>4, DocumentsAssumption DEF Text

\* A stack that is not empty: its innermost element, and what is left without it.
LEMMA Stacks ==
  ASSUME NEW S, NEW seq \in Seq(S), seq # <<>>
  PROVE  /\ Innermost(seq) \in S
         /\ Outer(seq) \in Seq(S)
         /\ \A e \in S : WithInnermost(seq, e) \in Seq(S)
<1>1. Len(seq) \in 1..Len(seq)
  BY EmptySeq
<1>2. Innermost(seq) \in S
  BY <1>1, ElementOfSeq DEF Innermost
<1>3. \A i \in 1..(Len(seq) - 1) : seq[i] \in S
  BY ElementOfSeq, <1>1
<1>4. Outer(seq) \in Seq(S)
  BY <1>1, <1>3, SubSeqProperties, LenProperties DEF Outer
<1>5. \A e \in S : WithInnermost(seq, e) \in Seq(S)
  BY <1>1, ExceptSeq DEF WithInnermost
<1> QED
  BY <1>2, <1>4, <1>5

-----------------------------------------------------------------------------
(* What the walk has found stays                                           *)

IsSet(string) == string # Empty

\* Entries are added, and patched where they have no settings or no parent.
Kept(old, new) ==
  /\ Len(old) <= Len(new)
  /\ \A i \in 1..Len(old) :
       /\ new[i].label = old[i].label /\ new[i].module = old[i].module
       /\ new[i].kind = old[i].kind
       /\ IsSet(old[i].parent) => new[i].parent = old[i].parent
       /\ old[i].settings # None => new[i].settings = old[i].settings

\* A step of the walk keeps every entry that was found before.
FoundStays == [][Parse => Kept(entries, entries')]_vars

\* Both patches, of the settings and of the parent, keep number and names.
LEMMA SettingsPatch ==
  ASSUME WalkTypeOK, NEW o \in ObjectTypes, NEW s \in Settings
  PROVE  /\ SettingsPatched(o, s) \in Seq(EntryTypes)
         /\ Len(SettingsPatched(o, s)) = Len(entries)
         /\ Kept(entries, SettingsPatched(o, s))
<1>1. entries \in Seq(EntryTypes) /\ Len(entries) \in Nat
  BY LenProperties DEF WalkTypeOK
<1>2. CASE o.entry # 0 /\ entries[o.entry].settings = None
  <2>1. o.entry \in 1..Len(entries)
    BY <1>1, <1>2 DEF ObjectTypes
  <2> DEFINE e == [entries[o.entry] EXCEPT !.settings = s]
  <2>2. entries[o.entry] \in EntryTypes
    BY <1>1, <2>1, ElementOfSeq
  <2>3. e \in EntryTypes
    BY <2>2 DEF EntryTypes
  <2>4. SettingsPatched(o, s) = [entries EXCEPT ![o.entry] = e]
    BY <1>2 DEF SettingsPatched
  <2> HIDE DEF e
  <2>5. /\ SettingsPatched(o, s) \in Seq(EntryTypes)
        /\ Len(SettingsPatched(o, s)) = Len(entries)
        /\ \A j \in 1..Len(entries) :
             SettingsPatched(o, s)[j] = IF j = o.entry THEN e ELSE entries[j]
    BY <1>1, <2>1, <2>3, <2>4, ExceptSeq
  <2>6. /\ e.label = entries[o.entry].label /\ e.module = entries[o.entry].module
        /\ e.kind = entries[o.entry].kind /\ e.parent = entries[o.entry].parent
    BY <2>2 DEF e, EntryTypes
  <2> QED
    BY <1>1, <1>2, <2>5, <2>6 DEF Kept
<1>3. CASE ~(o.entry # 0 /\ entries[o.entry].settings = None)
  BY <1>1, <1>3 DEF SettingsPatched, Kept
<1> QED
  BY <1>2, <1>3

\* A patch of the parents keeps number and names.
LEMMA ParentPatch ==
  ASSUME NEW found \in Seq(EntryTypes), NEW o \in ObjectTypes
  PROVE  /\ ParentPatched(found, o) \in Seq(EntryTypes)
         /\ Len(ParentPatched(found, o)) = Len(found)
         /\ Kept(found, ParentPatched(found, o))
<1>1. Len(found) \in Nat /\ DOMAIN found = 1..Len(found)
  BY LenProperties
<1>2. CASE o.name = Empty
  <2>1. ParentPatched(found, o) = found
    BY <1>2 DEF ParentPatched
  <2> QED
    BY <1>1, <2>1 DEF Kept
<1>3. CASE o.name # Empty
  <2> DEFINE e(i) == IF <<i, Len(stack)>> \in pending /\ found[i].parent = Empty
                     THEN [found[i] EXCEPT !.parent = o.name] ELSE found[i]
  <2>1. ParentPatched(found, o) = [i \in 1..Len(found) |-> e(i)]
    BY <1>1, <1>3 DEF ParentPatched
  <2>2. \A i \in 1..Len(found) : found[i] \in EntryTypes
    BY ElementOfSeq
  <2>3. o.name \in Strings
    BY DEF ObjectTypes
  <2>4. \A i \in 1..Len(found) :
          /\ e(i) \in EntryTypes
          /\ e(i).label = found[i].label /\ e(i).module = found[i].module
          /\ e(i).kind = found[i].kind /\ e(i).settings = found[i].settings
          /\ IsSet(found[i].parent) => e(i).parent = found[i].parent
    BY <2>2, <2>3 DEF EntryTypes, IsSet
  <2> HIDE DEF e
  <2>5. [i \in 1..Len(found) |-> e(i)] \in Seq(EntryTypes)
    <3>1. [i \in 1..Len(found) |-> e(i)] \in [1..Len(found) -> EntryTypes]
      BY <2>4
    <3> QED
      BY <1>1, <3>1, SeqDef
  <2>6. DOMAIN ParentPatched(found, o) = 1..Len(found)
    BY <2>1
  <2>7. Len(ParentPatched(found, o)) = Len(found)
    BY <1>1, <2>1, <2>5, <2>6, LenProperties
  <2>8. \A i \in 1..Len(found) : ParentPatched(found, o)[i] = e(i)
    BY <2>1
  <2>9. Kept(found, ParentPatched(found, o))
    BY <1>1, <2>4, <2>7, <2>8 DEF Kept
  <2> QED
    BY <2>1, <2>5, <2>7, <2>9
<1> QED
  BY <1>2, <1>3

\* What is kept by two steps is kept by both together.
LEMMA KeptTransitive ==
  ASSUME NEW a \in Seq(EntryTypes), NEW b \in Seq(EntryTypes), NEW c \in Seq(EntryTypes),
         Kept(a, b), Kept(b, c)
  PROVE  Kept(a, c)
<1>1. Len(a) \in Nat /\ Len(b) \in Nat /\ Len(c) \in Nat
  BY LenProperties
<1>2. Len(a) <= Len(b) /\ Len(b) <= Len(c)
  BY DEF Kept
<1>3. \A i \in 1..Len(a) : i \in 1..Len(b)
  BY <1>1, <1>2
<1> QED
  BY <1>1, <1>2, <1>3 DEF Kept

-----------------------------------------------------------------------------
(* The types of the walk                                                   *)

\* The parts of the type of the walk, with Stacks for the two stacks.
LEMMA WalkTypes ==
  ASSUME WalkTypeOK
  PROVE  /\ Len(entries) \in Nat /\ Len(stack) \in Nat
         /\ stack # <<>> => /\ Innermost(stack) \in ObjectTypes
                            /\ Outer(stack) \in Seq(ObjectTypes)
                            /\ \A o \in ObjectTypes : WithInnermost(stack, o) \in Seq(ObjectTypes)
         /\ arrays # <<>> => /\ Innermost(arrays) \in ArrayTypes
                             /\ Outer(arrays) \in Seq(ArrayTypes)
<1>1. /\ stack \in Seq(ObjectTypes) /\ arrays \in Seq(ArrayTypes) /\ entries \in Seq(EntryTypes)
  BY DEF WalkTypeOK
<1> QED
  BY <1>1, Stacks, LenProperties

\* The walk moves on by one token of the same text.
LEMMA Moves ==
  ASSUME WalkTypeOK, NEW sym, At(sym)
  PROVE  /\ IsToken(Text[pos]) /\ Text[pos].sym = sym
         /\ doc' \in DOMAIN Documents /\ pos' \in 1..Len(Text') + 1
<1>1. doc \in DOMAIN Documents /\ pos \in 1..Len(Text) + 1 /\ pos <= Len(Text)
  BY DEF WalkTypeOK, At
<1>2. Text' = Text /\ doc' = doc /\ pos' = pos + 1
  BY DEF At, Text, Documents
<1>3. Len(Text) \in Nat
  BY <1>1, DocumentsAssumption, LenProperties DEF Text
<1>4. IsToken(Text[pos])
  BY <1>1, NextToken
<1> QED
  BY <1>1, <1>2, <1>3, <1>4 DEF At

\* The sequences of a step that adds no entry.
Steady ==
  /\ entries' \in Seq(EntryTypes) /\ Len(entries') = Len(entries) /\ Kept(entries, entries')
  /\ stack' \in Seq(ObjectTypes) /\ arrays' \in Seq(ArrayTypes) /\ pending' = pending

\* After such a step the sequences have their types.
LEMMA SteadyTypes ==
  ASSUME WalkTypeOK, Steady
  PROVE  /\ stack' \in Seq(ObjectTypes') /\ entries' \in Seq(EntryTypes')
         /\ arrays' \in Seq(ArrayTypes') /\ pending' \subseteq (1..Len(entries')) \X Nat
<1>1. ObjectTypes' = ObjectTypes
  BY DEF Steady, ObjectTypes
<1> QED
  BY <1>1 DEF Steady, WalkTypeOK, EntryTypes, ArrayTypes

\* An object that opens adds no entry.
LEMMA OpenObjectIsSteady ==
  ASSUME WalkTypeOK, OpenObject
  PROVE  Steady
<1> DEFINE o == IF arrays = <<>> THEN Opened("source", Empty, 0) ELSE InArray(Innermost(arrays))
<1>1. 0 \in 0..Len(entries)
  BY WalkTypes
<1>2. \A kind \in EntryKinds, parent \in Strings, depth \in Nat :
        Opened(kind, parent, depth) \in ObjectTypes
  BY <1>1, StringsAssumption DEF Opened, ObjectTypes
<1>3. arrays # <<>> => Innermost(arrays).owner \in Strings /\ Innermost(arrays).depth \in Nat
  BY WalkTypes DEF ArrayTypes
<1>4. o \in ObjectTypes
  BY <1>2, <1>3, StringsAssumption DEF InArray, EntryKinds
<1>5. stack \in Seq(ObjectTypes) /\ entries \in Seq(EntryTypes) /\ arrays \in Seq(ArrayTypes)
  BY DEF WalkTypeOK
<1>6. stack' = Append(stack, o) /\ UNCHANGED <<arrays, entries, pending>>
  BY DEF OpenObject
<1> HIDE DEF o
<1>7. stack' \in Seq(ObjectTypes)
  BY <1>4, <1>5, <1>6, AppendProperties
<1> QED
  BY <1>5, <1>6, <1>7, WalkTypes DEF Steady, Kept

\* An object that closes gives its settings to its entry, and adds none.
LEMMA CloseObjectIsSteady ==
  ASSUME WalkTypeOK, CloseObject
  PROVE  Steady
<1> DEFINE o == Innermost(stack)
           patched == IF o.settings = None THEN entries ELSE SettingsPatched(o, o.settings)
<1>1. o \in ObjectTypes /\ Outer(stack) \in Seq(ObjectTypes)
  BY WalkTypes DEF CloseObject
<1>2. entries \in Seq(EntryTypes) /\ arrays \in Seq(ArrayTypes)
  BY DEF WalkTypeOK
<1>3. /\ patched \in Seq(EntryTypes) /\ Len(patched) = Len(entries) /\ Kept(entries, patched)
  <2>1. CASE o.settings = None
    BY <1>2, <2>1, WalkTypes DEF Kept
  <2>2. CASE o.settings # None
    <3>1. o.settings \in Settings
      BY <1>1, <2>2 DEF ObjectTypes
    <3> QED
      BY <1>1, <2>2, <3>1, SettingsPatch
  <2> QED
    BY <2>1, <2>2
<1>4. entries' = ParentPatched(patched, o) /\ stack' = Outer(stack) /\ UNCHANGED <<arrays, pending>>
  BY DEF CloseObject
<1> HIDE DEF o, patched
<1>5. /\ entries' \in Seq(EntryTypes) /\ Len(entries') = Len(entries)
      /\ Kept(patched, entries')
  BY <1>1, <1>3, <1>4, ParentPatch
<1>6. Kept(entries, entries')
  BY <1>2, <1>3, <1>5, KeptTransitive
<1> QED
  BY <1>1, <1>2, <1>4, <1>5, <1>6 DEF Steady

\* Arrays that open and close add no entry.
LEMMA ArraysAreSteady ==
  ASSUME WalkTypeOK, OpenArray \/ CloseArray
  PROVE  Steady
<1>1. stack \in Seq(ObjectTypes) /\ entries \in Seq(EntryTypes) /\ arrays \in Seq(ArrayTypes)
  BY DEF WalkTypeOK
<1>2. Kept(entries, entries)
  BY WalkTypes DEF Kept
<1>3. CASE OpenArray
  <2>1. Value \in Keys
    <3>1. IsToken(Text[pos]) /\ Text[pos].sym = "["
      BY <1>3, Moves DEF OpenArray
    <3> QED
      BY <3>1 DEF IsToken, Value
  <2>2. ArrayContext(Value) \in ArrayTypes
    BY <2>1, StringsAssumption, WalkTypes DEF ArrayContext, ArrayTypes, ObjectTypes
  <2>3. arrays' = Append(arrays, ArrayContext(Value)) /\ UNCHANGED <<stack, entries, pending>>
    BY <1>3 DEF OpenArray
  <2> QED
    BY <1>1, <1>2, <2>2, <2>3, AppendProperties DEF Steady
<1>4. CASE CloseArray
  BY <1>1, <1>2, <1>4, WalkTypes DEF CloseArray, Steady
<1> QED
  BY <1>3, <1>4

\* Settings add no entry.
LEMMA ReadSettingsIsSteady ==
  ASSUME WalkTypeOK, ReadSettings
  PROVE  Steady
<1> DEFINE o == Innermost(stack)
<1>1. o \in ObjectTypes /\ arrays \in Seq(ArrayTypes)
  BY WalkTypes DEF ReadSettings, WalkTypeOK
<1>2. Value \in Settings
  <2>1. IsToken(Text[pos]) /\ Text[pos].sym = "settings"
    BY Moves DEF ReadSettings
  <2> QED
    BY <2>1 DEF IsToken, Value
<1>3. [o EXCEPT !.settings = Value] \in ObjectTypes
  BY <1>1, <1>2 DEF ObjectTypes
<1>4. stack' \in Seq(ObjectTypes)
  BY <1>3, WalkTypes DEF ReadSettings
<1>5. entries' = SettingsPatched(o, Value) /\ UNCHANGED <<arrays, pending>>
  BY DEF ReadSettings
<1> HIDE DEF o
<1> QED
  BY <1>1, <1>2, <1>4, <1>5, SettingsPatch DEF Steady

\* A token that the walk passes over adds nothing.
LEMMA IgnoreIsSteady ==
  ASSUME WalkTypeOK, Ignore
  PROVE  Steady
<1>1. stack \in Seq(ObjectTypes) /\ entries \in Seq(EntryTypes) /\ arrays \in Seq(ArrayTypes)
  BY DEF WalkTypeOK
<1>2. Kept(entries, entries)
  BY WalkTypes DEF Kept
<1>3. UNCHANGED <<stack, arrays, entries, pending>>
  BY DEF Ignore
<1> QED
  BY <1>1, <1>2, <1>3 DEF Steady

\* The sequences of a step that adds the entry e.
Grows(e) ==
  /\ e \in EntryTypes /\ entries' = Append(entries, e)
  /\ entries' \in Seq(EntryTypes) /\ Len(entries') = Len(entries) + 1 /\ Kept(entries, entries')
  /\ pending' \subseteq (1..Len(entries')) \X Nat
  /\ stack' \in Seq(ObjectTypes') /\ UNCHANGED arrays

\* A sequence that grows by one entry, and the objects that are still open.
LEMMA Growing ==
  ASSUME WalkTypeOK, NEW e \in EntryTypes, entries' = Append(entries, e)
  PROVE  /\ entries' \in Seq(EntryTypes) /\ Len(entries') = Len(entries) + 1
         /\ entries'[Len(entries) + 1] = e
         /\ \A i \in 1..Len(entries) : entries'[i] = entries[i]
         /\ Kept(entries, entries')
         /\ pending \subseteq (1..Len(entries')) \X Nat
         /\ ObjectTypes \subseteq ObjectTypes' /\ stack \in Seq(ObjectTypes')
<1>1. entries \in Seq(EntryTypes) /\ Len(entries) \in Nat
  BY WalkTypes DEF WalkTypeOK
<1>2. /\ entries' \in Seq(EntryTypes) /\ Len(entries') = Len(entries) + 1
      /\ entries'[Len(entries) + 1] = e /\ \A i \in 1..Len(entries) : entries'[i] = entries[i]
  BY <1>1, AppendProperties
<1>3. Kept(entries, entries')
  BY <1>1, <1>2 DEF Kept
<1>4. pending \subseteq (1..Len(entries')) \X Nat
  BY <1>1, <1>2 DEF WalkTypeOK
<1>5. ObjectTypes \subseteq ObjectTypes'
  <2>1. 0..Len(entries) \subseteq 0..Len(entries')
    BY <1>1, <1>2
  <2> QED
    BY <2>1 DEF ObjectTypes
<1>6. stack \in Seq(ObjectTypes')
  BY <1>5, SeqMonotonic DEF WalkTypeOK
<1> QED
  BY <1>2, <1>3, <1>4, <1>5, <1>6

\* The member that was read leaves the entries alone or makes the entry of the
\* object, which then has a name and an id.
LEMMA Reading ==
  ASSUME WalkTypeOK, stack # <<>>, NEW o \in ObjectTypes, Read(o)
  PROVE  Steady \/ (Grows(Entry(o)) /\ o.id # Empty)
<1>1. /\ entries \in Seq(EntryTypes) /\ Len(entries) \in Nat /\ arrays \in Seq(ArrayTypes)
      /\ stack \in Seq(ObjectTypes)
  BY WalkTypes DEF WalkTypeOK
<1>2. CASE Complete(o) /\ ~Repeats(o)
  <2>1. /\ entries' = Append(entries, Entry(o)) /\ UNCHANGED arrays
        /\ stack' = WithInnermost(stack, [o EXCEPT !.emitted = TRUE, !.entry = Len(entries) + 1])
        /\ pending' \in {pending, pending \cup {<<Len(entries) + 1, o.depth>>}}
    BY <1>2 DEF Read, IndexGiven
  <2>2. Entry(o) \in EntryTypes
    BY DEF Entry, ObjectTypes, EntryTypes, EntryKinds
  <2>3. /\ entries' \in Seq(EntryTypes) /\ Len(entries') = Len(entries) + 1
        /\ Kept(entries, entries') /\ pending \subseteq (1..Len(entries')) \X Nat
        /\ stack \in Seq(ObjectTypes')
    BY <2>1, <2>2, Growing
  <2>4. o.depth \in Nat
    BY DEF ObjectTypes
  <2>5. pending' \subseteq (1..Len(entries')) \X Nat
    BY <1>1, <2>1, <2>3, <2>4
  <2> DEFINE made == [o EXCEPT !.emitted = TRUE, !.entry = Len(entries) + 1]
  <2>6. Len(entries) + 1 \in 0..Len(entries')
    BY <1>1, <2>3
  <2>7. made \in ObjectTypes'
    BY <2>6 DEF ObjectTypes
  <2>8. stack' = WithInnermost(stack, made)
    BY <2>1
  <2> HIDE DEF made
  <2>9. stack' \in Seq(ObjectTypes')
    BY <2>3, <2>7, <2>8, Stacks
  <2>10. o.id # Empty
    BY <1>2 DEF Complete
  <2> QED
    BY <2>1, <2>2, <2>3, <2>5, <2>9, <2>10 DEF Grows
<1>3. CASE ~(Complete(o) /\ ~Repeats(o))
  <2> DEFINE next == IF Complete(o) THEN [o EXCEPT !.emitted = TRUE, !.entry = 0] ELSE o
  <2>1. stack' = WithInnermost(stack, next) /\ UNCHANGED <<entries, pending, arrays>>
    BY <1>3 DEF Read, IndexGiven
  <2>2. next \in ObjectTypes
    <3>1. 0 \in 0..Len(entries)
      BY <1>1
    <3>2. [o EXCEPT !.emitted = TRUE, !.entry = 0] \in ObjectTypes
      BY <3>1 DEF ObjectTypes
    <3> QED
      BY <3>2
  <2> HIDE DEF next
  <2>3. stack' \in Seq(ObjectTypes)
    BY <1>1, <2>1, <2>2, Stacks
  <2>4. Kept(entries, entries)
    BY <1>1 DEF Kept
  <2> QED
    BY <1>1, <2>1, <2>3, <2>4 DEF Steady
<1> QED
  BY <1>2, <1>3

\* A name or an id adds no entry, or the one of its object.
LEMMA MembersAreRead ==
  ASSUME WalkTypeOK, ReadName \/ ReadId
  PROVE  Steady \/ \E o \in ObjectTypes : Grows(Entry(o)) /\ o.id # Empty
<1> DEFINE o == Innermost(stack)
<1>1. stack # <<>> /\ o \in ObjectTypes
  BY WalkTypes DEF ReadName, ReadId
<1>2. Value \in Strings
  <2>1. IsToken(Text[pos]) /\ Text[pos].sym \in {"name", "id"}
    BY Moves DEF ReadName, ReadId
  <2> QED
    BY <2>1 DEF IsToken, Value
<1>3. CASE ReadName
  <2>1. [o EXCEPT !.name = Value] \in ObjectTypes
    BY <1>1, <1>2 DEF ObjectTypes
  <2>2. Read([o EXCEPT !.name = Value])
    BY <1>3 DEF ReadName
  <2> QED
    BY <1>1, <2>1, <2>2, Reading
<1>4. CASE ReadId
  <2>1. [o EXCEPT !.id = Value] \in ObjectTypes
    BY <1>1, <1>2 DEF ObjectTypes
  <2>2. Read([o EXCEPT !.id = Value])
    BY <1>4 DEF ReadId
  <2> QED
    BY <1>1, <2>1, <2>2, Reading
<1> QED
  BY <1>3, <1>4

\* A path of the scripts is an entry.
LEMMA ScriptsAreRead ==
  ASSUME WalkTypeOK, ReadPath
  PROVE  Grows(ScriptEntry(Value))
<1> DEFINE o == [Innermost(stack) EXCEPT !.emitted = TRUE]
<1>1. Value \in Strings
  <2>1. IsToken(Text[pos]) /\ Text[pos].sym = "path"
    BY Moves DEF ReadPath
  <2> QED
    BY <2>1 DEF IsToken, Value
<1>2. ScriptEntry(Value) \in EntryTypes
  BY <1>1, StringsAssumption DEF ScriptEntry, EntryTypes, EntryKinds
<1>3. /\ entries' = Append(entries, ScriptEntry(Value)) /\ stack' = WithInnermost(stack, o)
      /\ UNCHANGED <<arrays, pending>> /\ stack # <<>>
  BY DEF ReadPath, Scripted
<1>4. o \in ObjectTypes'
  <2>1. Innermost(stack) \in ObjectTypes
    BY <1>3, WalkTypes
  <2>2. o \in ObjectTypes
    BY <2>1 DEF ObjectTypes
  <2> QED
    BY <1>2, <1>3, <2>2, Growing
<1> HIDE DEF o
<1>5. stack' \in Seq(ObjectTypes')
  BY <1>2, <1>3, <1>4, Growing, Stacks
<1> QED
  BY <1>2, <1>3, <1>5, Growing DEF Grows

Named(e) == e.kind # "script" => e.module # Empty

\* A step of the walk keeps the types, and keeps what was found; an entry that
\* it adds is that of a script or has an id.
LEMMA WalkStep ==
  ASSUME WalkTypeOK, Walk
  PROVE  /\ WalkTypeOK' /\ Kept(entries, entries')
         /\ \/ Len(entries') = Len(entries)
            \/ Len(entries') = Len(entries) + 1 /\ Named(entries'[Len(entries) + 1])
<1>1. doc' \in DOMAIN Documents' /\ pos' \in 1..Len(Text') + 1
  <2>1. DOMAIN Documents' = DOMAIN Documents
    BY DEF Documents
  <2>2. \E sym : At(sym)
    BY DEF Walk, OpenObject, CloseObject, OpenArray, CloseArray, ReadSettings, ReadName, ReadId,
           ReadPath, Ignore
  <2> QED
    BY <2>1, <2>2, Moves
<1>2. ASSUME Steady PROVE WalkTypeOK' /\ Kept(entries, entries') /\ Len(entries') = Len(entries)
  BY <1>1, <1>2, SteadyTypes DEF WalkTypeOK, Steady
<1>3. ASSUME NEW e, Grows(e)
      PROVE  /\ WalkTypeOK' /\ Kept(entries, entries') /\ Len(entries') = Len(entries) + 1
             /\ entries'[Len(entries) + 1] = e
  <2>1. /\ e \in EntryTypes /\ entries' = Append(entries, e) /\ entries' \in Seq(EntryTypes)
        /\ Kept(entries, entries') /\ Len(entries') = Len(entries) + 1
        /\ pending' \subseteq (1..Len(entries')) \X Nat /\ stack' \in Seq(ObjectTypes')
        /\ arrays' = arrays
    BY <1>3 DEF Grows
  <2>2. entries'[Len(entries) + 1] = e
    BY <2>1, Growing
  <2>3. arrays' \in Seq(ArrayTypes') /\ entries' \in Seq(EntryTypes')
    BY <2>1 DEF WalkTypeOK, ArrayTypes, EntryTypes
  <2> QED
    BY <1>1, <2>1, <2>2, <2>3 DEF WalkTypeOK
<1>4. CASE Steady
  BY <1>2, <1>4
<1>5. CASE ReadPath
  <2>1. Named(ScriptEntry(Value))
    BY DEF ScriptEntry, Named
  <2> QED
    BY <1>3, <1>5, <2>1, ScriptsAreRead
<1>6. CASE \E o \in ObjectTypes : Grows(Entry(o)) /\ o.id # Empty
  <2>1. PICK o \in ObjectTypes : Grows(Entry(o)) /\ o.id # Empty
    BY <1>6
  <2>2. Named(Entry(o))
    BY <2>1 DEF Entry, Named
  <2>3. Grows(Entry(o))
    BY <2>1
  <2> QED
    BY <1>3, <2>2, <2>3
<1> QED
  BY <1>4, <1>5, <1>6, OpenObjectIsSteady, CloseObjectIsSteady, ArraysAreSteady,
     ReadSettingsIsSteady, IgnoreIsSteady, MembersAreRead DEF Walk

-----------------------------------------------------------------------------
(* Classification                                                          *)

\* The scripts of one file name up to entry i.
TwinsTo(i) == {j \in 1..i : entries[j].kind = "script" /\ entries[j].label = entries[i].label}

\* An id is a sequence of parts: the prefix, and what is behind it.
LEMMA PrefixTyped ==
  ASSUME NEW prefix \in Prefixes, NEW parts \in NameParts
  PROVE  /\ Prefixed(prefix, parts) \in NameParts
         /\ Len(Prefixed(prefix, parts)) = Len(parts) + 1
         /\ Prefixed(prefix, parts)[1].text = prefix
         /\ \A k \in 1..Len(parts) : Prefixed(prefix, parts)[k + 1] = parts[k]
<1> DEFINE S == [text : STRING \cup Prefixes, numbers : Seq(Nat)]
           first == [text |-> prefix, numbers |-> <<>>]
           one == <<first>>
<1>1. <<>> \in Seq(Nat)
  OBVIOUS
<1>2. first \in S /\ first.text = prefix
  BY <1>1
<1>3. parts \in Seq(S) /\ Prefixed(prefix, parts) = one \o parts /\ NameParts = Seq(S)
  BY DEF NameParts, Prefixed
<1> HIDE DEF S, first
<1>4. one \in Seq(S) /\ Len(one) = 1 /\ one[1] = first
  BY <1>2
<1> HIDE DEF one
<1>5. Len(parts) \in Nat
  BY <1>3, LenProperties
<1>6. /\ one \o parts \in Seq(S) /\ Len(one \o parts) = 1 + Len(parts)
      /\ \A k \in 1..(1 + Len(parts)) : (one \o parts)[k] = IF k <= 1 THEN one[k] ELSE parts[k - 1]
  <2> HIDE DEF NameParts
  <2>1. /\ one \o parts \in Seq(S) /\ Len(one \o parts) = Len(one) + Len(parts)
        /\ \A k \in 1..(Len(one) + Len(parts)) :
             (one \o parts)[k] = IF k <= Len(one) THEN one[k] ELSE parts[k - Len(one)]
    BY <1>3, <1>4, ConcatProperties
  <2> QED
    BY <1>4, <2>1
<1>7. (one \o parts)[1].text = prefix
  BY <1>2, <1>4, <1>5, <1>6
<1>8. ASSUME NEW k \in 1..Len(parts) PROVE (one \o parts)[k + 1] = parts[k]
  <2>1. k + 1 \in 1..(1 + Len(parts)) /\ ~(k + 1 <= 1) /\ (k + 1) - 1 = k
    BY <1>5
  <2> QED
    BY <1>6, <2>1
<1> QED
  BY <1>3, <1>5, <1>6, <1>7, <1>8

\* The parts behind the prefix: of the label, and of the parent of a filter.
LEMMA IdTyped ==
  ASSUME NEW e \in EntryTypes, NEW prefix \in Prefixes
  PROVE  ItemId(prefix, e) \in NameParts
<1>1. Parts[e.label] \in NameParts /\ Parts[e.parent] \in NameParts
  BY PartsAssumption DEF EntryTypes
<1>2. Parts[e.parent] \o Parts[e.label] \in NameParts
  BY <1>1, ConcatProperties DEF NameParts
<1> QED
  BY <1>1, <1>2, PrefixTyped DEF ItemId

\* An item of any id, bucket and reason is one.
LEMMA ItemTyped ==
  ASSUME NEW id \in NameParts, NEW reason \in Reasons,
         NEW bucket \in {"mapped", "degraded", "unresolved"}
  PROVE  /\ Item(id, bucket, reason) \in ItemTypes
         /\ Item(id, bucket, reason).reason = reason
         /\ Item(id, bucket, reason).id = id
  BY DEF Item, ItemTypes

\* A name with a number behind it.
LEMMA NumberedTyped ==
  ASSUME NEW parts \in NameParts, parts # <<>>, NEW n \in Nat
  PROVE  /\ Numbered(parts, n) \in NameParts /\ Len(Numbered(parts, n)) = Len(parts)
         /\ Len(parts) = 1 /\ parts[1].numbers = <<>> =>
              /\ Numbered(parts, n)[1].text = parts[1].text
              /\ Numbered(parts, n)[1].numbers = IF n = 1 THEN <<>> ELSE <<n>>
<1>1. CASE n = 1
  BY <1>1 DEF Numbered
<1>2. CASE n # 1
  <2> DEFINE S == [text : STRING \cup Prefixes, numbers : Seq(Nat)]
             last == parts[Len(parts)]
             part == [last EXCEPT !.numbers = Append(@, n)]
  <2>1. parts \in Seq(S) /\ NameParts = Seq(S)
    BY DEF NameParts
  <2>2. Len(parts) \in 1..Len(parts)
    BY <2>1, EmptySeq
  <2>3. last \in S
    BY <2>1, <2>2, ElementOfSeq
  <2>4. part \in S /\ part.text = last.text /\ part.numbers = Append(last.numbers, n)
    <3>1. Append(last.numbers, n) \in Seq(Nat)
      BY <2>3, AppendProperties
    <3> HIDE DEF last
    <3> QED
      BY <2>3, <3>1
  <2>5. Numbered(parts, n) = [parts EXCEPT ![Len(parts)] = part]
    BY <1>2 DEF Numbered
  <2> HIDE DEF part, S
  <2>6. /\ Numbered(parts, n) \in Seq(S) /\ Len(Numbered(parts, n)) = Len(parts)
        /\ Numbered(parts, n)[Len(parts)] = part
    BY <2>1, <2>2, <2>4, <2>5, ExceptSeq
  <2>7. Append(<<>>, n) = <<n>>
    OBVIOUS
  <2> QED
    BY <1>2, <2>1, <2>4, <2>6, <2>7
<1> QED
  BY <1>1, <1>2

\* The sources that may have a placeholder without missing a plugin.
Unmirrored(e) ==
  /\ e.kind = "source"
  /\ \/ e.module \in device_backed_source_ids \cup other_platform_source_ids
     \/ e.module = "third_party_camera_fx" /\ Backed(e)

\* A source has an item, and what the report says of it the map can serve.
LEMMA SourcesClassified ==
  ASSUME NEW e \in EntryTypes, e.module # Empty
  PROVE  /\ SourceItem(e) \in ItemTypes
         /\ SourceItem(e).reason = "missing_plugin" =>
              /\ SourceItem(e).id = ItemId("source", e)
              /\ e.kind = "source" => Placeholder(e)
         /\ SourceItem(e).reason = "mapped_plugin" /\ e.module \notin upstream_source_ids =>
              Backed(e)
         /\ e.kind = "source" /\ Placeholder(e) /\ ~Unmirrored(e) => SourceItem(e).reason = "missing_plugin"
<1>1. /\ ItemId("scene", e) \in NameParts /\ ItemId("source", e) \in NameParts
      /\ ItemId("filter", e) \in NameParts
  <2>1. "scene" \in Prefixes /\ "source" \in Prefixes /\ "filter" \in Prefixes
    BY DEF Prefixes
  <2> QED
    BY <2>1, IdTyped
<1>2. /\ Item(ItemId("scene", e), "mapped", "mapped_native") \in ItemTypes
      /\ Item(ItemId("source", e), "mapped", "mapped_native") \in ItemTypes
      /\ Item(ItemId("source", e), "mapped", "mapped_plugin") \in ItemTypes
      /\ Item(ItemId("filter", e), "mapped", "mapped_plugin") \in ItemTypes
      /\ Item(ItemId("source", e), "degraded", "settings_migration_required") \in ItemTypes
      /\ Item(ItemId("source", e), "degraded", "missing_device") \in ItemTypes
      /\ Item(ItemId("source", e), "degraded", "permission_required") \in ItemTypes
      /\ Item(ItemId("source", e), "degraded", "dependency_missing") \in ItemTypes
      /\ Item(ItemId("source", e), "degraded", "missing_plugin") \in ItemTypes
      /\ Item(ItemId("source", e), "degraded", "unsupported_frontend_feature") \in ItemTypes
  BY <1>1, ItemTyped DEF Reasons
<1>3. SourceItem(e) \in ItemTypes
  <2>1. PermissionItem(e) \in ItemTypes
    BY <1>2 DEF PermissionItem
  <2> QED
    BY <1>2, <2>1 DEF SourceItem
<1>4. ASSUME SourceItem(e).reason = "missing_plugin"
      PROVE  /\ SourceItem(e) = Item(ItemId("source", e), "degraded", "missing_plugin")
             /\ \/ Disposition(e) = "missing"
                \/ e.module = "third_party_camera_fx" /\ Disposition(e) # "migration"
  BY <1>4 DEF SourceItem, PermissionItem, Item
<1>5. ASSUME SourceItem(e).reason = "mapped_plugin", e.module \notin upstream_source_ids
      PROVE  Backed(e)
  <2>1. /\ e.module \in types.sources \/ e.module \in types.filters
        /\ Disposition(e) # "migration" /\ e.module # "scene"
    BY <1>5 DEF SourceItem, PermissionItem, Item
  <2> QED
    BY <1>5, <2>1 DEF Backed, Disposition
<1>6. SourceItem(e).reason = "missing_plugin" => SourceItem(e).id = ItemId("source", e)
  <2>1. Item(ItemId("source", e), "degraded", "missing_plugin").id = ItemId("source", e)
    BY DEF Item
  <2> QED
    BY <1>4, <2>1
<1>7. SourceItem(e).reason = "missing_plugin" /\ e.kind = "source" => Placeholder(e)
  BY <1>4 DEF Placeholder
<1>8. ASSUME e.kind = "source", Placeholder(e), ~Unmirrored(e)
      PROVE  SourceItem(e).reason = "missing_plugin"
  <2>1. \/ Disposition(e) = "missing"
        \/ e.module = "third_party_camera_fx" /\ Disposition(e) # "migration"
    BY <1>8 DEF Placeholder
  <2>2. Disposition(e) = "missing"
    <3>1. CASE e.module = "third_party_camera_fx" /\ Disposition(e) # "migration"
      BY <1>8, <3>1 DEF Unmirrored, Backed, Disposition, upstream_source_ids
    <3> QED
      BY <2>1, <3>1
  <2>3. /\ e.module \notin upstream_source_ids /\ e.module # "scene"
        /\ e.module \notin types.sources /\ e.module \notin types.filters
    BY <2>2 DEF Disposition
  <2>4. e.module \notin device_backed_source_ids \cup other_platform_source_ids
    BY <1>8 DEF Unmirrored
  <2>5. /\ e.module \notin mapped_native_source_ids /\ e.module # "vlc_source"
        /\ e.module \notin camera_permission_source_ids \cup {"coreaudio_input_capture"}
                              \cup screen_permission_source_ids
    BY <2>3
    DEF upstream_source_ids, mapped_native_source_ids, camera_permission_source_ids,
        screen_permission_source_ids
  <2>6. SourceItem(e) = Item(ItemId("source", e), "degraded", "missing_plugin")
    BY <2>2, <2>3, <2>4, <2>5 DEF SourceItem
  <2> QED
    BY <2>6 DEF Item
<1> QED
  BY <1>3, <1>5, <1>6, <1>7, <1>8

\* A filter or a transition is mapped by its plugin, or misses it.
LEMMA ReplaceableTyped ==
  ASSUME NEW e \in EntryTypes, NEW prefix \in {"transition", "filter"}, NEW ids, NEW loaded
  PROVE  /\ Replaceable(prefix, e, ids, loaded) \in ItemTypes
         /\ Replaceable(prefix, e, ids, loaded).id = ItemId(prefix, e)
         /\ Replaceable(prefix, e, ids, loaded).reason = "missing_plugin" <=>
              e.module \notin ids /\ e.module \notin loaded
<1> DEFINE id == ItemId(prefix, e)
<1>1. "mapped_native" \in Reasons /\ "mapped_plugin" \in Reasons /\ "missing_plugin" \in Reasons
  BY DEF Reasons
<1>2. id \in NameParts
  <2>1. prefix \in Prefixes
    BY DEF Prefixes
  <2> QED
    BY <2>1, IdTyped
<1> HIDE DEF id
<1>3. /\ Item(id, "mapped", "mapped_native") \in ItemTypes
      /\ Item(id, "mapped", "mapped_native").id = id
      /\ Item(id, "mapped", "mapped_native").reason = "mapped_native"
  BY <1>1, <1>2, ItemTyped
<1>4. /\ Item(id, "mapped", "mapped_plugin") \in ItemTypes
      /\ Item(id, "mapped", "mapped_plugin").id = id
      /\ Item(id, "mapped", "mapped_plugin").reason = "mapped_plugin"
  BY <1>1, <1>2, ItemTyped
<1>5. /\ Item(id, "degraded", "missing_plugin") \in ItemTypes
      /\ Item(id, "degraded", "missing_plugin").id = id
      /\ Item(id, "degraded", "missing_plugin").reason = "missing_plugin"
  BY <1>1, <1>2, ItemTyped
<1>6. /\ Replaceable(prefix, e, ids, loaded) \in ItemTypes
      /\ Replaceable(prefix, e, ids, loaded).id = id
  BY <1>3, <1>4, <1>5, Zenon DEF Replaceable, id
<1>7. CASE e.module \in ids \/ e.module \in loaded
  <2>1. \/ Replaceable(prefix, e, ids, loaded) = Item(id, "mapped", "mapped_native")
        \/ Replaceable(prefix, e, ids, loaded) = Item(id, "mapped", "mapped_plugin")
    BY <1>7, Zenon DEF Replaceable, id
  <2>2. Replaceable(prefix, e, ids, loaded).reason # "missing_plugin"
    BY <1>3, <1>4, <2>1
  <2> QED
    BY <1>6, <1>7, <2>2 DEF id
<1>8. CASE e.module \notin ids /\ e.module \notin loaded
  <2>1. Replaceable(prefix, e, ids, loaded) = Item(id, "degraded", "missing_plugin")
    BY <1>8, Zenon DEF Replaceable, id
  <2> QED
    BY <1>5, <1>6, <1>8, <2>1 DEF id
<1> QED
  BY <1>7, <1>8

\* The item of a script is its file name, and a number from the second on.
LEMMA ScriptItemTyped ==
  ASSUME NEW i \in 1..Len(entries), Len(entries) \in Nat, entries[i] \in EntryTypes
  PROVE  /\ ScriptItem(i) \in ItemTypes /\ ScriptItem(i).reason = "unsupported_plugin_class"
         /\ ScriptItem(i).id = Prefixed("script", Numbered(Parts[entries[i].label], Cardinality(TwinsTo(i))))
         /\ Numbered(Parts[entries[i].label], Cardinality(TwinsTo(i))) \in NameParts
         /\ Cardinality(TwinsTo(i)) \in Nat
<1> DEFINE parts == Parts[entries[i].label]  n == Cardinality(TwinsTo(i))
           id == Prefixed("script", Numbered(parts, n))
<1>1. n \in Nat
  <2>1. i \in Int /\ TwinsTo(i) \subseteq 1..i
    BY DEF TwinsTo
  <2>2. IsFiniteSet(1..i)
    BY <2>1, FS_Interval
  <2> QED
    BY <2>1, <2>2, FS_Subset, FS_CardinalityType
<1>2. parts \in NameParts /\ parts # <<>>
  BY PartsAssumption DEF EntryTypes
<1>3. ScriptItem(i) = Item(id, "unresolved", "unsupported_plugin_class")
  BY DEF ScriptItem, TwinsTo
<1> HIDE DEF parts, n
<1>4. Numbered(parts, n) \in NameParts
  BY <1>1, <1>2, NumberedTyped
<1>5. id \in NameParts
  <2>1. "script" \in Prefixes
    BY DEF Prefixes
  <2> QED
    BY <1>4, <2>1, PrefixTyped
<1>6. "unsupported_plugin_class" \in Reasons
  BY DEF Reasons
<1> HIDE DEF id
<1>7. ScriptItem(i) \in ItemTypes /\ ScriptItem(i).reason = "unsupported_plugin_class" /\ ScriptItem(i).id = id
  BY <1>3, <1>5, <1>6, ItemTyped
<1> QED
  BY <1>1, <1>4, <1>7 DEF id, parts, n

\* What the item of an entry says fits the entry.
LEMMA Classified ==
  ASSUME WalkTypeOK, NEW i \in 1..Len(entries), Named(entries[i])
  PROVE  /\ ReportItem(i) \in ItemTypes
         /\ ReportItem(i).reason = "missing_plugin" =>
              Placeholder(entries[i]) /\ ReportItem(i).id = PlaceholderId(entries[i])
         /\ /\ entries[i].kind = "source" /\ ReportItem(i).reason = "mapped_plugin"
            /\ entries[i].module \notin upstream_source_ids
            => Backed(entries[i])
         /\ Placeholder(entries[i]) /\ ~Unmirrored(entries[i]) => ReportItem(i).reason = "missing_plugin"
<1> DEFINE e == entries[i]
<1>1. e \in EntryTypes /\ Len(entries) \in Nat
  BY WalkTypes, ElementOfSeq DEF WalkTypeOK
<1>2. e.label \in Strings /\ e.parent \in Strings /\ e.kind \in EntryKinds
  BY <1>1 DEF EntryTypes
<1>3. CASE e.kind = "script"
  <2>1. ReportItem(i) = ScriptItem(i)
    BY <1>3 DEF ReportItem
  <2>2. ReportItem(i) \in ItemTypes /\ ReportItem(i).reason = "unsupported_plugin_class"
    BY <1>1, <2>1, ScriptItemTyped
  <2> QED
    BY <1>3, <2>2 DEF Placeholder
<1>4. CASE e.kind = "transition"
  <2>1. ReportItem(i) = Replaceable("transition", e, upstream_transition_ids, types.transitions)
    BY <1>4 DEF ReportItem
  <2>2. /\ ReportItem(i) \in ItemTypes /\ ReportItem(i).id = ItemId("transition", e)
        /\ ReportItem(i).reason = "missing_plugin" <=>
             e.module \notin upstream_transition_ids /\ e.module \notin types.transitions
    BY <1>1, <2>1, ReplaceableTyped
  <2> QED
    BY <1>4, <2>2 DEF Placeholder, PlaceholderId
<1>5. CASE e.kind = "filter"
  <2>1. ReportItem(i) = Replaceable("filter", e, upstream_filter_ids, types.filters)
    BY <1>5 DEF ReportItem
  <2>2. /\ ReportItem(i) \in ItemTypes /\ ReportItem(i).id = ItemId("filter", e)
        /\ ReportItem(i).reason = "missing_plugin" <=>
             e.module \notin upstream_filter_ids /\ e.module \notin types.filters
    BY <1>1, <2>1, ReplaceableTyped
  <2> QED
    BY <1>5, <2>2 DEF Placeholder, PlaceholderId
<1>6. CASE e.kind = "source"
  <2>1. ReportItem(i) = SourceItem(e) /\ e.module # Empty
    BY <1>6 DEF ReportItem, Named
  <2> QED
    BY <1>1, <1>6, <2>1, SourcesClassified DEF PlaceholderId
<1> QED
  BY <1>2, <1>3, <1>4, <1>5, <1>6 DEF EntryKinds

-----------------------------------------------------------------------------
(* The invariant                                                           *)

\* No silent drop: every entry has an item in the report.
NoSilentDrop == report # None => \A i \in DOMAIN report : report[i] # None

\* Map and report are made of the entries that the walk found, in this order.
Staged ==
  /\ stage = "walk" => map = None /\ report = None
  /\ stage = "mapped" => map = ImportMap /\ report = None

\* libobs has exactly the sources that are held, and a load activates none.
PromptsHeld ==
  /\ obs = [alive |-> Len(handles), active |-> Activated(handles)]
  /\ request = "load" /\ stage \in {"ask", "done"} => \A i \in DOMAIN handles : handles[i] = "idle"

EntriesNamed == \A i \in 1..Len(entries) : Named(entries[i])

IInv ==
  TypeOK /\ EntriesNamed /\ Staged /\ NoSilentDrop /\ MapCoversReport /\ PromptsHeld

\* How many of the handles are activated: none if there are none or all are idle,
\* and one more behind one that is.
LEMMA ActivatedTyped ==
  ASSUME NEW hs \in Seq({"activated", "idle"})
  PROVE  Activated(hs) \in Nat
<1>1. DOMAIN hs = 1..Len(hs) /\ Len(hs) \in Nat
  BY LenProperties
<1>2. IsFiniteSet(DOMAIN hs)
  BY <1>1, FS_Interval
<1>3. {i \in DOMAIN hs : hs[i] = "activated"} \subseteq DOMAIN hs
  OBVIOUS
<1> QED
  BY <1>2, <1>3, FS_Subset, FS_CardinalityType DEF Activated

\* No handle is activated where all are idle.
LEMMA NoneActivated ==
  ASSUME NEW hs, \A i \in DOMAIN hs : hs[i] = "idle"
  PROVE  Activated(hs) = 0
<1>1. {i \in DOMAIN hs : hs[i] = "activated"} = {}
  OBVIOUS
<1> QED
  BY <1>1, FS_EmptySet DEF Activated

\* A handle that is appended counts if it is activated.
LEMMA ActivatedMore ==
  ASSUME NEW hs \in Seq({"activated", "idle"}), NEW h \in {"activated", "idle"}
  PROVE  Activated(Append(hs, h)) = IF h = "activated" THEN Activated(hs) + 1 ELSE Activated(hs)
<1> DEFINE n == Len(hs) + 1  more == Append(hs, h)
           A == {i \in DOMAIN hs : hs[i] = "activated"}
           B == {i \in DOMAIN more : more[i] = "activated"}
<1>1. /\ DOMAIN hs = 1..Len(hs) /\ Len(hs) \in Nat /\ DOMAIN more = 1..n
      /\ more[n] = h /\ \A i \in 1..Len(hs) : more[i] = hs[i]
  BY LenProperties, AppendProperties
<1>2. n \notin A /\ n \in 1..n /\ 1..n = (1..Len(hs)) \cup {n}
  BY <1>1
<1>3. IsFiniteSet(A)
  <2>1. IsFiniteSet(1..Len(hs)) /\ A \subseteq 1..Len(hs)
    BY <1>1, FS_Interval
  <2> QED
    BY <2>1, FS_Subset
<1> HIDE DEF n, more
<1>4. B = IF h = "activated" THEN A \cup {n} ELSE A
  BY <1>1, <1>2
<1> HIDE DEF A, B
<1>5. Cardinality(A \cup {n}) = Cardinality(A) + 1
  BY <1>2, <1>3, FS_AddElement
<1>6. Activated(more) = Cardinality(B) /\ Activated(hs) = Cardinality(A)
  BY DEF Activated, A, B
<1> QED
  BY <1>4, <1>5, <1>6 DEF more

\* The initial states have the invariant.
LEMMA InitInvariant == Init => IInv
<1> SUFFICES ASSUME Init PROVE IInv
  OBVIOUS
<1>1. /\ doc \in DOMAIN Documents /\ pos = 1 /\ stack = <<>> /\ arrays = <<>>
      /\ entries = <<>> /\ pending = {}
  BY DEF Init, WalkInit
<1>2. Text \in Seq([sym : STRING, dir : STRING, val : Strings \cup Keys \cup Settings])
  BY <1>1, DocumentsAssumption DEF Text
<1>3. Len(Text) \in Nat
  BY <1>2, LenProperties
<1>4. /\ stack \in Seq(ObjectTypes) /\ arrays \in Seq(ArrayTypes) /\ entries \in Seq(EntryTypes)
      /\ Len(entries) = 0
  BY <1>1, EmptySeq
<1>5. WalkTypeOK
  BY <1>1, <1>3, <1>4 DEF WalkTypeOK
<1>6. handles = <<>> /\ handles \in Seq({"activated", "idle"}) /\ Len(handles) = 0
  BY EmptySeq DEF Init
<1>7. TypeOK
  BY <1>5, <1>6, RequestsAssumption DEF TypeOK, Init
<1>8. PromptsHeld
  BY <1>6, NoneActivated DEF Init, PromptsHeld
<1> QED
  BY <1>4, <1>7, <1>8 DEF IInv, Init, EntriesNamed, Staged, NoSilentDrop, MapCoversReport, Mapped

\* A step that leaves the entries, the types and the results of a request alone.
LEMMA Settled ==
  ASSUME IInv, UNCHANGED <<walk, types, map, report>>
  PROVE  WalkTypeOK' /\ EntriesNamed' /\ NoSilentDrop' /\ MapCoversReport'
<1>1. UNCHANGED <<doc, pos, stack, arrays, entries, pending>>
  BY DEF walk
<1>2. WalkTypeOK'
  BY <1>1 DEF IInv, TypeOK, WalkTypeOK, Text, Documents, ObjectTypes, ArrayTypes, EntryTypes
<1>3. EntriesNamed' /\ NoSilentDrop'
  BY <1>1 DEF IInv, EntriesNamed, Named, NoSilentDrop
<1>4. MapCoversReport'
  BY <1>1 DEF IInv, MapCoversReport, Mapped, MissingIds, PluginLabels, OnlyInMap, Found, PlaceholderId, ItemId,
              Backed, Disposition
<1> QED
  BY <1>2, <1>3, <1>4

\* A token that is read keeps the invariant.
LEMMA ParseKeeps ==
  ASSUME IInv, Parse
  PROVE  IInv' /\ Kept(entries, entries')
<1>1. /\ WalkTypeOK /\ EntriesNamed /\ map = None /\ report = None
      /\ UNCHANGED <<types, request, stage, map, report, handles, asking, obs, requests>> /\ Walk
      /\ stage = "walk"
  BY DEF IInv, TypeOK, Staged, Parse, results, prompts
<1>2. /\ WalkTypeOK' /\ Kept(entries, entries')
      /\ \/ Len(entries') = Len(entries)
         \/ Len(entries') = Len(entries) + 1 /\ Named(entries'[Len(entries) + 1])
  BY <1>1, WalkStep
<1>3. Len(entries) \in Nat
  BY <1>1, WalkTypes
<1>4. EntriesNamed'
  <2> SUFFICES ASSUME NEW i \in 1..Len(entries') PROVE Named(entries'[i])
    BY DEF EntriesNamed, Named
  <2>1. CASE i \in 1..Len(entries)
    <3>1. entries'[i].kind = entries[i].kind /\ entries'[i].module = entries[i].module
      BY <1>2, <2>1 DEF Kept
    <3> QED
      BY <1>1, <2>1, <3>1 DEF EntriesNamed, Named
  <2>2. CASE i \notin 1..Len(entries)
    <3>1. CASE Len(entries') = Len(entries)
      BY <2>2, <3>1
    <3>2. CASE Len(entries') = Len(entries) + 1 /\ Named(entries'[Len(entries) + 1])
      <4>1. i = Len(entries) + 1
        BY <1>3, <2>2, <3>2
      <4> QED
        BY <3>2, <4>1
    <3> QED
      BY <1>2, <3>1, <3>2
  <2> QED
    BY <2>1, <2>2
<1>5. TypeOK'
  BY <1>1, <1>2 DEF IInv, TypeOK
<1>6. Staged' /\ NoSilentDrop' /\ MapCoversReport' /\ PromptsHeld'
  BY <1>1 DEF IInv, Staged, NoSilentDrop, MapCoversReport, Mapped, PromptsHeld
<1> QED
  BY <1>2, <1>4, <1>5, <1>6 DEF IInv

\* The map is written from the entries.
LEMMA WriteMapKeeps ==
  ASSUME IInv, WriteMap
  PROVE  IInv'
<1>1. /\ UNCHANGED <<walk, types, request, report, handles, asking, obs, requests>>
      /\ map' = ImportMap /\ stage' = "mapped" /\ report = None
  BY DEF IInv, Staged, WriteMap, prompts
<1>2. UNCHANGED entries
  BY <1>1 DEF walk
<1>3. ImportMap' = ImportMap
  BY <1>1, <1>2 DEF ImportMap, Found, Placeholder, PlaceholderId, ItemId, Backed, Disposition
<1>4. Staged'
  BY <1>1, <1>3 DEF Staged
<1>5. WalkTypeOK'
  BY <1>1 DEF IInv, TypeOK, WalkTypeOK, walk, Text, Documents, ObjectTypes, ArrayTypes, EntryTypes
<1>6. TypeOK'
  BY <1>1, <1>5 DEF IInv, TypeOK, ImportMap
<1>7. EntriesNamed' /\ NoSilentDrop' /\ MapCoversReport' /\ PromptsHeld'
  BY <1>1, <1>2 DEF IInv, EntriesNamed, Named, NoSilentDrop, MapCoversReport, Mapped, PromptsHeld
<1> QED
  BY <1>4, <1>6, <1>7 DEF IInv

\* The report is built from the same entries as the map.
LEMMA BuildReportKeeps ==
  ASSUME IInv, BuildReport
  PROVE  IInv'
<1>1. /\ WalkTypeOK /\ EntriesNamed /\ Len(entries) \in Nat /\ DOMAIN entries = 1..Len(entries)
      /\ entries \in Seq(EntryTypes)
  BY WalkTypes, LenProperties DEF IInv, TypeOK, WalkTypeOK
<1>2. /\ UNCHANGED <<walk, types, request, map, handles, asking, obs, requests>>
      /\ report' = [i \in DOMAIN entries |-> ReportItem(i)]
      /\ stage' \in {"reported", "done"} /\ (stage' = "done" => request # "load")
  BY DEF BuildReport, prompts
<1>3. UNCHANGED entries
  BY <1>2 DEF walk
<1>4. /\ DOMAIN report' = 1..Len(entries)
      /\ \A i \in 1..Len(entries) : report'[i] = ReportItem(i) /\ report'[i] \in ItemTypes
  BY <1>1, <1>2, Classified DEF EntriesNamed
<1>5. report' \in Seq(ItemTypes \cup {None}) /\ Len(report') = Len(entries)
  <2>1. report' \in [1..Len(entries) -> ItemTypes \cup {None}]
    BY <1>1, <1>2, <1>4
  <2>2. report' \in Seq(ItemTypes \cup {None})
    BY <1>1, <2>1, SeqDef
  <2> QED
    BY <1>1, <1>4, <2>2, LenProperties
<1>6. WalkTypeOK'
  BY <1>2 DEF IInv, TypeOK, WalkTypeOK, walk, Text, Documents, ObjectTypes, ArrayTypes, EntryTypes
<1>7. TypeOK'
  BY <1>2, <1>3, <1>5, <1>6 DEF IInv, TypeOK
<1>8. NoSilentDrop'
  BY <1>4, NoneAssumption DEF NoSilentDrop
<1>9. MapCoversReport'
  <2> SUFFICES ASSUME map # None PROVE MapCoversReport'
    BY <1>2 DEF MapCoversReport, Mapped
  <2>1. map = ImportMap
    BY DEF IInv, Staged, BuildReport
  <2>2. \A i \in 1..Len(entries) :
          report'[i].reason = "missing_plugin" => report'[i].id \in ImportMap.placeholders
    <3> SUFFICES ASSUME NEW i \in 1..Len(entries), report'[i].reason = "missing_plugin"
                 PROVE  report'[i].id \in ImportMap.placeholders
      OBVIOUS
    <3>1. Placeholder(entries[i]) /\ report'[i].id = PlaceholderId(entries[i])
      BY <1>1, <1>4, Classified DEF EntriesNamed
    <3> QED
      BY <1>1, <3>1 DEF ImportMap, Found
  <2>3. \A i \in 1..Len(entries) :
          /\ entries[i].kind = "source" /\ report'[i].reason = "mapped_plugin"
          /\ entries[i].module \notin upstream_source_ids
          => entries[i].label \in ImportMap.modules
    <3> SUFFICES ASSUME NEW i \in 1..Len(entries), entries[i].kind = "source",
                        report'[i].reason = "mapped_plugin",
                        entries[i].module \notin upstream_source_ids
                 PROVE  entries[i].label \in ImportMap.modules
      OBVIOUS
    <3>1. Backed(entries[i])
      BY <1>1, <1>4, Classified DEF EntriesNamed
    <3> QED
      BY <1>1, <3>1 DEF ImportMap, Found
  <2>4. MissingIds' \subseteq map.placeholders
    BY <1>4, <2>1, <2>2 DEF MissingIds
  <2>5. PluginLabels' \subseteq map.modules
    BY <1>3, <1>4, <2>1, <2>3 DEF PluginLabels
  <2>6. map.placeholders \subseteq MissingIds' \cup OnlyInMap'
    <3> SUFFICES ASSUME NEW p \in ImportMap.placeholders, p \notin OnlyInMap PROVE p \in MissingIds'
      <4>1. OnlyInMap' = OnlyInMap
        BY <1>2, <1>3 DEF OnlyInMap, Found, PlaceholderId, ItemId, Backed, Disposition
      <4> QED
        BY <2>1, <4>1
    <3>1. PICK i \in 1..Len(entries) : Placeholder(entries[i]) /\ p = PlaceholderId(entries[i])
      BY <1>1 DEF ImportMap, Found
    <3>2. ~Unmirrored(entries[i])
      BY <1>1, <3>1 DEF OnlyInMap, Unmirrored, Found
    <3>3. report'[i].reason = "missing_plugin"
      BY <1>1, <1>4, <3>1, <3>2, Classified DEF EntriesNamed
    <3>4. report'[i].id = p
      BY <1>1, <1>4, <3>1, <3>3, Classified DEF EntriesNamed
    <3> QED
      BY <1>4, <3>3, <3>4 DEF MissingIds
  <2> QED
    BY <1>2, <2>4, <2>5, <2>6 DEF MapCoversReport
<1>10. EntriesNamed' /\ Staged' /\ PromptsHeld'
  BY <1>1, <1>2, <1>3 DEF IInv, EntriesNamed, Named, Staged, PromptsHeld
<1> QED
  BY <1>7, <1>8, <1>9, <1>10 DEF IInv

\* After the release libobs has nothing of the last request.
LEMMA Releasing ==
  ASSUME IInv, AskAnew
  PROVE  /\ handles' = <<>> /\ obs' = [alive |-> 0, active |-> 0]
         /\ asking' \in [next : Nat \ {0}, tried : 0..2]
         /\ obs' = [alive |-> Len(handles'), active |-> Activated(handles')]
<1>1. Len(handles) \in Nat /\ Activated(handles) \in Nat
  BY ActivatedTyped, LenProperties DEF IInv, TypeOK
<1>2. handles' = <<>> /\ obs' = [alive |-> 0, active |-> 0]
  BY <1>1 DEF IInv, PromptsHeld, AskAnew, Released
<1>3. Len(handles') = 0 /\ Activated(handles') = 0
  BY <1>2, NoneActivated
<1> QED
  BY <1>2, <1>3 DEF AskAnew

\* Before each class and each entry the handles of the last request are released.
LEMMA AskingKeeps ==
  ASSUME IInv, InstantiatePrompts \/ ExerciseTccPrompts
  PROVE  IInv'
<1>1. /\ UNCHANGED <<walk, types, map, report>> /\ stage' = "ask" /\ AskAnew
      /\ requests' \in 0..MaxRequests /\ request' \in {"load", "report", "exercise", "refused"}
  BY RequestsAssumption DEF InstantiatePrompts, ExerciseTccPrompts, IInv, TypeOK, results
<1>2. WalkTypeOK' /\ EntriesNamed' /\ NoSilentDrop' /\ MapCoversReport'
  BY <1>1, Settled
<1>3. /\ handles' = <<>> /\ obs' = [alive |-> 0, active |-> 0]
      /\ asking' \in [next : Nat \ {0}, tried : 0..2]
      /\ obs' = [alive |-> Len(handles'), active |-> Activated(handles')]
  BY <1>1, Releasing
<1>4. handles' \in Seq({"activated", "idle"}) /\ PromptsHeld'
  BY <1>3 DEF PromptsHeld
<1>5. TypeOK'
  BY <1>1, <1>2, <1>3, <1>4 DEF IInv, TypeOK, walk
<1>6. Staged'
  BY <1>1 DEF Staged
<1> QED
  BY <1>2, <1>4, <1>5, <1>6 DEF IInv

\* No more ids are tried than the class has.
LEMMA TriesTyped ==
  ASSUME IInv, Asking
  PROVE  /\ NextAsked => asking' \in [next : Nat \ {0}, tried : 0..2]
         /\ IdLeft /\ NextId => asking' \in [next : Nat \ {0}, tried : 0..2]
<1>1. asking \in [next : Nat \ {0}, tried : 0..2] /\ Len(entries) \in Nat /\ DOMAIN entries = 1..Len(entries)
  BY WalkTypes, LenProperties DEF IInv, TypeOK, WalkTypeOK
<1>2. \A c \in {"camera", "microphone", "screen", "none"} : ExerciseIds[c] \in 0..2
  BY DEF ExerciseIds
<1>3. \A m : PromptClass(m) \in {"camera", "microphone", "screen", "none"}
  BY DEF PromptClass
<1>4. Asked[asking.next] \in 0..2
  <2>1. CASE request = "load"
    <3> DEFINE asked == [i \in DOMAIN entries |-> ExerciseIds[PromptClass(entries[i].module)]]
    <3>1. Asked = asked
      BY <2>1 DEF Asked
    <3>2. Len(asked) = Len(entries)
      BY <1>1
    <3>3. asking.next \in DOMAIN entries
      BY <1>1, <3>1, <3>2 DEF Asking
    <3>4. asked[asking.next] = ExerciseIds[PromptClass(entries[asking.next].module)]
      BY <3>3
    <3> HIDE DEF asked
    <3> QED
      BY <1>2, <1>3, <3>1, <3>4
  <2>2. CASE request # "load"
    <3>1. Asked = <<1, 1, 2>>
      BY <2>2 DEF Asked, ExerciseIds
    <3>2. asking.next \in 1..3
      BY <1>1, <3>1 DEF Asking
    <3> QED
      BY <3>1, <3>2
  <2> QED
    BY <2>1, <2>2
<1>5. ASSUME NextAsked PROVE asking' \in [next : Nat \ {0}, tried : 0..2]
  BY <1>1, <1>5 DEF NextAsked
<1>6. ASSUME IdLeft, NextId PROVE asking' \in [next : Nat \ {0}, tried : 0..2]
  <2>1. asking.tried + 1 \in 0..2
    BY <1>1, <1>4, <1>6 DEF IdLeft
  <2> QED
    BY <1>1, <1>6, <2>1 DEF NextId
<1> QED
  BY <1>5, <1>6

\* A source that is made is held, and counts in libobs by what its handle says.
LEMMA Holding ==
  ASSUME IInv, NEW active \in BOOLEAN, CreatePrompt(active)
  PROVE  PromptsHeld' /\ handles' \in Seq({"activated", "idle"}) /\ obs' \in [alive : Nat, active : Nat]
<1> DEFINE h == IF request = "exercise" THEN "activated" ELSE "idle"
<1>1. /\ handles' = Append(handles, h) /\ request' = request /\ stage' = stage /\ stage = "ask"
      /\ obs' = [alive |-> obs.alive + 1,
                 active |-> IF request = "exercise" THEN obs.active + 1 ELSE obs.active]
  BY DEF CreatePrompt, Handle, Asking
<1>2. /\ handles \in Seq({"activated", "idle"})
      /\ obs = [alive |-> Len(handles), active |-> Activated(handles)]
      /\ request = "load" => \A i \in DOMAIN handles : handles[i] = "idle"
  BY <1>1 DEF IInv, TypeOK, PromptsHeld
<1>3. h \in {"activated", "idle"} /\ (h = "activated" <=> request = "exercise")
  OBVIOUS
<1>4. Len(handles) \in Nat /\ Activated(handles) \in Nat
  BY <1>2, ActivatedTyped, LenProperties
<1> HIDE DEF h
<1>5. /\ handles' \in Seq({"activated", "idle"}) /\ Len(handles') = Len(handles) + 1
      /\ handles'[Len(handles) + 1] = h /\ \A i \in 1..Len(handles) : handles'[i] = handles[i]
  BY <1>1, <1>2, <1>3, AppendProperties
<1>6. Activated(handles') = IF h = "activated" THEN Activated(handles) + 1 ELSE Activated(handles)
  BY <1>1, <1>2, <1>3, ActivatedMore
<1>7. obs' = [alive |-> Len(handles'), active |-> Activated(handles')]
  BY <1>1, <1>2, <1>3, <1>5, <1>6
<1>8. ASSUME request = "load", NEW i \in DOMAIN handles' PROVE handles'[i] = "idle"
  <2>1. h = "idle"
    BY <1>3, <1>8
  <2>2. i \in 1..(Len(handles) + 1) /\ DOMAIN handles = 1..Len(handles)
    BY <1>2, <1>5, <1>8, LenProperties
  <2> QED
    BY <1>2, <1>4, <1>5, <1>8, <2>1, <2>2
<1>9. PromptsHeld'
  BY <1>1, <1>7, <1>8 DEF PromptsHeld
<1>10. obs' \in [alive : Nat, active : Nat]
  BY <1>1, <1>2, <1>4
<1> QED
  BY <1>5, <1>9, <1>10

\* Sources that are made, or cannot be made, keep the invariant.
LEMMA AskKeeps ==
  ASSUME IInv, Ask
  PROVE  IInv'
<1>1. /\ UNCHANGED <<walk, types, request, map, report, requests>> /\ stage = "ask"
      /\ stage' \in {"ask", "done"}
  BY DEF Ask, CreateFails, CreatePrompt, GiveUp, Answer, Asking, results
<1>2. WalkTypeOK' /\ EntriesNamed' /\ NoSilentDrop' /\ MapCoversReport'
  BY <1>1, Settled
<1>3. /\ PromptsHeld' /\ handles' \in Seq({"activated", "idle"}) /\ obs' \in [alive : Nat, active : Nat]
      /\ asking' \in [next : Nat \ {0}, tried : 0..2]
  <2>1. CASE CreateFails \/ GiveUp \/ Answer
    <3>1. UNCHANGED <<handles, obs>>
      BY <2>1 DEF CreateFails, GiveUp, Answer, prompts
    <3>2. PromptsHeld' /\ handles' \in Seq({"activated", "idle"}) /\ obs' \in [alive : Nat, active : Nat]
      BY <1>1, <3>1 DEF IInv, TypeOK, PromptsHeld
    <3>3. asking' \in [next : Nat \ {0}, tried : 0..2]
      <4>1. CASE CreateFails
        BY <4>1, TriesTyped DEF CreateFails
      <4>2. CASE GiveUp
        BY <4>2, TriesTyped DEF GiveUp
      <4>3. CASE Answer
        BY <4>3 DEF Answer, prompts, IInv, TypeOK
      <4> QED
        BY <2>1, <4>1, <4>2, <4>3
    <3> QED
      BY <3>2, <3>3
  <2>2. CASE \E active \in BOOLEAN : CreatePrompt(active)
    <3>1. PICK active \in BOOLEAN : CreatePrompt(active)
      BY <2>2
    <3>2. Asking /\ IdLeft /\ (NextId \/ NextAsked)
      BY <3>1 DEF CreatePrompt
    <3> QED
      BY <3>1, <3>2, Holding, TriesTyped
  <2> QED
    BY <2>1, <2>2 DEF Ask
<1>4. TypeOK'
  BY <1>1, <1>2, <1>3 DEF IInv, TypeOK, walk
<1>5. Staged'
  BY <1>1 DEF Staged
<1> QED
  BY <1>2, <1>3, <1>4, <1>5 DEF IInv

\* An error is answered before there is a report.
LEMMA RefuseLoadKeeps ==
  ASSUME IInv, RefuseLoad
  PROVE  IInv'
<1>1. /\ UNCHANGED <<walk, types, report, handles, asking, obs, requests>> /\ report = None
      /\ request' = "refused" /\ stage' = "done" /\ map' = None
  BY DEF IInv, Staged, RefuseLoad, prompts
<1>2. UNCHANGED entries
  BY <1>1 DEF walk
<1>3. WalkTypeOK'
  BY <1>1 DEF IInv, TypeOK, WalkTypeOK, walk, Text, Documents, ObjectTypes, ArrayTypes, EntryTypes
<1>4. TypeOK'
  BY <1>1, <1>3 DEF IInv, TypeOK
<1>5. EntriesNamed' /\ Staged' /\ NoSilentDrop' /\ MapCoversReport' /\ PromptsHeld'
  BY <1>1, <1>2 DEF IInv, EntriesNamed, Named, Staged, NoSilentDrop, MapCoversReport, Mapped, PromptsHeld
<1> QED
  BY <1>4, <1>5 DEF IInv

\* The next request starts with nothing but the handles.
LEMMA StartOverKeeps ==
  ASSUME IInv, NEW d \in DOMAIN Documents, StartOver(d)
  PROVE  IInv'
<1>1. /\ doc' = d /\ pos' = 1 /\ stack' = <<>> /\ arrays' = <<>> /\ entries' = <<>> /\ pending' = {}
      /\ request' \in {"load", "report"} /\ stage' = "walk" /\ map' = None /\ report' = None
      /\ UNCHANGED <<types, handles, asking, obs>> /\ requests' = requests + 1 /\ requests < MaxRequests
  BY DEF StartOver, prompts
<1>2. Text' \in Seq([sym : STRING, dir : STRING, val : Strings \cup Keys \cup Settings])
  BY <1>1, DocumentsAssumption DEF Text, Documents
<1>3. Len(Text') \in Nat
  BY <1>2, LenProperties
<1>4. /\ stack' \in Seq(ObjectTypes') /\ arrays' \in Seq(ArrayTypes')
      /\ entries' \in Seq(EntryTypes') /\ Len(entries') = 0
  BY <1>1, EmptySeq
<1>5. doc' \in DOMAIN Documents'
  BY <1>1 DEF Documents
<1>6. WalkTypeOK'
  BY <1>1, <1>3, <1>4, <1>5 DEF WalkTypeOK
<1>7. requests' \in 0..MaxRequests
  BY <1>1, RequestsAssumption DEF IInv, TypeOK
<1>8. TypeOK'
  BY <1>1, <1>6, <1>7 DEF IInv, TypeOK
<1>9. Staged' /\ NoSilentDrop' /\ MapCoversReport' /\ PromptsHeld'
  BY <1>1 DEF IInv, Staged, NoSilentDrop, MapCoversReport, Mapped, PromptsHeld
<1> QED
  BY <1>4, <1>8, <1>9 DEF IInv, EntriesNamed

\* Every step keeps the invariant.
LEMMA NextInvariant == IInv /\ [Next]_vars => IInv'
<1> SUFFICES ASSUME IInv, [Next]_vars PROVE IInv'
  OBVIOUS
<1>1. CASE Next
  BY <1>1, ParseKeeps, WriteMapKeeps, BuildReportKeeps, AskingKeeps, AskKeeps, RefuseLoadKeeps,
     StartOverKeeps DEF Next
<1>2. CASE UNCHANGED vars
  <2>1. UNCHANGED <<walk, types, request, stage, map, report, handles, asking, obs, requests>>
    BY <1>2 DEF vars, results, prompts
  <2>2. WalkTypeOK' /\ EntriesNamed' /\ NoSilentDrop' /\ MapCoversReport'
    BY <2>1, Settled
  <2>3. UNCHANGED entries
    BY <2>1 DEF walk
  <2>4. ImportMap' = ImportMap
    BY <2>1, <2>3 DEF ImportMap, Found, Placeholder, PlaceholderId, ItemId, Backed, Disposition
  <2> QED
    BY <2>1, <2>2, <2>3, <2>4 DEF IInv, TypeOK, Staged, PromptsHeld
<1> QED
  BY <1>1, <1>2

\* The strengthening of the properties below holds of every behaviour.
THEOREM InductiveInvariant == Spec => []IInv
  BY InitInvariant, NextInvariant, PTL DEF Spec

-----------------------------------------------------------------------------
(* Theorems                                                                *)

\* Every index that the walk of a collection keeps is inside what it has found
\* so far: parse_obs_source_entries never patches beyond its entries.
THEOREM TypeCorrect == Spec => []TypeOK
<1>1. IInv => TypeOK
  BY DEF IInv
<1> QED
  BY <1>1, InductiveInvariant, PTL

\* The walk loses nothing it has found and gives no entry a second parent or
\* other settings, whatever follows in the text.
THEOREM WalkKeepsWhatItFound == Spec => FoundStays
<1>1. IInv => [Parse => Kept(entries, entries')]_vars
  BY ParseKeeps
<1> QED
  BY <1>1, InductiveInvariant, PTL DEF FoundStays

\* build_report drops no entry, whatever the collection holds and whatever
\* types the plugins have registered.
THEOREM NothingIsDropped == Spec => []NoSilentDrop
<1>1. IInv => NoSilentDrop
  BY DEF IInv
<1> QED
  BY <1>1, InductiveInvariant, PTL

\* What the report calls a missing plugin has its placeholder in the map, under
\* the id of the report, and nothing else has but sources of a device or another
\* platform and a loaded third_party_camera_fx; and a source of an id that OBS does not have, which the
\* report calls mapped by a plugin, has the module of the plugin.  For transitions
\* and for the filters of a source the map names no module.
THEOREM MapCovers == Spec => []MapCoversReport
<1>1. IInv => MapCoversReport
  BY DEF IInv
<1> QED
  BY <1>1, InductiveInvariant, PTL

\* When an import has succeeded and is answered, nothing that an exercise has
\* activated is active, and libobs holds the sources of this import alone: each was
\* released by what its handle says, also one that had stayed inactive.
THEOREM PromptsAreDeferred == Spec => []ImportDefersPrompts
<1>1. IInv => ImportDefersPrompts
  <2> SUFFICES ASSUME IInv, stage = "done", request = "load" PROVE obs = [alive |-> Len(handles), active |-> 0]
    BY DEF ImportDefersPrompts
  <2>1. /\ obs = [alive |-> Len(handles), active |-> Activated(handles)]
        /\ \A i \in DOMAIN handles : handles[i] = "idle"
    BY DEF IInv, PromptsHeld
  <2> QED
    BY <2>1, NoneActivated
<1> QED
  BY <1>1, InductiveInvariant, PTL

-----------------------------------------------------------------------------
(* The ids of the items                                                    *)

\* Two entries that have the same names: sources, filters of one parent, or
\* transitions.  Scripts go by their file names, which may be the same.
Clash(g, h) ==
  /\ g.kind # "script" /\ h.kind # "script"
  /\ (g.kind = "transition") = (h.kind = "transition") /\ (g.kind = "filter") = (h.kind = "filter")
  /\ g.kind = "filter" => g.parent = h.parent
  /\ g.label = h.label
Apart(hs) == \A i, j \in 1..Len(hs) : i # j => ~Clash(hs[i], hs[j])

\* Where names are plain, an id tells the kind of its entry, and gives the parts
\* that were joined.
IdShows(id, e, n) ==
  /\ e.kind = "filter" <=> Len(id) = 3
  /\ e.kind = "script" <=> id[1].text = "script"
  /\ e.kind = "transition" <=> id[1].text = "transition"
  /\ e.kind = "filter" => id[2] = Parts[e.parent][1] /\ id[3] = Parts[e.label][1]
  /\ e.kind \in {"source", "transition"} => id[2] = Parts[e.label][1]
  /\ e.kind = "script" => /\ id[2].text = Parts[e.label][1].text
                          /\ id[2].numbers = IF n = 1 THEN <<>> ELSE <<n>>

\* What is plain of an entry.
IsPlainEntry(e) ==
  /\ Len(Parts[e.label]) = 1 /\ (e.kind = "filter" => Len(Parts[e.parent]) = 1)
  /\ e.kind = "script" => Parts[e.label][1].numbers = <<>>

\* The id of an entry that is no script.
LEMMA ItemIdShows ==
  ASSUME NEW e \in EntryTypes, e.kind # "script", IsPlainEntry(e), NEW n,
         NEW prefix \in {"scene", "source", "filter", "transition"},
         e.kind = "transition" <=> prefix = "transition"
  PROVE  IdShows(ItemId(prefix, e), e, n)
<1> DEFINE p == Parts[e.parent]  l == Parts[e.label]  id == ItemId(prefix, e)
<1>1. p \in NameParts /\ l \in NameParts /\ e.kind \in EntryKinds
  BY PartsAssumption DEF EntryTypes
<1>2. Len(l) = 1 /\ (e.kind = "filter" => Len(p) = 1)
  BY DEF IsPlainEntry
<1>3. id = Prefixed(prefix, IF e.kind = "filter" THEN p \o l ELSE l)
  BY DEF ItemId
<1>4. prefix \in Prefixes /\ (e.kind = "script" <=> prefix = "script")
  BY DEF Prefixes
<1> HIDE DEF p, l, id
<1>5. CASE e.kind = "filter"
  <2> DEFINE both == p \o l
  <2>1. both \in NameParts /\ Len(both) = 2 /\ both[1] = p[1] /\ both[2] = l[1]
    <3>1. \A k \in 1..(Len(p) + Len(l)) : both[k] = IF k <= Len(p) THEN p[k] ELSE l[k - Len(p)]
      BY <1>1, ConcatProperties DEF NameParts
    <3>2. both \in NameParts /\ Len(both) = Len(p) + Len(l)
      BY <1>1, ConcatProperties DEF NameParts
    <3> QED
      BY <1>2, <1>5, <3>1, <3>2
  <2> HIDE DEF both
  <2>2. id = Prefixed(prefix, both)
    BY <1>3, <1>5 DEF both
  <2>3. Len(id) = 3 /\ id[1].text = prefix /\ \A k \in 1..2 : id[k + 1] = both[k]
    <3>1. /\ Len(Prefixed(prefix, both)) = Len(both) + 1 /\ Prefixed(prefix, both)[1].text = prefix
          /\ \A k \in 1..Len(both) : Prefixed(prefix, both)[k + 1] = both[k]
      BY <1>4, <2>1, PrefixTyped, Zenon
    <3> QED
      BY <2>1, <2>2, <3>1
  <2>4. id[2] = p[1] /\ id[3] = l[1]
    <3>1. id[1 + 1] = both[1] /\ id[2 + 1] = both[2]
      BY <2>3
    <3> QED
      BY <2>1, <3>1
  <2> QED
    BY <1>4, <1>5, <2>3, <2>4 DEF IdShows, p, l, id
<1>6. CASE e.kind # "filter"
  <2>1. id = Prefixed(prefix, l)
    BY <1>3, <1>6
  <2>2. Len(id) = 2 /\ id[1].text = prefix /\ \A k \in 1..1 : id[k + 1] = l[k]
    <3>1. /\ Len(Prefixed(prefix, l)) = Len(l) + 1 /\ Prefixed(prefix, l)[1].text = prefix
          /\ \A k \in 1..Len(l) : Prefixed(prefix, l)[k + 1] = l[k]
      BY <1>1, <1>4, PrefixTyped, Zenon
    <3> QED
      BY <1>2, <2>1, <3>1
  <2>3. id[1 + 1] = l[1]
    BY <2>2
  <2> QED
    BY <1>4, <1>6, <2>2, <2>3 DEF IdShows, p, l, id
<1> QED
  BY <1>5, <1>6

\* The id of an item shows its entry.
LEMMA ItemShows ==
  ASSUME WalkTypeOK, NEW i \in 1..Len(entries), Named(entries[i]), IsPlainEntry(entries[i])
  PROVE  IdShows(ReportItem(i).id, entries[i], Cardinality(TwinsTo(i)))
<1> DEFINE e == entries[i]  n == Cardinality(TwinsTo(i))
<1>1. e \in EntryTypes /\ Len(entries) \in Nat
  BY WalkTypes, ElementOfSeq DEF WalkTypeOK
<1>2. e.kind \in EntryKinds
  BY <1>1 DEF EntryTypes
<1>3. CASE e.kind = "script"
  <2> DEFINE parts == Parts[e.label]  id == ReportItem(i).id
  <2>1. /\ ReportItem(i) = ScriptItem(i) /\ parts \in NameParts /\ parts # <<>>
        /\ Len(parts) = 1 /\ parts[1].numbers = <<>>
    BY <1>1, <1>3, PartsAssumption DEF ReportItem, EntryTypes, IsPlainEntry
  <2>2. n \in Nat /\ id = Prefixed("script", Numbered(parts, n)) /\ Numbered(parts, n) \in NameParts
    BY <1>1, <2>1, ScriptItemTyped
  <2> HIDE DEF parts, n, id
  <2>3. /\ Len(Numbered(parts, n)) = 1 /\ Numbered(parts, n)[1].text = parts[1].text
        /\ Numbered(parts, n)[1].numbers = IF n = 1 THEN <<>> ELSE <<n>>
    BY <2>1, <2>2, NumberedTyped
  <2> DEFINE numbered == Numbered(parts, n)
  <2>4. numbered \in NameParts /\ Len(numbered) = 1 /\ id = Prefixed("script", numbered)
    BY <2>2, <2>3
  <2> HIDE DEF numbered
  <2>5. Len(id) = 2 /\ id[1].text = "script" /\ \A k \in 1..1 : id[k + 1] = numbered[k]
    <3>1. "script" \in Prefixes
      BY DEF Prefixes
    <3> QED
      <4>1. /\ Len(Prefixed("script", numbered)) = Len(numbered) + 1 /\ Prefixed("script", numbered)[1].text = "script"
            /\ \A k \in 1..Len(numbered) : Prefixed("script", numbered)[k + 1] = numbered[k]
        BY <2>4, <3>1, PrefixTyped, Zenon
      <4> QED
        BY <2>4, <4>1
  <2>6. id[1 + 1] = numbered[1]
    BY <2>5
  <2>7. id[2].text = parts[1].text /\ id[2].numbers = IF n = 1 THEN <<>> ELSE <<n>>
    BY <2>3, <2>6 DEF numbered
  <2> HIDE DEF e
  <2>8. IdShows(id, e, n)
    BY <1>3, <2>5, <2>7 DEF IdShows, parts
  <2> QED
    BY <2>8 DEF id, e, n
<1>4. CASE e.kind = "transition"
  <2>1. ReportItem(i) = Replaceable("transition", e, upstream_transition_ids, types.transitions)
    BY <1>4 DEF ReportItem
  <2>2. ReportItem(i).id = ItemId("transition", e)
    BY <1>1, <2>1, ReplaceableTyped
  <2>3. IdShows(ItemId("transition", e), e, n)
    BY <1>1, <1>4, ItemIdShows
  <2> QED
    BY <2>2, <2>3
<1>5. CASE e.kind = "filter"
  <2>1. ReportItem(i) = Replaceable("filter", e, upstream_filter_ids, types.filters)
    BY <1>5 DEF ReportItem
  <2>2. ReportItem(i).id = ItemId("filter", e)
    BY <1>1, <2>1, ReplaceableTyped
  <2>3. IdShows(ItemId("filter", e), e, n)
    BY <1>1, <1>5, ItemIdShows
  <2> QED
    BY <2>2, <2>3
<1>6. CASE e.kind = "source"
  <2>1. e.module # Empty /\ ReportItem(i) = SourceItem(e)
    BY <1>6 DEF Named, ReportItem
  <2>2. \E prefix \in {"scene", "source", "filter"} : SourceItem(e).id = ItemId(prefix, e)
    BY <2>1 DEF SourceItem, PermissionItem, Item
  <2>3. \A prefix \in {"scene", "source", "filter"} : IdShows(ItemId(prefix, e), e, n)
    BY <1>1, <1>6, ItemIdShows
  <2> HIDE DEF e, n
  <2> QED
    BY <2>1, <2>2, <2>3 DEF e, n
<1> QED
  BY <1>2, <1>3, <1>4, <1>5, <1>6 DEF EntryKinds

\* Two names of one part that is the same are the same.
LEMMA SamePart ==
  ASSUME NEW s \in Strings, NEW r \in Strings, Len(Parts[s]) = 1, Len(Parts[r]) = 1, Parts[s][1] = Parts[r][1]
  PROVE  s = r
<1>1. Parts[s] \in NameParts /\ Parts[r] \in NameParts
  BY PartsAssumption
<1> DEFINE a == Parts[s]  b == Parts[r]
<1>2. /\ a \in Seq([text : STRING \cup Prefixes, numbers : Seq(Nat)]) /\ b \in Seq([text : STRING \cup Prefixes, numbers : Seq(Nat)])
      /\ Len(a) = 1 /\ Len(b) = 1 /\ a[1] = b[1]
  BY <1>1 DEF NameParts
<1> HIDE DEF a, b
<1>3. Len(a) = Len(b) /\ \A k \in 1..Len(a) : a[k] = b[k]
  BY <1>2
<1>4. a = b
  BY <1>2, <1>3, SeqEqual
<1> QED
  BY <1>4, PartsAssumption DEF a, b

\* Two scripts of one file name have different numbers.
LEMMA TwinsDiffer ==
  ASSUME WalkTypeOK, NEW i \in 1..Len(entries), NEW j \in 1..Len(entries), i < j,
         entries[j].kind = "script", entries[i].label = entries[j].label
  PROVE  Cardinality(TwinsTo(i)) # Cardinality(TwinsTo(j))
<1>1. Len(entries) \in Nat
  BY WalkTypes
<1>2. TwinsTo(i) \subseteq TwinsTo(j)
  BY <1>1 DEF TwinsTo
<1>3. j \in TwinsTo(j) /\ j \notin TwinsTo(i)
  BY <1>1 DEF TwinsTo
<1>4. IsFiniteSet(TwinsTo(j))
  <2>1. IsFiniteSet(1..j) /\ TwinsTo(j) \subseteq 1..j
    BY <1>1, FS_Interval DEF TwinsTo
  <2> QED
    BY <2>1, FS_Subset
<1> QED
  BY <1>2, <1>3, <1>4, FS_Subset

\* The items of two entries that go by different names differ in their ids.
LEMMA IdsDiffer ==
  ASSUME WalkTypeOK, EntriesNamed, Apart(entries), PlainNames,
         NEW i \in 1..Len(entries), NEW j \in 1..Len(entries), i # j
  PROVE  ReportItem(i).id # ReportItem(j).id
<1> SUFFICES ASSUME ReportItem(i).id = ReportItem(j).id PROVE FALSE
  OBVIOUS
<1> DEFINE g == entries[i]  h == entries[j]  id == ReportItem(i).id
           m == Cardinality(TwinsTo(i))  n == Cardinality(TwinsTo(j))
<1>1. Named(g) /\ Named(h) /\ Len(entries) \in Nat /\ g \in EntryTypes /\ h \in EntryTypes
  BY WalkTypes, ElementOfSeq DEF EntriesNamed, WalkTypeOK
<1>2. g \in Found /\ h \in Found
  BY LenProperties DEF Found, WalkTypeOK
<1>3. IsPlainEntry(g) /\ IsPlainEntry(h)
  BY <1>2 DEF PlainNames, IsPlainEntry
<1>4. IdShows(id, g, m) /\ IdShows(id, h, n)
  BY <1>1, <1>3, ItemShows
<1>5. ~Clash(g, h)
  BY DEF Apart
<1>6. g.kind = "script" /\ h.kind = "script" /\ g.label = h.label => m # n
  <2> SUFFICES ASSUME g.kind = "script", h.kind = "script", g.label = h.label PROVE m # n
    OBVIOUS
  <2>1. i < j \/ j < i
    BY <1>1
  <2> QED
    BY <2>1, TwinsDiffer
<1>7. m \in Nat /\ n \in Nat
  BY <1>1, ScriptItemTyped
<1>8. g.label \in Strings /\ h.label \in Strings /\ g.parent \in Strings /\ h.parent \in Strings
      /\ g.kind \in EntryKinds /\ h.kind \in EntryKinds
  BY <1>1 DEF EntryTypes
<1> HIDE DEF g, h, id, m, n
<1>9. /\ g.kind = "filter" <=> h.kind = "filter"
      /\ g.kind = "script" <=> h.kind = "script"
      /\ g.kind = "transition" <=> h.kind = "transition"
  BY <1>4 DEF IdShows
<1>10. CASE g.kind = "filter"
  <2>1. Parts[g.parent][1] = Parts[h.parent][1] /\ Parts[g.label][1] = Parts[h.label][1]
    BY <1>4, <1>9, <1>10 DEF IdShows
  <2>2. g.parent = h.parent /\ g.label = h.label
    BY <1>3, <1>8, <1>9, <1>10, <2>1, SamePart DEF IsPlainEntry
  <2> QED
    BY <1>5, <1>9, <1>10, <2>2 DEF Clash
<1>11. CASE g.kind = "script"
  <2> DEFINE p == Parts[g.label][1]  q == Parts[h.label][1]
  <2>1. p.text = q.text /\ p.numbers = <<>> /\ q.numbers = <<>>
    BY <1>3, <1>4, <1>9, <1>11 DEF IdShows, IsPlainEntry
  <2>2. Parts[g.label] \in NameParts /\ Parts[h.label] \in NameParts
    BY <1>8, PartsAssumption
  <2>3. Len(Parts[g.label]) = 1 /\ Len(Parts[h.label]) = 1
    BY <1>3 DEF IsPlainEntry
  <2>4. p \in [text : STRING \cup Prefixes, numbers : Seq(Nat)] /\ q \in [text : STRING \cup Prefixes, numbers : Seq(Nat)]
    <3> DEFINE a == Parts[g.label]  b == Parts[h.label]
    <3>1. /\ a \in Seq([text : STRING \cup Prefixes, numbers : Seq(Nat)]) /\ Len(a) = 1
          /\ b \in Seq([text : STRING \cup Prefixes, numbers : Seq(Nat)]) /\ Len(b) = 1
      BY <2>2, <2>3 DEF NameParts
    <3> HIDE DEF a, b
    <3>2. 1 \in 1..Len(a) /\ 1 \in 1..Len(b)
      BY <3>1
    <3>3. a[1] \in [text : STRING \cup Prefixes, numbers : Seq(Nat)] /\ b[1] \in [text : STRING \cup Prefixes, numbers : Seq(Nat)]
      BY <3>1, <3>2, ElementOfSeq
    <3> QED
      BY <3>3 DEF a, b
  <2> HIDE DEF p, q
  <2>5. p = q
    BY <2>1, <2>4
  <2>6. g.label = h.label
    BY <1>8, <2>3, <2>5, SamePart DEF p, q
  <2>7. (IF m = 1 THEN <<>> ELSE <<m>>) = (IF n = 1 THEN <<>> ELSE <<n>>)
    BY <1>4, <1>9, <1>11, Zenon DEF IdShows
  <2>8. m = n
    <3>1. CASE m = 1
      <4>1. n # 1 => <<>> = <<n>>
        BY <2>7, <3>1
      <4> QED
        BY <3>1, <4>1
    <3>2. CASE m # 1
      <4>1. n = 1 => <<m>> = <<>>
        BY <2>7, <3>2
      <4>2. n # 1 => <<m>> = <<n>>
        BY <2>7, <3>2
      <4> QED
        BY <4>1, <4>2
    <3> QED
      BY <3>1, <3>2
  <2> QED
    BY <1>6, <1>9, <1>11, <2>6, <2>8
<1>12. CASE g.kind # "filter" /\ g.kind # "script"
  <2>1. g.kind \in {"source", "transition"} /\ h.kind \in {"source", "transition"}
    BY <1>8, <1>9, <1>12 DEF EntryKinds
  <2>2. Parts[g.label][1] = Parts[h.label][1]
    BY <1>4, <2>1 DEF IdShows
  <2>3. g.label = h.label
    BY <1>3, <1>8, <2>2, SamePart DEF IsPlainEntry
  <2> QED
    BY <1>5, <1>9, <1>12, <2>3 DEF Clash
<1> QED
  BY <1>10, <1>11, <1>12

\* The report is made of the entries that the walk found, in their order.
Reported == report # None => report = [i \in DOMAIN entries |-> ReportItem(i)]

\* An item is made of the entries and the types alone.
LEMMA ItemsStay == ASSUME UNCHANGED <<entries, types>>, NEW i PROVE ReportItem(i)' = ReportItem(i)
  BY DEF ReportItem, ScriptItem, SourceItem, Replaceable, PermissionItem, Disposition, Item, ItemId

\* The entries do not change under a report.
LEMMA ReportedKept == ASSUME IInv, Reported, [Next]_vars PROVE Reported'
<1>1. CASE Parse
  <2>1. report' = report /\ report = None
    BY <1>1 DEF IInv, Staged, Parse, results
  <2> QED
    BY <2>1 DEF Reported
<1>2. CASE BuildReport
  <2>1. /\ report' = [i \in DOMAIN entries |-> ReportItem(i)] /\ UNCHANGED <<walk, types>>
    BY <1>2 DEF BuildReport
  <2>2. entries' = entries
    BY <2>1 DEF walk
  <2>3. \A i : ReportItem(i)' = ReportItem(i)
    BY <2>1, <2>2, ItemsStay
  <2> QED
    BY <2>1, <2>2, <2>3 DEF Reported
<1>3. CASE WriteMap \/ InstantiatePrompts \/ ExerciseTccPrompts \/ Ask \/ RefuseLoad \/ UNCHANGED vars
  <2>1. UNCHANGED <<walk, types, report>>
    BY <1>3
    DEF WriteMap, InstantiatePrompts, ExerciseTccPrompts, Ask, CreateFails, CreatePrompt, GiveUp, Answer,
        RefuseLoad, vars, results
  <2>2. entries' = entries
    BY <2>1 DEF walk
  <2>3. \A i : ReportItem(i)' = ReportItem(i)
    BY <2>1, <2>2, ItemsStay
  <2> QED
    BY <2>1, <2>2, <2>3 DEF Reported
<1>4. CASE \E d \in DOMAIN Documents : StartOver(d)
  BY <1>4 DEF StartOver, Reported
<1> QED
  BY <1>1, <1>2, <1>3, <1>4 DEF Next

\* Every entry is accounted for where the entries go by names of their own, and
\* are those that the collection holds.
LEMMA AccountedFor ==
  ASSUME IInv, Reported, Apart(entries), Documents[doc].ordered => entries = Documents[doc].holds
  PROVE  EveryEntryAccounted
<1> SUFFICES ASSUME report # None PROVE
               /\ \A i \in DOMAIN report : report[i] # None
               /\ PlainNames => \A i, j \in DOMAIN report : i # j => report[i].id # report[j].id
  BY DEF EveryEntryAccounted
<1>1. /\ DOMAIN report = 1..Len(entries)
      /\ \A i \in 1..Len(entries) : report[i] = ReportItem(i)
  BY WalkTypes, LenProperties DEF Reported, IInv, TypeOK, WalkTypeOK
<1>2. \A i \in DOMAIN report : report[i] # None
  BY DEF IInv, NoSilentDrop
<1>3. ASSUME PlainNames, NEW i \in DOMAIN report, NEW j \in DOMAIN report, i # j
      PROVE  report[i].id # report[j].id
  BY <1>1, <1>3, IdsDiffer DEF IInv, TypeOK
<1> QED
  BY <1>2, <1>3

-----------------------------------------------------------------------------
(* The walk as a function of what it has and of the next token             *)

\* What the walk has, apart from its place in the text; and what it has now.
State(st, ar, es, pd) == [stack |-> st, arrays |-> ar, entries |-> es, pending |-> pd]
Now == State(stack, arrays, entries, pending)

\* An object of the kind and place of another one.
Obj(of, name, id, emitted, settings, entry) ==
  [name |-> name, id |-> id, emitted |-> emitted, settings |-> settings, entry |-> entry,
   kind |-> of.kind, parent |-> of.parent, depth |-> of.depth]
Marked(o, entry) == Obj(o, o.name, o.id, TRUE, o.settings, entry)

\* OpenObject, OpenArray, SettingsPatched, ParentPatched, Repeats, Read and
\* Scripted, of any state.
OpenedIn(ar) == IF ar = <<>> THEN Opened("source", Empty, 0) ELSE InArray(Innermost(ar))
ContextIn(st, key) ==
  IF key = Empty \/ st = <<>> THEN [key |-> key, owner |-> Empty, depth |-> 0]
  ELSE [key |-> key, owner |-> Innermost(st).name, depth |-> Len(st)]

WithSettings(es, o, settings) ==
  IF o.entry # 0 /\ es[o.entry].settings = None THEN [es EXCEPT ![o.entry].settings = settings] ELSE es

WithParent(es, pd, o, depth) ==
  IF o.name = Empty THEN es
  ELSE [i \in DOMAIN es |->
          IF <<i, depth>> \in pd /\ es[i].parent = Empty THEN [es[i] EXCEPT !.parent = o.name] ELSE es[i]]

RepeatsIn(es, o) == es # <<>> /\ Innermost(es).label = o.name /\ Innermost(es).module = o.id

\* The innermost object is o now.
ReadIn(s, o) ==
  IF Complete(o) /\ ~RepeatsIn(s.entries, o)
  THEN State(WithInnermost(s.stack, Marked(o, Len(s.entries) + 1)), s.arrays,
             Append(s.entries, Entry(o)),
             IF Orphan(o) THEN s.pending \cup {<<Len(s.entries) + 1, o.depth>>} ELSE s.pending)
  ELSE State(WithInnermost(s.stack, IF Complete(o) THEN Marked(o, 0) ELSE o),
             s.arrays, s.entries, s.pending)

ScriptedIn(st) == st # <<>> /\ Innermost(st).kind = "script" /\ ~Innermost(st).emitted

\* What a token makes of a state.
StepOf(s, t) ==
  LET o == Innermost(s.stack)
      idle == s.stack = <<>>
  IN  CASE t.sym = "{" -> State(Append(s.stack, OpenedIn(s.arrays)), s.arrays, s.entries, s.pending)
        [] t.sym = "}" -> IF idle THEN s
                          ELSE State(Outer(s.stack), s.arrays,
                                     WithParent(IF o.settings = None THEN s.entries
                                                ELSE WithSettings(s.entries, o, o.settings),
                                                s.pending, o, Len(s.stack)), s.pending)
        [] t.sym = "[" -> State(s.stack, Append(s.arrays, ContextIn(s.stack, t.val)), s.entries, s.pending)
        [] t.sym = "]" -> IF s.arrays = <<>> THEN s
                          ELSE State(s.stack, Outer(s.arrays), s.entries, s.pending)
        [] t.sym = "settings" ->
             State(WithInnermost(s.stack, Obj(o, o.name, o.id, o.emitted, t.val, o.entry)), s.arrays,
                   WithSettings(s.entries, o, t.val), s.pending)
        [] t.sym = "name" -> IF idle THEN s ELSE ReadIn(s, Obj(o, t.val, o.id, o.emitted, o.settings, o.entry))
        [] t.sym = "id" -> IF idle THEN s ELSE ReadIn(s, Obj(o, o.name, t.val, o.emitted, o.settings, o.entry))
        [] t.sym = "path" -> IF ScriptedIn(s.stack)
                             THEN State(WithInnermost(s.stack, Marked(o, o.entry)), s.arrays,
                                        Append(s.entries, ScriptEntry(t.val)), s.pending)
                             ELSE s
        [] OTHER -> s

\* For the arms of StepOf.
LEMMA SymbolsDiffer ==
  /\ "{" \notin {"}", "[", "]", "settings", "name", "id", "path"}
  /\ "}" \notin {"[", "]", "settings", "name", "id", "path"}
  /\ "[" \notin {"]", "settings", "name", "id", "path"}
  /\ "]" \notin {"settings", "name", "id", "path"}
  /\ "settings" \notin {"name", "id", "path"}
  /\ "name" \notin {"id", "path"} /\ "id" # "path"
BY Zenon

-----------------------------------------------------------------------------
(* Sequences                                                               *)

\* What is on a stack, and below it.
LEMMA Pushed ==
  ASSUME NEW S, NEW st \in Seq(S), NEW o \in S
  PROVE  /\ Append(st, o) \in Seq(S) /\ Append(st, o) # <<>>
         /\ Len(Append(st, o)) = Len(st) + 1
         /\ Innermost(Append(st, o)) = o /\ Outer(Append(st, o)) = st
         /\ \A p \in S : WithInnermost(Append(st, o), p) = Append(st, p)
<1> DEFINE a == Append(st, o)
<1>1. a \in Seq(S) /\ Len(a) = Len(st) + 1 /\ a[Len(st) + 1] = o /\ \A i \in 1..Len(st) : a[i] = st[i]
  BY AppendProperties
<1>2. Len(st) \in Nat  BY LenProperties
<1>3. a # <<>> /\ Innermost(a) = o  BY <1>1, <1>2 DEF Innermost
<1>4. Outer(a) = st
  <2>1. SubSeq(a, 1, Len(st)) \in Seq(S) /\ Len(SubSeq(a, 1, Len(st))) = Len(st)
        /\ \A i \in 1..Len(st) : SubSeq(a, 1, Len(st))[i] = a[i]
    BY <1>1, <1>2, SubSeqProperties
  <2>2. SubSeq(a, 1, Len(st)) = st  BY <1>1, <2>1, SeqEqual
  <2> QED  BY <1>1, <1>2, <2>2 DEF Outer
<1>5. ASSUME NEW p \in S PROVE WithInnermost(a, p) = Append(st, p)
  <2> DEFINE b == Append(st, p)  c == [a EXCEPT ![Len(a)] = p]
  <2>1. b \in Seq(S) /\ Len(b) = Len(st) + 1 /\ b[Len(st) + 1] = p /\ \A i \in 1..Len(st) : b[i] = st[i]
    BY AppendProperties
  <2>2. c \in Seq(S) /\ Len(c) = Len(a) /\ \A i \in 1..Len(a) : c[i] = IF i = Len(a) THEN p ELSE a[i]
    <3> HIDE DEF a
    <3>1. Len(a) \in 1..Len(a)  BY <1>1, <1>2
    <3> QED  BY <1>1, <3>1, ExceptSeq
  <2> HIDE DEF a, b, c
  <2>3. b = c  BY <1>1, <1>2, <2>1, <2>2, SeqEqual
  <2> QED  BY <2>3 DEF WithInnermost, b, c
<1> QED  BY <1>1, <1>3, <1>4, <1>5

-----------------------------------------------------------------------------
(* What the walk makes of a part of a text                                 *)

\* The tokens of a saved collection, and of parts of one.
Symbols == {"{", "}", "[", "]", "settings", "name", "id", "path"}
Tokens ==
  [sym : Symbols, dir : STRING \cup {Empty},
   val : Strings \cup Keys \cup Settings
         \cup {CHOOSE s \in Settings : TRUE, Empty, "collection", "hotkeys", "filters", "sources",
               "transitions", "scripts-tool"}]

\* tr is the course of the walk from s through the text.
Traces(tr, s, text) == tr[0] = s /\ \A n \in 1..Len(text) : tr[n] = StepOf(tr[n - 1], text[n])

\* The walk that is at s is at t when it is through with text.
Does(text, s, t) == \E tr : Traces(tr, s, text) /\ tr[Len(text)] = t

\* The walk through no token, one token, and two parts.
LEMMA DoesNothing == ASSUME NEW s PROVE Does(<<>>, s, s)
<1> DEFINE tr == [n \in {0} |-> s]
<1>1. Len(<<>>) = 0 /\ tr[0] = s  OBVIOUS
<1> HIDE DEF tr
<1>2. \A n \in 1..Len(<<>>) : FALSE  BY <1>1
<1>3. Traces(tr, s, <<>>)  BY <1>1, <1>2 DEF Traces
<1> QED  BY <1>1, <1>3 DEF Does

\* What the function does over one token.
LEMMA DoesOne == ASSUME NEW s, NEW x PROVE Does(<<x>>, s, StepOf(s, x))
<1> DEFINE tr == [n \in {0, 1} |-> IF n = 0 THEN s ELSE StepOf(s, x)]
<1>1. Len(<<x>>) = 1 /\ <<x>>[1] = x  OBVIOUS
<1>2. tr[0] = s /\ tr[1] = StepOf(s, x)  OBVIOUS
<1> HIDE DEF tr
<1>3. \A n \in 1..1 : tr[n] = StepOf(tr[n - 1], <<x>>[n])  BY <1>1, <1>2
<1> QED  BY <1>1, <1>2, <1>3 DEF Does, Traces

\* What it does over two texts, one behind the other.
LEMMA DoesBoth ==
  ASSUME NEW T, NEW a \in Seq(T), NEW b \in Seq(T), NEW s, NEW m, NEW t, Does(a, s, m), Does(b, m, t)
  PROVE  Does(a \o b, s, t)
<1>1. PICK f : Traces(f, s, a) /\ f[Len(a)] = m  BY DEF Does
<1>2. PICK g : Traces(g, m, b) /\ g[Len(b)] = t  BY DEF Does
<1> DEFINE c == a \o b
           h == [n \in 0..Len(c) |-> IF n <= Len(a) THEN f[n] ELSE g[n - Len(a)]]
<1>3. /\ Len(a) \in Nat /\ Len(b) \in Nat /\ Len(c) = Len(a) + Len(b)
      /\ \A n \in 1..Len(c) : c[n] = IF n <= Len(a) THEN a[n] ELSE b[n - Len(a)]
  BY ConcatProperties, LenProperties
<1>4. f[0] = s /\ \A n \in 1..Len(a) : f[n] = StepOf(f[n - 1], a[n])  BY <1>1 DEF Traces
<1>5. g[0] = m /\ \A n \in 1..Len(b) : g[n] = StepOf(g[n - 1], b[n])  BY <1>2 DEF Traces
<1> HIDE DEF c
<1>6. \A n \in 0..Len(c) : h[n] = IF n <= Len(a) THEN f[n] ELSE g[n - Len(a)]  OBVIOUS
<1> HIDE DEF h
<1>7. h[0] = s  BY <1>3, <1>4, <1>6
<1>8. h[Len(c)] = t  BY <1>1, <1>2, <1>3, <1>5, <1>6
<1>9. ASSUME NEW n \in 1..Len(c) PROVE h[n] = StepOf(h[n - 1], c[n])
  <2>1. CASE n <= Len(a)
    <3>1. n \in 1..Len(a) /\ n - 1 \in 0..Len(c) /\ n \in 0..Len(c) /\ n - 1 <= Len(a)  BY <1>3, <2>1
    <3>2. h[n] = f[n] /\ h[n - 1] = f[n - 1] /\ c[n] = a[n]  BY <1>3, <1>6, <2>1, <3>1
    <3> QED  BY <1>4, <3>1, <3>2
  <2>2. CASE n > Len(a)
    <3> DEFINE k == n - Len(a)
    <3>1. k \in 1..Len(b) /\ n \in 0..Len(c) /\ n - 1 \in 0..Len(c) /\ (n - 1) - Len(a) = k - 1
      BY <1>3, <2>2
    <3>2. h[n] = g[k] /\ c[n] = b[k]  BY <1>3, <1>6, <2>2, <3>1
    <3>3. h[n - 1] = g[k - 1]
      <4>1. CASE n - 1 <= Len(a)
        <5>1. n - 1 = Len(a) /\ k - 1 = 0  BY <1>3, <2>2, <4>1
        <5> QED  BY <1>1, <1>5, <1>6, <3>1, <5>1
      <4>2. CASE n - 1 > Len(a)  BY <1>3, <1>6, <3>1, <4>2
      <4> QED  BY <1>3, <4>1, <4>2
    <3> HIDE DEF k
    <3> QED  BY <1>5, <3>1, <3>2, <3>3
  <2> QED  BY <1>3, <2>1, <2>2
<1>10. Traces(h, s, c)  BY <1>7, <1>9 DEF Traces
<1> QED  BY <1>8, <1>10 DEF Does, c

\* The states in a saved collection: the collection itself has a name that is
\* none of a source, and a script settings that nobody asks for.
AnySettings == CHOOSE s \in Settings : TRUE
Labels == Strings \cup {"collection"}
Objects ==
  [name : Labels, id : Strings, emitted : BOOLEAN, settings : Settings \cup {None, AnySettings},
   entry : Nat, kind : EntryKinds, parent : Labels, depth : Nat]
ArrayKeys == {"hotkeys", "filters", "sources", "transitions", "scripts-tool", Empty}
Arrays == [key : ArrayKeys, owner : Labels, depth : Nat]
EntrySet ==
  [label : Labels, module : Strings, settings : Settings \cup {None}, kind : EntryKinds,
   parent : Labels]

\* Objects of one kind and place.
LEMMA ObjTyped ==
  ASSUME NEW of \in Objects, NEW name \in Labels, NEW id \in Strings, NEW emitted \in BOOLEAN,
         NEW settings \in Settings \cup {None, AnySettings}, NEW entry \in Nat
  PROVE  Obj(of, name, id, emitted, settings, entry) \in Objects
BY DEF Obj, Objects

\* Two tokens are one and another one.
LEMMA Two ==
  ASSUME NEW T, NEW u \in T, NEW e \in T
  PROVE  /\ <<u, e>> = <<u>> \o <<e>>
         /\ <<u>> \in Seq(T) /\ <<e>> \in Seq(T) /\ <<u, e>> \in Seq(T)
<1>1. <<u>> \in Seq(T) /\ <<e>> \in Seq(T) /\ <<u, e>> \in Seq(T)  OBVIOUS
<1>2. /\ <<u>> \o <<e>> \in Seq(T) /\ Len(<<u>> \o <<e>>) = 2
      /\ (<<u>> \o <<e>>)[1] = u /\ (<<u>> \o <<e>>)[2] = e
  BY <1>1, ConcatProperties
<1>3. Len(<<u, e>>) = 2 /\ <<u, e>>[1] = u /\ <<u, e>>[2] = e  OBVIOUS
<1> DEFINE a == <<u, e>>  b == <<u>> \o <<e>>
<1> HIDE DEF a, b
<1>4. Len(a) = Len(b) /\ \A i \in 1..Len(a) : a[i] = b[i]  BY <1>2, <1>3 DEF a, b
<1>5. a \in Seq(T) /\ b \in Seq(T)  BY <1>1, <1>2 DEF a, b
<1>6. a = b  BY <1>4, <1>5, SeqEqual
<1> QED  BY <1>1, <1>6 DEF a, b

\* An object begins.
LEMMA Opening ==
  ASSUME NEW st, NEW ar, NEW es, NEW pd
  PROVE  Does(<<Token("{", Empty)>>, State(st, ar, es, pd), State(Append(st, OpenedIn(ar)), ar, es, pd))
<1> DEFINE s == State(st, ar, es, pd)  t == Token("{", Empty)
<1>1. t.sym = "{" /\ s.stack = st /\ s.arrays = ar /\ s.entries = es /\ s.pending = pd
  BY DEF Token, State
<1>2. Does(<<t>>, s, StepOf(s, t))  BY DoesOne
<1> HIDE DEF s, t
<1>3. StepOf(s, t) = State(Append(st, OpenedIn(ar)), ar, es, pd)  BY <1>1, SymbolsDiffer DEF StepOf
<1> QED  BY <1>2, <1>3 DEF s, t

\* An object ends.
LEMMA Closing ==
  ASSUME NEW st \in Seq(Objects), NEW o \in Objects, NEW ar, NEW es, NEW pd
  PROVE  Does(<<Token("}", Empty)>>, State(Append(st, o), ar, es, pd),
              State(st, ar, WithParent(IF o.settings = None THEN es ELSE WithSettings(es, o, o.settings),
                                       pd, o, Len(st) + 1), pd))
<1> DEFINE s == State(Append(st, o), ar, es, pd)  t == Token("}", Empty)
<1>1. t.sym = "}" /\ s.stack = Append(st, o) /\ s.arrays = ar /\ s.entries = es /\ s.pending = pd
  BY DEF Token, State
<1>2. Does(<<t>>, s, StepOf(s, t))  BY DoesOne
<1>3. Append(st, o) # <<>> /\ Len(Append(st, o)) = Len(st) + 1 /\ Innermost(Append(st, o)) = o /\ Outer(Append(st, o)) = st
  BY Pushed
<1> HIDE DEF s, t
<1>4. StepOf(s, t) = State(st, ar, WithParent(IF o.settings = None THEN es ELSE WithSettings(es, o, o.settings),
                                       pd, o, Len(st) + 1), pd)
  BY <1>1, <1>3, SymbolsDiffer DEF StepOf
<1> QED  BY <1>2, <1>4 DEF s, t

\* An array begins.
LEMMA OpeningArray ==
  ASSUME NEW st, NEW ar, NEW es, NEW pd, NEW key
  PROVE  Does(<<Token("[", key)>>, State(st, ar, es, pd), State(st, Append(ar, ContextIn(st, key)), es, pd))
<1> DEFINE s == State(st, ar, es, pd)  t == Token("[", key)
<1>1. t.sym = "[" /\ t.val = key /\ s.stack = st /\ s.arrays = ar /\ s.entries = es /\ s.pending = pd
  BY DEF Token, State
<1>2. Does(<<t>>, s, StepOf(s, t))  BY DoesOne
<1> HIDE DEF s, t
<1>3. StepOf(s, t) = State(st, Append(ar, ContextIn(st, key)), es, pd)
  BY <1>1, SymbolsDiffer DEF StepOf
<1> QED  BY <1>2, <1>3 DEF s, t

\* An array ends.
LEMMA ClosingArray ==
  ASSUME NEW st, NEW ar \in Seq(Arrays), NEW c \in Arrays, NEW es, NEW pd
  PROVE  Does(<<Token("]", Empty)>>, State(st, Append(ar, c), es, pd), State(st, ar, es, pd))
<1> DEFINE s == State(st, Append(ar, c), es, pd)  t == Token("]", Empty)
<1>1. t.sym = "]" /\ s.stack = st /\ s.arrays = Append(ar, c) /\ s.entries = es /\ s.pending = pd
  BY DEF Token, State
<1>2. Does(<<t>>, s, StepOf(s, t))  BY DoesOne
<1>3. Append(ar, c) # <<>> /\ Outer(Append(ar, c)) = ar  BY Pushed
<1> HIDE DEF s, t
<1>4. StepOf(s, t) = State(st, ar, es, pd)  BY <1>1, <1>3, SymbolsDiffer DEF StepOf
<1> QED  BY <1>2, <1>4 DEF s, t

\* An object has its settings.
LEMMA Setting ==
  ASSUME NEW st \in Seq(Objects), NEW o \in Objects, NEW ar, NEW es, NEW pd, NEW v \in Settings \cup {AnySettings}
  PROVE  Does(<<Token("settings", v)>>, State(Append(st, o), ar, es, pd),
              State(Append(st, Obj(o, o.name, o.id, o.emitted, v, o.entry)), ar, WithSettings(es, o, v), pd))
<1> DEFINE s == State(Append(st, o), ar, es, pd)  t == Token("settings", v)  p == Obj(o, o.name, o.id, o.emitted, v, o.entry)
<1>1. t.sym = "settings" /\ t.val = v /\ s.stack = Append(st, o) /\ s.arrays = ar /\ s.entries = es /\ s.pending = pd
  BY DEF Token, State
<1>2. Does(<<t>>, s, StepOf(s, t))  BY DoesOne
<1>3. p \in Objects  BY DEF Objects, Obj, Marked
<1>4. Innermost(Append(st, o)) = o /\ WithInnermost(Append(st, o), p) = Append(st, p)
  <2> HIDE DEF p
  <2> QED  BY <1>3, Pushed
<1>5. StepOf(s, t) = State(Append(st, p), ar, WithSettings(es, o, v), pd)
  <2> HIDE DEF s, t
  <2> QED  BY <1>1, <1>4, SymbolsDiffer DEF StepOf
<1> QED  BY <1>2, <1>5

\* A member that names an object, or says what it is.
LEMMA Naming ==
  ASSUME NEW st \in Seq(Objects), NEW o \in Objects, NEW ar, NEW es, NEW pd, NEW v
  PROVE  /\ Does(<<Token("name", v)>>, State(Append(st, o), ar, es, pd),
                 ReadIn(State(Append(st, o), ar, es, pd), Obj(o, v, o.id, o.emitted, o.settings, o.entry)))
         /\ Does(<<Token("id", v)>>, State(Append(st, o), ar, es, pd),
                 ReadIn(State(Append(st, o), ar, es, pd), Obj(o, o.name, v, o.emitted, o.settings, o.entry)))
<1> DEFINE s == State(Append(st, o), ar, es, pd)  t == Token("name", v)  u == Token("id", v)
<1>1. t.sym = "name" /\ t.val = v /\ u.sym = "id" /\ u.val = v /\ s.stack = Append(st, o)
  BY DEF Token, State
<1>2. Does(<<t>>, s, StepOf(s, t)) /\ Does(<<u>>, s, StepOf(s, u))  BY DoesOne
<1>3. Append(st, o) # <<>> /\ Innermost(Append(st, o)) = o  BY Pushed
<1> HIDE DEF s, t, u
<1>4. StepOf(s, t) = ReadIn(s, Obj(o, v, o.id, o.emitted, o.settings, o.entry))
  BY <1>1, <1>3, SymbolsDiffer DEF StepOf
<1>5. StepOf(s, u) = ReadIn(s, Obj(o, o.name, v, o.emitted, o.settings, o.entry))
  BY <1>1, <1>3, SymbolsDiffer DEF StepOf
<1> QED  BY <1>2, <1>4, <1>5 DEF s, t, u

\* The path of a script that has none.
LEMMA Scripting ==
  ASSUME NEW st \in Seq(Objects), NEW o \in Objects, NEW ar, NEW es, NEW pd, NEW t,
         o.kind = "script", ~o.emitted, t.sym = "path"
  PROVE  Does(<<t>>, State(Append(st, o), ar, es, pd),
              State(Append(st, Marked(o, o.entry)), ar, Append(es, ScriptEntry(t.val)), pd))
<1> DEFINE s == State(Append(st, o), ar, es, pd)  p == Marked(o, o.entry)
<1>1. s.stack = Append(st, o) /\ s.arrays = ar /\ s.entries = es /\ s.pending = pd
  BY DEF State
<1>2. Does(<<t>>, s, StepOf(s, t))  BY DoesOne
<1>3. p \in Objects  BY DEF Objects, Obj, Marked
<1>4. Append(st, o) # <<>> /\ Innermost(Append(st, o)) = o /\ WithInnermost(Append(st, o), p) = Append(st, p)
  <2> HIDE DEF p
  <2> QED  BY <1>3, Pushed
<1>5. StepOf(s, t) = State(Append(st, p), ar, Append(es, ScriptEntry(t.val)), pd)
  <2> HIDE DEF s, p
  <2>1. ScriptedIn(s.stack)  BY <1>1, <1>4 DEF ScriptedIn
  <2>2. StepOf(s, t) = State(WithInnermost(s.stack, Marked(o, o.entry)), s.arrays,
                                        Append(s.entries, ScriptEntry(t.val)), s.pending)
    BY <1>1, <1>4, <2>1, SymbolsDiffer DEF StepOf
  <2> QED  BY <1>1, <1>4, <2>2 DEF p
<1> QED  BY <1>2, <1>5

\* The entry of e for an object of the kind and place of another one.
Made(of, e, settings) ==
  [label |-> e.name, module |-> e.id, settings |-> settings, kind |-> of.kind, parent |-> of.parent]

\* The last entry is like e; the entry of such an object waits for its parent.
Like(es, e) == es # <<>> /\ Innermost(es).label = e.name /\ Innermost(es).module = e.id
Waits(of) == of.kind = "filter" /\ of.parent = Empty /\ of.depth # 0

\* The name and the id of an object, in either order.
LEMMA NamesRead ==
  ASSUME NEW st \in Seq(Objects), NEW of \in Objects, of.kind # "script", NEW ar, NEW es, NEW pd, Len(es) \in Nat,
         NEW e, e.name \in Strings \ {Empty}, e.id \in Strings \ {Empty}, NEW x \in Settings \cup {None},
         NEW text \in {Names(e), NamesBehind(e)}
  PROVE  Does(text, State(Append(st, Obj(of, Empty, Empty, FALSE, x, 0)), ar, es, pd),
              IF Like(es, e) THEN State(Append(st, Obj(of, e.name, e.id, TRUE, x, 0)), ar, es, pd)
              ELSE State(Append(st, Obj(of, e.name, e.id, TRUE, x, Len(es) + 1)), ar, Append(es, Made(of, e, x)),
                         IF Waits(of) THEN pd \cup {<<Len(es) + 1, of.depth>>} ELSE pd))
<1> DEFINE o == Obj(of, Empty, Empty, FALSE, x, 0)
           n == Obj(of, e.name, Empty, FALSE, x, 0)
           i == Obj(of, Empty, e.id, FALSE, x, 0)
           b == Obj(of, e.name, e.id, FALSE, x, 0)
           T == [sym : {"name", "id"}, dir : {Empty}, val : Strings]
           S(y) == State(Append(st, y), ar, es, pd)
           t == IF Like(es, e) THEN State(Append(st, Obj(of, e.name, e.id, TRUE, x, 0)), ar, es, pd)
                ELSE State(Append(st, Obj(of, e.name, e.id, TRUE, x, Len(es) + 1)), ar, Append(es, Made(of, e, x)),
                           IF Waits(of) THEN pd \cup {<<Len(es) + 1, of.depth>>} ELSE pd)
<1>1. o \in Objects /\ n \in Objects /\ i \in Objects /\ b \in Objects
      /\ Obj(of, e.name, e.id, TRUE, x, 0) \in Objects /\ Obj(of, e.name, e.id, TRUE, x, Len(es) + 1) \in Objects
  <2>1. Empty \in Labels /\ Empty \in Strings /\ e.name \in Labels /\ 0 \in Nat /\ Len(es) + 1 \in Nat
    BY StringsAssumption DEF Labels
  <2> QED  BY <2>1, ObjTyped
<1>2. /\ Obj(o, e.name, o.id, o.emitted, o.settings, o.entry) = n
      /\ Obj(o, o.name, e.id, o.emitted, o.settings, o.entry) = i
      /\ Obj(n, n.name, e.id, n.emitted, n.settings, n.entry) = b
      /\ Obj(i, e.name, i.id, i.emitted, i.settings, i.entry) = b
      /\ \A v : Marked(b, v) = Obj(of, e.name, e.id, TRUE, x, v)
  BY DEF Obj, Marked
<1>3. ~Complete(n) /\ ~Complete(i) /\ Complete(b)  BY DEF Complete, Obj
<1>4. /\ b.name = e.name /\ b.id = e.id /\ b.depth = of.depth
      /\ Entry(b) = Made(of, e, x) /\ (Orphan(b) <=> Waits(of))
  BY DEF Obj, Entry, Made, Orphan, Waits
<1>5. Token("name", e.name) \in T /\ Token("id", e.id) \in T  BY DEF Token
<1>6. \A z, y \in Objects : WithInnermost(Append(st, z), y) = Append(st, y)
  <2> HIDE DEF o, n, i, b, S, t
  <2> QED  BY Pushed
<1>7. \A z : S(z).stack = Append(st, z) /\ S(z).arrays = ar /\ S(z).entries = es /\ S(z).pending = pd
  BY DEF State
<1> HIDE DEF o, n, i, b, T
<1>8. ASSUME NEW y \in {n, i}, NEW z \in Objects PROVE ReadIn(S(z), y) = S(y)
  BY <1>1, <1>3, <1>6 DEF ReadIn, State
<1>9. ASSUME NEW z \in Objects PROVE ReadIn(S(z), b) = t
  <2>1. RepeatsIn(es, b) <=> Like(es, e)  BY <1>4 DEF RepeatsIn, Like
  <2>2. CASE Like(es, e)
    <3>1. ReadIn(S(z), b) = State(WithInnermost(Append(st, z), Marked(b, 0)), ar, es, pd)
      BY <1>3, <1>7, <2>1, <2>2 DEF ReadIn
    <3>2. Marked(b, 0) = Obj(of, e.name, e.id, TRUE, x, 0)  BY <1>2, Zenon
    <3>3. WithInnermost(Append(st, z), Marked(b, 0)) = Append(st, Obj(of, e.name, e.id, TRUE, x, 0))
      BY <1>1, <1>6, <3>2, Zenon
    <3> QED  BY <2>2, <3>1, <3>3, Zenon
  <2>3. CASE ~Like(es, e)
    <3>1. ReadIn(S(z), b) = State(WithInnermost(Append(st, z), Marked(b, Len(es) + 1)), ar,
                                  Append(es, Entry(b)), IF Orphan(b) THEN pd \cup {<<Len(es) + 1, b.depth>>} ELSE pd)
      BY <1>3, <1>7, <2>1, <2>3 DEF ReadIn
    <3> QED  BY <1>1, <1>2, <1>4, <1>6, <2>3, <3>1
  <2> QED  BY <2>2, <2>3
<1>10. CASE text = Names(e)
  <2>1. Does(<<Token("name", e.name)>>, S(o), ReadIn(S(o), Obj(o, e.name, o.id, o.emitted, o.settings, o.entry)))
        /\ Does(<<Token("id", e.id)>>, S(n), ReadIn(S(n), Obj(n, n.name, e.id, n.emitted, n.settings, n.entry)))
    BY <1>1, Naming
  <2>2. Does(<<Token("name", e.name)>>, S(o), ReadIn(S(o), n)) /\ Does(<<Token("id", e.id)>>, S(n), ReadIn(S(n), b))
    BY <1>2, <2>1, Zenon
  <2>3. Does(<<Token("name", e.name)>>, S(o), S(n)) /\ Does(<<Token("id", e.id)>>, S(n), t)
    BY <1>1, <1>8, <1>9, <2>2
  <2>4. /\ text = <<Token("name", e.name)>> \o <<Token("id", e.id)>>
        /\ <<Token("name", e.name)>> \in Seq(T) /\ <<Token("id", e.id)>> \in Seq(T)
    BY <1>5, <1>10, Two DEF Names
  <2> HIDE DEF S, t
  <2>5. Does(text, S(o), t)  BY <2>3, <2>4, DoesBoth
  <2> QED  BY <2>5 DEF S, o, t
<1>11. CASE text = NamesBehind(e)
  <2>1. Does(<<Token("id", e.id)>>, S(o), ReadIn(S(o), Obj(o, o.name, e.id, o.emitted, o.settings, o.entry)))
        /\ Does(<<Token("name", e.name)>>, S(i), ReadIn(S(i), Obj(i, e.name, i.id, i.emitted, i.settings, i.entry)))
    BY <1>1, Naming
  <2>2. Does(<<Token("id", e.id)>>, S(o), ReadIn(S(o), i)) /\ Does(<<Token("name", e.name)>>, S(i), ReadIn(S(i), b))
    BY <1>2, <2>1, Zenon
  <2>3. Does(<<Token("id", e.id)>>, S(o), S(i)) /\ Does(<<Token("name", e.name)>>, S(i), t)
    BY <1>1, <1>8, <1>9, <2>2
  <2>4. /\ text = <<Token("id", e.id)>> \o <<Token("name", e.name)>>
        /\ <<Token("id", e.id)>> \in Seq(T) /\ <<Token("name", e.name)>> \in Seq(T)
    BY <1>5, <1>11, Two DEF NamesBehind
  <2> HIDE DEF S, t
  <2>5. Does(text, S(o), t)  BY <2>3, <2>4, DoesBoth
  <2> QED  BY <2>5 DEF S, o, t
<1> QED  BY <1>10, <1>11

-----------------------------------------------------------------------------
(* Induction over the naturals, in terms of sets                           *)

\* The least element of a set of naturals.
LEMMA LeastElement ==
  ASSUME NEW S \in SUBSET Nat, S # {}
  PROVE  \E x \in S : \A y \in S : x <= y
<1> DEFINE R == OpToRel(<, Nat)
<1>1. IsWellFoundedOn(R, Nat)  BY NatLessThanWellFounded
<1>2. \A x, y \in Nat : x < y => <<x, y>> \in R  BY DEF R, OpToRel
<1> HIDE DEF R
<1>3. \E x \in S : \A y \in S : ~ (<<y, x>> \in R)  BY <1>1, WFMin
<1>4. PICK x \in S : \A y \in S : ~ (y < x)  BY <1>2, <1>3
<1> QED  BY <1>4

\* What holds of 0, and of a successor up to m if it holds before.
LEMMA Induction ==
  ASSUME NEW m \in Nat, NEW S, 0 \in S, \A n \in 0..m : n \in S /\ n # m => n + 1 \in S
  PROVE  \A n \in 0..m : n \in S
<1> SUFFICES ASSUME (0..m) \ S # {} PROVE FALSE  OBVIOUS
<1>1. (0..m) \ S \in SUBSET Nat  OBVIOUS
<1>2. PICK x \in (0..m) \ S : \A y \in (0..m) \ S : x <= y  BY <1>1, LeastElement
<1>3. x # 0 /\ x - 1 \in 0..m /\ x - 1 # m  BY <1>2
<1>4. x - 1 \in S  BY <1>2, <1>3
<1>5. (x - 1) + 1 \in S  BY <1>3, <1>4
<1> QED  BY <1>2, <1>5

-----------------------------------------------------------------------------
(* Entries, added one after the other                                      *)

\* An entry is added unless it repeats the one before it; a script always is.
Add(es, h) == IF h.module # Empty /\ Like(es, [name |-> h.label, id |-> h.module]) THEN es ELSE Append(es, h)

\* fs is what es becomes when the entries of hs are added.
Adds(es, hs, fs) ==
  \E tr : /\ tr[0] = es /\ (\A n \in 1..Len(hs) : tr[n] = Add(tr[n - 1], hs[n]))
          /\ tr[Len(hs)] = fs

\* No entry, one entry and two parts.
LEMMA AddsNothing == ASSUME NEW es PROVE Adds(es, <<>>, es)
<1> DEFINE tr == [n \in {0} |-> es]
<1>1. Len(<<>>) = 0 /\ tr[0] = es  OBVIOUS
<1> HIDE DEF tr
<1>2. \A n \in 1..Len(<<>>) : FALSE  BY <1>1
<1> QED  BY <1>1, <1>2 DEF Adds

\* One entry is added.
LEMMA AddsOne == ASSUME NEW es, NEW h PROVE Adds(es, <<h>>, Add(es, h))
<1> DEFINE tr == [n \in {0, 1} |-> IF n = 0 THEN es ELSE Add(es, h)]
<1>1. Len(<<h>>) = 1 /\ <<h>>[1] = h  OBVIOUS
<1>2. tr[0] = es /\ tr[1] = Add(es, h)  OBVIOUS
<1> HIDE DEF tr
<1>3. \A n \in 1..1 : tr[n] = Add(tr[n - 1], <<h>>[n])  BY <1>1, <1>2
<1> QED  BY <1>1, <1>2, <1>3 DEF Adds

\* Two parts are added one after the other.
LEMMA AddsBoth ==
  ASSUME NEW T, NEW a \in Seq(T), NEW b \in Seq(T), NEW s, NEW m, NEW t, Adds(s, a, m), Adds(m, b, t)
  PROVE  Adds(s, a \o b, t)
<1>1. PICK f : f[0] = s /\ (\A n \in 1..Len(a) : f[n] = Add(f[n - 1], a[n])) /\ f[Len(a)] = m
  BY DEF Adds
<1>2. PICK g : g[0] = m /\ (\A n \in 1..Len(b) : g[n] = Add(g[n - 1], b[n])) /\ g[Len(b)] = t
  BY DEF Adds
<1> DEFINE c == a \o b
           h == [n \in 0..Len(c) |-> IF n <= Len(a) THEN f[n] ELSE g[n - Len(a)]]
<1>3. /\ Len(a) \in Nat /\ Len(b) \in Nat /\ Len(c) = Len(a) + Len(b)
      /\ \A n \in 1..Len(c) : c[n] = IF n <= Len(a) THEN a[n] ELSE b[n - Len(a)]
  BY ConcatProperties, LenProperties
<1> HIDE DEF c
<1>6. \A n \in 0..Len(c) : h[n] = IF n <= Len(a) THEN f[n] ELSE g[n - Len(a)]  OBVIOUS
<1> HIDE DEF h
<1>7. h[0] = s  BY <1>1, <1>3, <1>6
<1>8. h[Len(c)] = t  BY <1>1, <1>2, <1>3, <1>6
<1>9. ASSUME NEW n \in 1..Len(c) PROVE h[n] = Add(h[n - 1], c[n])
  <2>1. CASE n <= Len(a)
    <3>1. n \in 1..Len(a) /\ n - 1 \in 0..Len(c) /\ n \in 0..Len(c) /\ n - 1 <= Len(a)  BY <1>3, <2>1
    <3>2. h[n] = f[n] /\ h[n - 1] = f[n - 1] /\ c[n] = a[n]  BY <1>3, <1>6, <2>1, <3>1
    <3> QED  BY <1>1, <3>1, <3>2
  <2>2. CASE n > Len(a)
    <3> DEFINE k == n - Len(a)
    <3>1. k \in 1..Len(b) /\ n \in 0..Len(c) /\ n - 1 \in 0..Len(c) /\ (n - 1) - Len(a) = k - 1
      BY <1>3, <2>2
    <3>2. h[n] = g[k] /\ c[n] = b[k]  BY <1>3, <1>6, <2>2, <3>1
    <3>3. h[n - 1] = g[k - 1]
      <4>1. CASE n - 1 <= Len(a)
        <5>1. n - 1 = Len(a) /\ k - 1 = 0  BY <1>3, <2>2, <4>1
        <5> QED  BY <1>1, <1>2, <1>6, <3>1, <5>1
      <4>2. CASE n - 1 > Len(a)  BY <1>3, <1>6, <3>1, <4>2
      <4> QED  BY <1>3, <4>1, <4>2
    <3> HIDE DEF k
    <3> QED  BY <1>2, <3>1, <3>2, <3>3
  <2> QED  BY <1>3, <2>1, <2>2
<1> QED  BY <1>7, <1>8, <1>9 DEF Adds, c

\* One more entry: it is the last one then, and those before it are as they were.
LEMMA Added ==
  ASSUME NEW es \in Seq(EntrySet), NEW h \in EntrySet
  PROVE  /\ Add(es, h) \in Seq(EntrySet)
         /\ Len(Add(es, h)) \in {Len(es), Len(es) + 1} /\ Len(Add(es, h)) # 0
         /\ \A i \in 1..Len(es) : Add(es, h)[i] = es[i]
         /\ Innermost(Add(es, h)).label = h.label /\ Innermost(Add(es, h)).module = h.module
<1>1. Len(es) \in Nat  BY LenProperties
<1>2. CASE h.module # Empty /\ Like(es, [name |-> h.label, id |-> h.module])
  <2>1. es # <<>> /\ Innermost(es).label = h.label /\ Innermost(es).module = h.module  BY <1>2 DEF Like
  <2>2. Add(es, h) = es  BY <1>2 DEF Add
  <2>3. Len(es) # 0  BY <2>1, EmptySeq
  <2> QED  BY <1>1, <2>1, <2>2, <2>3
<1>3. CASE ~(h.module # Empty /\ Like(es, [name |-> h.label, id |-> h.module]))
  <2> DEFINE fs == Append(es, h)
  <2>1. Add(es, h) = fs  BY <1>3, Zenon DEF Add
  <2>2. fs \in Seq(EntrySet) /\ Len(fs) = Len(es) + 1 /\ fs[Len(es) + 1] = h /\ \A i \in 1..Len(es) : fs[i] = es[i]
    BY AppendProperties
  <2> HIDE DEF fs
  <2>3. Innermost(fs) = h  BY <2>2 DEF Innermost
  <2> QED  BY <1>1, <2>1, <2>2, <2>3
<1> QED  BY <1>2, <1>3

\* Entries stay when others are added.
LEMMA Adding ==
  ASSUME NEW es \in Seq(EntrySet), NEW hs \in Seq(EntrySet), NEW tr, tr[0] = es,
         \A n \in 1..Len(hs) : tr[n] = Add(tr[n - 1], hs[n])
  PROVE  \A n \in 0..Len(hs) : /\ tr[n] \in Seq(EntrySet) /\ Len(es) <= Len(tr[n])
                               /\ \A i \in 1..Len(es) : tr[n][i] = es[i]
<1>2. Len(hs) \in Nat /\ Len(es) \in Nat  BY LenProperties
<1> DEFINE P(x) == x \in Seq(EntrySet) /\ Len(es) <= Len(x) /\ Len(x) \in Nat /\ \A i \in 1..Len(es) : x[i] = es[i]
           S == {n \in Nat : P(tr[n])}
<1>3. 0 \in S  BY <1>2
<1>4. ASSUME NEW n \in 0..Len(hs), n \in S, n # Len(hs) PROVE n + 1 \in S
  <2>1. n + 1 \in 1..Len(hs) /\ (n + 1) - 1 = n /\ n + 1 \in Nat  BY <1>2, <1>4
  <2>2. hs[n + 1] \in EntrySet  BY <2>1, ElementOfSeq
  <2>3. tr[n + 1] = Add(tr[n], hs[n + 1])  BY <2>1
  <2>4. P(tr[n])  BY <1>4
  <2> DEFINE x == tr[n]  y == tr[n + 1]
  <2> HIDE DEF S, P
  <2>6. P(x) /\ y = Add(x, hs[n + 1])  BY <2>3, <2>4
  <2> HIDE DEF x, y
  <2>0. x \in Seq(EntrySet)  BY <2>6 DEF P
  <2>5. y \in Seq(EntrySet) /\ Len(y) \in {Len(x), Len(x) + 1} /\ \A i \in 1..Len(x) : y[i] = x[i]
    BY <2>0, <2>2, <2>6, Added
  <2>8. Len(x) \in Nat /\ Len(es) <= Len(x) /\ \A i \in 1..Len(es) : x[i] = es[i]  BY <2>6 DEF P
  <2>9. Len(y) \in Nat /\ Len(es) <= Len(y) /\ \A i \in 1..Len(es) : y[i] = es[i]  BY <1>2, <2>5, <2>8
  <2>7. P(y)  BY <2>5, <2>9 DEF P
  <2> QED  BY <2>1, <2>7 DEF S, y
<1>5. \A n \in 0..Len(hs) : n \in S
  <2> HIDE DEF S
  <2> QED  BY <1>2, <1>3, <1>4, Induction
<1> QED  BY <1>5

\* The entries that were there stay as they are.
LEMMA AddsKeep ==
  ASSUME NEW es \in Seq(EntrySet), NEW hs \in Seq(EntrySet), NEW fs, Adds(es, hs, fs)
  PROVE  /\ fs \in Seq(EntrySet) /\ Len(es) <= Len(fs) /\ Len(es) \in Nat /\ Len(fs) \in Nat
         /\ \A i \in 1..Len(es) : fs[i] = es[i]
<1>1. PICK tr : tr[0] = es /\ (\A n \in 1..Len(hs) : tr[n] = Add(tr[n - 1], hs[n])) /\ tr[Len(hs)] = fs
  BY DEF Adds
<1>2. Len(hs) \in 0..Len(hs)  BY LenProperties
<1>3. \A n \in 0..Len(hs) : /\ tr[n] \in Seq(EntrySet) /\ Len(es) <= Len(tr[n])
                            /\ \A i \in 1..Len(es) : tr[n][i] = es[i]
  BY <1>1, Adding
<1> QED  BY <1>1, <1>2, <1>3, LenProperties

\* How many of the first n entries are not like the one before.
Taken(hs, n) == Cardinality(Fresh(hs) \cap (1..n))

\* The count, from one entry to the next.
LEMMA TakenNext ==
  ASSUME NEW hs, NEW n \in Nat
  PROVE  /\ Taken(hs, 0) = 0 /\ Taken(hs, n) \in Nat
         /\ n + 1 \in Fresh(hs) => Taken(hs, n + 1) = Taken(hs, n) + 1
         /\ n + 1 \notin Fresh(hs) => Taken(hs, n + 1) = Taken(hs, n)
<1> DEFINE F == Fresh(hs)
<1> HIDE DEF F
<1>1. IsFiniteSet(1..n)  BY FS_Interval
<1>2. IsFiniteSet(F \cap (1..n))  BY <1>1, FS_Subset
<1>3. F \cap (1..0) = {}  OBVIOUS
<1>4. Cardinality(F \cap (1..n)) \in Nat  BY <1>2, FS_CardinalityType
<1>5. ASSUME n + 1 \in F PROVE Cardinality(F \cap (1..(n + 1))) = Cardinality(F \cap (1..n)) + 1
  <2>1. F \cap (1..(n + 1)) = (F \cap (1..n)) \cup {n + 1} /\ n + 1 \notin F \cap (1..n)  BY <1>5
  <2> QED  BY <1>2, <2>1, FS_AddElement
<1>6. ASSUME n + 1 \notin F PROVE F \cap (1..(n + 1)) = F \cap (1..n)  BY <1>6
<1>7. Cardinality({}) = 0  BY FS_EmptySet
<1> QED  BY <1>3, <1>4, <1>5, <1>6, <1>7 DEF Taken, F

\* An entry repeats the last one if it is like the one that was read before it.
LEMMA AddsFresh ==
  ASSUME NEW es \in Seq(EntrySet), NEW hs \in Seq(EntrySet), NEW n \in 1..Len(hs), n = 1 => es = <<>>,
         n # 1 => es # <<>> /\ Innermost(es).label = hs[n - 1].label /\ Innermost(es).module = hs[n - 1].module
  PROVE  /\ n \in Fresh(hs) => Add(es, hs[n]) = Append(es, hs[n])
         /\ n \notin Fresh(hs) => Add(es, hs[n]) = es
<1> DEFINE h == hs[n]
<1>1. n \in Fresh(hs) <=> (n = 1 \/ ~Alike(hs[n - 1], h))
  BY LenProperties DEF Fresh
<1>2. Like(es, [name |-> h.label, id |-> h.module])
        <=> es # <<>> /\ Innermost(es).label = h.label /\ Innermost(es).module = h.module
  BY DEF Like
<1>3. (h.module # Empty /\ Like(es, [name |-> h.label, id |-> h.module])) <=> n \notin Fresh(hs)
  BY <1>1, <1>2 DEF Alike
<1> HIDE DEF h
<1>4. n \in Fresh(hs) => Add(es, h) = Append(es, h)  BY <1>3, Zenon DEF Add
<1>5. n \notin Fresh(hs) => Add(es, h) = es  BY <1>3, Zenon DEF Add
<1> QED  BY <1>4, <1>5 DEF h

\* The entries that are not like the one before are there in the end, each in
\* its place, and no others.
AreTaken(hs, x, n) ==
  /\ x \in Seq(EntrySet) /\ Len(x) = Taken(hs, n)
  /\ IF n = 0 THEN x = <<>>
     ELSE x # <<>> /\ Innermost(x).label = hs[n].label /\ Innermost(x).module = hs[n].module
  /\ \A k \in 1..n : k \in Fresh(hs) => Taken(hs, k) \in 1..Len(x) /\ x[Taken(hs, k)] = hs[k]

\* One entry more of the collection, and what is taken so far is right.
LEMMA TakenMore ==
  ASSUME NEW hs \in Seq(EntrySet), NEW n \in Nat, n + 1 \in 1..Len(hs), NEW x, AreTaken(hs, x, n)
  PROVE  AreTaken(hs, Add(x, hs[n + 1]), n + 1)
<1> DEFINE h == hs[n + 1]  y == Add(x, h)
<1>1. h \in EntrySet  BY ElementOfSeq
<1>2. x \in Seq(EntrySet) /\ Len(x) = Taken(hs, n)  BY DEF AreTaken
<1>3. /\ y \in Seq(EntrySet) /\ Len(y) # 0 /\ Innermost(y).label = h.label /\ Innermost(y).module = h.module
      /\ \A i \in 1..Len(x) : y[i] = x[i]
  <2> HIDE DEF h
  <2> QED  BY <1>1, <1>2, Added
<1>4. y # <<>>  BY <1>3, EmptySeq
<1>5. /\ n + 1 \in Fresh(hs) => y = Append(x, h)
      /\ n + 1 \notin Fresh(hs) => y = x
  <2>1. n + 1 = 1 => x = <<>>  BY DEF AreTaken
  <2>2. (n + 1) - 1 = n  OBVIOUS
  <2>3. n + 1 # 1 => x # <<>> /\ Innermost(x).label = hs[n].label /\ Innermost(x).module = hs[n].module
    BY DEF AreTaken
  <2> QED  BY <1>2, <2>1, <2>2, <2>3, AddsFresh
<1>6. Len(x) \in Nat /\ Len(Append(x, h)) = Len(x) + 1 /\ Append(x, h)[Len(x) + 1] = h
  <2> HIDE DEF h
  <2> QED  BY <1>1, <1>2, AppendProperties, LenProperties
<1>7. \A k \in 1..n : k \in Fresh(hs) => Taken(hs, k) \in 1..Len(x) /\ x[Taken(hs, k)] = hs[k]
  BY DEF AreTaken
<1> HIDE DEF y, h
<1>8. CASE n + 1 \in Fresh(hs)
  <2>1. Taken(hs, n + 1) = Len(x) + 1 /\ Len(y) = Len(x) + 1 /\ y[Len(x) + 1] = h
    BY <1>2, <1>5, <1>6, <1>8, TakenNext
  <2>2. \A k \in 1..(n + 1) : k \in Fresh(hs) => Taken(hs, k) \in 1..Len(y) /\ y[Taken(hs, k)] = hs[k]
    BY <1>3, <1>6, <1>7, <2>1 DEF h
  <2> QED  BY <1>3, <1>4, <2>1, <2>2 DEF AreTaken, y, h
<1>9. CASE n + 1 \notin Fresh(hs)
  <2>1. Taken(hs, n + 1) = Len(x) /\ y = x
    BY <1>2, <1>5, <1>9, TakenNext
  <2>2. \A k \in 1..(n + 1) : k \in Fresh(hs) => Taken(hs, k) \in 1..Len(y) /\ y[Taken(hs, k)] = hs[k]
    BY <1>7, <1>9, <2>1
  <2> QED  BY <1>3, <1>4, <2>1, <2>2 DEF AreTaken, y, h
<1> QED  BY <1>8, <1>9

\* What the walk takes of a collection is what does not repeat the entry before.
LEMMA AddsExact ==
  ASSUME NEW hs \in Seq(EntrySet), NEW fs, Adds(<<>>, hs, fs)
  PROVE  /\ Len(fs) = Cardinality(Fresh(hs))
         /\ \A k \in Fresh(hs) : fs[Cardinality(Fresh(hs) \cap (1..k))] = hs[k]
<1>1. PICK tr : tr[0] = <<>> /\ (\A n \in 1..Len(hs) : tr[n] = Add(tr[n - 1], hs[n])) /\ tr[Len(hs)] = fs
  BY DEF Adds
<1>2. Len(hs) \in Nat /\ DOMAIN hs = 1..Len(hs)  BY LenProperties
<1> DEFINE S == {n \in Nat : AreTaken(hs, tr[n], n)}
<1>3. 0 \in S
  <2> DEFINE x == tr[0]
  <2>1. x = <<>>  BY <1>1
  <2> HIDE DEF x
  <2>2. x \in Seq(EntrySet) /\ Len(x) = 0  BY <2>1
  <2>3. Taken(hs, 0) = 0  BY TakenNext
  <2>4. AreTaken(hs, x, 0)  BY <2>1, <2>2, <2>3 DEF AreTaken
  <2> QED  BY <2>4 DEF x
<1>4. ASSUME NEW n \in 0..Len(hs), n \in S, n # Len(hs) PROVE n + 1 \in S
  <2>1. n + 1 \in 1..Len(hs) /\ (n + 1) - 1 = n /\ n + 1 \in Nat
    <3> HIDE DEF S
    <3>1. Len(hs) \in Nat  BY <1>2
    <3> QED  BY <1>4, <3>1
  <2>2. tr[n + 1] = Add(tr[n], hs[n + 1])  BY <1>1, <2>1
  <2>3. AreTaken(hs, Add(tr[n], hs[n + 1]), n + 1)  BY <1>4, <2>1, TakenMore
  <2> QED  BY <2>1, <2>2, <2>3
<1>5. \A n \in 0..Len(hs) : n \in S
  <2> HIDE DEF S
  <2> QED  BY <1>2, <1>3, <1>4, Induction
<1>6. Len(hs) \in 0..Len(hs)  BY <1>2
<1>7. AreTaken(hs, fs, Len(hs))  BY <1>1, <1>5, <1>6
<1>8. Fresh(hs) \cap (1..Len(hs)) = Fresh(hs) /\ \A k \in Fresh(hs) : k \in 1..Len(hs)
  BY <1>2 DEF Fresh
<1> QED  BY <1>7, <1>8 DEF AreTaken, Taken

\* No entry is like the one before it.
Differ(g, h) == h.module = Empty \/ g.label # h.label \/ g.module # h.module
NoRepeats(hs) == \A n \in 1..Len(hs) : n # 1 => Differ(hs[n - 1], hs[n])

\* Where no entry repeats another, all of them are added, in their order.
LEMMA AddsAll ==
  ASSUME NEW hs \in Seq(EntrySet), NEW fs, Adds(<<>>, hs, fs), NoRepeats(hs)
  PROVE  fs = hs
<1>1. PICK tr : tr[0] = <<>> /\ (\A n \in 1..Len(hs) : tr[n] = Add(tr[n - 1], hs[n])) /\ tr[Len(hs)] = fs
  BY DEF Adds
<1>2. Len(hs) \in Nat  BY LenProperties
<1> DEFINE P(n) == tr[n] \in Seq(EntrySet) /\ Len(tr[n]) = n /\ \A i \in 1..n : tr[n][i] = hs[i]
           S == {n \in Nat : P(n)}
<1>3. 0 \in S
  <2>1. <<>> \in Seq(EntrySet) /\ Len(<<>>) = 0  OBVIOUS
  <2> DEFINE x == tr[0]
  <2>2. x = <<>>  BY <1>1
  <2> HIDE DEF x
  <2>3. x \in Seq(EntrySet) /\ Len(x) = 0 /\ \A i \in 1..0 : x[i] = hs[i]  BY <2>1, <2>2
  <2> QED  BY <2>3 DEF x
<1>4. ASSUME NEW n \in 0..Len(hs), n \in S, n # Len(hs) PROVE n + 1 \in S
  <2>1. n + 1 \in 1..Len(hs) /\ (n + 1) - 1 = n /\ n + 1 \in Nat  BY <1>2, <1>4
  <2>2. hs[n + 1] \in EntrySet  BY <2>1, ElementOfSeq
  <2>3. tr[n + 1] = Add(tr[n], hs[n + 1])  BY <1>1, <2>1
  <2>4. P(n)  BY <1>4
  <2> HIDE DEF S
  <2> DEFINE x == tr[n]  y == tr[n + 1]  h == hs[n + 1]
  <2>5. ~(h.module # Empty /\ Like(x, [name |-> h.label, id |-> h.module]))
    <3> SUFFICES ASSUME Like(x, [name |-> h.label, id |-> h.module]), h.module # Empty PROVE FALSE  OBVIOUS
    <3>1. x # <<>> /\ Innermost(x).label = h.label /\ Innermost(x).module = h.module  BY DEF Like
    <3>2. n # 0  BY <2>4, <3>1, EmptySeq
    <3>3. Innermost(x) = hs[n]  BY <2>1, <2>4, <3>2 DEF Innermost
    <3>4. Differ(hs[n], h)  BY <2>1, <3>2 DEF NoRepeats
    <3> QED  BY <3>1, <3>3, <3>4 DEF Differ
  <2>6. y = Append(x, h)  BY <2>3, <2>5, Zenon DEF Add
  <2>7. y \in Seq(EntrySet) /\ Len(y) = Len(x) + 1 /\ y[Len(x) + 1] = h /\ \A i \in 1..Len(x) : y[i] = x[i]
    BY <2>2, <2>4, <2>6, AppendProperties
  <2>8. Len(x) = n /\ \A i \in 1..n : x[i] = hs[i]  BY <2>4
  <2> HIDE DEF x, y, P
  <2>9. Len(y) = n + 1 /\ \A i \in 1..(n + 1) : y[i] = hs[i]  BY <2>1, <2>7, <2>8
  <2>10. P(n + 1)  BY <2>7, <2>9 DEF P, y
  <2> QED  BY <2>1, <2>10 DEF S
<1>5. \A n \in 0..Len(hs) : n \in S
  <2> HIDE DEF S
  <2> QED  BY <1>2, <1>3, <1>4, Induction
<1>6. Len(hs) \in 0..Len(hs)  BY <1>2
<1>7. P(Len(hs))  BY <1>5, <1>6
<1> QED  BY <1>1, <1>7, SeqEqual

\* The entries behind the k-th get a parent.
Under(h, parent) == [h EXCEPT !.parent = parent]
Adopted(es, k, parent) == [i \in DOMAIN es |-> IF i > k THEN Under(es[i], parent) ELSE es[i]]

\* What that means for each entry.
AreAdopted(fs, es, k, p) ==
  /\ fs \in Seq(EntrySet) /\ Len(fs) = Len(es)
  /\ \A i \in 1..Len(es) : /\ i <= k => fs[i] = es[i]
                           /\ i > k => fs[i] = Under(es[i], p)
                           /\ fs[i].label = es[i].label /\ fs[i].module = es[i].module

\* Entries that got a parent are entries with it.
LEMMA AdoptedIs ==
  ASSUME NEW es \in Seq(EntrySet), NEW k \in Nat, NEW p \in Labels
  PROVE  AreAdopted(Adopted(es, k, p), es, k, p)
<1> DEFINE f == [i \in 1..Len(es) |-> IF i > k THEN Under(es[i], p) ELSE es[i]]
<1>1. DOMAIN es = 1..Len(es) /\ Len(es) \in Nat  BY LenProperties
<1>2. f = Adopted(es, k, p)  BY <1>1 DEF Adopted
<1>3. ASSUME NEW i \in 1..Len(es)
      PROVE  /\ f[i] \in EntrySet /\ f[i].label = es[i].label /\ f[i].module = es[i].module
             /\ i <= k => f[i] = es[i]
             /\ i > k => f[i] = Under(es[i], p)
  <2>1. es[i] \in EntrySet  BY ElementOfSeq
  <2> DEFINE e == es[i]  g == Under(e, p)
  <2>2. e \in EntrySet  BY <2>1
  <2> HIDE DEF e
  <2>3. g \in EntrySet /\ g.label = e.label /\ g.module = e.module  BY <2>2 DEF EntrySet, Under
  <2>4. f[i] = IF i > k THEN g ELSE e  BY DEF e
  <2> HIDE DEF f, g
  <2>5. i <= k => ~(i > k)  BY <1>1
  <2>6. f[i] \in EntrySet /\ f[i].label = e.label /\ f[i].module = e.module  BY <2>2, <2>3, <2>4
  <2>7. (i <= k => f[i] = e) /\ (i > k => f[i] = g)  BY <2>4, <2>5, Zenon
  <2> QED  BY <2>6, <2>7 DEF e, g
<1>4. f \in [1..Len(es) -> EntrySet]  BY <1>3
<1>5. f \in Seq(EntrySet) /\ Len(f) = Len(es)
  <2> HIDE DEF f
  <2> QED  BY <1>1, <1>4, SeqDef, LenProperties
<1> HIDE DEF f
<1>6. \A i \in 1..Len(es) :
        /\ i <= k => f[i] = es[i]
        /\ i > k => f[i] = Under(es[i], p)
        /\ f[i].label = es[i].label /\ f[i].module = es[i].module
  BY <1>3
<1>7. AreAdopted(f, es, k, p)
  <2>1. f \in Seq(EntrySet)  BY <1>5
  <2>2. Len(f) = Len(es)  BY <1>5
  <2> QED  BY <2>1, <2>2, <1>6 DEF AreAdopted
<1> QED  BY <1>2, <1>7

\* An entry is added under another parent like under its own.
LEMMA AddAdopted ==
  ASSUME NEW es \in Seq(EntrySet), NEW h \in EntrySet, NEW p \in Labels, NEW k \in Nat, k <= Len(es)
  PROVE  Adopted(Add(es, h), k, p) = Add(Adopted(es, k, p), Under(h, p))
<1> DEFINE fs == Adopted(es, k, p)  g == Under(h, p)
           u == [name |-> h.label, id |-> h.module]
<1>1. g \in EntrySet /\ g.label = h.label /\ g.module = h.module  BY DEF EntrySet, Under
<1>0. AreAdopted(fs, es, k, p)  BY AdoptedIs
<1> HIDE DEF fs, g
<1>2. fs \in Seq(EntrySet) /\ Len(fs) = Len(es) /\ Len(es) \in Nat
  BY <1>0, LenProperties DEF AreAdopted
<1>3. \A i \in 1..Len(es) : fs[i].label = es[i].label /\ fs[i].module = es[i].module
  BY <1>0 DEF AreAdopted
<1>4. Like(es, u) <=> Like(fs, u)
  <2>1. CASE es = <<>>
    <3>1. fs = <<>>  BY <1>2, <2>1, EmptySeq
    <3> QED  BY <2>1, <3>1 DEF Like
  <2>2. CASE es # <<>>
    <3>1. fs # <<>> /\ Len(es) \in 1..Len(es)  BY <1>2, <2>2, EmptySeq
    <3>2. Innermost(fs) = fs[Len(es)] /\ Innermost(es) = es[Len(es)]  BY <1>2 DEF Innermost
    <3> QED  BY <1>3, <2>2, <3>1, <3>2 DEF Like
  <2> QED  BY <2>1, <2>2
<1>5. Add(fs, g) = IF h.module # Empty /\ Like(fs, u) THEN fs ELSE Append(fs, g)  BY <1>1, Zenon DEF Add
<1>6. Add(es, h) = IF h.module # Empty /\ Like(es, u) THEN es ELSE Append(es, h)  BY Zenon DEF Add
<1> HIDE DEF u
<1>7. CASE h.module # Empty /\ Like(es, u)
  <2>1. Add(fs, g) = fs /\ Add(es, h) = es  BY <1>4, <1>5, <1>6, <1>7, Zenon
  <2> QED  BY <2>1 DEF fs, g
<1>8. CASE ~(h.module # Empty /\ Like(es, u))
  <2> DEFINE x == Append(es, h)  y == Append(fs, g)  z == Adopted(x, k, p)
  <2>1. Add(fs, g) = y /\ Add(es, h) = x  BY <1>4, <1>5, <1>6, <1>8, Zenon
  <2>2. x \in Seq(EntrySet) /\ Len(x) = Len(es) + 1 /\ x[Len(es) + 1] = h /\ \A i \in 1..Len(es) : x[i] = es[i]
    BY AppendProperties
  <2>3. y \in Seq(EntrySet) /\ Len(y) = Len(es) + 1 /\ y[Len(es) + 1] = g /\ \A i \in 1..Len(es) : y[i] = fs[i]
    BY <1>1, <1>2, AppendProperties
  <2>4. \A i \in 1..Len(es) : /\ i <= k => fs[i] = es[i]
                              /\ i > k => fs[i] = Under(es[i], p)
    BY <1>0 DEF AreAdopted
  <2> HIDE DEF x, y
  <2>8. AreAdopted(z, x, k, p)  BY <2>2, AdoptedIs
  <2> HIDE DEF z
  <2>5. /\ z \in Seq(EntrySet) /\ Len(z) = Len(x)
        /\ \A i \in 1..Len(x) : /\ i <= k => z[i] = x[i]
                                /\ i > k => z[i] = Under(x[i], p)
    BY <2>8 DEF AreAdopted
  <2>6. ASSUME NEW i \in 1..Len(y) PROVE z[i] = y[i]
    <3>1. CASE i = Len(es) + 1
      <4>1. i > k /\ i \in 1..Len(x)  BY <1>2, <2>2, <3>1
      <4> QED  BY <2>2, <2>3, <2>5, <3>1, <4>1 DEF g
    <3>2. CASE i # Len(es) + 1
      <4>1. i \in 1..Len(es) /\ i \in 1..Len(x)  BY <1>2, <2>2, <2>3, <3>2
      <4>2. i <= k \/ i > k  BY <4>1
      <4> QED  BY <2>2, <2>3, <2>4, <2>5, <4>1, <4>2
    <3> QED  BY <3>1, <3>2
  <2>7. z = y  BY <2>2, <2>3, <2>5, <2>6, SeqEqual
  <2> QED  BY <2>1, <2>7 DEF z, fs, g
<1> QED  BY <1>7, <1>8

\* To add entries and then to give them a parent is to add them with it.
LEMMA AddsAdopted ==
  ASSUME NEW es \in Seq(EntrySet), NEW a \in Seq(EntrySet), NEW b, Len(b) = Len(a), NEW p \in Labels,
         \A i \in 1..Len(a) : b[i] = Under(a[i], p), NEW fs, Adds(es, a, fs)
  PROVE  Adds(es, b, Adopted(fs, Len(es), p))
<1>1. PICK tr : tr[0] = es /\ (\A n \in 1..Len(a) : tr[n] = Add(tr[n - 1], a[n])) /\ tr[Len(a)] = fs
  BY DEF Adds
<1>2. \A n \in 0..Len(a) : tr[n] \in Seq(EntrySet) /\ Len(es) <= Len(tr[n])  BY <1>1, Adding
<1>3. Len(a) \in Nat /\ Len(es) \in Nat  BY LenProperties
<1> DEFINE k == Len(es)  h == [n \in 0..Len(a) |-> Adopted(tr[n], k, p)]
<1>4. \A n \in 0..Len(a) : h[n] = Adopted(tr[n], k, p)  OBVIOUS
<1> HIDE DEF h
<1>5. h[0] = es
  <2>1. h[0] = Adopted(es, k, p)  BY <1>1, <1>3, <1>4
  <2> DEFINE x == Adopted(es, k, p)
  <2>0. AreAdopted(x, es, k, p)
    <3> HIDE DEF k
    <3>1. k \in Nat  BY <1>3 DEF k
    <3> QED  BY <3>1, AdoptedIs
  <2> HIDE DEF x
  <2>2. x \in Seq(EntrySet) /\ Len(x) = Len(es) /\ \A i \in 1..Len(es) : i <= k => x[i] = es[i]
    BY <2>0 DEF AreAdopted
  <2>3. \A i \in 1..Len(es) : x[i] = es[i]  BY <1>3, <2>2
  <2>4. x = es  BY <2>2, <2>3, SeqEqual
  <2> QED  BY <2>1, <2>4 DEF x
<1>6. ASSUME NEW n \in 1..Len(b) PROVE h[n] = Add(h[n - 1], b[n])
  <2>1. n \in 1..Len(a) /\ n \in 0..Len(a) /\ n - 1 \in 0..Len(a)  BY <1>3
  <2>2. a[n] \in EntrySet  BY <2>1, ElementOfSeq
  <2> DEFINE x == tr[n - 1]
  <2>3. x \in Seq(EntrySet) /\ k <= Len(x)  BY <1>2, <2>1
  <2>4. h[n] = Adopted(Add(x, a[n]), k, p) /\ h[n - 1] = Adopted(x, k, p) /\ b[n] = Under(a[n], p)
    BY <1>1, <1>4, <2>1
  <2> HIDE DEF x
  <2>5. Adopted(Add(x, a[n]), k, p) = Add(Adopted(x, k, p), Under(a[n], p))
    <3> HIDE DEF k
    <3>1. k \in Nat  BY <1>3 DEF k
    <3> QED  BY <2>2, <2>3, <3>1, AddAdopted
  <2> QED  BY <2>4, <2>5
<1>7. h[Len(b)] = Adopted(fs, k, p)  BY <1>1, <1>3, <1>4
<1> QED  BY <1>5, <1>6, <1>7 DEF Adds

-----------------------------------------------------------------------------
(* Joined sequences                                                        *)

\* f[n] are the first n sequences, joined.
Joins(f, seqs) ==
  /\ f[0] = <<>> /\ \A n \in 1..Len(seqs) : f[n] = f[n - 1] \o seqs[n]
  /\ Joined(seqs) = f[Len(seqs)]

\* A joined sequence comes about part by part.
LEMMA JoinedIs ==
  ASSUME NEW seqs, NEW m \in Nat, m = Len(seqs)
  PROVE  \E f : Joins(f, seqs)
<1> DEFINE none == <<>>
           Joint(x, n) == x \o seqs[n]
           Solves(f, e) == f = [n \in 0..e |-> IF n = 0 THEN none ELSE Joint(f[n - 1], n)]
           S == {e \in Nat : \E f : Solves(f, e)}
           c == CHOOSE f : Solves(f, m)
<1>1. 0 \in S
  <2>1. Solves([n \in 0..0 |-> none], 0)  OBVIOUS
  <2> QED  BY <2>1
<1>2. ASSUME NEW e \in 0..m, e \in S, e # m PROVE e + 1 \in S
  <2>1. PICK f : Solves(f, e)  BY <1>2
  <2> DEFINE g == [n \in 0..(e + 1) |-> IF n <= e THEN f[n] ELSE Joint(f[e], e + 1)]
  <2>2. Solves(g, e + 1)
    <3>1. ASSUME NEW n \in 0..(e + 1) PROVE g[n] = IF n = 0 THEN none ELSE Joint(g[n - 1], n)
      <4> HIDE DEF Joint, none
      <4> QED  BY <2>1
    <3> QED  BY <3>1
  <2> HIDE DEF Solves, g
  <2> QED  BY <2>2
<1>3. m \in S
  <2> HIDE DEF S
  <2>1. m \in 0..m  OBVIOUS
  <2> QED  BY <1>1, <1>2, <2>1, Induction
<1>4. Solves(c, m)
  <2>1. \E f : Solves(f, m)  BY <1>3
  <2> HIDE DEF Solves
  <2> QED  BY <2>1, Zenon
<1>5. Joined(seqs) = c[m]  BY Zenon DEF Joined
<1> HIDE DEF c
<1> HIDE DEF Joint, none
<1>6. \A n \in 0..m : c[n] = IF n = 0 THEN none ELSE Joint(c[n - 1], n)  BY <1>4
<1> HIDE DEF Solves
<1>7. c[0] = none  BY <1>6
<1>8. ASSUME NEW n \in 1..m PROVE c[n] = Joint(c[n - 1], n)
  <2>1. n \in 0..m /\ n # 0  OBVIOUS
  <2> QED  BY <1>6, <2>1
<1>9. \A n \in 1..m : c[n] = c[n - 1] \o seqs[n]  BY <1>8 DEF Joint
<1>10. Joined(seqs) = c[Len(seqs)] /\ \A n \in 1..Len(seqs) : c[n] = c[n - 1] \o seqs[n]
  BY <1>5, <1>9, Zenon
<1>11. c[0] = <<>>  BY <1>7 DEF none
<1>12. Joins(c, seqs)  BY <1>10, <1>11, Zenon DEF Joins
<1> QED  BY <1>12, Zenon

\* Sequences of one element each.
LEMMA JoinedOnes ==
  ASSUME NEW T, NEW seq \in Seq(T)
  PROVE  Joined([i \in DOMAIN seq |-> <<seq[i]>>]) = seq
<1> DEFINE seqs == [i \in DOMAIN seq |-> <<seq[i]>>]
           m == Len(seq)
<1>1. DOMAIN seq = 1..m /\ m \in Nat  BY LenProperties
<1>2. seqs \in Seq(Seq(T)) /\ Len(seqs) = m
  <2>1. seqs \in [1..m -> Seq(T)]
    <3>1. ASSUME NEW i \in 1..m PROVE <<seq[i]>> \in Seq(T)
      <4>1. seq[i] \in T  BY ElementOfSeq
      <4> QED  BY <4>1
    <3> QED  BY <1>1, <3>1
  <2> HIDE DEF seqs, m
  <2> QED  BY <1>1, <2>1, SeqDef, LenProperties
<1>0. PICK f : Joins(f, seqs)  BY <1>1, <1>2, JoinedIs
<1>3. f[0] = <<>> /\ (\A n \in 1..Len(seqs) : f[n] = f[n - 1] \o seqs[n]) /\ Joined(seqs) = f[Len(seqs)]
  BY <1>0 DEF Joins
<1>4. \A n \in 1..m : seqs[n] = <<seq[n]>>  BY <1>1
<1> HIDE DEF seqs
<1> DEFINE P(n) == f[n] \in Seq(T) /\ Len(f[n]) = n /\ \A i \in 1..n : f[n][i] = seq[i]
           S == {n \in Nat : P(n)}
<1>5. 0 \in S
  <2> DEFINE x == f[0]
  <2>1. x \in Seq(T) /\ Len(x) = 0  BY <1>3
  <2> HIDE DEF x
  <2>2. \A i \in 1..0 : x[i] = seq[i]  OBVIOUS
  <2> QED  BY <2>1, <2>2 DEF x
<1>6. ASSUME NEW n \in 0..m, n \in S, n # m PROVE n + 1 \in S
  <2>1. n + 1 \in 1..m /\ (n + 1) - 1 = n /\ n + 1 \in Nat  BY <1>1, <1>6
  <2> DEFINE x == f[n]  y == f[n + 1]  u == seq[n + 1]
  <2>2. P(n)  BY <1>6
  <2>3. y = x \o <<u>> /\ u \in T  BY <1>2, <1>3, <1>4, <2>1, ElementOfSeq
  <2>4. x \in Seq(T) /\ Len(x) = n /\ \A i \in 1..n : x[i] = seq[i]  BY <2>2
  <2> HIDE DEF x, y, S
  <2>5. /\ y \in Seq(T) /\ Len(y) = n + 1
        /\ \A i \in 1..(n + 1) : y[i] = IF i <= n THEN x[i] ELSE <<u>>[i - n]
    <3>1. <<u>> \in Seq(T) /\ Len(<<u>>) = 1  BY <2>3
    <3> QED  BY <2>3, <2>4, <3>1, ConcatProperties
  <2>6. ASSUME NEW i \in 1..(n + 1) PROVE y[i] = seq[i]
    <3>1. CASE i <= n
      <4>1. i \in 1..n  BY <3>1
      <4> QED  BY <2>4, <2>5, <3>1, <4>1
    <3>2. CASE i = n + 1
      <4>1. ~(i <= n) /\ i - n = 1  BY <3>2
      <4> QED  BY <2>5, <3>2, <4>1
    <3> QED  BY <3>1, <3>2
  <2>7. P(n + 1)  BY <2>5, <2>6 DEF y
  <2> QED  BY <2>1, <2>7 DEF S
<1>7. \A n \in 0..m : n \in S
  <2> HIDE DEF S
  <2> QED  BY <1>1, <1>5, <1>6, Induction
<1>8. P(m)
  <2>1. m \in 0..m  BY <1>1
  <2> QED  BY <1>7, <2>1
<1>9. Joined(seqs) = f[m]  BY <1>2, <1>3
<1>10. f[m] = seq  BY <1>8, SeqEqual
<1> QED  BY <1>9, <1>10 DEF seqs

-----------------------------------------------------------------------------
(* Parts of a text that list entries                                       *)

\* Entries, and depths at which they may wait.
Spots(es) == (1..Len(es)) \X Nat

\* The entries that wait for the name of an object, with its depth.
Waiting(es, pd) == {x \in pd : es[x[1]].parent = Empty}

\* Behind these entries, at the depths w.
Behind(es, fs, w) == ((Len(es) + 1)..Len(fs)) \X w

\* The text makes the walk add the entries of hs; those that are new wait for
\* the names of objects at the depths w.
ListsFrom(text, st, ar, w, hs, es, pd) ==
  \E fs \in Seq(EntrySet) : \E qd \in SUBSET Spots(fs) :
    /\ Does(text, State(st, ar, es, pd), State(st, ar, fs, qd))
    /\ Adds(es, hs, fs)
    /\ Waiting(fs, qd) = Waiting(es, pd) \cup Behind(es, fs, w)

\* No entry waits for an object that is not open.
Shallow(es, pd, depth) == \A x \in Waiting(es, pd) : x[2] <= depth

\* Between these objects and arrays, the text lists hs whatever was found before.
Lists(text, st, ar, w, hs) ==
  \A es \in Seq(EntrySet) : \A pd \in SUBSET Spots(es) :
    Shallow(es, pd, Len(st)) => ListsFrom(text, st, ar, w, hs, es, pd)

\* No text lists nothing.
LEMMA ListsNothing == ASSUME NEW st, NEW ar, NEW w PROVE Lists(<<>>, st, ar, w, <<>>)
<1> SUFFICES ASSUME NEW es \in Seq(EntrySet), NEW pd \in SUBSET Spots(es) PROVE ListsFrom(<<>>, st, ar, w, <<>>, es, pd)
  BY DEF Lists
<1>1. Does(<<>>, State(st, ar, es, pd), State(st, ar, es, pd))  BY DoesNothing
<1>2. Adds(es, <<>>, es)  BY AddsNothing
<1>3. Behind(es, es, w) = {}
  <2>1. Len(es) \in Nat  BY LenProperties
  <2>2. (Len(es) + 1)..Len(es) = {}  BY <2>1
  <2> QED  BY <2>2 DEF Behind
<1> QED  BY <1>1, <1>2, <1>3 DEF ListsFrom

\* Two parts list what the one and what the other lists.
LEMMA ListsBoth ==
  ASSUME NEW st, Len(st) \in Nat, NEW ar, NEW w \in SUBSET (0..Len(st)),
         NEW a \in Seq(Tokens), NEW b \in Seq(Tokens), NEW hs \in Seq(EntrySet), NEW gs \in Seq(EntrySet),
         Lists(a, st, ar, w, hs), Lists(b, st, ar, w, gs)
  PROVE  Lists(a \o b, st, ar, w, hs \o gs)
<1> SUFFICES ASSUME NEW es \in Seq(EntrySet), NEW pd \in SUBSET Spots(es), Shallow(es, pd, Len(st))
             PROVE  ListsFrom(a \o b, st, ar, w, hs \o gs, es, pd)
  BY DEF Lists
<1>1. ListsFrom(a, st, ar, w, hs, es, pd)  BY DEF Lists
<1>20. PICK fs \in Seq(EntrySet) : \E qd \in SUBSET Spots(fs) :
             /\ Does(a, State(st, ar, es, pd), State(st, ar, fs, qd))
             /\ Adds(es, hs, fs)
             /\ Waiting(fs, qd) = Waiting(es, pd) \cup Behind(es, fs, w)
    BY <1>1 DEF ListsFrom
<1>2. PICK qd \in SUBSET Spots(fs) :
             /\ Does(a, State(st, ar, es, pd), State(st, ar, fs, qd))
             /\ Adds(es, hs, fs)
             /\ Waiting(fs, qd) = Waiting(es, pd) \cup Behind(es, fs, w)
    BY <1>20
<1>3. Shallow(fs, qd, Len(st))
  <2>1. \A x \in Behind(es, fs, w) : x[2] \in 0..Len(st)  BY DEF Behind
  <2>2. \A x \in Behind(es, fs, w) : x[2] <= Len(st)  BY <2>1
  <2> QED  BY <1>2, <2>2 DEF Shallow
<1>4. ListsFrom(b, st, ar, w, gs, fs, qd)  BY <1>3 DEF Lists
<1>50. PICK ks \in Seq(EntrySet) : \E rd \in SUBSET Spots(ks) :
             /\ Does(b, State(st, ar, fs, qd), State(st, ar, ks, rd))
             /\ Adds(fs, gs, ks)
             /\ Waiting(ks, rd) = Waiting(fs, qd) \cup Behind(fs, ks, w)
    BY <1>4 DEF ListsFrom
<1>5. PICK rd \in SUBSET Spots(ks) :
             /\ Does(b, State(st, ar, fs, qd), State(st, ar, ks, rd))
             /\ Adds(fs, gs, ks)
             /\ Waiting(ks, rd) = Waiting(fs, qd) \cup Behind(fs, ks, w)
    BY <1>50
<1>6. Does(a \o b, State(st, ar, es, pd), State(st, ar, ks, rd))  BY <1>2, <1>5, DoesBoth
<1>7. Adds(es, hs \o gs, ks)  BY <1>2, <1>5, AddsBoth
<1>8. Behind(es, ks, w) = Behind(es, fs, w) \cup Behind(fs, ks, w)
  <2>1. Len(es) \in Nat /\ Len(fs) \in Nat /\ Len(ks) \in Nat /\ Len(es) <= Len(fs) /\ Len(fs) <= Len(ks)
    BY <1>2, <1>5, AddsKeep
  <2>2. (Len(es) + 1)..Len(ks) = ((Len(es) + 1)..Len(fs)) \cup ((Len(fs) + 1)..Len(ks))  BY <2>1
  <2> DEFINE A == (Len(es) + 1)..Len(fs)  B == (Len(fs) + 1)..Len(ks)
  <2> HIDE DEF A, B
  <2>3. (A \cup B) \X w = (A \X w) \cup (B \X w)  OBVIOUS
  <2> QED  BY <2>2, <2>3 DEF Behind, A, B
<1>9. Waiting(ks, rd) = Waiting(es, pd) \cup Behind(es, ks, w)  BY <1>2, <1>5, <1>8
<1> QED  BY <1>6, <1>7, <1>9 DEF ListsFrom

\* Joined parts list what each of them lists.
LEMMA ListsAll ==
  ASSUME NEW st, Len(st) \in Nat, NEW ar, NEW w \in SUBSET (0..Len(st)), NEW m \in Nat,
         NEW texts, NEW holds, Len(texts) = m, Len(holds) = m,
         \A n \in 1..m : /\ texts[n] \in Seq(Tokens) /\ holds[n] \in Seq(EntrySet)
                         /\ Lists(texts[n], st, ar, w, holds[n])
  PROVE  /\ Joined(texts) \in Seq(Tokens) /\ Joined(holds) \in Seq(EntrySet)
         /\ Lists(Joined(texts), st, ar, w, Joined(holds))
<1>1. PICK f : Joins(f, texts)  BY JoinedIs
<1>2. PICK g : Joins(g, holds)  BY JoinedIs
<1>3. /\ f[0] = <<>> /\ g[0] = <<>>
      /\ \A n \in 1..m : f[n] = f[n - 1] \o texts[n] /\ g[n] = g[n - 1] \o holds[n]
      /\ Joined(texts) = f[m] /\ Joined(holds) = g[m]
  BY <1>1, <1>2 DEF Joins
<1> DEFINE P(n) == f[n] \in Seq(Tokens) /\ g[n] \in Seq(EntrySet) /\ Lists(f[n], st, ar, w, g[n])
           S == {n \in Nat : P(n)}
<1>4. P(0)
  <2>1. <<>> \in Seq(Tokens) /\ <<>> \in Seq(EntrySet)  OBVIOUS
  <2>2. Lists(<<>>, st, ar, w, <<>>)  BY ListsNothing
  <2> QED  BY <1>3, <2>1, <2>2, Zenon
<1>5. ASSUME NEW n \in 0..m, n \in S, n # m PROVE n + 1 \in S
  <2>1. n + 1 \in 1..m /\ (n + 1) - 1 = n /\ n + 1 \in Nat  BY <1>5
  <2>2. P(n)  BY <1>5
  <2> DEFINE x == f[n]  y == g[n]  t == texts[n + 1]  h == holds[n + 1]
  <2>3. x \in Seq(Tokens) /\ y \in Seq(EntrySet) /\ Lists(x, st, ar, w, y)  BY <2>2
  <2>4. t \in Seq(Tokens) /\ h \in Seq(EntrySet) /\ Lists(t, st, ar, w, h)  BY <2>1
  <2>5. f[n + 1] = x \o t /\ g[n + 1] = y \o h
    <3>1. f[n + 1] = f[(n + 1) - 1] \o t /\ g[n + 1] = g[(n + 1) - 1] \o h  BY <1>3, <2>1, Zenon
    <3> QED  BY <2>1, <3>1, Zenon
  <2> HIDE DEF x, y, t, h
  <2>6. x \o t \in Seq(Tokens) /\ y \o h \in Seq(EntrySet)  BY <2>3, <2>4, ConcatProperties
  <2>7. Lists(x \o t, st, ar, w, y \o h)  BY <2>3, <2>4, ListsBoth
  <2>8. P(n + 1)  BY <2>5, <2>6, <2>7, Zenon
  <2> QED  BY <2>1, <2>8
<1>6. P(m)
  <2>1. 0 \in S  BY <1>4
  <2>2. m \in 0..m  OBVIOUS
  <2>3. m \in S
    <3> HIDE DEF S
    <3> QED  BY <1>5, <2>1, <2>2, Induction
  <2> QED  BY <2>3
<1> QED  BY <1>3, <1>6, Zenon

\* Three parts of a text.
LEMMA DoesThree ==
  ASSUME NEW a \in Seq(Tokens), NEW b \in Seq(Tokens), NEW c \in Seq(Tokens),
         NEW s, NEW t, NEW u, NEW v, Does(a, s, t), Does(b, t, u), Does(c, u, v)
  PROVE  Does(a \o b \o c, s, v) /\ a \o b \o c \in Seq(Tokens)
<1>1. a \o b \in Seq(Tokens) /\ Does(a \o b, s, u)  BY DoesBoth, ConcatProperties
<1> QED  BY <1>1, DoesBoth, ConcatProperties

\* The tokens of which the parts are made.
LEMMA TokensTyped ==
  /\ \A sym \in {"{", "}", "]"} : <<Token(sym, Empty)>> \in Seq(Tokens)
  /\ \A key \in Keys \cup {"hotkeys", "filters", "sources", "transitions", "scripts-tool"} :
       <<Token("[", key)>> \in Seq(Tokens)
  /\ \A v \in Labels : <<Token("name", v)>> \in Seq(Tokens)
  /\ \A v \in Strings : <<Token("id", v)>> \in Seq(Tokens)
  /\ \A v \in Settings \cup {AnySettings} : <<Token("settings", v)>> \in Seq(Tokens)
<1> DEFINE V == Strings \cup Keys \cup Settings
         \cup {CHOOSE s \in Settings : TRUE, Empty, "collection", "hotkeys", "filters", "sources",
               "transitions", "scripts-tool"}
<1>1. \A sym \in Symbols : \A v \in V : Token(sym, v) \in Tokens  BY DEF Token, Tokens
<1>2. {"{", "}", "]", "[", "name", "id", "settings"} \subseteq Symbols  BY DEF Symbols
<1>3. /\ Empty \in V /\ Keys \cup {"hotkeys", "filters", "sources", "transitions", "scripts-tool"} \subseteq V
      /\ Labels \subseteq V /\ Strings \subseteq V /\ Settings \cup {AnySettings} \subseteq V
  BY DEF Labels, AnySettings
<1>4. \A x \in Tokens : <<x>> \in Seq(Tokens)  OBVIOUS
<1> HIDE DEF V
<1>5. \A sym \in Symbols : \A v \in V : <<Token(sym, v)>> \in Seq(Tokens)  BY <1>1, <1>4
<1> QED  BY <1>2, <1>3, <1>5

\* What is in braces, or in an array.
LEMMA ListedDoes ==
  ASSUME NEW st, NEW ar \in Seq(Arrays), NEW text \in Seq(Tokens), NEW key, ContextIn(st, key) \in Arrays,
         key \in Keys \cup {"hotkeys", "filters", "sources", "transitions", "scripts-tool"},
         NEW es, NEW pd, NEW fs, NEW qd,
         Does(text, State(st, Append(ar, ContextIn(st, key)), es, pd), State(st, Append(ar, ContextIn(st, key)), fs, qd))
  PROVE  Does(Listed(key, text), State(st, ar, es, pd), State(st, ar, fs, qd)) /\ Listed(key, text) \in Seq(Tokens)
<1> DEFINE c == ContextIn(st, key)  a == <<Token("[", key)>>  z == <<Token("]", Empty)>>
<1>1. a \in Seq(Tokens) /\ z \in Seq(Tokens)  BY TokensTyped
<1>2. Listed(key, text) = a \o text \o z  BY DEF Listed
<1>3. Does(a, State(st, ar, es, pd), State(st, Append(ar, c), es, pd))  BY OpeningArray
<1>4. Does(z, State(st, Append(ar, c), fs, qd), State(st, ar, fs, qd))  BY ClosingArray
<1> HIDE DEF a, z
<1>5. Does(text, State(st, Append(ar, c), es, pd), State(st, Append(ar, c), fs, qd))  OBVIOUS
<1> HIDE DEF c
<1> QED  BY <1>1, <1>2, <1>3, <1>4, <1>5, DoesThree

\* A part in braces: the walk is inside an object, which patches as it ends.
LEMMA BracedDoes ==
  ASSUME NEW st \in Seq(Objects), NEW ar, NEW text \in Seq(Tokens), NEW o \in Objects,
         NEW es, NEW pd, NEW fs, NEW qd,
         Does(text, State(Append(st, OpenedIn(ar)), ar, es, pd), State(Append(st, o), ar, fs, qd))
  PROVE  /\ Does(Braced(text), State(st, ar, es, pd),
                 State(st, ar, WithParent(IF o.settings = None THEN fs ELSE WithSettings(fs, o, o.settings),
                                          qd, o, Len(st) + 1), qd))
         /\ Braced(text) \in Seq(Tokens)
<1> DEFINE a == <<Token("{", Empty)>>  z == <<Token("}", Empty)>>
           t == State(st, ar, WithParent(IF o.settings = None THEN fs ELSE WithSettings(fs, o, o.settings),
                                         qd, o, Len(st) + 1), qd)
<1>1. a \in Seq(Tokens) /\ z \in Seq(Tokens)  BY TokensTyped
<1>2. Braced(text) = a \o text \o z  BY DEF Braced
<1>3. Does(a, State(st, ar, es, pd), State(Append(st, OpenedIn(ar)), ar, es, pd))  BY Opening
<1>4. Does(z, State(Append(st, o), ar, fs, qd), t)  BY Closing
<1> HIDE DEF a, z, t
<1>5. Does(Braced(text), State(st, ar, es, pd), t) /\ Braced(text) \in Seq(Tokens)
  BY <1>1, <1>2, <1>3, <1>4, DoesThree
<1> QED  BY <1>5 DEF t

\* An array of them.
LEMMA ListsArray ==
  ASSUME NEW st, NEW ar \in Seq(Arrays), NEW w, NEW text \in Seq(Tokens), NEW hs, NEW key,
         key \in {"filters", "sources", "transitions", "scripts-tool"},
         ContextIn(st, key) \in Arrays, Lists(text, st, Append(ar, ContextIn(st, key)), w, hs)
  PROVE  Lists(Listed(key, text), st, ar, w, hs)
<1> DEFINE c == ContextIn(st, key)
<1> SUFFICES ASSUME NEW es \in Seq(EntrySet), NEW pd \in SUBSET Spots(es), Shallow(es, pd, Len(st))
             PROVE  ListsFrom(Listed(key, text), st, ar, w, hs, es, pd)
  BY DEF Lists
<1>1. ListsFrom(text, st, Append(ar, c), w, hs, es, pd)  BY DEF Lists
<1>2. PICK fs \in Seq(EntrySet) : \E qd \in SUBSET Spots(fs) :
             /\ Does(text, State(st, Append(ar, c), es, pd), State(st, Append(ar, c), fs, qd))
             /\ Adds(es, hs, fs)
             /\ Waiting(fs, qd) = Waiting(es, pd) \cup Behind(es, fs, w)
  BY <1>1 DEF ListsFrom
<1>3. PICK qd \in SUBSET Spots(fs) :
             /\ Does(text, State(st, Append(ar, c), es, pd), State(st, Append(ar, c), fs, qd))
             /\ Adds(es, hs, fs)
             /\ Waiting(fs, qd) = Waiting(es, pd) \cup Behind(es, fs, w)
  BY <1>2
<1>4. Does(Listed(key, text), State(st, ar, es, pd), State(st, ar, fs, qd))  BY <1>3, ListedDoes
<1> QED  BY <1>3, <1>4 DEF ListsFrom

\* Objects begin without a name, an id and settings.
LEMMA OpenedIs ==
  ASSUME NEW ar \in Seq(Arrays)
  PROVE  /\ OpenedIn(ar) \in Objects
         /\ OpenedIn(ar) = Obj(OpenedIn(ar), Empty, Empty, FALSE, None, 0)
         /\ OpenedIn(ar).name = Empty /\ OpenedIn(ar).settings = None /\ ~OpenedIn(ar).emitted
<1>1. \A kind \in EntryKinds : \A parent \in Labels : \A depth \in Nat :
        /\ Opened(kind, parent, depth) \in Objects
        /\ Opened(kind, parent, depth) = Obj(Opened(kind, parent, depth), Empty, Empty, FALSE, None, 0)
        /\ Opened(kind, parent, depth).name = Empty /\ Opened(kind, parent, depth).settings = None
        /\ ~Opened(kind, parent, depth).emitted
  BY StringsAssumption DEF Opened, Objects, Obj, Labels
<1>2. Empty \in Labels /\ 0 \in Nat /\ {"source", "filter", "transition", "script"} \subseteq EntryKinds
  BY StringsAssumption DEF Labels, EntryKinds
<1>3. \E kind \in EntryKinds : \E parent \in Labels : \E depth \in Nat : OpenedIn(ar) = Opened(kind, parent, depth)
  <2>1. CASE ar = <<>>  BY <1>2, <2>1 DEF OpenedIn
  <2>2. CASE ar # <<>>
    <3> DEFINE a == Innermost(ar)
    <3>1. a \in Arrays
      <4>1. Len(ar) \in 1..Len(ar)  BY <2>2, EmptySeq
      <4> QED  BY <4>1, ElementOfSeq DEF Innermost
    <3>2. OpenedIn(ar) = InArray(a)  BY <2>2 DEF OpenedIn
    <3>3. a.owner \in Labels /\ a.depth \in Nat  BY <3>1 DEF Arrays
    <3> HIDE DEF a
    <3> QED  BY <1>2, <3>2, <3>3 DEF InArray
  <2> QED  BY <2>1, <2>2
<1> QED  BY <1>1, <1>3, Zenon

\* What an array knows of its object.
LEMMA ContextTyped ==
  ASSUME NEW st \in Seq(Objects),
         NEW key \in ArrayKeys
  PROVE  ContextIn(st, key) \in Arrays
<1>2. Empty \in Labels /\ 0 \in Nat  BY StringsAssumption DEF Labels
<1>3. CASE key = Empty \/ st = <<>>  BY <1>2, <1>3 DEF ContextIn, Arrays
<1>4. CASE ~(key = Empty \/ st = <<>>)
  <2>1. Len(st) \in 1..Len(st)  BY <1>4, EmptySeq
  <2>2. st[Len(st)] \in Objects  BY <2>1, ElementOfSeq
  <2>3. Innermost(st).name \in Labels  BY <2>2 DEF Objects, Innermost
  <2>4. Len(st) \in Nat  BY <2>1
  <2> QED  BY <1>4, <2>3, <2>4 DEF ContextIn, Arrays
<1> QED  BY <1>3, <1>4

\* Clutter leaves no trace.
LEMMA ClutterRead ==
  ASSUME NEW st \in Seq(Objects), NEW ar \in Seq(Arrays), NEW es, NEW pd
  PROVE  Does(Clutter, State(st, ar, es, pd), State(st, ar, es, pd)) /\ Clutter \in Seq(Tokens)
<1> DEFINE c == ContextIn(st, "hotkeys")  br == Append(ar, c)  d == ContextIn(st, Empty)
           s == State(st, br, es, pd)
<1>0. "hotkeys" \in ArrayKeys /\ Empty \in ArrayKeys  BY DEF ArrayKeys
<1>1. c \in Arrays /\ d \in Arrays  BY <1>0, ContextTyped
<1>2. br \in Seq(Arrays)  BY <1>1, AppendProperties
<1>3. <<>> \in Seq(Tokens)  OBVIOUS
<1> HIDE DEF br
<1>4. Does(Braced(<<>>), s, s) /\ Braced(<<>>) \in Seq(Tokens)
  <2> DEFINE o == OpenedIn(br)  x == State(Append(st, o), br, es, pd)
  <2>1. Does(<<>>, x, x)  BY DoesNothing
  <2>2. o \in Objects /\ o.name = Empty /\ o.settings = None  BY <1>2, OpenedIs
  <2>3. Does(Braced(<<>>), State(st, br, es, pd),
             State(st, br, WithParent(IF o.settings = None THEN es ELSE WithSettings(es, o, o.settings),
                                      pd, o, Len(st) + 1), pd))
        /\ Braced(<<>>) \in Seq(Tokens)
    BY <1>3, <2>1, <2>2, BracedDoes
  <2> HIDE DEF o, x
  <2>4. WithParent(IF o.settings = None THEN es ELSE WithSettings(es, o, o.settings), pd, o, Len(st) + 1) = es
    BY <2>2, Zenon DEF WithParent
  <2> QED  BY <2>3, <2>4
<1>5. Does(Listed(Empty, <<>>), s, s) /\ Listed(Empty, <<>>) \in Seq(Tokens)
  <2> DEFINE x == State(st, Append(br, d), es, pd)
  <2>1. Does(<<>>, x, x)  BY DoesNothing
  <2>2. Empty \in Keys  BY StringsAssumption
  <2> QED  BY <1>1, <1>2, <1>3, <2>1, <2>2, ListedDoes
<1> DEFINE a == Braced(<<>>)  b == Listed(Empty, <<>>)
<1> HIDE DEF a, b, s
<1>6. Does(a \o b, s, s) /\ a \o b \in Seq(Tokens)
  BY <1>4, <1>5, DoesBoth, ConcatProperties DEF a, b
<1>7. Does(Listed("hotkeys", a \o b), State(st, ar, es, pd), State(st, ar, es, pd)) /\ Listed("hotkeys", a \o b) \in Seq(Tokens)
  <2>1. Does(a \o b, State(st, Append(ar, c), es, pd), State(st, Append(ar, c), es, pd))
    BY <1>6 DEF s, br
  <2> QED  BY <1>1, <1>6, <2>1, ListedDoes
<1> QED  BY <1>7 DEF Clutter, a, b

-----------------------------------------------------------------------------
(* The names and the settings of an object                                 *)

\* Where the entry of such an object waits, and what is pending with it.
Depths(of) == IF Waits(of) THEN {of.depth} ELSE {}
PendingWith(es, pd, of, e) ==
  IF Like(es, e) \/ ~Waits(of) THEN pd ELSE pd \cup {<<Len(es) + 1, of.depth>>}

\* The object once its entry is made: it has the entry that it patches.
Headed(of, e, settings, k) == Obj(of, e.name, e.id, TRUE, settings, k)
\* The k-th entry has them, if there is one.
HasSettings(fs, k, settings) == k \in Nat /\ (k # 0 => k \in 1..Len(fs) /\ fs[k].settings = settings)

\* What is saved of an object: a name, an id and perhaps settings.
IsSaved(e) ==
  e.name \in Strings \ {Empty} /\ e.id \in Strings \ {Empty} /\ e.settings \in Settings \cup {None}

\* The entry that is made of it is one.
LEMMA MadeTyped ==
  ASSUME NEW of \in Objects, NEW e, IsSaved(e), NEW x \in Settings \cup {None}
  PROVE  Made(of, e, x) \in EntrySet
BY DEF Made, EntrySet, Objects, IsSaved, Labels

\* Names, with settings that came before them.
NamesDone(text, st, of, ar, es, pd, e, x, k) ==
  /\ Does(text, State(Append(st, Obj(of, Empty, Empty, FALSE, x, 0)), ar, es, pd),
          State(Append(st, Headed(of, e, x, k)), ar, Add(es, Made(of, e, x)), PendingWith(es, pd, of, e)))
  /\ HasSettings(Add(es, Made(of, e, x)), k, x) /\ k \in {0, Len(es) + 1}
  /\ k = 0 => Like(es, e)
  /\ k # 0 => ~Like(es, e)

\* An object is named: its entry is added, or it repeats the last one.
LEMMA NamesHead ==
  ASSUME NEW st \in Seq(Objects), NEW of \in Objects, of.kind # "script", NEW ar, NEW es \in Seq(EntrySet), NEW pd,
         NEW e, IsSaved(e), NEW x \in Settings \cup {None}, NEW text \in {Names(e), NamesBehind(e)}
  PROVE  \E k : NamesDone(text, st, of, ar, es, pd, e, x, k)
<1> DEFINE h == Made(of, e, x)  s == State(Append(st, Obj(of, Empty, Empty, FALSE, x, 0)), ar, es, pd)
<1>1. e.name \in Strings \ {Empty} /\ e.id \in Strings \ {Empty} /\ Len(es) \in Nat
  BY LenProperties DEF IsSaved
<1>2. h.module # Empty /\ h.label = e.name /\ h.module = e.id /\ h.settings = x  BY <1>1 DEF Made
<1>3. h \in EntrySet  BY MadeTyped
<1>4. Does(text, s,
           IF Like(es, e) THEN State(Append(st, Obj(of, e.name, e.id, TRUE, x, 0)), ar, es, pd)
           ELSE State(Append(st, Obj(of, e.name, e.id, TRUE, x, Len(es) + 1)), ar, Append(es, h),
                      IF Waits(of) THEN pd \cup {<<Len(es) + 1, of.depth>>} ELSE pd))
  BY <1>1, NamesRead
<1> HIDE DEF h, s
<1>5. Add(es, h) = IF Like(es, e) THEN es ELSE Append(es, h)
  <2>1. Like(es, [name |-> h.label, id |-> h.module]) <=> Like(es, e)  BY <1>2 DEF Like
  <2> QED  BY <1>2, <2>1 DEF Add
<1>6. CASE Like(es, e)
  <2>1. Add(es, h) = es /\ PendingWith(es, pd, of, e) = pd  BY <1>5, <1>6 DEF PendingWith
  <2>2. Does(text, s, State(Append(st, Headed(of, e, x, 0)), ar, Add(es, h), PendingWith(es, pd, of, e)))
    BY <1>4, <1>6, <2>1 DEF Headed
  <2>3. HasSettings(Add(es, h), 0, x)  BY DEF HasSettings
  <2>4. NamesDone(text, st, of, ar, es, pd, e, x, 0)  BY <1>6, <2>2, <2>3 DEF h, s, NamesDone
  <2> QED  BY <2>4
<1>7. CASE ~Like(es, e)
  <2> DEFINE fs == Append(es, h)
  <2>1. Add(es, h) = fs /\ PendingWith(es, pd, of, e) = (IF Waits(of) THEN pd \cup {<<Len(es) + 1, of.depth>>} ELSE pd)
    BY <1>5, <1>7 DEF PendingWith
  <2>2. Does(text, s, State(Append(st, Headed(of, e, x, Len(es) + 1)), ar, Add(es, h), PendingWith(es, pd, of, e)))
    BY <1>4, <1>7, <2>1 DEF Headed
  <2>3. Len(fs) = Len(es) + 1 /\ fs[Len(es) + 1] = h  BY <1>3, AppendProperties
  <2> HIDE DEF fs
  <2>4. HasSettings(Add(es, h), Len(es) + 1, x)  BY <1>1, <1>2, <2>1, <2>3 DEF HasSettings
  <2>5. Len(es) + 1 # 0  BY <1>1
  <2>6. NamesDone(text, st, of, ar, es, pd, e, x, Len(es) + 1)
    BY <1>7, <2>2, <2>4, <2>5 DEF h, s, NamesDone
  <2> QED  BY <2>6
<1> QED  BY <1>6, <1>7

\* The entry of an object with an id is added unless it is like the last one.
LEMMA AddIs ==
  ASSUME NEW of, NEW e, IsSaved(e), NEW x, NEW es
  PROVE  Add(es, Made(of, e, x)) = IF Like(es, e) THEN es ELSE Append(es, Made(of, e, x))
<1> DEFINE h == Made(of, e, x)
<1>1. h.module # Empty /\ h.label = e.name /\ h.module = e.id  BY DEF Made, IsSaved
<1> HIDE DEF h
<1>2. Like(es, [name |-> h.label, id |-> h.module]) <=> Like(es, e)  BY <1>1 DEF Like
<1>3. Add(es, h) = IF Like(es, e) THEN es ELSE Append(es, h)  BY <1>1, <1>2 DEF Add
<1> QED  BY <1>3 DEF h

\* Settings that come behind the names.
LEMMA SettledLater ==
  ASSUME NEW of \in Objects, NEW e, IsSaved(e), NEW es \in Seq(EntrySet), NEW v \in Settings, NEW k,
         k \in {0, Len(es) + 1}, k = 0 => Like(es, e), k # 0 => ~Like(es, e)
  PROVE  WithSettings(Add(es, Made(of, e, None)), Headed(of, e, None, k), v) = Add(es, Made(of, e, v))
<1> DEFINE g == Made(of, e, None)  h == Made(of, e, v)  o == Headed(of, e, None, k)  a == Append(es, g)
<1>1. o.entry = k  BY DEF Headed, Obj
<1>2. g \in EntrySet /\ h \in EntrySet  BY MadeTyped
<1>3. g.settings = None /\ [g EXCEPT !.settings = v] = h  BY DEF Made
<1>4. Len(es) \in Nat  BY LenProperties
<1>5. CASE k = 0
  <2>1. Add(es, g) = es /\ Add(es, h) = es  BY <1>5, AddIs
  <2> HIDE DEF g, h, o
  <2>2. WithSettings(es, o, v) = es  BY <1>1, <1>5 DEF WithSettings
  <2> QED  BY <2>1, <2>2 DEF g, h, o
<1>6. CASE k # 0
  <2>1. Add(es, g) = a /\ Add(es, h) = Append(es, h)  BY <1>6, AddIs
  <2>2. Len(a) = Len(es) + 1 /\ a[Len(es) + 1] = g /\ Len(a) = k  BY <1>2, <1>6, AppendProperties
  <2>3. WithInnermost(a, h) = Append(es, h)  BY <1>2, Pushed
  <2> HIDE DEF a, g, h, o
  <2>4. [a EXCEPT ![k].settings = v] = [a EXCEPT ![k] = h]  BY <1>3, <2>2
  <2>5. WithSettings(a, o, v) = [a EXCEPT ![k].settings = v]  BY <1>1, <1>3, <1>6, <2>2 DEF WithSettings
  <2>6. WithSettings(a, o, v) = Append(es, h)  BY <2>2, <2>3, <2>4, <2>5 DEF WithInnermost
  <2> QED  BY <2>1, <2>6 DEF g, h, o
<1> QED  BY <1>5, <1>6

\* What an object says of itself, with the names first or last.
Heads(e) == {Names(e) \o Body(e), Body(e) \o NamesBehind(e)}

\* The object is read: its entry is added with its settings.
HeadDone(text, st, ar, of, e, es, pd) ==
  \E k : /\ Does(text, State(Append(st, of), ar, es, pd),
                 State(Append(st, Headed(of, e, e.settings, k)), ar, Add(es, Made(of, e, e.settings)),
                       PendingWith(es, pd, of, e)))
         /\ HasSettings(Add(es, Made(of, e, e.settings)), k, e.settings)

\* Its parts are texts.
LEMMA HeadTexts ==
  ASSUME NEW e, IsSaved(e)
  PROVE  Names(e) \in Seq(Tokens) /\ NamesBehind(e) \in Seq(Tokens) /\ Body(e) \in Seq(Tokens)
<1>1. <<Token("name", e.name)>> \in Seq(Tokens) /\ <<Token("id", e.id)>> \in Seq(Tokens)
  BY TokensTyped DEF IsSaved, Labels
<1>2. Token("name", e.name) \in Tokens /\ Token("id", e.id) \in Tokens
  <2> DEFINE a == Token("name", e.name)  b == Token("id", e.id)
  <2>1. <<a>> \in Seq(Tokens) /\ <<b>> \in Seq(Tokens)  BY <1>1
  <2> HIDE DEF a, b
  <2>2. a \in Tokens /\ b \in Tokens
    <3>1. Len(<<a>>) = 1 /\ <<a>>[1] = a /\ Len(<<b>>) = 1 /\ <<b>>[1] = b  OBVIOUS
    <3> QED  BY <2>1, <3>1, ElementOfSeq
  <2> QED  BY <2>2 DEF a, b
<1>3. Names(e) \in Seq(Tokens) /\ NamesBehind(e) \in Seq(Tokens)  BY <1>2, Two DEF Names, NamesBehind
<1>4. Body(e) \in Seq(Tokens)
  <2>1. CASE e.settings = None
    <3>1. <<>> \in Seq(Tokens)  OBVIOUS
    <3> QED  BY <2>1, <3>1 DEF Body
  <2>2. CASE e.settings # None
    <3>1. e.settings \in Settings  BY <2>2 DEF IsSaved
    <3> QED  BY <2>2, <3>1, TokensTyped DEF Body
  <2> QED  BY <2>1, <2>2
<1> QED  BY <1>3, <1>4

\* A sequence beside nothing.
LEMMA NothingBeside == ASSUME NEW T, NEW s \in Seq(T) PROVE s \o <<>> = s /\ <<>> \o s = s
BY EmptySeq, ConcatEmptySeq

\* An object that is read has its entry with its settings, in either order.
LEMMA HeadRead ==
  ASSUME NEW st \in Seq(Objects), NEW ar \in Seq(Arrays), NEW of, of = OpenedIn(ar), of.kind # "script",
         NEW es \in Seq(EntrySet), NEW pd, NEW e, IsSaved(e), NEW text \in Heads(e)
  PROVE  HeadDone(text, st, ar, of, e, es, pd)
<1> DEFINE v == e.settings
           qd == PendingWith(es, pd, of, e)
           s == State(Append(st, of), ar, es, pd)
<1>0. of \in Objects  BY OpenedIs
<1>1. of \in Objects /\ of = Obj(of, Empty, Empty, FALSE, None, 0)  BY OpenedIs
<1>2. /\ of.name = Empty /\ of.id = Empty /\ ~of.emitted /\ of.settings = None /\ of.entry = 0
      /\ Obj(of, of.name, of.id, of.emitted, v, of.entry) = Obj(of, Empty, Empty, FALSE, v, 0)
  <2>1. \A p : LET o == Obj(p, Empty, Empty, FALSE, None, 0)
              IN  o.name = Empty /\ o.id = Empty /\ ~o.emitted /\ o.settings = None /\ o.entry = 0
    BY DEF Obj
  <2>2. of.name = Empty /\ of.id = Empty /\ ~of.emitted /\ of.settings = None /\ of.entry = 0
    BY <1>1, <2>1, Zenon
  <2>3. of.emitted = FALSE  BY <1>1, <2>2 DEF Objects
  <2> QED  BY <2>2, <2>3, Zenon
<1>3. Names(e) \in Seq(Tokens) /\ NamesBehind(e) \in Seq(Tokens) /\ Body(e) \in Seq(Tokens)
  BY HeadTexts
<1>4. CASE v = None
  <2>1. Body(e) = <<>>  BY <1>4 DEF Body
  <2>2. text \in {Names(e), NamesBehind(e)}  BY <1>3, <2>1, NothingBeside DEF Heads
  <2>3. PICK k : /\ Does(text, State(Append(st, Obj(of, Empty, Empty, FALSE, v, 0)), ar, es, pd),
                         State(Append(st, Headed(of, e, v, k)), ar, Add(es, Made(of, e, v)), qd))
                 /\ HasSettings(Add(es, Made(of, e, v)), k, v)
    <3>2. v \in Settings \cup {None}  BY <1>4
    <3> HIDE DEF v
    <3>3. \E k : NamesDone(Names(e), st, of, ar, es, pd, e, v, k)  BY <1>0, <3>2, NamesHead
    <3>4. \E k : NamesDone(NamesBehind(e), st, of, ar, es, pd, e, v, k)  BY <1>0, <3>2, NamesHead
    <3>1. \E k : NamesDone(text, st, of, ar, es, pd, e, v, k)  BY <2>2, <3>3, <3>4, Zenon
    <3> QED  BY <3>1 DEF NamesDone
  <2>4. Does(text, s, State(Append(st, Headed(of, e, v, k)), ar, Add(es, Made(of, e, v)), qd))
    BY <1>1, <1>4, <2>3
  <2> QED  BY <2>3, <2>4 DEF HeadDone
<1>5. CASE v # None
  <2>1. v \in Settings /\ Body(e) = <<Token("settings", v)>>  BY <1>5 DEF IsSaved, Body
  <2>2. CASE text = Names(e) \o Body(e)
    <3>1. PICK k : /\ Does(Names(e), State(Append(st, Obj(of, Empty, Empty, FALSE, None, 0)), ar, es, pd),
                           State(Append(st, Headed(of, e, None, k)), ar, Add(es, Made(of, e, None)), qd))
                   /\ HasSettings(Add(es, Made(of, e, None)), k, None) /\ k \in {0, Len(es) + 1}
                   /\ k = 0 => Like(es, e)
                   /\ k # 0 => ~Like(es, e)
      <4>1. \E k : NamesDone(Names(e), st, of, ar, es, pd, e, None, k)  BY <1>0, NamesHead
      <4> QED  BY <4>1 DEF NamesDone
    <3> DEFINE o == Headed(of, e, None, k)  g == Add(es, Made(of, e, None))  h == Add(es, Made(of, e, v))
    <3>2. WithSettings(g, o, v) = h  BY <1>1, <2>1, <3>1, SettledLater
    <3>3. o \in Objects
      <4>1. k \in Nat  BY <3>1 DEF HasSettings
      <4> QED  BY <1>1, <4>1, ObjTyped DEF IsSaved, Labels, Headed
    <3>4. Obj(o, o.name, o.id, o.emitted, v, o.entry) = Headed(of, e, v, k)  BY DEF Headed, Obj
    <3>5. Does(Body(e), State(Append(st, o), ar, g, qd),
               State(Append(st, Obj(o, o.name, o.id, o.emitted, v, o.entry)), ar, WithSettings(g, o, v), qd))
      <4> HIDE DEF o, g, qd
      <4> QED  BY <2>1, <3>3, Setting
    <3>6. Does(Names(e), s, State(Append(st, o), ar, g, qd))  BY <1>1, <3>1
    <3>7. Does(Body(e), State(Append(st, o), ar, g, qd), State(Append(st, Headed(of, e, v, k)), ar, h, qd))
      BY <3>2, <3>4, <3>5
    <3>8. Does(text, s, State(Append(st, Headed(of, e, v, k)), ar, h, qd))
      <4> DEFINE t == State(Append(st, o), ar, g, qd)  u == State(Append(st, Headed(of, e, v, k)), ar, h, qd)
      <4>1. Does(Names(e), s, t) /\ Does(Body(e), t, u)  BY <3>6, <3>7
      <4> HIDE DEF s, t, u
      <4> QED  BY <1>3, <2>2, <4>1, DoesBoth DEF u
    <3>9. HasSettings(h, k, v)
      <4>1. CASE k = 0  BY <4>1 DEF HasSettings
      <4>2. CASE k # 0
        <5>1. h = Append(es, Made(of, e, v))  BY <3>1, <4>2, AddIs
        <5>2. Made(of, e, v) \in EntrySet /\ Made(of, e, v).settings = v
          BY <1>1, <2>1, MadeTyped DEF Made
        <5> DEFINE m == Made(of, e, v)  a == Append(es, m)
        <5>3. Len(a) = Len(es) + 1 /\ a[Len(es) + 1] = m /\ Len(es) \in Nat
          BY <5>2, AppendProperties, LenProperties
        <5>4. k = Len(es) + 1 /\ h = a /\ m.settings = v  BY <3>1, <4>2, <5>1, <5>2
        <5> HIDE DEF a, m, h, v
        <5> QED  BY <5>3, <5>4 DEF HasSettings
      <4> QED  BY <4>1, <4>2
    <3> QED  BY <3>8, <3>9 DEF HeadDone
  <2>3. CASE text = Body(e) \o NamesBehind(e)
    <3> DEFINE t == State(Append(st, Obj(of, Empty, Empty, FALSE, v, 0)), ar, es, pd)
    <3>1. PICK k : /\ Does(NamesBehind(e), t, State(Append(st, Headed(of, e, v, k)), ar, Add(es, Made(of, e, v)), qd))
                   /\ HasSettings(Add(es, Made(of, e, v)), k, v)
      <4>1. \E k : NamesDone(NamesBehind(e), st, of, ar, es, pd, e, v, k)  BY <1>0, <2>1, NamesHead
      <4> QED  BY <4>1 DEF NamesDone
    <3>2. WithSettings(es, of, v) = es  BY <1>2 DEF WithSettings
    <3>3. Does(Body(e), s, State(Append(st, Obj(of, of.name, of.id, of.emitted, v, of.entry)), ar, WithSettings(es, of, v), pd))
      BY <1>1, <2>1, Setting
    <3>4. Does(Body(e), s, t)  BY <1>2, <3>2, <3>3
    <3>5. Does(text, s, State(Append(st, Headed(of, e, v, k)), ar, Add(es, Made(of, e, v)), qd))
      <4> DEFINE u == State(Append(st, Headed(of, e, v, k)), ar, Add(es, Made(of, e, v)), qd)
      <4>1. Does(Body(e), s, t) /\ Does(NamesBehind(e), t, u)  BY <3>1, <3>4
      <4> HIDE DEF s, t, u
      <4> QED  BY <1>3, <2>3, <4>1, DoesBoth DEF u
    <3> QED  BY <3>1, <3>5 DEF HeadDone
  <2> QED  BY <2>2, <2>3 DEF Heads
<1> QED  BY <1>4, <1>5

-----------------------------------------------------------------------------
(* An object of its own, and what it owns                                  *)

\* Where no entry waits for the name of an object, its end changes nothing.
LEMMA Unpatched ==
  ASSUME NEW es \in Seq(EntrySet), NEW pd, NEW o, NEW depth, \A x \in Waiting(es, pd) : x[2] # depth
  PROVE  WithParent(es, pd, o, depth) = es
<1>1. CASE o.name = Empty  BY <1>1 DEF WithParent
<1>2. CASE o.name # Empty
  <2> DEFINE f == [i \in DOMAIN es |->
            IF <<i, depth>> \in pd /\ es[i].parent = Empty THEN [es[i] EXCEPT !.parent = o.name] ELSE es[i]]
  <2>1. WithParent(es, pd, o, depth) = f  BY <1>2 DEF WithParent
  <2>2. ASSUME NEW i \in DOMAIN es PROVE ~(<<i, depth>> \in pd /\ es[i].parent = Empty)
    <3> SUFFICES ASSUME <<i, depth>> \in pd, es[i].parent = Empty PROVE FALSE  OBVIOUS
    <3> DEFINE x == <<i, depth>>
    <3>1. x[1] = i /\ x[2] = depth  OBVIOUS
    <3> HIDE DEF x
    <3>2. x \in Waiting(es, pd)  BY <3>1 DEF Waiting, x
    <3> QED  BY <3>1, <3>2
  <2>3. f = [i \in DOMAIN es |-> es[i]]  BY <2>2, Zenon
  <2>4. es = [i \in DOMAIN es |-> es[i]]
    <3>1. es \in [1..Len(es) -> EntrySet] /\ DOMAIN es = 1..Len(es)  BY SeqDef, LenProperties
    <3> QED  BY <3>1
  <2> QED  BY <2>1, <2>3, <2>4, Zenon
<1> QED  BY <1>1, <1>2

\* An entry that has the settings of its object keeps them.
LEMMA SettingsKept ==
  ASSUME NEW fs, NEW o, HasSettings(fs, o.entry, o.settings)
  PROVE  (IF o.settings = None THEN fs ELSE WithSettings(fs, o, o.settings)) = fs
<1>1. CASE o.settings = None  BY <1>1
<1>2. CASE o.settings # None
  <2>1. ~(o.entry # 0 /\ fs[o.entry].settings = None)  BY <1>2 DEF HasSettings
  <2> QED  BY <1>2, <2>1, Zenon DEF WithSettings
<1> QED  BY <1>1, <1>2

\* A new entry waits if its parent has no name yet.
LEMMA HeadWaits ==
  ASSUME NEW of \in Objects, NEW e, IsSaved(e), NEW es \in Seq(EntrySet), NEW pd \in SUBSET Spots(es),
         NEW fs, fs = Add(es, Made(of, e, e.settings)), NEW qd, qd = PendingWith(es, pd, of, e)
  PROVE  /\ fs \in Seq(EntrySet) /\ qd \in SUBSET Spots(fs) /\ Len(es) <= Len(fs) /\ Len(es) \in Nat
         /\ Waiting(fs, qd) = Waiting(es, pd) \cup Behind(es, fs, Depths(of))
<1> DEFINE h == Made(of, e, e.settings)  n == Len(es)
<1>1. h \in EntrySet /\ h.parent = of.parent /\ n \in Nat  BY MadeTyped, LenProperties DEF IsSaved, Made
<1>2. fs = IF Like(es, e) THEN es ELSE Append(es, h)  BY AddIs
<1>3. of.depth \in Nat  BY DEF Objects
<1>4. CASE Like(es, e)
  <2>1. fs = es /\ qd = pd  BY <1>2, <1>4 DEF PendingWith
  <2>2. (n + 1)..n = {}  BY <1>1
  <2>3. Behind(es, es, Depths(of)) = {}  BY <2>2 DEF Behind
  <2> QED  BY <1>1, <2>1, <2>3
<1>5. CASE ~Like(es, e)
  <2>1. fs = Append(es, h)  BY <1>2, <1>5
  <2> HIDE DEF h
  <2>2. fs \in Seq(EntrySet) /\ Len(fs) = n + 1 /\ fs[n + 1] = h /\ \A i \in 1..n : fs[i] = es[i]
    BY <1>1, <2>1, AppendProperties
  <2> HIDE DEF n
  <2>3. pd \in SUBSET ((1..n) \X Nat)  BY DEF Spots, n
  <2>4. Spots(fs) = (1..(n + 1)) \X Nat  BY <2>2 DEF Spots
  <2>5. \A x \in pd : x[1] \in 1..n  BY <2>3
  <2>6. Waiting(fs, pd) = Waiting(es, pd)  BY <2>2, <2>5 DEF Waiting
  <2>7. Behind(es, fs, Depths(of)) = {n + 1} \X Depths(of)
    <3>1. (n + 1)..(n + 1) = {n + 1}  BY <1>1
    <3> QED  BY <2>2, <3>1 DEF Behind, n
  <2>8. pd \in SUBSET Spots(fs)
    <3>1. 1..n \subseteq 1..(n + 1)  BY <1>1
    <3> DEFINE A == 1..n  B == 1..(n + 1)
    <3> HIDE DEF A, B
    <3>2. A \subseteq B /\ pd \subseteq A \X Nat  BY <2>3, <3>1 DEF A, B
    <3>3. pd \subseteq B \X Nat  BY <3>2
    <3> QED  BY <2>4, <3>3 DEF B
  <2>9. CASE Waits(of)
    <3> DEFINE x == <<n + 1, of.depth>>
    <3>1. qd = pd \cup {x}  BY <1>5, <2>9 DEF PendingWith, n
    <3>2. x[1] = n + 1 /\ x \in (1..(n + 1)) \X Nat  BY <1>1, <1>3
    <3>3. {n + 1} \X Depths(of) = {x}  BY <2>9 DEF Depths
    <3> HIDE DEF x
    <3>4. fs[x[1]].parent = Empty  BY <1>1, <2>2, <2>9, <3>2 DEF Waits
    <3>5. Waiting(fs, qd) = Waiting(fs, pd) \cup {x}  BY <3>1, <3>4 DEF Waiting
    <3>6. qd \in SUBSET Spots(fs)  BY <2>4, <2>8, <3>1, <3>2
    <3> QED  BY <1>1, <2>2, <2>6, <2>7, <3>3, <3>5, <3>6 DEF n
  <2>10. CASE ~Waits(of)
    <3>1. qd = pd /\ Depths(of) = {}  BY <2>10 DEF PendingWith, Depths
    <3>2. {n + 1} \X Depths(of) = {}  BY <3>1
    <3> QED  BY <1>1, <2>2, <2>6, <2>7, <2>8, <3>1, <3>2 DEF n
  <2> QED  BY <2>9, <2>10
<1> QED  BY <1>4, <1>5

\* The object, once its entry is made.
LEMMA HeadedTyped ==
  ASSUME NEW of \in Objects, NEW e, IsSaved(e), NEW k \in Nat
  PROVE  /\ Headed(of, e, e.settings, k) \in Objects
         /\ Headed(of, e, e.settings, k).entry = k /\ Headed(of, e, e.settings, k).settings = e.settings
         /\ Headed(of, e, e.settings, k).name = e.name
<1>1. e.name \in Labels /\ e.id \in Strings /\ e.settings \in Settings \cup {None, AnySettings}
  BY DEF IsSaved, Labels
<1>2. Headed(of, e, e.settings, k) \in Objects  BY <1>1, ObjTyped DEF Headed
<1> QED  BY <1>2 DEF Headed, Obj

\* An object that names itself first, and then what it owns.
LEMMA OwnerLists ==
  ASSUME NEW st \in Seq(Objects), NEW ar \in Seq(Arrays), NEW of, of = OpenedIn(ar), of.kind # "script",
         of.depth <= Len(st), NEW e, IsSaved(e), NEW head \in Heads(e),
         NEW rest \in Seq(Tokens), NEW hs \in Seq(EntrySet), Depths(of) = {} \/ hs = <<>>,
         \A k \in Nat : Lists(rest, Append(st, Headed(of, e, e.settings, k)), ar, {}, hs)
  PROVE  /\ Lists(Braced(head \o rest), st, ar, Depths(of), <<Made(of, e, e.settings)>> \o hs)
         /\ Braced(head \o rest) \in Seq(Tokens)
<1> DEFINE h == Made(of, e, e.settings)  w == Depths(of)
<1>1. of \in Objects  BY OpenedIs
<1>2. Names(e) \in Seq(Tokens) /\ NamesBehind(e) \in Seq(Tokens) /\ Body(e) \in Seq(Tokens)
  BY HeadTexts
<1>3. head \in Seq(Tokens)
  <2>1. Names(e) \o Body(e) \in Seq(Tokens) /\ Body(e) \o NamesBehind(e) \in Seq(Tokens)
    BY <1>2, ConcatProperties
  <2>2. head = Names(e) \o Body(e) \/ head = Body(e) \o NamesBehind(e)  BY Zenon DEF Heads
  <2> QED  BY <2>1, <2>2, Zenon
<1>4. head \o rest \in Seq(Tokens)  BY <1>3, ConcatProperties
<1>5. Len(st) \in Nat /\ of.depth \in Nat  BY <1>1, LenProperties DEF Objects
<1>6. h \in EntrySet  BY <1>1, MadeTyped DEF IsSaved
<1>7. ASSUME NEW es \in Seq(EntrySet), NEW pd \in SUBSET Spots(es), Shallow(es, pd, Len(st))
      PROVE  /\ ListsFrom(Braced(head \o rest), st, ar, w, <<h>> \o hs, es, pd)
             /\ Braced(head \o rest) \in Seq(Tokens)
  <2> DEFINE fs == Add(es, h)  qd == PendingWith(es, pd, of, e)  s == State(Append(st, of), ar, es, pd)
  <2>1. PICK k : Does(head, s, State(Append(st, Headed(of, e, e.settings, k)), ar, fs, qd))
                 /\ HasSettings(fs, k, e.settings)
    <3>1. HeadDone(head, st, ar, of, e, es, pd)  BY HeadRead
    <3> QED  BY <3>1 DEF HeadDone
  <2>2. /\ fs \in Seq(EntrySet) /\ qd \in SUBSET Spots(fs) /\ Len(es) <= Len(fs) /\ Len(es) \in Nat
        /\ Waiting(fs, qd) = Waiting(es, pd) \cup Behind(es, fs, w)
    <3>1. fs = Add(es, Made(of, e, e.settings)) /\ qd = PendingWith(es, pd, of, e)  OBVIOUS
    <3> HIDE DEF fs, qd, w
    <3>2. /\ fs \in Seq(EntrySet) /\ qd \in SUBSET Spots(fs) /\ Len(es) <= Len(fs) /\ Len(es) \in Nat
          /\ Waiting(fs, qd) = Waiting(es, pd) \cup Behind(es, fs, Depths(of))
      BY <1>1, <3>1, HeadWaits
    <3> QED  BY <3>2 DEF w
  <2>3. k \in Nat  BY <2>1 DEF HasSettings
  <2> DEFINE o == Headed(of, e, e.settings, k)  su == Append(st, o)
  <2>4. o \in Objects /\ o.entry = k /\ o.settings = e.settings
    <3>1. o \in Objects  BY <1>1, <2>3, HeadedTyped
    <3>2. o.entry = k  BY DEF Headed, Obj
    <3>3. o.settings = e.settings  BY DEF Headed, Obj
    <3> QED  BY <3>1, <3>2, <3>3
  <2>5. Lists(rest, su, ar, {}, hs)  BY <2>3
  <2>6. Adds(es, <<h>>, fs)  BY AddsOne
  <2> HIDE DEF o, fs, qd, h, s, w
  <2>7. su \in Seq(Objects) /\ Len(su) = Len(st) + 1  BY <2>4, AppendProperties
  <2>8. \A x \in Waiting(fs, qd) : x[2] <= Len(st)
    <3>1. \A x \in Behind(es, fs, w) : x[2] = of.depth  BY DEF Behind, w, Depths
    <3> QED  BY <1>7, <2>2, <3>1 DEF Shallow
  <2>9. \A x \in Waiting(fs, qd) : x[2] \in Nat  BY <2>2 DEF Waiting, Spots
  <2>10. Shallow(fs, qd, Len(su))  BY <1>5, <2>7, <2>8, <2>9 DEF Shallow
  <2> HIDE DEF su
  <2>11. ListsFrom(rest, su, ar, {}, hs, fs, qd)  BY <2>2, <2>5, <2>10 DEF Lists
  <2>12. PICK gs \in Seq(EntrySet) : \E rd \in SUBSET Spots(gs) :
             /\ Does(rest, State(su, ar, fs, qd), State(su, ar, gs, rd))
             /\ Adds(fs, hs, gs)
             /\ Waiting(gs, rd) = Waiting(fs, qd) \cup Behind(fs, gs, {})
    BY <2>11 DEF ListsFrom
  <2>13. PICK rd \in SUBSET Spots(gs) :
             /\ Does(rest, State(su, ar, fs, qd), State(su, ar, gs, rd))
             /\ Adds(fs, hs, gs)
             /\ Waiting(gs, rd) = Waiting(fs, qd) \cup Behind(fs, gs, {})
    BY <2>12
  <2>14. Waiting(gs, rd) = Waiting(fs, qd)
    <3>1. Behind(fs, gs, {}) = {}  BY DEF Behind
    <3> QED  BY <2>13, <3>1
  <2>15. HasSettings(gs, k, e.settings)
    <3>1. Len(fs) <= Len(gs) /\ Len(fs) \in Nat /\ Len(gs) \in Nat /\ \A i \in 1..Len(fs) : gs[i] = fs[i]
      BY <2>2, <2>13, AddsKeep
    <3> QED  BY <2>1, <3>1 DEF HasSettings
  <2>16. Does(head \o rest, s, State(su, ar, gs, rd))
    <3>1. Does(head, s, State(su, ar, fs, qd))  BY <2>1 DEF su, o
    <3> QED  BY <1>3, <2>13, <3>1, DoesBoth
  <2>17. WithParent(IF o.settings = None THEN gs ELSE WithSettings(gs, o, o.settings), rd, o, Len(st) + 1) = gs
    <3>1. (IF o.settings = None THEN gs ELSE WithSettings(gs, o, o.settings)) = gs
      BY <2>4, <2>15, SettingsKept
    <3>2. \A x \in Waiting(gs, rd) : x[2] # Len(st) + 1  BY <1>5, <2>8, <2>9, <2>14
    <3> DEFINE depth == Len(st) + 1
    <3>3. gs \in Seq(EntrySet) /\ \A x \in Waiting(gs, rd) : x[2] # depth  BY <3>2
    <3> HIDE DEF depth
    <3>4. WithParent(gs, rd, o, depth) = gs  BY <3>3, Unpatched
    <3> QED  BY <3>1, <3>4 DEF depth
  <2>18. /\ Does(Braced(head \o rest), State(st, ar, es, pd), State(st, ar, gs, rd))
         /\ Braced(head \o rest) \in Seq(Tokens)
    <3> DEFINE text == head \o rest
    <3>1. Does(text, State(Append(st, OpenedIn(ar)), ar, es, pd), State(Append(st, o), ar, gs, rd)) /\ text \in Seq(Tokens)
      BY <1>4, <2>16 DEF s, su
    <3> HIDE DEF text
    <3>2. /\ Does(Braced(text), State(st, ar, es, pd),
                 State(st, ar, WithParent(IF o.settings = None THEN gs ELSE WithSettings(gs, o, o.settings),
                                          rd, o, Len(st) + 1), rd))
          /\ Braced(text) \in Seq(Tokens)
      BY <2>4, <3>1, BracedDoes
    <3> QED  BY <2>17, <3>2 DEF text
  <2>19. Adds(es, <<h>> \o hs, gs)
    <3>1. <<h>> \in Seq(EntrySet)  BY <1>6 DEF h
    <3> QED  BY <2>6, <2>13, <3>1, AddsBoth
  <2>20. Waiting(gs, rd) = Waiting(es, pd) \cup Behind(es, gs, w)
    <3>1. CASE w = {}
      <4>1. Behind(es, gs, w) = {} /\ Behind(es, fs, w) = {}  BY <3>1 DEF Behind
      <4> QED  BY <2>2, <2>14, <4>1
    <3>2. CASE hs = <<>>
      <4>1. gs = fs
        <5>1. Adds(fs, <<>>, gs) /\ Len(<<>>) = 0  BY <2>13, <3>2
        <5> QED  BY <5>1 DEF Adds
      <4> QED  BY <2>2, <2>14, <4>1
    <3> QED  BY <3>1, <3>2 DEF w
  <2>21. ListsFrom(Braced(head \o rest), st, ar, w, <<h>> \o hs, es, pd)
    BY <2>18, <2>19, <2>20 DEF ListsFrom
  <2> QED  BY <2>18, <2>21
<1>8. Lists(Braced(head \o rest), st, ar, w, <<h>> \o hs)
  <2> HIDE DEF h, w
  <2> QED  BY <1>7 DEF Lists
<1>9. Braced(head \o rest) \in Seq(Tokens)
  <2>1. <<Token("{", Empty)>> \in Seq(Tokens) /\ <<Token("}", Empty)>> \in Seq(Tokens)  BY TokensTyped
  <2> QED  BY <1>4, <2>1, ConcatProperties DEF Braced
<1> QED  BY <1>8, <1>9

-----------------------------------------------------------------------------
(* The filters of a source                                                 *)

\* A part of the text that leaves no trace.
LEMMA ListsIdle ==
  ASSUME NEW text, NEW st, NEW ar, NEW w,
         \A es, pd : Does(text, State(st, ar, es, pd), State(st, ar, es, pd))
  PROVE  Lists(text, st, ar, w, <<>>)
<1> SUFFICES ASSUME NEW es \in Seq(EntrySet), NEW pd \in SUBSET Spots(es) PROVE ListsFrom(text, st, ar, w, <<>>, es, pd)
  BY DEF Lists
<1>1. Does(text, State(st, ar, es, pd), State(st, ar, es, pd))  OBVIOUS
<1>2. Adds(es, <<>>, es)  BY AddsNothing
<1>3. Behind(es, es, w) = {}
  <2>1. Len(es) \in Nat  BY LenProperties
  <2>2. (Len(es) + 1)..Len(es) = {}  BY <2>1
  <2> QED  BY <2>2 DEF Behind
<1> QED  BY <1>1, <1>2, <1>3 DEF ListsFrom

\* Objects of one kind and place that own nothing that is an entry.
LEMMA ItemLists ==
  ASSUME NEW st \in Seq(Objects), NEW ar \in Seq(Arrays), NEW of, of = OpenedIn(ar), of.kind # "script",
         of.depth <= Len(st), NEW e, IsSaved(e), NEW rest \in {<<>>, Clutter}
  PROVE  /\ Lists(Braced(Names(e) \o Body(e) \o rest), st, ar, Depths(of), <<Made(of, e, e.settings)>>)
         /\ Braced(Names(e) \o Body(e) \o rest) \in Seq(Tokens)
<1> DEFINE head == Names(e) \o Body(e)  h == Made(of, e, e.settings)
<1>1. of \in Objects  BY OpenedIs
<1>2. head \in Heads(e)  BY Zenon DEF Heads
<1>3. <<>> \in Seq(EntrySet) /\ <<>> \in Seq(Tokens)  OBVIOUS
<1>4. ASSUME NEW k \in Nat
      PROVE  Lists(rest, Append(st, Headed(of, e, e.settings, k)), ar, {}, <<>>)
  <2> DEFINE o == Headed(of, e, e.settings, k)  su == Append(st, o)
  <2>1. o \in Objects  BY <1>1, HeadedTyped
  <2> HIDE DEF o
  <2>2. su \in Seq(Objects)  BY <2>1, AppendProperties
  <2> HIDE DEF su
  <2>3. Lists(<<>>, su, ar, {}, <<>>)  BY ListsNothing
  <2>4. Lists(Clutter, su, ar, {}, <<>>)
    <3>1. \A es, pd : Does(Clutter, State(su, ar, es, pd), State(su, ar, es, pd))  BY <2>2, ClutterRead
    <3> QED  BY <3>1, ListsIdle
  <2>5. rest = <<>> \/ rest = Clutter  BY Zenon
  <2>6. Lists(rest, su, ar, {}, <<>>)  BY <2>3, <2>4, <2>5, Zenon
  <2> QED  BY <2>6, Zenon DEF su, o
<1>5. rest \in Seq(Tokens)
  <2>1. Clutter \in Seq(Tokens)
    <3>1. <<>> \in Seq(Objects)  OBVIOUS
    <3> QED  BY <3>1, ClutterRead
  <2> QED  BY <1>3, <2>1
<1> HIDE DEF head
<1>6. Lists(Braced(head \o rest), st, ar, Depths(of), <<h>> \o <<>>) /\ Braced(head \o rest) \in Seq(Tokens)
  <2> HIDE DEF h
  <2> QED  BY <1>2, <1>3, <1>4, <1>5, OwnerLists DEF h
<1>7. <<h>> \o <<>> = <<h>>
  <2> HIDE DEF h
  <2>1. <<h>> \in Seq({h})  OBVIOUS
  <2> QED  BY <2>1, NothingBeside
<1> QED  BY <1>6, <1>7 DEF head

\* The filters of a source, under a parent or under none yet.
FiltersOf(s, parent) == [i \in DOMAIN s.filters |-> Held(s.filters[i], "filter", parent)]

\* They are entries of objects that were saved.
LEMMA FiltersTyped ==
  ASSUME NEW s, s.filters \in Seq(Saveable), NEW parent \in Labels
  PROVE  /\ FiltersOf(s, parent) \in Seq(EntrySet) /\ Len(FiltersOf(s, parent)) = Len(s.filters)
         /\ \A i \in 1..Len(s.filters) : FiltersOf(s, parent)[i] = Held(s.filters[i], "filter", parent)
         /\ \A i \in 1..Len(s.filters) : IsSaved(s.filters[i])
<1> DEFINE n == Len(s.filters)  f == [i \in 1..n |-> Held(s.filters[i], "filter", parent)]
<1>1. DOMAIN s.filters = 1..n /\ n \in Nat  BY LenProperties
<1>2. f = FiltersOf(s, parent)  BY <1>1 DEF FiltersOf
<1>3. ASSUME NEW i \in 1..n PROVE IsSaved(s.filters[i]) /\ f[i] \in EntrySet
  <2>1. s.filters[i] \in Saveable  BY ElementOfSeq
  <2>2. IsSaved(s.filters[i])  BY <2>1 DEF Saveable, IsSaved
  <2>3. "filter" \in EntryKinds  BY DEF EntryKinds
  <2>4. Held(s.filters[i], "filter", parent) \in EntrySet
    BY <2>2, <2>3 DEF Held, EntrySet, IsSaved, Labels
  <2> QED  BY <2>2, <2>4
<1>4. f \in [1..n -> EntrySet] /\ \A i \in 1..n : f[i] = Held(s.filters[i], "filter", parent)  BY <1>3
<1>5. f \in Seq(EntrySet) /\ Len(f) = n
  <2> HIDE DEF f, n
  <2> QED  BY <1>1, <1>4, SeqDef, LenProperties
<1> HIDE DEF f
<1> QED  BY <1>2, <1>3, <1>4, <1>5

\* The filters are listed under the name of their source, or wait for it.
LEMMA FiltersLists ==
  ASSUME NEW st \in Seq(Objects), NEW o \in Objects, NEW su, su = Append(st, o), NEW ar \in Seq(Arrays),
         NEW s, s.filters \in Seq(Saveable), NEW w, w = IF o.name = Empty THEN {Len(su)} ELSE {}
  PROVE  Lists(FiltersText(s), su, ar, w, FiltersOf(s, o.name)) /\ FiltersText(s) \in Seq(Tokens)
<1> DEFINE p == o.name  n == Len(s.filters)  hs == FiltersOf(s, p)
<1>1. p \in Labels  BY DEF Objects
<1>2. /\ hs \in Seq(EntrySet) /\ Len(hs) = n /\ n \in Nat
      /\ \A i \in 1..n : hs[i] = Held(s.filters[i], "filter", p) /\ IsSaved(s.filters[i])
  BY <1>1, FiltersTyped, LenProperties
<1>3. su \in Seq(Objects) /\ Len(su) = Len(st) + 1 /\ Len(st) \in Nat /\ su # <<>> /\ Innermost(su) = o
  BY Pushed, LenProperties
<1>4. CASE s.filters = <<>>
  <2>1. FiltersText(s) = <<>>  BY <1>4 DEF FiltersText
  <2>2. n = 0  BY <1>4
  <2>3. hs = <<>>  BY <1>2, <2>2, EmptySeq
  <2>4. <<>> \in Seq(Tokens)  OBVIOUS
  <2> QED  BY <2>1, <2>3, <2>4, ListsNothing
<1>5. CASE s.filters # <<>>
  <2> DEFINE c == ContextIn(su, "filters")  br == Append(ar, c)  of == OpenedIn(br)
             texts == [i \in 1..n |-> FilterText(s.filters[i])]
             holds == [i \in 1..n |-> <<hs[i]>>]
  <2>1. "filters" \in ArrayKeys /\ "filters" # Empty  BY Zenon DEF ArrayKeys, Empty
  <2>2. c \in Arrays  BY <1>3, <2>1, ContextTyped
  <2>3. c = [key |-> "filters", owner |-> p, depth |-> Len(su)]  BY <1>3, <2>1 DEF ContextIn
  <2>4. c.key = "filters" /\ c.owner = p /\ c.depth = Len(su)  BY <2>3
  <2> HIDE DEF c
  <2>5. br \in Seq(Arrays) /\ br # <<>> /\ Innermost(br) = c  BY <2>2, Pushed
  <2> HIDE DEF br
  <2>6. of = Opened("filter", p, Len(su))  BY <2>4, <2>5 DEF OpenedIn, InArray
  <2>7. of.kind = "filter" /\ of.parent = p /\ of.depth = Len(su)  BY <2>6 DEF Opened
  <2>8. of.kind # "script" /\ of.depth <= Len(su) /\ of.depth # 0  BY <1>3, <2>7
  <2> HIDE DEF of
  <2>9. Depths(of) = w  BY <2>7, <2>8 DEF Depths, Waits
  <2>10. ASSUME NEW i \in 1..n
         PROVE  texts[i] \in Seq(Tokens) /\ holds[i] \in Seq(EntrySet) /\ Lists(texts[i], su, br, w, holds[i])
    <3> DEFINE e == s.filters[i]
    <3>1. IsSaved(e) /\ hs[i] = Held(e, "filter", p)  BY <1>2
    <3>2. texts[i] = Braced(Names(e) \o Body(e) \o Clutter)  BY DEF FilterText
    <3>3. holds[i] = <<hs[i]>>  OBVIOUS
    <3> HIDE DEF e, texts, holds
    <3>4. Made(of, e, e.settings) = hs[i]  BY <2>7, <3>1 DEF Made, Held
    <3>5. /\ Lists(Braced(Names(e) \o Body(e) \o Clutter), su, br, Depths(of), <<Made(of, e, e.settings)>>)
          /\ Braced(Names(e) \o Body(e) \o Clutter) \in Seq(Tokens)
      BY <1>3, <2>5, <2>8, <3>1, ItemLists DEF of
    <3>6. hs[i] \in EntrySet
      <4> HIDE DEF hs, n
      <4> QED  BY <1>2, ElementOfSeq
    <3>7. <<hs[i]>> \in Seq(EntrySet)
      <4> DEFINE x == hs[i]
      <4> HIDE DEF x
      <4>1. x \in EntrySet  BY <3>6 DEF x
      <4>2. <<x>> \in Seq(EntrySet)  BY <4>1
      <4> QED  BY <4>2 DEF x
    <3> QED  BY <2>9, <3>2, <3>3, <3>4, <3>5, <3>7
  <2>11. Len(texts) = n /\ Len(holds) = n  BY <1>2
  <2>12. DOMAIN s.filters = 1..n /\ DOMAIN hs = 1..n  BY <1>2, LenProperties
  <2>13. texts = [i \in DOMAIN s.filters |-> FilterText(s.filters[i])]  BY <2>12
  <2>14. holds = [i \in DOMAIN hs |-> <<hs[i]>>]  BY <2>12
  <2> HIDE DEF texts, holds, hs, n
  <2>15. Joined(holds) = hs  BY <1>2, <2>14, JoinedOnes
  <2>16. w \in SUBSET (0..Len(su)) /\ Len(su) \in Nat  BY <1>3
  <2>17. Joined(texts) \in Seq(Tokens) /\ Lists(Joined(texts), su, br, w, Joined(holds))
    BY <1>2, <2>10, <2>11, <2>16, ListsAll
  <2>18. Lists(Listed("filters", Joined(texts)), su, ar, w, hs)
    BY <2>2, <2>15, <2>17, ListsArray DEF br, c
  <2>19. Listed("filters", Joined(texts)) \in Seq(Tokens)
    <3>1. <<Token("[", "filters")>> \in Seq(Tokens) /\ <<Token("]", Empty)>> \in Seq(Tokens)
      BY TokensTyped
    <3> QED  BY <2>17, <3>1, ConcatProperties DEF Listed
  <2>20. FiltersText(s) = Listed("filters", Joined(texts))  BY <1>5, <2>13 DEF FiltersText
  <2> QED  BY <2>18, <2>19, <2>20 DEF hs
<1> QED  BY <1>4, <1>5

-----------------------------------------------------------------------------
(* Sources                                                                 *)

\* Like another one, under whatever parent.
LEMMA LikeAdopted ==
  ASSUME NEW es \in Seq(EntrySet), NEW p \in Labels, NEW k \in Nat, NEW e
  PROVE  Like(Adopted(es, k, p), e) <=> Like(es, e)
<1> DEFINE fs == Adopted(es, k, p)
<1>0. AreAdopted(fs, es, k, p)  BY AdoptedIs
<1> HIDE DEF fs
<1>2. fs \in Seq(EntrySet) /\ Len(fs) = Len(es) /\ Len(es) \in Nat
  BY <1>0, LenProperties DEF AreAdopted
<1>3. \A i \in 1..Len(es) : fs[i].label = es[i].label /\ fs[i].module = es[i].module
  BY <1>0 DEF AreAdopted
<1>4. Like(fs, e) <=> Like(es, e)
  <2>1. CASE es = <<>>
    <3>1. fs = <<>>  BY <1>2, <2>1, EmptySeq
    <3> QED  BY <2>1, <3>1 DEF Like
  <2>2. CASE es # <<>>
    <3>1. fs # <<>> /\ Len(es) \in 1..Len(es)  BY <1>2, <2>2, EmptySeq
    <3>2. Innermost(fs) = fs[Len(es)] /\ Innermost(es) = es[Len(es)]  BY <1>2 DEF Innermost
    <3> QED  BY <1>3, <2>2, <3>1, <3>2 DEF Like
  <2> QED  BY <2>1, <2>2
<1> QED  BY <1>4 DEF fs

\* A sequence with one element more, element by element.
AppendedTo(a, s, x) == Len(a) = Len(s) + 1 /\ a[Len(s) + 1] = x /\ \A i \in 1..Len(s) : a[i] = s[i]

\* A sequence with an element behind it.
LEMMA Appended == ASSUME NEW s \in Seq(EntrySet), NEW x \in EntrySet PROVE AppendedTo(Append(s, x), s, x)
BY AppendProperties DEF AppendedTo

\* A sequence is the function of its elements.
LEMMA AsFunction == ASSUME NEW T, NEW s \in Seq(T) PROVE s = [i \in 1..Len(s) |-> s[i]]
<1>1. s \in [1..Len(s) -> T]  BY SeqDef, LenProperties
<1> QED  BY <1>1

\* The entries of fs behind es, and no other, wait at depth d; gs has one more.
Patchable(es, fs, pd, gs, qd, d) ==
  /\ Len(es) <= Len(fs)
  /\ \A x \in Waiting(es, pd) : x[2] # d
  /\ Waiting(gs, qd) = Waiting(es, pd) \cup Behind(es, fs, {d})

\* They have the parent p now, behind them is h, and none of them waits.
IsPatched(es, fs, pd, h, qd, p, ks) ==
  /\ ks = Add(Adopted(fs, Len(es), p), h)
  /\ ks \in Seq(EntrySet) /\ qd \in SUBSET Spots(ks)
  /\ Waiting(ks, qd) = Waiting(es, pd)

\* The end of a source whose filters came first gives them their parent.
LEMMA Patching ==
  ASSUME NEW es \in Seq(EntrySet), NEW fs \in Seq(EntrySet), NEW pd \in SUBSET Spots(es),
         NEW of \in Objects, NEW e, IsSaved(e), NEW h, h = Made(of, e, e.settings), NEW gs, gs = Add(fs, h),
         NEW qd \in SUBSET Spots(gs), NEW d \in Nat, Patchable(es, fs, pd, gs, qd, d),
         NEW o, o.name = e.name, NEW ks, ks = WithParent(gs, qd, o, d)
  PROVE  IsPatched(es, fs, pd, h, qd, e.name, ks)
<1> DEFINE n == Len(es)  m == Len(fs)  p == e.name  bs == Adopted(fs, n, p)  zs == Add(bs, h)
<1>1. n \in Nat /\ m \in Nat /\ p \in Labels /\ p # Empty  BY LenProperties DEF IsSaved, Labels
<1>2. h \in EntrySet  BY MadeTyped DEF IsSaved
<1>3. AreAdopted(bs, fs, n, p)
  <2> HIDE DEF n, p
  <2> QED  BY <1>1, AdoptedIs
<1>4. Like(bs, e) <=> Like(fs, e)
  <2> HIDE DEF n, p
  <2> QED  BY <1>1, LikeAdopted
<1>5. gs = (IF Like(fs, e) THEN fs ELSE Append(fs, h)) /\ zs = (IF Like(bs, e) THEN bs ELSE Append(bs, h))
  <2> HIDE DEF bs
  <2> HIDE DEF zs
  <2>1. Add(fs, Made(of, e, e.settings)) = (IF Like(fs, e) THEN fs ELSE Append(fs, Made(of, e, e.settings)))
    BY AddIs
  <2>2. Add(bs, Made(of, e, e.settings)) = (IF Like(bs, e) THEN bs ELSE Append(bs, Made(of, e, e.settings)))
    BY AddIs
  <2> QED  BY <2>1, <2>2, Zenon DEF zs
<1> HIDE DEF bs, n, m, p
<1>6. /\ bs \in Seq(EntrySet) /\ Len(bs) = m
      /\ \A i \in 1..m : (i <= n => bs[i] = fs[i]) /\ (i > n => bs[i] = Under(fs[i], p))
  BY <1>3 DEF AreAdopted, m
<1>7. gs \in Seq(EntrySet) /\ zs \in Seq(EntrySet)
  BY <1>2, <1>6, Added
<1> HIDE DEF zs
<1>8. /\ Len(zs) = Len(gs) /\ Len(gs) \in Nat /\ m <= Len(gs) /\ Len(gs) <= m + 1
      /\ \A i \in 1..Len(gs) : i <= m => gs[i] = fs[i] /\ zs[i] = bs[i]
      /\ \A i \in 1..Len(gs) : i > m => zs[i] = gs[i]
  <2>1. CASE Like(fs, e)
    <3>1. gs = fs /\ zs = bs  BY <1>4, <1>5, <2>1, Zenon
    <3>2. Len(gs) = m /\ Len(zs) = m  BY <1>6, <3>1 DEF m
    <3>3. \A i \in 1..Len(gs) : ~(i > m)  BY <1>1, <3>2
    <3>4. m <= m /\ m <= m + 1  BY <1>1
    <3> QED  BY <1>1, <3>1, <3>2, <3>3, <3>4
  <2>2. CASE ~Like(fs, e)
    <3>1. gs = Append(fs, h) /\ zs = Append(bs, h)  BY <1>4, <1>5, <2>2, Zenon
    <3>2. Len(gs) = m + 1 /\ gs[m + 1] = h /\ \A i \in 1..m : gs[i] = fs[i]
      BY <1>2, <3>1, AppendProperties DEF m
    <3>3. Len(zs) = Len(bs) + 1 /\ zs[Len(bs) + 1] = h /\ \A i \in 1..Len(bs) : zs[i] = bs[i]
      <4>1. bs \in Seq(EntrySet)  BY <1>6
      <4>2. zs = Append(bs, h)  BY <3>1
      <4>3. AppendedTo(Append(bs, h), bs, h)  BY <1>2, <4>1, Appended, Zenon
      <4>4. AppendedTo(zs, bs, h)  BY <4>2, <4>3, Zenon
      <4> QED  BY <4>4, Zenon DEF AppendedTo
    <3>4. Len(zs) = m + 1 /\ zs[m + 1] = h /\ \A i \in 1..m : zs[i] = bs[i]  BY <1>6, <3>3
    <3>5. ASSUME NEW i \in 1..Len(gs) PROVE (i <= m => i \in 1..m) /\ (i > m => i = m + 1)
      BY <1>1, <3>2
    <3>6. m <= m + 1 /\ m + 1 <= m + 1 /\ m + 1 \in Nat  BY <1>1
    <3> QED  BY <3>2, <3>4, <3>5, <3>6
  <2> QED  BY <2>1, <2>2
<1>9. \A i \in 1..Len(gs) : <<i, d>> \in Waiting(gs, qd) <=> i > n /\ i <= m
  <2>1. \A i \in 1..Len(gs) : <<i, d>> \in Behind(es, fs, {d}) <=> i \in (n + 1)..m  BY DEF Behind, n, m
  <2>2. \A i \in 1..Len(gs) : i \in (n + 1)..m <=> i > n /\ i <= m  BY <1>1, <1>8
  <2>4. Waiting(gs, qd) = Waiting(es, pd) \cup Behind(es, fs, {d})  BY DEF Patchable
  <2>3. ASSUME NEW i PROVE <<i, d>> \notin Waiting(es, pd)
    <3> DEFINE x == <<i, d>>
    <3>1. x[2] = d  OBVIOUS
    <3> HIDE DEF x
    <3>2. x \notin Waiting(es, pd)  BY <3>1 DEF Patchable
    <3> QED  BY <3>2 DEF x
  <2> QED  BY <2>1, <2>2, <2>3, <2>4
<1>10. ks = [i \in DOMAIN gs |->
               IF <<i, d>> \in qd /\ gs[i].parent = Empty THEN [gs[i] EXCEPT !.parent = p] ELSE gs[i]]
  BY <1>1, Zenon DEF WithParent, p
<1>11. DOMAIN gs = 1..Len(gs)  BY <1>7, LenProperties
<1>12. ks = [i \in 1..Len(gs) |-> ks[i]]  BY <1>10, <1>11
<1>13. ASSUME NEW i \in 1..Len(gs) PROVE ks[i] = IF i > n /\ i <= m THEN Under(gs[i], p) ELSE gs[i]
  <2> DEFINE x == <<i, d>>
  <2>1. x[1] = i  OBVIOUS
  <2>2. x \in Waiting(gs, qd) <=> i > n /\ i <= m  BY <1>9
  <2>3. ks[i] = IF x \in qd /\ gs[i].parent = Empty THEN Under(gs[i], p) ELSE gs[i]
    BY <1>10, <1>11 DEF Under
  <2> HIDE DEF x
  <2>4. x \in qd /\ gs[i].parent = Empty <=> x \in Waiting(gs, qd)  BY <2>1 DEF Waiting
  <2> QED  BY <2>2, <2>3, <2>4, Zenon
<1>14. ASSUME NEW i \in 1..Len(gs) PROVE ks[i] = zs[i]
  <2>1. CASE i <= m
    <3>1. i \in 1..m /\ (i <= n \/ i > n)  BY <1>1, <2>1
    <3>2. gs[i] = fs[i] /\ zs[i] = bs[i]  BY <1>8, <2>1
    <3>3. CASE i > n  BY <1>6, <1>13, <2>1, <3>1, <3>2, <3>3
    <3>4. CASE i <= n
      <4>1. ~(i > n)  BY <1>1, <3>4
      <4> QED  BY <1>6, <1>13, <3>1, <3>2, <3>4, <4>1
    <3> QED  BY <3>1, <3>3, <3>4
  <2>2. CASE i > m
    <3>1. ~(i <= m)  BY <1>1, <2>2
    <3> QED  BY <1>8, <1>13, <2>2, <3>1
  <2> QED  BY <1>1, <2>1, <2>2
<1>15. ks = zs
  <2>1. zs = [i \in 1..Len(gs) |-> zs[i]]  BY <1>7, <1>8, AsFunction
  <2> QED  BY <1>12, <1>14, <2>1, Zenon
<1>16. ks \in Seq(EntrySet) /\ qd \in SUBSET Spots(ks)  BY <1>7, <1>8, <1>15 DEF Spots
<1>17. ASSUME NEW x \in qd PROVE x \in Waiting(ks, qd) <=> x \in Waiting(es, pd)
  <2> DEFINE i == x[1]
  <2>8. Waiting(gs, qd) = Waiting(es, pd) \cup Behind(es, fs, {d})  BY DEF Patchable
  <2>1. i \in 1..Len(gs)  BY DEF Spots
  <2> HIDE DEF i
  <2>2. x \in Waiting(gs, qd) <=> gs[i].parent = Empty  BY DEF Waiting, i
  <2>3. x \in Waiting(ks, qd) <=> ks[i].parent = Empty  BY DEF Waiting, i
  <2>4. x \in Waiting(es, pd) => i \in 1..n  BY DEF Waiting, Spots, i, n
  <2>5. x \in Behind(es, fs, {d}) => i \in (n + 1)..m  BY DEF Behind, i, n, m
  <2>6. CASE i > n /\ i <= m
    <3>1. ks[i] = Under(gs[i], p)  BY <1>13, <2>1, <2>6
    <3>2. ks[i].parent = p
      <4>1. gs[i] \in EntrySet  BY <1>7, <2>1, ElementOfSeq
      <4> QED  BY <3>1, <4>1 DEF Under, EntrySet
    <3>3. x \notin Waiting(es, pd)  BY <1>1, <2>1, <2>4, <2>6
    <3> QED  BY <1>1, <2>3, <3>2, <3>3
  <2>7. CASE ~(i > n /\ i <= m)
    <3>1. ks[i] = gs[i]  BY <1>13, <2>1, <2>7
    <3>2. x \notin Behind(es, fs, {d})  BY <1>1, <2>1, <2>5, <2>7
    <3> QED  BY <2>2, <2>3, <2>8, <3>1, <3>2
  <2> QED  BY <2>6, <2>7
<1>18. Waiting(ks, qd) = Waiting(es, pd)
  <2>1. Waiting(ks, qd) \subseteq qd /\ Waiting(gs, qd) \subseteq qd  BY DEF Waiting
  <2>2. Waiting(es, pd) \subseteq qd  BY <2>1 DEF Patchable
  <2> QED  BY <1>17, <2>1, <2>2
<1> QED  BY <1>15, <1>16, <1>18 DEF zs, bs, n, p, IsPatched

\* A source as it is saved.
SavedSource(s) == IsSaved(s) /\ s.filters \in Seq(Saveable)

\* What the objects of an array of sources are, before they are read.
IsPlain(of, ar) == of = OpenedIn(ar) /\ of.kind = "source" /\ of.parent = Empty /\ of.depth = 0

\* The entry of such an object is that of a source.
LEMMA PlainMade ==
  ASSUME NEW of, NEW ar, IsPlain(of, ar), NEW e, NEW x
  PROVE  /\ Made(of, e, e.settings) = Held(e, "source", Empty)
         /\ of.kind # "script" /\ Depths(of) = {}
BY DEF IsPlain, Made, Held, Depths, Waits

\* A source whose name comes first.
LEMMA SourceNamedFirst ==
  ASSUME NEW st \in Seq(Objects), NEW ar \in Seq(Arrays), NEW of, IsPlain(of, ar),
         NEW s, SavedSource(s), NEW text, text = Names(s) \o Body(s) \o Clutter \o FiltersText(s)
  PROVE  /\ Lists(Braced(text), st, ar, {}, <<Held(s, "source", Empty)>> \o FiltersOf(s, s.name))
         /\ Braced(text) \in Seq(Tokens)
<1> DEFINE head == Names(s) \o Body(s)  rest == Clutter \o FiltersText(s)  hs == FiltersOf(s, s.name)
<1>1. IsSaved(s) /\ s.filters \in Seq(Saveable) /\ s.name \in Labels /\ s.name # Empty
  BY DEF SavedSource, IsSaved, Labels
<1>2. of \in Objects  BY OpenedIs DEF IsPlain
<1>3. Made(of, s, s.settings) = Held(s, "source", Empty) /\ of.kind # "script" /\ Depths(of) = {}
  BY PlainMade
<1>4. of.depth <= Len(st) /\ Len(st) \in Nat  BY LenProperties DEF IsPlain
<1>5. hs \in Seq(EntrySet)  BY <1>1, FiltersTyped
<1>6. \A es, pd : Does(Clutter, State(st, ar, es, pd), State(st, ar, es, pd)) /\ Clutter \in Seq(Tokens)
  BY ClutterRead
<1>7. Clutter \in Seq(Tokens)  BY <1>6
<1>8. FiltersText(s) \in Seq(Tokens)
  <2> DEFINE su == Append(st, of)
  <2>1. su = Append(st, of)  OBVIOUS
  <2> HIDE DEF su
  <2> DEFINE w == IF of.name = Empty THEN {Len(su)} ELSE {}
  <2>2. w = IF of.name = Empty THEN {Len(su)} ELSE {}  OBVIOUS
  <2> HIDE DEF w
  <2> QED  BY <1>1, <1>2, <2>1, <2>2, FiltersLists
<1>9. Names(s) \in Seq(Tokens) /\ Body(s) \in Seq(Tokens)  BY <1>1, HeadTexts
<1>10. head \in Seq(Tokens) /\ rest \in Seq(Tokens)  BY <1>7, <1>8, <1>9, ConcatProperties
<1>11. head \in Heads(s)  BY Zenon DEF Heads
<1>12. text = head \o rest
  <2> DEFINE c == Clutter  f == FiltersText(s)
  <2>1. c \in Seq(Tokens) /\ f \in Seq(Tokens) /\ text = (head \o c) \o f  BY <1>7, <1>8
  <2> HIDE DEF head, c, f
  <2>0. head \in Seq(Tokens)  BY <1>10
  <2> HIDE DEF rest
  <2>2. (head \o c) \o f = head \o (c \o f)  BY <2>0, <2>1, ConcatAssociative
  <2> QED  BY <2>1, <2>2 DEF c, f, rest
<1>13. ASSUME NEW k \in Nat PROVE Lists(rest, Append(st, Headed(of, s, s.settings, k)), ar, {}, hs)
  <2> DEFINE o == Headed(of, s, s.settings, k)  su == Append(st, o)
  <2>1. o \in Objects /\ o.name = s.name  BY <1>1, <1>2, HeadedTyped
  <2>2. su = Append(st, o)  OBVIOUS
  <2> HIDE DEF o, su
  <2>3. su \in Seq(Objects) /\ Len(su) \in Nat  BY <2>1, <2>2, AppendProperties, LenProperties
  <2>4. Lists(FiltersText(s), su, ar, {}, hs)
    <3>1. {} = IF o.name = Empty THEN {Len(su)} ELSE {}  BY <1>1, <2>1
    <3> HIDE DEF hs
    <3>2. Lists(FiltersText(s), su, ar, {}, FiltersOf(s, o.name))
      BY <1>1, <2>1, <2>2, <3>1, FiltersLists
    <3> QED  BY <2>1, <3>2 DEF hs
  <2>5. Lists(Clutter, su, ar, {}, <<>>)
    <3>1. \A es, pd : Does(Clutter, State(su, ar, es, pd), State(su, ar, es, pd))  BY <2>3, ClutterRead
    <3> QED  BY <3>1, ListsIdle
  <2>6. <<>> \in Seq(EntrySet) /\ {} \in SUBSET (0..Len(su))  OBVIOUS
  <2> HIDE DEF hs
  <2>7. Lists(rest, su, ar, {}, <<>> \o hs)  BY <1>5, <1>7, <1>8, <2>3, <2>4, <2>5, <2>6, ListsBoth
  <2>8. <<>> \o hs = hs  BY <1>5, NothingBeside
  <2> QED  BY <2>7, <2>8 DEF su, o
<1> HIDE DEF head, rest, hs
<1>14. /\ Lists(Braced(head \o rest), st, ar, Depths(of), <<Made(of, s, s.settings)>> \o hs)
       /\ Braced(head \o rest) \in Seq(Tokens)
  BY <1>1, <1>3, <1>4, <1>5, <1>10, <1>11, <1>13, OwnerLists DEF IsPlain
<1> QED  BY <1>3, <1>12, <1>14 DEF hs

\* What waits is what waited, and what was added if the object waits.
WaitsAlike(of, es, pd, fs, qd) ==
  /\ fs \in Seq(EntrySet) /\ qd \in SUBSET Spots(fs)
  /\ Waiting(fs, qd) = Waiting(es, pd) \cup Behind(es, fs, Depths(of))

\* So it is when an object is read.
LEMMA HeadWaitsAlike ==
  ASSUME NEW of \in Objects, NEW e, IsSaved(e), NEW es \in Seq(EntrySet), NEW pd \in SUBSET Spots(es)
  PROVE  WaitsAlike(of, es, pd, Add(es, Made(of, e, e.settings)), PendingWith(es, pd, of, e))
<1> DEFINE fs == Add(es, Made(of, e, e.settings))  qd == PendingWith(es, pd, of, e)
<1>1. fs = Add(es, Made(of, e, e.settings)) /\ qd = PendingWith(es, pd, of, e)  OBVIOUS
<1> HIDE DEF fs, qd
<1>2. /\ fs \in Seq(EntrySet) /\ qd \in SUBSET Spots(fs)
      /\ Waiting(fs, qd) = Waiting(es, pd) \cup Behind(es, fs, Depths(of))
  BY <1>1, HeadWaits
<1>3. WaitsAlike(of, es, pd, fs, qd)  BY <1>2 DEF WaitsAlike
<1> QED  BY <1>3 DEF fs, qd

\* Patching, for the entry of the source that ends.
LEMMA PatchedAll ==
  ASSUME NEW es \in Seq(EntrySet), NEW fs \in Seq(EntrySet), NEW pd \in SUBSET Spots(es),
         NEW of \in Objects, NEW e, IsSaved(e),
         NEW qd \in SUBSET Spots(Add(fs, Made(of, e, e.settings))), NEW d \in Nat,
         Patchable(es, fs, pd, Add(fs, Made(of, e, e.settings)), qd, d), NEW o, o.name = e.name
  PROVE  IsPatched(es, fs, pd, Made(of, e, e.settings), qd, e.name,
                   WithParent(Add(fs, Made(of, e, e.settings)), qd, o, d))
<1> DEFINE h == Made(of, e, e.settings)  gs == Add(fs, h)  ks == WithParent(gs, qd, o, d)
<1>1. h = Made(of, e, e.settings)  OBVIOUS
<1>2. qd \in SUBSET Spots(gs) /\ Patchable(es, fs, pd, gs, qd, d)  OBVIOUS
<1> HIDE DEF h
<1>3. gs = Add(fs, h)  OBVIOUS
<1> HIDE DEF gs
<1>4. ks = WithParent(gs, qd, o, d)  OBVIOUS
<1> HIDE DEF ks
<1>5. IsPatched(es, fs, pd, h, qd, e.name, ks)  BY <1>1, <1>2, <1>3, <1>4, Patching
<1> QED  BY <1>5 DEF h, gs, ks

\* An entry under another parent.
LEMMA HeldUnder == ASSUME NEW e, NEW kind, NEW p, NEW q PROVE Held(e, kind, q) = Under(Held(e, kind, p), q)
BY DEF Held, Under

\* A source whose filters come first.
LEMMA SourceNamedLast ==
  ASSUME NEW st \in Seq(Objects), NEW ar \in Seq(Arrays), NEW of, IsPlain(of, ar),
         NEW s, SavedSource(s)
  PROVE  /\ Lists(Braced(FiltersText(s) \o Body(s) \o NamesBehind(s)), st, ar, {},
                  FiltersOf(s, s.name) \o <<Held(s, "source", Empty)>>)
         /\ Braced(FiltersText(s) \o Body(s) \o NamesBehind(s)) \in Seq(Tokens)
<1> DEFINE text == FiltersText(s) \o Body(s) \o NamesBehind(s)
           front == FiltersText(s)  tail == Body(s) \o NamesBehind(s)  d == Len(st) + 1
           hs == FiltersOf(s, s.name)  as1 == FiltersOf(s, Empty)  h == Made(of, s, s.settings)
           su == Append(st, of)
<1>1. IsSaved(s) /\ s.filters \in Seq(Saveable) /\ s.name \in Labels /\ Empty \in Labels
  BY StringsAssumption DEF SavedSource, IsSaved, Labels
<1>2. of \in Objects /\ of.name = Empty  BY OpenedIs DEF IsPlain
<1>3. h = Held(s, "source", Empty) /\ of.kind # "script" /\ Depths(of) = {}  BY PlainMade
<1>4. Len(st) \in Nat /\ d \in Nat  BY LenProperties
<1>5. /\ hs \in Seq(EntrySet) /\ as1 \in Seq(EntrySet) /\ Len(hs) = Len(as1)
      /\ \A i \in 1..Len(as1) : hs[i] = Under(as1[i], s.name)
  <2> DEFINE n == Len(s.filters)
  <2>1. /\ hs \in Seq(EntrySet) /\ Len(hs) = n
        /\ \A i \in 1..n : hs[i] = Held(s.filters[i], "filter", s.name)
    BY <1>1, FiltersTyped
  <2>2. /\ as1 \in Seq(EntrySet) /\ Len(as1) = n
        /\ \A i \in 1..n : as1[i] = Held(s.filters[i], "filter", Empty)
    BY <1>1, FiltersTyped
  <2>3. \A e : Held(e, "filter", s.name) = Under(Held(e, "filter", Empty), s.name)  BY HeldUnder
  <2> HIDE DEF hs, as1, n
  <2> QED  BY <2>1, <2>2, <2>3
<1>6. h \in EntrySet  BY <1>1, <1>2, MadeTyped DEF IsSaved
<1>7. su = Append(st, of) /\ su \in Seq(Objects) /\ Len(su) = d  BY <1>2, AppendProperties
<1>8. {d} = IF of.name = Empty THEN {Len(su)} ELSE {}  BY <1>2, <1>7
<1> HIDE DEF su, d
<1>9. Lists(front, su, ar, {d}, as1) /\ front \in Seq(Tokens)
  <2>1. Lists(front, su, ar, {d}, FiltersOf(s, of.name)) /\ front \in Seq(Tokens)
    BY <1>1, <1>2, <1>7, <1>8, FiltersLists
  <2> QED  BY <1>2, <2>1
<1>10. NamesBehind(s) \in Seq(Tokens) /\ Body(s) \in Seq(Tokens)  BY <1>1, HeadTexts
<1>11. tail \in Seq(Tokens)  BY <1>10, ConcatProperties
<1>12. tail \in Heads(s)  BY Zenon DEF Heads
<1>13. text = front \o tail
  <2> DEFINE b == Body(s)  n == NamesBehind(s)
  <2>1. b \in Seq(Tokens) /\ n \in Seq(Tokens) /\ text = (front \o b) \o n  BY <1>10
  <2> HIDE DEF front, b, n
  <2>2. (front \o b) \o n = front \o (b \o n)  BY <1>9, <2>1, ConcatAssociative
  <2> QED  BY <2>1, <2>2 DEF b, n
<1> HIDE DEF front, tail, text
<1>14. text \in Seq(Tokens)  BY <1>9, <1>11, <1>13, ConcatProperties
<1> HIDE DEF hs, as1
<1>15. ASSUME NEW es \in Seq(EntrySet), NEW pd \in SUBSET Spots(es), Shallow(es, pd, Len(st))
       PROVE  /\ ListsFrom(Braced(text), st, ar, {}, hs \o <<h>>, es, pd)
              /\ Braced(text) \in Seq(Tokens)
  <2>0. \A x \in Waiting(es, pd) : x[2] <= Len(st) /\ x[2] \in Nat
    <3>1. \A x \in Waiting(es, pd) : x[2] <= Len(st)  BY <1>15 DEF Shallow
    <3>2. \A x \in Waiting(es, pd) : x[2] \in Nat  BY DEF Waiting, Spots
    <3> QED  BY <3>1, <3>2
  <2>1. Shallow(es, pd, Len(su)) /\ \A x \in Waiting(es, pd) : x[2] # d
    BY <1>4, <1>7, <2>0 DEF Shallow, d
  <2>2. ListsFrom(front, su, ar, {d}, as1, es, pd)  BY <1>9, <2>1 DEF Lists
  <2>30. PICK fs \in Seq(EntrySet) : \E rd \in SUBSET Spots(fs) :
             /\ Does(front, State(su, ar, es, pd), State(su, ar, fs, rd))
             /\ Adds(es, as1, fs)
             /\ Waiting(fs, rd) = Waiting(es, pd) \cup Behind(es, fs, {d})
    BY <2>2 DEF ListsFrom
  <2>3. PICK rd \in SUBSET Spots(fs) :
             /\ Does(front, State(su, ar, es, pd), State(su, ar, fs, rd))
             /\ Adds(es, as1, fs)
             /\ Waiting(fs, rd) = Waiting(es, pd) \cup Behind(es, fs, {d})
    BY <2>30
  <2> DEFINE gs == Add(fs, h)  qd == PendingWith(fs, rd, of, s)  p == s.name
  <2>4. PICK k : Does(tail, State(su, ar, fs, rd), State(Append(st, Headed(of, s, s.settings, k)), ar, gs, qd))
                 /\ HasSettings(gs, k, s.settings)
    <3>1. HeadDone(tail, st, ar, of, s, fs, rd)  BY <1>1, <1>3, <1>12, HeadRead DEF IsPlain
    <3> QED  BY <3>1 DEF HeadDone, su
  <2>5. /\ gs \in Seq(EntrySet) /\ qd \in SUBSET Spots(gs) /\ Len(es) <= Len(fs)
        /\ Waiting(gs, qd) = Waiting(es, pd) \cup Behind(es, fs, {d})
    <3>0. IsSaved(s) /\ of \in Objects  BY <1>1, <1>2
    <3>1. WaitsAlike(of, fs, rd, gs, qd)  BY <3>0, HeadWaitsAlike
    <3> HIDE DEF gs, qd
    <3>2. /\ gs \in Seq(EntrySet) /\ qd \in SUBSET Spots(gs)
          /\ Waiting(gs, qd) = Waiting(fs, rd) \cup Behind(fs, gs, Depths(of))
      BY <3>1 DEF WaitsAlike
    <3>3. Behind(fs, gs, {}) = {}  BY DEF Behind
    <3>4. Len(es) <= Len(fs)  BY <1>5, <2>3, AddsKeep
    <3> QED  BY <1>3, <2>3, <3>2, <3>3, <3>4
  <2>6. k \in Nat  BY <2>4 DEF HasSettings
  <2> DEFINE o == Headed(of, s, s.settings, k)
  <2>7. o \in Objects /\ o.entry = k /\ o.settings = s.settings /\ o.name = s.name
    <3>1. of \in Objects /\ IsSaved(s)  BY <1>1, <1>2
    <3> QED  BY <2>6, <3>1, HeadedTyped
  <2> DEFINE ks == WithParent(gs, qd, o, d)
  <2>8. /\ ks = Add(Adopted(fs, Len(es), p), h)
        /\ ks \in Seq(EntrySet) /\ qd \in SUBSET Spots(ks)
        /\ Waiting(ks, qd) = Waiting(es, pd)
    <3>0. IsSaved(s) /\ of \in Objects  BY <1>1, <1>2
    <3>1. Patchable(es, fs, pd, gs, qd, d)  BY <2>1, <2>5 DEF Patchable
    <3>2. IsPatched(es, fs, pd, h, qd, p, ks)
      <4> HIDE DEF qd, o
      <4> QED  BY <1>4, <2>5, <2>7, <3>0, <3>1, PatchedAll
    <3> HIDE DEF h, gs, qd, o, ks, p
    <3> QED  BY <3>2 DEF IsPatched
  <2>9. Adds(es, hs \o <<h>>, ks)
    <3> DEFINE bs == Adopted(fs, Len(es), p)
    <3>1. Adds(es, hs, bs)  BY <1>1, <1>5, <2>3, AddsAdopted
    <3> HIDE DEF bs, h
    <3>2. Adds(bs, <<h>>, Add(bs, h))  BY AddsOne
    <3>3. <<h>> \in Seq(EntrySet)  BY <1>6
    <3>4. ks = Add(bs, h)  BY <2>8 DEF bs
    <3> QED  BY <1>5, <3>1, <3>2, <3>3, <3>4, AddsBoth
  <2> HIDE DEF h, gs, qd, o
  <2>10. Does(text, State(Append(st, OpenedIn(ar)), ar, es, pd), State(Append(st, o), ar, gs, qd))
    <3>1. Does(tail, State(su, ar, fs, rd), State(Append(st, o), ar, gs, qd))  BY <2>4 DEF o
    <3>2. Does(front \o tail, State(su, ar, es, pd), State(Append(st, o), ar, gs, qd))
      BY <1>9, <1>11, <2>3, <3>1, DoesBoth
    <3> QED  BY <1>7, <1>13, <3>2 DEF IsPlain
  <2>11. WithParent(IF o.settings = None THEN gs ELSE WithSettings(gs, o, o.settings), qd, o, Len(st) + 1) = ks
    <3>1. HasSettings(gs, o.entry, o.settings)  BY <2>4, <2>7
    <3>2. (IF o.settings = None THEN gs ELSE WithSettings(gs, o, o.settings)) = gs
      BY <3>1, SettingsKept
    <3> QED  BY <3>2 DEF d
  <2>12. /\ Does(Braced(text), State(st, ar, es, pd), State(st, ar, ks, qd))
         /\ Braced(text) \in Seq(Tokens)
    <3> HIDE DEF ks
    <3>1. /\ Does(Braced(text), State(st, ar, es, pd),
                 State(st, ar, WithParent(IF o.settings = None THEN gs ELSE WithSettings(gs, o, o.settings),
                                          qd, o, Len(st) + 1), qd))
          /\ Braced(text) \in Seq(Tokens)
      BY <1>14, <2>7, <2>10, BracedDoes
    <3> QED  BY <2>11, <3>1
  <2>13. Waiting(ks, qd) = Waiting(es, pd) \cup Behind(es, ks, {})
    <3>1. Behind(es, ks, {}) = {}  BY DEF Behind
    <3> QED  BY <2>8, <3>1
  <2> HIDE DEF ks
  <2> QED  BY <2>8, <2>9, <2>12, <2>13 DEF ListsFrom
<1>16. Lists(Braced(text), st, ar, {}, hs \o <<h>>)  BY <1>15 DEF Lists
<1>17. Braced(text) \in Seq(Tokens)
  <2>1. <<Token("{", Empty)>> \in Seq(Tokens) /\ <<Token("}", Empty)>> \in Seq(Tokens)  BY TokensTyped
  <2> QED  BY <1>14, <2>1, ConcatProperties DEF Braced
<1> QED  BY <1>3, <1>16, <1>17 DEF hs, text

\* A source, and what the collection holds of it.
LEMMA SourceLists ==
  ASSUME NEW st \in Seq(Objects), NEW ar \in Seq(Arrays), NEW of, IsPlain(of, ar),
         NEW s, SavedSource(s)
  PROVE  /\ Lists(SourceText(s), st, ar, {}, SourceHolds(s)) /\ SourceText(s) \in Seq(Tokens)
         /\ SourceHolds(s) \in Seq(EntrySet)
<1> DEFINE a == Names(s) \o Body(s) \o Clutter \o FiltersText(s)  z == FiltersText(s) \o Body(s) \o NamesBehind(s)
           h == Held(s, "source", Empty)  hs == FiltersOf(s, s.name)
<1>1. /\ Lists(Braced(a), st, ar, {}, <<h>> \o hs) /\ Braced(a) \in Seq(Tokens)
      /\ Lists(Braced(z), st, ar, {}, hs \o <<h>>) /\ Braced(z) \in Seq(Tokens)
  <2> DEFINE x == a  y == z
  <2>1. x = Names(s) \o Body(s) \o Clutter \o FiltersText(s) /\ y = FiltersText(s) \o Body(s) \o NamesBehind(s)  OBVIOUS
  <2> HIDE DEF x, y
  <2>2. Lists(Braced(x), st, ar, {}, <<h>> \o hs) /\ Braced(x) \in Seq(Tokens)
    BY <2>1, SourceNamedFirst
  <2>3. Lists(Braced(y), st, ar, {}, hs \o <<h>>) /\ Braced(y) \in Seq(Tokens)
    <3>1. /\ Lists(Braced(FiltersText(s) \o Body(s) \o NamesBehind(s)), st, ar, {}, hs \o <<h>>)
          /\ Braced(FiltersText(s) \o Body(s) \o NamesBehind(s)) \in Seq(Tokens)
      BY SourceNamedLast
    <3> QED  BY <2>1, <3>1
  <2> QED  BY <2>2, <2>3 DEF x, y
<1>2. hs = FiltersHeld(s)  BY DEF FiltersOf, FiltersHeld
<1>3. SourceText(s) = IF s.nameFirst THEN Braced(a) ELSE Braced(z)  BY Zenon DEF SourceText
<1>4. SourceHolds(s) = IF s.nameFirst THEN <<h>> \o hs ELSE hs \o <<h>>  BY <1>2, Zenon DEF SourceHolds
<1>5. <<h>> \o hs \in Seq(EntrySet) /\ hs \o <<h>> \in Seq(EntrySet)
  <2>1. IsSaved(s) /\ s.name \in Labels  BY DEF SavedSource, IsSaved, Labels
  <2>2. hs \in Seq(EntrySet)  BY <2>1, FiltersTyped DEF SavedSource
  <2>3. h \in EntrySet  BY <2>1, StringsAssumption DEF Held, EntrySet, IsSaved, Labels, EntryKinds
  <2> HIDE DEF h, hs
  <2>4. <<h>> \in Seq(EntrySet)  BY <2>3
  <2> QED  BY <2>2, <2>4, ConcatProperties
<1> HIDE DEF a, z, h, hs
<1> QED  BY <1>1, <1>3, <1>4, <1>5, Zenon

-----------------------------------------------------------------------------
(* Transitions and scripts                                                 *)

\* A transition lists itself.
LEMMA TransitionLists ==
  ASSUME NEW st \in Seq(Objects), NEW ar \in Seq(Arrays), NEW of, of = OpenedIn(ar),
         of = Opened("transition", Empty, 0), NEW t, IsSaved(t)
  PROVE  /\ Lists(TransitionText(t), st, ar, {}, <<Held(t, "transition", Empty)>>)
         /\ TransitionText(t) \in Seq(Tokens) /\ Held(t, "transition", Empty) \in EntrySet
<1>1. of.kind = "transition" /\ of.parent = Empty /\ of.depth = 0  BY DEF Opened
<1>2. of \in Objects /\ Len(st) \in Nat  BY OpenedIs, LenProperties
<1>3. of.kind # "script" /\ of.depth <= Len(st) /\ Depths(of) = {}  BY <1>1, <1>2 DEF Depths, Waits
<1>4. Made(of, t, t.settings) = Held(t, "transition", Empty)  BY <1>1 DEF Made, Held
<1>5. /\ Lists(Braced(Names(t) \o Body(t) \o <<>>), st, ar, Depths(of), <<Made(of, t, t.settings)>>)
      /\ Braced(Names(t) \o Body(t) \o <<>>) \in Seq(Tokens)
  <2> DEFINE rest == <<>>
  <2>1. rest \in {<<>>, Clutter}  OBVIOUS
  <2> HIDE DEF rest
  <2>2. /\ Lists(Braced(Names(t) \o Body(t) \o rest), st, ar, Depths(of), <<Made(of, t, t.settings)>>)
        /\ Braced(Names(t) \o Body(t) \o rest) \in Seq(Tokens)
    BY <1>3, <2>1, ItemLists
  <2> QED  BY <2>2 DEF rest
<1>6. Names(t) \o Body(t) \o <<>> = Names(t) \o Body(t)
  <2> DEFINE n == Names(t) \o Body(t)
  <2>1. n \in Heads(t)  BY Zenon DEF Heads
  <2>2. n \in Seq(Tokens)  BY <2>1, HeadTexts
  <2> HIDE DEF n
  <2>3. n \o <<>> = n  BY <2>2, NothingBeside
  <2> QED  BY <2>3 DEF n
<1>7. TransitionText(t) = Braced(Names(t) \o Body(t))  BY DEF TransitionText
<1>8. Made(of, t, t.settings) \in EntrySet  BY <1>2, MadeTyped DEF IsSaved
<1> QED  BY <1>3, <1>4, <1>5, <1>6, <1>7, <1>8

\* The path tokens.
ScriptPaths == [sym : {"path"}, dir : STRING, val : Strings]

\* The entry of a script is always added.
LEMMA ScriptAdded ==
  ASSUME NEW es \in Seq(EntrySet), NEW pd \in SUBSET Spots(es), NEW v \in Strings, NEW fs, fs = Append(es, ScriptEntry(v))
  PROVE  /\ ScriptEntry(v) \in EntrySet /\ fs = Add(es, ScriptEntry(v))
         /\ fs \in Seq(EntrySet) /\ pd \in SUBSET Spots(fs) /\ Waiting(fs, pd) = Waiting(es, pd)
<1> DEFINE h == ScriptEntry(v)
<1>1. h \in EntrySet  BY StringsAssumption DEF ScriptEntry, EntrySet, Labels, EntryKinds
<1>2. h.module = Empty  BY DEF ScriptEntry
<1> HIDE DEF h
<1>3. fs = Add(es, h)  BY <1>2 DEF Add, h
<1>4. fs \in Seq(EntrySet) /\ Len(fs) = Len(es) + 1 /\ (\A i \in 1..Len(es) : fs[i] = es[i]) /\ Len(es) \in Nat
  BY <1>1, AppendProperties, LenProperties DEF h
<1>5. pd \in SUBSET Spots(fs)  BY <1>4 DEF Spots
<1>6. ASSUME NEW x \in pd PROVE fs[x[1]] = es[x[1]]  BY <1>4 DEF Spots
<1>7. Waiting(fs, pd) = Waiting(es, pd)  BY <1>6 DEF Waiting
<1> QED  BY <1>1, <1>3, <1>4, <1>5, <1>7 DEF h

\* A script lists itself, under the name of its file.
LEMMA ScriptLists ==
  ASSUME NEW st \in Seq(Objects), NEW ar \in Seq(Arrays), NEW of, of = OpenedIn(ar),
         of = Opened("script", Empty, 0), NEW path \in ScriptPaths
  PROVE  /\ Lists(ScriptText(path), st, ar, {}, <<ScriptEntry(path.val)>>)
         /\ ScriptText(path) \in Seq(Tokens) /\ ScriptEntry(path.val) \in EntrySet
<1> DEFINE x == Token("settings", AnySettings)  o == Marked(of, of.entry)
           p == Obj(o, o.name, o.id, o.emitted, AnySettings, o.entry)
<1>1. of \in Objects  BY OpenedIs
<1>2. of.kind = "script" /\ ~of.emitted /\ of.name = Empty /\ of.entry = 0  BY DEF Opened
<1>3. o \in Objects /\ o.entry = 0 /\ o.name = Empty
  <2>1. of.name \in Labels /\ of.id \in Strings /\ of.settings \in Settings \cup {None, AnySettings} /\ of.entry \in Nat
    BY <1>1 DEF Objects
  <2>2. Obj(of, of.name, of.id, TRUE, of.settings, of.entry) \in Objects  BY <1>1, <2>1, ObjTyped
  <2> QED  BY <1>2, <2>2 DEF Marked, Obj
<1> HIDE DEF o
<1>4. p \in Objects /\ p.entry = 0 /\ p.name = Empty
  <2>1. o.name \in Labels /\ o.id \in Strings /\ o.emitted \in BOOLEAN /\ o.entry \in Nat
    BY <1>3 DEF Objects
  <2>2. AnySettings \in Settings \cup {None, AnySettings}  OBVIOUS
  <2>3. Obj(o, o.name, o.id, o.emitted, AnySettings, o.entry) \in Objects  BY <1>3, <2>1, <2>2, ObjTyped
  <2> QED  BY <1>3, <2>3 DEF Obj
<1>5. path \in Tokens /\ x \in Tokens /\ path.sym = "path" /\ path.val \in Strings
  <2>1. path \in Tokens /\ path.sym = "path" /\ path.val \in Strings
    BY DEF ScriptPaths, Tokens, Symbols
  <2>2. x \in Tokens  BY DEF Token, Tokens, Symbols, AnySettings
  <2> QED  BY <2>1, <2>2
<1> HIDE DEF x
<1>6. <<path, x>> = <<path>> \o <<x>> /\ <<path>> \in Seq(Tokens) /\ <<x>> \in Seq(Tokens) /\ <<path, x>> \in Seq(Tokens)
  BY <1>5, Two
<1>7. ASSUME NEW es, NEW pd
      PROVE  Does(<<path, x>>, State(Append(st, of), ar, es, pd), State(Append(st, p), ar, Append(es, ScriptEntry(path.val)), pd))
  <2> DEFINE fs == Append(es, ScriptEntry(path.val))
  <2>1. Does(<<path>>, State(Append(st, of), ar, es, pd), State(Append(st, o), ar, fs, pd))
    BY <1>1, <1>2, <1>5, Scripting DEF o
  <2> HIDE DEF fs
  <2>2. Does(<<x>>, State(Append(st, o), ar, fs, pd), State(Append(st, p), ar, WithSettings(fs, o, AnySettings), pd))
    BY <1>3, Setting DEF x
  <2>3. WithSettings(fs, o, AnySettings) = fs  BY <1>3 DEF WithSettings
  <2>4. Does(<<path>> \o <<x>>, State(Append(st, of), ar, es, pd), State(Append(st, p), ar, fs, pd))
    BY <1>6, <2>1, <2>2, <2>3, DoesBoth
  <2> QED  BY <1>6, <2>4 DEF fs
<1> HIDE DEF p
<1>8. ASSUME NEW es, NEW pd, NEW fs, fs = Append(es, ScriptEntry(path.val))
      PROVE  Does(Braced(<<path, x>>), State(st, ar, es, pd), State(st, ar, fs, pd)) /\ Braced(<<path, x>>) \in Seq(Tokens)
  <2> DEFINE text == <<path, x>>
  <2>1. Does(text, State(Append(st, OpenedIn(ar)), ar, es, pd), State(Append(st, p), ar, fs, pd)) /\ text \in Seq(Tokens)
    BY <1>6, <1>7, <1>8
  <2> HIDE DEF text
  <2>2. /\ Does(Braced(text), State(st, ar, es, pd),
                State(st, ar, WithParent(IF p.settings = None THEN fs ELSE WithSettings(fs, p, p.settings),
                                         pd, p, Len(st) + 1), pd))
        /\ Braced(text) \in Seq(Tokens)
    BY <1>4, <2>1, BracedDoes
  <2>3. (IF p.settings = None THEN fs ELSE WithSettings(fs, p, p.settings)) = fs
    BY <1>4 DEF WithSettings
  <2>4. WithParent(fs, pd, p, Len(st) + 1) = fs  BY <1>4 DEF WithParent
  <2> QED  BY <2>2, <2>3, <2>4 DEF text
<1>9. ScriptText(path) = Braced(<<path, x>>)  BY DEF ScriptText, x, AnySettings
<1> DEFINE h == ScriptEntry(path.val)  text == Braced(<<path, x>>)
<1>10. ASSUME NEW es \in Seq(EntrySet), NEW pd \in SUBSET Spots(es)
       PROVE  ListsFrom(text, st, ar, {}, <<h>>, es, pd) /\ text \in Seq(Tokens) /\ h \in EntrySet
  <2> DEFINE fs == Append(es, h)
  <2>1. fs = Append(es, ScriptEntry(path.val))  OBVIOUS
  <2> HIDE DEF fs
  <2>2. Does(text, State(st, ar, es, pd), State(st, ar, fs, pd)) /\ text \in Seq(Tokens)  BY <1>8, <2>1
  <2>3. /\ h \in EntrySet /\ fs = Add(es, h) /\ fs \in Seq(EntrySet)
        /\ pd \in SUBSET Spots(fs) /\ Waiting(fs, pd) = Waiting(es, pd)
    <3> DEFINE v == path.val
    <3>1. v \in Strings /\ fs = Append(es, ScriptEntry(v)) /\ h = ScriptEntry(v)  BY <1>5, <2>1
    <3> HIDE DEF v, h
    <3> QED  BY <3>1, ScriptAdded
  <2> HIDE DEF text, h
  <2>4. Adds(es, <<h>>, fs)  BY <2>3, AddsOne
  <2>5. Waiting(fs, pd) = Waiting(es, pd) \cup Behind(es, fs, {})
    <3>1. Behind(es, fs, {}) = {}  BY DEF Behind
    <3> QED  BY <2>3, <3>1
  <2> QED  BY <2>2, <2>3, <2>4, <2>5 DEF ListsFrom
<1> HIDE DEF text, h
<1>11. Lists(text, st, ar, {}, <<h>>)  BY <1>10 DEF Lists
<1>12. <<>> \in Seq(EntrySet) /\ {} \in SUBSET Spots(<<>>)  OBVIOUS
<1>13. text \in Seq(Tokens) /\ h \in EntrySet  BY <1>10, <1>12
<1> QED  BY <1>9, <1>11, <1>13 DEF text, h

-----------------------------------------------------------------------------
(* The parts of a collection                                               *)

\* What is in an object without a name, at the top or in it.
LEMMA BracedLists ==
  ASSUME NEW st \in Seq(Objects), NEW ar \in Seq(Arrays), NEW text \in Seq(Tokens), NEW hs,
         Lists(text, Append(st, OpenedIn(ar)), ar, {}, hs)
  PROVE  Lists(Braced(text), st, ar, {}, hs) /\ Braced(text) \in Seq(Tokens)
<1> DEFINE o == OpenedIn(ar)  su == Append(st, o)
<1>1. o \in Objects /\ o.name = Empty /\ o.settings = None  BY OpenedIs
<1>2. Len(su) = Len(st) + 1 /\ Len(st) \in Nat  BY <1>1, AppendProperties, LenProperties
<1>3. o = OpenedIn(ar) /\ su = Append(st, o)  OBVIOUS
<1>4. Lists(text, su, ar, {}, hs)  OBVIOUS
<1> HIDE DEF o, su
<1>5. ASSUME NEW es \in Seq(EntrySet), NEW pd \in SUBSET Spots(es), Shallow(es, pd, Len(st))
      PROVE  ListsFrom(Braced(text), st, ar, {}, hs, es, pd)
  <2>1. Shallow(es, pd, Len(su))
    <3>1. \A y \in Waiting(es, pd) : y[2] <= Len(st)  BY <1>5 DEF Shallow
    <3>2. \A y \in Waiting(es, pd) : y[2] \in Nat  BY DEF Waiting, Spots
    <3> QED  BY <1>2, <3>1, <3>2 DEF Shallow
  <2>2. ListsFrom(text, su, ar, {}, hs, es, pd)  BY <1>4, <2>1 DEF Lists
  <2>3. PICK fs \in Seq(EntrySet) : \E qd \in SUBSET Spots(fs) :
             /\ Does(text, State(su, ar, es, pd), State(su, ar, fs, qd))
             /\ Adds(es, hs, fs)
             /\ Waiting(fs, qd) = Waiting(es, pd) \cup Behind(es, fs, {})
    BY <2>2 DEF ListsFrom
  <2>4. PICK qd \in SUBSET Spots(fs) :
             /\ Does(text, State(su, ar, es, pd), State(su, ar, fs, qd))
             /\ Adds(es, hs, fs)
             /\ Waiting(fs, qd) = Waiting(es, pd) \cup Behind(es, fs, {})
    BY <2>3
  <2>5. Does(text, State(Append(st, OpenedIn(ar)), ar, es, pd), State(Append(st, o), ar, fs, qd))
    BY <1>3, <2>4
  <2>6. Does(Braced(text), State(st, ar, es, pd),
             State(st, ar, WithParent(IF o.settings = None THEN fs ELSE WithSettings(fs, o, o.settings),
                                      qd, o, Len(st) + 1), qd))
    BY <1>1, <2>5, BracedDoes
  <2>7. WithParent(IF o.settings = None THEN fs ELSE WithSettings(fs, o, o.settings), qd, o, Len(st) + 1) = fs
    BY <1>1, Zenon DEF WithParent
  <2>8. Does(Braced(text), State(st, ar, es, pd), State(st, ar, fs, qd))  BY <2>6, <2>7
  <2> QED  BY <2>4, <2>8 DEF ListsFrom
<1>6. Lists(Braced(text), st, ar, {}, hs)  BY <1>5 DEF Lists
<1>7. Braced(text) \in Seq(Tokens)
  <2>1. <<Token("{", Empty)>> \in Seq(Tokens) /\ <<Token("}", Empty)>> \in Seq(Tokens)  BY TokensTyped
  <2> QED  BY <2>1, ConcatProperties DEF Braced
<1> QED  BY <1>6, <1>7

\* Texts, each of which lists its own.
EachLists(texts, holds, m, st, ar) ==
  /\ Len(texts) = m /\ Len(holds) = m
  /\ \A n \in 1..m : /\ texts[n] \in Seq(Tokens) /\ holds[n] \in Seq(EntrySet)
                     /\ Lists(texts[n], st, ar, {}, holds[n])

\* An array of objects, each of which lists its own.
LEMMA ArrayLists ==
  ASSUME NEW st \in Seq(Objects), NEW ar \in Seq(Arrays),
         NEW key \in {"filters", "sources", "transitions", "scripts-tool"},
         NEW br, br = Append(ar, ContextIn(st, key)), NEW m \in Nat, NEW texts, NEW holds,
         EachLists(texts, holds, m, st, br)
  PROVE  /\ Lists(Listed(key, Joined(texts)), st, ar, {}, Joined(holds))
         /\ Listed(key, Joined(texts)) \in Seq(Tokens) /\ Joined(holds) \in Seq(EntrySet)
<1>1. key \in ArrayKeys  BY DEF ArrayKeys
<1>2. ContextIn(st, key) \in Arrays /\ Len(st) \in Nat  BY <1>1, ContextTyped, LenProperties
<1> DEFINE w == {}
<1>3. w \in SUBSET (0..Len(st))  OBVIOUS
<1> HIDE DEF w
<1>4. /\ Joined(texts) \in Seq(Tokens) /\ Joined(holds) \in Seq(EntrySet)
      /\ Lists(Joined(texts), st, br, w, Joined(holds))
  BY <1>2, <1>3, ListsAll DEF w, EachLists
<1>5. Lists(Listed(key, Joined(texts)), st, ar, w, Joined(holds))  BY <1>2, <1>4, ListsArray
<1>6. Listed(key, Joined(texts)) \in Seq(Tokens)
  <2>1. <<Token("[", key)>> \in Seq(Tokens) /\ <<Token("]", Empty)>> \in Seq(Tokens)  BY TokensTyped
  <2> QED  BY <1>4, <2>1, ConcatProperties DEF Listed
<1> QED  BY <1>4, <1>5, <1>6 DEF w

\* The innermost array has this key.
IsArray(br, key) == br \in Seq(Arrays) /\ \E a : a.key = key /\ OpenedIn(br) = InArray(a)

\* So it has when it begins.
LEMMA ArrayOpens ==
  ASSUME NEW st \in Seq(Objects), NEW ar \in Seq(Arrays), NEW key \in ArrayKeys
  PROVE  IsArray(Append(ar, ContextIn(st, key)), key)
<1> DEFINE br == Append(ar, ContextIn(st, key))
<1> DEFINE c == ContextIn(st, key)
<1>1. c \in Arrays  BY ContextTyped
<1>2. c.key = key
  <2>1. CASE key = Empty \/ st = <<>>  BY <2>1 DEF ContextIn
  <2>2. CASE ~(key = Empty \/ st = <<>>)  BY <2>2 DEF ContextIn
  <2> QED  BY <2>1, <2>2
<1> HIDE DEF c
<1>3. br = Append(ar, c)  BY DEF c
<1>4. br \in Seq(Arrays) /\ br # <<>> /\ Innermost(br) = c  BY <1>1, <1>3, Pushed
<1>5. OpenedIn(br) = InArray(c)  BY <1>4 DEF OpenedIn
<1> QED  BY <1>2, <1>4, <1>5 DEF IsArray

\* An array of sources lists what each of them holds.
LEMMA SourcesListed ==
  ASSUME NEW st \in Seq(Objects), NEW ar \in Seq(Arrays), NEW seq \in Seq(SaveableSource),
         NEW texts, texts = [i \in DOMAIN seq |-> SourceText(seq[i])],
         NEW holds, holds = [i \in DOMAIN seq |-> SourceHolds(seq[i])]
  PROVE  /\ Lists(Listed("sources", Joined(texts)), st, ar, {}, Joined(holds))
         /\ Listed("sources", Joined(texts)) \in Seq(Tokens) /\ Joined(holds) \in Seq(EntrySet)
<1> DEFINE key == "sources"  m == Len(seq)
<1>1. key \in ArrayKeys /\ key \in {"filters", "sources", "transitions", "scripts-tool"}
  BY DEF ArrayKeys
<1> HIDE DEF key
<1> DEFINE br == Append(ar, ContextIn(st, key))
<1>7. br = Append(ar, ContextIn(st, key))  OBVIOUS
<1> HIDE DEF br
<1>2. br \in Seq(Arrays) /\ \E a : a.key = key /\ OpenedIn(br) = InArray(a)
  <2>1. IsArray(br, key)  BY <1>1, ArrayOpens, Zenon DEF br
  <2> QED  BY <2>1 DEF IsArray
<1> DEFINE of == OpenedIn(br)
<1>3. of = Opened("source", Empty, 0)  BY <1>2, Zenon DEF InArray, key
<1>4. IsPlain(of, br)  BY <1>3 DEF IsPlain, Opened
<1>5. DOMAIN seq = 1..m /\ m \in Nat  BY LenProperties
<1>6. Len(texts) = m /\ Len(holds) = m  BY <1>5
<1> HIDE DEF of
<1>8. ASSUME NEW i \in 1..m
      PROVE  /\ texts[i] \in Seq(Tokens) /\ holds[i] \in Seq(EntrySet)
             /\ Lists(texts[i], st, br, {}, holds[i])
  <2> DEFINE s == seq[i]
  <2>1. s \in SaveableSource  BY ElementOfSeq
  <2>2. texts[i] = SourceText(s) /\ holds[i] = SourceHolds(s)  BY <1>5
  <2> HIDE DEF s
  <2>3. SavedSource(s)  BY <2>1 DEF SavedSource, IsSaved, SaveableSource
  <2>4. /\ Lists(SourceText(s), st, br, {}, SourceHolds(s)) /\ SourceText(s) \in Seq(Tokens)
        /\ SourceHolds(s) \in Seq(EntrySet)
    BY <1>2, <1>4, <2>3, SourceLists DEF IsPlain
  <2> QED  BY <2>2, <2>4
<1>10. EachLists(texts, holds, m, st, br)  BY <1>6, <1>8, Zenon DEF EachLists
<1> HIDE DEF m
<1>9. /\ Lists(Listed(key, Joined(texts)), st, ar, {}, Joined(holds))
      /\ Listed(key, Joined(texts)) \in Seq(Tokens) /\ Joined(holds) \in Seq(EntrySet)
  BY <1>1, <1>5, <1>7, <1>10, ArrayLists
<1> QED  BY <1>9 DEF key

\* An array of transitions lists them.
LEMMA TransitionsListed ==
  ASSUME NEW st \in Seq(Objects), NEW ar \in Seq(Arrays), NEW seq \in Seq(Saveable),
         NEW texts, texts = [i \in DOMAIN seq |-> TransitionText(seq[i])],
         NEW hs, hs = [i \in DOMAIN seq |-> Held(seq[i], "transition", Empty)]
  PROVE  /\ Lists(Listed("transitions", Joined(texts)), st, ar, {}, hs)
         /\ Listed("transitions", Joined(texts)) \in Seq(Tokens) /\ hs \in Seq(EntrySet)
<1> DEFINE key == "transitions"  m == Len(seq)
           holds == [i \in 1..m |-> <<hs[i]>>]
<1>1. key \in ArrayKeys /\ key \in {"filters", "sources", "transitions", "scripts-tool"}
  BY DEF ArrayKeys
<1> HIDE DEF key
<1> DEFINE br == Append(ar, ContextIn(st, key))
<1>7. br = Append(ar, ContextIn(st, key))  OBVIOUS
<1> HIDE DEF br
<1>2. br \in Seq(Arrays) /\ \E a : a.key = key /\ OpenedIn(br) = InArray(a)
  <2>1. IsArray(br, key)  BY <1>1, ArrayOpens, Zenon DEF br
  <2> QED  BY <2>1 DEF IsArray
<1> DEFINE of == OpenedIn(br)
<1>3. of = Opened("transition", Empty, 0)  BY <1>2, Zenon DEF InArray, key
<1>5. DOMAIN seq = 1..m /\ m \in Nat  BY LenProperties
<1>6. Len(texts) = m  BY <1>5
<1>4. of = OpenedIn(br)  OBVIOUS
<1> HIDE DEF of
<1>8. ASSUME NEW i \in 1..m
      PROVE  /\ texts[i] \in Seq(Tokens) /\ hs[i] \in EntrySet
             /\ Lists(texts[i], st, br, {}, <<hs[i]>>)
  <2> DEFINE t == seq[i]
  <2>1. t \in Saveable  BY <1>5, ElementOfSeq
  <2>2. texts[i] = TransitionText(t) /\ hs[i] = Held(t, "transition", Empty)  BY <1>5
  <2> HIDE DEF t
  <2>3. IsSaved(t)  BY <2>1 DEF IsSaved, Saveable
  <2>4. /\ Lists(TransitionText(t), st, br, {}, <<Held(t, "transition", Empty)>>)
        /\ TransitionText(t) \in Seq(Tokens) /\ Held(t, "transition", Empty) \in EntrySet
    BY <1>2, <1>3, <1>4, <2>1, <2>3, TransitionLists
  <2> QED  BY <2>2, <2>4
<1>9. hs \in Seq(EntrySet)
  <2>1. hs = [i \in 1..m |-> hs[i]]  BY <1>5
  <2>2. hs \in [1..m -> EntrySet]  BY <1>8, <2>1
  <2> QED  BY <1>5, <2>2
<1>10. ASSUME NEW i \in 1..m PROVE holds[i] \in Seq(EntrySet) /\ holds[i] = <<hs[i]>>
  <2> DEFINE h == hs[i]
  <2>1. holds[i] = <<h>> /\ h \in EntrySet  BY <1>8
  <2> HIDE DEF h, holds
  <2>2. <<h>> \in Seq(EntrySet)  BY <2>1
  <2> QED  BY <2>1, <2>2 DEF h
<1>11. holds = [i \in DOMAIN hs |-> <<hs[i]>>]  BY <1>5
<1>12. Joined(holds) = hs  BY <1>9, <1>11, JoinedOnes
<1>16. Len(holds) = m  BY <1>5
<1> HIDE DEF holds, m
<1>13. \A i \in 1..m : /\ texts[i] \in Seq(Tokens) /\ holds[i] \in Seq(EntrySet)
                       /\ Lists(texts[i], st, br, {}, holds[i])
  BY <1>8, <1>10
<1>15. EachLists(texts, holds, m, st, br)  BY <1>6, <1>13, <1>16, Zenon DEF EachLists
<1>14. /\ Lists(Listed(key, Joined(texts)), st, ar, {}, Joined(holds))
       /\ Listed(key, Joined(texts)) \in Seq(Tokens) /\ Joined(holds) \in Seq(EntrySet)
  BY <1>1, <1>5, <1>7, <1>15, ArrayLists
<1> QED  BY <1>9, <1>12, <1>14 DEF key

\* An array of scripts lists them.
LEMMA ScriptsListed ==
  ASSUME NEW st \in Seq(Objects), NEW ar \in Seq(Arrays), NEW seq \in Seq(ScriptPaths),
         NEW texts, texts = [i \in DOMAIN seq |-> ScriptText(seq[i])],
         NEW hs, hs = [i \in DOMAIN seq |-> ScriptEntry(seq[i].val)]
  PROVE  /\ Lists(Listed("scripts-tool", Joined(texts)), st, ar, {}, hs)
         /\ Listed("scripts-tool", Joined(texts)) \in Seq(Tokens) /\ hs \in Seq(EntrySet)
<1> DEFINE key == "scripts-tool"  m == Len(seq)
           holds == [i \in 1..m |-> <<hs[i]>>]
<1>1. key \in ArrayKeys /\ key \in {"filters", "sources", "transitions", "scripts-tool"}
  BY DEF ArrayKeys
<1> HIDE DEF key
<1> DEFINE br == Append(ar, ContextIn(st, key))
<1>7. br = Append(ar, ContextIn(st, key))  OBVIOUS
<1> HIDE DEF br
<1>2. br \in Seq(Arrays) /\ \E a : a.key = key /\ OpenedIn(br) = InArray(a)
  <2>1. IsArray(br, key)  BY <1>1, ArrayOpens, Zenon DEF br
  <2> QED  BY <2>1 DEF IsArray
<1> DEFINE of == OpenedIn(br)
<1>3. of = Opened("script", Empty, 0)  BY <1>2, Zenon DEF InArray, key
<1>5. DOMAIN seq = 1..m /\ m \in Nat  BY LenProperties
<1>6. Len(texts) = m  BY <1>5
<1>4. of = OpenedIn(br)  OBVIOUS
<1> HIDE DEF of
<1>8. ASSUME NEW i \in 1..m
      PROVE  /\ texts[i] \in Seq(Tokens) /\ hs[i] \in EntrySet
             /\ Lists(texts[i], st, br, {}, <<hs[i]>>)
  <2> DEFINE t == seq[i]
  <2>1. t \in ScriptPaths  BY ElementOfSeq
  <2>2. texts[i] = ScriptText(t) /\ hs[i] = ScriptEntry(t.val)  BY <1>5
  <2> HIDE DEF t
  <2>4. /\ Lists(ScriptText(t), st, br, {}, <<ScriptEntry(t.val)>>)
        /\ ScriptText(t) \in Seq(Tokens) /\ ScriptEntry(t.val) \in EntrySet
    BY <1>2, <1>3, <1>4, <2>1, ScriptLists
  <2> QED  BY <2>2, <2>4
<1>9. hs \in Seq(EntrySet)
  <2>1. hs = [i \in 1..m |-> hs[i]]  BY <1>5
  <2>2. hs \in [1..m -> EntrySet]  BY <1>8, <2>1
  <2> QED  BY <1>5, <2>2
<1>10. ASSUME NEW i \in 1..m PROVE holds[i] \in Seq(EntrySet) /\ holds[i] = <<hs[i]>>
  <2> DEFINE h == hs[i]
  <2>1. holds[i] = <<h>> /\ h \in EntrySet  BY <1>8
  <2> HIDE DEF h, holds
  <2>2. <<h>> \in Seq(EntrySet)  BY <2>1
  <2> QED  BY <2>1, <2>2 DEF h
<1>11. holds = [i \in DOMAIN hs |-> <<hs[i]>>]  BY <1>5
<1>12. Joined(holds) = hs  BY <1>9, <1>11, JoinedOnes
<1>16. Len(holds) = m  BY <1>5
<1> HIDE DEF holds, m
<1>13. \A i \in 1..m : /\ texts[i] \in Seq(Tokens) /\ holds[i] \in Seq(EntrySet)
                       /\ Lists(texts[i], st, br, {}, holds[i])
  BY <1>8, <1>10
<1>15. EachLists(texts, holds, m, st, br)  BY <1>6, <1>13, <1>16, Zenon DEF EachLists
<1>14. /\ Lists(Listed(key, Joined(texts)), st, ar, {}, Joined(holds))
       /\ Listed(key, Joined(texts)) \in Seq(Tokens) /\ Joined(holds) \in Seq(EntrySet)
  BY <1>1, <1>5, <1>7, <1>15, ArrayLists
<1> QED  BY <1>9, <1>12, <1>14 DEF key

-----------------------------------------------------------------------------
(* A collection                                                            *)

\* The members of a collection behind its name.
Sources(c) == Listed("sources", Joined([i \in DOMAIN c.sources |-> SourceText(c.sources[i])]))
Transitions(c) == Listed("transitions", Joined([i \in DOMAIN c.transitions |-> TransitionText(c.transitions[i])]))
Scripts(c) == Listed("scripts-tool", Joined([i \in DOMAIN c.scripts |-> ScriptText(c.scripts[i])]))
Middle(c) == Sources(c) \o Transitions(c) \o Braced(Scripts(c))

\* The members of a collection list what it holds.
LEMMA MiddleLists ==
  ASSUME NEW c, Saved(c), NEW st \in Seq(Objects)
  PROVE  /\ Lists(Middle(c), st, <<>>, {}, CollectionHolds(c))
         /\ Middle(c) \in Seq(Tokens) /\ CollectionHolds(c) \in Seq(EntrySet)
         /\ Sources(c) \in Seq(Tokens) /\ Transitions(c) \in Seq(Tokens) /\ Braced(Scripts(c)) \in Seq(Tokens)
<1> DEFINE ar == <<>>
           a == Joined([i \in DOMAIN c.sources |-> SourceHolds(c.sources[i])])
           b == [i \in DOMAIN c.transitions |-> Held(c.transitions[i], "transition", Empty)]
           d == [i \in DOMAIN c.scripts |-> ScriptEntry(c.scripts[i].val)]
           w == {}
<1>1. ar \in Seq(Arrays)  OBVIOUS
<1> HIDE DEF ar
<1>2. Len(st) \in Nat /\ w \in SUBSET (0..Len(st))  BY LenProperties
<1>3. Lists(Sources(c), st, ar, w, a) /\ Sources(c) \in Seq(Tokens) /\ a \in Seq(EntrySet)
  <2> DEFINE seq == c.sources  texts == [i \in DOMAIN seq |-> SourceText(seq[i])]  holds == [i \in DOMAIN seq |-> SourceHolds(seq[i])]
  <2>1. seq \in Seq(SaveableSource)  BY DEF Saved
  <2>2. texts = [i \in DOMAIN seq |-> SourceText(seq[i])] /\ holds = [i \in DOMAIN seq |-> SourceHolds(seq[i])]  OBVIOUS
  <2>3. Sources(c) = Listed("sources", Joined(texts)) /\ a = Joined(holds)  BY DEF Sources
  <2> HIDE DEF seq, texts, holds, a
  <2>4. /\ Lists(Listed("sources", Joined(texts)), st, ar, {}, Joined(holds))
        /\ Listed("sources", Joined(texts)) \in Seq(Tokens) /\ Joined(holds) \in Seq(EntrySet)
    BY <1>1, <2>1, <2>2, SourcesListed
  <2> QED  BY <2>3, <2>4
<1>4. Lists(Transitions(c), st, ar, w, b) /\ Transitions(c) \in Seq(Tokens) /\ b \in Seq(EntrySet)
  <2> DEFINE seq == c.transitions  texts == [i \in DOMAIN seq |-> TransitionText(seq[i])]
  <2>1. seq \in Seq(Saveable)  BY DEF Saved
  <2>2. texts = [i \in DOMAIN seq |-> TransitionText(seq[i])] /\ b = [i \in DOMAIN seq |-> Held(seq[i], "transition", Empty)]  OBVIOUS
  <2>3. Transitions(c) = Listed("transitions", Joined(texts))  BY DEF Transitions
  <2> HIDE DEF seq, texts, b
  <2>4. /\ Lists(Listed("transitions", Joined(texts)), st, ar, {}, b)
        /\ Listed("transitions", Joined(texts)) \in Seq(Tokens) /\ b \in Seq(EntrySet)
    BY <1>1, <2>1, <2>2, TransitionsListed
  <2> QED  BY <2>3, <2>4
<1>5. Lists(Braced(Scripts(c)), st, ar, w, d) /\ Braced(Scripts(c)) \in Seq(Tokens) /\ d \in Seq(EntrySet)
  <2> DEFINE seq == c.scripts  texts == [i \in DOMAIN seq |-> ScriptText(seq[i])]  su == Append(st, OpenedIn(ar))
  <2>1. seq \in Seq(ScriptPaths)  BY DEF Saved, ScriptPaths
  <2>2. texts = [i \in DOMAIN seq |-> ScriptText(seq[i])] /\ d = [i \in DOMAIN seq |-> ScriptEntry(seq[i].val)]  OBVIOUS
  <2>3. Scripts(c) = Listed("scripts-tool", Joined(texts))  BY DEF Scripts
  <2>4. su \in Seq(Objects)  BY <1>1, OpenedIs, AppendProperties
  <2>5. su = Append(st, OpenedIn(ar))  OBVIOUS
  <2> HIDE DEF seq, texts, d, su
  <2>6. /\ Lists(Listed("scripts-tool", Joined(texts)), su, ar, {}, d)
        /\ Listed("scripts-tool", Joined(texts)) \in Seq(Tokens) /\ d \in Seq(EntrySet)
    BY <1>1, <2>1, <2>2, <2>4, ScriptsListed
  <2>7. Lists(Scripts(c), Append(st, OpenedIn(ar)), ar, {}, d) /\ Scripts(c) \in Seq(Tokens)
    BY <2>3, <2>5, <2>6
  <2>8. Lists(Braced(Scripts(c)), st, ar, {}, d) /\ Braced(Scripts(c)) \in Seq(Tokens)
    BY <1>1, <2>7, BracedLists
  <2> QED  BY <2>6, <2>8
<1>6. CollectionHolds(c) = a \o b \o d  BY DEF CollectionHolds
<1> HIDE DEF a, b, d, w
<1>7. /\ Lists(Sources(c) \o Transitions(c), st, ar, w, a \o b)
      /\ Sources(c) \o Transitions(c) \in Seq(Tokens) /\ a \o b \in Seq(EntrySet)
  BY <1>2, <1>3, <1>4, ListsBoth, ConcatProperties
<1>8. /\ Lists(Middle(c), st, ar, w, CollectionHolds(c))
      /\ Middle(c) \in Seq(Tokens) /\ CollectionHolds(c) \in Seq(EntrySet)
  BY <1>2, <1>5, <1>6, <1>7, ListsBoth, ConcatProperties DEF Middle
<1> QED  BY <1>3, <1>4, <1>5, <1>8 DEF ar, w

\* The state at the first token; and: the walk through the text from there
\* leaves nothing open, and its entries are those of hs, added one by one.
Start == State(<<>>, <<>>, <<>>, {})
Listing(text, hs, fs) == Adds(<<>>, hs, fs) /\ \E qd : Does(text, Start, State(<<>>, <<>>, fs, qd))

\* The name of a collection is its first member.
NameToken == <<Token("name", "collection")>>

\* The text of a collection is its name and its members, in braces.
LEMMA TextParts ==
  ASSUME NEW c, Saved(c)
  PROVE  /\ NameToken \in Seq(Tokens) /\ Middle(c) \in Seq(Tokens) /\ NameToken \o Middle(c) \in Seq(Tokens)
         /\ CollectionText(c) = Braced(NameToken \o Middle(c))
<1> DEFINE n == NameToken  s == Sources(c)  t == Transitions(c)  u == Braced(Scripts(c))
<1>1. n \in Seq(Tokens)  BY TokensTyped DEF NameToken, Labels
<1>2. <<>> \in Seq(Objects)  OBVIOUS
<1>3. s \in Seq(Tokens) /\ t \in Seq(Tokens) /\ u \in Seq(Tokens) /\ Middle(c) \in Seq(Tokens)
  BY <1>2, MiddleLists
<1>4. n \o s \o t \o u = n \o (s \o t \o u)
  <2> HIDE DEF n, s, t, u
  <2>1. n \in Seq(Tokens) /\ s \in Seq(Tokens) /\ t \in Seq(Tokens)  BY <1>1, <1>3
  <2>2. (n \o s) \o t = n \o (s \o t)  BY <2>1, ConcatAssociative
  <2> DEFINE v == s \o t
  <2>3. (n \o s) \o t = n \o v  BY <2>2
  <2>4. v \in Seq(Tokens)  BY <2>1, ConcatProperties
  <2> HIDE DEF v
  <2>5. n \in Seq(Tokens) /\ v \in Seq(Tokens) /\ u \in Seq(Tokens)  BY <1>3, <2>1, <2>4
  <2>6. (n \o v) \o u = n \o (v \o u)  BY <2>5, ConcatAssociative
  <2> QED  BY <2>3, <2>6 DEF v
<1>5. CollectionText(c) = Braced(n \o s \o t \o u)
  BY DEF CollectionText, NameToken, Sources, Transitions, Scripts
<1>6. Middle(c) = s \o t \o u  BY DEF Middle
<1> HIDE DEF n, s, t, u
<1>7. n \o Middle(c) \in Seq(Tokens)  BY <1>1, <1>3, ConcatProperties
<1> QED  BY <1>1, <1>3, <1>4, <1>5, <1>6, <1>7 DEF n

\* What is left of a text without its first token.
LEMMA TailOf ==
  ASSUME NEW T, NEW t \in T, NEW y \in Seq(T)
  PROVE  Tail(<<t>> \o y) = y
<1> DEFINE a == <<t>>  s == a \o y  z == Tail(s)
<1>1. a \in Seq(T) /\ Len(a) = 1 /\ Len(y) \in Nat  BY LenProperties
<1> HIDE DEF a
<1>2. /\ s \in Seq(T) /\ Len(s) = Len(a) + Len(y)
      /\ \A i \in 1..Len(a) + Len(y) : s[i] = IF i <= Len(a) THEN a[i] ELSE y[i - Len(a)]
  BY <1>1, ConcatProperties, Zenon
<1> HIDE DEF s
<1>3. Len(s) = 1 + Len(y) /\ \A i \in 1..Len(s) : s[i] = IF i <= 1 THEN a[i] ELSE y[i - 1]
  BY <1>1, <1>2
<1>4. s # <<>>  BY <1>1, <1>3
<1>5. z \in Seq(T) /\ Len(z) = Len(s) - 1 /\ \A i \in 1..Len(z) : z[i] = s[i + 1]
  <2>1. z \in Seq(T) /\ Len(z) = Len(s) - 1  BY <1>2, <1>4, HeadTailProperties
  <2> QED  BY <1>2, <1>4, <2>1, HeadTailProperties
<1> HIDE DEF z
<1>6. Len(z) = Len(y)  BY <1>1, <1>3, <1>5
<1>7. ASSUME NEW i \in 1..Len(z) PROVE z[i] = y[i]
  <2>1. i + 1 \in 1..Len(s) /\ ~(i + 1 <= 1) /\ (i + 1) - 1 = i  BY <1>1, <1>3, <1>6
  <2> QED  BY <1>3, <1>5, <2>1
<1> QED  BY <1>5, <1>6, <1>7, SeqEqual DEF z, s, a

\* The walk through a whole file.
LEMMA WholeFound ==
  ASSUME NEW c, Saved(c)
  PROVE  \E fs : Listing(CollectionText(c), CollectionHolds(c), fs)
<1> DEFINE none == <<>>  of == OpenedIn(none)  o == Obj(of, "collection", of.id, of.emitted, of.settings, of.entry)
           st == Append(none, o)  pd == {}  hs == CollectionHolds(c)
<1>1. none \in Seq(Objects) /\ none \in Seq(Arrays) /\ none \in Seq(EntrySet) /\ Len(none) = 0  OBVIOUS
<1>2. pd \in SUBSET Spots(none)  OBVIOUS
<1>20. Waiting(none, pd) = {}  BY DEF Waiting
<1>3. none = <<>> /\ pd = {}  OBVIOUS
<1> HIDE DEF none, pd
<1>4. of \in Objects /\ of.settings = None /\ of = Obj(of, Empty, Empty, FALSE, None, 0)
  BY <1>1, OpenedIs
<1>5. of.id = Empty
  <2>1. Obj(of, Empty, Empty, FALSE, None, 0).id = Empty  BY DEF Obj
  <2> QED  BY <1>4, <2>1, Zenon
<1>6. o \in Objects /\ o.settings = None /\ o.id = Empty
  <2>1. of.id \in Strings /\ of.emitted \in BOOLEAN /\ of.settings \in Settings \cup {None, AnySettings} /\ of.entry \in Nat
    BY <1>4 DEF Objects
  <2>2. "collection" \in Labels  BY DEF Labels
  <2>3. o \in Objects  BY <1>4, <2>1, <2>2, ObjTyped
  <2>4. o.settings = of.settings /\ o.id = of.id  BY DEF Obj
  <2> QED  BY <1>4, <1>5, <2>3, <2>4
<1> DEFINE s0 == State(Append(none, of), none, none, pd)
<1>7. Does(NameToken, s0, State(st, none, none, pd))
  <2> DEFINE p == Append(none, of)
  <2>1. Does(NameToken, s0, ReadIn(s0, o))  BY <1>1, <1>4, Naming DEF NameToken
  <2>2. WithInnermost(p, o) = st
    <3>1. none \in Seq(Objects) /\ of \in Objects /\ o \in Objects  BY <1>1, <1>4, <1>6
    <3> HIDE DEF of, o
    <3> QED  BY <3>1, Pushed
  <2>3. s0.stack = p /\ s0.arrays = none /\ s0.entries = none /\ s0.pending = pd  BY DEF State
  <2>4. ~Complete(o)  BY <1>6 DEF Complete
  <2> HIDE DEF s0, p, o, st
  <2>5. ReadIn(s0, o) = State(st, none, none, pd)  BY <2>2, <2>3, <2>4 DEF ReadIn
  <2> QED  BY <2>1, <2>5
<1>8. st \in Seq(Objects)  BY <1>1, <1>6, AppendProperties
<1>9. Lists(Middle(c), st, none, {}, hs) /\ hs \in Seq(EntrySet)  BY <1>3, <1>8, MiddleLists
<1> HIDE DEF of, o, st, hs
<1>10. Shallow(none, pd, Len(st))  BY <1>20 DEF Shallow
<1>11. ListsFrom(Middle(c), st, none, {}, hs, none, pd)  BY <1>1, <1>2, <1>9, <1>10 DEF Lists
<1>12. PICK fs \in Seq(EntrySet) : \E qd \in SUBSET Spots(fs) :
             /\ Does(Middle(c), State(st, none, none, pd), State(st, none, fs, qd))
             /\ Adds(none, hs, fs)
             /\ Waiting(fs, qd) = Waiting(none, pd) \cup Behind(none, fs, {})
  BY <1>11 DEF ListsFrom
<1>13. PICK qd \in SUBSET Spots(fs) :
             /\ Does(Middle(c), State(st, none, none, pd), State(st, none, fs, qd))
             /\ Adds(none, hs, fs)
             /\ Waiting(fs, qd) = Waiting(none, pd) \cup Behind(none, fs, {})
  BY <1>12
<1>14. Waiting(fs, qd) = {}
  <2>1. Behind(none, fs, {}) = {}  BY DEF Behind
  <2> QED  BY <1>13, <1>20, <2>1
<1> DEFINE text == NameToken \o Middle(c)
<1>15. text \in Seq(Tokens) /\ CollectionText(c) = Braced(text)  BY TextParts
<1>16. Does(text, State(Append(none, OpenedIn(none)), none, none, pd), State(Append(none, o), none, fs, qd))
  <2>1. Does(text, s0, State(st, none, fs, qd))  BY <1>7, <1>13, TextParts, DoesBoth
  <2> QED  BY <2>1 DEF st, of
<1> HIDE DEF text
<1>17. Does(Braced(text), State(none, none, none, pd),
            State(none, none, WithParent(IF o.settings = None THEN fs ELSE WithSettings(fs, o, o.settings),
                                         qd, o, Len(none) + 1), qd))
  BY <1>1, <1>6, <1>15, <1>16, BracedDoes
<1>18. WithParent(IF o.settings = None THEN fs ELSE WithSettings(fs, o, o.settings), qd, o, Len(none) + 1) = fs
  <2> DEFINE depth == Len(none) + 1
  <2> HIDE DEF depth
  <2>1. \A x \in Waiting(fs, qd) : x[2] # depth  BY <1>14
  <2>2. WithParent(fs, qd, o, depth) = fs  BY <2>1, Unpatched
  <2> QED  BY <1>6, <2>2 DEF depth
<1>19. Does(CollectionText(c), Start, State(<<>>, <<>>, fs, qd))  BY <1>3, <1>15, <1>17, <1>18 DEF Start
<1>21. Adds(<<>>, hs, fs)  BY <1>3, <1>13
<1>22. Listing(CollectionText(c), hs, fs)  BY <1>19, <1>21 DEF Listing
<1> QED  BY <1>22 DEF hs

\* The walk through a file that has lost its first brace.
LEMMA BeheadedFound ==
  ASSUME NEW c, Saved(c)
  PROVE  \E fs : Listing(Tail(CollectionText(c)), CollectionHolds(c), fs)
<1> DEFINE none == <<>>  pd == {}  hs == CollectionHolds(c)
<1>1. none \in Seq(Objects) /\ none \in Seq(EntrySet)  OBVIOUS
<1>2. pd \in SUBSET Spots(none)  OBVIOUS
<1>20. Waiting(none, pd) = {}  BY DEF Waiting
<1>3. none = <<>> /\ pd = {}  OBVIOUS
<1> HIDE DEF none, pd
<1>4. Lists(Middle(c), none, none, {}, hs) /\ hs \in Seq(EntrySet)  BY <1>1, <1>3, MiddleLists
<1> HIDE DEF hs
<1>5. Shallow(none, pd, Len(none))  BY <1>20 DEF Shallow
<1>6. ListsFrom(Middle(c), none, none, {}, hs, none, pd)  BY <1>1, <1>2, <1>4, <1>5 DEF Lists
<1>7. PICK fs \in Seq(EntrySet) : \E qd \in SUBSET Spots(fs) :
             /\ Does(Middle(c), State(none, none, none, pd), State(none, none, fs, qd))
             /\ Adds(none, hs, fs)
             /\ Waiting(fs, qd) = Waiting(none, pd) \cup Behind(none, fs, {})
  BY <1>6 DEF ListsFrom
<1>8. PICK qd : Does(Middle(c), State(none, none, none, pd), State(none, none, fs, qd)) /\ Adds(none, hs, fs)
  BY <1>7
<1> DEFINE z == <<Token("}", Empty)>>  s == State(none, none, none, pd)  e == State(none, none, fs, qd)
<1>9. Does(NameToken, s, s)
  <2> DEFINE t == Token("name", "collection")
  <2>1. Does(<<t>>, s, StepOf(s, t))  BY DoesOne
  <2>2. t.sym = "name" /\ s.stack = <<>>  BY <1>3 DEF Token, State
  <2> HIDE DEF t, s
  <2>3. StepOf(s, t) = s  BY <2>2, SymbolsDiffer DEF StepOf
  <2> QED  BY <2>1, <2>3 DEF NameToken, t
<1>10. Does(z, e, e)
  <2> DEFINE t == Token("}", Empty)
  <2>1. Does(<<t>>, e, StepOf(e, t))  BY DoesOne
  <2>2. t.sym = "}" /\ e.stack = <<>>  BY <1>3 DEF Token, State
  <2> HIDE DEF t, e
  <2>3. StepOf(e, t) = e  BY <2>2, SymbolsDiffer DEF StepOf
  <2> QED  BY <2>1, <2>3 DEF t
<1>11. z \in Seq(Tokens)  BY TokensTyped
<1> DEFINE a == <<Token("{", Empty)>>  text == NameToken \o Middle(c)
<1>12. a \in Seq(Tokens)  BY TokensTyped
<1>13. text \in Seq(Tokens) /\ CollectionText(c) = a \o text \o z  BY TextParts DEF Braced
<1>14. Does(text \o z, s, e)
  <2> HIDE DEF z, s, e
  <2>1. NameToken \in Seq(Tokens) /\ Middle(c) \in Seq(Tokens)  BY TextParts
  <2>2. Does(Middle(c), s, e)  BY <1>8 DEF s, e
  <2> QED  BY <1>9, <1>10, <1>11, <2>1, <2>2, DoesThree
<1>15. Tail(CollectionText(c)) = text \o z
  <2> DEFINE t == Token("{", Empty)
  <2>1. a = <<t>> /\ t \in Tokens  BY DEF Token, Tokens, Symbols
  <2> HIDE DEF a, t, text, z
  <2>2. (a \o text) \o z = a \o (text \o z)  BY <1>11, <1>12, <1>13, ConcatAssociative
  <2>3. text \o z \in Seq(Tokens)  BY <1>11, <1>13, ConcatProperties
  <2> DEFINE y == text \o z
  <2>4. y \in Seq(Tokens)  BY <2>3
  <2> HIDE DEF y
  <2>5. Tail(<<t>> \o y) = y  BY <2>1, <2>4, TailOf
  <2> QED  BY <1>13, <2>1, <2>2, <2>5 DEF y
<1>16. Listing(Tail(CollectionText(c)), hs, fs)
  <2>1. Does(Tail(CollectionText(c)), Start, State(<<>>, <<>>, fs, qd))
    BY <1>3, <1>14, <1>15 DEF Start, s, e
  <2> QED  BY <1>3, <1>8, <2>1 DEF Listing
<1> QED  BY <1>16 DEF hs

-----------------------------------------------------------------------------
(* A collection whose objects give their keys in one order                 *)

\* A single entry repeats none.
LEMMA NoRepeatsOne == ASSUME NEW h PROVE NoRepeats(<<h>>)
<1>1. Len(<<h>>) = 1  OBVIOUS
<1>2. \A n \in 1..1 : ~(n # 1)  OBVIOUS
<1> QED  BY <1>1, <1>2 DEF NoRepeats

\* Two sequences without repetition, where the second begins otherwise.
LEMMA NoRepeatsBoth ==
  ASSUME NEW a \in Seq(EntrySet), NEW b \in Seq(EntrySet), NoRepeats(a), NoRepeats(b),
         a # <<>> /\ b # <<>> => Differ(a[Len(a)], b[1])
  PROVE  NoRepeats(a \o b)
<1> DEFINE c == a \o b
<1>1. /\ Len(a) \in Nat /\ Len(b) \in Nat /\ Len(c) = Len(a) + Len(b)
      /\ \A n \in 1..Len(c) : c[n] = IF n <= Len(a) THEN a[n] ELSE b[n - Len(a)]
  BY ConcatProperties, LenProperties
<1> HIDE DEF c
<1>2. ASSUME NEW n \in 1..Len(c), n # 1 PROVE Differ(c[n - 1], c[n])
  <2>1. n - 1 \in 1..Len(c)  BY <1>1, <1>2
  <2>2. CASE n <= Len(a)
    <3>1. c[n] = a[n] /\ c[n - 1] = a[n - 1] /\ n \in 1..Len(a)  BY <1>1, <2>1, <2>2
    <3> QED  BY <1>2, <3>1 DEF NoRepeats
  <2>3. CASE n = Len(a) + 1
    <3>1. c[n] = b[1] /\ c[n - 1] = a[Len(a)]  BY <1>1, <2>1, <2>3
    <3>2. Len(a) # 0 /\ Len(b) # 0  BY <1>1, <1>2, <2>3
    <3>3. a # <<>> /\ b # <<>>  BY <3>2, EmptySeq
    <3> QED  BY <3>1, <3>3
  <2>4. CASE n > Len(a) + 1
    <3> DEFINE k == n - Len(a)
    <3>1. k \in 1..Len(b) /\ k # 1 /\ (n - 1) - Len(a) = k - 1  BY <1>1, <2>4
    <3>2. ~(n <= Len(a)) /\ ~(n - 1 <= Len(a))  BY <1>1, <2>4
    <3>3. c[n] = b[k] /\ c[n - 1] = b[k - 1]  BY <1>1, <2>1, <3>1, <3>2
    <3> HIDE DEF k
    <3> QED  BY <3>1, <3>3 DEF NoRepeats
  <2> QED  BY <1>1, <2>2, <2>3, <2>4
<1> QED  BY <1>2 DEF NoRepeats, c

\* An entry of its own of a source.
IsSelf(h, s) == h.label = s.name /\ h.module = s.id

\* The entries of a source: the source at one end, one of its filters at the
\* other, unless it has none.
EndsRight(hs, s, ids) ==
  /\ hs \in Seq(EntrySet) /\ Len(hs) # 0 /\ NoRepeats(hs)
  /\ \A i \in 1..Len(hs) : hs[i].module = s.id \/ hs[i].module \in ids
  /\ IsSelf(hs[1], s) \/ (~s.nameFirst /\ hs[1].module \in ids)
  /\ IsSelf(hs[Len(hs)], s) \/ (s.nameFirst /\ hs[Len(hs)].module \in ids)

\* The filters of a source differ by their names.
LEMMA FiltersDiffer ==
  ASSUME NEW s, SavedSource(s), NamesDiffer(s.filters), NEW hs, hs = FiltersOf(s, s.name)
  PROVE  /\ hs \in Seq(EntrySet) /\ NoRepeats(hs) /\ Len(hs) \in Nat
         /\ \A i \in 1..Len(hs) : hs[i].module \in Ids(s.filters)
<1> DEFINE n == Len(s.filters)
<1>1. IsSaved(s) /\ s.filters \in Seq(Saveable) /\ s.name \in Labels
  BY DEF SavedSource, IsSaved, Labels
<1>2. /\ hs \in Seq(EntrySet) /\ Len(hs) = n
      /\ \A i \in 1..n : hs[i] = Held(s.filters[i], "filter", s.name)
  BY <1>1, FiltersTyped
<1>3. DOMAIN s.filters = 1..n /\ n \in Nat  BY <1>1, LenProperties
<1>4. \A i \in 1..n : hs[i].label = s.filters[i].name /\ hs[i].module = s.filters[i].id
  <2>1. \A e : Held(e, "filter", s.name).label = e.name /\ Held(e, "filter", s.name).module = e.id
    BY DEF Held
  <2> QED  BY <1>2, <2>1
<1>5. \A i \in 1..n : s.filters[i].id \in Ids(s.filters)  BY <1>3 DEF Ids
<1>6. ASSUME NEW i \in 1..Len(hs), i # 1 PROVE Differ(hs[i - 1], hs[i])
  <2>1. i \in 1..n /\ i - 1 \in 1..n /\ i - 1 # i  BY <1>2, <1>3, <1>6
  <2> DEFINE k == i - 1
  <2>2. k \in 1..n /\ i \in 1..n /\ k # i  BY <2>1
  <2> HIDE DEF k
  <2>3. s.filters[k].name # s.filters[i].name  BY <1>3, <2>2 DEF NamesDiffer
  <2>4. hs[k].label # hs[i].label  BY <1>4, <2>2, <2>3
  <2>5. Differ(hs[k], hs[i])  BY <2>4 DEF Differ
  <2> QED  BY <2>5 DEF k
<1>7. NoRepeats(hs)  BY <1>6 DEF NoRepeats
<1>8. \A i \in 1..Len(hs) : hs[i].module \in Ids(s.filters)  BY <1>2, <1>4, <1>5
<1> QED  BY <1>2, <1>3, <1>7, <1>8

\* What a source holds begins or ends with the source itself.
LEMMA SourceEnds ==
  ASSUME NEW s, SavedSource(s), NamesDiffer(s.filters), NEW ids, Ids(s.filters) \subseteq ids, s.id \notin ids
  PROVE  EndsRight(SourceHolds(s), s, ids)
<1> DEFINE h == Held(s, "source", Empty)  fs == FiltersOf(s, s.name)  m == Len(fs)  one == <<h>>
<1>1. /\ fs \in Seq(EntrySet) /\ NoRepeats(fs) /\ m \in Nat
      /\ \A i \in 1..m : fs[i].module \in ids
  <2>1. fs = FiltersOf(s, s.name)  OBVIOUS
  <2> HIDE DEF fs
  <2>2. /\ fs \in Seq(EntrySet) /\ NoRepeats(fs) /\ m \in Nat
        /\ \A i \in 1..Len(fs) : fs[i].module \in Ids(s.filters)
    BY <2>1, FiltersDiffer
  <2> QED  BY <2>2
<1>2. h \in EntrySet  BY StringsAssumption DEF Held, EntrySet, SavedSource, IsSaved, Labels, EntryKinds
<1>3. IsSelf(h, s)  BY DEF Held, IsSelf
<1>4. SourceHolds(s) = IF s.nameFirst THEN one \o fs ELSE fs \o one
  BY Zenon DEF SourceHolds, FiltersHeld, FiltersOf
<1> HIDE DEF h, fs
<1>5. one \in Seq(EntrySet) /\ Len(one) = 1 /\ one[1] = h /\ one # <<>>  BY <1>2
<1>6. NoRepeats(one)  BY NoRepeatsOne
<1> HIDE DEF one
<1>7. \A i \in 1..m : Differ(h, fs[i]) /\ Differ(fs[i], h)
  <2>1. h.module \notin ids  BY <1>3 DEF IsSelf
  <2> QED  BY <1>1, <2>1 DEF Differ
<1>8. fs # <<>> => m \in 1..m /\ 1 \in 1..m
  <2>1. fs # <<>> => m # 0  BY <1>1, EmptySeq
  <2> QED  BY <1>1, <2>1
<1>9. CASE s.nameFirst
  <2> DEFINE hs == one \o fs
  <2>1. hs \in Seq(EntrySet) /\ Len(hs) = 1 + m /\ \A i \in 1..Len(hs) : hs[i] = IF i <= 1 THEN one[i] ELSE fs[i - 1]
    <3>1. /\ hs \in Seq(EntrySet) /\ Len(hs) = Len(one) + Len(fs)
          /\ \A i \in 1..Len(hs) : hs[i] = IF i <= Len(one) THEN one[i] ELSE fs[i - Len(one)]
      BY <1>1, <1>5, ConcatProperties
    <3> QED  BY <1>5, <3>1
  <2>2. NoRepeats(hs)  BY <1>1, <1>5, <1>6, <1>7, <1>8, NoRepeatsBoth
  <2>9. SourceHolds(s) = hs  BY <1>4, <1>9
  <2> HIDE DEF hs
  <2>3. hs[1] = h  BY <1>1, <1>5, <2>1
  <2>4. ASSUME NEW i \in 1..Len(hs), i # 1 PROVE hs[i].module \in ids
    <3>1. i - 1 \in 1..m /\ hs[i] = fs[i - 1]  BY <1>1, <2>1, <2>4
    <3> QED  BY <1>1, <3>1
  <2>5. \A i \in 1..Len(hs) : hs[i].module = s.id \/ hs[i].module \in ids
    BY <1>3, <2>3, <2>4 DEF IsSelf
  <2>6. IsSelf(hs[Len(hs)], s) \/ (s.nameFirst /\ hs[Len(hs)].module \in ids)
    <3>1. Len(hs) = 1 \/ (Len(hs) # 1 /\ Len(hs) \in 1..Len(hs))  BY <1>1, <2>1
    <3> QED  BY <1>3, <1>9, <2>3, <2>4, <3>1
  <2>7. IsSelf(hs[1], s) /\ Len(hs) # 0  BY <1>1, <1>3, <2>1, <2>3
  <2> QED  BY <2>1, <2>2, <2>5, <2>6, <2>7, <2>9 DEF EndsRight
<1>10. CASE ~s.nameFirst
  <2> DEFINE hs == fs \o one
  <2>1. hs \in Seq(EntrySet) /\ Len(hs) = m + 1 /\ \A i \in 1..Len(hs) : hs[i] = IF i <= m THEN fs[i] ELSE one[i - m]
    <3>1. /\ hs \in Seq(EntrySet) /\ Len(hs) = Len(fs) + Len(one)
          /\ \A i \in 1..Len(hs) : hs[i] = IF i <= Len(fs) THEN fs[i] ELSE one[i - Len(fs)]
      BY <1>1, <1>5, ConcatProperties
    <3> QED  BY <1>5, <3>1
  <2>2. NoRepeats(hs)  BY <1>1, <1>5, <1>6, <1>7, <1>8, NoRepeatsBoth
  <2>9. SourceHolds(s) = hs  BY <1>4, <1>10
  <2> HIDE DEF hs
  <2>3. hs[Len(hs)] = h
    <3>1. Len(hs) \in 1..Len(hs) /\ ~(Len(hs) <= m) /\ Len(hs) - m = 1  BY <1>1, <2>1
    <3> QED  BY <1>5, <2>1, <3>1
  <2>4. ASSUME NEW i \in 1..Len(hs), i # Len(hs) PROVE hs[i].module \in ids
    <3>1. i \in 1..m /\ hs[i] = fs[i]  BY <1>1, <2>1, <2>4
    <3> QED  BY <1>1, <3>1
  <2>5. \A i \in 1..Len(hs) : hs[i].module = s.id \/ hs[i].module \in ids
    BY <1>3, <2>3, <2>4 DEF IsSelf
  <2>6. IsSelf(hs[1], s) \/ (~s.nameFirst /\ hs[1].module \in ids)
    <3>1. Len(hs) = 1 \/ (Len(hs) # 1 /\ 1 \in 1..Len(hs))  BY <1>1, <2>1
    <3> QED  BY <1>3, <1>10, <2>3, <2>4, <3>1
  <2>7. IsSelf(hs[Len(hs)], s) /\ Len(hs) # 0  BY <1>1, <1>3, <2>1, <2>3
  <2> QED  BY <2>1, <2>2, <2>5, <2>6, <2>7, <2>9 DEF EndsRight
<1> QED  BY <1>9, <1>10

\* The first sources, joined: what is last is of the last of them.
Ordered(f, seq, n, ids) ==
  /\ f \in Seq(EntrySet) /\ NoRepeats(f)
  /\ \A i \in 1..Len(f) : f[i].module \in Ids(seq) \cup ids
  /\ n = 0 => Len(f) = 0
  /\ n # 0 => IsSelf(f[Len(f)], seq[n]) \/ (seq[n].nameFirst /\ f[Len(f)].module \in ids)

\* Sources that give their keys in one order; ids are those of their filters.
OrderedSources(seq, ids) ==
  /\ Ids(seq) \cap ids = {} /\ NamesDiffer(seq)
  /\ \A i, j \in DOMAIN seq : seq[i].nameFirst = seq[j].nameFirst

\* The next source: neighbours differ by their names or by their ids.
LEMMA OrderedNext ==
  ASSUME NEW seq, NEW m \in Nat, DOMAIN seq = 1..m, NEW ids, OrderedSources(seq, ids),
         NEW n \in 0..m, n # m, NEW f, Ordered(f, seq, n, ids), NEW hs, EndsRight(hs, seq[n + 1], ids)
  PROVE  Ordered(f \o hs, seq, n + 1, ids)
<1> DEFINE k == n + 1  s == seq[k]  g == f \o hs  l == Len(f)
<1>1. k \in 1..m /\ k # 0 /\ l \in Nat  BY LenProperties DEF Ordered
<1>2. s.id \in Ids(seq)  BY <1>1 DEF Ids
<1>3. /\ f \in Seq(EntrySet) /\ NoRepeats(f)
      /\ \A i \in 1..l : f[i].module \in Ids(seq) \cup ids
      /\ n = 0 => l = 0
      /\ n # 0 => IsSelf(f[l], seq[n]) \/ (seq[n].nameFirst /\ f[l].module \in ids)
  BY DEF Ordered
<1>4. /\ hs \in Seq(EntrySet) /\ Len(hs) # 0 /\ NoRepeats(hs)
      /\ \A i \in 1..Len(hs) : hs[i].module = s.id \/ hs[i].module \in ids
      /\ IsSelf(hs[1], s) \/ (~s.nameFirst /\ hs[1].module \in ids)
      /\ IsSelf(hs[Len(hs)], s) \/ (s.nameFirst /\ hs[Len(hs)].module \in ids)
  BY DEF EndsRight
<1>5. Len(hs) \in Nat  BY <1>4, LenProperties
<1>6. f # <<>> => Differ(f[l], hs[1])
  <2>1. SUFFICES ASSUME f # <<>> PROVE Differ(f[l], hs[1])  OBVIOUS
  <2>2. l # 0 /\ n # 0  BY <1>1, <1>3, <2>1, EmptySeq
  <2>3. n \in 1..m /\ n # k  BY <1>1, <2>2
  <2> DEFINE r == seq[n]
  <2>4. r.name # s.name /\ r.nameFirst = s.nameFirst /\ r.id \in Ids(seq)
    BY <1>1, <2>3 DEF OrderedSources, NamesDiffer, Ids
  <2>5. IsSelf(f[l], r) \/ (r.nameFirst /\ f[l].module \in ids)  BY <1>3, <2>2
  <2>6. Ids(seq) \cap ids = {}  BY DEF OrderedSources
  <2> HIDE DEF r, s
  <2>7. CASE IsSelf(f[l], r) /\ IsSelf(hs[1], s)  BY <2>4, <2>7 DEF IsSelf, Differ
  <2>8. CASE IsSelf(f[l], r) /\ hs[1].module \in ids  BY <2>4, <2>6, <2>8 DEF IsSelf, Differ
  <2>9. CASE f[l].module \in ids /\ IsSelf(hs[1], s)  BY <1>2, <2>6, <2>9 DEF IsSelf, Differ
  <2> QED  BY <1>4, <2>4, <2>5, <2>7, <2>8, <2>9
<1>7. /\ g \in Seq(EntrySet) /\ Len(g) = l + Len(hs)
      /\ \A i \in 1..Len(g) : g[i] = IF i <= l THEN f[i] ELSE hs[i - l]
  BY <1>3, <1>4, ConcatProperties
<1>8. NoRepeats(g)  BY <1>3, <1>4, <1>6, NoRepeatsBoth
<1> HIDE DEF g, s
<1>9. ASSUME NEW i \in 1..Len(g) PROVE g[i].module \in Ids(seq) \cup ids
  <2>1. CASE i <= l
    <3>1. i \in 1..l /\ g[i] = f[i]  BY <1>1, <1>7, <2>1
    <3> QED  BY <1>3, <3>1
  <2>2. CASE ~(i <= l)
    <3>1. i - l \in 1..Len(hs) /\ g[i] = hs[i - l]  BY <1>1, <1>5, <1>7, <2>2
    <3> QED  BY <1>2, <1>4, <3>1
  <2> QED  BY <2>1, <2>2
<1>10. g[Len(g)] = hs[Len(hs)]
  <2>1. Len(g) \in 1..Len(g) /\ ~(Len(g) <= l) /\ Len(g) - l = Len(hs)  BY <1>1, <1>4, <1>5, <1>7
  <2> QED  BY <1>7, <2>1
<1>11. Ordered(g, seq, k, ids)  BY <1>1, <1>4, <1>7, <1>8, <1>9, <1>10 DEF Ordered, s
<1> QED  BY <1>11 DEF g

\* All sources: no entry of theirs repeats its neighbour.
LEMMA SourcesOrdered ==
  ASSUME NEW seq, NEW m \in Nat, DOMAIN seq = 1..m, NEW ids, OrderedSources(seq, ids),
         NEW holds, Len(holds) = m, \A n \in 1..m : EndsRight(holds[n], seq[n], ids)
  PROVE  /\ Joined(holds) \in Seq(EntrySet) /\ NoRepeats(Joined(holds))
         /\ \A i \in 1..Len(Joined(holds)) : Joined(holds)[i].module \in Ids(seq) \cup ids
<1>1. PICK g : Joins(g, holds)  BY JoinedIs
<1>2. g[0] = <<>> /\ (\A n \in 1..m : g[n] = g[n - 1] \o holds[n]) /\ Joined(holds) = g[m]
  BY <1>1 DEF Joins
<1> DEFINE P(n) == Ordered(g[n], seq, n, ids)
           S == {n \in Nat : P(n)}
<1>3. P(0)
  <2> DEFINE none == <<>>
  <2>1. none \in Seq(EntrySet) /\ Len(none) = 0 /\ g[0] = none  BY <1>2
  <2> HIDE DEF none
  <2>2. \A i \in 1..Len(none) : FALSE  BY <2>1
  <2>3. NoRepeats(none)  BY <2>2 DEF NoRepeats
  <2> QED  BY <2>1, <2>2, <2>3 DEF Ordered
<1>4. ASSUME NEW n \in 0..m, n \in S, n # m PROVE n + 1 \in S
  <2>1. n + 1 \in 1..m /\ (n + 1) - 1 = n /\ n + 1 \in Nat  BY <1>4
  <2>2. g[n + 1] = g[n] \o holds[n + 1]  BY <1>2, <2>1
  <2>3. Ordered(g[n], seq, n, ids)  BY <1>4
  <2>4. EndsRight(holds[n + 1], seq[n + 1], ids)  BY <2>1
  <2>5. Ordered(g[n] \o holds[n + 1], seq, n + 1, ids)
    <3> DEFINE x == g[n]  y == holds[n + 1]
    <3>1. Ordered(x, seq, n, ids) /\ EndsRight(y, seq[n + 1], ids)  BY <2>3, <2>4
    <3> HIDE DEF x, y
    <3>2. Ordered(x \o y, seq, n + 1, ids)  BY <1>4, <3>1, OrderedNext
    <3> QED  BY <3>2 DEF x, y
  <2> QED  BY <2>1, <2>2, <2>5
<1>5. P(m)
  <2>1. 0 \in S  BY <1>3
  <2> HIDE DEF S
  <2>2. \A n \in 0..m : n \in S  BY <1>4, <2>1, Induction
  <2>3. m \in S  BY <2>2
  <2> QED  BY <2>3 DEF S
<1> QED  BY <1>2, <1>5, Zenon DEF Ordered

\* Transitions differ by their names.
LEMMA TransitionsDiffer ==
  ASSUME NEW seq \in Seq(Saveable), NamesDiffer(seq),
         NEW hs, hs = [i \in DOMAIN seq |-> Held(seq[i], "transition", Empty)]
  PROVE  hs \in Seq(EntrySet) /\ NoRepeats(hs) /\ \A i \in 1..Len(hs) : hs[i].module \in Ids(seq)
<1> DEFINE n == Len(seq)
<1>1. DOMAIN seq = 1..n /\ n \in Nat  BY LenProperties
<1>2. \A e : Held(e, "transition", Empty).label = e.name /\ Held(e, "transition", Empty).module = e.id
  BY DEF Held
<1>3. \A e \in Saveable : Held(e, "transition", Empty) \in EntrySet
  BY StringsAssumption DEF Held, EntrySet, Saveable, Labels, EntryKinds
<1>4. Len(hs) = n /\ \A i \in 1..n : hs[i] = Held(seq[i], "transition", Empty)  BY <1>1
<1>5. \A i \in 1..n : seq[i] \in Saveable  BY ElementOfSeq
<1>6. hs \in [1..n -> EntrySet]  BY <1>1, <1>3, <1>5
<1>7. hs \in Seq(EntrySet)  BY <1>1, <1>6
<1>8. \A i \in 1..n : hs[i].label = seq[i].name /\ hs[i].module = seq[i].id  BY <1>2, <1>4
<1>9. \A i \in 1..n : seq[i].id \in Ids(seq)  BY <1>1 DEF Ids
<1>10. ASSUME NEW i \in 1..Len(hs), i # 1 PROVE Differ(hs[i - 1], hs[i])
  <2> DEFINE k == i - 1
  <2>2. k \in 1..n /\ i \in 1..n /\ k # i  BY <1>1, <1>4, <1>10
  <2> HIDE DEF k
  <2>3. seq[k].name # seq[i].name  BY <1>1, <2>2 DEF NamesDiffer
  <2>4. hs[k].label # hs[i].label  BY <1>8, <2>2, <2>3
  <2>5. Differ(hs[k], hs[i])  BY <2>4 DEF Differ
  <2> QED  BY <2>5 DEF k
<1>11. NoRepeats(hs)  BY <1>10 DEF NoRepeats
<1> QED  BY <1>4, <1>7, <1>8, <1>9, <1>11

\* Scripts have no id, and repeat none.
LEMMA ScriptsDiffer ==
  ASSUME NEW seq \in Seq(ScriptPaths), NEW hs, hs = [i \in DOMAIN seq |-> ScriptEntry(seq[i].val)]
  PROVE  hs \in Seq(EntrySet) /\ NoRepeats(hs) /\ \A i \in 1..Len(hs) : hs[i].module = Empty
<1> DEFINE n == Len(seq)
<1>1. DOMAIN seq = 1..n /\ n \in Nat  BY LenProperties
<1>2. \A v \in Strings : ScriptEntry(v) \in EntrySet /\ ScriptEntry(v).module = Empty
  BY StringsAssumption DEF ScriptEntry, EntrySet, Labels, EntryKinds
<1>3. \A i \in 1..n : seq[i].val \in Strings
  <2>1. \A x \in ScriptPaths : x.val \in Strings  BY DEF ScriptPaths
  <2>2. \A i \in 1..n : seq[i] \in ScriptPaths  BY ElementOfSeq
  <2> QED  BY <2>1, <2>2
<1>4. Len(hs) = n /\ \A i \in 1..n : hs[i] = ScriptEntry(seq[i].val)  BY <1>1
<1>5. hs \in [1..n -> EntrySet]  BY <1>1, <1>2, <1>3
<1>6. hs \in Seq(EntrySet)  BY <1>1, <1>5
<1>7. \A i \in 1..n : hs[i].module = Empty  BY <1>2, <1>3, <1>4
<1>8. NoRepeats(hs)  BY <1>4, <1>7 DEF NoRepeats, Differ
<1> QED  BY <1>4, <1>6, <1>7, <1>8

\* Where all objects give their keys in one order no entry is like the one
\* before it.
LEMMA OneOrderDiffers ==
  ASSUME NEW c, Saved(c), OneOrder(c)
  PROVE  NoRepeats(CollectionHolds(c))
<1> DEFINE holds == [i \in DOMAIN c.sources |-> SourceHolds(c.sources[i])]
           a == Joined(holds)
           b == [i \in DOMAIN c.transitions |-> Held(c.transitions[i], "transition", Empty)]
           d == [i \in DOMAIN c.scripts |-> ScriptEntry(c.scripts[i].val)]
           ids == FilterIds(c)  seq == c.sources  m == Len(seq)
<1>1. seq \in Seq(SaveableSource) /\ OrderedSources(seq, ids)  BY DEF Saved, OneOrder, OrderedSources
<1>2. m \in Nat /\ DOMAIN seq = 1..m  BY <1>1, LenProperties
<1>3. Len(holds) = m /\ \A i \in 1..m : holds[i] = SourceHolds(seq[i])  BY <1>2
<1>4. \A i \in 1..m : NamesDiffer(seq[i].filters)  BY <1>2 DEF Saved
<1>5. \A i \in 1..m : Ids(seq[i].filters) \subseteq ids /\ seq[i].id \in Ids(seq)
  BY <1>2 DEF FilterIds, Ids
<1> HIDE DEF ids, seq, holds
<1>6. ASSUME NEW i \in 1..m PROVE EndsRight(holds[i], seq[i], ids)
  <2> DEFINE s == seq[i]
  <2>1. s \in SaveableSource  BY <1>1, ElementOfSeq
  <2>2. NamesDiffer(s.filters) /\ Ids(s.filters) \subseteq ids /\ s.id \in Ids(seq) /\ holds[i] = SourceHolds(s)
    BY <1>3, <1>4, <1>5
  <2>3. s.id \notin ids  BY <1>1, <2>2 DEF OrderedSources
  <2> HIDE DEF s
  <2>4. SavedSource(s)  BY <2>1 DEF SavedSource, IsSaved, SaveableSource
  <2>5. EndsRight(SourceHolds(s), s, ids)  BY <2>2, <2>3, <2>4, SourceEnds
  <2> QED  BY <2>2, <2>5 DEF s
<1>7. /\ a \in Seq(EntrySet) /\ NoRepeats(a)
      /\ \A i \in 1..Len(a) : a[i].module \in Ids(seq) \cup ids
  <2> HIDE DEF m
  <2> QED  BY <1>1, <1>2, <1>3, <1>6, SourcesOrdered
<1>8. /\ b \in Seq(EntrySet) /\ NoRepeats(b)
      /\ \A i \in 1..Len(b) : b[i].module \in Ids(c.transitions)
  <2> DEFINE ts == c.transitions
  <2>1. ts \in Seq(Saveable) /\ NamesDiffer(ts)
    BY DEF Saved
  <2>2. b = [i \in DOMAIN ts |-> Held(ts[i], "transition", Empty)]  OBVIOUS
  <2> HIDE DEF ts, b
  <2>3. b \in Seq(EntrySet) /\ NoRepeats(b) /\ \A i \in 1..Len(b) : b[i].module \in Ids(ts)
    BY <2>1, <2>2, TransitionsDiffer
  <2> QED  BY <2>3 DEF ts
<1>9. d \in Seq(EntrySet) /\ NoRepeats(d) /\ \A i \in 1..Len(d) : d[i].module = Empty
  <2> DEFINE ps == c.scripts
  <2>1. ps \in Seq(ScriptPaths)  BY DEF Saved, ScriptPaths
  <2>2. d = [i \in DOMAIN ps |-> ScriptEntry(ps[i].val)]  OBVIOUS
  <2> HIDE DEF ps, d
  <2> QED  BY <2>1, <2>2, ScriptsDiffer
<1>10. CollectionHolds(c) = a \o b \o d  BY DEF CollectionHolds, holds
<1>11. Ids(c.transitions) \cap (Ids(seq) \cup ids) = {}  BY DEF Saved, seq, ids
<1> HIDE DEF a, b, d
<1>12. \A x \in Seq(EntrySet) : Len(x) \in Nat /\ (x # <<>> => Len(x) \in 1..Len(x) /\ 1 \in 1..Len(x))
  <2>1. SUFFICES ASSUME NEW x \in Seq(EntrySet)
                 PROVE  Len(x) \in Nat /\ (x # <<>> => Len(x) \in 1..Len(x) /\ 1 \in 1..Len(x))
    OBVIOUS
  <2>2. Len(x) \in Nat /\ (x # <<>> => Len(x) # 0)  BY EmptySeq, LenProperties
  <2> QED  BY <2>2
<1>13. NoRepeats(a \o b) /\ a \o b \in Seq(EntrySet)
  <2>1. a # <<>> /\ b # <<>> => Differ(a[Len(a)], b[1])
    BY <1>7, <1>8, <1>11, <1>12 DEF Differ
  <2> QED  BY <1>7, <1>8, <2>1, NoRepeatsBoth, ConcatProperties
<1>14. NoRepeats((a \o b) \o d)
  <2> DEFINE x == a \o b
  <2>1. NoRepeats(x) /\ x \in Seq(EntrySet)  BY <1>13
  <2> HIDE DEF x
  <2>2. x # <<>> /\ d # <<>> => Differ(x[Len(x)], d[1])  BY <1>9, <1>12 DEF Differ
  <2>3. NoRepeats(x \o d)  BY <1>9, <2>1, <2>2, NoRepeatsBoth
  <2> QED  BY <2>3 DEF x
<1> QED  BY <1>10, <1>14

-----------------------------------------------------------------------------
(* What is found goes by names of its own                                  *)

\* A sequence of entries, and another one behind it.
LEMMA ApartBoth ==
  ASSUME NEW a \in Seq(EntrySet), NEW b \in Seq(EntrySet), Apart(a), Apart(b),
         \A i \in 1..Len(a), j \in 1..Len(b) : ~Clash(a[i], b[j])
  PROVE  Apart(a \o b)
<1> DEFINE c == a \o b  m == Len(a)  n == Len(b)
<1>1. /\ m \in Nat /\ n \in Nat /\ Len(c) = m + n
      /\ \A i \in 1..Len(c) : c[i] = IF i <= m THEN a[i] ELSE b[i - m]
  BY ConcatProperties, LenProperties
<1>2. \A g, h : Clash(g, h) => Clash(h, g)  BY DEF Clash
<1> HIDE DEF c, m, n
<1>3. ASSUME NEW i \in 1..Len(c), NEW j \in 1..Len(c), i # j PROVE ~Clash(c[i], c[j])
  <2>1. CASE i <= m /\ j <= m
    <3>1. i \in 1..m /\ j \in 1..m /\ c[i] = a[i] /\ c[j] = a[j]  BY <1>1, <2>1
    <3> QED  BY <1>3, <3>1 DEF Apart, m
  <2>2. CASE i <= m /\ ~(j <= m)
    <3>1. i \in 1..m /\ j - m \in 1..n /\ c[i] = a[i] /\ c[j] = b[j - m]  BY <1>1, <2>2
    <3> QED  BY <3>1 DEF m, n
  <2>3. CASE ~(i <= m) /\ j <= m
    <3>1. j \in 1..m /\ i - m \in 1..n /\ c[j] = a[j] /\ c[i] = b[i - m]  BY <1>1, <2>3
    <3> QED  BY <1>2, <3>1 DEF m, n
  <2>4. CASE ~(i <= m) /\ ~(j <= m)
    <3>1. i - m \in 1..n /\ j - m \in 1..n /\ i - m # j - m /\ c[i] = b[i - m] /\ c[j] = b[j - m]
      BY <1>1, <1>3, <2>4
    <3> QED  BY <3>1 DEF Apart, n
  <2> QED  BY <2>1, <2>2, <2>3, <2>4
<1>4. Apart(c)  BY <1>3 DEF Apart
<1> QED  BY <1>4 DEF c

\* One entry more.
LEMMA ApartAppended ==
  ASSUME NEW es \in Seq(EntrySet), NEW h \in EntrySet, Apart(es),
         \A i \in 1..Len(es) : ~Clash(es[i], h)
  PROVE  Apart(Append(es, h))
<1> DEFINE fs == Append(es, h)  m == Len(es)
<1>1. Len(fs) = m + 1 /\ fs[m + 1] = h /\ (\A i \in 1..m : fs[i] = es[i]) /\ m \in Nat
  BY AppendProperties, LenProperties
<1>2. \A g : Clash(g, h) <=> Clash(h, g)  BY DEF Clash
<1> HIDE DEF fs, m
<1>3. ASSUME NEW i \in 1..Len(fs), NEW j \in 1..Len(fs), i # j PROVE ~Clash(fs[i], fs[j])
  <2>1. CASE i \in 1..m /\ j \in 1..m
    <3>1. fs[i] = es[i] /\ fs[j] = es[j]  BY <1>1, <2>1
    <3> QED  BY <1>3, <2>1, <3>1 DEF Apart, m
  <2>2. CASE i \in 1..m /\ j = m + 1
    <3>1. fs[i] = es[i] /\ fs[j] = h  BY <1>1, <2>2
    <3> QED  BY <2>2, <3>1 DEF m
  <2>3. CASE i = m + 1 /\ j \in 1..m
    <3>1. fs[j] = es[j] /\ fs[i] = h  BY <1>1, <2>3
    <3> QED  BY <1>2, <2>3, <3>1 DEF m
  <2> QED  BY <1>1, <1>3, <2>1, <2>2, <2>3
<1>4. Apart(fs)  BY <1>3 DEF Apart
<1> QED  BY <1>4 DEF fs

\* What is added of entries that are apart is apart.
LEMMA AddsApart ==
  ASSUME NEW hs \in Seq(EntrySet), NEW fs, Adds(<<>>, hs, fs), Apart(hs)
  PROVE  Apart(fs)
<1>1. PICK tr : tr[0] = <<>> /\ (\A n \in 1..Len(hs) : tr[n] = Add(tr[n - 1], hs[n])) /\ tr[Len(hs)] = fs
  BY DEF Adds
<1>2. Len(hs) \in Nat  BY LenProperties
<1> DEFINE P(n, x) == /\ x \in Seq(EntrySet) /\ Apart(x)
                      /\ \A i \in 1..Len(x) : \E k \in 1..n : x[i] = hs[k]
           S == {n \in Nat : P(n, tr[n])}
<1>3. 0 \in S
  <2> DEFINE none == <<>>
  <2>1. none \in Seq(EntrySet) /\ Len(none) = 0 /\ tr[0] = none  BY <1>1
  <2> HIDE DEF none
  <2>2. \A i \in 1..Len(none) : FALSE  BY <2>1
  <2>3. Apart(none)  BY <2>2 DEF Apart
  <2> QED  BY <2>1, <2>2, <2>3
<1>4. ASSUME NEW n \in 0..Len(hs), n \in S, n # Len(hs) PROVE n + 1 \in S
  <2>1. n + 1 \in 1..Len(hs) /\ (n + 1) - 1 = n /\ n + 1 \in Nat  BY <1>2, <1>4
  <2> DEFINE x == tr[n]  y == tr[n + 1]  h == hs[n + 1]
  <2>2. h \in EntrySet  BY <2>1, ElementOfSeq
  <2>3. y = Add(x, h)  BY <1>1, <2>1
  <2>4. P(n, x)  BY <1>4
  <2>5. ASSUME NEW i \in 1..Len(x) PROVE ~Clash(x[i], h) /\ \E k \in 1..(n + 1) : x[i] = hs[k]
    <3>1. PICK k \in 1..n : x[i] = hs[k]  BY <2>4
    <3>2. k \in 1..Len(hs) /\ k # n + 1 /\ k \in 1..(n + 1)  BY <1>2, <2>1
    <3> QED  BY <2>1, <3>1, <3>2 DEF Apart
  <2> HIDE DEF x, y, h, S
  <2>6. ASSUME y = x PROVE P(n + 1, y)  BY <2>4, <2>5, <2>6
  <2>7. ASSUME y = Append(x, h) PROVE P(n + 1, y)
    <3>1. y \in Seq(EntrySet) /\ Len(y) = Len(x) + 1 /\ y[Len(x) + 1] = h /\ \A i \in 1..Len(x) : y[i] = x[i]
      BY <2>2, <2>4, <2>7, AppendProperties
    <3>2. Apart(y)  BY <2>2, <2>4, <2>5, <2>7, ApartAppended
    <3>3. Len(x) \in Nat  BY <2>4, LenProperties
    <3>4. ASSUME NEW i \in 1..Len(y) PROVE \E k \in 1..(n + 1) : y[i] = hs[k]
      <4>1. CASE i \in 1..Len(x)  BY <2>5, <3>1, <4>1
      <4>2. CASE i = Len(x) + 1
        <5>1. n + 1 \in 1..(n + 1) /\ y[i] = hs[n + 1]  BY <2>1, <3>1, <4>2 DEF h
        <5> QED  BY <5>1
      <4> QED  BY <3>1, <3>3, <4>1, <4>2
    <3> QED  BY <3>1, <3>2, <3>4
  <2>9. y = x \/ y = Append(x, h)  BY <2>3, Zenon DEF Add
  <2> HIDE DEF P
  <2>8. P(n + 1, y)  BY <2>6, <2>7, <2>9
  <2> QED  BY <2>1, <2>8 DEF S, y
<1>5. \A n \in 0..Len(hs) : n \in S
  <2> HIDE DEF S
  <2> QED  BY <1>2, <1>3, <1>4, Induction
<1>6. Len(hs) \in 0..Len(hs)  BY <1>2
<1>7. P(Len(hs), tr[Len(hs)])  BY <1>5, <1>6
<1> QED  BY <1>1, <1>7

\* The entry of a source or of one of its filters.
OfSource(h, s) ==
  /\ h.kind \in {"source", "filter"}
  /\ s.name = IF h.kind = "source" THEN h.label ELSE h.parent

\* Sources that have names of their own have entries that are apart.
LEMMA SourcesDoNotClash ==
  ASSUME NEW g, NEW h, NEW s, NEW t, OfSource(g, s), OfSource(h, t), s.name # t.name
  PROVE  ~Clash(g, h)
BY DEF OfSource, Clash

\* A source and its filters.
LEMMA SourceApart ==
  ASSUME NEW s, SavedSource(s), NamesDiffer(s.filters)
  PROVE  /\ SourceHolds(s) \in Seq(EntrySet) /\ Apart(SourceHolds(s))
         /\ \A i \in 1..Len(SourceHolds(s)) : OfSource(SourceHolds(s)[i], s)
<1> DEFINE h == Held(s, "source", Empty)  fs == FiltersOf(s, s.name)  m == Len(fs)  one == <<h>>
<1>1. /\ s.filters \in Seq(Saveable) /\ s.name \in Labels /\ s.name # Empty
  BY DEF SavedSource, IsSaved, Labels
<1>2. fs \in Seq(EntrySet) /\ m = Len(s.filters) /\ \A i \in 1..m : fs[i] = Held(s.filters[i], "filter", s.name)
  BY <1>1, FiltersTyped
<1>3. h \in EntrySet  BY StringsAssumption DEF Held, EntrySet, SavedSource, IsSaved, Labels, EntryKinds
<1>4. SourceHolds(s) = IF s.nameFirst THEN one \o fs ELSE fs \o one
  BY Zenon DEF SourceHolds, FiltersHeld, FiltersOf
<1>5. OfSource(h, s) /\ h.kind = "source" /\ h.parent = Empty  BY DEF OfSource, Held
<1> HIDE DEF h, fs
<1>6. ASSUME NEW i \in 1..m
      PROVE  /\ fs[i].kind = "filter" /\ fs[i].parent = s.name /\ fs[i].label = s.filters[i].name
             /\ OfSource(fs[i], s)
  <2>1. fs[i] = Held(s.filters[i], "filter", s.name)  BY <1>2
  <2>2. fs[i].kind = "filter" /\ fs[i].parent = s.name /\ fs[i].label = s.filters[i].name
    BY <2>1 DEF Held
  <2> QED  BY <1>1, <2>2 DEF OfSource
<1>7. DOMAIN s.filters = 1..m /\ m \in Nat  BY <1>1, <1>2, LenProperties
<1>8. Apart(fs)
  <2>1. ASSUME NEW i \in 1..m, NEW j \in 1..m, i # j PROVE ~Clash(fs[i], fs[j])
    <3>1. s.filters[i].name # s.filters[j].name  BY <1>7, <2>1 DEF NamesDiffer
    <3> QED  BY <1>6, <3>1 DEF Clash
  <2> QED  BY <2>1 DEF Apart
<1>9. one \in Seq(EntrySet) /\ Len(one) = 1 /\ one[1] = h  BY <1>3
<1> HIDE DEF one
<1>10. \A i \in 1..m, j \in 1..Len(one) : ~Clash(fs[i], one[j]) /\ ~Clash(one[j], fs[i])
  <2>1. ASSUME NEW i \in 1..m PROVE ~Clash(fs[i], h) /\ ~Clash(h, fs[i])
    BY <1>1, <1>5, <1>6 DEF Clash
  <2> QED  BY <1>9, <2>1
<1>11. Apart(one)
  <2>1. \A i, j \in 1..Len(one) : i = j  BY <1>9
  <2> QED  BY <2>1 DEF Apart
<1>12. \A i \in 1..Len(one) : OfSource(one[i], s)  BY <1>5, <1>9
<1>15. fs \in Seq(EntrySet) /\ one \in Seq(EntrySet)  BY <1>2, <1>9
<1>13. CASE s.nameFirst
  <2> DEFINE hs == one \o fs
  <2>1. Apart(hs) /\ hs \in Seq(EntrySet)  BY <1>2, <1>8, <1>9, <1>10, <1>11, ApartBoth, ConcatProperties
  <2>2. \A i \in 1..Len(hs) : OfSource(hs[i], s)
    <3>1. /\ Len(hs) = Len(one) + Len(fs)
          /\ \A i \in 1..Len(hs) : hs[i] = IF i <= Len(one) THEN one[i] ELSE fs[i - Len(one)]
      BY <1>15, ConcatProperties
    <3>3. Len(hs) = Len(one) + m  BY <3>1
    <3> HIDE DEF hs, m
    <3>2. ASSUME NEW i \in 1..Len(hs) PROVE OfSource(hs[i], s)
      <4>1. i \in 1..Len(one) \/ (~(i <= Len(one)) /\ i - Len(one) \in 1..m)  BY <1>7, <1>9, <3>3
      <4> QED  BY <1>6, <1>9, <1>12, <3>1, <4>1 DEF m
    <3> QED  BY <3>2
  <2>3. SourceHolds(s) = hs  BY <1>4, <1>13
  <2> QED  BY <2>1, <2>2, <2>3
<1>14. CASE ~s.nameFirst
  <2> DEFINE hs == fs \o one
  <2>1. Apart(hs) /\ hs \in Seq(EntrySet)  BY <1>2, <1>8, <1>9, <1>10, <1>11, ApartBoth, ConcatProperties
  <2>2. \A i \in 1..Len(hs) : OfSource(hs[i], s)
    <3>1. /\ Len(hs) = Len(fs) + Len(one)
          /\ \A i \in 1..Len(hs) : hs[i] = IF i <= Len(fs) THEN fs[i] ELSE one[i - Len(fs)]
      BY <1>15, ConcatProperties
    <3>3. /\ Len(hs) = m + Len(one)
          /\ \A i \in 1..Len(hs) : hs[i] = IF i <= m THEN fs[i] ELSE one[i - m]
      BY <3>1
    <3> HIDE DEF hs, m
    <3>2. ASSUME NEW i \in 1..Len(hs) PROVE OfSource(hs[i], s)
      <4>1. (i \in 1..m /\ i <= m) \/ (~(i <= m) /\ i - m \in 1..Len(one))  BY <1>7, <1>9, <3>3
      <4> QED  BY <1>6, <1>12, <3>3, <4>1
    <3> QED  BY <3>2
  <2>3. SourceHolds(s) = hs  BY <1>4, <1>14
  <2> QED  BY <2>1, <2>2, <2>3
<1> QED  BY <1>13, <1>14

\* The first n of the sources.
ApartUpTo(f, seq, n) ==
  /\ f \in Seq(EntrySet) /\ Apart(f)
  /\ \A i \in 1..Len(f) : \E k \in 1..n : OfSource(f[i], seq[k])

\* One source more has names of its own.
LEMMA ApartNext ==
  ASSUME NEW seq, NEW m \in Nat, DOMAIN seq = 1..m, NamesDiffer(seq), NEW n \in 0..m, n # m,
         NEW f, ApartUpTo(f, seq, n), NEW hs \in Seq(EntrySet), Apart(hs),
         \A i \in 1..Len(hs) : OfSource(hs[i], seq[n + 1])
  PROVE  ApartUpTo(f \o hs, seq, n + 1)
<1> DEFINE g == f \o hs  l == Len(f)  e == n + 1
<1>1. f \in Seq(EntrySet) /\ Apart(f) /\ \A i \in 1..l : \E k \in 1..n : OfSource(f[i], seq[k])
  BY DEF ApartUpTo
<1>2. /\ g \in Seq(EntrySet) /\ Len(g) = l + Len(hs) /\ l \in Nat /\ Len(hs) \in Nat
      /\ \A i \in 1..Len(g) : g[i] = IF i <= l THEN f[i] ELSE hs[i - l]
  BY <1>1, ConcatProperties, LenProperties
<1>3. e \in 1..m /\ e \in 1..e /\ (\A k \in 1..n : k \in 1..m /\ k \in 1..e /\ k # e)  OBVIOUS
<1>4. \A i \in 1..Len(hs) : OfSource(hs[i], seq[e])  OBVIOUS
<1> HIDE DEF e
<1>5. ASSUME NEW i \in 1..l, NEW j \in 1..Len(hs) PROVE ~Clash(f[i], hs[j])
  <2>1. PICK k \in 1..n : OfSource(f[i], seq[k])  BY <1>1
  <2>2. seq[k].name # seq[e].name  BY <1>3 DEF NamesDiffer
  <2> QED  BY <1>4, <2>1, <2>2, SourcesDoNotClash
<1>6. Apart(g)  BY <1>1, <1>5, ApartBoth
<1> HIDE DEF g, l
<1>7. ASSUME NEW i \in 1..Len(g) PROVE \E k \in 1..e : OfSource(g[i], seq[k])
  <2>1. CASE i <= l
    <3>1. i \in 1..l /\ g[i] = f[i]  BY <1>2, <2>1
    <3>2. PICK k \in 1..n : OfSource(f[i], seq[k])  BY <1>1, <3>1
    <3> QED  BY <1>3, <3>1, <3>2
  <2>2. CASE ~(i <= l)
    <3>1. i - l \in 1..Len(hs) /\ g[i] = hs[i - l]  BY <1>2, <2>2
    <3> QED  BY <1>3, <1>4, <3>1
  <2> QED  BY <2>1, <2>2
<1>8. ApartUpTo(g, seq, e)  BY <1>2, <1>6, <1>7 DEF ApartUpTo
<1> QED  BY <1>8 DEF g, e

\* The sources of a collection and their filters.
LEMMA SourcesApart ==
  ASSUME NEW seq, NEW m \in Nat, DOMAIN seq = 1..m, NamesDiffer(seq),
         NEW holds, Len(holds) = m,
         \A n \in 1..m : /\ holds[n] \in Seq(EntrySet) /\ Apart(holds[n])
                         /\ \A i \in 1..Len(holds[n]) : OfSource(holds[n][i], seq[n])
  PROVE  ApartUpTo(Joined(holds), seq, m)
<1>1. PICK g : Joins(g, holds)  BY JoinedIs
<1>2. g[0] = <<>> /\ (\A n \in 1..m : g[n] = g[n - 1] \o holds[n]) /\ Joined(holds) = g[m]
  BY <1>1 DEF Joins
<1> DEFINE P(n) == ApartUpTo(g[n], seq, n)
           S == {n \in Nat : P(n)}
<1>3. P(0)
  <2> DEFINE none == <<>>
  <2>1. none \in Seq(EntrySet) /\ Len(none) = 0 /\ g[0] = none  BY <1>2
  <2> HIDE DEF none
  <2>2. \A i \in 1..Len(none) : FALSE  BY <2>1
  <2>3. Apart(none)  BY <2>2 DEF Apart
  <2> QED  BY <2>1, <2>2, <2>3 DEF ApartUpTo
<1>4. ASSUME NEW n \in 0..m, n \in S, n # m PROVE n + 1 \in S
  <2>1. n + 1 \in 1..m /\ (n + 1) - 1 = n /\ n + 1 \in Nat  BY <1>4
  <2>2. g[n + 1] = g[n] \o holds[n + 1]  BY <1>2, <2>1
  <2> DEFINE x == g[n]  y == holds[n + 1]
  <2>3. ApartUpTo(x, seq, n)  BY <1>4
  <2>4. y \in Seq(EntrySet) /\ Apart(y) /\ \A i \in 1..Len(y) : OfSource(y[i], seq[n + 1])  BY <2>1
  <2> HIDE DEF x, y, S
  <2>5. ApartUpTo(x \o y, seq, n + 1)  BY <1>4, <2>3, <2>4, ApartNext
  <2> QED  BY <2>1, <2>2, <2>5 DEF x, y, S
<1>5. P(m)
  <2>1. 0 \in S  BY <1>3
  <2> HIDE DEF S
  <2>2. \A n \in 0..m : n \in S  BY <1>4, <2>1, Induction
  <2>3. m \in S  BY <2>2
  <2> QED  BY <2>3 DEF S
<1> QED  BY <1>2, <1>5

\* The entries of a saved collection are apart.
LEMMA HoldsApart ==
  ASSUME NEW c, Saved(c)
  PROVE  Apart(CollectionHolds(c))
<1> DEFINE holds == [i \in DOMAIN c.sources |-> SourceHolds(c.sources[i])]
           a == Joined(holds)
           b == [i \in DOMAIN c.transitions |-> Held(c.transitions[i], "transition", Empty)]
           d == [i \in DOMAIN c.scripts |-> ScriptEntry(c.scripts[i].val)]
           seq == c.sources  m == Len(seq)
<1>1. seq \in Seq(SaveableSource) /\ NamesDiffer(seq)  BY DEF Saved
<1>2. m \in Nat /\ DOMAIN seq = 1..m  BY <1>1, LenProperties
<1>3. Len(holds) = m /\ \A i \in 1..m : holds[i] = SourceHolds(seq[i])  BY <1>2
<1>4. \A i \in 1..m : NamesDiffer(seq[i].filters)  BY <1>2 DEF Saved
<1> HIDE DEF seq, holds
<1>5. ASSUME NEW n \in 1..m
      PROVE  /\ holds[n] \in Seq(EntrySet) /\ Apart(holds[n])
             /\ \A i \in 1..Len(holds[n]) : OfSource(holds[n][i], seq[n])
  <2> DEFINE s == seq[n]
  <2>1. s \in SaveableSource  BY <1>1, ElementOfSeq
  <2>2. NamesDiffer(s.filters) /\ holds[n] = SourceHolds(s)  BY <1>3, <1>4
  <2> HIDE DEF s
  <2>3. SavedSource(s)  BY <2>1 DEF SavedSource, IsSaved, SaveableSource
  <2>4. /\ SourceHolds(s) \in Seq(EntrySet) /\ Apart(SourceHolds(s))
        /\ \A i \in 1..Len(SourceHolds(s)) : OfSource(SourceHolds(s)[i], s)
    BY <2>2, <2>3, SourceApart
  <2> QED  BY <2>2, <2>4 DEF s
<1>6. /\ a \in Seq(EntrySet) /\ Apart(a)
      /\ \A i \in 1..Len(a) : a[i].kind \in {"source", "filter"}
  <2>1. ApartUpTo(a, seq, m)
    <3> HIDE DEF m
    <3> QED  BY <1>1, <1>2, <1>3, <1>5, SourcesApart
  <2> QED  BY <2>1 DEF ApartUpTo, OfSource
<1>7. /\ b \in Seq(EntrySet) /\ Apart(b)
      /\ \A i \in 1..Len(b) : b[i].kind = "transition"
  <2> DEFINE ts == c.transitions
  <2>1. ts \in Seq(Saveable) /\ NamesDiffer(ts)
    BY DEF Saved
  <2>2. b = [i \in DOMAIN ts |-> Held(ts[i], "transition", Empty)]  OBVIOUS
  <2> HIDE DEF ts, b
  <2>3. b \in Seq(EntrySet)  BY <2>1, <2>2, TransitionsDiffer
  <2>4. DOMAIN ts = 1..Len(ts) /\ Len(ts) \in Nat  BY <2>1, LenProperties
  <2>5. Len(b) = Len(ts) /\ \A i \in 1..Len(b) : b[i].kind = "transition" /\ b[i].label = ts[i].name
    BY <2>2, <2>4 DEF Held
  <2>6. ASSUME NEW i \in 1..Len(b), NEW j \in 1..Len(b), i # j PROVE ~Clash(b[i], b[j])
    <3>1. ts[i].name # ts[j].name  BY <2>1, <2>4, <2>5, <2>6 DEF NamesDiffer
    <3> QED  BY <2>5, <3>1 DEF Clash
  <2> QED  BY <2>3, <2>5, <2>6 DEF Apart
<1>8. d \in Seq(EntrySet) /\ \A i \in 1..Len(d) : d[i].kind = "script"
  <2> DEFINE ps == c.scripts
  <2>1. ps \in Seq(ScriptPaths)  BY DEF Saved, ScriptPaths
  <2>2. d = [i \in DOMAIN ps |-> ScriptEntry(ps[i].val)]  OBVIOUS
  <2> HIDE DEF ps, d
  <2>3. d \in Seq(EntrySet)  BY <2>1, <2>2, ScriptsDiffer
  <2>4. DOMAIN ps = 1..Len(ps) /\ Len(ps) \in Nat  BY <2>1, LenProperties
  <2>5. \A i \in 1..Len(d) : d[i].kind = "script"  BY <2>2, <2>4 DEF ScriptEntry
  <2> QED  BY <2>3, <2>5
<1>9. CollectionHolds(c) = a \o b \o d  BY DEF CollectionHolds, holds
<1> HIDE DEF a, b, d
<1>10. Apart(d)  BY <1>8 DEF Apart, Clash
<1>11. Apart(a \o b) /\ a \o b \in Seq(EntrySet)
  <2>1. \A i \in 1..Len(a), j \in 1..Len(b) : ~Clash(a[i], b[j])  BY <1>6, <1>7 DEF Clash
  <2> QED  BY <1>6, <1>7, <2>1, ApartBoth, ConcatProperties
<1>12. Apart((a \o b) \o d)
  <2> DEFINE x == a \o b
  <2>1. Apart(x) /\ x \in Seq(EntrySet)  BY <1>11
  <2> HIDE DEF x
  <2>2. \A i \in 1..Len(x), j \in 1..Len(d) : ~Clash(x[i], d[j])  BY <1>8 DEF Clash
  <2>3. Apart(x \o d)  BY <1>8, <1>10, <2>1, <2>2, ApartBoth
  <2> QED  BY <2>3 DEF x
<1> QED  BY <1>9, <1>12

-----------------------------------------------------------------------------
(* The walk takes the steps of the function                                *)

\* An object with one member read anew, and one whose entry was made.
LEMMA Rewritten ==
  ASSUME NEW o \in ObjectTypes, NEW v, NEW k
  PROVE  /\ [o EXCEPT !.name = v] = Obj(o, v, o.id, o.emitted, o.settings, o.entry)
         /\ [o EXCEPT !.id = v] = Obj(o, o.name, v, o.emitted, o.settings, o.entry)
         /\ [o EXCEPT !.settings = v] = Obj(o, o.name, o.id, o.emitted, v, o.entry)
         /\ [o EXCEPT !.emitted = TRUE] = Marked(o, o.entry)
         /\ [o EXCEPT !.emitted = TRUE, !.entry = k] = Marked(o, k)
<1>1. o = [name |-> o.name, id |-> o.id, emitted |-> o.emitted, settings |-> o.settings,
           entry |-> o.entry, kind |-> o.kind, parent |-> o.parent, depth |-> o.depth]
  BY DEF ObjectTypes
<1>2. [o EXCEPT !.name = v] = Obj(o, v, o.id, o.emitted, o.settings, o.entry)  BY <1>1 DEF Obj
<1>3. [o EXCEPT !.id = v] = Obj(o, o.name, v, o.emitted, o.settings, o.entry)  BY <1>1 DEF Obj
<1>4. [o EXCEPT !.settings = v] = Obj(o, o.name, o.id, o.emitted, v, o.entry)  BY <1>1 DEF Obj
<1>5. \A b : [o EXCEPT !.emitted = b] = Obj(o, o.name, o.id, b, o.settings, o.entry)  BY <1>1 DEF Obj
<1>6. ASSUME NEW b PROVE [o EXCEPT !.emitted = b, !.entry = k] = Obj(o, o.name, o.id, b, o.settings, k)
  <2> DEFINE p == [o EXCEPT !.emitted = b]
  <2>1. p = [name |-> o.name, id |-> o.id, emitted |-> b, settings |-> o.settings,
             entry |-> o.entry, kind |-> o.kind, parent |-> o.parent, depth |-> o.depth]
    BY <1>1
  <2>2. [o EXCEPT !.emitted = b, !.entry = k] = [p EXCEPT !.entry = k]  OBVIOUS
  <2> HIDE DEF p
  <2>3. [p EXCEPT !.entry = k] = Obj(o, o.name, o.id, b, o.settings, k)  BY <2>1 DEF Obj
  <2> QED  BY <2>2, <2>3
<1>7. [o EXCEPT !.emitted = TRUE] = Marked(o, o.entry)  BY <1>5, Zenon DEF Marked
<1>8. [o EXCEPT !.emitted = TRUE, !.entry = k] = Marked(o, k)  BY <1>6, Zenon DEF Marked
<1> QED  BY <1>2, <1>3, <1>4, <1>7, <1>8

\* A step of the walk is that of the function at the token that is next.
Steps == Now' = StepOf(Now, Text[pos])

\* The parts of what the walk has.
LEMMA NowIs ==
  /\ Now.stack = stack /\ Now.arrays = arrays /\ Now.entries = entries /\ Now.pending = pending
  /\ Now' = State(stack', arrays', entries', pending')
BY DEF Now, State

\* One lemma for each action of the walk.
LEMMA OpenObjectSteps == ASSUME OpenObject PROVE Steps
<1>1. Text[pos].sym = "{"  BY DEF OpenObject, At
<1>2. stack' = Append(stack, OpenedIn(arrays)) /\ UNCHANGED <<arrays, entries, pending>>
  BY DEF OpenObject, OpenedIn
<1> QED  BY <1>1, <1>2, NowIs, SymbolsDiffer DEF Steps, StepOf

\* A closing brace.
LEMMA CloseObjectSteps == ASSUME CloseObject PROVE Steps
<1> DEFINE o == Innermost(stack)
           patched == IF o.settings = None THEN entries ELSE WithSettings(entries, o, o.settings)
<1>1. Text[pos].sym = "}" /\ stack # <<>>  BY DEF CloseObject, At
<1>2. SettingsPatched(o, o.settings) = WithSettings(entries, o, o.settings)
  BY DEF SettingsPatched, WithSettings
<1>3. ParentPatched(patched, o) = WithParent(patched, pending, o, Len(stack))
  BY DEF ParentPatched, WithParent
<1>4. entries' = ParentPatched(patched, o) /\ stack' = Outer(stack) /\ UNCHANGED <<arrays, pending>>
  BY <1>2 DEF CloseObject
<1>5. entries' = WithParent(patched, pending, o, Len(stack))  BY <1>3, <1>4
<1> QED  BY <1>1, <1>4, <1>5, NowIs, SymbolsDiffer DEF Steps, StepOf

\* An opening bracket.
LEMMA OpenArraySteps == ASSUME OpenArray PROVE Steps
<1>1. Text[pos].sym = "["  BY DEF OpenArray, At
<1>2. ArrayContext(Value) = ContextIn(stack, Text[pos].val)
  BY DEF ArrayContext, ContextIn, Value
<1>3. arrays' = Append(arrays, ContextIn(stack, Text[pos].val)) /\ UNCHANGED <<stack, entries, pending>>
  BY <1>2 DEF OpenArray
<1> QED  BY <1>1, <1>3, NowIs, SymbolsDiffer DEF Steps, StepOf

\* A closing bracket.
LEMMA CloseArraySteps == ASSUME CloseArray PROVE Steps
<1>1. Text[pos].sym = "]" /\ arrays # <<>>  BY DEF CloseArray, At
<1>2. arrays' = Outer(arrays) /\ UNCHANGED <<stack, entries, pending>>  BY DEF CloseArray
<1> QED  BY <1>1, <1>2, NowIs, SymbolsDiffer DEF Steps, StepOf

\* Settings.
LEMMA ReadSettingsSteps == ASSUME WalkTypeOK, ReadSettings PROVE Steps
<1> DEFINE o == Innermost(stack)  v == Text[pos].val
<1>1. Text[pos].sym = "settings" /\ stack # <<>>  BY DEF ReadSettings, At
<1>2. o \in ObjectTypes  BY <1>1, WalkTypes
<1>3. [o EXCEPT !.settings = v] = Obj(o, o.name, o.id, o.emitted, v, o.entry)  BY <1>2, Rewritten
<1>4. stack' = WithInnermost(stack, [o EXCEPT !.settings = v]) /\ UNCHANGED <<arrays, pending>>
  BY DEF ReadSettings, Value
<1>5. entries' = WithSettings(entries, o, v)  BY DEF ReadSettings, Value, SettingsPatched, WithSettings
<1>6. stack' = WithInnermost(stack, Obj(o, o.name, o.id, o.emitted, v, o.entry))  BY <1>3, <1>4
<1> QED  BY <1>1, <1>4, <1>5, <1>6, NowIs, SymbolsDiffer DEF Steps, StepOf

\* The member that was read, for both of the actions that read one.
LEMMA ReadSteps ==
  ASSUME WalkTypeOK, NEW o \in ObjectTypes, Read(o)
  PROVE  Now' = ReadIn(Now, o)
<1>1. Repeats(o) = RepeatsIn(entries, o)  BY DEF Repeats, RepeatsIn
<1>2. \A k : [o EXCEPT !.emitted = TRUE, !.entry = k] = Marked(o, k)  BY Rewritten
<1>3. stack' = WithInnermost(stack, IF Complete(o) THEN Marked(o, IndexGiven(o)) ELSE o) /\ arrays' = arrays
  BY <1>2 DEF Read
<1>4. CASE Complete(o) /\ ~Repeats(o)
  <2>1. entries' = Append(entries, Entry(o))
        /\ pending' = IF Orphan(o) THEN pending \cup {<<Len(entries) + 1, o.depth>>} ELSE pending
    BY <1>4 DEF Read
  <2>2. stack' = WithInnermost(stack, Marked(o, Len(entries) + 1))  BY <1>3, <1>4 DEF IndexGiven
  <2> QED  BY <1>1, <1>3, <1>4, <2>1, <2>2, NowIs DEF ReadIn
<1>5. CASE ~(Complete(o) /\ ~Repeats(o))
  <2>1. entries' = entries /\ pending' = pending  BY <1>5 DEF Read
  <2>2. stack' = WithInnermost(stack, IF Complete(o) THEN Marked(o, 0) ELSE o)
    BY <1>3, <1>5 DEF IndexGiven
  <2> QED  BY <1>1, <1>3, <1>5, <2>1, <2>2, NowIs DEF ReadIn
<1> QED  BY <1>4, <1>5

\* A name.
LEMMA ReadNameSteps == ASSUME WalkTypeOK, ReadName PROVE Steps
<1> DEFINE o == Innermost(stack)  v == Text[pos].val  p == Obj(o, v, o.id, o.emitted, o.settings, o.entry)
<1>1. Text[pos].sym = "name" /\ stack # <<>>  BY DEF ReadName, At
<1>2. o \in ObjectTypes  BY <1>1, WalkTypes
<1>3. [o EXCEPT !.name = v] = p  BY <1>2, Rewritten
<1>4. v \in Strings  BY <1>1, Moves DEF IsToken, ReadName
<1>5. [o EXCEPT !.name = v] \in ObjectTypes  BY <1>2, <1>4 DEF ObjectTypes
<1>6. Read([o EXCEPT !.name = v])  BY DEF ReadName, Value
<1>7. p \in ObjectTypes /\ Read(p)  BY <1>3, <1>5, <1>6
<1> HIDE DEF p
<1>8. Now' = ReadIn(Now, p)  BY <1>7, ReadSteps
<1> QED  BY <1>1, <1>8, NowIs, SymbolsDiffer DEF Steps, StepOf, p

\* An id.
LEMMA ReadIdSteps == ASSUME WalkTypeOK, ReadId PROVE Steps
<1> DEFINE o == Innermost(stack)  v == Text[pos].val  p == Obj(o, o.name, v, o.emitted, o.settings, o.entry)
<1>1. Text[pos].sym = "id" /\ stack # <<>>  BY DEF ReadId, At
<1>2. o \in ObjectTypes  BY <1>1, WalkTypes
<1>3. [o EXCEPT !.id = v] = p  BY <1>2, Rewritten
<1>4. v \in Strings  BY <1>1, Moves DEF IsToken, ReadId
<1>5. [o EXCEPT !.id = v] \in ObjectTypes  BY <1>2, <1>4 DEF ObjectTypes
<1>6. Read([o EXCEPT !.id = v])  BY DEF ReadId, Value
<1>7. p \in ObjectTypes /\ Read(p)  BY <1>3, <1>5, <1>6
<1> HIDE DEF p
<1>8. Now' = ReadIn(Now, p)  BY <1>7, ReadSteps
<1> QED  BY <1>1, <1>8, NowIs, SymbolsDiffer DEF Steps, StepOf, p

\* A path.
LEMMA ReadPathSteps == ASSUME WalkTypeOK, ReadPath PROVE Steps
<1> DEFINE o == Innermost(stack)
<1>1. Text[pos].sym = "path" /\ ScriptedIn(stack)  BY DEF ReadPath, At, Scripted, ScriptedIn
<1>2. o \in ObjectTypes  BY <1>1, WalkTypes DEF ScriptedIn
<1>3. [o EXCEPT !.emitted = TRUE] = Marked(o, o.entry)  BY <1>2, Rewritten
<1>4. /\ stack' = WithInnermost(stack, [o EXCEPT !.emitted = TRUE])
      /\ entries' = Append(entries, ScriptEntry(Text[pos].val)) /\ UNCHANGED <<arrays, pending>>
  BY DEF ReadPath, Value
<1> QED  BY <1>1, <1>3, <1>4, NowIs, SymbolsDiffer DEF Steps, StepOf

\* Any other token.
LEMMA IgnoreSteps == ASSUME Ignore PROVE Steps
<1>1. Now' = Now  BY DEF Ignore, Now
<1>2. \/ Text[pos].sym = "path" /\ ~ScriptedIn(stack)
      \/ Text[pos].sym \in {"}", "name", "id"} /\ stack = <<>>
      \/ Text[pos].sym = "]" /\ arrays = <<>>
  BY DEF Ignore, At, Scripted, ScriptedIn
<1>3. CASE Text[pos].sym = "path" /\ ~ScriptedIn(stack)
  BY <1>1, <1>3, NowIs, SymbolsDiffer DEF Steps, StepOf
<1>4. CASE Text[pos].sym \in {"}", "name", "id"} /\ stack = <<>>
  BY <1>1, <1>4, NowIs, SymbolsDiffer DEF Steps, StepOf
<1>5. CASE Text[pos].sym = "]" /\ arrays = <<>>
  BY <1>1, <1>5, NowIs, SymbolsDiffer DEF Steps, StepOf
<1> QED  BY <1>2, <1>3, <1>4, <1>5

\* Every step of the walk, and its place in the text.
LEMMA WalkSteps ==
  ASSUME WalkTypeOK, Walk
  PROVE  Steps /\ pos \in 1..Len(Text) /\ pos' = pos + 1 /\ doc' = doc
<1>1. Steps
  BY OpenObjectSteps, CloseObjectSteps, OpenArraySteps, CloseArraySteps, ReadSettingsSteps,
     ReadNameSteps, ReadIdSteps, ReadPathSteps, IgnoreSteps DEF Walk
<1>2. \E sym : At(sym)
  BY DEF Walk, OpenObject, CloseObject, OpenArray, CloseArray, ReadSettings, ReadName, ReadId,
         ReadPath, Ignore
<1>3. pos <= Len(Text) /\ pos' = pos + 1 /\ doc' = doc  BY <1>2 DEF At
<1>4. doc \in DOMAIN Documents /\ pos \in 1..Len(Text) + 1  BY DEF WalkTypeOK
<1>5. Len(Text) \in Nat  BY <1>4, DocumentsAssumption, LenProperties DEF Text
<1> QED  BY <1>1, <1>3, <1>4, <1>5

-----------------------------------------------------------------------------
(* The walk through a file                                                 *)

\* Every course of the function through the text is where the walk is.
Traced == \A tr : Traces(tr, Start, Text) => tr[pos - 1] = Now

\* The walk begins where the function begins.
LEMMA StartIsTraced ==
  ASSUME pos = 1, stack = <<>>, arrays = <<>>, entries = <<>>, pending = {}
  PROVE  Traced
<1>1. Now = Start  BY DEF Now, Start
<1>2. pos - 1 = 0  OBVIOUS
<1> QED  BY <1>1, <1>2 DEF Traced, Traces

\* A step of the walk is the next of the course; a request starts it again.
LEMMA TracedKept == ASSUME IInv, Traced, [Next]_vars PROVE Traced'
<1>1. CASE UNCHANGED walk
  <2>1. Now' = Now /\ Text' = Text /\ pos' = pos  BY <1>1 DEF walk, Now, Text, Documents
  <2> QED  BY <2>1 DEF Traced
<1>2. CASE Parse
  <2>1. Walk /\ WalkTypeOK  BY <1>2 DEF Parse, IInv, TypeOK
  <2>2. Now' = StepOf(Now, Text[pos]) /\ pos \in 1..Len(Text) /\ pos' = pos + 1 /\ doc' = doc
    BY <2>1, WalkSteps DEF Steps
  <2>3. Text' = Text  BY <2>2 DEF Text, Documents
  <2>4. doc \in DOMAIN Documents /\ pos \in Nat  BY <2>1, <2>2 DEF WalkTypeOK
  <2>5. pos' - 1 = pos  BY <2>2, <2>4
  <2>6. ASSUME NEW tr, Traces(tr, Start, Text) PROVE tr[pos] = StepOf(Now, Text[pos])
    BY <2>2, <2>6 DEF Traces, Traced
  <2> QED  BY <2>2, <2>3, <2>5, <2>6 DEF Traced
<1>3. CASE \E d \in DOMAIN Documents : StartOver(d)
  <2>1. pos' = 1 /\ stack' = <<>> /\ arrays' = <<>> /\ entries' = <<>> /\ pending' = {}
    BY <1>3 DEF StartOver
  <2>2. Now' = Start  BY <2>1 DEF Now, Start
  <2>3. pos' - 1 = 0  BY <2>1
  <2> QED  BY <2>2, <2>3 DEF Traced, Traces
<1> QED
  BY <1>1, <1>2, <1>3
  DEF Next, vars, WriteMap, BuildReport, InstantiatePrompts, ExerciseTccPrompts, Ask, CreateFails,
      CreatePrompt, GiveUp, Answer, RefuseLoad

\* What the walk through a file lists, from the first token to the last.
LEMMA FileFound ==
  ASSUME NEW d \in DOMAIN Files
  PROVE  /\ Files[d].holds \in Seq(EntrySet)
         /\ Files[d].ordered => NoRepeats(Files[d].holds)
         /\ \E fs : Listing(Files[d].text, Files[d].holds, fs)
<1> DEFINE c == Collections[d]  f == Files[d]
<1>1. Saved(c)  BY CollectionsAssumption
<1>2. <<>> \in Seq(Objects)  OBVIOUS
<1>3. CollectionHolds(c) \in Seq(EntrySet)  BY <1>1, <1>2, MiddleLists
<1>4. f = Document(c) \/ f = Beheaded(Document(c))  BY FilesAssumption
<1>5. OneOrder(c) => NoRepeats(CollectionHolds(c))  BY <1>1, OneOrderDiffers
<1>6. CASE f = Document(c)
  <2>1. f.text = CollectionText(c) /\ f.holds = CollectionHolds(c) /\ f.ordered = OneOrder(c)
    BY <1>6 DEF Document
  <2>2. \E fs : Listing(CollectionText(c), CollectionHolds(c), fs)  BY <1>1, WholeFound
  <2> HIDE DEF c, f
  <2>3. f.ordered => NoRepeats(f.holds)  BY <1>5, <2>1
  <2>4. \E fs : Listing(f.text, f.holds, fs)  BY <2>1, <2>2
  <2>5. f.holds \in Seq(EntrySet)  BY <1>3, <2>1
  <2> QED  BY <2>3, <2>4, <2>5 DEF f
<1>7. CASE f = Beheaded(Document(c))
  <2>1. f.text = Tail(CollectionText(c)) /\ f.holds = CollectionHolds(c) /\ f.ordered = OneOrder(c)
    BY <1>7 DEF Beheaded, Document
  <2>2. \E fs : Listing(Tail(CollectionText(c)), CollectionHolds(c), fs)  BY <1>1, BeheadedFound
  <2> HIDE DEF c, f
  <2>3. f.ordered => NoRepeats(f.holds)  BY <1>5, <2>1
  <2>4. \E fs : Listing(f.text, f.holds, fs)  BY <2>1, <2>2
  <2>5. f.holds \in Seq(EntrySet)  BY <1>3, <2>1
  <2> QED  BY <2>3, <2>4, <2>5 DEF f
<1> QED  BY <1>4, <1>6, <1>7

\* What a file holds goes by names of its own, whole or cut.
LEMMA FileApart == ASSUME NEW d \in DOMAIN Files PROVE Apart(Files[d].holds)
<1> DEFINE c == Collections[d]  f == Files[d]
<1>1. Saved(c)  BY CollectionsAssumption
<1>2. Apart(CollectionHolds(c))  BY <1>1, HoldsApart
<1>3. f = Document(c) \/ f = Beheaded(Document(c))  BY FilesAssumption
<1>4. f.holds = CollectionHolds(c)
  <2>1. CASE f = Document(c)  BY <2>1 DEF Document
  <2>2. CASE f = Beheaded(Document(c))  BY <2>2 DEF Beheaded, Document
  <2> QED  BY <1>3, <2>1, <2>2
<1> QED  BY <1>2, <1>4

\* At the end of the text the walk has listed what the file holds.
LEMMA WalkedThrough ==
  ASSUME IInv, Traced, Walked
  PROVE  /\ doc \in DOMAIN Files /\ Documents[doc].holds \in Seq(EntrySet)
         /\ Adds(<<>>, Documents[doc].holds, entries)
<1> DEFINE holds == Documents[doc].holds
<1>1. doc \in DOMAIN Files /\ pos \in 1..Len(Text) + 1  BY DEF IInv, TypeOK, WalkTypeOK, Documents
<1>2. Len(Text) \in Nat  BY <1>1, DocumentsAssumption, LenProperties DEF Text, Documents
<1>3. pos - 1 = Len(Text)  BY <1>1, <1>2 DEF Walked
<1>4. holds \in Seq(EntrySet) /\ \E fs : Listing(Text, holds, fs)
  BY <1>1, FileFound DEF Documents, Text
<1> HIDE DEF holds
<1>5. PICK fs : Listing(Text, holds, fs)  BY <1>4
<1>6. PICK qd : Does(Text, Start, State(<<>>, <<>>, fs, qd))  BY <1>5 DEF Listing
<1>7. PICK tr : Traces(tr, Start, Text) /\ tr[Len(Text)] = State(<<>>, <<>>, fs, qd)  BY <1>6 DEF Does
<1>8. Now = State(<<>>, <<>>, fs, qd)  BY <1>3, <1>7 DEF Traced
<1>9. entries = fs
  <2>1. State(<<>>, <<>>, fs, qd).entries = fs  BY DEF State
  <2> QED  BY <1>8, <2>1, NowIs
<1>10. Adds(<<>>, holds, entries)  BY <1>5, <1>9 DEF Listing
<1> QED  BY <1>1, <1>4, <1>10 DEF holds

\* The walk has found what the file holds: all of it, or all but repetitions.
LEMMA WalkedAsHeld == ASSUME IInv, Traced PROVE WalkFaithful
<1> SUFFICES ASSUME Walked PROVE WalkFaithful  BY DEF WalkFaithful
<1> DEFINE holds == Documents[doc].holds
<1>1. doc \in DOMAIN Files /\ holds \in Seq(EntrySet) /\ Adds(<<>>, holds, entries)
  BY WalkedThrough
<1>2. Documents[doc].ordered => NoRepeats(holds)  BY <1>1, FileFound DEF Documents
<1> HIDE DEF holds
<1>3. Documents[doc].ordered => entries = holds  BY <1>1, <1>2, AddsAll
<1>4. /\ Len(entries) = Cardinality(Fresh(holds))
      /\ \A k \in Fresh(holds) : entries[Cardinality(Fresh(holds) \cap (1..k))] = holds[k]
  BY <1>1, AddsExact
<1> QED  BY <1>3, <1>4 DEF WalkFaithful, holds

\* The walk of parse_obs_source_entries finds what a saved collection holds, for
\* every collection of sources with filters, transitions and scripts, whole or
\* cut: all of it where the objects give their keys in one order, and else all
\* but the entries that repeat the name and the id of the one before.
THEOREM WalkIsFaithful == Spec => []WalkFaithful
<1>1. Init => Traced  BY StartIsTraced DEF Init, WalkInit
<1> QED  BY <1>1, WalkedAsHeld, TracedKept, InductiveInvariant, PTL DEF Spec

-----------------------------------------------------------------------------
(* Every entry is accounted for                                            *)

\* The map and the report come after the walk.
ReadThrough == report # None \/ stage = "mapped" => Walked

\* No request goes on before its walk is over.
LEMMA ReadThroughKept == ASSUME IInv, ReadThrough, [Next]_vars PROVE ReadThrough'
<1>1. CASE Parse
  <2>1. report' = None /\ stage' # "mapped"  BY <1>1 DEF Parse, IInv, Staged, results
  <2> QED  BY <2>1 DEF ReadThrough
<1>2. CASE \E d \in DOMAIN Documents : StartOver(d)  BY <1>2 DEF StartOver, ReadThrough
<1>3. CASE WriteMap \/ BuildReport \/ InstantiatePrompts \/ ExerciseTccPrompts \/ Ask \/ RefuseLoad
           \/ UNCHANGED vars
  <2>1. UNCHANGED walk /\ (report' # None \/ stage' = "mapped" => Walked)
    BY <1>3
    DEF WriteMap, BuildReport, InstantiatePrompts, ExerciseTccPrompts, Ask, CreateFails, CreatePrompt,
        GiveUp, Answer, RefuseLoad, vars, results, ReadThrough
  <2>2. Walked' <=> Walked  BY <2>1 DEF walk, Walked, Text, Documents
  <2> QED  BY <2>1, <2>2 DEF ReadThrough
<1> QED  BY <1>1, <1>2, <1>3 DEF Next

\* Under a report the names of the entries are distinct, and the entries those
\* that the file holds if its objects give their keys in one order.
LEMMA ReportedApart ==
  ASSUME IInv, Traced, ReadThrough, report # None
  PROVE  Apart(entries) /\ (Documents[doc].ordered => entries = Documents[doc].holds)
<1>1. Walked  BY DEF ReadThrough
<1> DEFINE holds == Documents[doc].holds  none == <<>>
<1>2. doc \in DOMAIN Files /\ holds \in Seq(EntrySet) /\ Adds(none, holds, entries)
  BY <1>1, WalkedThrough
<1>3. Apart(holds)  BY <1>2, FileApart DEF Documents
<1>4. Documents[doc].ordered => entries = holds  BY <1>1, WalkedAsHeld DEF WalkFaithful
<1> HIDE DEF holds
<1>5. Apart(entries)  BY <1>2, <1>3, AddsApart
<1> QED  BY <1>4, <1>5 DEF holds

\* No silent drop of what the walk kept, for every saved collection, whole or
\* cut: of one whose objects give their keys in one order that is everything it
\* holds.  And no two items under one id, as long as the names are plain.
THEOREM EveryEntryIsAccounted == Spec => []EveryEntryAccounted
<1>1. Init => Reported /\ Traced /\ ReadThrough
  BY StartIsTraced DEF Init, WalkInit, Reported, ReadThrough
<1>2. IInv /\ Traced /\ ReadThrough /\ Reported => EveryEntryAccounted
  <2> SUFFICES ASSUME IInv, Traced, ReadThrough, Reported PROVE EveryEntryAccounted  OBVIOUS
  <2>1. CASE report = None  BY <2>1 DEF EveryEntryAccounted
  <2>2. CASE report # None  BY <2>2, ReportedApart, AccountedFor
  <2> QED  BY <2>1, <2>2
<1> QED
  BY <1>1, <1>2, InductiveInvariant, TracedKept, ReportedKept, ReadThroughKept, PTL
  DEF Spec
=============================================================================
