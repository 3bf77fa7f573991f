--------------------------- MODULE ObsCollections ---------------------------
(***************************************************************************)
(* Scene collections as OBS saves them, for the walk of SceneCollection:   *)
(* the tokens of a collection, and the entries that a reader of the whole  *)
(* tree would list.  A source is saved with its name first; after a tool   *)
(* has rewritten the file, its filters may come first.                     *)
(***************************************************************************)
EXTENDS SceneCollection

CONSTANT Collections  \* what OBS has saved in each file: [sources, transitions, scripts]

Joined(seqs) ==
  LET upTo[n \in 0..Len(seqs)] == IF n = 0 THEN <<>> ELSE upTo[n - 1] \o seqs[n]
  IN  upTo[Len(seqs)]

Names(e) == <<Token("name", e.name), Token("id", e.id)>>
NamesBehind(e) == <<Token("id", e.id), Token("name", e.name)>>
Body(e) == IF e.settings = None THEN <<>> ELSE <<Token("settings", e.settings)>>

Braced(tokens) == <<Token("{", Empty)>> \o tokens \o <<Token("}", Empty)>>
Listed(key, tokens) == <<Token("[", key)>> \o tokens \o <<Token("]", Empty)>>

\* A member that holds objects and arrays of its own, as hotkeys does.
Clutter == Listed("hotkeys", Braced(<<>>) \o Listed(Empty, <<>>))

FilterText(f) == Braced(Names(f) \o Body(f) \o Clutter)
FiltersText(s) ==
  IF s.filters = <<>> THEN <<>>
  ELSE Listed("filters", Joined([i \in DOMAIN s.filters |-> FilterText(s.filters[i])]))
SourceText(s) ==
  Braced(IF s.nameFirst THEN Names(s) \o Body(s) \o Clutter \o FiltersText(s)
         ELSE FiltersText(s) \o Body(s) \o NamesBehind(s))
TransitionText(t) == Braced(Names(t) \o Body(t))
ScriptText(path) == Braced(<<path, Token("settings", CHOOSE s \in Settings : TRUE)>>)

CollectionText(c) ==
  Braced(<<Token("name", "collection")>>
         \o Listed("sources", Joined([i \in DOMAIN c.sources |-> SourceText(c.sources[i])]))
         \o Listed("transitions", Joined([i \in DOMAIN c.transitions |-> TransitionText(c.transitions[i])]))
         \o Braced(Listed("scripts-tool", Joined([i \in DOMAIN c.scripts |-> ScriptText(c.scripts[i])]))))

Held(e, kind, parent) ==
  [label |-> e.name, module |-> e.id, settings |-> e.settings, kind |-> kind, parent |-> parent]

FiltersHeld(s) == [i \in DOMAIN s.filters |-> Held(s.filters[i], "filter", s.name)]
SourceHolds(s) ==
  IF s.nameFirst THEN <<Held(s, "source", Empty)>> \o FiltersHeld(s)
  ELSE FiltersHeld(s) \o <<Held(s, "source", Empty)>>

CollectionHolds(c) ==
  Joined([i \in DOMAIN c.sources |-> SourceHolds(c.sources[i])])
  \o [i \in DOMAIN c.transitions |-> Held(c.transitions[i], "transition", Empty)]
  \o [i \in DOMAIN c.scripts |-> ScriptEntry(c.scripts[i].val)]

OneOrder(c) == \A i, j \in DOMAIN c.sources : c.sources[i].nameFirst = c.sources[j].nameFirst

Document(c) ==
  [text |-> CollectionText(c), holds |-> CollectionHolds(c), ordered |-> OneOrder(c)]

-----------------------------------------------------------------------------
(* What OBS saves                                                          *)

Saveable == [name : Strings \ {Empty}, id : Strings \ {Empty}, settings : Settings \cup {None}]
SaveableSource ==
  [name : Strings \ {Empty}, id : Strings \ {Empty}, settings : Settings \cup {None},
   nameFirst : BOOLEAN, filters : Seq(Saveable)]

NamesDiffer(seq) == \A i, j \in DOMAIN seq : i # j => seq[i].name # seq[j].name
Ids(seq) == {seq[i].id : i \in DOMAIN seq}
FilterIds(c) == UNION {Ids(c.sources[i].filters) : i \in DOMAIN c.sources}

\* OBS names a source once, a transition once, and a filter once per source;
\* and an id is registered for one kind of object.
Saved(c) ==
  /\ c.sources \in Seq(SaveableSource) /\ c.transitions \in Seq(Saveable)
  /\ c.scripts \in Seq([sym : {"path"}, dir : STRING, val : Strings])
  /\ NamesDiffer(c.sources) /\ NamesDiffer(c.transitions)
  /\ \A i \in DOMAIN c.sources : NamesDiffer(c.sources[i].filters)
  /\ Ids(c.sources) \cap FilterIds(c) = {}
  /\ Ids(c.transitions) \cap (Ids(c.sources) \cup FilterIds(c)) = {}

ASSUME CollectionsAssumption == \A d \in DOMAIN Files : Saved(Collections[d])

\* The text of a file that has lost its first brace.
Beheaded(d) == [d EXCEPT !.text = Tail(d.text)]

\* The files are saved collections, whole or cut.
ASSUME FilesAssumption ==
  \A d \in DOMAIN Files :
    Files[d] \in {Document(Collections[d]), Beheaded(Document(Collections[d]))}
=============================================================================
