--------------------------- MODULE MCImportReport ---------------------------
(* Collections of two sources for TLC: every id of the vocabularies and two  *)
(* of no vocabulary, with and without filters, in both orders of the keys,   *)
(* next to a transition of each kind and two scripts of one file name.       *)
EXTENDS ImportReport, ObsCollections, Functions

MCSettings == {"plain", "v2"}
MCKeys == {"", "sources", "filters", "transitions", "scripts-tool", "hotkeys"}

SourceIds ==
  <<"scene", "group", "color_source", "vlc_source", "av_capture_input", "coreaudio_input_capture",
    "screen_capture", "window_capture", "syphon-input", "xshm_input", "xshm_input_v2",
    "aja_source", "third_party_camera_fx", "fx_source", "fx_filter">>

MCStrings ==
  {"", "collection", "A", "B", "F", "G", "T", "A:F", "F:G", "one.lua", "one.lua-2", "color_filter", "shader_filter",
   "fade_transition", "move_transition", "fx_transition"} \cup Range(SourceIds)

Part(text) == [text |-> text, numbers |-> <<>>]
MCParts ==
  [s \in MCStrings |->
     CASE s = "A:F" -> <<Part("A"), Part("F")>>
       [] s = "F:G" -> <<Part("F"), Part("G")>>
       [] s = "one.lua-2" -> <<[text |-> "one.lua", numbers |-> <<2>>]>>
       [] OTHER -> <<Part(s)>>]
MCUnplugged == {"B"}

\* Nothing was loaded, or a plugin of every kind; one registers an id of OBS.
MCLoadedTypes ==
  {[sources |-> {}, filters |-> {}, transitions |-> {}],
   [sources |-> {"fx_source", "third_party_camera_fx", "vlc_source"}, filters |-> {"fx_filter"},
    transitions |-> {"fx_transition"}]}

Filter(name, id, settings) == [name |-> name, id |-> id, settings |-> settings]

Source(name, id, settings, nameFirst, filters) ==
  [name |-> name, id |-> id, settings |-> settings, nameFirst |-> nameFirst, filters |-> filters]

Collection(sources, transition) ==
  [sources |-> sources, transitions |-> <<[name |-> "T", id |-> transition, settings |-> "plain"]>>,
   scripts |-> <<PathToken("a", "one.lua"), PathToken("b", "one.lua")>>]

Choice(n, seq) == seq[(n % Len(seq)) + 1]

\* A source of any id, with or without settings that ask for a migration.
Single(n) ==
  LET id == Choice(n \div 2, SourceIds)
  IN  IF n % 2 = 0
      THEN Collection(<<Source("B", id, None, TRUE, <<Filter("F", "shader_filter", None)>>)>>,
                      "fx_transition")
      ELSE Collection(<<Source("B", id, "v2", TRUE, <<>>)>>, "move_transition")

\* Two sources that differ in what the walk looks at.
Pair(n) ==
  Collection(
    <<Source("A", "color_source", Choice(n, <<None, "plain">>), Choice(n \div 2, <<TRUE, FALSE>>),
             Choice(n \div 4, <<
               <<>>,
               <<Filter("F", "fx_filter", None)>>,
               <<Filter("F", "color_filter", "plain"), Filter("G", "shader_filter", "v2")>>>>)),
      Source("B", "fx_source", "plain", Choice(n \div 12, <<TRUE, FALSE>>),
             Choice(n \div 24, <<
               <<>>,
               <<Filter("F", "fx_filter", "plain")>>,
               <<Filter("G", "shader_filter", "v2"), Filter("F", "color_filter", None)>>>>))>>,
    "fade_transition")

\* Names that build_report joins to one id.
Joinable ==
  <<Collection(<<Source("A", "color_source", None, TRUE, <<Filter("F:G", "fx_filter", None)>>),
                 Source("A:F", "color_source", None, TRUE, <<Filter("G", "shader_filter", None)>>)>>,
               "fade_transition"),
    [Collection(<<Source("B", "screen_capture", None, TRUE, <<>>),
                  Source("A", "av_capture_input", None, TRUE, <<>>)>>, "fade_transition")
     EXCEPT !.scripts = Append(@, PathToken("c", "one.lua-2"))]>>

MCCollections ==
  [n \in 1..176 |-> IF n <= 30 THEN Single(n)
                    ELSE IF n <= 102 THEN Pair(n - 30)
                    ELSE IF n <= 174 THEN Pair(n - 102)
                    ELSE Joinable[n - 174]]

MCDocuments ==
  [n \in 1..176 |-> IF n \in 103..174 THEN Beheaded(Document(MCCollections[n]))
                    ELSE Document(MCCollections[n])]
=============================================================================
