---------------------------- MODULE MCPluginPlan ----------------------------
(* Launches for TLC: manifests of every shape, and each of them with one     *)
(* token removed, doubled or replaced, or cut off.                           *)
EXTENDS PluginLaunch

CONSTANTS a, b

List(refs) ==
  CASE Len(refs) = 0 -> <<"[", "]">>
    [] Len(refs) = 1 -> <<"[", refs[1], "]">>
    [] OTHER -> <<"[", refs[1], ",", refs[2], "]">>
Pair(key, value) == <<key, ":">> \o value \o <<",">>
Version == <<"version", ":", "one">>
OneRoot == <<"[", "{", "binaryDir", ":", "/dir", ",", "dataDir", ":", "null", "}", "]">>
TwoRoots ==
  <<"[", "{", "dataDir", ":", "/dir", ",", "note", ":", "[", "{", "}", "]", ",", "binaryDir", ":", "/dir", "}",
    ",", "{", "binaryDir", ":", "/dir", "}", "]">>

\* Every policy that a manifest can state.
Stated ==
  {<<"{">> \o Pair("exclude", List(e)) \o Pair("roots", OneRoot) \o Pair("selected", s) \o Version \o <<"}">> :
     e \in {<<>>, <<a>>, <<b>>, <<a, b>>},
     s \in {<<"null">>, List(<<>>), List(<<a>>), List(<<b>>), List(<<b, a>>)}}

\* A note as deep as it may be, and one level deeper.
Nested ==
  {<<"{">> \o Pair("roots", OneRoot) \o Version \o <<",", "note", ":", "[", "[", "{", "note", ":">> \o inner
     \o <<"}", "]", "]", "}">> : inner \in {<<"one">>, <<"[", "]">>, <<"[", "one", "]">>}}

\* Texts that are changed in one token.
Written ==
  {<<"{">> \o Pair("roots", OneRoot) \o Pair("selected", List(<<a, b>>)) \o Pair("exclude", List(<<b>>))
     \o Pair("retry", List(<<a>>)) \o Version \o <<"}">>,
   <<"{">> \o Version \o <<",">> \o Pair("note", <<"[", "{", "note", ":", "[", "one", ",", "[", "]", "]", "}", "]">>)
     \o <<"roots", ":">> \o TwoRoots \o <<"}">>,
   <<"{">> \o Pair("retry", List(<<>>)) \o Pair("roots", <<"[", "]">>) \o Version \o <<"}">>,
   <<"{", "}">>}

\* Texts with a key that comes again, at the top and in a root.
Repeating ==
  {<<"{">> \o Version \o <<",">> \o Pair("version", <<"one">>) \o Pair("roots", <<"[", "]">>) \o <<"}">>,
   <<"{">> \o Pair("roots", <<"[", "{", "dataDir", ":", "null", ",", "dataDir", ":", "null", "}", "]">>) \o Version \o <<"}">>}

Tokens == {"{", "}", "[", "]", ":", ",", "#", "version", "roots", "selected", "exclude", "binaryDir", "dataDir",
           "note", "", "dir", "/dir", "one", "two", "null", a}

Cut(t, i) == SubSeq(t, 1, i - 1)
Rest(t, i) == SubSeq(t, i + 1, Len(t))
Changed(t) ==
  UNION {{Cut(t, i), Cut(t, i) \o Rest(t, i), Cut(t, i) \o <<t[i], t[i]>> \o Rest(t, i)}
           \cup {Cut(t, i) \o <<token>> \o Rest(t, i) : token \in Tokens} : i \in 1..Len(t)}

MCTexts == Stated \cup Nested \cup Written \cup UNION {Changed(t) : t \in Written \cup Repeating}
=============================================================================
