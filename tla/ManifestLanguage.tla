-------------------------- MODULE ManifestLanguage --------------------------
(***************************************************************************)
(* What the schema user-plugins-manifest.v1 means, said without a parser:  *)
(* the grammar of JSON over spans of a text, and the members of an object  *)
(* by how deep they are enclosed.                                          *)
(***************************************************************************)
EXTENDS Manifest, FiniteSets

\* The span from i up to j is a value, or what stands between two brackets.
Spans == Nat \X Nat \X {"value", "member", LBrace, LBracket}

Derives(shorter, i, j, what) ==
  CASE what = "value" ->
         \/ j = i + 1 /\ Tok(i) \in Scalars
         \/ /\ j > i + 1 /\ Tok(i) \in DOMAIN Closer /\ Tok(j - 1) = Closer[Tok(i)]
            /\ j = i + 2 \/ shorter[<<i + 1, j - 1, Tok(i)>>]
    [] what = "member" -> Tok(i) \in Strings /\ Tok(i + 1) = Colon /\ shorter[<<i + 2, j, "value">>]
    [] OTHER ->
         LET item == IF what = LBrace THEN "member" ELSE "value"
         IN  \/ shorter[<<i, j, item>>]
             \/ \E k \in (i + 1)..(j - 1) :
                  Tok(k) = Comma /\ shorter[<<i, k, item>>] /\ shorter[<<k + 1, j, what>>]

Derived[s \in Spans] == Derives(Derived, s[1], s[2], s[3])

\* How many brackets are open before i.
Enclosing(i) == Cardinality({k \in 1..(i - 1) : Tok(k) \in DOMAIN Closer})
                  - Cardinality({k \in 1..(i - 1) : Tok(k) \in {RBrace, RBracket}})

\* The value at i ends where its enclosing object or array goes on, or ends.
ValueEnd(i) ==
  CHOOSE j \in (i + 1)..Len(text) :
    /\ Tok(j) \in {Comma, RBrace, RBracket} /\ Enclosing(j) = Enclosing(i)
    /\ \A k \in (i + 1)..(j - 1) : ~(Tok(k) \in {Comma, RBrace, RBracket} /\ Enclosing(k) = Enclosing(i))

\* The members of the object, and the elements of the array, whose bracket is at i.
Members(i) == {k \in i..ValueEnd(i) : Tok(k + 1) = Colon /\ Enclosing(k) = Enclosing(i) + 1}
Elements(i) == {k \in (i + 1)..(ValueEnd(i) - 2) : Enclosing(k) = Enclosing(i) + 1 /\ Tok(k) \notin {Comma, RBrace, RBracket}}

\* The object that a text is has no enclosing bracket to end it.
TopMembers == {k \in 1..Len(text) : Tok(k + 1) = Colon /\ Enclosing(k) = 1}
ValuesOf(members, key) == {k + 2 : k \in {m \in members : Tok(m) = key}}
Unique(members) == \A k, m \in members : Tok(k) = Tok(m) => k = m

\* A value inside another is skipped with it.
Schema == {"roots", "selected", "exclude", "retry"}
RootObjects == UNION {Elements(i) : i \in {i \in ValuesOf(TopMembers, "roots") : Tok(i) = LBracket}}
SchemaMembers == TopMembers \cup UNION {Members(i) : i \in {i \in RootObjects : Tok(i) = LBrace}}
SkippedAt == {k + 2 : k \in {m \in TopMembers : Tok(m) \notin Schema}}
               \cup {k + 2 : k \in {m \in SchemaMembers \ TopMembers : Tok(m) \notin {"binaryDir", "dataDir"}}}
TooDeep == \E i \in SkippedAt : \E k \in i..(ValueEnd(i) - 1) :
             Tok(k) \notin {RBrace, RBracket} /\ Enclosing(k) - Enclosing(i) > MaxDepth

IsJson == Tok(1) = LBrace /\ Derived[<<1, Len(text) + 1, "value">>]

DuplicateKey == ~Unique(TopMembers) \/ \E i \in RootObjects : Tok(i) = LBrace /\ ~Unique(Members(i))
NoVersion == \A i \in ValuesOf(TopMembers, "version") : Tok(i) # "one"

RefList(i) == Tok(i) = LBracket /\ \A k \in Elements(i) : Tok(k) \in Refs
NoRefList(key) ==
  \E i \in ValuesOf(TopMembers, key) : ~RefList(i) /\ ~(key = "selected" /\ Tok(i) = "null")

WellFormedRoot(i) ==
  /\ Tok(i) = LBrace
  /\ ValuesOf(Members(i), "binaryDir") # {}
  /\ \A k \in ValuesOf(Members(i), "binaryDir") : Tok(k) \in Absolute
  /\ \A k \in ValuesOf(Members(i), "dataDir") : Tok(k) \in Absolute \cup {Empty, "null"}
NoRoots == \/ ValuesOf(TopMembers, "roots") = {}
           \/ \E i \in ValuesOf(TopMembers, "roots") : Tok(i) # LBracket \/ \E k \in Elements(i) : ~WellFormedRoot(k)

\* What is wrong with a text that is JSON.
Faults ==
  (IF TooDeep THEN {"malformed-json"} ELSE {})
    \cup (IF DuplicateKey THEN {"duplicate-key"} ELSE {})
    \cup (IF NoVersion THEN {"unsupported-version"} ELSE {})
    \cup (IF NoRoots THEN {"invalid-roots"} ELSE {})
    \cup {Invalid[k] : k \in {k \in DOMAIN Invalid : NoRefList(k)}}

\* What a text without a fault means.
ListedUnder(key) == UNION {{Tok(k) : k \in Elements(i)} : i \in {i \in ValuesOf(TopMembers, key) : Tok(i) = LBracket}}
RootMeant(i) ==
  LET dataDir == ValuesOf(Members(i), "dataDir")
  IN  [binaryDir |-> Tok(CHOOSE k \in ValuesOf(Members(i), "binaryDir") : TRUE),
       dataDir |-> IF \E k \in dataDir : Tok(k) # "null" THEN Tok(CHOOSE k \in dataDir : TRUE) ELSE Empty]
Nth(positions, n) == CHOOSE k \in positions : Cardinality({m \in positions : m <= k}) = n
Meaning ==
  [roots |-> [n \in 1..Cardinality(RootObjects) |-> RootMeant(Nth(RootObjects, n))],
   hasSelected |-> \E i \in ValuesOf(TopMembers, "selected") : Tok(i) = LBracket,
   selected |-> ListedUnder("selected"),
   exclude |-> ListedUnder("exclude"),
   retry |-> ListedUnder("retry")]

Parsed == outcome \notin {"loading", "reading", "booted"} /\ text # <<>>

\* Launch validation is fail-closed, and closed only to what is wrong: a text
\* is accepted exactly if it is JSON and the schema has no fault to find in it,
\* and then the manifest is what the text says.
AcceptedAsMeant ==
  Parsed => /\ outcome = "accepted" <=> IsJson /\ Faults = {}
            /\ outcome = "accepted" => manifest = Meaning

-----------------------------------------------------------------------------
(* A text that is not JSON breaks somewhere, and is JSON as far as it goes *)

\* Behind the bracket at open, and before i, stand items with their commas, and
\* what is at i does not end them.
Begins(open, i) ==
  /\ Tok(open) \in DOMAIN Closer
  /\ \/ i = open + 1 /\ Tok(i) # Closer[Tok(open)]
     \/ i > open + 1 /\ Tok(i - 1) = Comma /\ Derived[<<open + 1, i - 1, Tok(open)>>]

KeyAt(open, i) == Tok(open) = LBrace /\ Begins(open, i) /\ Tok(i) \in Strings
KeysBefore(open, i) == {k \in (open + 1)..(i - 1) : Tok(k + 1) = Colon /\ Enclosing(k) = Enclosing(open) + 1}
RepeatsKey(open) == \E i \in 1..Len(text) : KeyAt(open, i) /\ \E k \in KeysBefore(open, i) : Tok(k) = Tok(i)

MemberAt(open, i, key) == KeyAt(open, i) /\ Tok(i) = key /\ Tok(i + 1) = Colon
RootAt(op) == \E i \in 1..Len(text) : MemberAt(1, i, "roots") /\ Tok(i + 2) = LBracket /\ Begins(i + 2, op)

ListsNoRef(key) ==
  \E i \in 1..Len(text) :
    /\ MemberAt(1, i, key) /\ ~(key = "selected" /\ Tok(i + 2) = "null")
    /\ Tok(i + 2) = LBracket => \E s \in 1..(Len(text) + 1) : Begins(i + 2, s) /\ Tok(s) \notin Refs

IsNoRoot(op) ==
  \/ Tok(op) # LBrace
  \/ \E i \in 1..Len(text) : /\ MemberAt(op, i, "binaryDir") \/ (MemberAt(op, i, "dataDir") /\ Tok(i + 2) # "null")
                             /\ Tok(i + 2) \notin Strings
  \/ \E e \in 1..(Len(text) + 1) :
       Derived[<<op, e, "value">>] /\ \A k \in KeysBefore(op, e - 1) : Tok(k) # "binaryDir"

\* What is wrong with such a text: that it breaks, or what is wrong before that.
FaultBefore(code) ==
  \/ code = "malformed-json"
  \/ code = "duplicate-key" /\ (RepeatsKey(1) \/ \E op \in 1..Len(text) : RootAt(op) /\ RepeatsKey(op))
  \/ \E key \in DOMAIN Invalid : code = Invalid[key] /\ ListsNoRef(key)
  \/ /\ code = "invalid-roots"
     /\ \/ \E i \in 1..Len(text) : MemberAt(1, i, "roots") /\ Tok(i + 2) # LBracket
        \/ \E op \in 1..(Len(text) + 1) : RootAt(op) /\ IsNoRoot(op)

\* The category code of a refusal is a fault that the text has: any of its
\* faults if it is JSON, and else that it is not, or a fault of what stands
\* before the place where it breaks.
RefusedForCause ==
  Parsed /\ outcome # "accepted" => IF IsJson THEN outcome \in Faults ELSE FaultBefore(outcome)
=============================================================================
