------------------------------ MODULE Manifest ------------------------------
(***************************************************************************)
(* The --user-plugins-manifest of a launch: load_or_throw and the one-pass *)
(* parser behind it, with the refusal of every branch.                     *)
(*                                                                         *)
(* A text is a sequence of tokens; a token is a whole string, number or    *)
(* literal, a punctuation mark, or garbage that begins no token.  There is *)
(* one action per key of the schema, from its ':' to the ',' or '}' that   *)
(* follows its value.                                                      *)
(***************************************************************************)
EXTENDS Naturals, Sequences

CONSTANTS
  Refs,       \* the strings with the prefix "module:"
  Texts,      \* what the file of a launch may hold
  MaxTokens,  \* kMaxManifestBytes, counted in tokens
  MaxDepth    \* the depth at which skip_value gives up

LBrace == "{"
RBrace == "}"
LBracket == "["
RBracket == "]"
Colon == ":"
Comma == ","
Empty == ""
Marks == {LBrace, RBrace, LBracket, RBracket, Colon, Comma}

Keys == {"version", "roots", "selected", "exclude", "retry", "binaryDir", "dataDir", "note"}
Absolute == {"/dir"}
Strings == Keys \cup Absolute \cup {"dir", Empty} \cup Refs
Scalars == Strings \cup {"one", "two", "null"}
Closer == [open \in {LBrace, LBracket} |-> IF open = LBrace THEN RBrace ELSE RBracket]

\* A ref begins with "module:", as no other token does; "eof" is no token, it
\* is what is read where a text ends.
ASSUME RefsAreRefs ==
  Refs \cap (Keys \cup Absolute \cup Marks \cup {"dir", Empty, "one", "two", "null", "#", "eof"}) = {}
ASSUME TextsAssumption ==
  \A t \in Texts : t \in Seq({t[i] : i \in DOMAIN t}) /\ \A i \in DOMAIN t : t[i] # "eof"
ASSUME TextBounds == MaxTokens \in Nat /\ MaxDepth \in Nat

VARIABLES
  text,      \* what was read
  at,        \* pos_ of the scanner
  frame,     \* what the parser expects there
  keys,      \* seen_keys
  rootKeys,  \* seen_root_keys
  root,      \* the root that is being read
  version,   \* version_ok
  manifest,  \* what has been read so far
  outcome    \* "loading", "reading", "accepted", "booted", or why the launch was refused

parser == <<text, at, frame, keys, rootKeys, root, version, manifest, outcome>>

Tok(i) == IF i \in 1..Len(text) THEN text[i] ELSE "eof"

ParseInit ==
  /\ text = <<>> /\ at = 1 /\ frame = "open" /\ keys = {} /\ rootKeys = {}
  /\ root = [binaryDir |-> Empty, dataDir |-> Empty] /\ version = FALSE
  /\ manifest = [roots |-> <<>>, hasSelected |-> FALSE, selected |-> {}, exclude |-> {}, retry |-> {}]
  /\ outcome = "loading"

-----------------------------------------------------------------------------
(* The file                                                                *)

Load ==
  /\ outcome = "loading"
  /\ \/ /\ outcome' \in {"not-absolute-path", "unreadable-file"} /\ UNCHANGED text
     \/ \E t \in Texts :
          IF Len(t) > MaxTokens THEN outcome' = "manifest-too-large" /\ UNCHANGED text
                                ELSE outcome' = "reading" /\ text' = t
  /\ UNCHANGED <<at, frame, keys, rootKeys, root, version, manifest>>

-----------------------------------------------------------------------------
(* ManifestScanner                                                         *)

\* skip_value: the position after the value at i, or 0.  With a bracket, what
\* is skipped are the members or elements that follow it, and their end.
Places == Nat \X Nat \X {"value", LBrace, LBracket}

SkipAt(skip, i, depth, inside) ==
  IF inside = "value"
  THEN IF depth > MaxDepth THEN 0
       ELSE IF Tok(i) \in Scalars THEN i + 1
       ELSE IF Tok(i) \notin DOMAIN Closer THEN 0
       ELSE IF Tok(i + 1) = Closer[Tok(i)] THEN i + 2
       ELSE skip[<<i + 1, depth, Tok(i)>>]
  ELSE LET value == IF inside = LBracket THEN i ELSE i + 2
           named == inside = LBracket \/ (Tok(i) \in Strings /\ Tok(i + 1) = Colon)
           next == IF named THEN skip[<<value, depth + 1, "value">>] ELSE 0
       IN  IF next = 0 THEN 0
           ELSE IF Tok(next) = Comma THEN skip[<<next + 1, depth, inside>>]
           ELSE IF Tok(next) = Closer[inside] THEN next + 1
           ELSE 0

SkipFrom[p \in Places] == SkipAt(SkipFrom, p[1], p[2], p[3])

Skipped(i) == SkipFrom[<<i, 0, "value">>]

-----------------------------------------------------------------------------
(* parse_manifest_text                                                     *)

Expecting(f) == outcome = "reading" /\ frame = f

ParseEnds(code) ==
  outcome' = code /\ UNCHANGED <<text, at, frame, keys, rootKeys, root, version, manifest>>

\* A ',' leads to more of the same, the bracket to what is around it.
Proceed(next, more, bracket, around) ==
  \/ Tok(next) = Comma /\ frame' = more /\ at' = next + 1 /\ UNCHANGED outcome
  \/ Tok(next) = bracket /\ frame' = around /\ at' = next + 1 /\ UNCHANGED outcome
  \/ Tok(next) \notin {Comma, bracket} /\ outcome' = "malformed-json" /\ UNCHANGED <<frame, at>>

OpenManifest ==
  /\ Expecting("open")
  /\ IF Tok(1) # LBrace THEN ParseEnds("malformed-json")
     ELSE /\ IF Tok(2) = RBrace THEN frame' = "end" /\ at' = 3 ELSE frame' = "member" /\ at' = 2
          /\ UNCHANGED <<text, keys, rootKeys, root, version, manifest, outcome>>

\* Mutant of KeyFault: a key that comes again is taken.
KeyFaultOnce(seen) ==
  IF Tok(at) \in Strings /\ Tok(at + 1) = Colon THEN "none" ELSE "malformed-json"

\* Why the key at the scanner's position is not taken.
KeyFault(seen) ==
  IF Tok(at) \notin Strings THEN "malformed-json"
  ELSE IF Tok(at) \in seen THEN "duplicate-key"
  ELSE IF Tok(at + 1) # Colon THEN "malformed-json" ELSE "none"

RefuseKey ==
  \/ Expecting("member") /\ KeyFault(keys) # "none" /\ ParseEnds(KeyFault(keys))
  \/ Expecting("rootMember") /\ KeyFault(rootKeys) # "none" /\ ParseEnds(KeyFault(rootKeys))

ValueAt == at + 2
Member(k) == Expecting("member") /\ KeyFault(keys) = "none" /\ Tok(at) = k
MemberEnds(next) == keys' = keys \cup {Tok(at)} /\ Proceed(next, "member", RBrace, "end")

\* An integer other than 1, and any other value, is well-formed and no version.
ReadVersion ==
  /\ Member("version")
  /\ IF Skipped(ValueAt) = 0 THEN ParseEnds("malformed-json")
     ELSE /\ version' = (Tok(ValueAt) = "one") /\ MemberEnds(Skipped(ValueAt))
          /\ UNCHANGED <<text, rootKeys, root, manifest>>

SkipMember ==
  /\ \E k \in Strings \ {"version", "roots", "selected", "exclude", "retry"} : Member(k)
  /\ IF Skipped(ValueAt) = 0 THEN ParseEnds("malformed-json")
     ELSE MemberEnds(Skipped(ValueAt)) /\ UNCHANGED <<text, rootKeys, root, version, manifest>>

\* The place in a list of refs, from the element at i on, where it ends or fails.
ListStop(i) ==
  CHOOSE s \in i..(i + Len(text)) :
    /\ \E n \in 0..Len(text) : s = i + 2 * n
    /\ ~(Tok(s) \in Refs /\ Tok(s + 1) = Comma)
    /\ \A n \in 0..Len(text) : i + 2 * n < s => Tok(i + 2 * n) \in Refs /\ Tok(i + 2 * n + 1) = Comma

Invalid == [selected |-> "invalid-selected", exclude |-> "invalid-exclude", retry |-> "invalid-retry"]

\* Null is the absence of a selection, and of nothing else.
ReadNull ==
  /\ Member("selected") /\ Tok(ValueAt) = "null"
  /\ MemberEnds(ValueAt + 1) /\ UNCHANGED <<text, rootKeys, root, version, manifest>>

ReadRefs(k) ==
  LET first == ValueAt + 1
      last == ListStop(first)
      empty == Tok(first) = RBracket
  IN  /\ Member(k) /\ ~(k = "selected" /\ Tok(ValueAt) = "null")
      /\ IF Tok(ValueAt) # LBracket \/ (~empty /\ Tok(last) \notin Refs) THEN ParseEnds(Invalid[k])
         ELSE IF ~empty /\ Tok(last + 1) # RBracket THEN ParseEnds("malformed-json")
         ELSE /\ manifest' =
                   [manifest EXCEPT
                      ![k] = IF empty THEN {} ELSE {Tok(i) : i \in {i \in first..last : Tok(i) # Comma}},
                      !.hasSelected = IF k = "selected" THEN TRUE ELSE @]
              /\ MemberEnds(IF empty THEN first + 1 ELSE last + 2)
              /\ UNCHANGED <<text, rootKeys, root, version>>

-----------------------------------------------------------------------------
(* "roots"                                                                 *)

OpenRoots ==
  /\ Member("roots")
  /\ IF Tok(ValueAt) # LBracket THEN ParseEnds("invalid-roots")
     ELSE /\ IF Tok(ValueAt + 1) = RBracket THEN MemberEnds(ValueAt + 2)
             ELSE keys' = keys \cup {"roots"} /\ frame' = "root" /\ at' = ValueAt + 1 /\ UNCHANGED outcome
          /\ UNCHANGED <<text, rootKeys, root, version, manifest>>

\* A root without members has no binaryDir.
OpenRoot ==
  /\ Expecting("root")
  /\ IF Tok(at) # LBrace \/ Tok(at + 1) = RBrace THEN ParseEnds("invalid-roots")
     ELSE /\ frame' = "rootMember" /\ at' = at + 1
          /\ root' = [binaryDir |-> Empty, dataDir |-> Empty] /\ rootKeys' = {}
          /\ UNCHANGED <<text, keys, version, manifest, outcome>>

RootMember(k) == Expecting("rootMember") /\ KeyFault(rootKeys) = "none" /\ Tok(at) = k
RootMemberEnds(next) ==
  rootKeys' = rootKeys \cup {Tok(at)} /\ Proceed(next, "rootMember", RBrace, "rootClosed")

\* A data directory may be null.
ReadDir(k) ==
  LET null == k = "dataDir" /\ Tok(ValueAt) = "null"
  IN  /\ RootMember(k)
      /\ IF ~null /\ Tok(ValueAt) \notin Strings THEN ParseEnds("invalid-roots")
         ELSE /\ root' = [root EXCEPT ![k] = IF null THEN Empty ELSE Tok(ValueAt)]
              /\ RootMemberEnds(ValueAt + 1)
              /\ UNCHANGED <<text, keys, version, manifest>>

SkipRootMember ==
  /\ \E k \in Strings \ {"binaryDir", "dataDir"} : RootMember(k)
  /\ IF Skipped(ValueAt) = 0 THEN ParseEnds("malformed-json")
     ELSE RootMemberEnds(Skipped(ValueAt)) /\ UNCHANGED <<text, keys, root, version, manifest>>

CloseRoot ==
  /\ Expecting("rootClosed")
  /\ IF "binaryDir" \notin rootKeys THEN ParseEnds("invalid-roots")
     ELSE /\ manifest' = [manifest EXCEPT !.roots = Append(@, root)]
          /\ Proceed(at, "root", RBracket, "rootsClosed")
          /\ UNCHANGED <<text, keys, rootKeys, root, version>>

CloseRoots ==
  /\ Expecting("rootsClosed")
  /\ Proceed(at, "member", RBrace, "end")
  /\ UNCHANGED <<text, keys, rootKeys, root, version, manifest>>

-----------------------------------------------------------------------------
\* Both directories of a root are absolute, or there is no data directory.
RootRefused(r) == r.binaryDir \notin Absolute \/ r.dataDir \notin Absolute \cup {Empty}

\* Mutant of EndOfText: what follows the manifest is looked at last.
EndOfTextLast ==
  /\ Expecting("end")
  /\ ParseEnds(IF ~version THEN "unsupported-version"
               ELSE IF "roots" \notin keys THEN "invalid-roots"
               ELSE IF \E i \in 1..Len(manifest.roots) : RootRefused(manifest.roots[i]) THEN "invalid-roots"
               ELSE IF Tok(at) # "eof" THEN "malformed-json"
               ELSE "accepted")

EndOfText ==
  /\ Expecting("end")
  /\ ParseEnds(IF Tok(at) # "eof" THEN "malformed-json"
               ELSE IF ~version THEN "unsupported-version"
               ELSE IF "roots" \notin keys THEN "invalid-roots"
               ELSE IF \E i \in 1..Len(manifest.roots) : RootRefused(manifest.roots[i]) THEN "invalid-roots"
               ELSE "accepted")

ParseNext ==
  \/ Load \/ OpenManifest \/ RefuseKey \/ ReadVersion \/ SkipMember \/ ReadNull
  \/ \E k \in {"selected", "exclude", "retry"} : ReadRefs(k)
  \/ OpenRoots \/ OpenRoot \/ ReadDir("binaryDir") \/ ReadDir("dataDir") \/ SkipRootMember
  \/ CloseRoot \/ CloseRoots \/ EndOfText
=============================================================================
