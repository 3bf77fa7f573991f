-------------------------- MODULE PluginPlanProofs --------------------------
(* Proofs about PluginPlan, for every set of names and types, every policy  *)
(* and any number of candidates; about PluginLaunch, for any manifest; and  *)
(* about Manifest against ManifestLanguage: the parser accepts the language *)
(* of the schema and reads what a text means, for texts of any length.      *)
EXTENDS PluginLaunch, Integers, FiniteSetTheorems, SequenceTheorems, NaturalsInduction, WellFoundedInduction, TLAPS

\* No copy of the ref comes before this one.
First(i) == \A j \in Indices : j < i => inventory[j].name # inventory[i].name

\* While the roots are listed a record is what the exclusions and the copies
\* before it make of it.
Listed ==
  pc \in {"discover", "plan"} =>
    /\ candidates = {} /\ opened = {} /\ registered = {}
    /\ \A i \in Indices :
         LET r == inventory[i]
         IN  /\ r.types = {}
             /\ r.lifecycle \in {"discovered", "excluded", "duplicate_in_roots"}
             /\ r.name \notin Portable => r.lifecycle = "discovered" /\ r.reason = "name-not-portable"
             /\ r.name \in Portable =>
                  /\ r.lifecycle = "excluded" <=> policy[r.name].excluded
                  /\ r.lifecycle = "discovered" => First(i)
                  /\ r.reason \in Refusals \cup {"null"}

\* What the plan and the refusals have granted so far.
Granted(i) ==
  LET r == inventory[i]
      p == policy[r.name]
  IN  /\ r.name \in Portable /\ ~r.foreign /\ First(i)
      /\ ~p.excluded /\ p.selected /\ (pc # "suspects" => ~p.suspect)

Chosen ==
  /\ \A i \in candidates :
       Granted(i) /\ inventory[i].reason = "null" /\ inventory[i].lifecycle = "discovered"
  /\ \A i \in opened :
       /\ Granted(i) /\ ~policy[inventory[i].name].bundled
       /\ inventory[i].reason \notin Refusals \cup {"name-not-portable"}
  /\ pc = "suspects" => opened = {}

\* The owner of a type is a module that was opened.
Owned == \A t \in Types : IF t \in registered THEN owner[t] \in opened ELSE owner[t] = 0

\* A record that is not a candidate any more says what became of it.
Told ==
  /\ pc \in {"suspects", "load", "frozen"} =>
       \A i \in Indices \ candidates :
         inventory[i].lifecycle = "discovered" => inventory[i].reason # "null" \/ inventory[i].state # "null"
  /\ pc = "frozen" => candidates = {}

IInv == TypeOK /\ Listed /\ Chosen /\ Owned /\ CreditedToOwner /\ Told

-----------------------------------------------------------------------------

\* A sequence that is made from another one, record by record.
LEMMA Rewritten ==
  ASSUME NEW S, NEW s \in Seq(S), NEW t, t = [i \in 1..Len(s) |-> t[i]], \A i \in 1..Len(s) : t[i] \in S
  PROVE  t \in Seq(S) /\ Len(t) = Len(s)
<1>1. Len(s) \in Nat  BY LenProperties
<1>2. t \in [1..Len(s) -> S]  OBVIOUS
<1> QED  BY <1>1, <1>2, IsASeq, LenProperties

\* One record more.
LEMMA Appended ==
  ASSUME NEW S, NEW s \in Seq(S), NEW e \in S
  PROVE  /\ Append(s, e) \in Seq(S) /\ Len(s) \in Nat /\ Len(Append(s, e)) = Len(s) + 1
         /\ \A i \in 1..Len(s) : Append(s, e)[i] = s[i]
         /\ Append(s, e)[Len(s) + 1] = e
BY AppendProperties, LenProperties

\* What the scan writes of a candidate.
LEMMA WhatIsWritten ==
  ASSUME policy \in [Portable -> Policies], NEW name \in Names, NEW kind \in Kinds
  PROVE  LET r == Discovered(name, kind)
         IN  /\ r \in Records /\ r.types = {} /\ r.name = name
             /\ r.lifecycle \in {"discovered", "excluded", "duplicate_in_roots"}
             /\ name \notin Portable => r.lifecycle = "discovered" /\ r.reason = "name-not-portable"
             /\ name \in Portable =>
                  /\ r.lifecycle = "excluded" <=> policy[name].excluded
                  /\ r.lifecycle = "discovered" => name \notin Seen
                  /\ r.reason \in Refusals \cup {"null"}
<1>1. CASE name \notin Portable
  BY <1>1 DEF Discovered, Record, Records, Lifecycles, States, Reasons
<1>2. CASE name \in Portable
  <2> DEFINE why == IF kind \in Refusals THEN kind ELSE "null"
  <2>1. why \in Refusals \cup {"null"} /\ why \in Reasons  BY DEF Refusals, Reasons
  <2>2. policy[name].excluded \in BOOLEAN  BY <1>2 DEF Policies
  <2>3. /\ Lifecycle(name) \in {"discovered", "excluded", "duplicate_in_roots"}
        /\ Lifecycle(name) = "excluded" <=> policy[name].excluded
        /\ Lifecycle(name) = "discovered" => name \notin Seen
    BY <2>2 DEF Lifecycle
  <2>4. Discovered(name, kind) = Record(name, kind = "other-arch", Lifecycle(name), why)
    BY <1>2 DEF Discovered
  <2> HIDE DEF why
  <2> QED  BY <1>2, <2>1, <2>3, <2>4 DEF Record, Records, Lifecycles, States
<1> QED  BY <1>1, <1>2

\* The record of a candidate that the scan comes to.
LEMMA DiscoverStep ==
  ASSUME IInv, NEW name \in Names, NEW kind \in Kinds, Discover(name, kind) PROVE IInv'
<1> DEFINE r == Discovered(name, kind)
<1>1. /\ r \in Records /\ r.types = {} /\ r.name = name
      /\ r.lifecycle \in {"discovered", "excluded", "duplicate_in_roots"}
      /\ name \notin Portable => r.lifecycle = "discovered" /\ r.reason = "name-not-portable"
      /\ name \in Portable =>
           /\ r.lifecycle = "excluded" <=> policy[name].excluded
           /\ r.lifecycle = "discovered" => name \notin Seen
           /\ r.reason \in Refusals \cup {"null"}
  BY WhatIsWritten DEF IInv, TypeOK
<1> HIDE DEF r
<1>2. /\ inventory \in Seq(Records) /\ inventory' = Append(inventory, r)
      /\ pc = "discover" /\ pc' = pc /\ policy' = policy /\ candidates' = {} /\ opened' = {}
      /\ registered' = {} /\ before' = {} /\ owner' = owner /\ Len(inventory) < MaxModules
  <2>1. pc = "discover" /\ candidates = {} /\ opened = {} /\ registered = {} /\ before = registered
    BY DEF Discover, Listed, TypeOK, IInv
  <2> QED  BY <2>1 DEF Discover, TypeOK, IInv, r
<1>3. /\ inventory' \in Seq(Records) /\ Len(inventory') = Len(inventory) + 1
      /\ Len(inventory) \in Nat /\ inventory'[Len(inventory) + 1] = r
      /\ \A i \in Indices : inventory'[i] = inventory[i]
  <2>1. r \in Records /\ inventory \in Seq(Records) /\ inventory' = Append(inventory, r)
    BY <1>1, <1>2
  <2> QED  BY <2>1, Appended DEF Indices
<1>4. Indices' = Indices \cup {Len(inventory) + 1} /\ Len(inventory) + 1 \notin Indices
  BY <1>2, <1>3 DEF Indices
<1>5. TypeOK'  BY <1>2, <1>3, BoundAssumption DEF TypeOK, IInv, Indices
<1>6. name \in Portable /\ r.lifecycle = "discovered"
        => \A j \in Indices : inventory[j].name # name
  BY <1>1, <1>2 DEF Seen, Listed, IInv
<1>7. Listed'
  <2> SUFFICES ASSUME NEW i \in Indices'
               PROVE  LET q == inventory'[i]
                      IN  /\ q.types = {}
                          /\ q.lifecycle \in {"discovered", "excluded", "duplicate_in_roots"}
                          /\ q.name \notin Portable => q.lifecycle = "discovered"
                                                        /\ q.reason = "name-not-portable"
                          /\ q.name \in Portable =>
                               /\ q.lifecycle = "excluded" <=> policy[q.name].excluded
                               /\ q.lifecycle = "discovered" => First(i)'
                               /\ q.reason \in Refusals \cup {"null"}
    BY <1>2 DEF Listed
  <2>1. CASE i \in Indices
    <3>1. First(i) => First(i)'  BY <2>1, <1>2, <1>3, <1>4 DEF First, Indices
    <3> QED  BY <3>1, <2>1, <1>2, <1>3 DEF Listed, IInv
  <2>2. CASE i = Len(inventory) + 1
    <3>1. r.lifecycle = "discovered" /\ name \in Portable => First(i)'
      <4>1. ASSUME r.lifecycle = "discovered", name \in Portable, NEW j \in Indices', j < i
            PROVE  inventory'[j].name # inventory'[i].name
        <5>1. j \in Indices  BY <4>1, <2>2, <1>4, <1>3
        <5>2. inventory'[j] = inventory[j] /\ inventory'[i].name = name
          BY <5>1, <2>2, <1>1, <1>3
        <5> QED  BY <5>1, <5>2, <4>1, <1>6
      <4> QED  BY <4>1 DEF First
    <3> QED  BY <3>1, <2>2, <1>1, <1>3
  <2> QED  BY <2>1, <2>2, <1>4
<1>8. CreditedToOwner'
  <2>1. \A t \in Types : owner[t] = 0  BY <1>2 DEF Owned, Listed, IInv
  <2>2. \A i \in Indices' : inventory'[i].types = {} /\ inventory'[i].lifecycle # "loaded"
    BY <1>1, <1>2, <1>3, <1>4 DEF Listed, IInv
  <2> QED  BY <2>1, <2>2, <1>2 DEF CreditedToOwner
<1>9. Chosen' /\ Owned' /\ Told'
  BY <1>2 DEF Chosen, Owned, Told, Listed, IInv
<1> QED  BY <1>5, <1>7, <1>8, <1>9 DEF IInv

\* What an index reads is a record.
LEMMA RecordsAt ==
  ASSUME TypeOK
  PROVE  Len(inventory) \in Nat /\ \A i \in Indices : inventory[i] \in Records
BY LenProperties DEF TypeOK, Indices

\* Being the first copy is a matter of the names alone.
LEMMA SameFirst ==
  ASSUME Indices' = Indices, \A i \in Indices : inventory'[i].name = inventory[i].name
  PROVE  \A i \in Indices : First(i)' <=> First(i)
BY DEF First

\* What the plan writes of a record.
LEMMA WhatIsPlanned ==
  ASSUME NEW i \in Indices, inventory[i] \in Records
  PROVE  LET r == inventory[i]
             q == Planned(i)
         IN  /\ q \in Records /\ q.name = r.name /\ q.foreign = r.foreign
             /\ q.types = r.types /\ q.lifecycle = r.lifecycle
             /\ q.reason # "null" \/ q.state # "null" \/ q = r
             /\ Plannable(i) /\ ~r.foreign /\ policy[r.name].selected => q = r
             /\ Plannable(i) /\ (r.foreign \/ ~policy[r.name].selected)
                  => q.reason # "null" \/ q.state # "null"
BY DEF Planned, Plannable, Records, States, Reasons

\* The plan.
LEMMA PlanStep == ASSUME IInv, BuildPlan PROVE IInv'
<1>1. /\ pc = "plan" /\ pc' = "suspects" /\ policy' = policy /\ owner' = owner
      /\ registered' = registered /\ before' = before /\ opened' = opened
      /\ candidates = {} /\ opened = {} /\ registered = {} /\ TypeOK
      /\ inventory' = [i \in Indices |-> Planned(i)]
      /\ candidates' = {i \in Indices : Plannable(i) /\ ~inventory[i].foreign
                                          /\ policy[inventory[i].name].selected}
  BY DEF BuildPlan, IInv, Listed
<1>2. Len(inventory) \in Nat /\ \A i \in Indices : inventory[i] \in Records
  BY <1>1, RecordsAt
<1>3. \A i \in Indices : inventory'[i] = Planned(i)  BY <1>1
<1>4. \A i \in Indices : inventory'[i] \in Records /\ inventory'[i].name = inventory[i].name
  BY <1>2, <1>3, WhatIsPlanned
<1>5. inventory' \in Seq(Records) /\ Len(inventory') = Len(inventory) /\ Indices' = Indices
  <2>1. DOMAIN inventory' = 1..Len(inventory)  BY <1>1 DEF Indices
  <2> QED  BY <1>1, <1>2, <1>4, <2>1 DEF Indices
<1>6. TypeOK'  BY <1>1, <1>5 DEF TypeOK
<1>7. \A i \in Indices : First(i)' <=> First(i)  BY <1>4, <1>5, SameFirst
<1>8. \A i \in candidates' :
        /\ i \in Indices /\ inventory'[i] = inventory[i] /\ Plannable(i)
        /\ ~inventory[i].foreign /\ policy[inventory[i].name].selected
  BY <1>1, <1>2, <1>3, WhatIsPlanned
<1>9. Chosen'
  <2>1. ASSUME NEW i \in candidates'
        PROVE  Granted(i)' /\ inventory'[i].reason = "null" /\ inventory'[i].lifecycle = "discovered"
    BY <2>1, <1>1, <1>7, <1>8 DEF IInv, Listed, Granted, Plannable
  <2> QED  BY <2>1, <1>1 DEF Chosen
<1>10. CreditedToOwner'
  <2>1. ASSUME NEW i \in Indices PROVE inventory'[i].types = {} /\ inventory'[i].lifecycle # "loaded"
    BY <1>1, <1>2, <1>3, WhatIsPlanned DEF IInv, Listed
  <2> QED  BY <2>1, <1>5 DEF CreditedToOwner
<1>11. Told'
  <2>1. ASSUME NEW i \in Indices, i \notin candidates', inventory'[i].lifecycle = "discovered"
        PROVE  inventory'[i].reason # "null" \/ inventory'[i].state # "null"
    <3>1. inventory[i].lifecycle = "discovered"  BY <2>1, <1>2, <1>3, WhatIsPlanned
    <3>2. CASE Plannable(i)  BY <2>1, <3>2, <1>1, <1>2, <1>3, WhatIsPlanned
    <3>3. CASE ~Plannable(i)
      BY <2>1, <3>1, <3>3, <1>3 DEF Planned, Plannable
    <3> QED  BY <3>2, <3>3
  <2> QED  BY <2>1, <1>1, <1>5 DEF Told
<1>12. Listed' /\ Owned'  BY <1>1 DEF Listed, Owned, IInv
<1> QED  BY <1>6, <1>9, <1>10, <1>11, <1>12 DEF IInv

\* The suspects.
LEMMA SuspectsStep == ASSUME IInv, RefuseSuspects PROVE IInv'
<1>1. /\ pc = "suspects" /\ pc' = "load" /\ policy' = policy /\ owner' = owner
      /\ registered' = registered /\ before' = before /\ opened' = opened /\ opened = {} /\ TypeOK
      /\ inventory' = [i \in Indices |->
           IF Suspected(i)
           THEN [inventory[i] EXCEPT !.lifecycle = "excluded", !.state = "runtime_crash",
                                     !.reason = "suspected"]
           ELSE inventory[i]]
      /\ candidates' = {i \in candidates : ~Suspected(i)}
  BY DEF RefuseSuspects, IInv, Chosen
<1>2. Len(inventory) \in Nat /\ \A i \in Indices : inventory[i] \in Records
  BY <1>1, RecordsAt
<1>3. \A i \in Indices : ~Suspected(i) => inventory'[i] = inventory[i]  BY <1>1
<1>4. \A i \in Indices : Suspected(i) =>
        inventory'[i] = [inventory[i] EXCEPT !.lifecycle = "excluded", !.state = "runtime_crash",
                                             !.reason = "suspected"]
  BY <1>1
<1>5. \A i \in Indices : /\ inventory'[i] \in Records /\ inventory'[i].name = inventory[i].name
                         /\ inventory'[i].types = inventory[i].types
                         /\ Suspected(i) => inventory'[i].lifecycle = "excluded"
  <2>1. "excluded" \in Lifecycles /\ "runtime_crash" \in States /\ "suspected" \in Reasons
    BY DEF Lifecycles, States, Reasons
  <2> SUFFICES ASSUME NEW i \in Indices
               PROVE  /\ inventory'[i] \in Records /\ inventory'[i].name = inventory[i].name
                      /\ inventory'[i].types = inventory[i].types
                      /\ Suspected(i) => inventory'[i].lifecycle = "excluded"
    OBVIOUS
  <2>2. CASE ~Suspected(i)  BY <2>2, <1>2, <1>3
  <2>3. CASE Suspected(i)
    <3> DEFINE r == inventory[i]
               q == [r EXCEPT !.lifecycle = "excluded", !.state = "runtime_crash",
                              !.reason = "suspected"]
    <3>1. inventory'[i] = q  BY <2>3, <1>4
    <3>2. r \in Records  BY <1>2
    <3> HIDE DEF r
    <3>3. q \in Records /\ q.name = r.name /\ q.types = r.types /\ q.lifecycle = "excluded"
      BY <3>2, <2>1 DEF Records
    <3> QED  BY <3>1, <3>3 DEF r
  <2> QED  BY <2>2, <2>3
<1>6. inventory' \in Seq(Records) /\ Len(inventory') = Len(inventory) /\ Indices' = Indices
  <2>1. inventory' = [i \in 1..Len(inventory) |-> inventory'[i]]  BY <1>1 DEF Indices
  <2>2. inventory \in Seq(Records) /\ \A i \in 1..Len(inventory) : inventory'[i] \in Records
    BY <1>1, <1>5 DEF TypeOK, Indices
  <2> HIDE DEF Records
  <2> QED  BY <2>1, <2>2, Rewritten DEF Indices
<1>7. TypeOK'  BY <1>1, <1>6 DEF TypeOK
<1>8. \A i \in Indices : First(i)' <=> First(i)  BY <1>5, <1>6, SameFirst
<1>9. Chosen'
  <2>1. ASSUME NEW i \in candidates'
        PROVE  Granted(i)' /\ inventory'[i].reason = "null" /\ inventory'[i].lifecycle = "discovered"
    <3>1. i \in candidates /\ i \in Indices /\ ~Suspected(i) /\ inventory'[i] = inventory[i]
      BY <1>1, <1>3 DEF TypeOK
    <3>2. Granted(i) /\ inventory[i].reason = "null" /\ inventory[i].lifecycle = "discovered"
      BY <3>1 DEF IInv, Chosen
    <3> QED  BY <3>1, <3>2, <1>1, <1>8 DEF Granted, Suspected
  <2> QED  BY <2>1, <1>1 DEF Chosen
<1>10. CreditedToOwner'
  <2>1. \A i \in Indices : inventory[i].lifecycle # "loaded" \/ ~Suspected(i)
    BY DEF IInv, Chosen, Suspected
  <2>2. \A t \in Types : owner[t] = 0 \/ owner[t] \notin Indices
    BY <1>1 DEF IInv, Owned
  <2> QED  BY <2>1, <2>2, <1>1, <1>3, <1>5, <1>6 DEF IInv, CreditedToOwner
<1>11. Told'  BY <1>1, <1>3, <1>5, <1>6 DEF IInv, Told, Suspected
<1>12. Listed' /\ Owned'  BY <1>1 DEF Listed, Owned, IInv
<1> QED  BY <1>7, <1>9, <1>10, <1>11, <1>12 DEF IInv

\* The scan is over, or every candidate has been taken.
LEMMA TurnsStep == ASSUME IInv, ScanEnds \/ Freeze PROVE IInv'
<1>1. /\ policy' = policy /\ inventory' = inventory /\ candidates' = candidates
      /\ registered' = registered /\ before' = before /\ opened' = opened /\ owner' = owner
      /\ Indices' = Indices
  BY DEF ScanEnds, Freeze, Indices
<1>2. \/ pc = "discover" /\ pc' = "plan"
      \/ pc = "load" /\ pc' = "frozen" /\ candidates = {}
  BY DEF ScanEnds, Freeze
<1>3. TypeOK'  BY <1>1, <1>2 DEF IInv, TypeOK
<1>4. \A i \in Indices : First(i)' <=> First(i)  BY <1>1 DEF First
<1>5. Listed'  BY <1>1, <1>2, <1>4 DEF IInv, Listed
<1>6. Chosen'
  <2>1. \A i \in Indices : Granted(i)' <=> Granted(i)  BY <1>1, <1>2, <1>4 DEF Granted
  <2>2. candidates \subseteq Indices /\ opened \subseteq Indices  BY DEF IInv, TypeOK
  <2> QED  BY <2>1, <2>2, <1>1, <1>2 DEF IInv, Chosen
<1>7. Owned' /\ CreditedToOwner' /\ Told'
  BY <1>1, <1>2 DEF IInv, Owned, CreditedToOwner, Told
<1> QED  BY <1>3, <1>5, <1>6, <1>7 DEF IInv

\* One record of the inventory that is written again, and says what became of
\* its candidate.
Settled(i, q) ==
  /\ inventory' = [inventory EXCEPT ![i] = q]
  /\ q \in Records /\ q.name = inventory[i].name /\ q.foreign = inventory[i].foreign
  /\ q.lifecycle # "discovered"

\* What a record that is written again leaves as it was.
LEMMA SettledStep ==
  ASSUME TypeOK, NEW i \in Indices, NEW q, Settled(i, q)
  PROVE  /\ inventory' \in Seq(Records) /\ Len(inventory') = Len(inventory) /\ Indices' = Indices
         /\ inventory'[i] = q
         /\ \A j \in Indices : j # i => inventory'[j] = inventory[j]
         /\ \A j \in Indices : inventory'[j].name = inventory[j].name
                                 /\ inventory'[j].foreign = inventory[j].foreign
<1> HIDE DEF Records
<1>1. inventory \in Seq(Records) /\ i \in 1..Len(inventory) /\ q \in Records
      /\ inventory' = [inventory EXCEPT ![i] = q]
  BY DEF TypeOK, Settled, Indices
<1>2. inventory' \in Seq(Records) /\ Len(inventory') = Len(inventory)
  BY <1>1, ExceptSeq
<1>3. inventory'[i] = q /\ \A j \in Indices : j # i => inventory'[j] = inventory[j]
  BY <1>1, ExceptSeq DEF Indices
<1>4. Indices' = Indices  BY <1>2 DEF Indices
<1> QED  BY <1>2, <1>3, <1>4 DEF Settled

\* The three fields that a refusal writes settle the record.
LEMMA SetSettles ==
  ASSUME TypeOK, NEW i \in Indices,
         NEW l \in Lifecycles \ {"discovered"}, NEW st \in States, NEW why \in Reasons, Set(i, l, st, why)
  PROVE  \E q : /\ Settled(i, q) /\ q.types = inventory[i].types
                /\ q.lifecycle = l /\ q.reason = why
<1> DEFINE r == inventory[i]
           q == [r EXCEPT !.lifecycle = l, !.state = st, !.reason = why]
<1>1. r \in Records  BY RecordsAt
<1>2. inventory' = [inventory EXCEPT ![i] = q]
  <2>1. inventory \in Seq(Records) /\ i \in DOMAIN inventory  BY LenProperties DEF TypeOK, Indices
  <2> QED  BY <2>1, <1>1 DEF Set, Records
<1> HIDE DEF r
<1>3. /\ q \in Records /\ q.name = r.name /\ q.types = r.types /\ q.foreign = r.foreign
      /\ q.lifecycle = l /\ q.reason = why
  BY <1>1 DEF Records
<1> HIDE DEF q
<1> QED  BY <1>2, <1>3 DEF Settled, r

\* What taking a candidate leaves of the plan, whatever becomes of it.
LEMMA TakenStep ==
  ASSUME IInv, NEW i \in Indices, NEW q, Settled(i, q), Taken(i), policy' = policy, pc' = pc,
         \/ opened' = opened
         \/ /\ opened' = opened \cup {i} /\ ~Bundled(i)
            /\ q.reason \notin Refusals \cup {"name-not-portable"}
  PROVE  /\ inventory' \in Seq(Records) /\ Len(inventory') <= MaxModules
         /\ candidates' \subseteq Indices' /\ opened' \subseteq Indices' /\ candidates' \cap opened' = {}
         /\ Listed' /\ Chosen' /\ Told'
<1>1. /\ pc = "load" /\ i \in candidates /\ candidates' = candidates \ {i}
      /\ candidates \subseteq Indices /\ opened \subseteq Indices /\ candidates \cap opened = {}
      /\ inventory \in Seq(Records) /\ Len(inventory) <= MaxModules
      /\ opened' \subseteq opened \cup {i}
  BY DEF IInv, TypeOK, Taken
<1>2. /\ inventory' \in Seq(Records) /\ Len(inventory') = Len(inventory) /\ Indices' = Indices
      /\ inventory'[i] = q /\ q.lifecycle # "discovered"
      /\ \A j \in Indices : j # i => inventory'[j] = inventory[j]
      /\ \A j \in Indices : inventory'[j].name = inventory[j].name
                              /\ inventory'[j].foreign = inventory[j].foreign
  BY SettledStep DEF IInv, Settled
<1>3. \A j \in Indices : Granted(j)' <=> Granted(j)
  <2>1. \A j \in Indices : First(j)' <=> First(j)  BY <1>2, SameFirst
  <2> QED  BY <2>1, <1>1, <1>2 DEF Granted
<1>4. Granted(i) /\ \A j \in opened : Granted(j) /\ ~policy[inventory[j].name].bundled
        /\ inventory[j].reason \notin Refusals \cup {"name-not-portable"}
  BY <1>1 DEF IInv, Chosen
<1>5. Chosen'
  <2>1. ASSUME NEW j \in candidates'
        PROVE  Granted(j)' /\ inventory'[j].reason = "null" /\ inventory'[j].lifecycle = "discovered"
    <3>1. j \in candidates /\ j # i /\ j \in Indices  BY <2>1, <1>1
    <3> QED  BY <3>1, <1>2, <1>3 DEF IInv, Chosen
  <2>2. ASSUME NEW j \in opened'
        PROVE  /\ Granted(j)' /\ ~policy'[inventory'[j].name].bundled
               /\ inventory'[j].reason \notin Refusals \cup {"name-not-portable"}
    <3>1. CASE j \in opened
      <4>1. j # i /\ j \in Indices  BY <3>1, <1>1
      <4> QED  BY <3>1, <4>1, <1>2, <1>3, <1>4
    <3>2. CASE j = i /\ j \notin opened  BY <2>2, <3>2, <1>2, <1>3, <1>4 DEF Bundled
    <3> QED  BY <2>2, <3>1, <3>2, <1>1
  <2> QED  BY <2>1, <2>2, <1>1 DEF Chosen
<1>6. Told'
  <2>1. ASSUME NEW j \in Indices, j \notin candidates', inventory'[j].lifecycle = "discovered"
        PROVE  inventory'[j].reason # "null" \/ inventory'[j].state # "null"
    <3>1. j # i /\ j \notin candidates  BY <2>1, <1>1, <1>2
    <3> QED  BY <3>1, <2>1, <1>1, <1>2 DEF IInv, Told
  <2> QED  BY <2>1, <1>1, <1>2 DEF Told
<1>7. Listed'  BY <1>1 DEF Listed
<1> QED  BY <1>1, <1>2, <1>5, <1>6, <1>7

\* A candidate has no types yet.
LEMMA CandidateHasNone ==
  ASSUME IInv, NEW i \in candidates
  PROVE  i \in Indices /\ i \in Nat \ {0} /\ inventory[i].types = {} /\ \A t \in Types : owner[t] # i
<1>1. i \in Indices /\ i \notin opened /\ Len(inventory) \in Nat
  BY RecordsAt DEF IInv, TypeOK
<1>2. i \in Nat \ {0}  BY <1>1 DEF Indices
<1>3. inventory[i].lifecycle = "discovered"  BY DEF IInv, Chosen
<1>4. inventory[i].types = {}  BY <1>1, <1>3 DEF IInv, CreditedToOwner
<1> QED  BY <1>1, <1>2, <1>4 DEF IInv, Owned

\* A candidate that registers nothing.
LEMMA NothingRegistered ==
  ASSUME IInv, NEW i \in Indices, NEW q, Settled(i, q), Taken(i), policy' = policy, pc' = pc,
         opened \subseteq opened', q.types = inventory[i].types, q.lifecycle # "loaded",
         registered' = registered, before' = before, owner' = owner
  PROVE  before' = registered' /\ registered' \subseteq Types /\ owner' \in [Types -> 0..MaxModules]
         /\ Owned' /\ CreditedToOwner'
<1>1. inventory[i].types = {} /\ \A t \in Types : owner[t] # i
  BY CandidateHasNone DEF Taken
<1>2. Indices' = Indices /\ inventory'[i] = q /\ \A j \in Indices : j # i => inventory'[j] = inventory[j]
  BY SettledStep DEF IInv
<1>3. CreditedToOwner'  BY <1>1, <1>2 DEF IInv, CreditedToOwner
<1> QED  BY <1>3 DEF IInv, TypeOK, Owned

\* A candidate that registers types, and the credit it gets or does not get.
LEMMA SomeRegistered ==
  ASSUME IInv, NEW i \in Indices, NEW q, Settled(i, q), Taken(i), policy' = policy, pc' = pc,
         opened' = opened \cup {i}, NEW new \in SUBSET Types, Registers(i, new), before' = registered',
         q.types = IF q.lifecycle = "loaded" THEN new \cap PortableTypes ELSE {}
  PROVE  before' = registered' /\ registered' \subseteq Types /\ owner' \in [Types -> 0..MaxModules]
         /\ Owned' /\ CreditedToOwner'
<1>1. /\ i \in Nat \ {0} /\ \A t \in Types : owner[t] # i
  BY CandidateHasNone DEF Taken
<1>2. Indices' = Indices /\ inventory'[i] = q /\ \A j \in Indices : j # i => inventory'[j] = inventory[j]
  BY SettledStep DEF IInv
<1>3. /\ registered' = registered \cup new /\ new \cap registered = {} /\ new \subseteq Types
      /\ owner' = [t \in Types |-> IF t \in new THEN i ELSE owner[t]]
      /\ owner \in [Types -> 0..MaxModules] /\ registered \subseteq Types
  BY DEF Registers, IInv, TypeOK
<1>4. i <= MaxModules /\ i \in 0..MaxModules
  <2>1. Len(inventory) \in Nat /\ Len(inventory) <= MaxModules  BY RecordsAt DEF IInv, TypeOK
  <2> QED  BY <1>1, <2>1, BoundAssumption DEF Indices
<1>5. owner' \in [Types -> 0..MaxModules]  BY <1>3, <1>4
<1>6. Owned'
  <2>1. ASSUME NEW t \in Types
        PROVE  IF t \in registered' THEN owner'[t] \in opened' ELSE owner'[t] = 0
    BY <1>3 DEF IInv, Owned
  <2> QED  BY <2>1 DEF Owned
<1>7. \A t \in Types : t \in new => owner[t] = 0  BY <1>3 DEF IInv, Owned
<1>8. CreditedToOwner'
  <2> SUFFICES ASSUME NEW j \in Indices
               PROVE  inventory'[j].types = IF inventory'[j].lifecycle = "loaded"
                                            THEN {t \in PortableTypes : owner'[t] = j} ELSE {}
    BY <1>2 DEF CreditedToOwner
  <2>1. CASE j = i
    <3>1. {t \in PortableTypes : owner'[t] = i} = new \cap PortableTypes
      BY <1>1, <1>3, NamesAssumption
    <3> QED  BY <2>1, <3>1, <1>2
  <2>2. CASE j # i
    <3>1. j # 0
      <4>1. Len(inventory) \in Nat  BY RecordsAt DEF IInv
      <4> QED  BY <4>1 DEF Indices
    <3>2. {t \in PortableTypes : owner'[t] = j} = {t \in PortableTypes : owner[t] = j}
      BY <2>2, <3>1, <1>3, <1>7, NamesAssumption
    <3> QED  BY <2>2, <3>2, <1>2 DEF IInv, CreditedToOwner
  <2> QED  BY <2>1, <2>2
<1> QED  BY <1>3, <1>5, <1>6, <1>8

\* A candidate that is refused before its file is opened.
LEMMA RefuseStep == ASSUME IInv, NEW i \in Indices, Refuse(i) PROVE IInv'
<1>1. /\ Taken(i) /\ policy' = policy /\ pc' = pc /\ opened' = opened
      /\ registered' = registered /\ before' = before /\ owner' = owner /\ TypeOK
  BY DEF Refuse, IInv
<1>2. \E l \in {"duplicate_of_bundled", "load_failed", "excluded"}, st \in States, why \in Reasons :
        Set(i, l, st, why)
  BY DEF Refuse, States, Reasons, Refusals
<1>3. PICK l \in Lifecycles \ {"discovered", "loaded"}, st \in States, why \in Reasons : Set(i, l, st, why)
  BY <1>2 DEF Lifecycles
<1>4. PICK q : Settled(i, q) /\ q.types = inventory[i].types /\ q.lifecycle = l
  BY <1>1, <1>3, SetSettles
<1>5. before' = registered' /\ registered' \subseteq Types /\ owner' \in [Types -> 0..MaxModules]
      /\ Owned' /\ CreditedToOwner'
  BY <1>1, <1>3, <1>4, NothingRegistered
<1>6. /\ inventory' \in Seq(Records) /\ Len(inventory') <= MaxModules
      /\ candidates' \subseteq Indices' /\ opened' \subseteq Indices' /\ candidates' \cap opened' = {}
      /\ Listed' /\ Chosen' /\ Told'
  BY <1>1, <1>4, TakenStep
<1> QED  BY <1>1, <1>5, <1>6 DEF IInv, TypeOK

\* A file that libobs does not open.
LEMMA OpenFailsStep == ASSUME IInv, NEW i \in Indices, OpenFails(i) PROVE IInv'
<1>1. /\ Taken(i) /\ ~Bundled(i) /\ opened' = opened \cup {i} /\ policy' = policy /\ pc' = pc
      /\ registered' = registered /\ before' = before /\ owner' = owner /\ TypeOK
  BY DEF OpenFails, Opens, IInv
<1>2. PICK st \in States, why \in Reasons \ (Refusals \cup {"name-not-portable"}) :
        Set(i, "load_failed", st, why)
  <2>1. PICK w \in OpenFailures : Set(i, "load_failed", w[1], w[2])  BY DEF OpenFails
  <2>2. w[1] \in States /\ w[2] \in Reasons \ (Refusals \cup {"name-not-portable"})
    BY <2>1 DEF OpenFailures, States, Reasons, Refusals
  <2> QED  BY <2>1, <2>2
<1>3. "load_failed" \in Lifecycles \ {"discovered"}  BY DEF Lifecycles
<1>4. PICK q : /\ Settled(i, q) /\ q.types = inventory[i].types
               /\ q.lifecycle = "load_failed" /\ q.reason = why
  BY <1>1, <1>2, <1>3, SetSettles
<1>5. before' = registered' /\ registered' \subseteq Types /\ owner' \in [Types -> 0..MaxModules]
      /\ Owned' /\ CreditedToOwner'
  BY <1>1, <1>4, NothingRegistered
<1>6. /\ inventory' \in Seq(Records) /\ Len(inventory') <= MaxModules
      /\ candidates' \subseteq Indices' /\ opened' \subseteq Indices' /\ candidates' \cap opened' = {}
      /\ Listed' /\ Chosen' /\ Told'
  BY <1>1, <1>2, <1>4, TakenStep
<1> QED  BY <1>1, <1>5, <1>6 DEF IInv, TypeOK

\* A module that registers types and fails all the same.
LEMMA InitFailsStep ==
  ASSUME IInv, NEW i \in Indices, NEW new \in SUBSET Types, InitFails(i, new) PROVE IInv'
<1>1. /\ Taken(i) /\ ~Bundled(i) /\ opened' = opened \cup {i} /\ policy' = policy /\ pc' = pc
      /\ Registers(i, new) /\ before' = registered' /\ TypeOK
      /\ Set(i, "load_failed", "module_load_failed", "module-init-failed")
  BY DEF InitFails, Opens, IInv
<1>2. /\ "load_failed" \in Lifecycles \ {"discovered"} /\ "module_load_failed" \in States
      /\ "module-init-failed" \in Reasons /\ "module-init-failed" \notin Refusals \cup {"name-not-portable"}
  BY DEF Lifecycles, States, Reasons, Refusals
<1>3. PICK q : /\ Settled(i, q) /\ q.types = inventory[i].types
               /\ q.lifecycle = "load_failed" /\ q.reason = "module-init-failed"
  BY <1>1, <1>2, SetSettles
<1>4. q.types = {} /\ q.lifecycle # "loaded"  BY <1>1, <1>3, CandidateHasNone DEF Taken
<1>5. before' = registered' /\ registered' \subseteq Types /\ owner' \in [Types -> 0..MaxModules]
      /\ Owned' /\ CreditedToOwner'
  BY <1>1, <1>3, <1>4, SomeRegistered
<1>6. /\ inventory' \in Seq(Records) /\ Len(inventory') <= MaxModules
      /\ candidates' \subseteq Indices' /\ opened' \subseteq Indices' /\ candidates' \cap opened' = {}
      /\ Listed' /\ Chosen' /\ Told'
  BY <1>1, <1>2, <1>3, TakenStep
<1> QED  BY <1>1, <1>5, <1>6 DEF IInv, TypeOK

\* A module that loads.
LEMMA LoadsStep ==
  ASSUME IInv, NEW i \in Indices, NEW new \in SUBSET Types, Loads(i, new) PROVE IInv'
<1> DEFINE r == inventory[i]
           types == new \cap PortableTypes
           st == IF types = {} THEN "type_not_registered" ELSE "null"
           q == [r EXCEPT !.lifecycle = "loaded", !.types = types, !.state = st]
<1>1. /\ Taken(i) /\ ~Bundled(i) /\ opened' = opened \cup {i} /\ policy' = policy /\ pc' = pc
      /\ Registers(i, new) /\ before' = registered' /\ TypeOK
  BY DEF Loads, Opens, IInv
<1>2. (registered' \ before) \cap PortableTypes = types
  BY <1>1 DEF Registers, TypeOK
<1>3. r \in Records /\ inventory \in Seq(Records) /\ i \in DOMAIN inventory
  BY <1>1, RecordsAt, LenProperties DEF TypeOK, Indices
<1>4. r.reason = "null"  BY <1>1 DEF IInv, Chosen, Taken
<1>5. st \in States /\ "loaded" \in Lifecycles /\ "null" \notin Refusals \cup {"name-not-portable"}
  BY DEF States, Lifecycles, Refusals
<1>6. types \in SUBSET PortableTypes  OBVIOUS
<1>7. inventory' = [inventory EXCEPT ![i].lifecycle = "loaded", ![i].types = types, ![i].state = st]
  BY <1>2 DEF Loads
<1> HIDE DEF types, st
<1>8. inventory' = [inventory EXCEPT ![i] = q]  BY <1>3, <1>7 DEF Records
<1> HIDE DEF r
<1>9. /\ q \in Records /\ q.name = r.name /\ q.foreign = r.foreign
      /\ q.lifecycle = "loaded" /\ q.reason = r.reason /\ q.types = types
  BY <1>3, <1>5, <1>6 DEF Records
<1> HIDE DEF q
<1>10. Settled(i, q)  BY <1>8, <1>9 DEF Settled, r
<1>11. q.types = IF q.lifecycle = "loaded" THEN new \cap PortableTypes ELSE {}
  BY <1>9 DEF types
<1>12. before' = registered' /\ registered' \subseteq Types /\ owner' \in [Types -> 0..MaxModules]
       /\ Owned' /\ CreditedToOwner'
  BY <1>1, <1>10, <1>11, SomeRegistered
<1>13. /\ inventory' \in Seq(Records) /\ Len(inventory') <= MaxModules
       /\ candidates' \subseteq Indices' /\ opened' \subseteq Indices' /\ candidates' \cap opened' = {}
       /\ Listed' /\ Chosen' /\ Told'
  BY <1>1, <1>4, <1>5, <1>9, <1>10, TakenStep
<1> QED  BY <1>1, <1>12, <1>13 DEF IInv, TypeOK

-----------------------------------------------------------------------------

\* The initial states satisfy the inductive invariant.
LEMMA InitInvariant == Init => IInv
<1> SUFFICES ASSUME Init PROVE IInv  OBVIOUS
<1>1. Len(inventory) = 0 /\ inventory \in Seq(Records) /\ Indices = {}
  <2>1. inventory = <<>>  BY DEF Init
  <2> QED  BY <2>1, EmptySeq DEF Indices
<1>2. TypeOK  BY <1>1, BoundAssumption DEF Init, TypeOK, Policies
<1> QED  BY <1>1, <1>2 DEF Init, IInv, Listed, Chosen, Owned, CreditedToOwner, Told

\* Every step keeps the inductive invariant.
LEMMA NextInvariant == IInv /\ [Next]_vars => IInv'
<1> SUFFICES ASSUME IInv, [Next]_vars PROVE IInv'  OBVIOUS
<1>1. CASE \E name \in Names, kind \in Kinds : Discover(name, kind)  BY <1>1, DiscoverStep
<1>2. CASE ScanEnds \/ Freeze  BY <1>2, TurnsStep
<1>3. CASE BuildPlan  BY <1>3, PlanStep
<1>4. CASE RefuseSuspects  BY <1>4, SuspectsStep
<1>5. CASE \E i \in Indices : Refuse(i)  BY <1>5, RefuseStep
<1>6. CASE \E i \in Indices : OpenFails(i)  BY <1>6, OpenFailsStep
<1>7. CASE \E i \in Indices, new \in SUBSET Types : InitFails(i, new)  BY <1>7, InitFailsStep
<1>8. CASE \E i \in Indices, new \in SUBSET Types : Loads(i, new)  BY <1>8, LoadsStep
<1>9. CASE UNCHANGED vars
  <2> USE <1>9 DEF vars, IInv, Indices
  <2>1. TypeOK'  BY DEF TypeOK
  <2>2. Listed' /\ Chosen'  BY DEF Listed, Chosen, First, Granted
  <2>3. Owned' /\ CreditedToOwner'  BY DEF Owned, CreditedToOwner
  <2>4. Told'  BY DEF Told
  <2> QED  BY <2>1, <2>2, <2>3, <2>4
<1> QED  BY <1>1, <1>2, <1>3, <1>4, <1>5, <1>6, <1>7, <1>8, <1>9 DEF Next

\* The inductive invariant holds in every state that a boot can reach.
THEOREM InductiveInvariant == Spec => []IInv
BY InitInvariant, NextInvariant, PTL DEF Spec

\* Every variable has its type (the records of the inventory among them).
THEOREM TypeCorrect == Spec => []TypeOK
<1>1. IInv => TypeOK  BY DEF IInv
<1> QED  BY <1>1, InductiveInvariant, PTL

\* load_user_plugin_candidates opens the first copy of a ref and no other one.
THEOREM FirstCopyOpens == Spec => []OnlyFirstCopyOpens
<1>1. IInv => OnlyFirstCopyOpens  BY DEF IInv, TypeOK, Chosen, Granted, First, OnlyFirstCopyOpens
<1> QED  BY <1>1, InductiveInvariant, PTL

\* It opens what the manifest selects and what neither the manifest, the
\* sentinel, a bundled module nor the inventory refuses.
THEOREM OpeningIsGranted == Spec => []OpenedWasGranted
<1>1. IInv => OpenedWasGranted
  <2> SUFFICES ASSUME IInv, NEW i \in opened
               PROVE  LET p == policy[inventory[i].name]
                      IN  /\ ~p.excluded /\ p.selected /\ ~p.suspect /\ ~p.bundled
                          /\ inventory[i].name \in Portable /\ ~inventory[i].foreign
                          /\ inventory[i].reason \notin Refusals \cup {"name-not-portable"}
    BY DEF OpenedWasGranted
  <2> QED  BY DEF IInv, Chosen, Granted
<1> QED  BY <1>1, InductiveInvariant, PTL

\* The difference of two snapshots is what the module registered itself.
THEOREM CreditIsRight == Spec => []CreditedToOwner
<1>1. IInv => CreditedToOwner  BY DEF IInv
<1> QED  BY <1>1, InductiveInvariant, PTL

\* The frozen report gives a reason for every module it does not name as loaded.
THEOREM ReportIsComplete == Spec => []NothingDropped
<1>1. IInv => NothingDropped  BY DEF IInv, Told, NothingDropped
<1> QED  BY <1>1, InductiveInvariant, PTL

-----------------------------------------------------------------------------
(* The launch                                                              *)

\* What the boot follows is what the manifest says.
Obeyed ==
  \A name \in Portable :
    policy[name].excluded = (name \in manifest.exclude) /\ policy[name].selected = Selected(name)

\* Nothing happens before the manifest is accepted, and little without a root.
LaunchInv ==
  /\ IInv
  /\ outcome # "booted" => pc = "discover" /\ inventory = <<>> /\ owner = [t \in Types |-> 0]
  /\ outcome = "booted" => Obeyed
  /\ outcome = "booted" /\ manifest.roots = <<>> => pc # "discover" /\ inventory = <<>>

\* A fault of a key is a code of a refusal.
LEMMA KeyFaults == ASSUME NEW seen PROVE KeyFault(seen) # "booted"
BY DEF KeyFault

\* The parser does not boot.
LEMMA ParserRefusesOrAccepts == ParseNext => outcome # "booted" /\ outcome' # "booted"
<1> SUFFICES ASSUME ParseNext PROVE outcome # "booted" /\ outcome' # "booted"
  OBVIOUS
<1> USE DEF Expecting, ParseEnds, Proceed
<1>1. CASE Load  BY <1>1 DEF Load
<1>2. CASE OpenManifest  BY <1>2 DEF OpenManifest
<1>3. CASE RefuseKey  BY <1>3, KeyFaults DEF RefuseKey
<1>4. CASE ReadVersion  BY <1>4 DEF ReadVersion, Member, MemberEnds
<1>5. CASE SkipMember  BY <1>5 DEF SkipMember, Member, MemberEnds
<1>6. CASE ReadNull  BY <1>6 DEF ReadNull, Member, MemberEnds
<1>7. ASSUME NEW k \in {"selected", "exclude", "retry"}, ReadRefs(k)
      PROVE  outcome # "booted" /\ outcome' # "booted"
  <2>1. Invalid[k] # "booted"  BY DEF Invalid
  <2> QED  BY <1>7, <2>1 DEF ReadRefs, Member, MemberEnds
<1>8. CASE OpenRoots  BY <1>8 DEF OpenRoots, Member, MemberEnds
<1>9. CASE OpenRoot  BY <1>9 DEF OpenRoot
<1>10. CASE ReadDir("binaryDir") \/ ReadDir("dataDir")  BY <1>10 DEF ReadDir, RootMember, RootMemberEnds
<1>11. CASE SkipRootMember  BY <1>11 DEF SkipRootMember, RootMember, RootMemberEnds
<1>12. CASE CloseRoot  BY <1>12 DEF CloseRoot
<1>13. CASE CloseRoots  BY <1>13 DEF CloseRoots
<1>14. CASE EndOfText  BY <1>14 DEF EndOfText
<1> QED
  BY <1>1, <1>2, <1>3, <1>4, <1>5, <1>6, <1>7, <1>8, <1>9, <1>10, <1>11, <1>12, <1>13, <1>14
  DEF ParseNext

\* A step of the boot follows the policy it was given; once the scan has ended
\* no record is added.
LEMMA BootStep ==
  IInv /\ Next => policy' = policy /\ (pc # "discover" => pc' # "discover" /\ DOMAIN inventory' = DOMAIN inventory)
<1> SUFFICES ASSUME IInv, Next
             PROVE  policy' = policy
                    /\ (pc # "discover" => pc' # "discover" /\ DOMAIN inventory' = DOMAIN inventory)
  OBVIOUS
<1>1. ASSUME NEW name \in Names, NEW kind \in Kinds, Discover(name, kind)
      PROVE  policy' = policy /\ pc = "discover"
  BY <1>1 DEF Discover
<1>2. CASE ScanEnds \/ Freeze  BY <1>2 DEF ScanEnds, Freeze
<1>3. CASE BuildPlan \/ RefuseSuspects
  <2>1. DOMAIN inventory = Indices  BY LenProperties DEF IInv, TypeOK, Indices
  <2> QED  BY <1>3, <2>1 DEF BuildPlan, RefuseSuspects
<1>4. ASSUME NEW i \in Indices, Refuse(i) \/ OpenFails(i)
      PROVE  policy' = policy /\ pc' = pc /\ DOMAIN inventory' = DOMAIN inventory
  BY <1>4 DEF Refuse, OpenFails, Opens, Set
<1>5. ASSUME NEW i \in Indices, NEW new \in SUBSET Types, InitFails(i, new) \/ Loads(i, new)
      PROVE  policy' = policy /\ pc' = pc /\ DOMAIN inventory' = DOMAIN inventory
  BY <1>5 DEF InitFails, Loads, Opens, Set
<1> QED  BY <1>1, <1>2, <1>3, <1>4, <1>5 DEF Next

\* Nothing has been looked at when the manifest is accepted.
LEMMA BootKeeps == ASSUME LaunchInv, Boot PROVE LaunchInv'
<1>1. /\ IInv /\ pc = "discover" /\ inventory = <<>> /\ owner = [t \in Types |-> 0]
      /\ outcome' = "booted" /\ pc' \in {"discover", "plan"} /\ manifest' = manifest
      /\ manifest.roots = <<>> => pc' = "plan"
      /\ UNCHANGED <<inventory, candidates, registered, before, opened, owner>>
      /\ policy' = [name \in Portable |->
           [policy[name] EXCEPT !.excluded = name \in manifest.exclude, !.selected = Selected(name)]]
  BY DEF LaunchInv, Boot
<1>2. Indices = {}
  <2>1. Len(inventory) = 0  BY <1>1, EmptySeq
  <2> QED  BY <2>1 DEF Indices
<1>3. policy \in [Portable -> Policies]  BY <1>1 DEF IInv, TypeOK
<1>4. \A name \in Portable :
        [policy[name] EXCEPT !.excluded = name \in manifest.exclude, !.selected = Selected(name)] \in Policies
  <2> SUFFICES ASSUME NEW name \in Portable
               PROVE  [policy[name] EXCEPT !.excluded = name \in manifest.exclude,
                                           !.selected = Selected(name)] \in Policies
    OBVIOUS
  <2> DEFINE old == policy[name]
             out == name \in manifest.exclude
             in == Selected(name)
  <2>1. old \in [excluded : BOOLEAN, selected : BOOLEAN, suspect : BOOLEAN, bundled : BOOLEAN]
    BY <1>3 DEF Policies
  <2>2. out \in BOOLEAN /\ in \in BOOLEAN  BY DEF Selected
  <2> HIDE DEF old, out, in
  <2>3. [old EXCEPT !.excluded = out, !.selected = in]
          \in [excluded : BOOLEAN, selected : BOOLEAN, suspect : BOOLEAN, bundled : BOOLEAN]
    BY <2>1, <2>2
  <2> QED  BY <2>3 DEF old, out, in, Policies
<1>5. policy' \in [Portable -> Policies]  BY <1>1, <1>4
<1>6. Obeyed'
  BY <1>1, <1>3 DEF Obeyed, Selected, Policies
<1>7. TypeOK'  BY <1>1, <1>2, <1>5 DEF IInv, TypeOK, Indices
<1>8. candidates = {} /\ opened = {}  BY <1>1, <1>2 DEF IInv, TypeOK
<1>9. registered = {}  BY <1>1 DEF IInv, Listed
<1>10. Listed' /\ Chosen' /\ CreditedToOwner' /\ Told' /\ Owned'
  BY <1>1, <1>2, <1>8, <1>9 DEF Listed, Chosen, CreditedToOwner, Told, Owned, Indices
<1> QED  BY <1>1, <1>6, <1>7, <1>10 DEF LaunchInv, IInv

\* Parser, boot and plan take turns.
LEMMA LaunchStep == LaunchInv /\ [LaunchNext]_<<plan, parser>> => LaunchInv'
<1> SUFFICES ASSUME LaunchInv, [LaunchNext]_<<plan, parser>> PROVE LaunchInv'
  OBVIOUS
<1>1. CASE UNCHANGED plan /\ (ParseNext \/ UNCHANGED parser)
  <2>1. IInv'
    BY <1>1, NextInvariant DEF LaunchInv, vars, plan
  <2>2. UNCHANGED parser \/ (outcome # "booted" /\ outcome' # "booted")
    BY <1>1, ParserRefusesOrAccepts
  <2>3. UNCHANGED <<manifest, outcome>> \/ (outcome # "booted" /\ outcome' # "booted")
    BY <2>2 DEF parser
  <2> QED  BY <1>1, <2>1, <2>3 DEF LaunchInv, Obeyed, Selected, plan
<1>2. CASE Boot  BY <1>2, BootKeeps
<1>3. CASE outcome = "booted" /\ Next /\ UNCHANGED parser
  <2>1. IInv'  BY <1>3, NextInvariant DEF LaunchInv
  <2>2. policy' = policy /\ (pc # "discover" => pc' # "discover" /\ DOMAIN inventory' = DOMAIN inventory)
    BY <1>3, BootStep DEF LaunchInv
  <2>3. UNCHANGED <<manifest, outcome>>  BY <1>3 DEF parser
  <2>4. ASSUME inventory = <<>>, DOMAIN inventory' = DOMAIN inventory PROVE inventory' = <<>>
    <3>1. inventory' \in Seq(Records)  BY <2>1 DEF IInv, TypeOK
    <3>2. Len(inventory') \in Nat /\ DOMAIN inventory' = 1..Len(inventory')  BY <3>1, LenProperties
    <3>3. DOMAIN inventory' = {}  BY <2>4
    <3>4. Len(inventory') = 0  BY <3>2, <3>3
    <3> QED  BY <3>1, <3>4, EmptySeq
  <2>5. Obeyed'  BY <1>3, <2>2, <2>3 DEF LaunchInv, Obeyed, Selected
  <2> QED  BY <1>3, <2>1, <2>2, <2>3, <2>4, <2>5 DEF LaunchInv
<1> QED  BY <1>1, <1>2, <1>3 DEF LaunchNext

\* What holds of a boot holds of every launch, whatever its manifest is.
THEOREM LaunchInvariant == LaunchSpec => []LaunchInv
<1>1. LaunchInit => LaunchInv
  <2> SUFFICES ASSUME LaunchInit PROVE LaunchInv
    OBVIOUS
  <2>1. IInv  BY InitInvariant DEF LaunchInit
  <2> QED  BY <2>1 DEF LaunchInit, LaunchInv, Init, ParseInit
<1> QED  BY <1>1, LaunchStep, PTL DEF LaunchSpec

\* Only what the manifest selects, and does not exclude, is ever opened.
THEOREM ManifestRules == LaunchSpec => []BootFollowsManifest
<1>1. ASSUME LaunchInv PROVE BootFollowsManifest
  <2>1. outcome # "booted" => inventory = <<>> /\ opened = {}
    <3> SUFFICES ASSUME outcome # "booted" PROVE inventory = <<>> /\ opened = {}
      OBVIOUS
    <3>1. inventory = <<>> /\ pc = "discover"  BY <1>1 DEF LaunchInv
    <3> QED  BY <1>1, <3>1 DEF LaunchInv, IInv, Listed
  <2>2. manifest.roots = <<>> => inventory = <<>>  BY <1>1 DEF LaunchInv
  <2>3. ASSUME NEW i \in opened
        PROVE  /\ inventory[i].name \notin manifest.exclude
               /\ manifest.hasSelected => inventory[i].name \in manifest.selected
    <3>1. Granted(i)  BY <1>1 DEF LaunchInv, IInv, Chosen
    <3>2. Obeyed  BY <1>1, <2>1 DEF LaunchInv
    <3> QED  BY <3>1, <3>2 DEF Granted, Obeyed, Selected
  <2> QED  BY <2>1, <2>2, <2>3 DEF BootFollowsManifest
<1> QED  BY <1>1, LaunchInvariant, PTL

-----------------------------------------------------------------------------
(* The language of the manifest                                            *)

IsText == Len(text) \in Nat /\ \A i \in 1..Len(text) : text[i] # "eof"

SpanKinds == {"value", "member", LBrace, LBracket}

\* The names of the grammar in the lemmas.
IsValue(i, j) == Derived[<<i, j, "value">>]
IsMember(i, j) == Derived[<<i, j, "member">>]
IsList(i, j, bracket) == Derived[<<i, j, bracket>>]
Item(bracket) == IF bracket = LBrace THEN "member" ELSE "value"

\* The least element of a set of naturals.
LEMMA LeastElement ==
  ASSUME NEW S \in SUBSET Nat, S # {}
  PROVE  \E x \in S : \A y \in S : x <= y
<1> DEFINE R == OpToRel(<, Nat)
<1>1. IsWellFoundedOn(R, Nat)  BY NatLessThanWellFounded
<1>2. \A x, y \in Nat : x < y => <<x, y>> \in R  BY DEF R, OpToRel
<1> HIDE DEF R
<1>3. \E x \in S : \A y \in S : ~ (<<y, x>> \in R)  BY <1>1, WFMin
<1>4. PICK x \in S : \A y \in S : ~ (y < x)  BY <1>2, <1>3
<1> QED  BY <1>4

\* What holds of 0 and of every successor holds of every natural number.
LEMMA SetInduction ==
  ASSUME NEW S, S \subseteq Nat, 0 \in S, \A n \in S : n + 1 \in S
  PROVE  Nat \subseteq S
<1> SUFFICES ASSUME Nat \ S # {} PROVE FALSE  OBVIOUS
<1>1. PICK x \in Nat \ S : \A y \in Nat \ S : x <= y  BY LeastElement
<1> QED  BY <1>1

\* No two marks are the same, and none is a scalar or a kind of span.
LEMMA MarksDiffer ==
  /\ LBrace \notin {RBrace, LBracket, RBracket, Colon, Comma, Empty, "eof", "value", "member"}
  /\ RBrace \notin {LBracket, RBracket, Colon, Comma, Empty, "eof", "value", "member"}
  /\ LBracket \notin {RBracket, Colon, Comma, Empty, "eof", "value", "member"}
  /\ RBracket \notin {Colon, Comma, Empty, "eof", "value", "member"}
  /\ Colon \notin {Comma, Empty, "eof"} /\ Comma \notin {Empty, "eof"}
BY Zenon DEF LBrace, RBrace, LBracket, RBracket, Colon, Comma, Empty

\* No mark is a scalar; every string and every ref is one; each bracket has its closer.
LEMMA MarksAreNone ==
  /\ \A t \in Scalars : t \notin {LBrace, RBrace, LBracket, RBracket, Colon, Comma, "eof"}
  /\ \A t \in Strings : t \in Scalars
  /\ \A t \in Refs : t \in Strings
  /\ DOMAIN Closer = {LBrace, LBracket} /\ Closer[LBrace] = RBrace /\ Closer[LBracket] = RBracket
  /\ \A i : Tok(i) # "eof" => i \in 1..Len(text) /\ Tok(i) = text[i]
<1>1. \A t \in Scalars : t \notin {LBrace, RBrace, LBracket, RBracket, Colon, Comma, "eof"}
  BY RefsAreRefs, Zenon
  DEF Scalars, Strings, Keys, Absolute, Marks, LBrace, RBrace, LBracket, RBracket, Colon, Comma, Empty
<1>2. DOMAIN Closer = {LBrace, LBracket} /\ Closer[LBrace] = RBrace /\ Closer[LBracket] = RBracket
  BY MarksDiffer DEF Closer
<1>3. \A i : Tok(i) # "eof" => i \in 1..Len(text) /\ Tok(i) = text[i]  BY DEF Tok
<1> QED  BY <1>1, <1>2, <1>3, Zenon DEF Scalars, Strings

\* What can be derived from more can be derived from all that there is.
LEMMA DerivesMore ==
  ASSUME NEW D \in SUBSET Spans, NEW E \in SUBSET Spans, D \subseteq E,
         NEW i \in Nat, NEW j \in Nat, NEW w \in SpanKinds,
         Derives([s \in Spans |-> s \in D], i, j, w)
  PROVE  Derives([s \in Spans |-> s \in E], i, j, w)
<1> DEFINE d == [s \in Spans |-> s \in D]
           e == [s \in Spans |-> s \in E]
<1>1. \A s \in Spans : d[s] => e[s]  OBVIOUS
<1>2. \A x, y \in Nat, v \in SpanKinds : <<x, y, v>> \in Spans  BY DEF Spans, SpanKinds
<1> HIDE DEF d, e
<1>3. \A x, y \in Nat, v \in SpanKinds : d[<<x, y, v>>] => e[<<x, y, v>>]  BY <1>1, <1>2
<1>4. Derives(d, i, j, w)  BY DEF d
<1>5. CASE w = "value"
  <2>1. CASE j = i + 1 /\ Tok(i) \in Scalars  BY <1>5, <2>1 DEF Derives
  <2>2. CASE /\ j > i + 1 /\ Tok(i) \in DOMAIN Closer /\ Tok(j - 1) = Closer[Tok(i)]
             /\ j = i + 2 \/ d[<<i + 1, j - 1, Tok(i)>>]
    <3>1. i + 1 \in Nat /\ j - 1 \in Nat  BY <2>2
    <3>2. Tok(i) \in SpanKinds  BY <2>2, MarksAreNone, Zenon DEF SpanKinds
    <3>3. d[<<i + 1, j - 1, Tok(i)>>] => e[<<i + 1, j - 1, Tok(i)>>]  BY <1>3, <3>1, <3>2, Zenon
    <3> QED  BY <1>5, <2>2, <3>3 DEF Derives, e
  <2> QED  BY <1>4, <1>5, <2>1, <2>2 DEF Derives
<1>6. CASE w = "member"
  <2>1. i + 2 \in Nat  OBVIOUS
  <2>2. "value" \in SpanKinds  BY DEF SpanKinds
  <2>3. d[<<i + 2, j, "value">>] => e[<<i + 2, j, "value">>]  BY <1>3, <2>1, <2>2, Zenon
  <2> QED  BY <1>4, <1>6, <2>3 DEF Derives, e
<1>7. CASE w \in {LBrace, LBracket}
  <2> DEFINE item == Item(w)
  <2>1. item \in SpanKinds  BY DEF Item, SpanKinds
  <2>2. \/ d[<<i, j, item>>]
        \/ \E k \in (i + 1)..(j - 1) : Tok(k) = Comma /\ d[<<i, k, item>>] /\ d[<<k + 1, j, w>>]
    BY <1>4, <1>7, MarksDiffer DEF Derives, Item
  <2> HIDE DEF item
  <2>3. \/ e[<<i, j, item>>]
        \/ \E k \in (i + 1)..(j - 1) : Tok(k) = Comma /\ e[<<i, k, item>>] /\ e[<<k + 1, j, w>>]
    <3>1. CASE d[<<i, j, item>>]  BY <1>3, <2>1, <3>1
    <3>2. ASSUME NEW k \in (i + 1)..(j - 1), Tok(k) = Comma, d[<<i, k, item>>], d[<<k + 1, j, w>>]
          PROVE  e[<<i, k, item>>] /\ e[<<k + 1, j, w>>]
      <4>1. k \in Nat /\ k + 1 \in Nat  OBVIOUS
      <4> QED  BY <1>3, <2>1, <3>2, <4>1
    <3> QED  BY <2>2, <3>1, <3>2
  <2>4. Derives(e, i, j, w)  BY <1>7, <2>3, MarksDiffer DEF Derives, Item, item
  <2> QED  BY <2>4 DEF e
<1> QED  BY <1>5, <1>6, <1>7 DEF SpanKinds

DerivedFrom(D) == {s \in Spans : Derives([t \in Spans |-> t \in D], s[1], s[2], s[3])}

\* More spans derive more spans.
LEMMA FromMore ==
  ASSUME NEW D \in SUBSET Spans, NEW E \in SUBSET Spans, D \subseteq E
  PROVE  DerivedFrom(D) \subseteq DerivedFrom(E)
<1> SUFFICES ASSUME NEW s \in DerivedFrom(D) PROVE s \in DerivedFrom(E)  OBVIOUS
<1>1. s \in Spans /\ s[1] \in Nat /\ s[2] \in Nat /\ s[3] \in SpanKinds  BY DEF DerivedFrom, Spans, SpanKinds
<1>2. Derives([t \in Spans |-> t \in D], s[1], s[2], s[3])  BY DEF DerivedFrom
<1>3. Derives([t \in Spans |-> t \in E], s[1], s[2], s[3])  BY <1>1, <1>2, DerivesMore
<1> QED  BY <1>1, <1>3 DEF DerivedFrom

-----------------------------------------------------------------------------
(* The grammar: it has one solution, whose spans nest like their brackets   *)

\* The grammar has a least solution, so it has one.
LEMMA GrammarSolved == Derived = [s \in Spans |-> Derives(Derived, s[1], s[2], s[3])]
<1> DEFINE Solves(f) == f = [s \in Spans |-> Derives(f, s[1], s[2], s[3])]
           L == {s \in Spans : \A D \in SUBSET Spans : DerivedFrom(D) \subseteq D => s \in D}
<1>1. L \in SUBSET Spans /\ DerivedFrom(L) \in SUBSET Spans  BY DEF DerivedFrom
<1>2. DerivedFrom(L) \subseteq L
  <2> SUFFICES ASSUME NEW s \in DerivedFrom(L), NEW D \in SUBSET Spans, DerivedFrom(D) \subseteq D PROVE s \in D
    BY <1>1
  <2>1. L \subseteq D  OBVIOUS
  <2> HIDE DEF L
  <2> QED  BY <1>1, <2>1, FromMore
<1>3. L \subseteq DerivedFrom(L)
  <2>1. DerivedFrom(DerivedFrom(L)) \subseteq DerivedFrom(L)
    <3> HIDE DEF L
    <3> QED  BY <1>1, <1>2, FromMore
  <2> QED  BY <1>1, <2>1
<1> DEFINE f == [s \in Spans |-> s \in L]
<1>4. Solves(f)
  <2> HIDE DEF L
  <2>1. \A s \in Spans : s \in L <=> Derives([t \in Spans |-> t \in L], s[1], s[2], s[3])
    BY <1>2, <1>3 DEF DerivedFrom
  <2>2. \A s \in Spans : Derives(f, s[1], s[2], s[3]) \in BOOLEAN
    <3> SUFFICES ASSUME NEW s \in Spans PROVE Derives(f, s[1], s[2], s[3]) \in BOOLEAN  OBVIOUS
    <3> HIDE DEF f
    <3>1. s[3] \in SpanKinds  BY DEF Spans, SpanKinds
    <3> QED  BY <3>1 DEF Derives, SpanKinds
  <2>3. \A s \in Spans : (s \in L) = Derives(f, s[1], s[2], s[3])  BY <2>1, <2>2
  <2> QED  BY <2>3
<1>5. \E g : Solves(g)  BY <1>4
<1>6. Derived = CHOOSE g : Solves(g)  BY DEF Derived
<1> HIDE DEF L, f, Solves
<1>7. Solves(Derived)  BY <1>5, <1>6, Zenon
<1> QED  BY <1>7 DEF Solves

\* A span is what the grammar says it is.
LEMMA DerivedIs ==
  ASSUME NEW i \in Nat, NEW j \in Nat, NEW w \in SpanKinds
  PROVE  Derived[<<i, j, w>>] = Derives(Derived, i, j, w)
<1> DEFINE s == <<i, j, w>>
<1>1. s \in Spans /\ s[1] = i /\ s[2] = j /\ s[3] = w  BY DEF Spans, SpanKinds
<1> HIDE DEF s
<1> DEFINE D == Derived
<1>2. D = [t \in Spans |-> Derives(D, t[1], t[2], t[3])]  BY GrammarSolved
<1> HIDE DEF D
<1>3. D[s] = Derives(D, s[1], s[2], s[3])  BY <1>1, <1>2
<1>4. D[s] = Derives(D, i, j, w)  BY <1>1, <1>3, Zenon
<1> QED  BY <1>4, Zenon DEF s, D

\* The grammar of a value: a scalar, or brackets with nothing or a list between them.
LEMMA ValueIs ==
  ASSUME NEW i \in Nat, NEW j \in Nat
  PROVE  IsValue(i, j) <=>
           \/ j = i + 1 /\ Tok(i) \in Scalars
           \/ /\ j > i + 1 /\ Tok(i) \in {LBrace, LBracket} /\ Tok(j - 1) = Closer[Tok(i)]
              /\ j = i + 2 \/ IsList(i + 1, j - 1, Tok(i))
<1>1. "value" \in SpanKinds  BY DEF SpanKinds
<1>2. Derived[<<i, j, "value">>] = Derives(Derived, i, j, "value")  BY <1>1, DerivedIs, Zenon
<1> QED  BY <1>2, MarksAreNone, MarksDiffer DEF Derives, IsValue, IsList

\* The grammar of a member: a string, a colon, a value.
LEMMA MemberIs ==
  ASSUME NEW i \in Nat, NEW j \in Nat
  PROVE  IsMember(i, j) <=> Tok(i) \in Strings /\ Tok(i + 1) = Colon /\ IsValue(i + 2, j)
<1>1. "member" \in SpanKinds  BY DEF SpanKinds
<1>2. Derived[<<i, j, "member">>] = Derives(Derived, i, j, "member")  BY <1>1, DerivedIs, Zenon
<1> QED  BY <1>2, MarksDiffer DEF Derives, IsMember, IsValue

\* An item of an object is a member of it, and one of an array a value.
IsItem(i, j, bracket) == Derived[<<i, j, Item(bracket)>>]

\* The grammar of what stands between two brackets: one item, or one and more behind a comma.
LEMMA ListIs ==
  ASSUME NEW i \in Nat, NEW j \in Nat, NEW bracket \in {LBrace, LBracket}
  PROVE  IsList(i, j, bracket) <=>
           \/ IsItem(i, j, bracket)
           \/ \E k \in (i + 1)..(j - 1) : Tok(k) = Comma /\ IsItem(i, k, bracket) /\ IsList(k + 1, j, bracket)
<1>1. bracket \in SpanKinds  BY DEF SpanKinds
<1>2. Derived[<<i, j, bracket>>] = Derives(Derived, i, j, bracket)  BY <1>1, DerivedIs, Zenon
<1> QED  BY <1>2, MarksDiffer DEF Derives, IsList, IsItem, Item

-----------------------------------------------------------------------------

Opened(i) == {k \in 1..(i - 1) : Tok(k) \in DOMAIN Closer}
Closed(i) == {k \in 1..(i - 1) : Tok(k) \in {RBrace, RBracket}}

\* One place more opens a bracket more, closes one, or does neither.
LEMMA OneMore ==
  ASSUME NEW i \in Nat, i > 0
  PROVE  /\ Opened(i + 1) = IF Tok(i) \in {LBrace, LBracket} THEN Opened(i) \cup {i} ELSE Opened(i)
         /\ Closed(i + 1) = IF Tok(i) \in {RBrace, RBracket} THEN Closed(i) \cup {i} ELSE Closed(i)
         /\ i \notin Opened(i) /\ i \notin Closed(i)
<1>1. (1..(i + 1 - 1)) = (1..(i - 1)) \cup {i} /\ i \notin 1..(i - 1)  OBVIOUS
<1>2. DOMAIN Closer = {LBrace, LBracket}  BY MarksAreNone
<1>3. LBrace \notin {RBrace, RBracket} /\ LBracket \notin {RBrace, RBracket}  BY MarksDiffer
<1> QED  BY <1>1, <1>2, <1>3 DEF Opened, Closed

\* Only finitely many brackets stand before a place.
LEMMA Counted == ASSUME NEW i \in Nat PROVE IsFiniteSet(Opened(i)) /\ IsFiniteSet(Closed(i))
<1>1. IsFiniteSet(1..(i - 1))  BY FS_Interval
<1>2. Opened(i) \subseteq 1..(i - 1) /\ Closed(i) \subseteq 1..(i - 1)  BY DEF Opened, Closed
<1> QED  BY <1>1, <1>2, FS_Subset

\* How many brackets enclose a place, from the place before it.
LEMMA EnclosingStep ==
  ASSUME NEW i \in Nat, i > 0
  PROVE  /\ Enclosing(i) \in Int
         /\ Tok(i) \in {LBrace, LBracket} => Enclosing(i + 1) = Enclosing(i) + 1
         /\ Tok(i) \in {RBrace, RBracket} => Enclosing(i + 1) = Enclosing(i) - 1
         /\ Tok(i) \notin {LBrace, LBracket, RBrace, RBracket} => Enclosing(i + 1) = Enclosing(i)
<1>1. \A k : Enclosing(k) = Cardinality(Opened(k)) - Cardinality(Closed(k))  BY DEF Enclosing, Opened, Closed
<1>2. Cardinality(Opened(i)) \in Nat /\ Cardinality(Closed(i)) \in Nat  BY Counted, FS_CardinalityType
<1>3. Cardinality(Opened(i) \cup {i}) = Cardinality(Opened(i)) + 1
  BY Counted, OneMore, FS_AddElement
<1>4. Cardinality(Closed(i) \cup {i}) = Cardinality(Closed(i)) + 1
  BY Counted, OneMore, FS_AddElement
<1>5. Tok(i) \in {LBrace, LBracket} => Tok(i) \notin {RBrace, RBracket}  BY MarksDiffer
<1> DEFINE o == Cardinality(Opened(i))
           c == Cardinality(Closed(i))
<1>6. Cardinality(Opened(i + 1)) = IF Tok(i) \in {LBrace, LBracket} THEN o + 1 ELSE o  BY <1>3, OneMore, Zenon
<1>7. Cardinality(Closed(i + 1)) = IF Tok(i) \in {RBrace, RBracket} THEN c + 1 ELSE c  BY <1>4, OneMore, Zenon
<1>8. Enclosing(i) = o - c  BY <1>1, Zenon
<1>9. Enclosing(i + 1) = Cardinality(Opened(i + 1)) - Cardinality(Closed(i + 1))  BY <1>1, Zenon
<1>10. o \in Nat /\ c \in Nat  BY <1>2
<1> HIDE DEF o, c
<1> QED  BY <1>5, <1>6, <1>7, <1>8, <1>9, <1>10

\* Nothing encloses the first token.
LEMMA EnclosingFirst == Enclosing(1) = 0
<1>1. Opened(1) = {} /\ Closed(1) = {}  BY DEF Opened, Closed
<1> QED  BY <1>1, FS_EmptySet DEF Enclosing, Opened, Closed

\* The depth of a place is a number.
LEMMA EnclosingType == ASSUME NEW i \in Nat PROVE Enclosing(i) \in Int
<1>1. Cardinality(Opened(i)) \in Nat /\ Cardinality(Closed(i)) \in Nat  BY Counted, FS_CardinalityType
<1> QED  BY <1>1 DEF Enclosing, Opened, Closed

-----------------------------------------------------------------------------

\* Between its ends a span closes what it opens, and nothing else.
Flat(i, j) ==
  /\ i < j /\ j <= Len(text) + 1 /\ Enclosing(j) = Enclosing(i)
  /\ \A m \in i..j : Enclosing(m) >= Enclosing(i)
  /\ Tok(i) \in Scalars \cup {LBrace, LBracket}
Deep(i, j) == \A m \in (i + 1)..(j - 1) : Enclosing(m) > Enclosing(i)

\* A scalar leaves the depth as it was.
LEMMA ScalarFlat ==
  ASSUME IsText, NEW i \in Nat, i > 0, Tok(i) \in Scalars PROVE Flat(i, i + 1) /\ Deep(i, i + 1)
<1>1. Tok(i) \notin {LBrace, LBracket, RBrace, RBracket, "eof"}  BY MarksAreNone
<1>2. i \in 1..Len(text)  BY <1>1, MarksAreNone
<1>3. Enclosing(i + 1) = Enclosing(i) /\ Enclosing(i) \in Int  BY <1>1, EnclosingStep
<1>4. \A m \in i..(i + 1) : m = i \/ m = i + 1  OBVIOUS
<1> QED  BY <1>2, <1>3, <1>4 DEF Flat, Deep, IsText

\* So do brackets, and what is between them is deeper.
LEMMA BracketFlat ==
  ASSUME IsText, NEW i \in Nat, i > 0, NEW j \in Nat, j > i + 1, Tok(i) \in {LBrace, LBracket}, Tok(j - 1) \in {RBrace, RBracket},
         j = i + 2 \/ Flat(i + 1, j - 1)
  PROVE  Flat(i, j) /\ Deep(i, j)
<1> DEFINE E(m) == Enclosing(m)
<1>1. E(i) \in Int /\ E(i + 1) = E(i) + 1  BY EnclosingStep
<1>2. E(j - 1) \in Int /\ E(j) = E(j - 1) - 1
  <2>1. j - 1 \in Nat /\ j - 1 > 0 /\ (j - 1) + 1 = j  OBVIOUS
  <2> QED  BY <2>1, EnclosingStep
<1>3. j - 1 \in 1..Len(text)
  <2>1. Tok(j - 1) # "eof"  BY MarksDiffer
  <2> QED  BY <2>1, MarksAreNone
<1>4. E(j - 1) = E(i + 1) /\ \A m \in (i + 1)..(j - 1) : E(m) >= E(i + 1)
  <2>1. CASE j = i + 2
    <3>1. j - 1 = i + 1 BY <2>1
    <3>2. \A m \in (i + 1)..(j - 1) : m = i + 1  BY <3>1
    <3> QED  BY <1>1, <3>1, <3>2
  <2>2. CASE Flat(i + 1, j - 1)  BY <2>2 DEF Flat
  <2> QED  BY <2>1, <2>2
<1> HIDE DEF E
<1>5. E(j) = E(i)  BY <1>1, <1>2, <1>4
<1>6. \A m \in (i + 1)..(j - 1) : E(m) > E(i)
  <2> SUFFICES ASSUME NEW m \in (i + 1)..(j - 1) PROVE E(m) > E(i)  OBVIOUS
  <2>1. E(m) >= E(i) + 1  BY <1>1, <1>4
  <2>2. E(m) \in Int
    <3>1. m \in Nat  OBVIOUS
    <3> QED  BY <3>1, EnclosingType DEF E
  <2> QED  BY <1>1, <2>1, <2>2
<1>7. \A m \in i..j : E(m) >= E(i)
  <2> SUFFICES ASSUME NEW m \in i..j PROVE E(m) >= E(i)  OBVIOUS
  <2>1. m = i \/ m = j \/ m \in (i + 1)..(j - 1)  OBVIOUS
  <2>2. m \in Nat => E(m) \in Int  BY EnclosingType DEF E
  <2> QED  BY <1>1, <1>5, <1>6, <2>1, <2>2
<1>8. i < j /\ j <= Len(text) + 1  BY <1>3 DEF IsText
<1> QED  BY <1>5, <1>6, <1>7, <1>8 DEF Flat, Deep, E

\* Two flat spans with one more token, that is no bracket, between them.
LEMMA FlatJoin ==
  ASSUME NEW i \in Nat, i > 0, NEW k \in Nat, NEW j \in Nat, Flat(i, k), Flat(k + 1, j),
         Tok(k) \notin {LBrace, LBracket, RBrace, RBracket}
  PROVE  Flat(i, j)
<1> DEFINE E(m) == Enclosing(m)
<1>1. i < k /\ k + 1 < j  BY DEF Flat
<1>2. E(k) = E(i) /\ E(k + 1) = E(k) /\ E(j) = E(k + 1) /\ E(i) \in Int
  <2>1. k > 0  BY <1>1
  <2> QED  BY <2>1, EnclosingStep, EnclosingType DEF Flat
<1>3. \A m \in i..k : E(m) >= E(i)  BY DEF Flat
<1>4. \A m \in (k + 1)..j : E(m) >= E(k + 1)  BY DEF Flat
<1> HIDE DEF E
<1>5. \A m \in i..j : m \in i..k \/ m \in (k + 1)..j  BY <1>1
<1>6. \A m \in i..j : E(m) >= E(i)  BY <1>2, <1>3, <1>4, <1>5
<1> QED  BY <1>1, <1>2, <1>6 DEF Flat, E

\* A key and its colon before a flat span.
LEMMA FlatMember ==
  ASSUME NEW i \in Nat, i > 0, NEW j \in Nat, Flat(i + 2, j), Tok(i) \in Strings, Tok(i + 1) = Colon
  PROVE  Flat(i, j)
<1> DEFINE E(m) == Enclosing(m)
<1>1. i + 2 < j  BY DEF Flat
<1>2. Tok(i) \notin {LBrace, LBracket, RBrace, RBracket} /\ Tok(i) \in Scalars  BY MarksAreNone
<1>3. E(i + 1) = E(i) /\ E(i) \in Int  BY <1>2, EnclosingStep
<1>4. E(i + 2) = E(i + 1)
  <2>1. i + 1 \in Nat /\ i + 1 > 0 /\ (i + 1) + 1 = i + 2  OBVIOUS
  <2>2. Tok(i + 1) \notin {LBrace, LBracket, RBrace, RBracket}  BY MarksDiffer
  <2> QED  BY <2>1, <2>2, EnclosingStep
<1>5. E(j) = E(i + 2) /\ \A m \in (i + 2)..j : E(m) >= E(i + 2)  BY DEF Flat
<1> HIDE DEF E
<1>6. \A m \in i..j : m = i \/ m = i + 1 \/ m \in (i + 2)..j  OBVIOUS
<1>7. \A m \in i..j : E(m) >= E(i)  BY <1>3, <1>4, <1>5, <1>6
<1>8. i < j /\ j <= Len(text) + 1  BY <1>1 DEF Flat
<1> QED  BY <1>2, <1>3, <1>4, <1>5, <1>7, <1>8 DEF Flat, E

\* A span of any kind is flat, and that of a value is deep.
Shaped(i, j, w) == Flat(i, j) /\ (w = "value" => Deep(i, j))
ShapedUpTo(n) == \A i, j \in Nat, w \in SpanKinds : i > 0 /\ j <= i + n /\ Derived[<<i, j, w>>] => Shaped(i, j, w)

\* The items of an object are members, those of an array are values.
LEMMA ItemKinds ==
  /\ "value" \in SpanKinds /\ "member" \in SpanKinds /\ LBrace \in SpanKinds /\ LBracket \in SpanKinds
  /\ \A bracket \in {LBrace, LBracket} : Item(bracket) \in {"value", "member"} /\ bracket \in SpanKinds
  /\ Item(LBrace) = "member" /\ Item(LBracket) = "value"
BY MarksDiffer DEF Item, SpanKinds

\* No span is empty.
LEMMA SpansLast ==
  ASSUME NEW i \in Nat, NEW j \in Nat, NEW w \in SpanKinds, Derived[<<i, j, w>>] PROVE j > i
<1>1. IsValue(i, j) => j > i  BY ValueIs
<1>2. IsMember(i, j) => j > i
  <2>1. i + 2 \in Nat  OBVIOUS
  <2>2. IsValue(i + 2, j) => j > i + 2  BY <2>1, ValueIs
  <2> QED  BY <2>2, MemberIs
<1>3. ASSUME NEW b \in {LBrace, LBracket}, IsList(i, j, b) PROVE j > i
  <2>1. IsItem(i, j, b) => IsValue(i, j) \/ IsMember(i, j)
    BY ItemKinds DEF IsItem, IsValue, IsMember
  <2>2. IsItem(i, j, b) \/ \E k \in (i + 1)..(j - 1) : TRUE  BY <1>3, ListIs
  <2> QED  BY <1>1, <1>2, <2>1, <2>2
<1> QED  BY <1>1, <1>2, <1>3 DEF SpanKinds, IsValue, IsMember, IsList

\* What holds of spans up to a length holds of spans that are longer by one.
LEMMA ShapedStep == ASSUME IsText, NEW n \in Nat, ShapedUpTo(n) PROVE ShapedUpTo(n + 1)
<1>1. ASSUME NEW i \in Nat, NEW j \in Nat, i > 0, j <= i + n + 1, IsValue(i, j) PROVE Flat(i, j) /\ Deep(i, j)
  <2>1. CASE j = i + 1 /\ Tok(i) \in Scalars  BY <1>1, <2>1, ScalarFlat
  <2>2. CASE /\ j > i + 1 /\ Tok(i) \in {LBrace, LBracket} /\ Tok(j - 1) = Closer[Tok(i)]
             /\ j = i + 2 \/ IsList(i + 1, j - 1, Tok(i))
    <3>1. i + 1 \in Nat /\ i + 1 > 0 /\ j - 1 \in Nat /\ j - 1 <= (i + 1) + n  BY <1>1, <2>2
    <3>2. Tok(i) \in SpanKinds  BY <2>2, ItemKinds
    <3>3. IsList(i + 1, j - 1, Tok(i)) => Flat(i + 1, j - 1)
      BY <3>1, <3>2 DEF ShapedUpTo, Shaped, IsList
    <3>4. Tok(j - 1) \in {RBrace, RBracket}  BY <2>2, MarksAreNone
    <3> QED  BY <1>1, <2>2, <3>3, <3>4, BracketFlat
  <2> QED  BY <1>1, <2>1, <2>2, ValueIs
<1>2. ASSUME NEW i \in Nat, NEW j \in Nat, i > 0, j <= i + n + 1, IsMember(i, j) PROVE Flat(i, j)
  <2>1. Tok(i) \in Strings /\ Tok(i + 1) = Colon /\ IsValue(i + 2, j)  BY <1>2, MemberIs
  <2>2. i + 2 \in Nat /\ i + 2 > 0 /\ j <= (i + 2) + n + 1  BY <1>2
  <2>3. Flat(i + 2, j)  BY <1>1, <2>1, <2>2
  <2> QED  BY <1>2, <2>1, <2>3, FlatMember
<1>3. ASSUME NEW i \in Nat, NEW j \in Nat, i > 0, j <= i + n + 1, NEW b \in {LBrace, LBracket}, IsItem(i, j, b)
      PROVE  Flat(i, j)
  <2>1. IsValue(i, j) \/ IsMember(i, j)  BY <1>3, ItemKinds DEF IsItem, IsValue, IsMember
  <2> QED  BY <1>1, <1>2, <1>3, <2>1
<1>4. ASSUME NEW i \in Nat, NEW j \in Nat, i > 0, j <= i + n + 1, NEW b \in {LBrace, LBracket}, IsList(i, j, b)
      PROVE  Flat(i, j)
  <2>1. CASE IsItem(i, j, b)  BY <1>3, <1>4, <2>1
  <2>2. ASSUME NEW k \in (i + 1)..(j - 1), Tok(k) = Comma, IsItem(i, k, b), IsList(k + 1, j, b) PROVE Flat(i, j)
    <3>1. k \in Nat /\ k <= i + n + 1 /\ k + 1 \in Nat /\ k + 1 > 0 /\ j <= (k + 1) + n  BY <1>4
    <3>2. Flat(i, k)  BY <1>3, <1>4, <2>2, <3>1
    <3>3. b \in SpanKinds  BY ItemKinds
    <3>4. Flat(k + 1, j)  BY <2>2, <3>1, <3>3 DEF ShapedUpTo, Shaped, IsList
    <3>5. Tok(k) \notin {LBrace, LBracket, RBrace, RBracket}  BY <2>2, MarksDiffer
    <3> QED  BY <1>4, <3>1, <3>2, <3>4, <3>5, FlatJoin
  <2> QED  BY <1>4, <2>1, <2>2, ListIs
<1> SUFFICES ASSUME NEW i \in Nat, NEW j \in Nat, NEW w \in SpanKinds, i > 0, j <= i + (n + 1), Derived[<<i, j, w>>]
             PROVE  Shaped(i, j, w)
  BY DEF ShapedUpTo
<1>5. j <= i + n + 1  OBVIOUS
<1>6. CASE w = "value"  BY <1>1, <1>5, <1>6 DEF IsValue, Shaped
<1>7. CASE w = "member"  BY <1>2, <1>5, <1>7 DEF IsMember, Shaped
<1>8. CASE w \in {LBrace, LBracket}  BY <1>4, <1>5, <1>8, MarksDiffer DEF IsList, Shaped
<1> QED  BY <1>6, <1>7, <1>8 DEF SpanKinds

\* Every span of the grammar ends at the depth at which it began, and goes no higher in between.
LEMMA SpansAreShaped ==
  ASSUME IsText, NEW i \in Nat, NEW j \in Nat, NEW w \in SpanKinds, i > 0, Derived[<<i, j, w>>] PROVE Shaped(i, j, w)
<1> DEFINE S == {n \in Nat : ShapedUpTo(n)}
<1>1. 0 \in S
  <2> SUFFICES ASSUME NEW x \in Nat, NEW y \in Nat, NEW v \in SpanKinds, y <= x, Derived[<<x, y, v>>] PROVE FALSE
    BY DEF ShapedUpTo
  <2> QED  BY SpansLast
<1>2. \A n \in S : n + 1 \in S  BY ShapedStep
<1>3. S \subseteq Nat  OBVIOUS
<1> HIDE DEF S
<1>4. j \in S  BY <1>1, <1>2, <1>3, SetInduction
<1>5. ShapedUpTo(j) /\ j <= i + j  BY <1>4 DEF S
<1> QED  BY <1>5 DEF ShapedUpTo

-----------------------------------------------------------------------------

\* Inside a value every place is deeper.
LEMMA ValueShape ==
  ASSUME IsText, NEW i \in Nat, i > 0, NEW j \in Nat, IsValue(i, j) PROVE Flat(i, j) /\ Deep(i, j)
BY SpansAreShaped, ItemKinds DEF IsValue, Shaped

\* A value ends at one place.
LEMMA OneEnd ==
  ASSUME IsText, NEW i \in Nat, i > 0, NEW j \in Nat, NEW k \in Nat, IsValue(i, j), IsValue(i, k) PROVE j = k
<1>1. \A x, y \in Nat : IsValue(i, x) /\ IsValue(i, y) => ~(x < y)
  <2> SUFFICES ASSUME NEW x \in Nat, NEW y \in Nat, IsValue(i, x), IsValue(i, y), x < y PROVE FALSE  OBVIOUS
  <2>1. i < x /\ Enclosing(x) = Enclosing(i)  BY ValueShape DEF Flat
  <2>2. x \in (i + 1)..(y - 1)  BY <2>1
  <2>3. Enclosing(x) > Enclosing(i)  BY <2>2, ValueShape DEF Deep
  <2> QED  BY <2>1, <2>3, EnclosingType
<1> QED  BY <1>1

Follows == {Comma, RBrace, RBracket}

\* The reference definition finds that place.
LEMMA ValueEndIs ==
  ASSUME IsText, NEW i \in Nat, i > 0, NEW j \in Nat, IsValue(i, j), Tok(j) \in Follows PROVE ValueEnd(i) = j
<1> DEFINE At(k) == Tok(k) \in {Comma, RBrace, RBracket} /\ Enclosing(k) = Enclosing(i)
           Ends(x) == x \in (i + 1)..Len(text) /\ At(x) /\ \A k \in (i + 1)..(x - 1) : ~At(k)
<1>1. Flat(i, j) /\ Deep(i, j)  BY ValueShape
<1>2. j \in 1..Len(text)
  <2>1. Tok(j) # "eof"  BY MarksDiffer DEF Follows
  <2> QED  BY <2>1, MarksAreNone
<1>3. At(j)  BY <1>1 DEF Flat, Follows
<1>4. \A k \in (i + 1)..(j - 1) : ~At(k)
  <2> SUFFICES ASSUME NEW k \in (i + 1)..(j - 1), Enclosing(k) = Enclosing(i) PROVE FALSE  OBVIOUS
  <2>1. Enclosing(k) > Enclosing(i)  BY <1>1 DEF Deep
  <2> QED  BY <2>1, EnclosingType
<1>5. i < j  BY <1>1 DEF Flat
<1>6. ValueEnd(i) = CHOOSE x \in (i + 1)..Len(text) : At(x) /\ \A k \in (i + 1)..(x - 1) : ~At(k)
  BY DEF ValueEnd
<1> HIDE DEF At
<1>7. Ends(j)  BY <1>2, <1>3, <1>4, <1>5 DEF IsText
<1>8. \A x : Ends(x) => x = j
  <2> SUFFICES ASSUME NEW x \in (i + 1)..Len(text), Ends(x), x # j PROVE FALSE  OBVIOUS
  <2>1. CASE x < j
    <3>1. x \in (i + 1)..(j - 1)  BY <2>1
    <3> QED  BY <1>4, <3>1
  <2>2. CASE j < x
    <3>1. j \in (i + 1)..(x - 1)  BY <1>5, <2>2
    <3> QED  BY <1>3, <3>1
  <2> QED  BY <1>7, <2>1, <2>2 DEF IsText
<1>9. \E x \in (i + 1)..Len(text) : At(x) /\ \A k \in (i + 1)..(x - 1) : ~At(k)  BY <1>7
<1>10. Ends(ValueEnd(i))  BY <1>6, <1>9, Zenon
<1> QED  BY <1>8, <1>10, Zenon

Brackets == {LBrace, LBracket}

-----------------------------------------------------------------------------
(* Where an item of an object or array begins                              *)

\* A place in the object or array that opens at an earlier one, where an item
\* of it begins, behind others: what can follow from here is what can end it.
Within(open, i) ==
  /\ open \in Nat /\ i \in Nat /\ 0 < open /\ open < i /\ Tok(open) \in Brackets
  /\ Enclosing(i) = Enclosing(open) + 1 /\ Begins(open, i)
  /\ \A e \in Nat : IsValue(open, e + 1) <=> IsList(i, e, Tok(open)) /\ Tok(e) = Closer[Tok(open)]

\* An item ends at one place.
LEMMA OneItemEnd ==
  ASSUME IsText, NEW i \in Nat, i > 0, NEW j \in Nat, NEW k \in Nat, NEW b \in Brackets, IsItem(i, j, b), IsItem(i, k, b)
  PROVE  j = k
<1>1. CASE IsValue(i, j) /\ IsValue(i, k)  BY <1>1, OneEnd
<1>2. CASE IsMember(i, j) /\ IsMember(i, k)
  <2>1. i + 2 \in Nat /\ i + 2 > 0  OBVIOUS
  <2> QED  BY <1>2, <2>1, MemberIs, OneEnd
<1> QED  BY <1>1, <1>2, ItemKinds DEF IsItem, IsValue, IsMember, Brackets

\* An item ends at the depth at which it began.
LEMMA ItemShape ==
  ASSUME IsText, NEW i \in Nat, i > 0, NEW j \in Nat, NEW b \in Brackets, IsItem(i, j, b) PROVE Flat(i, j)
BY SpansAreShaped, ItemKinds DEF IsItem, Shaped, Brackets

\* A list goes on after its first item, or ends with it.
LEMMA ListStep ==
  ASSUME IsText, NEW i \in Nat, i > 0, NEW k \in Nat, NEW b \in Brackets, IsItem(i, k, b), NEW e \in Nat
  PROVE  IsList(i, e, b) <=> e = k \/ (Tok(k) = Comma /\ IsList(k + 1, e, b))
<1>1. IsList(i, e, b) <=>
        \/ IsItem(i, e, b)
        \/ \E m \in (i + 1)..(e - 1) : Tok(m) = Comma /\ IsItem(i, m, b) /\ IsList(m + 1, e, b)
  BY ListIs DEF Brackets
<1>2. ASSUME NEW m \in Nat, IsItem(i, m, b) PROVE m = k  BY <1>2, OneItemEnd
<1>3. i < k  BY ItemShape DEF Flat
<1>4. IsList(k + 1, e, b) => k \in (i + 1)..(e - 1)
  <2>1. k + 1 \in Nat  OBVIOUS
  <2>2. IsList(k + 1, e, b) => e > k + 1  BY <2>1, ItemKinds, SpansLast DEF IsList, Brackets
  <2> QED  BY <1>3, <2>2
<1>5. \A m \in (i + 1)..(e - 1) : m \in Nat  OBVIOUS
<1> QED  BY <1>1, <1>2, <1>4, <1>5

\* An item behind a comma makes a list longer.
LEMMA ListAppend ==
  ASSUME NEW b \in Brackets, NEW x \in Nat, NEW m \in Nat, IsList(x, m, b), Tok(m) = Comma,
         NEW j \in Nat, IsItem(m + 1, j, b)
  PROVE  IsList(x, j, b)
<1>1. m < j
  <2>1. m + 1 \in Nat  OBVIOUS
  <2>2. Item(b) \in {"value", "member"} /\ "value" \in SpanKinds /\ "member" \in SpanKinds  BY ItemKinds DEF Brackets
  <2>3. j > m + 1  BY <2>1, <2>2, SpansLast DEF IsItem
  <2> QED  BY <2>3
<1>2. b \in {LBrace, LBracket}  BY DEF Brackets
<1> DEFINE S == {n \in Nat : \A y \in Nat : m <= y + n /\ IsList(y, m, b) => IsList(y, j, b)}
<1>3. 0 \in S
  <2> SUFFICES ASSUME NEW y \in Nat, m <= y + 0, IsList(y, m, b) PROVE IsList(y, j, b)  OBVIOUS
  <2>1. m > y  BY <1>2, ItemKinds, SpansLast DEF IsList
  <2> QED  BY <2>1
<1>4. ASSUME NEW n \in S PROVE n + 1 \in S
  <2> SUFFICES ASSUME NEW y \in Nat, m <= y + (n + 1), IsList(y, m, b) PROVE IsList(y, j, b)  OBVIOUS
  <2>1. CASE IsItem(y, m, b)
    <3>1. IsList(m + 1, j, b)  BY <1>2, ListIs
    <3>2. m > y  BY <1>2, ItemKinds, SpansLast DEF IsList
    <3>3. m \in (y + 1)..(j - 1)  BY <1>1, <3>2
    <3> QED  BY <1>2, <2>1, <3>1, <3>3, ListIs
  <2>2. ASSUME NEW k \in (y + 1)..(m - 1), Tok(k) = Comma, IsItem(y, k, b), IsList(k + 1, m, b) PROVE IsList(y, j, b)
    <3>1. k + 1 \in Nat /\ m <= (k + 1) + n /\ n \in Nat /\ k \in (y + 1)..(j - 1)  BY <1>1
    <3>2. IsList(k + 1, j, b)  BY <2>2, <3>1
    <3> QED  BY <1>2, <2>2, <3>1, <3>2, ListIs
  <2> QED  BY <1>2, <2>1, <2>2, ListIs
<1>5. S \subseteq Nat  OBVIOUS
<1> HIDE DEF S
<1>6. m \in S  BY <1>3, <1>4, <1>5, SetInduction
<1> QED  BY <1>6 DEF S

\* Behind the bracket that opens an object or array is a place within it.
LEMMA WithinFirst ==
  ASSUME NEW open \in Nat, 0 < open, Tok(open) \in Brackets, Tok(open + 1) # Closer[Tok(open)]
  PROVE  Within(open, open + 1)
<1> DEFINE b == Tok(open)
<1>1. Enclosing(open + 1) = Enclosing(open) + 1  BY EnclosingStep DEF Brackets
<1>2. ASSUME NEW e \in Nat PROVE IsValue(open, e + 1) <=> IsList(open + 1, e, b) /\ Tok(e) = Closer[b]
  <2>1. e + 1 \in Nat /\ (e + 1) - 1 = e /\ open + 1 \in Nat  OBVIOUS
  <2>2. b \notin Scalars /\ b \in {LBrace, LBracket} /\ b \in SpanKinds  BY MarksAreNone, ItemKinds DEF Brackets
  <2>3. IsValue(open, e + 1) <=> /\ e + 1 > open + 1 /\ Tok(e) = Closer[b]
                                 /\ e + 1 = open + 2 \/ IsList(open + 1, e, b)
    BY <2>1, <2>2, ValueIs
  <2>4. IsList(open + 1, e, b) => e > open + 1  BY <2>1, <2>2, SpansLast DEF IsList
  <2>5. e + 1 = open + 2 => Tok(e) # Closer[b]
    <3>1. e + 1 = open + 2 => e = open + 1  OBVIOUS
    <3> QED  BY <3>1
  <2> HIDE DEF b
  <2> QED  BY <2>3, <2>4, <2>5
<1>3. Begins(open, open + 1)  BY MarksAreNone DEF Begins, Brackets
<1> QED  BY <1>1, <1>2, <1>3 DEF Within

\* What follows an item of an object or array.
LEMMA WithinNext ==
  ASSUME IsText, NEW open, NEW i, Within(open, i), NEW k \in Nat, IsItem(i, k, Tok(open)), Tok(k) = Comma
  PROVE  Within(open, k + 1)
<1> DEFINE b == Tok(open)
           c == Closer[b]
<1>1. i \in Nat /\ i > 0 /\ b \in Brackets /\ open < i /\ open \in Nat  BY DEF Within
<1>2. Flat(i, k)  BY <1>1, ItemShape
<1>3. i < k /\ Enclosing(k) = Enclosing(i)  BY <1>2 DEF Flat
<1>4. Enclosing(k + 1) = Enclosing(k)
  <2>1. k > 0  BY <1>1, <1>3
  <2> QED  BY <2>1, MarksDiffer, EnclosingStep
<1>5. c # Comma  BY <1>1, MarksAreNone, MarksDiffer DEF Brackets
<1>6. ASSUME NEW e \in Nat PROVE IsList(i, e, b) /\ Tok(e) = c <=> IsList(k + 1, e, b) /\ Tok(e) = c
  <2>1. IsList(i, e, b) <=> e = k \/ (Tok(k) = Comma /\ IsList(k + 1, e, b))  BY <1>1, ListStep
  <2> HIDE DEF b, c
  <2> QED  BY <1>5, <2>1
<1>7. \A e \in Nat : IsValue(open, e + 1) <=> IsList(i, e, b) /\ Tok(e) = c  BY DEF Within
<1>8. \A e \in Nat : IsValue(open, e + 1) <=> IsList(k + 1, e, b) /\ Tok(e) = c  BY <1>6, <1>7
<1>9. k + 1 \in Nat /\ open < k + 1  BY <1>1, <1>3
<1>10. open \in Nat /\ 0 < open /\ Enclosing(k + 1) = Enclosing(open) + 1  BY <1>3, <1>4 DEF Within
<1>11. Begins(open, k + 1)
  <2>1. Begins(open, i) /\ b \in DOMAIN Closer  BY DEF Within, Begins
  <2>2. (k + 1) - 1 = k /\ k + 1 > open + 1 /\ open + 1 \in Nat  BY <1>1, <1>3
  <2>3. CASE i = open + 1
    <3>1. IsList(open + 1, k, b)  BY <1>1, <2>2, <2>3, ListIs DEF Brackets
    <3> QED  BY <2>1, <2>2, <3>1 DEF Begins, IsList
  <2>4. CASE i > open + 1 /\ Tok(i - 1) = Comma /\ IsList(open + 1, i - 1, b)
    <3>1. i - 1 \in Nat /\ (i - 1) + 1 = i  BY <1>1, <2>4
    <3>2. IsList(open + 1, k, b)  BY <1>1, <2>2, <2>4, <3>1, ListAppend
    <3> QED  BY <2>1, <2>2, <3>2 DEF Begins, IsList
  <2> QED  BY <2>1, <2>3, <2>4 DEF Begins, IsList
<1> QED  BY <1>1, <1>8, <1>9, <1>10, <1>11 DEF Within

\* The closer behind an item ends the object or array.
LEMMA WithinEnd ==
  ASSUME NEW open, NEW i, Within(open, i), NEW k \in Nat, IsItem(i, k, Tok(open)), Tok(k) = Closer[Tok(open)]
  PROVE  IsValue(open, k + 1)
<1>1. i \in Nat /\ Tok(open) \in Brackets  BY DEF Within
<1>2. IsList(i, k, Tok(open))  BY <1>1, ListIs DEF Brackets
<1> QED  BY <1>2 DEF Within

\* Something must follow where an object or array is not closed.
LEMMA WithinItem ==
  ASSUME NEW open, NEW i, Within(open, i), NEW j \in Nat, IsValue(open, j)
  PROVE  \E k \in Nat : k < j /\ IsItem(i, k, Tok(open)) /\ Tok(k) \in {Comma, Closer[Tok(open)]}
<1>1. i \in Nat /\ open \in Nat /\ Tok(open) \in Brackets  BY DEF Within
<1>2. j > open  BY <1>1, ValueIs
<1> DEFINE e == j - 1
<1>3. e \in Nat /\ e + 1 = j  BY <1>1, <1>2
<1> HIDE DEF e
<1>4. IsList(i, e, Tok(open)) /\ Tok(e) = Closer[Tok(open)]  BY <1>3 DEF Within
<1>5. CASE IsItem(i, e, Tok(open))  BY <1>3, <1>4, <1>5
<1>6. ASSUME NEW k \in (i + 1)..(e - 1), Tok(k) = Comma, IsItem(i, k, Tok(open))
      PROVE  k \in Nat /\ k < j
  BY <1>1, <1>3
<1>7. \/ IsItem(i, e, Tok(open))
      \/ \E k \in (i + 1)..(e - 1) : Tok(k) = Comma /\ IsItem(i, k, Tok(open))
  BY <1>1, <1>3, <1>4, ListIs DEF Brackets
<1> QED  BY <1>5, <1>6, <1>7

-----------------------------------------------------------------------------

\* A colon comes after a key.
LEMMA NoColon ==
  ASSUME IsText, NEW i \in Nat, i > 0, NEW j \in Nat, IsValue(i, j), Tok(j) \in Follows
  PROVE  Tok(i) \notin Follows \cup {Colon} /\ Tok(i + 1) # Colon
<1>1. Tok(i) \in Scalars \cup {LBrace, LBracket}  BY ValueShape DEF Flat
<1>2. Tok(i) \notin Follows \cup {Colon}  BY <1>1, MarksAreNone, MarksDiffer DEF Follows
<1>3. CASE j = i + 1  BY <1>2, <1>3, MarksDiffer DEF Follows
<1>4. CASE /\ j > i + 1 /\ Tok(i) \in {LBrace, LBracket} /\ Tok(j - 1) = Closer[Tok(i)]
           /\ j = i + 2 \/ IsList(i + 1, j - 1, Tok(i))
  <2>1. CASE j = i + 2
    <3>1. j - 1 = i + 1  BY <2>1
    <3> QED  BY <1>2, <1>4, <3>1, MarksAreNone, MarksDiffer
  <2>2. CASE IsList(i + 1, j - 1, Tok(i))
    <3>1. i + 1 \in Nat /\ i + 1 > 0 /\ j - 1 \in Nat  BY <1>4
    <3>2. Tok(i) \in SpanKinds  BY <1>4, ItemKinds
    <3>3. Flat(i + 1, j - 1)  BY <2>2, <3>1, <3>2, SpansAreShaped DEF IsList, Shaped
    <3>4. Tok(i + 1) \in Scalars \cup {LBrace, LBracket}  BY <3>3 DEF Flat
    <3> QED  BY <1>2, <3>4, MarksAreNone, MarksDiffer
  <2> QED  BY <1>4, <2>1, <2>2
<1> QED  BY <1>2, <1>3, <1>4, ValueIs

\* From one member to the next no other key is as deep as this one.
LEMMA MemberPlaces ==
  ASSUME IsText, NEW i \in Nat, i > 0, NEW j \in Nat, IsMember(i, j), Tok(j) \in Follows
  PROVE  /\ \A k \in (i - 1)..(j - 1) : Tok(k + 1) = Colon /\ Enclosing(k) = Enclosing(i) <=> k = i
         /\ Enclosing(i + 2) = Enclosing(i) /\ i + 2 < j
<1>1. Tok(i) \in Strings /\ Tok(i + 1) = Colon /\ IsValue(i + 2, j)  BY MemberIs
<1>2. i + 2 \in Nat /\ i + 2 > 0 /\ i + 1 \in Nat /\ i + 1 > 0 /\ (i + 1) + 1 = i + 2 /\ (i + 2) + 1 = i + 3
  OBVIOUS
<1>3. Flat(i + 2, j) /\ Deep(i + 2, j)  BY <1>1, <1>2, ValueShape
<1>4. Enclosing(i + 1) = Enclosing(i)
  <2>1. Tok(i) \notin {LBrace, LBracket, RBrace, RBracket}  BY <1>1, MarksAreNone
  <2> QED  BY <2>1, EnclosingStep
<1>5. Enclosing(i + 2) = Enclosing(i + 1)
  <2>1. Tok(i + 1) \notin {LBrace, LBracket, RBrace, RBracket}  BY <1>1, MarksDiffer
  <2> QED  BY <1>2, <2>1, EnclosingStep
<1>6. Tok(i) # Colon  BY <1>1, MarksAreNone
<1>7. Tok(i + 2) # Colon /\ Tok(i + 3) # Colon  BY <1>1, <1>2, NoColon
<1>8. i + 2 < j  BY <1>3 DEF Flat
<1>9. ASSUME NEW k \in (i - 1)..(j - 1) PROVE Tok(k + 1) = Colon /\ Enclosing(k) = Enclosing(i) <=> k = i
  <2>1. CASE k = i - 1
    <3>1. k + 1 = i /\ k # i  BY <2>1
    <3> QED  BY <1>6, <3>1
  <2>2. CASE k = i  BY <1>1, <2>2
  <2>3. CASE k = i + 1
    <3>1. k + 1 = i + 2 /\ k # i  BY <2>3
    <3> QED  BY <1>7, <3>1
  <2>4. CASE k = i + 2
    <3>1. k + 1 = i + 3 /\ k # i  BY <2>4
    <3> QED  BY <1>7, <3>1
  <2>5. CASE k > i + 2
    <3>1. k \in ((i + 2) + 1)..(j - 1)  BY <2>5
    <3>2. Enclosing(k) > Enclosing(i + 2)  BY <1>3, <3>1 DEF Deep
    <3> QED  BY <1>4, <1>5, <2>5, <3>2, EnclosingType
  <2> QED  BY <2>1, <2>2, <2>3, <2>4, <2>5
<1> QED  BY <1>4, <1>5, <1>8, <1>9

\* From one element to the next no other one is as deep as this one.
LEMMA ElementPlaces ==
  ASSUME IsText, NEW i \in Nat, i > 0, NEW j \in Nat, IsValue(i, j), Tok(j) \in Follows
  PROVE  \A k \in i..j : Enclosing(k) = Enclosing(i) /\ Tok(k) \notin Follows <=> k = i
<1>1. Flat(i, j) /\ Deep(i, j)  BY ValueShape
<1>2. Tok(i) \notin Follows  BY NoColon
<1>3. ASSUME NEW k \in i..j PROVE Enclosing(k) = Enclosing(i) /\ Tok(k) \notin Follows <=> k = i
  <2>1. CASE k = i  BY <1>2, <2>1
  <2>2. CASE k = j  BY <1>1, <2>2 DEF Flat
  <2>3. CASE k \in (i + 1)..(j - 1)
    <3>1. Enclosing(k) > Enclosing(i)  BY <1>1, <2>3 DEF Deep
    <3> QED  BY <2>3, <3>1, EnclosingType
  <2> QED  BY <2>1, <2>2, <2>3
<1> QED  BY <1>3

-----------------------------------------------------------------------------
(* skip_value: a descent of any depth computes the end of a value          *)

\* Nothing from i up to k but closing brackets is deeper than c.
Shallow(i, k, c) == \A m \in i..(k - 1) : Tok(m) \notin {RBrace, RBracket} => Enclosing(m) <= c

\* What skip_value promises of a place: the end of the value, or behind the
\* bracket that closes the list, unless something there is too deep.
SkipTo(i, k, d, w) ==
  IF w = "value" THEN IsValue(i, k) /\ Shallow(i, k, Enclosing(i) + MaxDepth - d)
  ELSE /\ k > 0 /\ IsList(i, k - 1, w) /\ Tok(k - 1) = Closer[w]
       /\ Shallow(i, k - 1, Enclosing(i) + MaxDepth - (d + 1))

Insides == {"value", LBrace, LBracket}
End(i, d, w) == IF \E k \in Nat : SkipTo(i, k, d, w) THEN CHOOSE k \in Nat : SkipTo(i, k, d, w) ELSE 0

\* A list that its closer ends does so at one place.
LEMMA OneListEnd ==
  ASSUME IsText, NEW i \in Nat, i > 0, NEW j \in Nat, NEW k \in Nat, NEW b \in Brackets,
         IsList(i, j, b), Tok(j) = Closer[b], IsList(i, k, b), Tok(k) = Closer[b]
  PROVE  j = k
<1>1. \A x, y \in Nat : IsList(i, x, b) /\ Tok(x) = Closer[b] /\ IsList(i, y, b) => ~(x < y)
  <2> SUFFICES ASSUME NEW x \in Nat, NEW y \in Nat, IsList(i, x, b), Tok(x) = Closer[b], IsList(i, y, b), x < y
               PROVE  FALSE
    OBVIOUS
  <2>1. b \in SpanKinds  BY ItemKinds DEF Brackets
  <2>2. Flat(i, x) /\ Flat(i, y)  BY <2>1, SpansAreShaped DEF IsList, Shaped
  <2>3. i < x /\ Enclosing(x) = Enclosing(i)  BY <2>2 DEF Flat
  <2>4. Enclosing(x + 1) = Enclosing(x) - 1
    <3>1. Tok(x) \in {RBrace, RBracket}  BY MarksAreNone DEF Brackets
    <3> QED  BY <2>3, <3>1, EnclosingStep
  <2>5. x + 1 \in i..y  BY <2>3
  <2>6. Enclosing(x + 1) >= Enclosing(i)  BY <2>2, <2>5 DEF Flat
  <2> QED  BY <2>3, <2>4, <2>6, EnclosingType
<1> QED  BY <1>1

\* What skip_value promises of a place fits one end.
LEMMA OneSkip ==
  ASSUME IsText, NEW i \in Nat, i > 0, NEW d \in Nat, NEW w \in Insides, NEW j \in Nat, NEW k \in Nat,
         SkipTo(i, j, d, w), SkipTo(i, k, d, w)
  PROVE  j = k
<1>1. CASE w = "value"  BY <1>1, OneEnd DEF SkipTo
<1>2. CASE w \in Brackets
  <2>1. w # "value"  BY <1>2, MarksDiffer DEF Brackets
  <2>2. j - 1 \in Nat /\ k - 1 \in Nat  BY <2>1 DEF SkipTo
  <2>3. j - 1 = k - 1  BY <1>2, <2>1, <2>2, OneListEnd DEF SkipTo
  <2> QED  BY <2>3
<1> QED  BY <1>1, <1>2 DEF Insides, Brackets

\* The promised end, or 0, is the only one.
LEMMA EndIs ==
  ASSUME IsText, NEW i \in Nat, i > 0, NEW d \in Nat, NEW w \in Insides
  PROVE  /\ End(i, d, w) \in Nat
         /\ \A k \in Nat : SkipTo(i, k, d, w) <=> k # 0 /\ End(i, d, w) = k
         /\ End(i, d, w) # 0 => End(i, d, w) > i
<1>1. ASSUME NEW k \in Nat, SkipTo(i, k, d, w) PROVE k > i
  <2>1. CASE w = "value"  BY <1>1, <2>1, ValueIs DEF SkipTo
  <2>2. CASE w \in Brackets
    <3>1. k > 0 /\ IsList(i, k - 1, w)  BY <1>1, <2>2, MarksDiffer DEF SkipTo, Brackets
    <3>2. k - 1 \in Nat /\ w \in SpanKinds  BY <2>2, <3>1, ItemKinds DEF Brackets
    <3>3. k - 1 > i  BY <3>1, <3>2, SpansLast DEF IsList
    <3> QED  BY <3>3
  <2> QED  BY <2>1, <2>2 DEF Insides, Brackets
<1>2. CASE \E k \in Nat : SkipTo(i, k, d, w)
  <2>1. End(i, d, w) \in Nat /\ SkipTo(i, End(i, d, w), d, w)  BY <1>2 DEF End
  <2>2. \A k \in Nat : SkipTo(i, k, d, w) => k = End(i, d, w)  BY <2>1, OneSkip
  <2> QED  BY <1>1, <2>1, <2>2
<1>3. CASE ~\E k \in Nat : SkipTo(i, k, d, w)  BY <1>3 DEF End
<1> QED  BY <1>2, <1>3

\* Two places from which the same can be reached.
SameSkips(i, d, w, x, e, v) == \A k \in Nat : SkipTo(i, k, d, w) <=> SkipTo(x, k, e, v)

\* Two places of which the same is promised have the same end.
LEMMA SameEnd ==
  ASSUME IsText, NEW i \in Nat, i > 0, NEW d \in Nat, NEW w \in Insides,
         NEW x \in Nat, x > 0, NEW e \in Nat, NEW v \in Insides, SameSkips(i, d, w, x, e, v)
  PROVE  End(i, d, w) = End(x, e, v)
<1>1. /\ End(i, d, w) \in Nat
      /\ \A k \in Nat : SkipTo(i, k, d, w) <=> k # 0 /\ End(i, d, w) = k  BY EndIs
<1>2. /\ End(x, e, v) \in Nat
      /\ \A k \in Nat : SkipTo(x, k, e, v) <=> k # 0 /\ End(x, e, v) = k  BY EndIs
<1> QED  BY <1>1, <1>2 DEF SameSkips

-----------------------------------------------------------------------------

\* The end of a value by the first token of it, as skip_value looks for it.
LEMMA EndOfValue ==
  ASSUME IsText, NEW i \in Nat, i > 0, NEW d \in Nat
  PROVE  End(i, d, "value") =
           IF d > MaxDepth THEN 0
           ELSE IF Tok(i) \in Scalars THEN i + 1
           ELSE IF Tok(i) \notin DOMAIN Closer THEN 0
           ELSE IF Tok(i + 1) = Closer[Tok(i)] THEN i + 2
           ELSE End(i + 1, d, Tok(i))
<1> DEFINE c == Enclosing(i) + MaxDepth - d
           b == Tok(i)
<1>0. "value" \in Insides  BY DEF Insides
<1>1. /\ End(i, d, "value") \in Nat
      /\ \A k \in Nat : SkipTo(i, k, d, "value") <=> k # 0 /\ End(i, d, "value") = k
  BY <1>0, EndIs
<1>2. \A k : SkipTo(i, k, d, "value") <=> IsValue(i, k) /\ Shallow(i, k, c)  BY DEF SkipTo
<1>3. Enclosing(i) \in Int /\ MaxDepth \in Nat  BY EnclosingType, TextBounds
<1>4. ASSUME d > MaxDepth, NEW k \in Nat, SkipTo(i, k, d, "value") PROVE FALSE
  <2>1. IsValue(i, k) /\ Shallow(i, k, c)  BY <1>2, <1>4
  <2>2. i \in i..(k - 1)  BY <2>1, ValueIs
  <2>3. Tok(i) \notin {RBrace, RBracket}
    <3>1. Tok(i) \in Scalars \cup {LBrace, LBracket}  BY <2>1, ValueShape DEF Flat
    <3> QED  BY <3>1, MarksAreNone, MarksDiffer
  <2>4. Enclosing(i) <= c  BY <2>1, <2>2, <2>3 DEF Shallow
  <2> QED  BY <1>3, <1>4, <2>4
<1>5. ASSUME ~(d > MaxDepth), Tok(i) \in Scalars PROVE SkipTo(i, i + 1, d, "value")
  <2>1. IsValue(i, i + 1)
    <3>1. i + 1 \in Nat  OBVIOUS
    <3> QED  BY <1>5, <3>1, ValueIs
  <2>2. \A m \in i..(i + 1 - 1) : m = i  OBVIOUS
  <2>3. Enclosing(i) <= c  BY <1>3, <1>5
  <2> QED  BY <1>2, <2>1, <2>2, <2>3 DEF Shallow
<1>6. ASSUME Tok(i) \notin Scalars, Tok(i) \notin DOMAIN Closer, NEW k \in Nat, SkipTo(i, k, d, "value") PROVE FALSE
  BY <1>2, <1>6, ValueIs, MarksAreNone
<1>7. ASSUME ~(d > MaxDepth), Tok(i) \in DOMAIN Closer, Tok(i + 1) = Closer[b]
      PROVE  SkipTo(i, i + 2, d, "value")
  <2>1. IsValue(i, i + 2)
    <3>1. i + 2 \in Nat /\ i + 2 > i + 1 /\ (i + 2) - 1 = i + 1  OBVIOUS
    <3>2. Tok((i + 2) - 1) = Closer[b]  BY <1>7, <3>1
    <3> QED  BY <1>7, <3>1, <3>2, ValueIs, MarksAreNone
  <2>2. \A m \in i..(i + 2 - 1) : m = i \/ m = i + 1  OBVIOUS
  <2>3. Enclosing(i) <= c  BY <1>3, <1>7
  <2>4. Tok(i + 1) \in {RBrace, RBracket}  BY <1>7, MarksAreNone
  <2> QED  BY <1>2, <2>1, <2>2, <2>3, <2>4 DEF Shallow
<1>8. ASSUME ~(d > MaxDepth), Tok(i) \in DOMAIN Closer, Tok(i) \notin Scalars, Tok(i + 1) # Closer[b]
      PROVE  End(i, d, "value") = End(i + 1, d, b)
  <2>1. b \in Brackets /\ b \in Insides /\ b # "value"  BY <1>8, MarksAreNone, MarksDiffer DEF Insides, Brackets
  <2>2. Within(i, i + 1)  BY <1>8, <2>1, WithinFirst
  <2>3. Enclosing(i + 1) = Enclosing(i) + 1  BY <2>2 DEF Within
  <2>4. Enclosing(i + 1) + MaxDepth - (d + 1) = c  BY <1>3, <2>3
  <2>5. ASSUME NEW k \in Nat PROVE SkipTo(i, k, d, "value") <=> SkipTo(i + 1, k, d, b)
    <3>1. SkipTo(i + 1, k, d, b) <=>
            k > 0 /\ IsList(i + 1, k - 1, b) /\ Tok(k - 1) = Closer[b] /\ Shallow(i + 1, k - 1, c)
      BY <2>1, <2>4 DEF SkipTo
    <3>2. CASE k = 0
      <4>1. ~IsValue(i, k)  BY <3>2, ValueIs
      <4> QED  BY <1>2, <3>1, <3>2, <4>1
    <3>3. CASE k # 0
      <4>1. k - 1 \in Nat /\ (k - 1) + 1 = k  BY <3>3
      <4>2. IsValue(i, k) <=> IsList(i + 1, k - 1, b) /\ Tok(k - 1) = Closer[b]
        <5> HIDE DEF b
        <5>1. \A e \in Nat : IsValue(i, e + 1) <=> IsList(i + 1, e, b) /\ Tok(e) = Closer[b]
          BY <2>2 DEF Within, b
        <5>2. IsValue(i, (k - 1) + 1) <=> IsList(i + 1, k - 1, b) /\ Tok(k - 1) = Closer[b]
          BY <4>1, <5>1
        <5> QED  BY <4>1, <5>2
      <4>3. ASSUME Tok(k - 1) = Closer[b], IsValue(i, k)
            PROVE  Shallow(i, k, c) <=> Shallow(i + 1, k - 1, c)
        <5>1. Enclosing(i) <= c  BY <1>3, <1>8
        <5>2. Tok(k - 1) \in {RBrace, RBracket}  BY <2>1, <4>3, MarksAreNone DEF Brackets
        <5>3. \A m \in i..(k - 1) : m = i \/ m = k - 1 \/ m \in (i + 1)..(k - 1 - 1)  BY <3>3
        <5>4. \A m \in (i + 1)..(k - 1 - 1) : m \in i..(k - 1)  BY <3>3
        <5> HIDE DEF c
        <5> QED  BY <5>1, <5>2, <5>3, <5>4 DEF Shallow
      <4> HIDE DEF b, c
      <4> QED  BY <1>2, <3>1, <3>3, <4>2, <4>3
    <3> QED  BY <3>2, <3>3
  <2>6. i + 1 \in Nat /\ i + 1 > 0  OBVIOUS
  <2>7. SameSkips(i, d, "value", i + 1, d, b)  BY <2>5 DEF SameSkips
  <2> HIDE DEF b
  <2> QED  BY <1>0, <2>1, <2>6, <2>7, SameEnd
<1>9. i + 1 \in Nat /\ i + 1 # 0 /\ i + 2 \in Nat /\ i + 2 # 0  OBVIOUS
<1>10. CASE d > MaxDepth  BY <1>1, <1>4, <1>10
<1>11. CASE ~(d > MaxDepth) /\ Tok(i) \in Scalars
  <2>1. End(i, d, "value") = i + 1  BY <1>1, <1>5, <1>9, <1>11
  <2> QED  BY <1>11, <2>1
<1>12. CASE ~(d > MaxDepth) /\ Tok(i) \notin Scalars /\ Tok(i) \notin DOMAIN Closer
  <2>1. End(i, d, "value") = 0  BY <1>1, <1>6, <1>12
  <2> QED  BY <1>12, <2>1
<1>13. CASE ~(d > MaxDepth) /\ Tok(i) \notin Scalars /\ Tok(i) \in DOMAIN Closer /\ Tok(i + 1) = Closer[b]
  <2>1. End(i, d, "value") = i + 2  BY <1>1, <1>7, <1>9, <1>13
  <2> QED  BY <1>13, <2>1
<1>14. CASE ~(d > MaxDepth) /\ Tok(i) \notin Scalars /\ Tok(i) \in DOMAIN Closer /\ Tok(i + 1) # Closer[b]
  <2>1. End(i, d, "value") = End(i + 1, d, b)  BY <1>8, <1>14
  <2> QED  BY <1>14, <2>1
<1> QED  BY <1>10, <1>11, <1>12, <1>13, <1>14

\* The value of an item, its key in front of it.
LEMMA ItemIs ==
  ASSUME NEW i \in Nat, NEW j \in Nat, NEW b \in Brackets
  PROVE  IsItem(i, j, b) <=> IF b = LBracket THEN IsValue(i, j)
                             ELSE Tok(i) \in Strings /\ Tok(i + 1) = Colon /\ IsValue(i + 2, j)
BY MemberIs, ItemKinds, MarksDiffer DEF IsItem, IsValue, IsMember, Brackets

\* A key and its colon leave the depth as it was.
LEMMA KeyEnclosing ==
  ASSUME NEW i \in Nat, i > 0, Tok(i) \in Strings, Tok(i + 1) = Colon
  PROVE  Enclosing(i + 1) = Enclosing(i) /\ Enclosing(i + 2) = Enclosing(i)
<1>1. i + 1 \in Nat /\ i + 1 > 0 /\ (i + 1) + 1 = i + 2  OBVIOUS
<1>2. Tok(i) \notin {LBrace, LBracket, RBrace, RBracket}  BY MarksAreNone
<1>3. Tok(i + 1) \notin {LBrace, LBracket, RBrace, RBracket}  BY MarksDiffer
<1>4. Enclosing(i + 1) = Enclosing(i)  BY <1>2, EnclosingStep
<1>5. Enclosing((i + 1) + 1) = Enclosing(i + 1)  BY <1>1, <1>3, EnclosingStep
<1> QED  BY <1>1, <1>4, <1>5

\* The position from which the value of an item is skipped.
ValueOf(i, b) == IF b = LBracket THEN i ELSE i + 2
Named(i, b) == b = LBracket \/ (Tok(i) \in Strings /\ Tok(i + 1) = Colon)

\* An item is skipped by skipping its value one level deeper.
LEMMA ItemSkipped ==
  ASSUME IsText, NEW i \in Nat, i > 0, NEW d \in Nat, NEW b \in Brackets, NEW m \in Nat
  PROVE  IsItem(i, m, b) /\ Shallow(i, m, Enclosing(i) + MaxDepth - (d + 1))
           <=> Named(i, b) /\ SkipTo(ValueOf(i, b), m, d + 1, "value")
<1> DEFINE v == ValueOf(i, b)
           c == Enclosing(i) + MaxDepth - (d + 1)
<1>1. v \in Nat /\ v > 0 /\ (v = i \/ v = i + 2)  BY DEF ValueOf
<1>2. IsItem(i, m, b) <=> Named(i, b) /\ IsValue(v, m)  BY ItemIs, MarksDiffer DEF Named, ValueOf, Brackets
<1>3. ASSUME Named(i, b) PROVE Enclosing(v) = Enclosing(i)  BY <1>3, KeyEnclosing DEF Named, ValueOf
<1>4. ASSUME Named(i, b) PROVE SkipTo(v, m, d + 1, "value") <=> IsValue(v, m) /\ Shallow(v, m, c)
  BY <1>3, <1>4 DEF SkipTo
<1>5. ASSUME Named(i, b), IsValue(v, m), Shallow(v, m, c) PROVE Shallow(i, m, c)
  <2>1. CASE v = i  BY <1>5, <2>1
  <2>2. CASE v # i
    <3>1. Tok(i) \in Strings /\ Tok(i + 1) = Colon /\ v = i + 2  BY <1>5, <2>2 DEF Named, ValueOf
    <3>2. Enclosing(i + 1) = Enclosing(i) /\ Enclosing(v) = Enclosing(i)  BY <3>1, KeyEnclosing
    <3>3. Enclosing(v) <= c
      <4>1. v < m  BY <1>1, <1>5, ValueIs
      <4>2. v \in v..(m - 1)  BY <1>1, <4>1
      <4>3. Tok(v) \in Scalars \cup {LBrace, LBracket}  BY <1>1, <1>5, ValueShape DEF Flat
      <4>4. Tok(v) \notin {RBrace, RBracket}  BY <4>3, MarksAreNone, MarksDiffer
      <4> HIDE DEF c, v
      <4> QED  BY <1>5, <4>2, <4>4 DEF Shallow
    <3>4. \A k \in i..(m - 1) : k = i \/ k = i + 1 \/ k \in v..(m - 1)  BY <3>1
    <3> HIDE DEF c, v
    <3> QED  BY <1>5, <3>2, <3>3, <3>4 DEF Shallow
  <2> QED  BY <2>1, <2>2
<1>6. ASSUME Shallow(i, m, c) PROVE Shallow(v, m, c)
  <2>1. \A k \in v..(m - 1) : k \in i..(m - 1)  BY <1>1
  <2> HIDE DEF c, v
  <2> QED  BY <1>6, <2>1 DEF Shallow
<1> HIDE DEF v, c
<1>7. IsItem(i, m, b) /\ Shallow(i, m, c) <=> Named(i, b) /\ SkipTo(v, m, d + 1, "value")
  BY <1>2, <1>4, <1>5, <1>6
<1> QED  BY <1>7 DEF v, c

\* The end of a list by its first item, as skip_value looks for it.
LEMMA EndOfList ==
  ASSUME IsText, NEW i \in Nat, i > 0, NEW d \in Nat, NEW b \in Brackets, NEW next,
         next = IF Named(i, b) THEN End(ValueOf(i, b), d + 1, "value") ELSE 0
  PROVE  End(i, d, b) =
           IF next = 0 THEN 0
           ELSE IF Tok(next) = Comma THEN End(next + 1, d, b)
           ELSE IF Tok(next) = Closer[b] THEN next + 1
           ELSE 0
<1> DEFINE v == ValueOf(i, b)
           c == Enclosing(i) + MaxDepth - (d + 1)
           close == Closer[b]
<1>1. v \in Nat /\ v > 0 /\ d + 1 \in Nat /\ "value" \in Insides /\ b \in Insides /\ b # "value" /\ b \in SpanKinds
  <2>1. v \in Nat /\ v > 0  BY DEF ValueOf
  <2>2. d + 1 \in Nat  OBVIOUS
  <2> QED  BY <2>1, <2>2, ItemKinds, MarksDiffer DEF Insides, Brackets
<1>2. /\ End(i, d, b) \in Nat
      /\ \A k \in Nat : SkipTo(i, k, d, b) <=> k # 0 /\ End(i, d, b) = k
  BY <1>1, EndIs
<1>3. /\ End(v, d + 1, "value") \in Nat
      /\ \A k \in Nat : SkipTo(v, k, d + 1, "value") <=> k # 0 /\ End(v, d + 1, "value") = k
  <2> HIDE DEF v
  <2> QED  BY <1>1, EndIs
<1>4. ASSUME NEW m \in Nat PROVE IsItem(i, m, b) /\ Shallow(i, m, c) <=> m # 0 /\ next = m
  <2>1. IsItem(i, m, b) /\ Shallow(i, m, c) <=> Named(i, b) /\ SkipTo(v, m, d + 1, "value")  BY ItemSkipped
  <2> HIDE DEF v, c
  <2>2. next = IF Named(i, b) THEN End(v, d + 1, "value") ELSE 0  BY DEF v
  <2> QED  BY <1>3, <2>1, <2>2
<1>5. next \in Nat
  <2> HIDE DEF v
  <2>1. next = IF Named(i, b) THEN End(v, d + 1, "value") ELSE 0  BY DEF v
  <2> QED  BY <1>3, <2>1
<1>6. close \in {RBrace, RBracket} /\ close # Comma  BY MarksAreNone, MarksDiffer DEF Brackets
<1>7. \A k : SkipTo(i, k, d, b) <=> k > 0 /\ IsList(i, k - 1, b) /\ Tok(k - 1) = close /\ Shallow(i, k - 1, c)
  BY <1>1 DEF SkipTo
<1>8. Enclosing(i) \in Int /\ MaxDepth \in Nat  BY EnclosingType, TextBounds
<1> HIDE DEF v, c, close
\* Where a list ends, its first item does, or a comma follows that.
<1>9. ASSUME NEW e \in Nat, IsList(i, e, b), Shallow(i, e, c) PROVE next # 0 /\ (Tok(next) = Comma \/ e = next)
  <2>1. \E m \in Nat : m <= e /\ IsItem(i, m, b) /\ (m = e \/ Tok(m) = Comma)
    <3>1. \A m \in (i + 1)..(e - 1) : m \in Nat /\ m <= e  OBVIOUS
    <3> QED  BY <1>9, <3>1, ListIs DEF Brackets
  <2>2. PICK m \in Nat : m <= e /\ IsItem(i, m, b) /\ (m = e \/ Tok(m) = Comma)  BY <2>1
  <2>3. \A k \in i..(m - 1) : k \in i..(e - 1)  BY <2>2
  <2>4. Shallow(i, m, c)  BY <1>9, <2>3 DEF Shallow
  <2> QED  BY <1>4, <2>2, <2>4
<1>10. ASSUME NEW k \in Nat, SkipTo(i, k, d, b) PROVE k > 0 /\ k - 1 \in Nat /\ IsList(i, k - 1, b) /\ Tok(k - 1) = close
                                                       /\ Shallow(i, k - 1, c)
  <2>1. k > 0 /\ IsList(i, k - 1, b) /\ Tok(k - 1) = close /\ Shallow(i, k - 1, c)  BY <1>7, <1>10
  <2> QED  BY <2>1
<1>11. CASE next = 0
  <2>1. \A k \in Nat : ~SkipTo(i, k, d, b)  BY <1>9, <1>10, <1>11
  <2>2. End(i, d, b) = 0  BY <1>2, <2>1
  <2> QED  BY <1>11, <2>2
<1>12. ASSUME next # 0 PROVE IsItem(i, next, b) /\ Shallow(i, next, c) /\ i < next /\ Enclosing(next) = Enclosing(i)
  <2>1. IsItem(i, next, b) /\ Shallow(i, next, c)  BY <1>4, <1>5, <1>12
  <2> QED  BY <1>5, <2>1, ItemShape DEF Flat
<1>13. CASE next # 0 /\ Tok(next) = Comma
  <2>1. IsItem(i, next, b) /\ Shallow(i, next, c) /\ i < next /\ Enclosing(next) = Enclosing(i)  BY <1>12, <1>13
  <2>2. next + 1 \in Nat /\ next + 1 > 0 /\ next > 0  BY <1>5, <2>1
  <2>3. Enclosing(next + 1) = Enclosing(i)  BY <1>5, <1>13, <2>1, <2>2, EnclosingStep, MarksDiffer
  <2>4. Enclosing(next + 1) + MaxDepth - (d + 1) = c  BY <2>3 DEF c
  <2>5. ASSUME NEW k \in Nat PROVE SkipTo(i, k, d, b) <=> SkipTo(next + 1, k, d, b)
    <3>1. SkipTo(next + 1, k, d, b) <=>
            k > 0 /\ IsList(next + 1, k - 1, b) /\ Tok(k - 1) = close /\ Shallow(next + 1, k - 1, c)
      BY <1>1, <2>4 DEF SkipTo, close
    <3>2. CASE k = 0  BY <1>7, <3>1, <3>2
    <3>3. CASE k > 0
      <4>1. k - 1 \in Nat  BY <3>3
      <4>2. IsList(i, k - 1, b) <=> k - 1 = next \/ IsList(next + 1, k - 1, b)
        BY <1>5, <1>13, <2>1, <4>1, ListStep
      <4>3. Tok(k - 1) = close => k - 1 # next  BY <1>6, <1>13
      <4>4. ASSUME IsList(next + 1, k - 1, b) PROVE Shallow(i, k - 1, c) <=> Shallow(next + 1, k - 1, c)
        <5>1. k - 1 > next + 1  BY <1>1, <2>2, <4>1, <4>4, SpansLast DEF IsList
        <5>2. Enclosing(next) <= c
          <6>1. i \in i..(next - 1)  BY <1>5, <2>1
          <6>2. Tok(i) \notin {RBrace, RBracket}
            <7>1. Tok(i) \in Scalars \cup {LBrace, LBracket}  BY <1>5, <2>1, ItemShape DEF Flat
            <7> QED  BY <7>1, MarksAreNone, MarksDiffer
          <6>3. Enclosing(i) <= c  BY <2>1, <6>1, <6>2 DEF Shallow
          <6> QED  BY <2>1, <6>3
        <5>3. \A m \in i..(k - 1 - 1) : m \in i..(next - 1) \/ m = next \/ m \in (next + 1)..(k - 1 - 1)  BY <1>5
        <5>4. \A m \in (next + 1)..(k - 1 - 1) : m \in i..(k - 1 - 1)  BY <1>5, <2>1
        <5> QED  BY <2>1, <5>2, <5>3, <5>4 DEF Shallow
      <4> QED  BY <1>7, <3>1, <3>3, <4>2, <4>3, <4>4
    <3> QED  BY <3>2, <3>3
  <2>6. SameSkips(i, d, b, next + 1, d, b)  BY <2>5 DEF SameSkips
  <2>7. End(i, d, b) = End(next + 1, d, b)  BY <1>1, <2>2, <2>6, SameEnd
  <2> QED  BY <1>13, <2>7
<1>14. CASE next # 0 /\ Tok(next) = close
  <2>1. IsItem(i, next, b) /\ Shallow(i, next, c)  BY <1>12, <1>14
  <2>2. IsList(i, next, b)  BY <1>5, <2>1, ListStep
  <2>3. next + 1 \in Nat /\ next + 1 > 0 /\ (next + 1) - 1 = next  BY <1>5
  <2>4. SkipTo(i, next + 1, d, b)
    <3>1. SkipTo(i, next + 1, d, b) <=>
            /\ next + 1 > 0 /\ IsList(i, (next + 1) - 1, b) /\ Tok((next + 1) - 1) = close
            /\ Shallow(i, (next + 1) - 1, c)
      BY <1>7
    <3> QED  BY <1>14, <2>1, <2>2, <2>3, <3>1
  <2>5. End(i, d, b) = next + 1  BY <1>2, <2>3, <2>4
  <2>6. Tok(next) # Comma  BY <1>6, <1>14
  <2> QED  BY <1>14, <2>5, <2>6 DEF close
<1>15. CASE next # 0 /\ Tok(next) # Comma /\ Tok(next) # close
  <2>1. ASSUME NEW k \in Nat, SkipTo(i, k, d, b) PROVE FALSE
    <3>1. k - 1 \in Nat /\ IsList(i, k - 1, b) /\ Tok(k - 1) = close /\ Shallow(i, k - 1, c)  BY <1>10, <2>1
    <3>2. k - 1 = next  BY <1>9, <1>15, <3>1
    <3> QED  BY <1>15, <3>1, <3>2
  <2>2. End(i, d, b) = 0  BY <1>2, <2>1
  <2> QED  BY <1>15, <2>2 DEF close
<1> QED  BY <1>11, <1>13, <1>14, <1>15

\* A function that knows the ends of all that begins after i.
KnowsAfter(f, i) == \A x, d \in Nat, w \in Insides : x > i => f[<<x, d, w>>] = End(x, d, w)

\* One call of skip_value on a value does its part, if the calls that it makes do theirs.
LEMMA SkipsValue ==
  ASSUME IsText, NEW f, NEW i \in Nat, i > 0, NEW d \in Nat, KnowsAfter(f, i)
  PROVE  SkipAt(f, i, d, "value") = End(i, d, "value")
<1>1. Tok(i) \in DOMAIN Closer => f[<<i + 1, d, Tok(i)>>] = End(i + 1, d, Tok(i))
  <2>1. i + 1 \in Nat /\ i + 1 > i  OBVIOUS
  <2>2. Tok(i) \in DOMAIN Closer => Tok(i) \in Insides  BY MarksAreNone DEF Insides
  <2> QED  BY <2>1, <2>2 DEF KnowsAfter
<1>2. SkipAt(f, i, d, "value") =
        IF d > MaxDepth THEN 0
        ELSE IF Tok(i) \in Scalars THEN i + 1
        ELSE IF Tok(i) \notin DOMAIN Closer THEN 0
        ELSE IF Tok(i + 1) = Closer[Tok(i)] THEN i + 2
        ELSE f[<<i + 1, d, Tok(i)>>]
  BY DEF SkipAt
<1> QED  BY <1>1, <1>2, EndOfValue, Zenon

\* So does one turn of its loop over members or elements.
LEMMA SkipsList ==
  ASSUME IsText, NEW f, NEW i \in Nat, i > 0, NEW d \in Nat, NEW b \in Brackets, KnowsAfter(f, i),
         f[<<i, d + 1, "value">>] = End(i, d + 1, "value")
  PROVE  SkipAt(f, i, d, b) = End(i, d, b)
<1> DEFINE next == IF Named(i, b) THEN End(ValueOf(i, b), d + 1, "value") ELSE 0
<1>1. b # "value" /\ b \in Insides /\ "value" \in Insides  BY MarksDiffer DEF Insides, Brackets
<1>2. f[<<ValueOf(i, b), d + 1, "value">>] = End(ValueOf(i, b), d + 1, "value")
  <2>1. CASE b = LBracket  BY <2>1 DEF ValueOf
  <2>2. CASE b # LBracket
    <3>1. i + 2 \in Nat /\ d + 1 \in Nat /\ i + 2 > i  OBVIOUS
    <3>2. f[<<i + 2, d + 1, "value">>] = End(i + 2, d + 1, "value")  BY <1>1, <3>1 DEF KnowsAfter
    <3> QED  BY <2>2, <3>2 DEF ValueOf
  <2> QED  BY <2>1, <2>2
<1>3. next \in Nat /\ (next # 0 => next > i)
  <2>1. ValueOf(i, b) \in Nat /\ ValueOf(i, b) > 0 /\ ValueOf(i, b) >= i  BY DEF ValueOf
  <2>2. d + 1 \in Nat  OBVIOUS
  <2> DEFINE e == End(ValueOf(i, b), d + 1, "value")
  <2>3. e \in Nat /\ (e # 0 => e > ValueOf(i, b))  BY <1>1, <2>1, <2>2, EndIs
  <2>4. ValueOf(i, b) \in Nat  BY <2>1
  <2> HIDE DEF e
  <2>5. next = IF Named(i, b) THEN e ELSE 0  BY DEF e
  <2> HIDE DEF next
  <2> QED  BY <2>1, <2>3, <2>5
<1> DEFINE after == End(next + 1, d, b)
<1>4. next # 0 => f[<<next + 1, d, b>>] = after
  <2> HIDE DEF next
  <2>1. next # 0 => next + 1 \in Nat /\ next + 1 > i  BY <1>3
  <2> QED  BY <1>1, <2>1 DEF KnowsAfter
<1>5. SkipAt(f, i, d, b) =
        IF next = 0 THEN 0
        ELSE IF Tok(next) = Comma THEN f[<<next + 1, d, b>>]
        ELSE IF Tok(next) = Closer[b] THEN next + 1
        ELSE 0
  <2>1. next = IF b = LBracket \/ (Tok(i) \in Strings /\ Tok(i + 1) = Colon)
               THEN f[<<IF b = LBracket THEN i ELSE i + 2, d + 1, "value">>] ELSE 0
    BY <1>2 DEF Named, ValueOf
  <2> HIDE DEF next
  <2> QED  BY <1>1, <2>1, Zenon DEF SkipAt
<1>6. End(i, d, b) =
        IF next = 0 THEN 0
        ELSE IF Tok(next) = Comma THEN after
        ELSE IF Tok(next) = Closer[b] THEN next + 1
        ELSE 0
  BY EndOfList
<1> HIDE DEF next, after
<1> QED  BY <1>4, <1>5, <1>6, Zenon

\* Behind the text, and before it, nothing is skipped.
LEMMA SkipsNothing ==
  ASSUME NEW f, NEW i \in Nat, NEW d \in Nat, Tok(i) = "eof"
  PROVE  /\ SkipAt(f, i, d, "value") = 0
         /\ \A b \in Brackets : f[<<i, d + 1, "value">>] = 0 => SkipAt(f, i, d, b) = 0
<1>1. Tok(i) \notin Scalars /\ Tok(i) \notin DOMAIN Closer /\ Tok(i) \notin Strings
  BY MarksAreNone, MarksDiffer
<1>2. SkipAt(f, i, d, "value") = 0  BY <1>1 DEF SkipAt
<1>3. ASSUME NEW b \in Brackets, f[<<i, d + 1, "value">>] = 0 PROVE SkipAt(f, i, d, b) = 0
  <2>1. b # "value"  BY MarksDiffer DEF Brackets
  <2>2. CASE b = LBracket  BY <1>3, <2>1, <2>2, Zenon DEF SkipAt
  <2>3. CASE b # LBracket  BY <1>1, <2>1, <2>3, Zenon DEF SkipAt
  <2> QED  BY <2>2, <2>3
<1> QED  BY <1>2, <1>3

\* No value begins behind the text.
LEMMA EndsNothing ==
  ASSUME IsText, NEW i \in Nat, i > 0, NEW d \in Nat, NEW w \in Insides, Tok(i) = "eof" PROVE End(i, d, w) = 0
<1>1. ASSUME NEW k \in Nat, SkipTo(i, k, d, w) PROVE FALSE
  <2>1. \E j \in Nat : Derived[<<i, j, w>>]
    <3>1. CASE w = "value"  BY <1>1, <3>1 DEF SkipTo, IsValue
    <3>2. CASE w # "value"
      <4>1. k - 1 \in Nat /\ IsList(i, k - 1, w)  BY <1>1, <3>2 DEF SkipTo
      <4> QED  BY <4>1 DEF IsList
    <3> QED  BY <3>1, <3>2
  <2>2. w \in SpanKinds  BY ItemKinds DEF Insides
  <2>3. Tok(i) \in Scalars \cup {LBrace, LBracket}  BY <2>1, <2>2, SpansAreShaped DEF Shaped, Flat
  <2> QED  BY <2>3, MarksAreNone, MarksDiffer
<1> QED  BY <1>1 DEF End

\* Outside the text there is nothing.
LEMMA EofAt == ASSUME NEW i, i \notin 1..Len(text) PROVE Tok(i) = "eof"
BY DEF Tok

\* skip_value ends, so there is a function that computes it.
LEMMA SkipSolved ==
  ASSUME IsText PROVE SkipFrom = [p \in Places |-> SkipAt(SkipFrom, p[1], p[2], p[3])]
<1> DEFINE Solves(f) == f = [p \in Places |-> SkipAt(f, p[1], p[2], p[3])]
           g == [p \in Places |-> IF p[1] = 0 THEN 0 ELSE End(p[1], p[2], p[3])]
<1>1. ASSUME NEW i \in Nat, NEW d \in Nat, NEW w \in Insides
      PROVE  g[<<i, d, w>>] = IF i = 0 THEN 0 ELSE End(i, d, w)
  <2>1. <<i, d, w>> \in Places  BY DEF Places, Insides
  <2> QED  BY <2>1
<1> HIDE DEF g
<1>2. ASSUME NEW i \in Nat, i > 0, NEW d \in Nat, NEW w \in Insides PROVE SkipAt(g, i, d, w) = End(i, d, w)
  <2>1. KnowsAfter(g, i)  BY <1>1, <1>2 DEF KnowsAfter
  <2>2. d + 1 \in Nat /\ "value" \in Insides  BY DEF Insides
  <2>3. g[<<i, d + 1, "value">>] = End(i, d + 1, "value")  BY <1>1, <1>2, <2>2
  <2>4. w = "value" \/ w \in Brackets  BY DEF Insides, Brackets
  <2> QED  BY <1>2, <2>1, <2>3, <2>4, SkipsValue, SkipsList
<1>3. ASSUME NEW d \in Nat, NEW w \in Insides PROVE SkipAt(g, 0, d, w) = 0
  <2>1. Tok(0) = "eof" /\ 0 \in Nat
    <3>1. 0 \notin 1..Len(text)  BY DEF IsText
    <3> QED  BY <3>1, EofAt
  <2>2. d + 1 \in Nat /\ "value" \in Insides  BY DEF Insides
  <2>3. g[<<0, d + 1, "value">>] = 0  BY <1>1, <2>1, <2>2
  <2>4. w = "value" \/ w \in Brackets  BY DEF Insides, Brackets
  <2> QED  BY <2>1, <2>3, <2>4, SkipsNothing
<1>4. Solves(g)
  <2>1. ASSUME NEW p \in Places PROVE g[p] = SkipAt(g, p[1], p[2], p[3])
    <3>1. p[1] \in Nat /\ p[2] \in Nat /\ p[3] \in Insides  BY DEF Places, Insides
    <3>2. g[p] = IF p[1] = 0 THEN 0 ELSE End(p[1], p[2], p[3])  BY DEF g
    <3>3. CASE p[1] = 0  BY <1>3, <3>1, <3>2, <3>3
    <3>4. CASE p[1] # 0
      <4>1. p[1] > 0  BY <3>1, <3>4
      <4> QED  BY <1>2, <3>1, <3>2, <3>4, <4>1
    <3> QED  BY <3>3, <3>4
  <2>2. g = [p \in Places |-> g[p]]  BY DEF g
  <2> QED  BY <2>1, <2>2
<1>5. \E f : Solves(f)  BY <1>4
<1>6. SkipFrom = CHOOSE f : Solves(f)  BY DEF SkipFrom
<1> HIDE DEF Solves
<1>7. Solves(SkipFrom)  BY <1>5, <1>6, Zenon
<1> QED  BY <1>7 DEF Solves

\* So its definition can be unfolded.
LEMMA SkipUnfolds ==
  ASSUME IsText, NEW i \in Nat, NEW d \in Nat, NEW w \in Insides
  PROVE  SkipFrom[<<i, d, w>>] = SkipAt(SkipFrom, i, d, w)
<1> DEFINE p == <<i, d, w>>
           F == SkipFrom
<1>1. p \in Places /\ p[1] = i /\ p[2] = d /\ p[3] = w  BY DEF Places, Insides
<1>2. F = [q \in Places |-> SkipAt(F, q[1], q[2], q[3])]  BY SkipSolved
<1> HIDE DEF p, F
<1>3. F[p] = SkipAt(F, p[1], p[2], p[3])  BY <1>1, <1>2
<1>4. F[p] = SkipAt(F, i, d, w)  BY <1>1, <1>3, Zenon
<1> QED  BY <1>4, Zenon DEF p, F

\* skip_value goes to the end of what is well-formed and not too deep.
LEMMA SkipIsEnd ==
  ASSUME IsText, NEW i \in Nat, i > 0, NEW d \in Nat, NEW w \in Insides PROVE SkipFrom[<<i, d, w>>] = End(i, d, w)
<1> DEFINE Known(n) == \A x, y \in Nat, v \in Insides : x > 0 /\ x + n > Len(text) => SkipFrom[<<x, y, v>>] = End(x, y, v)
           S == {n \in Nat : Known(n)}
<1>1. 0 \in S
  <2> SUFFICES ASSUME NEW x \in Nat, NEW y \in Nat, NEW v \in Insides, x > 0, x > Len(text)
               PROVE  SkipFrom[<<x, y, v>>] = End(x, y, v)
    OBVIOUS
  <2>1. Tok(x) = "eof"
    <3>1. x \notin 1..Len(text)  BY DEF IsText
    <3> QED  BY <3>1, EofAt
  <2>2. End(x, y, v) = 0  BY <2>1, EndsNothing
  <2>3. y + 1 \in Nat /\ "value" \in Insides  BY DEF Insides
  <2>4. SkipFrom[<<x, y + 1, "value">>] = 0
    <3>1. SkipFrom[<<x, y + 1, "value">>] = SkipAt(SkipFrom, x, y + 1, "value")  BY <2>3, SkipUnfolds
    <3>2. SkipAt(SkipFrom, x, y + 1, "value") = 0  BY <2>1, <2>3, SkipsNothing
    <3> QED  BY <3>1, <3>2
  <2>5. v = "value" \/ v \in Brackets  BY DEF Insides, Brackets
  <2>6. SkipAt(SkipFrom, x, y, v) = 0  BY <2>1, <2>4, <2>5, SkipsNothing
  <2> QED  BY <2>2, <2>6, SkipUnfolds
<1>2. ASSUME NEW n \in Nat, Known(n) PROVE Known(n + 1)
  <2> SUFFICES ASSUME NEW x \in Nat, NEW y \in Nat, NEW v \in Insides, x > 0, x + (n + 1) > Len(text)
               PROVE  SkipFrom[<<x, y, v>>] = End(x, y, v)
    OBVIOUS
  <2>1. KnowsAfter(SkipFrom, x)
    <3>1. \A z \in Nat : z > x => z > 0 /\ z + n > Len(text)  BY DEF IsText
    <3> QED  BY <1>2, <3>1 DEF KnowsAfter
  <2>2. y + 1 \in Nat /\ "value" \in Insides  BY DEF Insides
  <2>3. \A z \in Nat : SkipFrom[<<x, z, "value">>] = End(x, z, "value")  BY <2>1, <2>2, SkipUnfolds, SkipsValue
  <2>4. v = "value" \/ v \in Brackets  BY DEF Insides, Brackets
  <2>5. SkipAt(SkipFrom, x, y, v) = End(x, y, v)
    <3>1. SkipFrom[<<x, y + 1, "value">>] = End(x, y + 1, "value")  BY <2>2, <2>3
    <3>2. v \in Brackets => SkipAt(SkipFrom, x, y, v) = End(x, y, v)  BY <2>1, <3>1, SkipsList
    <3>3. SkipAt(SkipFrom, x, y, "value") = End(x, y, "value")  BY <2>1, SkipsValue
    <3> QED  BY <2>4, <3>2, <3>3
  <2> QED  BY <2>5, SkipUnfolds
<1>3. \A n \in S : n + 1 \in S
  <2> HIDE DEF Known
  <2> QED  BY <1>2
<1>4. S \subseteq Nat  OBVIOUS
<1> HIDE DEF S, Known
<1>5. Len(text) \in S  BY <1>1, <1>3, <1>4, SetInduction DEF IsText
<1>6. Known(Len(text))  BY <1>5 DEF S
<1>7. i + Len(text) > Len(text)  BY DEF IsText
<1> QED  BY <1>6, <1>7 DEF Known

\* What the parser takes from skip_value.
TooDeepAt(i, j) == \E k \in i..(j - 1) : Tok(k) \notin {RBrace, RBracket} /\ Enclosing(k) - Enclosing(i) > MaxDepth

\* skip_value finds the end of a value that is not too deep; what it gives up on is no value, or too deep.
LEMMA SkippedIs ==
  ASSUME IsText, NEW i \in Nat, i > 0
  PROVE  /\ Skipped(i) \in Nat
         /\ Skipped(i) # 0 => IsValue(i, Skipped(i)) /\ ~TooDeepAt(i, Skipped(i))
         /\ \A j \in Nat : Skipped(i) = 0 /\ IsValue(i, j) => TooDeepAt(i, j)
<1> DEFINE s == Skipped(i)
<1>1. "value" \in Insides /\ 0 \in Nat  BY DEF Insides
<1>2. s = End(i, 0, "value")  BY <1>1, SkipIsEnd DEF Skipped
<1>3. s \in Nat /\ \A k \in Nat : SkipTo(i, k, 0, "value") <=> k # 0 /\ s = k  BY <1>1, <1>2, EndIs
<1>4. Enclosing(i) \in Int /\ MaxDepth \in Nat  BY EnclosingType, TextBounds
<1>5. ASSUME NEW j \in Nat PROVE Shallow(i, j, Enclosing(i) + MaxDepth - 0) <=> ~TooDeepAt(i, j)
  <2>1. ASSUME NEW k \in i..(j - 1)
        PROVE  Enclosing(k) - Enclosing(i) > MaxDepth <=> ~(Enclosing(k) <= Enclosing(i) + MaxDepth - 0)
    <3>1. k \in Nat  OBVIOUS
    <3>2. Enclosing(k) \in Int  BY <3>1, EnclosingType
    <3> QED  BY <1>4, <3>2
  <2> QED  BY <2>1 DEF Shallow, TooDeepAt
<1>6. \A k \in Nat : SkipTo(i, k, 0, "value") <=> IsValue(i, k) /\ ~TooDeepAt(i, k)  BY <1>5 DEF SkipTo
<1>7. \A k \in Nat : IsValue(i, k) => k # 0  BY ValueIs
<1> HIDE DEF s
<1>8. /\ s \in Nat
      /\ s # 0 => IsValue(i, s) /\ ~TooDeepAt(i, s)
      /\ \A j \in Nat : s = 0 /\ IsValue(i, j) => TooDeepAt(i, j)
  BY <1>3, <1>6, <1>7
<1> QED  BY <1>8 DEF s

-----------------------------------------------------------------------------
(* Members and elements, as far as they have been read                     *)

\* What has been read of an object or array: the keys and elements up to n.
MembersUpTo(open, n) == {k \in open..n : Tok(k + 1) = Colon /\ Enclosing(k) = Enclosing(open) + 1}
ElementsUpTo(open, n) == {k \in (open + 1)..n : Enclosing(k) = Enclosing(open) + 1 /\ Tok(k) \notin Follows}

\* The member behind those that were read is the next one.
LEMMA MembersGrow ==
  ASSUME IsText, NEW open, NEW i, Within(open, i), NEW j \in Nat, IsMember(i, j), Tok(j) \in Follows
  PROVE  /\ MembersUpTo(open, j - 1) = MembersUpTo(open, i - 2) \cup {i}
         /\ i \notin MembersUpTo(open, i - 2) /\ i + 2 < j
<1>1. i \in Nat /\ i > 0 /\ open \in Nat /\ open < i /\ Enclosing(i) = Enclosing(open) + 1  BY DEF Within
<1>2. \A k \in (i - 1)..(j - 1) : Tok(k + 1) = Colon /\ Enclosing(k) = Enclosing(i) <=> k = i
  BY <1>1, MemberPlaces
<1>3. i + 2 < j  BY <1>1, MemberPlaces
<1>4. (open..(j - 1)) = (open..(i - 2)) \cup ((i - 1)..(j - 1))  BY <1>1, <1>3
<1>5. i \in (i - 1)..(j - 1) /\ i \notin open..(i - 2)  BY <1>1, <1>3
<1> QED  BY <1>1, <1>2, <1>3, <1>4, <1>5 DEF MembersUpTo

\* The element behind those that were read is the next one.
LEMMA ElementsGrow ==
  ASSUME IsText, NEW open, NEW i, Within(open, i), NEW j \in Nat, IsValue(i, j), Tok(j) \in Follows, NEW n \in {j - 1, j}
  PROVE  /\ ElementsUpTo(open, n) = ElementsUpTo(open, i - 1) \cup {i}
         /\ i \notin ElementsUpTo(open, i - 1) /\ i < j
<1>1. i \in Nat /\ i > 0 /\ open \in Nat /\ open < i /\ Enclosing(i) = Enclosing(open) + 1  BY DEF Within
<1>2. \A k \in i..j : Enclosing(k) = Enclosing(i) /\ Tok(k) \notin Follows <=> k = i  BY <1>1, ElementPlaces
<1>3. i < j  BY <1>1, ValueShape DEF Flat
<1>4. n \in Nat /\ ((open + 1)..n) = ((open + 1)..(i - 1)) \cup (i..n)  BY <1>1, <1>3
<1>5. i \in i..n /\ i \notin (open + 1)..(i - 1) /\ \A k \in i..n : k \in i..j  BY <1>1, <1>3
<1> QED  BY <1>1, <1>2, <1>3, <1>4, <1>5 DEF ElementsUpTo

\* All of them.
LEMMA MembersAll ==
  ASSUME IsText, NEW open \in Nat, open > 0, NEW j \in Nat, IsValue(open, j), Tok(j) \in Follows
  PROVE  Members(open) = MembersUpTo(open, j - 2)
<1>1. ValueEnd(open) = j  BY ValueEndIs
<1>2. open < j /\ Enclosing(j) = Enclosing(open)  BY ValueShape DEF Flat
<1>3. Enclosing(open) \in Int  BY EnclosingType
<1>4. Tok((j - 1) + 1) # Colon
  <2>1. (j - 1) + 1 = j  OBVIOUS
  <2> QED  BY <2>1, MarksDiffer DEF Follows
<1>5. \A k \in open..j : k = j \/ k = j - 1 \/ k \in open..(j - 2)  OBVIOUS
<1>6. \A k \in open..(j - 2) : k \in open..j  OBVIOUS
<1>7. Enclosing(j) # Enclosing(open) + 1  BY <1>2, <1>3
<1> QED  BY <1>1, <1>4, <1>5, <1>6, <1>7 DEF Members, MembersUpTo

\* All elements stand before the end of their array.
LEMMA ElementsAll ==
  ASSUME IsText, NEW open \in Nat, open > 0, NEW j \in Nat, IsValue(open, j), Tok(j) \in Follows
  PROVE  Elements(open) = ElementsUpTo(open, j - 2)
BY ValueEndIs DEF Elements, ElementsUpTo, Follows

\* The members of the text are those of its first bracket, up to the last token.
LEMMA TopAll ==
  ASSUME IsText
  PROVE  /\ TopMembers = MembersUpTo(1, Len(text))
         /\ MembersUpTo(1, Len(text)) = MembersUpTo(1, (Len(text) + 1) - 2)
         /\ \A n \in Int : n <= Len(text) => MembersUpTo(1, n) \subseteq TopMembers
<1>1. Enclosing(1) + 1 = 1  BY EnclosingFirst
<1>2. TopMembers = MembersUpTo(1, Len(text))  BY <1>1 DEF TopMembers, MembersUpTo
<1>3. Tok(Len(text) + 1) # Colon
  <2>1. Len(text) + 1 \notin 1..Len(text)  BY DEF IsText
  <2> QED  BY <2>1, EofAt, MarksDiffer
<1>4. \A k \in 1..Len(text) : k = Len(text) \/ k \in 1..((Len(text) + 1) - 2)  BY DEF IsText
<1>5. \A k \in 1..((Len(text) + 1) - 2) : k \in 1..Len(text)  BY DEF IsText
<1>6. MembersUpTo(1, Len(text)) = MembersUpTo(1, (Len(text) + 1) - 2)  BY <1>3, <1>4, <1>5 DEF MembersUpTo
<1>7. \A n \in Int : n <= Len(text) => MembersUpTo(1, n) \subseteq TopMembers
  <2>1. \A n \in Int : n <= Len(text) => 1..n \subseteq 1..Len(text)  BY DEF IsText
  <2> QED  BY <1>2, <2>1 DEF MembersUpTo
<1> QED  BY <1>2, <1>6, <1>7

-----------------------------------------------------------------------------
(* A list of refs                                                          *)

RefAt(s) == Tok(s) \in Refs /\ Tok(s + 1) = Comma

\* The loop over a list of refs stops at the first place where no ref and comma stand.
LEMMA ListStopIs ==
  ASSUME IsText, NEW i \in Nat, i > 0
  PROVE  \E n \in Nat : ListStop(i) = i + 2 * n /\ ~RefAt(i + 2 * n) /\ \A m \in Nat : m < n => RefAt(i + 2 * m)
<1> DEFINE N == Len(text)
           S == {n \in Nat : ~RefAt(i + 2 * n)}
           Stops(s) == /\ \E n \in 0..N : s = i + 2 * n
                       /\ ~(Tok(s) \in Refs /\ Tok(s + 1) = Comma)
                       /\ \A n \in 0..N : i + 2 * n < s => Tok(i + 2 * n) \in Refs /\ Tok(i + 2 * n + 1) = Comma
<1>1. N \in Nat  BY DEF IsText
<1>2. ASSUME NEW s, RefAt(s) PROVE s + 1 \in 1..N
  <2>1. Tok(s + 1) # "eof"  BY <1>2, MarksDiffer DEF RefAt
  <2> QED  BY <2>1, MarksAreNone
<1>3. N \in S
  <2>1. i + 2 * N + 1 \notin 1..N  BY <1>1
  <2> QED  BY <1>1, <1>2, <2>1
<1>4. PICK n \in S : \A m \in S : n <= m
  <2>1. S \in SUBSET Nat /\ S # {}  BY <1>3
  <2> HIDE DEF S
  <2> QED  BY <2>1, LeastElement
<1>5. n \in Nat /\ ~RefAt(i + 2 * n) /\ \A m \in Nat : m < n => RefAt(i + 2 * m)  BY <1>4
<1>6. n <= N  BY <1>3, <1>4
<1> DEFINE s == i + 2 * n
<1>7. s <= i + N
  <2>1. CASE n = 0  BY <1>1, <2>1
  <2>2. CASE n # 0
    <3>1. n - 1 \in Nat /\ n - 1 < n  BY <1>5, <2>2
    <3>2. RefAt(i + 2 * (n - 1))  BY <1>5, <3>1
    <3>3. i + 2 * (n - 1) + 1 \in 1..N  BY <1>2, <3>2
    <3>4. i + 2 * (n - 1) + 1 = s - 1  BY <1>5
    <3> QED  BY <1>1, <3>3, <3>4
  <2> QED  BY <2>1, <2>2
<1>8. s \in i..(i + N)  BY <1>1, <1>5, <1>7
<1>9. Stops(s)
  <2>1. n \in 0..N  BY <1>1, <1>5, <1>6
  <2>2. ASSUME NEW m \in 0..N, i + 2 * m < s PROVE Tok(i + 2 * m) \in Refs /\ Tok(i + 2 * m + 1) = Comma
    <3>1. m \in Nat /\ m < n  BY <1>5, <2>2
    <3> QED  BY <1>5, <3>1 DEF RefAt
  <2> QED  BY <1>5, <2>1, <2>2 DEF RefAt
<1>10. ASSUME NEW x, Stops(x) PROVE x = s
  <2>1. PICK m \in 0..N : x = i + 2 * m  BY <1>10
  <2>2. m \in Nat /\ ~RefAt(i + 2 * m)  BY <1>1, <1>10, <2>1 DEF RefAt
  <2>3. ~(m < n)  BY <1>5, <2>2
  <2>4. ~(n < m)
    <3> SUFFICES ASSUME n < m PROVE FALSE  OBVIOUS
    <3>1. n \in 0..N /\ i + 2 * n < x  BY <1>1, <1>5, <1>6, <2>1
    <3> QED  BY <1>5, <1>10, <3>1 DEF RefAt
  <2>5. m = n  BY <1>5, <2>2, <2>3, <2>4
  <2> QED  BY <2>1, <2>5
<1>11. ListStop(i) = CHOOSE x \in i..(i + N) : Stops(x)  BY DEF ListStop
<1> HIDE DEF Stops, s
<1>12. ListStop(i) = s  BY <1>8, <1>9, <1>10, <1>11
<1> QED  BY <1>5, <1>12 DEF s

\* So far the array holds refs and the commas between them.
RefsUpTo(open, s) ==
  Within(open, s) /\ \A k \in (open + 1)..(s - 1) : Enclosing(k) = Enclosing(open) + 1 /\ Tok(k) \in Refs \cup {Comma}

\* A scalar is a value.
LEMMA ScalarSpan == ASSUME NEW i \in Nat, Tok(i) \in Scalars PROVE IsValue(i, i + 1)
<1>1. i + 1 \in Nat  OBVIOUS
<1> QED  BY <1>1, ValueIs

\* One ref and comma more.
LEMMA RefsStep ==
  ASSUME IsText, NEW open, NEW s, RefsUpTo(open, s), Tok(open) = LBracket, RefAt(s) PROVE RefsUpTo(open, s + 2)
<1>1. Within(open, s) /\ s \in Nat /\ s > 0 /\ open \in Nat /\ open < s /\ Enclosing(s) = Enclosing(open) + 1
  BY DEF RefsUpTo, Within
<1>2. Tok(s) \in Scalars  BY MarksAreNone DEF RefAt
<1>3. IsItem(s, s + 1, Tok(open)) /\ s + 1 \in Nat
  BY <1>1, <1>2, ScalarSpan, ItemKinds DEF IsItem, IsValue
<1>4. Within(open, (s + 1) + 1)  BY <1>1, <1>3, WithinNext DEF RefAt
<1>5. (s + 1) + 1 = s + 2  BY <1>1
<1>6. Enclosing(s + 1) = Enclosing(s)
  <2>1. Tok(s) \notin {LBrace, LBracket, RBrace, RBracket}  BY <1>2, MarksAreNone
  <2> QED  BY <1>1, <2>1, EnclosingStep
<1>7. \A k \in (open + 1)..(s + 2 - 1) : k = s \/ k = s + 1 \/ k \in (open + 1)..(s - 1)  BY <1>1
<1>8. Tok(s) \in Refs /\ Tok(s + 1) = Comma  BY DEF RefAt
<1> QED  BY <1>1, <1>4, <1>5, <1>6, <1>7, <1>8 DEF RefsUpTo

\* Up to where the loop stops there are refs and commas only.
LEMMA RefsToStop ==
  ASSUME IsText, NEW open \in Nat, Within(open, open + 1), Tok(open) = LBracket
  PROVE  RefsUpTo(open, ListStop(open + 1)) /\ ~RefAt(ListStop(open + 1))
<1> DEFINE i == open + 1
<1>1. i \in Nat /\ i > 0  OBVIOUS
<1>2. PICK n \in Nat : ListStop(i) = i + 2 * n /\ ~RefAt(i + 2 * n) /\ \A m \in Nat : m < n => RefAt(i + 2 * m)
  BY <1>1, ListStopIs
<1> DEFINE S == {m \in Nat : m <= n => RefsUpTo(open, i + 2 * m)}
<1>3. 0 \in S
  <2>1. i + 2 * 0 = i /\ (open + 1)..(i - 1) = {}  OBVIOUS
  <2> QED  BY <2>1 DEF RefsUpTo
<1>4. ASSUME NEW m \in S PROVE m + 1 \in S
  <2> SUFFICES ASSUME m + 1 <= n PROVE RefsUpTo(open, i + 2 * (m + 1))  OBVIOUS
  <2>1. m \in Nat /\ m < n /\ RefsUpTo(open, i + 2 * m)  OBVIOUS
  <2>2. RefAt(i + 2 * m)  BY <1>2, <2>1
  <2>3. RefsUpTo(open, (i + 2 * m) + 2)  BY <2>1, <2>2, RefsStep
  <2>4. i + 2 * (m + 1) = (i + 2 * m) + 2  BY <2>1
  <2> QED  BY <2>3, <2>4
<1>5. S \subseteq Nat  OBVIOUS
<1> HIDE DEF S
<1>6. n \in S  BY <1>3, <1>4, <1>5, SetInduction
<1>7. RefsUpTo(open, i + 2 * n)  BY <1>6 DEF S
<1> QED  BY <1>2, <1>7

\* An array of refs that is read to its end.
LEMMA RefsRead ==
  ASSUME IsText, NEW open \in Nat, Within(open, open + 1), Tok(open) = LBracket, NEW s, s = ListStop(open + 1),
         Tok(s) \in Refs, Tok(s + 1) = RBracket
  PROVE  /\ s \in Nat /\ IsValue(open, s + 2) /\ {Tok(k) : k \in {k \in (open + 1)..s : Tok(k) # Comma}} \subseteq Refs
         /\ Tok(s + 2) \in Follows =>
              RefList(open) /\ {Tok(k) : k \in Elements(open)} = {Tok(k) : k \in {k \in (open + 1)..s : Tok(k) # Comma}}
<1>1. RefsUpTo(open, s)  BY RefsToStop
<1>2. Within(open, s) /\ s \in Nat /\ s > 0 /\ open > 0 /\ open < s /\ Enclosing(s) = Enclosing(open) + 1
  BY <1>1 DEF RefsUpTo, Within
<1>3. IsItem(s, s + 1, Tok(open)) /\ s + 1 \in Nat
  BY <1>2, MarksAreNone, ScalarSpan, ItemKinds DEF IsItem, IsValue
<1>4. IsValue(open, (s + 1) + 1)  BY <1>2, <1>3, WithinEnd, MarksAreNone
<1>5. (s + 1) + 1 = s + 2 /\ (s + 2) - 2 = s /\ s + 2 \in Nat  BY <1>2
<1>6. IsValue(open, s + 2)  BY <1>4, <1>5
<1>7. ASSUME Tok(s + 2) \in Follows
      PROVE  RefList(open) /\ Elements(open) = {k \in (open + 1)..s : Tok(k) # Comma}
  <2>1. Elements(open) = ElementsUpTo(open, s)  BY <1>2, <1>5, <1>6, <1>7, ElementsAll
  <2>2. \A k \in (open + 1)..s : Enclosing(k) = Enclosing(open) + 1 /\ Tok(k) \in Refs \cup {Comma}
    <3>1. \A k \in (open + 1)..s : k = s \/ k \in (open + 1)..(s - 1)  BY <1>2
    <3> QED  BY <1>1, <1>2, <3>1 DEF RefsUpTo
  <2>3. \A t \in Refs : t \notin Follows  BY MarksAreNone DEF Follows
  <2>4. Comma \in Follows  BY DEF Follows
  <2>5. ElementsUpTo(open, s) = {k \in (open + 1)..s : Tok(k) # Comma}  BY <2>2, <2>3, <2>4 DEF ElementsUpTo
  <2>6. \A k \in Elements(open) : Tok(k) \in Refs  BY <2>1, <2>2, <2>5
  <2> QED  BY <2>1, <2>5, <2>6 DEF RefList
<1>8. \A k \in (open + 1)..s : Tok(k) # Comma => Tok(k) \in Refs
  <2>1. \A k \in (open + 1)..s : k = s \/ k \in (open + 1)..(s - 1)  BY <1>2
  <2> QED  BY <1>1, <2>1 DEF RefsUpTo
<1> QED  BY <1>2, <1>6, <1>7, <1>8

\* An array that holds something else.
LEMMA NoRefsRead ==
  ASSUME IsText, NEW open \in Nat, Within(open, open + 1), Tok(open) = LBracket, NEW s, s = ListStop(open + 1),
         NEW j \in Nat, IsValue(open, j), Tok(j) \in Follows
  PROVE  /\ Tok(s) \notin Refs => ~RefList(open)
         /\ Tok(s) \in Refs => Tok(s + 1) = RBracket
<1>1. RefsUpTo(open, s) /\ ~RefAt(s)  BY RefsToStop
<1>2. Within(open, s) /\ s \in Nat /\ s > 0 /\ open > 0 /\ open < s /\ Enclosing(s) = Enclosing(open) + 1
  BY <1>1 DEF RefsUpTo, Within
<1>3. PICK k \in Nat : k < j /\ IsItem(s, k, LBracket) /\ Tok(k) \in {Comma, RBracket}
  BY <1>2, WithinItem, MarksAreNone
<1>4. IsValue(s, k) /\ Tok(k) \in Follows  BY <1>3, ItemKinds DEF IsItem, IsValue, Follows
<1>5. s < k  BY <1>2, <1>4, ValueIs
<1>6. ASSUME Tok(s) \notin Refs PROVE ~RefList(open)
  <2>1. Tok(s) \notin Follows  BY <1>2, <1>4, NoColon
  <2>2. s \in (open + 1)..(j - 2)  BY <1>2, <1>3, <1>5
  <2>3. s \in ElementsUpTo(open, j - 2)  BY <1>2, <2>1, <2>2 DEF ElementsUpTo
  <2>4. Elements(open) = ElementsUpTo(open, j - 2)  BY <1>2, ElementsAll
  <2> QED  BY <1>6, <2>3, <2>4 DEF RefList
<1>7. ASSUME Tok(s) \in Refs PROVE Tok(s + 1) = RBracket
  <2>1. IsValue(s, s + 1) /\ s + 1 \in Nat  BY <1>2, <1>7, MarksAreNone, ScalarSpan
  <2>2. k = s + 1  BY <1>2, <1>4, <2>1, OneEnd
  <2> QED  BY <1>1, <1>3, <1>7, <2>2 DEF RefAt
<1> QED  BY <1>6, <1>7

\* An array of nothing.
LEMMA EmptyArray ==
  ASSUME IsText, NEW open \in Nat, open > 0, Tok(open) = LBracket, Tok(open + 1) = RBracket
  PROVE  /\ IsValue(open, open + 2)
         /\ Tok(open + 2) \in Follows => Elements(open) = {} /\ RefList(open)
<1>1. open + 2 \in Nat /\ (open + 2) - 1 = open + 1 /\ open + 2 > open + 1 /\ (open + 2) - 2 = open  OBVIOUS
<1>2. IsValue(open, open + 2)  BY <1>1, ValueIs, MarksAreNone
<1>3. ASSUME Tok(open + 2) \in Follows PROVE Elements(open) = {}
  <2>1. Elements(open) = ElementsUpTo(open, open)  BY <1>1, <1>2, <1>3, ElementsAll
  <2>2. (open + 1)..open = {}  OBVIOUS
  <2> QED  BY <2>1, <2>2 DEF ElementsUpTo
<1> QED  BY <1>2, <1>3 DEF RefList

-----------------------------------------------------------------------------
(* What the parser knows of the members that it has read                   *)

KeysAre(M, seen) == seen = {Tok(k) : k \in M} /\ Unique(M)

VersionIs(M, v) == v = (\E k \in M : Tok(k) = "version" /\ Tok(k + 2) = "one")

SelectedIs(M, has) == has = (\E k \in M : Tok(k) = "selected" /\ Tok(k + 2) = LBracket)

RefsAre(M, key, refs) ==
  /\ \A k \in M : Tok(k) = key =>
       \/ Tok(k + 2) = LBracket /\ RefList(k + 2) /\ refs = {Tok(m) : m \in Elements(k + 2)}
       \/ key = "selected" /\ Tok(k + 2) = "null" /\ refs = {}
  /\ (\A k \in M : Tok(k) # key) => refs = {}

Fits(i) == ~TooDeepAt(i, ValueEnd(i))

TopRead(M, v, m) ==
  /\ VersionIs(M, v) /\ SelectedIs(M, m.hasSelected)
  /\ RefsAre(M, "selected", m.selected) /\ RefsAre(M, "exclude", m.exclude) /\ RefsAre(M, "retry", m.retry)
  /\ \A k \in M : Tok(k) \notin Schema => Fits(k + 2)

\* What is known of the members of a root.
RootRead(M, r) ==
  /\ \A k \in M : Tok(k) = "binaryDir" => Tok(k + 2) \in Strings /\ r.binaryDir = Tok(k + 2)
  /\ \A k \in M : Tok(k) = "dataDir" => /\ Tok(k + 2) \in Strings \cup {"null"}
                                        /\ r.dataDir = IF Tok(k + 2) = "null" THEN Empty ELSE Tok(k + 2)
  /\ (\A k \in M : Tok(k) # "dataDir") => r.dataDir = Empty
  /\ \A k \in M : Tok(k) \notin {"binaryDir", "dataDir"} => Fits(k + 2)

RootIs(i, r) ==
  /\ Tok(i) = LBrace /\ Unique(Members(i)) /\ RootRead(Members(i), r)
  /\ \E k \in Members(i) : Tok(k) = "binaryDir"

\* The roots that have been read are those of the elements E, in their order.
PlaceIn(E, i) == Cardinality({m \in E : m <= i})
RootsAre(E, roots) ==
  /\ E \subseteq Nat /\ IsFiniteSet(E) /\ Cardinality(E) = Len(roots)
  /\ \A n \in 1..Len(roots) : \E i \in E : PlaceIn(E, i) = n /\ RootIs(i, roots[n])
  /\ \A i \in E : PlaceIn(E, i) \in 1..Len(roots) /\ RootIs(i, roots[PlaceIn(E, i)])

RootsDone(M, roots) ==
  /\ \A k \in M : Tok(k) = "roots" => Tok(k + 2) = LBracket /\ RootsAre(Elements(k + 2), roots)
  /\ (\A k \in M : Tok(k) # "roots") => roots = <<>>

\* Where the scanner stands, frame by frame: kp is the key "roots", op the root.
AtOpen(a, seen, v, m) ==
  a = 1 /\ seen = {} /\ v = FALSE
  /\ m = [roots |-> <<>>, hasSelected |-> FALSE, selected |-> {}, exclude |-> {}, retry |-> {}]

AllRead(M, seen, v, m) == KeysAre(M, seen) /\ TopRead(M, v, m) /\ RootsDone(M, m.roots)

AtMember(a, seen, v, m) == Tok(1) = LBrace /\ Within(1, a) /\ AllRead(MembersUpTo(1, a - 2), seen, v, m)

AtEnd(a, seen, v, m) == a \in Nat /\ Tok(1) = LBrace /\ IsValue(1, a) /\ AllRead(MembersUpTo(1, a - 2), seen, v, m)

InRoots(kp, seen, v, m) ==
  /\ kp \in Nat /\ Tok(1) = LBrace /\ Within(1, kp)
  /\ Tok(kp) = "roots" /\ Tok(kp + 1) = Colon /\ Tok(kp + 2) = LBracket
  /\ KeysAre(MembersUpTo(1, kp - 2) \cup {kp}, seen) /\ TopRead(MembersUpTo(1, kp - 2), v, m)

InRoot(kp, op, m) ==
  op \in Nat /\ Within(kp + 2, op) /\ Tok(op) = LBrace /\ RootsAre(ElementsUpTo(kp + 2, op - 1), m.roots)

AtRoot(a, seen, v, m) ==
  \E kp \in Nat : InRoots(kp, seen, v, m) /\ Within(kp + 2, a) /\ RootsAre(ElementsUpTo(kp + 2, a - 1), m.roots)

AtRootMember(a, seen, rseen, r, v, m) ==
  \E kp, op \in Nat :
    /\ InRoots(kp, seen, v, m) /\ InRoot(kp, op, m) /\ Within(op, a)
    /\ KeysAre(MembersUpTo(op, a - 2), rseen) /\ RootRead(MembersUpTo(op, a - 2), r)

AtRootClosed(a, seen, rseen, r, v, m) ==
  \E kp, op \in Nat :
    /\ InRoots(kp, seen, v, m) /\ InRoot(kp, op, m) /\ a \in Nat /\ IsValue(op, a)
    /\ KeysAre(MembersUpTo(op, a - 2), rseen) /\ RootRead(MembersUpTo(op, a - 2), r)

AtRootsClosed(a, seen, v, m) ==
  \E kp \in Nat :
    /\ InRoots(kp, seen, v, m) /\ a \in Nat /\ IsValue(kp + 2, a)
    /\ RootsAre(ElementsUpTo(kp + 2, a - 2), m.roots)

Scanned(f, a, seen, rseen, r, v, m) ==
  \/ f = "open" /\ AtOpen(a, seen, v, m)
  \/ f = "member" /\ AtMember(a, seen, v, m)
  \/ f = "root" /\ AtRoot(a, seen, v, m)
  \/ f = "rootMember" /\ AtRootMember(a, seen, rseen, r, v, m)
  \/ f = "rootClosed" /\ AtRootClosed(a, seen, rseen, r, v, m)
  \/ f = "rootsClosed" /\ AtRootsClosed(a, seen, v, m)
  \/ f = "end" /\ AtEnd(a, seen, v, m)

\* A refusal that the text has earned.
Earned(code) == IF IsJson THEN code \in Faults ELSE FaultBefore(code)

Roots == [binaryDir : Strings, dataDir : Strings]
Manifests ==
  [roots : Seq(Roots), hasSelected : BOOLEAN, selected : SUBSET Refs, exclude : SUBSET Refs, retry : SUBSET Refs]

ParserTypeOK == root \in Roots /\ version \in BOOLEAN /\ manifest \in Manifests

\* An accepted text has no fault, and means what has been read.
AcceptedIsRight == outcome = "accepted" => IsJson /\ Faults = {} /\ manifest = Meaning

\* What the parser has read is what is there, and it stands where it should.
LanguageInv ==
  /\ IsText /\ ParserTypeOK
  /\ outcome = "loading" => text = <<>> /\ frame = "open" /\ AtOpen(at, keys, version, manifest)
  /\ outcome = "reading" => Scanned(frame, at, keys, rootKeys, root, version, manifest)
  /\ RefusedForCause /\ AcceptedIsRight

-----------------------------------------------------------------------------
(* What is said of a text stays true of it                                 *)

\* The same tokens are at the same depths, and the same spans are values.
LEMMA SameText ==
  ASSUME text' = text
  PROVE  /\ IsText' <=> IsText
         /\ \A i : Tok(i)' = Tok(i) /\ Enclosing(i)' = Enclosing(i) /\ ValueEnd(i)' = ValueEnd(i)
         /\ \A i, j : (IsValue(i, j)' <=> IsValue(i, j)) /\ (Within(i, j)' <=> Within(i, j))
         /\ IsJson' <=> IsJson
<1>1. IsText' <=> IsText  BY DEF IsText
<1>2. \A i : Tok(i)' = Tok(i) /\ Enclosing(i)' = Enclosing(i)  BY DEF Tok, Enclosing
<1>3. \A i : ValueEnd(i)' = ValueEnd(i)  BY <1>2 DEF ValueEnd
<1>4. \A i, j : IsValue(i, j)' <=> IsValue(i, j)  BY DEF IsValue, Derived, Derives, Tok
<1>5. \A i, j, b : IsList(i, j, b)' <=> IsList(i, j, b)  BY DEF IsList, Derived, Derives, Tok
<1>6. \A i, j : Within(i, j)' <=> Within(i, j)
  <2>1. \A i, j : Begins(i, j)' <=> Begins(i, j)  BY DEF Begins, Derived, Derives, Tok
  <2> QED  BY <1>2, <1>4, <1>5, <2>1 DEF Within
<1>7. IsJson' <=> IsJson  BY DEF IsJson, Derived, Derives, Tok
<1> QED  BY <1>1, <1>2, <1>3, <1>4, <1>6, <1>7

\* The members and elements are the same.
LEMMA SameSets ==
  ASSUME text' = text
  PROVE  /\ \A i : Members(i)' = Members(i) /\ Elements(i)' = Elements(i)
         /\ \A i, n : MembersUpTo(i, n)' = MembersUpTo(i, n) /\ ElementsUpTo(i, n)' = ElementsUpTo(i, n)
         /\ \A i : (Fits(i)' <=> Fits(i)) /\ (RefList(i)' <=> RefList(i))
         /\ \A M : (Unique(M)' <=> Unique(M))
<1>1. \A i : Members(i)' = Members(i) /\ Elements(i)' = Elements(i)  BY SameText DEF Members, Elements
<1>2. \A i, n : MembersUpTo(i, n)' = MembersUpTo(i, n) /\ ElementsUpTo(i, n)' = ElementsUpTo(i, n)
  BY SameText DEF MembersUpTo, ElementsUpTo
<1>3. \A i : Fits(i)' <=> Fits(i)  BY SameText DEF Fits, TooDeepAt
<1>4. \A i : RefList(i)' <=> RefList(i)  BY <1>1, SameText DEF RefList
<1>5. \A M : Unique(M)' <=> Unique(M)  BY SameText DEF Unique
<1> QED  BY <1>1, <1>2, <1>3, <1>4, <1>5

\* What is known of members and roots stays known.
LEMMA SameRead ==
  ASSUME text' = text
  PROVE  /\ \A M, seen, v, m : AllRead(M, seen, v, m)' <=> AllRead(M, seen, v, m)
         /\ \A M, seen : KeysAre(M, seen)' <=> KeysAre(M, seen)
         /\ \A M, v, m : TopRead(M, v, m)' <=> TopRead(M, v, m)
         /\ \A M, r : RootRead(M, r)' <=> RootRead(M, r)
         /\ \A E, roots : RootsAre(E, roots)' <=> RootsAre(E, roots)
<1>1. \A M, seen : KeysAre(M, seen)' <=> KeysAre(M, seen)  BY SameText, SameSets DEF KeysAre
<1>2. \A M, v : VersionIs(M, v)' <=> VersionIs(M, v)  BY SameText DEF VersionIs
<1>3. \A M, h : SelectedIs(M, h)' <=> SelectedIs(M, h)  BY SameText DEF SelectedIs
<1>4. \A M, key, refs : RefsAre(M, key, refs)' <=> RefsAre(M, key, refs)  BY SameText, SameSets DEF RefsAre
<1>5. \A M, v, m : TopRead(M, v, m)' <=> TopRead(M, v, m)
  BY <1>2, <1>3, <1>4, SameText, SameSets DEF TopRead
<1>6. \A M, r : RootRead(M, r)' <=> RootRead(M, r)  BY SameText, SameSets DEF RootRead
<1>7. \A i, r : RootIs(i, r)' <=> RootIs(i, r)  BY <1>6, SameText, SameSets DEF RootIs
<1>8. \A E, roots : RootsAre(E, roots)' <=> RootsAre(E, roots)  BY <1>7 DEF RootsAre, PlaceIn
<1>9. \A M, roots : RootsDone(M, roots)' <=> RootsDone(M, roots)  BY <1>8, SameText, SameSets DEF RootsDone
<1> QED  BY <1>1, <1>5, <1>6, <1>8, <1>9 DEF AllRead

\* What is known where the scanner stands stays known.
LEMMA SameScan ==
  ASSUME text' = text
  PROVE  \A f, a, seen, rseen, r, v, m : Scanned(f, a, seen, rseen, r, v, m)' <=> Scanned(f, a, seen, rseen, r, v, m)
<1>1. \A kp, seen, v, m : InRoots(kp, seen, v, m)' <=> InRoots(kp, seen, v, m)
  BY SameText, SameSets, SameRead DEF InRoots
<1>2. \A kp, op, m : InRoot(kp, op, m)' <=> InRoot(kp, op, m)  BY SameText, SameSets, SameRead DEF InRoot
<1>3. \A a, seen, v, m : AtMember(a, seen, v, m)' <=> AtMember(a, seen, v, m)
  BY SameText, SameSets, SameRead DEF AtMember
<1>4. \A a, seen, v, m : AtEnd(a, seen, v, m)' <=> AtEnd(a, seen, v, m)
  BY SameText, SameSets, SameRead DEF AtEnd
<1>5. \A a, seen, v, m : AtRoot(a, seen, v, m)' <=> AtRoot(a, seen, v, m)
  BY <1>1, SameText, SameSets, SameRead DEF AtRoot
<1>6. \A a, seen, rseen, r, v, m : AtRootMember(a, seen, rseen, r, v, m)' <=> AtRootMember(a, seen, rseen, r, v, m)
  BY <1>1, <1>2, SameText, SameSets, SameRead DEF AtRootMember
<1>7. \A a, seen, rseen, r, v, m : AtRootClosed(a, seen, rseen, r, v, m)' <=> AtRootClosed(a, seen, rseen, r, v, m)
  BY <1>1, <1>2, SameText, SameSets, SameRead DEF AtRootClosed
<1>8. \A a, seen, v, m : AtRootsClosed(a, seen, v, m)' <=> AtRootsClosed(a, seen, v, m)
  BY <1>1, SameText, SameSets, SameRead DEF AtRootsClosed
<1>9. \A a, seen, v, m : AtOpen(a, seen, v, m)' <=> AtOpen(a, seen, v, m)  BY DEF AtOpen
<1> QED
  <2> SUFFICES ASSUME NEW f, NEW a, NEW seen, NEW rseen, NEW r, NEW v, NEW m
               PROVE  Scanned(f, a, seen, rseen, r, v, m)' <=> Scanned(f, a, seen, rseen, r, v, m)
    OBVIOUS
  <2>1. /\ AtOpen(a, seen, v, m)' <=> AtOpen(a, seen, v, m)
        /\ AtMember(a, seen, v, m)' <=> AtMember(a, seen, v, m)
        /\ AtRoot(a, seen, v, m)' <=> AtRoot(a, seen, v, m)
        /\ AtRootMember(a, seen, rseen, r, v, m)' <=> AtRootMember(a, seen, rseen, r, v, m)
        /\ AtRootClosed(a, seen, rseen, r, v, m)' <=> AtRootClosed(a, seen, rseen, r, v, m)
        /\ AtRootsClosed(a, seen, v, m)' <=> AtRootsClosed(a, seen, v, m)
        /\ AtEnd(a, seen, v, m)' <=> AtEnd(a, seen, v, m)
    BY <1>3, <1>4, <1>5, <1>6, <1>7, <1>8, <1>9, Zenon
  <2> QED  BY <2>1, Zenon DEF Scanned

\* The faults of a text and its meaning are the same as long as it is.
LEMMA SameFaults ==
  ASSUME text' = text PROVE Faults' = Faults /\ Meaning' = Meaning /\ \A c : Earned(c)' <=> Earned(c)
<1>1. TopMembers' = TopMembers  BY SameText DEF TopMembers
<1>2. \A M, key : ValuesOf(M, key)' = ValuesOf(M, key)  BY SameText DEF ValuesOf
<1>3. RootObjects' = RootObjects  BY <1>1, <1>2, SameText, SameSets DEF RootObjects
<1>4. TooDeep' <=> TooDeep
  BY <1>1, <1>3, SameText, SameSets DEF TooDeep, SkippedAt, SchemaMembers
<1>5. DuplicateKey' <=> DuplicateKey  BY <1>1, <1>3, SameText, SameSets DEF DuplicateKey
<1>6. NoVersion' <=> NoVersion  BY <1>1, <1>2, SameText DEF NoVersion
<1>7. \A key : NoRefList(key)' <=> NoRefList(key)  BY <1>1, <1>2, SameText, SameSets DEF NoRefList
<1>8. \A i : WellFormedRoot(i)' <=> WellFormedRoot(i)  BY <1>2, SameText, SameSets DEF WellFormedRoot
<1>9. NoRoots' <=> NoRoots  BY <1>1, <1>2, <1>8, SameText, SameSets DEF NoRoots
<1>10. Faults' = Faults  BY <1>4, <1>5, <1>6, <1>7, <1>9 DEF Faults, Invalid
<1>11. \A key : ListedUnder(key)' = ListedUnder(key)  BY <1>1, <1>2, SameText, SameSets DEF ListedUnder
<1>12. \A i : RootMeant(i)' = RootMeant(i)
  <2> SUFFICES ASSUME NEW i PROVE RootMeant(i)' = RootMeant(i)  OBVIOUS
  <2>1. /\ ValuesOf(Members(i), "binaryDir")' = ValuesOf(Members(i), "binaryDir")
        /\ ValuesOf(Members(i), "dataDir")' = ValuesOf(Members(i), "dataDir")
    BY SameText, SameSets DEF ValuesOf
  <2>2. \A k : Tok(k)' = Tok(k)  BY SameText
  <2> DEFINE B == ValuesOf(Members(i), "binaryDir")
             D == ValuesOf(Members(i), "dataDir")
             MeantAs(b, d, n) == [binaryDir |-> b, dataDir |-> IF n THEN d ELSE Empty]
  <2>3. Tok(CHOOSE k \in B : TRUE)' = Tok(CHOOSE k \in B : TRUE)  BY <2>1, <2>2
  <2>4. Tok(CHOOSE k \in D : TRUE)' = Tok(CHOOSE k \in D : TRUE)  BY <2>1, <2>2
  <2>5. (\E k \in D : Tok(k) # "null")' <=> (\E k \in D : Tok(k) # "null")  BY <2>1, <2>2
  <2>6. Empty' = Empty  OBVIOUS
  <2>7. (IF \E k \in D : Tok(k) # "null" THEN Tok(CHOOSE k \in D : TRUE) ELSE Empty)'
          = IF \E k \in D : Tok(k) # "null" THEN Tok(CHOOSE k \in D : TRUE) ELSE Empty
    <3> HIDE DEF B, D, Empty
    <3> QED  BY <2>4, <2>5, <2>6
  <2> QED  BY <2>3, <2>7 DEF RootMeant
<1>13. Meaning' = Meaning
  <2>1. \A E, n : Nth(E, n)' = Nth(E, n)  BY DEF Nth
  <2>2. (\E i \in ValuesOf(TopMembers, "selected") : Tok(i) = LBracket)'
          <=> \E i \in ValuesOf(TopMembers, "selected") : Tok(i) = LBracket
    BY <1>1, <1>2, SameText
  <2>3. \A n : RootMeant(Nth(RootObjects, n))' = RootMeant(Nth(RootObjects, n))
    <3>1. \A n : Nth(RootObjects, n)' = Nth(RootObjects, n)  BY <1>3, <2>1
    <3> QED  BY <1>12, <3>1
  <2>4. [n \in 1..Cardinality(RootObjects) |-> RootMeant(Nth(RootObjects, n))]'
          = [n \in 1..Cardinality(RootObjects) |-> RootMeant(Nth(RootObjects, n))]
    BY <1>3, <2>3
  <2> QED  BY <1>11, <2>2, <2>4 DEF Meaning
<1>14. \A c : FaultBefore(c)' <=> FaultBefore(c)
  <2>1. \A i, j : Begins(i, j)' <=> Begins(i, j)  BY DEF Begins, Derived, Derives, Tok
  <2>2. \A i, j : KeyAt(i, j)' <=> KeyAt(i, j)  BY <2>1, SameText DEF KeyAt
  <2>3. \A i, j : KeysBefore(i, j)' = KeysBefore(i, j)  BY SameText DEF KeysBefore
  <2>4. \A i, j, key : MemberAt(i, j, key)' <=> MemberAt(i, j, key)  BY <2>2, SameText DEF MemberAt
  <2>5. \A op : RootAt(op)' <=> RootAt(op)  BY <2>1, <2>4, SameText DEF RootAt
  <2>6. \A op : RepeatsKey(op)' <=> RepeatsKey(op)  BY <2>2, <2>3, SameText DEF RepeatsKey
  <2>7. \A key : ListsNoRef(key)' <=> ListsNoRef(key)  BY <2>1, <2>4, SameText DEF ListsNoRef
  <2>8. \A op : IsNoRoot(op)' <=> IsNoRoot(op)
    <3>1. \A i, j : Derived[<<i, j, "value">>]' = Derived[<<i, j, "value">>]  BY DEF Derived, Derives, Tok
    <3> QED  BY <2>3, <2>4, <3>1, SameText DEF IsNoRoot
  <2> QED  BY <2>4, <2>5, <2>6, <2>7, <2>8, SameText DEF FaultBefore, Invalid
<1> QED  BY <1>10, <1>13, <1>14, SameText DEF Earned

-----------------------------------------------------------------------------
(* What must follow, in a text that is JSON, where the scanner stands      *)

\* A text that is JSON is one object, from its first token to its last.
LEMMA JsonIs == ASSUME IsText, IsJson PROVE Tok(1) = LBrace /\ IsValue(1, Len(text) + 1) /\ Len(text) + 1 \in Nat
BY DEF IsJson, IsValue, IsText

\* The members of an object whose end is known: more of them are to come.
LEMMA MembersLeft ==
  ASSUME IsText, NEW open \in Nat, Tok(open) = LBrace, NEW i, Within(open, i), NEW e \in Nat, IsValue(open, e)
  PROVE  \E j \in Nat : /\ j < e /\ IsMember(i, j) /\ Tok(j) \in {Comma, RBrace} /\ i \in Nat /\ i > 0
                        /\ Tok(i) \in Strings /\ Tok(i + 1) = Colon /\ IsValue(i + 2, j) /\ i + 2 \in Nat /\ i + 2 > 0
                        /\ i \in MembersUpTo(open, e - 2) /\ MembersUpTo(open, i - 2) \subseteq MembersUpTo(open, e - 2)
<1>1. PICK j \in Nat : j < e /\ IsItem(i, j, LBrace) /\ Tok(j) \in {Comma, RBrace}  BY WithinItem, MarksAreNone
<1>2. IsMember(i, j) /\ Tok(j) \in Follows  BY <1>1, ItemKinds DEF IsItem, IsMember, Follows
<1>3. i \in Nat /\ i > 0 /\ i + 2 \in Nat /\ i + 2 > 0  BY DEF Within
<1>4. Tok(i) \in Strings /\ Tok(i + 1) = Colon /\ IsValue(i + 2, j)  BY <1>2, <1>3, MemberIs
<1>5. MembersUpTo(open, j - 1) = MembersUpTo(open, i - 2) \cup {i}  BY <1>2, MembersGrow
<1>6. MembersUpTo(open, j - 1) \subseteq MembersUpTo(open, e - 2)
  <2>1. j - 1 <= e - 2 /\ e - 2 \in Int /\ j - 1 \in Int  BY <1>1
  <2>2. open..(j - 1) \subseteq open..(e - 2)  BY <2>1
  <2> QED  BY <2>2 DEF MembersUpTo
<1> QED  BY <1>1, <1>2, <1>3, <1>4, <1>5, <1>6

\* The elements of an array whose end is known.
LEMMA ElementsLeft ==
  ASSUME IsText, NEW open \in Nat, Tok(open) = LBracket, NEW i, Within(open, i), NEW e \in Nat, IsValue(open, e)
  PROVE  \E j \in Nat : /\ j < e /\ IsValue(i, j) /\ Tok(j) \in {Comma, RBracket} /\ i \in Nat /\ i > 0
                        /\ i \in ElementsUpTo(open, e - 2)
                        /\ ElementsUpTo(open, i - 1) \subseteq ElementsUpTo(open, e - 2)
<1>1. PICK j \in Nat : j < e /\ IsItem(i, j, LBracket) /\ Tok(j) \in {Comma, RBracket}  BY WithinItem, MarksAreNone
<1>2. IsValue(i, j) /\ Tok(j) \in Follows  BY <1>1, ItemKinds DEF IsItem, IsValue, Follows
<1>3. i \in Nat /\ i > 0  BY DEF Within
<1>5. ElementsUpTo(open, j - 1) = ElementsUpTo(open, i - 1) \cup {i}  BY <1>2, ElementsGrow
<1>6. ElementsUpTo(open, j - 1) \subseteq ElementsUpTo(open, e - 2)
  <2>1. j - 1 <= e - 2 /\ e - 2 \in Int /\ j - 1 \in Int  BY <1>1
  <2>2. (open + 1)..(j - 1) \subseteq (open + 1)..(e - 2)  BY <2>1
  <2> QED  BY <2>2 DEF ElementsUpTo
<1> QED  BY <1>1, <1>2, <1>3, <1>5, <1>6

\* A member must stand where the scanner expects one in the text.
LEMMA JsonMember ==
  ASSUME IsText, IsJson, NEW a, Within(1, a)
  PROVE  \E j \in Nat : /\ IsMember(a, j) /\ Tok(j) \in {Comma, RBrace} /\ a \in Nat /\ a > 0
                        /\ Tok(a) \in Strings /\ Tok(a + 1) = Colon /\ IsValue(a + 2, j) /\ a + 2 \in Nat /\ a + 2 > 0
                        /\ a \in TopMembers /\ MembersUpTo(1, a - 2) \subseteq TopMembers
<1>1. Tok(1) = LBrace /\ IsValue(1, Len(text) + 1) /\ Len(text) + 1 \in Nat  BY JsonIs
<1>2. MembersUpTo(1, (Len(text) + 1) - 2) = TopMembers  BY TopAll
<1> QED  BY <1>1, <1>2, MembersLeft

\* A place of the key "roots" in the members of the text.
RootsKey(kp) ==
  kp \in Nat /\ Within(1, kp) /\ Tok(kp) = "roots" /\ Tok(kp + 1) = Colon /\ Tok(kp + 2) = LBracket

\* The array behind the key "roots" has an end, and its elements are the root objects.
LEMMA JsonRoots ==
  ASSUME IsText, IsJson, NEW kp, RootsKey(kp)
  PROVE  \E e \in Nat : /\ IsValue(kp + 2, e) /\ Tok(e) \in Follows /\ kp + 2 \in Nat /\ kp + 2 > 0
                        /\ kp \in TopMembers /\ kp + 2 \in ValuesOf(TopMembers, "roots")
                        /\ Elements(kp + 2) = ElementsUpTo(kp + 2, e - 2) /\ Elements(kp + 2) \subseteq RootObjects
<1>1. PICK e \in Nat : IsValue(kp + 2, e) /\ Tok(e) \in {Comma, RBrace} /\ kp + 2 \in Nat /\ kp + 2 > 0 /\ kp \in TopMembers
  BY JsonMember DEF RootsKey
<1>2. Tok(e) \in Follows  BY <1>1 DEF Follows
<1>3. kp + 2 \in ValuesOf(TopMembers, "roots")  BY <1>1 DEF ValuesOf, RootsKey
<1>4. Elements(kp + 2) = ElementsUpTo(kp + 2, e - 2)  BY <1>1, <1>2, ElementsAll
<1>5. Elements(kp + 2) \subseteq RootObjects  BY <1>3 DEF RootObjects, RootsKey
<1> QED  BY <1>1, <1>2, <1>3, <1>4, <1>5

\* An element must stand where the scanner expects a root.
LEMMA JsonRoot ==
  ASSUME IsText, IsJson, NEW kp, RootsKey(kp), NEW op, Within(kp + 2, op)
  PROVE  \E e \in Nat : /\ IsValue(op, e) /\ Tok(e) \in {Comma, RBracket} /\ op \in Nat /\ op > 0
                        /\ op \in Elements(kp + 2) /\ op \in RootObjects
<1>1. PICK e \in Nat : /\ IsValue(kp + 2, e) /\ kp + 2 \in Nat
                       /\ Elements(kp + 2) = ElementsUpTo(kp + 2, e - 2) /\ Elements(kp + 2) \subseteq RootObjects
  BY JsonRoots
<1>2. Tok(kp + 2) = LBracket  BY DEF RootsKey
<1> QED  BY <1>1, <1>2, ElementsLeft

\* A member must stand where the scanner expects one in a root.
LEMMA JsonRootMember ==
  ASSUME IsText, IsJson, NEW kp, RootsKey(kp), NEW op, Within(kp + 2, op), Tok(op) = LBrace, NEW a, Within(op, a)
  PROVE  \E j \in Nat : /\ IsMember(a, j) /\ Tok(j) \in {Comma, RBrace} /\ a \in Nat /\ a > 0
                        /\ Tok(a) \in Strings /\ Tok(a + 1) = Colon /\ IsValue(a + 2, j) /\ a + 2 \in Nat /\ a + 2 > 0
                        /\ a \in Members(op) /\ MembersUpTo(op, a - 2) \subseteq Members(op)
<1>1. PICK e \in Nat : IsValue(op, e) /\ Tok(e) \in {Comma, RBracket} /\ op \in Nat /\ op > 0  BY JsonRoot
<1>2. Members(op) = MembersUpTo(op, e - 2)
  <2>1. Tok(e) \in Follows  BY <1>1 DEF Follows
  <2> QED  BY <1>1, <2>1, MembersAll
<1> QED  BY <1>1, <1>2, MembersLeft

-----------------------------------------------------------------------------
(* The faults of a text                                                    *)

\* Each fault of a text has its code in Faults, and nothing else has.
LEMMA FaultsAre ==
  /\ TooDeep => "malformed-json" \in Faults
  /\ DuplicateKey => "duplicate-key" \in Faults
  /\ NoVersion => "unsupported-version" \in Faults
  /\ NoRoots => "invalid-roots" \in Faults
  /\ \A k \in {"selected", "exclude", "retry"} : NoRefList(k) => Invalid[k] \in Faults
  /\ (Faults = {}) <=> /\ ~TooDeep /\ ~DuplicateKey /\ ~NoVersion /\ ~NoRoots
                       /\ \A k \in {"selected", "exclude", "retry"} : ~NoRefList(k)
<1>1. DOMAIN Invalid = {"selected", "exclude", "retry"}  BY DEF Invalid
<1>2. \A c : c \in Faults <=>
        \/ TooDeep /\ c = "malformed-json"
        \/ DuplicateKey /\ c = "duplicate-key"
        \/ NoVersion /\ c = "unsupported-version"
        \/ NoRoots /\ c = "invalid-roots"
        \/ \E k \in {"selected", "exclude", "retry"} : NoRefList(k) /\ c = Invalid[k]
  <2> HIDE DEF Invalid
  <2> QED  BY <1>1 DEF Faults
<1> HIDE DEF Invalid
<1> QED  BY <1>2

\* A value that skip_value gives up on is too deep, in a text that is JSON.
LEMMA TooDeepThere ==
  ASSUME IsText, NEW i \in SkippedAt, i \in Nat, i > 0, NEW j \in Nat, IsValue(i, j), Tok(j) \in Follows, TooDeepAt(i, j)
  PROVE  TooDeep
<1>1. ValueEnd(i) = j  BY ValueEndIs
<1> QED  BY <1>1 DEF TooDeep, TooDeepAt

-----------------------------------------------------------------------------
(* One member, or one element, more                                        *)

\* Behind a member stands what leads on, what ends its object, or what no object can have there.
LEMMA MemberSpan ==
  ASSUME IsText, NEW open, Tok(open) = LBrace, NEW a, Within(open, a), Tok(a) \in Strings, Tok(a + 1) = Colon,
         NEW next \in Nat, IsValue(a + 2, next)
  PROVE  /\ Tok(next) = Comma => Within(open, next + 1)
         /\ Tok(next) = RBrace => IsValue(open, next + 1)
         /\ Tok(next) \in {Comma, RBrace} =>
              MembersUpTo(open, (next + 1) - 2) = MembersUpTo(open, a - 2) \cup {a} /\ a \notin MembersUpTo(open, a - 2)
         /\ Tok(next) \notin {Comma, RBrace} => \A e \in Nat : ~IsValue(open, e)
<1>1. a \in Nat /\ a > 0 /\ open \in Nat  BY DEF Within
<1>2. IsMember(a, next)  BY <1>1, MemberIs
<1>3. IsItem(a, next, LBrace)  BY <1>2, ItemKinds DEF IsItem, IsMember
<1>4. Closer[LBrace] = RBrace /\ LBrace \in Brackets  BY MarksAreNone DEF Brackets
<1>5. Tok(next) = Comma => Within(open, next + 1)  BY <1>3, WithinNext
<1>6. Tok(next) = RBrace => IsValue(open, next + 1)  BY <1>3, <1>4, WithinEnd
<1>7. Tok(next) \in {Comma, RBrace} =>
        MembersUpTo(open, (next + 1) - 2) = MembersUpTo(open, a - 2) \cup {a} /\ a \notin MembersUpTo(open, a - 2)
  <2>1. (next + 1) - 2 = next - 1  OBVIOUS
  <2>2. Tok(next) \in {Comma, RBrace} => Tok(next) \in Follows  BY DEF Follows
  <2> QED  BY <1>2, <2>1, <2>2, MembersGrow
<1>8. ASSUME NEW e \in Nat, IsValue(open, e) PROVE Tok(next) \in {Comma, RBrace}
  <2>1. PICK k \in Nat : IsItem(a, k, LBrace) /\ Tok(k) \in {Comma, RBrace}  BY <1>4, <1>8, WithinItem
  <2>2. k = next  BY <1>1, <1>3, <1>4, <2>1, OneItemEnd
  <2> QED  BY <2>1, <2>2
<1> QED  BY <1>5, <1>6, <1>7, <1>8

\* The same of an element and its array.
LEMMA ElementSpan ==
  ASSUME IsText, NEW open, Tok(open) = LBracket, NEW a, Within(open, a), NEW next \in Nat, IsValue(a, next)
  PROVE  /\ Tok(next) = Comma => Within(open, next + 1)
         /\ Tok(next) = RBracket => IsValue(open, next + 1)
         /\ Tok(next) \in {Comma, RBracket} =>
              /\ ElementsUpTo(open, (next + 1) - 2) = ElementsUpTo(open, a - 1) \cup {a}
              /\ ElementsUpTo(open, (next + 1) - 1) = ElementsUpTo(open, a - 1) \cup {a}
              /\ a \notin ElementsUpTo(open, a - 1)
         /\ Tok(next) \notin {Comma, RBracket} => \A e \in Nat : ~IsValue(open, e)
<1>1. a \in Nat /\ a > 0 /\ open \in Nat  BY DEF Within
<1>3. IsItem(a, next, LBracket)  BY ItemKinds DEF IsItem, IsValue
<1>4. Closer[LBracket] = RBracket /\ LBracket \in Brackets  BY MarksAreNone DEF Brackets
<1>5. Tok(next) = Comma => Within(open, next + 1)  BY <1>3, WithinNext
<1>6. Tok(next) = RBracket => IsValue(open, next + 1)  BY <1>3, <1>4, WithinEnd
<1>7. ASSUME Tok(next) \in {Comma, RBracket}
      PROVE  /\ ElementsUpTo(open, (next + 1) - 2) = ElementsUpTo(open, a - 1) \cup {a}
             /\ ElementsUpTo(open, (next + 1) - 1) = ElementsUpTo(open, a - 1) \cup {a}
             /\ a \notin ElementsUpTo(open, a - 1)
  <2>1. (next + 1) - 2 = next - 1 /\ (next + 1) - 1 = next  OBVIOUS
  <2>2. Tok(next) \in Follows  BY <1>7 DEF Follows
  <2>3. \A n \in {next - 1, next} : /\ ElementsUpTo(open, n) = ElementsUpTo(open, a - 1) \cup {a}
                                    /\ a \notin ElementsUpTo(open, a - 1)
    BY <2>2, ElementsGrow
  <2> QED  BY <2>1, <2>3
<1>8. ASSUME NEW e \in Nat, IsValue(open, e) PROVE Tok(next) \in {Comma, RBracket}
  <2>1. PICK k \in Nat : IsItem(a, k, LBracket) /\ Tok(k) \in {Comma, RBracket}  BY <1>4, <1>8, WithinItem
  <2>2. k = next  BY <1>1, <1>3, <1>4, <2>1, OneItemEnd
  <2> QED  BY <2>1, <2>2
<1> QED  BY <1>5, <1>6, <1>7, <1>8

\* A key that was not seen keeps the keys apart.
LEMMA KeyAdded ==
  ASSUME NEW M, NEW seen, KeysAre(M, seen), NEW a, Tok(a) \notin seen PROVE KeysAre(M \cup {a}, seen \cup {Tok(a)})
BY DEF KeysAre, Unique

\* What a member adds to what is known of the manifest.
LEMMA TopAdded ==
  ASSUME NEW M, NEW seen, KeysAre(M, seen), NEW a, Tok(a) \notin seen, NEW v, NEW m, TopRead(M, v, m), NEW w, NEW n,
         w = IF Tok(a) = "version" THEN Tok(a + 2) = "one" ELSE v,
         n.hasSelected = IF Tok(a) = "selected" THEN Tok(a + 2) = LBracket ELSE m.hasSelected,
         IF Tok(a) = "selected" THEN RefsAre({a}, "selected", n.selected) ELSE n.selected = m.selected,
         IF Tok(a) = "exclude" THEN RefsAre({a}, "exclude", n.exclude) ELSE n.exclude = m.exclude,
         IF Tok(a) = "retry" THEN RefsAre({a}, "retry", n.retry) ELSE n.retry = m.retry,
         Tok(a) \notin Schema => Fits(a + 2)
  PROVE  TopRead(M \cup {a}, w, n)
<1>1. \A k \in M : Tok(k) # Tok(a)  BY DEF KeysAre
<1>2. VersionIs(M \cup {a}, w)
  <2>1. VersionIs(M, v)  BY DEF TopRead
  <2>2. CASE Tok(a) = "version"
    <3>1. (\E k \in M \cup {a} : Tok(k) = "version" /\ Tok(k + 2) = "one") <=> Tok(a + 2) = "one"  BY <1>1, <2>2
    <3> QED  BY <2>2, <3>1 DEF VersionIs
  <2>3. CASE Tok(a) # "version"
    <3>1. (\E k \in M \cup {a} : Tok(k) = "version" /\ Tok(k + 2) = "one")
            <=> (\E k \in M : Tok(k) = "version" /\ Tok(k + 2) = "one")
      BY <2>3
    <3> QED  BY <2>1, <2>3, <3>1 DEF VersionIs
  <2> QED  BY <2>2, <2>3
<1>3. SelectedIs(M \cup {a}, n.hasSelected)
  <2>1. SelectedIs(M, m.hasSelected)  BY DEF TopRead
  <2>2. CASE Tok(a) = "selected"
    <3>1. (\E k \in M \cup {a} : Tok(k) = "selected" /\ Tok(k + 2) = LBracket) <=> Tok(a + 2) = LBracket  BY <1>1, <2>2
    <3> QED  BY <2>2, <3>1 DEF SelectedIs
  <2>3. CASE Tok(a) # "selected"
    <3>1. (\E k \in M \cup {a} : Tok(k) = "selected" /\ Tok(k + 2) = LBracket)
            <=> (\E k \in M : Tok(k) = "selected" /\ Tok(k + 2) = LBracket)
      BY <2>3
    <3> QED  BY <2>1, <2>3, <3>1 DEF SelectedIs
  <2> QED  BY <2>2, <2>3
<1>4. \A key, refs : RefsAre({a}, key, refs) /\ Tok(a) = key => RefsAre(M \cup {a}, key, refs)  BY <1>1 DEF RefsAre
<1>5. \A key, refs : RefsAre(M, key, refs) /\ Tok(a) # key => RefsAre(M \cup {a}, key, refs)  BY DEF RefsAre
<1>6. RefsAre(M \cup {a}, "selected", n.selected)  BY <1>4, <1>5 DEF TopRead
<1>7. RefsAre(M \cup {a}, "exclude", n.exclude)  BY <1>4, <1>5 DEF TopRead
<1>8. RefsAre(M \cup {a}, "retry", n.retry)  BY <1>4, <1>5 DEF TopRead
<1>9. \A k \in M \cup {a} : Tok(k) \notin Schema => Fits(k + 2)  BY DEF TopRead
<1> QED  BY <1>2, <1>3, <1>6, <1>7, <1>8, <1>9 DEF TopRead

\* What a member adds to what is known of a root.
LEMMA RootAdded ==
  ASSUME NEW M, NEW seen, KeysAre(M, seen), NEW a, Tok(a) \notin seen, NEW r, RootRead(M, r), NEW q,
         IF Tok(a) = "binaryDir" THEN Tok(a + 2) \in Strings /\ q.binaryDir = Tok(a + 2) ELSE q.binaryDir = r.binaryDir,
         IF Tok(a) = "dataDir"
         THEN Tok(a + 2) \in Strings \cup {"null"} /\ q.dataDir = IF Tok(a + 2) = "null" THEN Empty ELSE Tok(a + 2)
         ELSE q.dataDir = r.dataDir,
         Tok(a) \notin {"binaryDir", "dataDir"} => Fits(a + 2)
  PROVE  RootRead(M \cup {a}, q)
<1>1. \A k \in M : Tok(k) # Tok(a)  BY DEF KeysAre
<1>2. \A k \in M \cup {a} : Tok(k) = "binaryDir" => Tok(k + 2) \in Strings /\ q.binaryDir = Tok(k + 2)
  BY <1>1 DEF RootRead
<1>3. \A k \in M \cup {a} : Tok(k) = "dataDir" =>
        Tok(k + 2) \in Strings \cup {"null"} /\ q.dataDir = IF Tok(k + 2) = "null" THEN Empty ELSE Tok(k + 2)
  BY <1>1 DEF RootRead
<1>4. (\A k \in M \cup {a} : Tok(k) # "dataDir") => q.dataDir = Empty  BY DEF RootRead
<1>5. \A k \in M \cup {a} : Tok(k) \notin {"binaryDir", "dataDir"} => Fits(k + 2)  BY DEF RootRead
<1> QED  BY <1>2, <1>3, <1>4, <1>5 DEF RootRead

\* The roots are in their order: a new element is behind those before it.
LEMMA RootAppended ==
  ASSUME NEW E, NEW roots \in Seq(Roots), RootsAre(E, roots), NEW i \in Nat, \A k \in E : k < i,
         NEW r \in Roots, RootIs(i, r)
  PROVE  RootsAre(E \cup {i}, Append(roots, r))
<1> DEFINE F == E \cup {i}
           s == Append(roots, r)
<1>1. E \subseteq Nat /\ IsFiniteSet(E) /\ Cardinality(E) = Len(roots) /\ i \notin E /\ Len(roots) \in Nat
  BY DEF RootsAre
<1>2. IsFiniteSet(F) /\ Cardinality(F) = Len(roots) + 1  BY <1>1, FS_AddElement
<1>3. Len(s) = Len(roots) + 1 /\ s[Len(roots) + 1] = r /\ \A n \in 1..Len(roots) : s[n] = roots[n]  OBVIOUS
<1>4. \A k \in E : PlaceIn(F, k) = PlaceIn(E, k)
  <2> SUFFICES ASSUME NEW k \in E PROVE PlaceIn(F, k) = PlaceIn(E, k)  OBVIOUS
  <2>1. {m \in F : m <= k} = {m \in E : m <= k}  BY <1>1
  <2> QED  BY <2>1 DEF PlaceIn
<1>5. PlaceIn(F, i) = Len(roots) + 1
  <2>1. \A m \in F : m <= i  BY <1>1
  <2> HIDE DEF F
  <2>2. {m \in F : m <= i} = F  BY <2>1
  <2> QED  BY <1>2, <2>2 DEF PlaceIn, F
<1> HIDE DEF F, s
<1>6. F = E \cup {i}  BY DEF F
<1>7. ASSUME NEW n \in 1..Len(s) PROVE \E k \in F : PlaceIn(F, k) = n /\ RootIs(k, s[n])
  <2>1. CASE n = Len(roots) + 1  BY <1>3, <1>5, <1>6, <2>1
  <2>2. CASE n # Len(roots) + 1
    <3>1. n \in 1..Len(roots)  BY <1>1, <1>3, <2>2
    <3>2. PICK k \in E : PlaceIn(E, k) = n /\ RootIs(k, roots[n])  BY <3>1 DEF RootsAre
    <3> QED  BY <1>3, <1>4, <1>6, <3>1, <3>2
  <2> QED  BY <2>1, <2>2
<1>8. ASSUME NEW k \in F PROVE PlaceIn(F, k) \in 1..Len(s) /\ RootIs(k, s[PlaceIn(F, k)])
  <2>1. CASE k = i  BY <1>1, <1>3, <1>5, <2>1
  <2>2. CASE k \in E
    <3>1. PlaceIn(E, k) \in 1..Len(roots) /\ RootIs(k, roots[PlaceIn(E, k)])  BY <2>2 DEF RootsAre
    <3>2. PlaceIn(E, k) \in 1..Len(s)  BY <1>1, <1>3, <3>1
    <3> QED  BY <1>3, <1>4, <2>2, <3>1, <3>2
  <2> QED  BY <1>6, <2>1, <2>2
<1>9. F \subseteq Nat  BY <1>1, <1>6
<1> QED  BY <1>2, <1>3, <1>7, <1>8, <1>9 DEF RootsAre, F, s

\* Before the first root nothing has been read of them.
LEMMA NoRootsYet == RootsAre({}, <<>>)
<1>1. IsFiniteSet({}) /\ Cardinality({}) = 0  BY FS_EmptySet
<1> QED  BY <1>1 DEF RootsAre

-----------------------------------------------------------------------------
(* The steps of the parser                                                 *)

Reading == outcome = "reading" /\ IsText /\ ParserTypeOK /\ Scanned(frame, at, keys, rootKeys, root, version, manifest)

\* A step finds what is there, or refuses the text for what is there.
Refusing == outcome' \notin {"loading", "reading", "accepted", "booted"} /\ Earned(outcome')
Kept ==
  \/ outcome' = "reading" /\ Scanned(frame', at', keys', rootKeys', root', version', manifest')
  \/ Refusing

\* Each frame has its own knowledge.
LEMMA FrameIs ==
  ASSUME NEW f, NEW a, NEW seen, NEW rseen, NEW r, NEW v, NEW m, Scanned(f, a, seen, rseen, r, v, m)
  PROVE  /\ f = "open" => AtOpen(a, seen, v, m)
         /\ f = "member" => AtMember(a, seen, v, m)
         /\ f = "root" => AtRoot(a, seen, v, m)
         /\ f = "rootMember" => AtRootMember(a, seen, rseen, r, v, m)
         /\ f = "rootClosed" => AtRootClosed(a, seen, rseen, r, v, m)
         /\ f = "rootsClosed" => AtRootsClosed(a, seen, v, m)
         /\ f = "end" => AtEnd(a, seen, v, m)
<1> DEFINE A == AtOpen(a, seen, v, m)
           B == AtMember(a, seen, v, m)
           C == AtRoot(a, seen, v, m)
           D == AtRootMember(a, seen, rseen, r, v, m)
           E == AtRootClosed(a, seen, rseen, r, v, m)
           F == AtRootsClosed(a, seen, v, m)
           G == AtEnd(a, seen, v, m)
<1>1. \/ f = "open" /\ A
      \/ f = "member" /\ B
      \/ f = "root" /\ C
      \/ f = "rootMember" /\ D
      \/ f = "rootClosed" /\ E
      \/ f = "rootsClosed" /\ F
      \/ f = "end" /\ G
  BY Zenon DEF Scanned
<1> HIDE DEF A, B, C, D, E, F, G
<1>2. /\ f = "open" => A
      /\ f = "member" => B
      /\ f = "root" => C
      /\ f = "rootMember" => D
      /\ f = "rootClosed" => E
      /\ f = "rootsClosed" => F
      /\ f = "end" => G
  BY <1>1
<1> QED  BY <1>2 DEF A, B, C, D, E, F, G

\* A branch that refuses with a cause.
LEMMA RefusalKept ==
  ASSUME NEW code, ParseEnds(code), Earned(code), code \notin {"loading", "reading", "accepted", "booted"}
  PROVE  Kept
BY DEF ParseEnds, Kept, Refusing

\* What is not JSON, or too deep for skip_value, is malformed.
LEMMA MalformedEarned == ASSUME ~IsJson \/ TooDeep PROVE Earned("malformed-json")
BY FaultsAre DEF Earned, FaultBefore

\* What KeyFault says of the tokens at the scanner.
LEMMA AtTheKey ==
  ASSUME NEW seen
  PROVE  /\ KeyFault(seen) = "none" <=> Tok(at) \in Strings /\ Tok(at) \notin seen /\ Tok(at + 1) = Colon
         /\ KeyFault(seen) \in {"none", "malformed-json", "duplicate-key"}
         /\ KeyFault(seen) = "duplicate-key" => Tok(at) \in seen /\ Tok(at) \in Strings
         /\ KeyFault(seen) = "malformed-json" => Tok(at) \notin Strings \/ Tok(at + 1) # Colon
BY DEF KeyFault

\* In front of a member of the text.
LEMMA BeforeMember ==
  ASSUME Reading, frame = "member"
  PROVE  /\ Tok(1) = LBrace /\ Within(1, at) /\ at \in Nat /\ at > 0 /\ ValueAt = at + 2 /\ ValueAt \in Nat /\ ValueAt > 0
         /\ KeysAre(MembersUpTo(1, at - 2), keys) /\ TopRead(MembersUpTo(1, at - 2), version, manifest)
         /\ RootsDone(MembersUpTo(1, at - 2), manifest.roots)
<1>1. AtMember(at, keys, version, manifest)  BY FrameIs DEF Reading
<1>2. at \in Nat /\ at > 0  BY <1>1 DEF AtMember, Within
<1> QED  BY <1>1, <1>2 DEF AtMember, AllRead, ValueAt

\* Where the scanner expects an item, the text has a place for it.
LEMMA BeginsThere ==
  ASSUME IsText, NEW open, NEW i, Within(open, i)
  PROVE  Begins(open, i) /\ i \in 1..(Len(text) + 1) /\ (Tok(i) # "eof" => i \in 1..Len(text))
<1>1. Begins(open, i) /\ open \in Nat /\ i \in Nat /\ i > 0 /\ Tok(open) \in Brackets /\ Len(text) \in Nat
  BY DEF Within, IsText
<1>2. Tok(open) # "eof" /\ Comma # "eof"  BY <1>1, MarksDiffer DEF Brackets
<1>3. open \in 1..Len(text)  BY <1>2, MarksAreNone
<1>4. Tok(i - 1) = Comma => i - 1 \in 1..Len(text)  BY <1>2, MarksAreNone
<1>5. i = open + 1 \/ Tok(i - 1) = Comma  BY <1>1 DEF Begins
<1> QED  BY <1>1, <1>3, <1>4, <1>5, MarksAreNone

\* A key that was seen in an object stands in it twice.
LEMMA KeyRepeats ==
  ASSUME IsText, NEW open, NEW a, Within(open, a), Tok(open) = LBrace, NEW seen, KeysAre(MembersUpTo(open, a - 2), seen),
         Tok(a) \in seen, Tok(a) \in Strings
  PROVE  RepeatsKey(open)
<1>1. Begins(open, a) /\ a \in 1..Len(text)  BY BeginsThere, MarksAreNone
<1>2. PICK k \in MembersUpTo(open, a - 2) : Tok(k) = Tok(a)  BY DEF KeysAre
<1>3. /\ open \in Nat /\ a \in Nat /\ Enclosing(open) \in Int /\ k \in open..(a - 2)
      /\ Tok(k + 1) = Colon /\ Enclosing(k) = Enclosing(open) + 1
  BY <1>2, EnclosingType DEF Within, MembersUpTo
<1>4. k # open  BY <1>3
<1>5. k \in KeysBefore(open, a)  BY <1>3, <1>4 DEF KeysBefore
<1> QED  BY <1>1, <1>2, <1>5 DEF RepeatsKey, KeyAt

\* A member that the scanner has found is one of the text.
LEMMA MemberIsThere ==
  ASSUME IsText, NEW open, NEW a, Within(open, a), Tok(open) = LBrace, Tok(a) \in Strings, Tok(a + 1) = Colon
  PROVE  MemberAt(open, a, Tok(a)) /\ a \in 1..Len(text)
BY BeginsThere, MarksAreNone DEF MemberAt, KeyAt

\* So is a root.
LEMMA RootIsThere ==
  ASSUME IsText, Tok(1) = LBrace, NEW kp, RootsKey(kp), NEW op, Within(kp + 2, op)
  PROVE  RootAt(op) /\ op \in 1..(Len(text) + 1) /\ (Tok(op) # "eof" => op \in 1..Len(text))
<1>1. Tok(kp) = "roots" /\ Tok(kp + 1) = Colon /\ Tok(kp + 2) = LBracket /\ Within(1, kp)  BY DEF RootsKey
<1>2. "roots" \in Strings  BY DEF Strings, Keys
<1>3. MemberAt(1, kp, "roots") /\ kp \in 1..Len(text)  BY <1>1, <1>2, MemberIsThere
<1> QED  BY <1>1, <1>3, BeginsThere DEF RootAt

\* A root that is none is a fault, wherever the text breaks behind it.
LEMMA NoRootBefore ==
  ASSUME IsText, Tok(1) = LBrace, NEW kp, RootsKey(kp), NEW op, Within(kp + 2, op), IsNoRoot(op)
  PROVE  FaultBefore("invalid-roots")
BY RootIsThere DEF FaultBefore

\* RefuseKey in the text: there is no member, or its key came before.
LEMMA MemberRefused ==
  ASSUME Reading, frame = "member", KeyFault(keys) # "none", ParseEnds(KeyFault(keys)) PROVE Kept
<1>1. IsText /\ Within(1, at) /\ KeysAre(MembersUpTo(1, at - 2), keys) /\ at \in Nat  BY BeforeMember DEF Reading
<1>2. KeyFault(keys) \in {"malformed-json", "duplicate-key"}  BY AtTheKey
<1>3. CASE KeyFault(keys) = "malformed-json"
  <2>1. ~IsJson  BY <1>1, <1>3, AtTheKey, JsonMember
  <2> QED  BY <1>3, <2>1, MalformedEarned, RefusalKept
<1>4. CASE KeyFault(keys) = "duplicate-key"
  <2>1. ASSUME IsJson PROVE DuplicateKey
    <3>1. at \in TopMembers /\ MembersUpTo(1, at - 2) \subseteq TopMembers  BY <1>1, <2>1, JsonMember
    <3>2. PICK k \in MembersUpTo(1, at - 2) : Tok(k) = Tok(at)  BY <1>1, <1>4, AtTheKey DEF KeysAre
    <3>3. k # at  BY <1>1 DEF MembersUpTo
    <3> QED  BY <3>1, <3>2, <3>3 DEF DuplicateKey, Unique
  <2>2. Tok(1) = LBrace /\ Tok(at) \in keys /\ Tok(at) \in Strings  BY <1>4, AtTheKey, BeforeMember
  <2>3. RepeatsKey(1)  BY <1>1, <2>2, KeyRepeats
  <2>4. Earned("duplicate-key")  BY <2>1, <2>3, FaultsAre DEF Earned, FaultBefore
  <2> QED  BY <1>4, <2>4, RefusalKept
<1> QED  BY <1>2, <1>3, <1>4

\* Behind the value of a member.
LEMMA MemberKept ==
  ASSUME Reading, frame = "member", KeyFault(keys) = "none", NEW next \in Nat, IsValue(ValueAt, next), MemberEnds(next),
         Tok(next) \in Follows =>
           /\ TopRead(MembersUpTo(1, at - 2) \cup {at}, version', manifest')
           /\ RootsDone(MembersUpTo(1, at - 2) \cup {at}, manifest'.roots)
  PROVE  Kept
<1> DEFINE M == MembersUpTo(1, at - 2)
<1>1. IsText /\ Tok(1) = LBrace /\ Within(1, at) /\ ValueAt = at + 2 /\ KeysAre(M, keys) /\ outcome = "reading"
  BY BeforeMember DEF Reading
<1>2. Tok(at) \in Strings /\ Tok(at) \notin keys /\ Tok(at + 1) = Colon  BY AtTheKey
<1>3. KeysAre(M \cup {at}, keys')
  <2>1. keys' = keys \cup {Tok(at)}  BY DEF MemberEnds
  <2> QED  BY <1>1, <1>2, <2>1, KeyAdded
<1>4. /\ Tok(next) = Comma => Within(1, next + 1)
      /\ Tok(next) = RBrace => IsValue(1, next + 1)
      /\ Tok(next) \in {Comma, RBrace} => MembersUpTo(1, (next + 1) - 2) = M \cup {at}
      /\ Tok(next) \notin {Comma, RBrace} => \A e \in Nat : ~IsValue(1, e)
  BY <1>1, <1>2, MemberSpan
<1> HIDE DEF M
<1>5. Proceed(next, "member", RBrace, "end")  BY DEF MemberEnds
<1>6. Tok(next) \in {Comma, RBrace} => AllRead(MembersUpTo(1, (next + 1) - 2), keys', version', manifest')
  <2>1. Tok(next) \in {Comma, RBrace} => Tok(next) \in Follows  BY DEF Follows
  <2> QED  BY <1>3, <1>4, <2>1 DEF AllRead, M
<1>7. CASE Tok(next) = Comma /\ frame' = "member" /\ at' = next + 1 /\ UNCHANGED outcome
  <2>1. AtMember(at', keys', version', manifest')  BY <1>1, <1>4, <1>6, <1>7 DEF AtMember
  <2> QED  BY <1>1, <1>7, <2>1 DEF Kept, Scanned
<1>8. CASE Tok(next) = RBrace /\ frame' = "end" /\ at' = next + 1 /\ UNCHANGED outcome
  <2>1. AtEnd(at', keys', version', manifest')  BY <1>1, <1>4, <1>6, <1>8 DEF AtEnd
  <2> QED  BY <1>1, <1>8, <2>1 DEF Kept, Scanned
<1>9. CASE Tok(next) \notin {Comma, RBrace} /\ outcome' = "malformed-json"
  <2>1. ~IsJson  BY <1>1, <1>4, <1>9, JsonIs
  <2> QED  BY <1>9, <2>1, MalformedEarned DEF Kept, Refusing
<1> QED  BY <1>5, <1>7, <1>8, <1>9 DEF Proceed

\* The value of a member that skip_value passes, or gives up on.
LEMMA MemberSkipped ==
  ASSUME Reading, frame = "member", KeyFault(keys) = "none", Tok(at) \notin Schema
  PROVE  /\ Skipped(ValueAt) = 0 /\ ParseEnds("malformed-json") => Kept
         /\ Skipped(ValueAt) # 0 =>
              /\ Skipped(ValueAt) \in Nat /\ IsValue(ValueAt, Skipped(ValueAt))
              /\ Tok(Skipped(ValueAt)) \in Follows => Fits(ValueAt)
<1>1. IsText /\ Within(1, at) /\ ValueAt = at + 2 /\ ValueAt \in Nat /\ ValueAt > 0  BY BeforeMember DEF Reading
<1>2. ASSUME Skipped(ValueAt) = 0, ParseEnds("malformed-json") PROVE Kept
  <2>1. ASSUME IsJson PROVE TooDeep
    <3>1. PICK j \in Nat : IsValue(ValueAt, j) /\ Tok(j) \in {Comma, RBrace} /\ at \in TopMembers
      BY <1>1, <2>1, JsonMember
    <3>2. TooDeepAt(ValueAt, j)  BY <1>1, <1>2, <3>1, SkippedIs
    <3>3. ValueAt \in SkippedAt  BY <1>1, <3>1 DEF SkippedAt
    <3>4. Tok(j) \in Follows  BY <3>1 DEF Follows
    <3> QED  BY <1>1, <3>1, <3>2, <3>3, <3>4, TooDeepThere
  <2> QED  BY <1>2, <2>1, MalformedEarned, RefusalKept
<1>3. ASSUME Skipped(ValueAt) # 0
      PROVE  /\ Skipped(ValueAt) \in Nat /\ IsValue(ValueAt, Skipped(ValueAt))
             /\ Tok(Skipped(ValueAt)) \in Follows => Fits(ValueAt)
  <2>1. Skipped(ValueAt) \in Nat /\ IsValue(ValueAt, Skipped(ValueAt)) /\ ~TooDeepAt(ValueAt, Skipped(ValueAt))
    BY <1>1, <1>3, SkippedIs
  <2>2. Tok(Skipped(ValueAt)) \in Follows => ValueEnd(ValueAt) = Skipped(ValueAt)  BY <1>1, <2>1, ValueEndIs
  <2> QED  BY <2>1, <2>2 DEF Fits
<1> QED  BY <1>2, <1>3

\* No key of the schema: nothing is known of it but that it can be skipped.
LEMMA RootsStay ==
  ASSUME NEW M, NEW roots, RootsDone(M, roots), NEW a, Tok(a) # "roots" PROVE RootsDone(M \cup {a}, roots)
BY DEF RootsDone

\* ReadVersion and SkipMember keep what is known.
LEMMA SkipMemberStep == ASSUME Reading, SkipMember \/ ReadVersion PROVE Kept
<1>1. Expecting("member") /\ KeyFault(keys) = "none" /\ Tok(at) \notin Schema
  BY DEF SkipMember, ReadVersion, Member, Schema
<1>2. frame = "member"  BY <1>1 DEF Expecting
<1>3. CASE Skipped(ValueAt) = 0  BY <1>1, <1>2, <1>3, MemberSkipped DEF SkipMember, ReadVersion
<1>4. CASE Skipped(ValueAt) # 0
  <2> DEFINE next == Skipped(ValueAt)
             M == MembersUpTo(1, at - 2)
  <2>1. next \in Nat /\ IsValue(ValueAt, next) /\ (Tok(next) \in Follows => Fits(ValueAt))
    BY <1>1, <1>2, <1>4, MemberSkipped
  <2>2. MemberEnds(next) /\ manifest' = manifest  BY <1>4 DEF SkipMember, ReadVersion
  <2>3. version' = IF Tok(at) = "version" THEN Tok(at + 2) = "one" ELSE version
    BY <1>4 DEF SkipMember, ReadVersion, Member, ValueAt
  <2>4. KeysAre(M, keys) /\ TopRead(M, version, manifest) /\ RootsDone(M, manifest.roots) /\ ValueAt = at + 2
    BY <1>2, BeforeMember
  <2> HIDE DEF next, M
  <2>5. Tok(at) \notin {"selected", "exclude", "retry", "roots"} /\ Tok(at) \notin keys  BY <1>1, AtTheKey DEF Schema
  <2>6. Tok(next) \in Follows => TopRead(M \cup {at}, version', manifest')
    BY <2>1, <2>2, <2>3, <2>4, <2>5, TopAdded
  <2>7. RootsDone(M \cup {at}, manifest'.roots)  BY <2>2, <2>4, <2>5, RootsStay
  <2> QED  BY <1>1, <1>2, <2>1, <2>2, <2>6, <2>7, MemberKept DEF M
<1> QED  BY <1>3, <1>4

\* The literal null is a value and no list.
LEMMA NullIsScalar == "null" \in Scalars /\ "null" # LBracket /\ \A s \in Strings : s \in Scalars
<1>1. "null" \in Scalars  BY DEF Scalars
<1> QED  BY <1>1, MarksAreNone

\* Nothing is known of a list that has not been read.
LEMMA NotYet ==
  ASSUME NEW M, NEW seen, KeysAre(M, seen), NEW v, NEW m, TopRead(M, v, m)
  PROVE  /\ "selected" \notin seen => m.hasSelected = FALSE /\ m.selected = {}
         /\ "roots" \notin seen => \A k \in M : Tok(k) # "roots"
BY DEF KeysAre, TopRead, SelectedIs, RefsAre

\* ReadNull keeps what is known.
LEMMA ReadNullStep == ASSUME Reading, ReadNull PROVE Kept
<1> DEFINE M == MembersUpTo(1, at - 2)
<1>1. /\ frame = "member" /\ KeyFault(keys) = "none" /\ Tok(at) = "selected" /\ Tok(ValueAt) = "null"
      /\ MemberEnds(ValueAt + 1) /\ version' = version /\ manifest' = manifest
  BY DEF ReadNull, Member, Expecting
<1>2. /\ KeysAre(M, keys) /\ TopRead(M, version, manifest) /\ RootsDone(M, manifest.roots)
      /\ ValueAt = at + 2 /\ ValueAt \in Nat
  BY <1>1, BeforeMember
<1> HIDE DEF M
<1>3. Tok(at) \notin keys  BY <1>1, AtTheKey
<1>4. manifest.hasSelected = FALSE /\ manifest.selected = {}
  <2>1. "selected" \notin keys  BY <1>1, <1>3
  <2>2. KeysAre(M, keys) /\ TopRead(M, version, manifest)  BY <1>2
  <2> QED  BY <2>1, <2>2, NotYet
<1>5. RefsAre({at}, "selected", manifest.selected)  BY <1>1, <1>2, <1>4 DEF RefsAre
<1>6. manifest.hasSelected = (Tok(at + 2) = LBracket)  BY <1>1, <1>2, <1>4, NullIsScalar
<1>7. Tok(at) \in Schema  BY <1>1 DEF Schema
<1>8. TopRead(M \cup {at}, version, manifest)  BY <1>1, <1>2, <1>3, <1>5, <1>6, <1>7, TopAdded
<1>9. RootsDone(M \cup {at}, manifest.roots)  BY <1>1, <1>2, RootsStay
<1>10. IsValue(ValueAt, ValueAt + 1) /\ ValueAt + 1 \in Nat  BY <1>1, <1>2, NullIsScalar, ScalarSpan
<1> QED  BY <1>1, <1>8, <1>9, <1>10, MemberKept DEF M

\* The list at the key has a fault, if the text is JSON.
LEMMA ListRefused ==
  ASSUME Reading, frame = "member", KeyFault(keys) = "none", NEW k \in {"selected", "exclude", "retry"}, Tok(at) = k,
         ~(k = "selected" /\ Tok(ValueAt) = "null"), IsJson => ~RefList(ValueAt), ParseEnds(Invalid[k]),
         Tok(ValueAt) = LBracket => \E s : Within(ValueAt, s) /\ Tok(s) \notin Refs
  PROVE  Kept
<1>1. IsText /\ Within(1, at) /\ ValueAt = at + 2  BY BeforeMember DEF Reading
<1>2. ASSUME IsJson PROVE NoRefList(k)
  <2>1. at \in TopMembers  BY <1>1, <1>2, JsonMember
  <2>2. ValueAt \in ValuesOf(TopMembers, k)  BY <1>1, <2>1 DEF ValuesOf
  <2> QED  BY <1>2, <2>2 DEF NoRefList
<1>3. Invalid[k] \in {"invalid-selected", "invalid-exclude", "invalid-retry"}  BY DEF Invalid
<1>4. ListsNoRef(k)
  <2>1. Tok(1) = LBrace /\ Tok(at) \in Strings /\ Tok(at + 1) = Colon  BY AtTheKey, BeforeMember
  <2>2. MemberAt(1, at, k) /\ at \in 1..Len(text)  BY <1>1, <2>1, MemberIsThere
  <2>3. Tok(at + 2) = LBracket => \E s \in 1..(Len(text) + 1) : Begins(at + 2, s) /\ Tok(s) \notin Refs
    BY <1>1, BeginsThere
  <2> QED  BY <1>1, <2>2, <2>3 DEF ListsNoRef
<1>5. Earned(Invalid[k])
  <2>1. k \in DOMAIN Invalid  BY DEF Invalid
  <2>2. FaultBefore(Invalid[k])  BY <1>4, <2>1 DEF FaultBefore
  <2> QED  BY <1>2, <2>2, FaultsAre DEF Earned
<1> QED  BY <1>3, <1>5, RefusalKept

\* The list at the key is read.
LEMMA ListKept ==
  ASSUME Reading, frame = "member", KeyFault(keys) = "none", NEW k \in {"selected", "exclude", "retry"}, Tok(at) = k,
         NEW refs \in SUBSET Refs,
         manifest' = [manifest EXCEPT ![k] = refs, !.hasSelected = IF k = "selected" THEN TRUE ELSE @],
         version' = version, Tok(ValueAt) = LBracket, NEW next \in Nat, IsValue(ValueAt, next), MemberEnds(next),
         Tok(next) \in Follows => RefList(ValueAt) /\ refs = {Tok(i) : i \in Elements(ValueAt)}
  PROVE  Kept /\ manifest' \in Manifests
<1> DEFINE M == MembersUpTo(1, at - 2)
<1>1. /\ KeysAre(M, keys) /\ TopRead(M, version, manifest) /\ RootsDone(M, manifest.roots) /\ ValueAt = at + 2
      /\ manifest \in Manifests
  BY BeforeMember DEF Reading, ParserTypeOK
<1> HIDE DEF M
<1>2. Tok(at) \notin keys  BY AtTheKey
<1>3. /\ manifest'.roots = manifest.roots
      /\ manifest'.hasSelected = IF k = "selected" THEN TRUE ELSE manifest.hasSelected
      /\ manifest'.selected = IF k = "selected" THEN refs ELSE manifest.selected
      /\ manifest'.exclude = IF k = "exclude" THEN refs ELSE manifest.exclude
      /\ manifest'.retry = IF k = "retry" THEN refs ELSE manifest.retry
      /\ manifest' \in Manifests
  BY <1>1 DEF Manifests
<1>4. Tok(next) \in Follows => RefsAre({at}, k, refs)  BY <1>1 DEF RefsAre
<1>5. Tok(next) \in Follows => TopRead(M \cup {at}, version', manifest')
  <2> SUFFICES ASSUME Tok(next) \in Follows PROVE TopRead(M \cup {at}, version', manifest')  OBVIOUS
  <2>1. Tok(at) \in Schema /\ Tok(at) # "version"  BY DEF Schema
  <2>2. version' = IF Tok(at) = "version" THEN Tok(at + 2) = "one" ELSE version  BY <2>1
  <2>3. /\ manifest'.hasSelected = IF Tok(at) = "selected" THEN Tok(at + 2) = LBracket ELSE manifest.hasSelected
        /\ IF Tok(at) = "selected" THEN RefsAre({at}, "selected", manifest'.selected)
           ELSE manifest'.selected = manifest.selected
        /\ IF Tok(at) = "exclude" THEN RefsAre({at}, "exclude", manifest'.exclude)
           ELSE manifest'.exclude = manifest.exclude
        /\ IF Tok(at) = "retry" THEN RefsAre({at}, "retry", manifest'.retry)
           ELSE manifest'.retry = manifest.retry
    BY <1>1, <1>3, <1>4
  <2>4. Tok(at) \notin Schema => Fits(at + 2)  BY <2>1
  <2>5. KeysAre(M, keys) /\ TopRead(M, version, manifest)  BY <1>1
  <2> QED  BY <1>2, <2>2, <2>3, <2>4, <2>5, TopAdded, Zenon
<1>6. RootsDone(M \cup {at}, manifest'.roots)  BY <1>1, <1>3, RootsStay
<1> QED  BY <1>3, <1>5, <1>6, MemberKept DEF M

\* ReadRefs keeps what is known: it refuses what is no list of refs and takes what is one.
LEMMA ReadRefsStep ==
  ASSUME Reading, NEW k \in {"selected", "exclude", "retry"}, ReadRefs(k) PROVE Kept /\ manifest' \in Manifests
<1> DEFINE first == ValueAt + 1
           last == ListStop(first)
           empty == Tok(first) = RBracket
           refs == IF empty THEN {} ELSE {Tok(i) : i \in {i \in first..last : Tok(i) # Comma}}
           next == IF empty THEN first + 1 ELSE last + 2
<1>1. frame = "member" /\ KeyFault(keys) = "none" /\ Tok(at) = k /\ ~(k = "selected" /\ Tok(ValueAt) = "null")
  BY DEF ReadRefs, Member, Expecting
<1>2. IsText /\ Within(1, at) /\ ValueAt = at + 2 /\ ValueAt \in Nat /\ ValueAt > 0 /\ manifest \in Manifests
  BY <1>1, BeforeMember DEF Reading, ParserTypeOK
<1>3. IsJson => \E j \in Nat : IsValue(ValueAt, j) /\ Tok(j) \in Follows  BY <1>2, JsonMember DEF Follows
<1>4. Tok(ValueAt) = LBracket /\ ~empty => Within(ValueAt, ValueAt + 1)  BY <1>2, WithinFirst, MarksAreNone DEF Brackets
<1>5. CASE /\ Tok(ValueAt) # LBracket \/ (~empty /\ Tok(last) \notin Refs)
           /\ ParseEnds(Invalid[k])
  <2>1. IsJson => ~RefList(ValueAt)
    <3>1. CASE Tok(ValueAt) # LBracket  BY <3>1 DEF RefList
    <3>2. CASE Tok(ValueAt) = LBracket  BY <1>2, <1>3, <1>4, <1>5, <3>2, NoRefsRead
    <3> QED  BY <3>1, <3>2
  <2>2. manifest' = manifest  BY <1>5 DEF ParseEnds
  <2>3. Tok(ValueAt) = LBracket => \E s : Within(ValueAt, s) /\ Tok(s) \notin Refs
    <3> SUFFICES ASSUME Tok(ValueAt) = LBracket PROVE Within(ValueAt, last) /\ Tok(last) \notin Refs  BY Zenon
    <3>1. Within(ValueAt, ValueAt + 1) /\ Tok(last) \notin Refs  BY <1>4, <1>5
    <3>2. RefsUpTo(ValueAt, last)  BY <1>2, <3>1, RefsToStop
    <3> QED  BY <3>1, <3>2 DEF RefsUpTo
  <2> QED  BY <1>1, <1>2, <1>5, <2>1, <2>2, <2>3, ListRefused
<1>6. CASE /\ Tok(ValueAt) = LBracket /\ ~empty /\ Tok(last) \in Refs /\ Tok(last + 1) # RBracket
           /\ ParseEnds("malformed-json")
  <2>1. ~IsJson  BY <1>2, <1>3, <1>4, <1>6, NoRefsRead
  <2>2. manifest' = manifest  BY <1>6 DEF ParseEnds
  <2> QED  BY <1>2, <1>6, <2>1, <2>2, MalformedEarned, RefusalKept
<1>7. CASE /\ Tok(ValueAt) = LBracket /\ (empty \/ (Tok(last) \in Refs /\ Tok(last + 1) = RBracket))
           /\ manifest' = [manifest EXCEPT ![k] = refs, !.hasSelected = IF k = "selected" THEN TRUE ELSE @]
           /\ MemberEnds(next) /\ version' = version
  <2>1. /\ next \in Nat /\ IsValue(ValueAt, next) /\ refs \in SUBSET Refs
        /\ Tok(next) \in Follows => RefList(ValueAt) /\ refs = {Tok(i) : i \in Elements(ValueAt)}
    <3>1. CASE empty
      <4>1. next = ValueAt + 2 /\ next \in Nat /\ refs = {}  BY <1>2, <3>1
      <4>2. IsValue(ValueAt, next) /\ (Tok(next) \in Follows => Elements(ValueAt) = {} /\ RefList(ValueAt))
        BY <1>2, <1>7, <3>1, <4>1, EmptyArray
      <4> QED  BY <4>1, <4>2
    <3>2. CASE ~empty
      <4>1. next = last + 2 /\ refs = {Tok(i) : i \in {i \in first..last : Tok(i) # Comma}}  BY <3>2
      <4>2. /\ last \in Nat /\ IsValue(ValueAt, last + 2)
            /\ {Tok(i) : i \in {i \in first..last : Tok(i) # Comma}} \subseteq Refs
            /\ Tok(last + 2) \in Follows =>
                 /\ RefList(ValueAt)
                 /\ {Tok(i) : i \in Elements(ValueAt)} = {Tok(i) : i \in {i \in first..last : Tok(i) # Comma}}
        BY <1>2, <1>4, <1>7, <3>2, RefsRead
      <4> QED  BY <4>1, <4>2
    <3> QED  BY <3>1, <3>2
  <2> HIDE DEF refs, next
  <2> QED  BY <1>1, <1>7, <2>1, ListKept
<1> QED  BY <1>5, <1>6, <1>7 DEF ReadRefs

\* Nothing is known of no members.
LEMMA NothingRead ==
  ASSUME NEW a, NEW seen, NEW v, NEW m, AtOpen(a, seen, v, m) PROVE AllRead({}, seen, v, m)
<1>1. KeysAre({}, seen)  BY DEF AtOpen, KeysAre, Unique
<1>2. TopRead({}, v, m)  BY DEF AtOpen, TopRead, VersionIs, SelectedIs, RefsAre
<1>3. RootsDone({}, m.roots)  BY DEF AtOpen, RootsDone
<1> QED  BY <1>1, <1>2, <1>3 DEF AllRead

\* OpenManifest keeps what is known.
LEMMA OpenManifestStep == ASSUME Reading, OpenManifest PROVE Kept
<1>1. frame = "open" /\ IsText /\ outcome = "reading"  BY DEF OpenManifest, Expecting, Reading
<1>2. AtOpen(at, keys, version, manifest)  BY <1>1, FrameIs DEF Reading
<1>3. AllRead({}, keys, version, manifest)  BY <1>2, NothingRead
<1>4. CASE Tok(1) # LBrace
  <2>1. ~IsJson  BY <1>4 DEF IsJson
  <2> QED  BY <1>4, <2>1, MalformedEarned, RefusalKept DEF OpenManifest
<1>5. CASE Tok(1) = LBrace /\ Tok(2) = RBrace
  <2>1. /\ frame' = "end" /\ at' = 3 /\ outcome' = "reading" /\ keys' = keys /\ version' = version
        /\ manifest' = manifest
    BY <1>1, <1>5 DEF OpenManifest
  <2>2. IsValue(1, 3)
    <3>1. 3 - 1 = 2 /\ 1 \in Nat /\ 3 \in Nat /\ 3 > 1 + 1 /\ 3 = 1 + 2  OBVIOUS
    <3>2. Closer[LBrace] = RBrace  BY MarksAreNone
    <3> QED  BY <1>5, <3>1, <3>2, ValueIs
  <2>3. MembersUpTo(1, 3 - 2) = {}
    <3>1. \A k \in 1..(3 - 2) : k + 1 = 2  OBVIOUS
    <3> QED  BY <1>5, <3>1, MarksDiffer DEF MembersUpTo
  <2>4. AtEnd(at', keys', version', manifest')  BY <1>3, <1>5, <2>1, <2>2, <2>3 DEF AtEnd
  <2> QED  BY <2>1, <2>4 DEF Kept, Scanned
<1>6. CASE Tok(1) = LBrace /\ Tok(2) # RBrace
  <2>1. /\ frame' = "member" /\ at' = 2 /\ outcome' = "reading" /\ keys' = keys /\ version' = version
        /\ manifest' = manifest
    BY <1>1, <1>6 DEF OpenManifest
  <2>2. Within(1, 2)
    <3>1. 1 + 1 = 2 /\ 1 \in Nat /\ 0 < 1  OBVIOUS
    <3>2. Closer[LBrace] = RBrace /\ LBrace \in Brackets  BY MarksAreNone DEF Brackets
    <3> QED  BY <1>6, <3>1, <3>2, WithinFirst
  <2>3. MembersUpTo(1, 2 - 2) = {}  BY DEF MembersUpTo
  <2>4. AtMember(at', keys', version', manifest')  BY <1>3, <1>6, <2>1, <2>2, <2>3 DEF AtMember
  <2> QED  BY <2>1, <2>4 DEF Kept, Scanned
<1> QED  BY <1>4, <1>5, <1>6

-----------------------------------------------------------------------------
(* The roots                                                               *)

\* The roots are wrong, whether the text is JSON or breaks behind them.
LEMMA RootsRefused ==
  ASSUME IsJson => NoRoots, FaultBefore("invalid-roots"), ParseEnds("invalid-roots") PROVE Kept
<1>1. Earned("invalid-roots")  BY FaultsAre DEF Earned
<1> QED  BY <1>1, RefusalKept

\* OpenRoots keeps what is known.
LEMMA OpenRootsStep == ASSUME Reading, OpenRoots PROVE Kept
<1> DEFINE M == MembersUpTo(1, at - 2)
<1>1. /\ frame = "member" /\ KeyFault(keys) = "none" /\ Tok(at) = "roots"
  BY DEF OpenRoots, Member, Expecting
<1>2. /\ IsText /\ Tok(1) = LBrace /\ Within(1, at) /\ at \in Nat /\ ValueAt = at + 2 /\ ValueAt \in Nat /\ ValueAt > 0
      /\ KeysAre(M, keys) /\ TopRead(M, version, manifest) /\ RootsDone(M, manifest.roots)
      /\ outcome = "reading"
  BY <1>1, BeforeMember DEF Reading
<1>3. Tok(at) \notin keys /\ Tok(at + 1) = Colon  BY <1>1, AtTheKey
<1> HIDE DEF M
<1>4. CASE Tok(ValueAt) # LBracket
  <2>1. ASSUME IsJson PROVE NoRoots
    <3>1. at \in TopMembers  BY <1>2, <2>1, JsonMember
    <3>2. ValueAt \in ValuesOf(TopMembers, "roots")  BY <1>1, <1>2, <3>1 DEF ValuesOf
    <3> QED  BY <1>4, <3>2 DEF NoRoots
  <2>2. MemberAt(1, at, "roots") /\ at \in 1..Len(text)
    <3>1. Tok(at) \in Strings  BY <1>1, AtTheKey
    <3> QED  BY <1>1, <1>2, <1>3, <3>1, MemberIsThere
  <2>3. FaultBefore("invalid-roots")  BY <1>2, <1>4, <2>2 DEF FaultBefore
  <2> QED  BY <1>4, <2>1, <2>3, RootsRefused DEF OpenRoots
<1>5. manifest.roots = <<>> /\ \A k \in M : Tok(k) # "roots"
  <2>1. "roots" \notin keys  BY <1>1, <1>3
  <2>2. \A k \in M : Tok(k) # "roots"  BY <1>2, <2>1 DEF KeysAre
  <2> QED  BY <1>2, <2>2 DEF RootsDone
<1>6. CASE Tok(ValueAt) = LBracket /\ Tok(ValueAt + 1) = RBracket
  <2>1. MemberEnds(ValueAt + 2) /\ version' = version /\ manifest' = manifest  BY <1>6 DEF OpenRoots
  <2>2. IsValue(ValueAt, ValueAt + 2) /\ ValueAt + 2 \in Nat
        /\ (Tok(ValueAt + 2) \in Follows => Elements(ValueAt) = {})
    BY <1>2, <1>6, EmptyArray
  <2>3. Tok(at) \in Schema /\ Tok(at) \notin {"version", "selected", "exclude", "retry"}  BY <1>1 DEF Schema
  <2>4. TopRead(M \cup {at}, version', manifest')  BY <1>2, <1>3, <2>1, <2>3, TopAdded
  <2>5. Tok(ValueAt + 2) \in Follows => RootsDone(M \cup {at}, manifest'.roots)
    BY <1>1, <1>2, <1>5, <1>6, <2>1, <2>2, NoRootsYet DEF RootsDone
  <2> QED  BY <1>1, <2>1, <2>2, <2>4, <2>5, MemberKept DEF M
<1>7. CASE Tok(ValueAt) = LBracket /\ Tok(ValueAt + 1) # RBracket
  <2>1. /\ keys' = keys \cup {"roots"} /\ frame' = "root" /\ at' = ValueAt + 1 /\ outcome' = "reading"
        /\ version' = version /\ manifest' = manifest
    BY <1>2, <1>7 DEF OpenRoots
  <2>2. Within(ValueAt, ValueAt + 1)  BY <1>2, <1>7, WithinFirst, MarksAreNone DEF Brackets
  <2>3. KeysAre(M \cup {at}, keys \cup {"roots"})  BY <1>1, <1>2, <1>3, KeyAdded
  <2>4. InRoots(at, keys', version', manifest')
    BY <1>1, <1>2, <1>3, <1>7, <2>1, <2>3 DEF InRoots, M
  <2>5. ElementsUpTo(ValueAt, (ValueAt + 1) - 1) = {}
    <3>1. (ValueAt + 1)..((ValueAt + 1) - 1) = {}  BY <1>2
    <3> QED  BY <3>1 DEF ElementsUpTo
  <2>6. AtRoot(at', keys', version', manifest')
    BY <1>2, <1>5, <2>1, <2>2, <2>4, <2>5, NoRootsYet DEF AtRoot
  <2> QED  BY <2>1, <2>6 DEF Kept, Scanned
<1> QED  BY <1>4, <1>6, <1>7

\* Inside the roots the key of them has been read.
LEMMA InRootsIs ==
  ASSUME NEW kp, NEW seen, NEW v, NEW m, InRoots(kp, seen, v, m)
  PROVE  RootsKey(kp) /\ kp + 2 \in Nat /\ kp + 2 > 0
BY DEF InRoots, RootsKey

\* A root that is no well-formed one is a fault.
LEMMA BadRoot ==
  ASSUME IsText, IsJson, NEW kp, RootsKey(kp), NEW op, Within(kp + 2, op), ~WellFormedRoot(op) PROVE NoRoots
<1>1. kp + 2 \in ValuesOf(TopMembers, "roots")  BY JsonRoots
<1>2. op \in Elements(kp + 2)  BY JsonRoot
<1> QED  BY <1>1, <1>2 DEF NoRoots

\* OpenRoot keeps what is known: a root that is no object, or an empty one, is a fault.
LEMMA OpenRootStep == ASSUME Reading, OpenRoot PROVE Kept
<1>1. frame = "root" /\ IsText /\ outcome = "reading"  BY DEF OpenRoot, Expecting, Reading
<1>2. AtRoot(at, keys, version, manifest)  BY <1>1, FrameIs DEF Reading
<1>3. PICK kp \in Nat : /\ InRoots(kp, keys, version, manifest) /\ Within(kp + 2, at)
                        /\ RootsAre(ElementsUpTo(kp + 2, at - 1), manifest.roots)
  BY <1>2 DEF AtRoot
<1>4. RootsKey(kp)  BY <1>3, InRootsIs
<1>5. at \in Nat /\ at > 0  BY <1>3 DEF Within
<1>6. CASE Tok(at) # LBrace \/ Tok(at + 1) = RBrace
  <2>1. ASSUME IsJson PROVE NoRoots
    <3>1. CASE Tok(at) # LBrace
      <4>1. ~WellFormedRoot(at)  BY <3>1 DEF WellFormedRoot
      <4> QED  BY <1>1, <1>3, <1>4, <2>1, <4>1, BadRoot
    <3>2. CASE Tok(at) = LBrace /\ Tok(at + 1) = RBrace
      <4>1. PICK e \in Nat : IsValue(at, e) /\ Tok(e) \in {Comma, RBracket}  BY <1>1, <1>3, <1>4, <2>1, JsonRoot
      <4>2. IsValue(at, at + 2) /\ at + 2 \in Nat
        <5>1. Closer[LBrace] = RBrace  BY MarksAreNone
        <5>2. at + 2 > at + 1 /\ (at + 2) - 1 = at + 1 /\ at + 2 \in Nat  BY <1>5
        <5> QED  BY <1>5, <3>2, <5>1, <5>2, ValueIs
      <4>3. e = at + 2  BY <1>1, <1>5, <4>1, <4>2, OneEnd
      <4>4. Tok(at + 2) \in Follows  BY <4>1, <4>3 DEF Follows
      <4>5. Members(at) = MembersUpTo(at, (at + 2) - 2)  BY <1>1, <1>5, <4>2, <4>4, MembersAll
      <4>6. \A k \in at..((at + 2) - 2) : k + 1 = at + 1  BY <1>5
      <4>7. MembersUpTo(at, (at + 2) - 2) = {}  BY <3>2, <4>6, MarksDiffer DEF MembersUpTo
      <4>8. ~WellFormedRoot(at)  BY <4>5, <4>7 DEF WellFormedRoot, ValuesOf
      <4> QED  BY <1>1, <1>3, <1>4, <2>1, <4>8, BadRoot
    <3> QED  BY <1>6, <3>1, <3>2
  <2>2. IsNoRoot(at)
    <3>1. CASE Tok(at) # LBrace  BY <3>1 DEF IsNoRoot
    <3>2. CASE Tok(at) = LBrace /\ Tok(at + 1) = RBrace
      <4>1. IsValue(at, at + 2) /\ at + 2 \in Nat
        <5>1. Closer[LBrace] = RBrace  BY MarksAreNone
        <5>2. at + 2 > at + 1 /\ (at + 2) - 1 = at + 1 /\ at + 2 \in Nat  BY <1>5
        <5> QED  BY <1>5, <3>2, <5>1, <5>2, ValueIs
      <4>2. at + 2 \in 1..(Len(text) + 1)
        <5>1. RBrace # "eof"  BY MarksDiffer
        <5>2. at + 1 \in 1..Len(text) /\ Len(text) \in Nat  BY <1>1, <3>2, <5>1, MarksAreNone DEF IsText
        <5> QED  BY <1>5, <5>2
      <4>3. KeysBefore(at, (at + 2) - 1) = {}
        <5>1. (at + 1)..(((at + 2) - 1) - 1) = {}  BY <1>5
        <5> QED  BY <5>1 DEF KeysBefore
      <4> QED  BY <4>1, <4>2, <4>3 DEF IsNoRoot, IsValue
    <3> QED  BY <1>6, <3>1, <3>2
  <2>3. Tok(1) = LBrace  BY <1>3 DEF InRoots
  <2>4. FaultBefore("invalid-roots")  BY <1>1, <1>3, <1>4, <2>2, <2>3, NoRootBefore
  <2> QED  BY <1>6, <2>1, <2>4, RootsRefused DEF OpenRoot
<1>7. CASE Tok(at) = LBrace /\ Tok(at + 1) # RBrace
  <2>1. /\ frame' = "rootMember" /\ at' = at + 1 /\ outcome' = "reading" /\ rootKeys' = {}
        /\ root' = [binaryDir |-> Empty, dataDir |-> Empty]
        /\ keys' = keys /\ version' = version /\ manifest' = manifest
    BY <1>1, <1>7 DEF OpenRoot
  <2>2. Within(at, at + 1)  BY <1>5, <1>7, WithinFirst, MarksAreNone DEF Brackets
  <2>3. MembersUpTo(at, (at + 1) - 2) = {}
    <3>1. at..((at + 1) - 2) = {}  BY <1>5
    <3> QED  BY <3>1 DEF MembersUpTo
  <2>4. KeysAre({}, rootKeys') /\ RootRead({}, root')
    <3>1. root'.dataDir = Empty  BY <2>1
    <3> QED  BY <2>1, <3>1 DEF KeysAre, RootRead, Unique
  <2>5. InRoot(kp, at, manifest')  BY <1>3, <1>5, <1>7, <2>1 DEF InRoot
  <2>6. AtRootMember(at', keys', rootKeys', root', version', manifest')
    BY <1>3, <1>5, <2>1, <2>2, <2>3, <2>4, <2>5 DEF AtRootMember
  <2> QED  BY <2>1, <2>6 DEF Kept, Scanned
<1> QED  BY <1>6, <1>7

\* Where the scanner stands in front of a member of a root.
BeforeRootMember(kp, op) ==
  /\ InRoots(kp, keys, version, manifest) /\ InRoot(kp, op, manifest) /\ Within(op, at)
  /\ KeysAre(MembersUpTo(op, at - 2), rootKeys) /\ RootRead(MembersUpTo(op, at - 2), root)

\* In front of a member of a root there is a root, in the roots.
LEMMA ThereIsARoot ==
  ASSUME Reading, frame = "rootMember"
  PROVE  /\ \E kp, op \in Nat : BeforeRootMember(kp, op)
         /\ IsText /\ outcome = "reading" /\ at \in Nat /\ at > 0 /\ ValueAt = at + 2 /\ ValueAt \in Nat /\ ValueAt > 0
         /\ root \in Roots
<1>1. AtRootMember(at, keys, rootKeys, root, version, manifest)  BY FrameIs DEF Reading
<1>2. PICK kp \in Nat, op \in Nat : BeforeRootMember(kp, op)  BY <1>1 DEF AtRootMember, BeforeRootMember
<1>3. at \in Nat /\ at > 0  BY <1>2 DEF BeforeRootMember, Within
<1> QED  BY <1>2, <1>3 DEF Reading, ValueAt, ParserTypeOK

\* What is known of that root.
LEMMA ThisRootIs ==
  ASSUME NEW kp, NEW op, BeforeRootMember(kp, op)
  PROVE  /\ RootsKey(kp) /\ Within(kp + 2, op) /\ op \in Nat /\ Tok(op) = LBrace /\ Within(op, at) /\ Tok(1) = LBrace
         /\ KeysAre(MembersUpTo(op, at - 2), rootKeys) /\ RootRead(MembersUpTo(op, at - 2), root)
BY InRootsIs DEF BeforeRootMember, InRoot, InRoots

\* RefuseKey in a root: there is no member, or its key came before in the same root.
LEMMA RootMemberRefused ==
  ASSUME Reading, frame = "rootMember", KeyFault(rootKeys) # "none", ParseEnds(KeyFault(rootKeys)) PROVE Kept
<1>1. PICK kp \in Nat, op \in Nat : BeforeRootMember(kp, op)  BY ThereIsARoot
<1>2. /\ IsText /\ RootsKey(kp) /\ Within(kp + 2, op) /\ Tok(op) = LBrace /\ Within(op, at) /\ at \in Nat
      /\ KeysAre(MembersUpTo(op, at - 2), rootKeys)
  BY <1>1, ThereIsARoot, ThisRootIs
<1>3. KeyFault(rootKeys) \in {"malformed-json", "duplicate-key"}  BY AtTheKey
<1>4. CASE KeyFault(rootKeys) = "malformed-json"
  <2>1. ~IsJson  BY <1>2, <1>4, AtTheKey, JsonRootMember
  <2> QED  BY <1>4, <2>1, MalformedEarned, RefusalKept
<1>5. CASE KeyFault(rootKeys) = "duplicate-key"
  <2>1. ASSUME IsJson PROVE DuplicateKey
    <3>1. at \in Members(op) /\ MembersUpTo(op, at - 2) \subseteq Members(op)  BY <1>2, <2>1, JsonRootMember
    <3>2. PICK k \in MembersUpTo(op, at - 2) : Tok(k) = Tok(at)  BY <1>2, <1>5, AtTheKey DEF KeysAre
    <3>3. k # at  BY <1>2 DEF MembersUpTo
    <3>4. op \in RootObjects  BY <1>2, <2>1, JsonRoot
    <3>5. ~Unique(Members(op))  BY <3>1, <3>2, <3>3 DEF Unique
    <3> QED  BY <1>2, <3>4, <3>5 DEF DuplicateKey
  <2>2. Tok(1) = LBrace /\ Tok(at) \in rootKeys /\ Tok(at) \in Strings  BY <1>1, <1>5, AtTheKey, ThisRootIs
  <2>3. RepeatsKey(op)  BY <1>2, <2>2, KeyRepeats
  <2>4. RootAt(op) /\ op \in 1..Len(text)  BY <1>2, <2>2, RootIsThere, MarksDiffer
  <2>5. Earned("duplicate-key")  BY <2>1, <2>3, <2>4, FaultsAre DEF Earned, FaultBefore
  <2> QED  BY <1>5, <2>5, RefusalKept
<1> QED  BY <1>3, <1>4, <1>5

\* Behind the value of a member of a root.
LEMMA RootMemberKept ==
  ASSUME Reading, frame = "rootMember", KeyFault(rootKeys) = "none", NEW kp \in Nat, NEW op \in Nat,
         BeforeRootMember(kp, op), NEW next \in Nat, IsValue(ValueAt, next), RootMemberEnds(next),
         UNCHANGED <<keys, version, manifest>>,
         Tok(next) \in Follows => RootRead(MembersUpTo(op, at - 2) \cup {at}, root')
  PROVE  Kept
<1> DEFINE M == MembersUpTo(op, at - 2)
<1>1. /\ IsText /\ RootsKey(kp) /\ Within(kp + 2, op) /\ Tok(op) = LBrace /\ Within(op, at) /\ ValueAt = at + 2
      /\ KeysAre(M, rootKeys) /\ outcome = "reading"
  BY ThereIsARoot, ThisRootIs
<1>2. Tok(at) \in Strings /\ Tok(at) \notin rootKeys /\ Tok(at + 1) = Colon  BY AtTheKey
<1>3. KeysAre(M \cup {at}, rootKeys')
  <2>1. rootKeys' = rootKeys \cup {Tok(at)}  BY DEF RootMemberEnds
  <2> QED  BY <1>1, <1>2, <2>1, KeyAdded
<1>4. /\ Tok(next) = Comma => Within(op, next + 1)
      /\ Tok(next) = RBrace => IsValue(op, next + 1)
      /\ Tok(next) \in {Comma, RBrace} => MembersUpTo(op, (next + 1) - 2) = M \cup {at}
      /\ Tok(next) \notin {Comma, RBrace} => \A e \in Nat : ~IsValue(op, e)
  BY <1>1, <1>2, MemberSpan
<1> HIDE DEF M
<1>5. Proceed(next, "rootMember", RBrace, "rootClosed")  BY DEF RootMemberEnds
<1>6. Tok(next) \in {Comma, RBrace} =>
        KeysAre(MembersUpTo(op, (next + 1) - 2), rootKeys') /\ RootRead(MembersUpTo(op, (next + 1) - 2), root')
  <2>1. Tok(next) \in {Comma, RBrace} => Tok(next) \in Follows  BY DEF Follows
  <2> QED  BY <1>3, <1>4, <2>1 DEF M
<1>7. InRoots(kp, keys', version', manifest') /\ InRoot(kp, op, manifest')  BY DEF BeforeRootMember
<1>8. CASE Tok(next) = Comma /\ frame' = "rootMember" /\ at' = next + 1 /\ UNCHANGED outcome
  <2>1. AtRootMember(at', keys', rootKeys', root', version', manifest')
    BY <1>4, <1>6, <1>7, <1>8 DEF AtRootMember
  <2> QED  BY <1>1, <1>8, <2>1 DEF Kept, Scanned
<1>9. CASE Tok(next) = RBrace /\ frame' = "rootClosed" /\ at' = next + 1 /\ UNCHANGED outcome
  <2>1. AtRootClosed(at', keys', rootKeys', root', version', manifest')
    BY <1>4, <1>6, <1>7, <1>9 DEF AtRootClosed
  <2> QED  BY <1>1, <1>9, <2>1 DEF Kept, Scanned
<1>10. CASE Tok(next) \notin {Comma, RBrace} /\ outcome' = "malformed-json"
  <2>1. ~IsJson  BY <1>1, <1>4, <1>10, JsonRoot
  <2> QED  BY <1>10, <2>1, MalformedEarned DEF Kept, Refusing
<1> QED  BY <1>5, <1>8, <1>9, <1>10 DEF Proceed

\* ReadDir keeps what is known: a directory that is no string is a fault.
LEMMA ReadDirStep == ASSUME Reading, NEW k \in {"binaryDir", "dataDir"}, ReadDir(k) PROVE Kept /\ root' \in Roots
<1> DEFINE null == k = "dataDir" /\ Tok(ValueAt) = "null"
<1>1. frame = "rootMember" /\ KeyFault(rootKeys) = "none" /\ Tok(at) = k  BY DEF ReadDir, RootMember, Expecting
<1>2. PICK kp \in Nat, op \in Nat : BeforeRootMember(kp, op)  BY <1>1, ThereIsARoot
<1>3. /\ IsText /\ RootsKey(kp) /\ Within(kp + 2, op) /\ Tok(op) = LBrace /\ Within(op, at)
      /\ ValueAt = at + 2 /\ ValueAt \in Nat /\ ValueAt > 0 /\ root \in Roots
      /\ KeysAre(MembersUpTo(op, at - 2), rootKeys) /\ RootRead(MembersUpTo(op, at - 2), root)
  BY <1>1, <1>2, ThereIsARoot, ThisRootIs
<1>4. CASE ~null /\ Tok(ValueAt) \notin Strings
  <2>1. ASSUME IsJson PROVE NoRoots
    <3>1. at \in Members(op)  BY <1>3, <2>1, JsonRootMember
    <3>2. ValueAt \in ValuesOf(Members(op), k)  BY <1>1, <1>3, <3>1 DEF ValuesOf
    <3>3. Tok(ValueAt) \notin Absolute \cup {Empty} /\ (k = "dataDir" => Tok(ValueAt) # "null")  BY <1>4 DEF Strings
    <3>4. ~WellFormedRoot(op)
      <4>1. CASE k = "binaryDir"  BY <3>2, <3>3, <4>1 DEF WellFormedRoot
      <4>2. CASE k = "dataDir"  BY <3>2, <3>3, <4>2 DEF WellFormedRoot
      <4> QED  BY <4>1, <4>2
    <3> QED  BY <1>3, <2>1, <3>4, BadRoot
  <2>2. ParseEnds("invalid-roots")  BY <1>4 DEF ReadDir
  <2>3. root' = root  BY <2>2 DEF ParseEnds
  <2>4. Tok(1) = LBrace  BY <1>2, ThisRootIs
  <2>5. IsNoRoot(op)
    <3>1. Tok(at) \in Strings /\ Tok(at + 1) = Colon  BY <1>1, AtTheKey
    <3>2. MemberAt(op, at, k) /\ at \in 1..Len(text)  BY <1>1, <1>3, <3>1, MemberIsThere
    <3> QED  BY <1>3, <1>4, <3>2 DEF IsNoRoot
  <2>6. FaultBefore("invalid-roots")  BY <1>3, <2>4, <2>5, NoRootBefore
  <2> QED  BY <1>3, <2>1, <2>2, <2>3, <2>6, RootsRefused
<1>5. CASE null \/ Tok(ValueAt) \in Strings
  <2>1. /\ root' = [root EXCEPT ![k] = IF null THEN Empty ELSE Tok(ValueAt)] /\ RootMemberEnds(ValueAt + 1)
        /\ UNCHANGED <<keys, version, manifest>>
    BY <1>5 DEF ReadDir
  <2>2. Empty \in Strings /\ "null" \notin Strings
    <3>1. Empty \in Strings  BY DEF Strings
    <3>2. "null" \notin Refs  BY RefsAreRefs
    <3>3. "null" \notin Keys \cup Absolute \cup {"dir", Empty}  BY Zenon DEF Keys, Absolute, Empty
    <3> QED  BY <3>1, <3>2, <3>3 DEF Strings
  <2> DEFINE value == IF null THEN Empty ELSE Tok(ValueAt)
  <2>3. value \in Strings /\ (k = "dataDir" => value = IF Tok(ValueAt) = "null" THEN Empty ELSE Tok(ValueAt))
        /\ (k = "binaryDir" => value = Tok(ValueAt) /\ Tok(ValueAt) \in Strings)
        /\ Tok(ValueAt) \in Strings \cup {"null"}
    BY <1>5, <2>2
  <2>4. root' = [root EXCEPT ![k] = value]  BY <2>1
  <2> HIDE DEF value
  <2>5. /\ root' \in Roots /\ root'.binaryDir = (IF k = "binaryDir" THEN value ELSE root.binaryDir)
        /\ root'.dataDir = (IF k = "dataDir" THEN value ELSE root.dataDir)
    BY <1>3, <2>3, <2>4 DEF Roots
  <2>6. Tok(at) \notin rootKeys  BY <1>1, AtTheKey
  <2>7. RootRead(MembersUpTo(op, at - 2) \cup {at}, root')
    <3> DEFINE M == MembersUpTo(op, at - 2)
    <3>1. KeysAre(M, rootKeys) /\ RootRead(M, root)  BY <1>3
    <3>2. IF Tok(at) = "binaryDir" THEN Tok(at + 2) \in Strings /\ root'.binaryDir = Tok(at + 2)
          ELSE root'.binaryDir = root.binaryDir
      BY <1>1, <1>3, <2>3, <2>5
    <3>3. IF Tok(at) = "dataDir"
          THEN Tok(at + 2) \in Strings \cup {"null"} /\ root'.dataDir = IF Tok(at + 2) = "null" THEN Empty ELSE Tok(at + 2)
          ELSE root'.dataDir = root.dataDir
      BY <1>1, <1>3, <2>3, <2>5
    <3>4. Tok(at) \in {"binaryDir", "dataDir"}  BY <1>1
    <3> HIDE DEF M
    <3>5. RootRead(M \cup {at}, root')  BY <2>6, <3>1, <3>2, <3>3, <3>4, RootAdded
    <3> QED  BY <3>5 DEF M
  <2>8. IsValue(ValueAt, ValueAt + 1) /\ ValueAt + 1 \in Nat  BY <1>3, <1>5, NullIsScalar, ScalarSpan
  <2>9. Kept  BY <1>1, <1>2, <2>1, <2>7, <2>8, RootMemberKept
  <2> QED  BY <2>5, <2>9
<1> QED  BY <1>4, <1>5

\* A member of a root is enclosed by more than the text's own members.
LEMMA RootMemberIsInside ==
  ASSUME NEW kp, RootsKey(kp), NEW op, Within(kp + 2, op), NEW a, Within(op, a) PROVE a \notin TopMembers
<1>1. kp \in Nat /\ kp > 0 /\ Within(1, kp)  BY DEF RootsKey, Within
<1>2. Enclosing(1) = 0  BY EnclosingFirst
<1>3. Enclosing(kp) = 1  BY <1>1, <1>2 DEF Within
<1>4. Enclosing(kp + 2) = 1
  <2>1. Tok(kp) = "roots" /\ Tok(kp + 1) = Colon  BY DEF RootsKey
  <2>2. "roots" \in Strings  BY DEF Strings, Keys
  <2> QED  BY <1>1, <1>3, <2>1, <2>2, KeyEnclosing
<1>5. Enclosing(op) = 2  BY <1>4 DEF Within
<1>6. Enclosing(a) = 3  BY <1>5 DEF Within
<1> QED  BY <1>6 DEF TopMembers

\* SkipRootMember keeps what is known.
LEMMA SkipRootMemberStep == ASSUME Reading, SkipRootMember PROVE Kept
<1>1. frame = "rootMember" /\ KeyFault(rootKeys) = "none" /\ Tok(at) \notin {"binaryDir", "dataDir"}
  BY DEF SkipRootMember, RootMember, Expecting
<1>2. PICK kp \in Nat, op \in Nat : BeforeRootMember(kp, op)  BY <1>1, ThereIsARoot
<1>3. /\ IsText /\ RootsKey(kp) /\ Within(kp + 2, op) /\ Tok(op) = LBrace /\ Within(op, at)
      /\ ValueAt = at + 2 /\ ValueAt \in Nat /\ ValueAt > 0
      /\ KeysAre(MembersUpTo(op, at - 2), rootKeys) /\ RootRead(MembersUpTo(op, at - 2), root)
  BY <1>1, <1>2, ThereIsARoot, ThisRootIs
<1>4. CASE Skipped(ValueAt) = 0
  <2>1. ASSUME IsJson PROVE TooDeep
    <3>1. PICK j \in Nat : IsValue(ValueAt, j) /\ Tok(j) \in {Comma, RBrace} /\ at \in Members(op)
      BY <1>3, <2>1, JsonRootMember
    <3>2. TooDeepAt(ValueAt, j)  BY <1>3, <1>4, <3>1, SkippedIs
    <3>3. at \in SchemaMembers \ TopMembers
      <4>1. op \in RootObjects  BY <1>3, <2>1, JsonRoot
      <4>2. at \notin TopMembers  BY <1>3, RootMemberIsInside
      <4> QED  BY <1>3, <3>1, <4>1, <4>2 DEF SchemaMembers
    <3>4. ValueAt \in SkippedAt  BY <1>1, <1>3, <3>3 DEF SkippedAt
    <3>5. Tok(j) \in Follows  BY <3>1 DEF Follows
    <3> QED  BY <1>3, <3>1, <3>2, <3>4, <3>5, TooDeepThere
  <2> QED  BY <1>4, <2>1, MalformedEarned, RefusalKept DEF SkipRootMember
<1>5. CASE Skipped(ValueAt) # 0
  <2> DEFINE next == Skipped(ValueAt)
             M == MembersUpTo(op, at - 2)
  <2>1. next \in Nat /\ IsValue(ValueAt, next) /\ ~TooDeepAt(ValueAt, next)  BY <1>3, <1>5, SkippedIs
  <2>2. RootMemberEnds(next) /\ UNCHANGED <<keys, version, manifest>> /\ root' = root  BY <1>5 DEF SkipRootMember
  <2> HIDE DEF next
  <2>3. Tok(next) \in Follows => Fits(at + 2)
    <3>1. ASSUME Tok(next) \in Follows PROVE ValueEnd(ValueAt) = next  BY <1>3, <2>1, <3>1, ValueEndIs
    <3> QED  BY <1>3, <2>1, <3>1 DEF Fits
  <2>4. Tok(at) \notin rootKeys  BY <1>1, AtTheKey
  <2>5. Tok(next) \in Follows => RootRead(M \cup {at}, root')
    <3>1. KeysAre(M, rootKeys) /\ RootRead(M, root)  BY <1>3
    <3> HIDE DEF M
    <3> QED  BY <1>1, <2>2, <2>3, <2>4, <3>1, RootAdded
  <2> QED  BY <1>1, <1>2, <2>1, <2>2, <2>5, RootMemberKept
<1> QED  BY <1>4, <1>5

\* What has been read of the members does not depend on the roots.
LEMMA InRootsKept ==
  ASSUME NEW kp, NEW seen, NEW v, NEW m, InRoots(kp, seen, v, m), NEW n,
         n.hasSelected = m.hasSelected, n.selected = m.selected, n.exclude = m.exclude, n.retry = m.retry
  PROVE  InRoots(kp, seen, v, n)
BY DEF InRoots, TopRead

\* CloseRoot keeps what is known, and the root is the next one.
LEMMA CloseRootStep == ASSUME Reading, CloseRoot PROVE Kept /\ manifest' \in Manifests
<1>1. /\ frame = "rootClosed" /\ IsText /\ outcome = "reading" /\ root \in Roots /\ manifest \in Manifests
  BY DEF CloseRoot, Expecting, Reading, ParserTypeOK
<1>2. AtRootClosed(at, keys, rootKeys, root, version, manifest)  BY <1>1, FrameIs DEF Reading
<1>3. PICK kp \in Nat, op \in Nat :
        /\ InRoots(kp, keys, version, manifest) /\ InRoot(kp, op, manifest) /\ at \in Nat /\ IsValue(op, at)
        /\ KeysAre(MembersUpTo(op, at - 2), rootKeys) /\ RootRead(MembersUpTo(op, at - 2), root)
  BY <1>2 DEF AtRootClosed
<1>4. RootsKey(kp) /\ kp + 2 \in Nat  BY <1>3, InRootsIs
<1>5. /\ Within(kp + 2, op) /\ Tok(op) = LBrace /\ op > 0
      /\ RootsAre(ElementsUpTo(kp + 2, op - 1), manifest.roots)
  BY <1>3 DEF InRoot, Within
<1>6. Tok(at) \in Follows => Members(op) = MembersUpTo(op, at - 2)  BY <1>1, <1>3, <1>5, MembersAll
<1>7. CASE "binaryDir" \notin rootKeys
  <2>1. ASSUME IsJson PROVE NoRoots
    <3>1. PICK e \in Nat : IsValue(op, e) /\ Tok(e) \in {Comma, RBracket}  BY <1>1, <1>4, <1>5, <2>1, JsonRoot
    <3>2. e = at  BY <1>1, <1>3, <1>5, <3>1, OneEnd
    <3>3. Tok(at) \in Follows  BY <3>1, <3>2 DEF Follows
    <3>4. ~WellFormedRoot(op)  BY <1>3, <1>6, <1>7, <3>3 DEF WellFormedRoot, ValuesOf, KeysAre
    <3> QED  BY <1>1, <1>4, <1>5, <2>1, <3>4, BadRoot
  <2>2. ParseEnds("invalid-roots")  BY <1>7 DEF CloseRoot
  <2>3. manifest' = manifest  BY <2>2 DEF ParseEnds
  <2>4. IsNoRoot(op)
    <3>1. at \in 1..(Len(text) + 1)
      <4>1. Flat(op, at)  BY <1>1, <1>3, <1>5, ValueShape DEF InRoot
      <4> QED  BY <1>1, <1>3, <4>1 DEF Flat, InRoot, IsText
    <3>2. \A i \in KeysBefore(op, at - 1) : i \in MembersUpTo(op, at - 2)
      BY <1>3 DEF KeysBefore, MembersUpTo, InRoot
    <3>3. \A i \in KeysBefore(op, at - 1) : Tok(i) # "binaryDir"  BY <1>3, <1>7, <3>2 DEF KeysAre
    <3> QED  BY <1>3, <3>1, <3>3 DEF IsNoRoot, IsValue
  <2>5. Tok(1) = LBrace  BY <1>3 DEF InRoots
  <2>6. FaultBefore("invalid-roots")  BY <1>1, <1>4, <1>5, <2>4, <2>5, NoRootBefore
  <2> QED  BY <1>1, <2>1, <2>2, <2>3, <2>6, RootsRefused
<1>8. CASE "binaryDir" \in rootKeys
  <2> DEFINE E == ElementsUpTo(kp + 2, op - 1)
  <2>1. /\ manifest' = [manifest EXCEPT !.roots = Append(@, root)] /\ Proceed(at, "root", RBracket, "rootsClosed")
        /\ keys' = keys /\ version' = version
    BY <1>8 DEF CloseRoot
  <2>2. /\ manifest' \in Manifests /\ manifest'.roots = Append(manifest.roots, root)
        /\ manifest'.hasSelected = manifest.hasSelected /\ manifest'.selected = manifest.selected
        /\ manifest'.exclude = manifest.exclude /\ manifest'.retry = manifest.retry
        /\ manifest.roots \in Seq(Roots)
    <3>1. Append(manifest.roots, root) \in Seq(Roots) /\ manifest.roots \in Seq(Roots)  BY <1>1 DEF Manifests
    <3> QED  BY <1>1, <2>1, <3>1 DEF Manifests
  <2>3. InRoots(kp, keys', version', manifest')  BY <1>3, <2>1, <2>2, InRootsKept
  <2>4. Tok(kp + 2) = LBracket  BY <1>4 DEF RootsKey
  <2>5. /\ Tok(at) = Comma => Within(kp + 2, at + 1)
        /\ Tok(at) = RBracket => IsValue(kp + 2, at + 1)
        /\ Tok(at) \in {Comma, RBracket} =>
             /\ ElementsUpTo(kp + 2, (at + 1) - 2) = E \cup {op}
             /\ ElementsUpTo(kp + 2, (at + 1) - 1) = E \cup {op}
        /\ Tok(at) \notin {Comma, RBracket} => \A e \in Nat : ~IsValue(kp + 2, e)
    BY <1>1, <1>3, <1>5, <2>4, ElementSpan
  <2>6. Tok(at) \in {Comma, RBracket} => RootsAre(E \cup {op}, manifest'.roots)
    <3> SUFFICES ASSUME Tok(at) \in {Comma, RBracket} PROVE RootsAre(E \cup {op}, manifest'.roots)  OBVIOUS
    <3>1. Members(op) = MembersUpTo(op, at - 2)  BY <1>6 DEF Follows
    <3>2. \E k \in Members(op) : Tok(k) = "binaryDir"  BY <1>3, <1>8, <3>1 DEF KeysAre
    <3>3. RootIs(op, root)  BY <1>3, <1>5, <3>1, <3>2 DEF RootIs, KeysAre
    <3>4. \A k \in E : k < op  BY <1>3, <1>4 DEF ElementsUpTo
    <3>5. RootsAre(E, manifest.roots)  BY <1>5
    <3> HIDE DEF E
    <3> QED  BY <1>1, <1>3, <2>2, <3>3, <3>4, <3>5, RootAppended
  <2> HIDE DEF E
  <2>7. CASE Tok(at) = Comma /\ frame' = "root" /\ at' = at + 1 /\ UNCHANGED outcome
    <3>1. RootsAre(ElementsUpTo(kp + 2, (at + 1) - 1), manifest'.roots)  BY <2>5, <2>6, <2>7
    <3>2. AtRoot(at', keys', version', manifest')  BY <2>3, <2>5, <2>7, <3>1 DEF AtRoot
    <3> QED  BY <1>1, <2>2, <2>7, <3>2 DEF Kept, Scanned
  <2>8. CASE Tok(at) = RBracket /\ frame' = "rootsClosed" /\ at' = at + 1 /\ UNCHANGED outcome
    <3>1. RootsAre(ElementsUpTo(kp + 2, (at + 1) - 2), manifest'.roots)  BY <2>5, <2>6, <2>8
    <3>2. AtRootsClosed(at', keys', version', manifest')  BY <1>3, <2>3, <2>5, <2>8, <3>1 DEF AtRootsClosed
    <3> QED  BY <1>1, <2>2, <2>8, <3>2 DEF Kept, Scanned
  <2>9. CASE Tok(at) \notin {Comma, RBracket} /\ outcome' = "malformed-json"
    <3>1. ~IsJson  BY <1>1, <1>4, <2>5, <2>9, JsonRoots
    <3> QED  BY <2>2, <2>9, <3>1, MalformedEarned DEF Kept, Refusing
  <2> QED  BY <2>1, <2>7, <2>8, <2>9 DEF Proceed
<1> QED  BY <1>7, <1>8

\* CloseRoots keeps what is known: all elements have been read.
LEMMA CloseRootsStep == ASSUME Reading, CloseRoots PROVE Kept
<1>1. frame = "rootsClosed" /\ IsText /\ outcome = "reading"  BY DEF CloseRoots, Expecting, Reading
<1>2. AtRootsClosed(at, keys, version, manifest)  BY <1>1, FrameIs DEF Reading
<1>3. PICK kp \in Nat : /\ InRoots(kp, keys, version, manifest) /\ at \in Nat /\ IsValue(kp + 2, at)
                        /\ RootsAre(ElementsUpTo(kp + 2, at - 2), manifest.roots)
  BY <1>2 DEF AtRootsClosed
<1> DEFINE M == MembersUpTo(1, kp - 2)
<1>4. /\ Within(1, kp) /\ Tok(1) = LBrace /\ Tok(kp) = "roots" /\ Tok(kp + 1) = Colon /\ Tok(kp + 2) = LBracket
      /\ KeysAre(M \cup {kp}, keys) /\ TopRead(M, version, manifest) /\ kp + 2 \in Nat /\ kp + 2 > 0
  BY <1>3 DEF InRoots
<1>5. Proceed(at, "member", RBrace, "end") /\ keys' = keys /\ version' = version /\ manifest' = manifest
  BY DEF CloseRoots
<1>6. Tok(kp) \in Strings  BY <1>4 DEF Strings, Keys
<1>7. /\ Tok(at) = Comma => Within(1, at + 1)
      /\ Tok(at) = RBrace => IsValue(1, at + 1)
      /\ Tok(at) \in {Comma, RBrace} => MembersUpTo(1, (at + 1) - 2) = M \cup {kp} /\ kp \notin M
      /\ Tok(at) \notin {Comma, RBrace} => \A e \in Nat : ~IsValue(1, e)
  BY <1>1, <1>3, <1>4, <1>6, MemberSpan
<1> HIDE DEF M
<1>8. Tok(at) \in {Comma, RBrace} => AllRead(MembersUpTo(1, (at + 1) - 2), keys, version, manifest)
  <2> SUFFICES ASSUME Tok(at) \in {Comma, RBrace} PROVE AllRead(M \cup {kp}, keys, version, manifest)  BY <1>7
  <2>1. \A k \in M : Tok(k) # "roots"  BY <1>4, <1>7 DEF KeysAre, Unique
  <2>2. Elements(kp + 2) = ElementsUpTo(kp + 2, at - 2)
    <3>1. Tok(at) \in Follows  BY DEF Follows
    <3> QED  BY <1>1, <1>3, <1>4, <3>1, ElementsAll
  <2>3. RootsDone(M \cup {kp}, manifest.roots)  BY <1>3, <1>4, <2>1, <2>2 DEF RootsDone
  <2>4. TopRead(M \cup {kp}, version, manifest)
    <3>1. KeysAre(M, {Tok(k) : k \in M})  BY <1>4 DEF KeysAre, Unique
    <3>2. Tok(kp) \notin {Tok(k) : k \in M}  BY <1>4, <2>1
    <3>3. Tok(kp) \in Schema /\ Tok(kp) \notin {"version", "selected", "exclude", "retry"}  BY <1>4 DEF Schema
    <3> QED  BY <1>4, <3>1, <3>2, <3>3, TopAdded
  <2> QED  BY <1>4, <2>3, <2>4 DEF AllRead
<1>9. CASE Tok(at) = Comma /\ frame' = "member" /\ at' = at + 1 /\ UNCHANGED outcome
  <2>1. AtMember(at', keys', version', manifest')  BY <1>4, <1>5, <1>7, <1>8, <1>9 DEF AtMember
  <2> QED  BY <1>1, <1>9, <2>1 DEF Kept, Scanned
<1>10. CASE Tok(at) = RBrace /\ frame' = "end" /\ at' = at + 1 /\ UNCHANGED outcome
  <2>1. AtEnd(at', keys', version', manifest')  BY <1>3, <1>4, <1>5, <1>7, <1>8, <1>10 DEF AtEnd
  <2> QED  BY <1>1, <1>10, <2>1 DEF Kept, Scanned
<1>11. CASE Tok(at) \notin {Comma, RBrace} /\ outcome' = "malformed-json"
  <2>1. ~IsJson  BY <1>1, <1>7, <1>11, JsonIs
  <2> QED  BY <1>11, <2>1, MalformedEarned DEF Kept, Refusing
<1> QED  BY <1>5, <1>9, <1>10, <1>11 DEF Proceed

-----------------------------------------------------------------------------
(* The end of the text                                                     *)

\* All members of a text that is JSON have been read.
LEMMA AtTheEnd ==
  ASSUME Reading, frame = "end"
  PROVE  /\ Tok(at) # "eof" => ~IsJson
         /\ Tok(at) = "eof" => IsJson /\ AllRead(TopMembers, keys, version, manifest)
         /\ IsText /\ outcome = "reading"
<1>1. AtEnd(at, keys, version, manifest) /\ IsText /\ outcome = "reading"  BY FrameIs DEF Reading
<1>2. /\ at \in Nat /\ Tok(1) = LBrace /\ IsValue(1, at)
      /\ AllRead(MembersUpTo(1, at - 2), keys, version, manifest) /\ Len(text) \in Nat
  BY <1>1 DEF AtEnd, IsText
<1>3. ASSUME IsJson PROVE Tok(at) = "eof"
  <2>1. IsValue(1, Len(text) + 1) /\ Len(text) + 1 \in Nat  BY <1>1, <1>3, JsonIs
  <2>2. at = Len(text) + 1
    <3>1. 1 \in Nat /\ 1 > 0  OBVIOUS
    <3> QED  BY <1>1, <1>2, <2>1, <3>1, OneEnd
  <2>3. at \notin 1..Len(text)  BY <1>2, <2>2
  <2> QED  BY <2>3, EofAt
<1>4. ASSUME Tok(at) = "eof" PROVE IsJson /\ AllRead(TopMembers, keys, version, manifest)
  <2>1. at \notin 1..Len(text)  BY <1>1, <1>4 DEF IsText, Tok
  <2>2. 1 < at /\ at <= Len(text) + 1
    <3>1. 1 \in Nat /\ 1 > 0  OBVIOUS
    <3>2. Flat(1, at)  BY <1>1, <1>2, <3>1, ValueShape
    <3> QED  BY <3>2 DEF Flat
  <2>3. at = Len(text) + 1  BY <1>2, <2>1, <2>2
  <2>4. IsJson  BY <1>2, <2>3 DEF IsJson, IsValue
  <2>5. TopMembers = MembersUpTo(1, at - 2)
    <3>1. MembersUpTo(1, (Len(text) + 1) - 2) = TopMembers  BY <1>1, TopAll
    <3> QED  BY <2>3, <3>1
  <2> QED  BY <1>2, <2>4, <2>5
<1> QED  BY <1>1, <1>3, <1>4

\* The root objects are those of the one key "roots", and they have been read.
LEMMA RootsRead ==
  ASSUME NEW seen, NEW v, NEW m, AllRead(TopMembers, seen, v, m), "roots" \in seen
  PROVE  /\ \A i \in ValuesOf(TopMembers, "roots") : Tok(i) = LBracket /\ Elements(i) = RootObjects
         /\ ValuesOf(TopMembers, "roots") # {} /\ RootsAre(RootObjects, m.roots)
<1>1. KeysAre(TopMembers, seen) /\ RootsDone(TopMembers, m.roots)  BY DEF AllRead
<1>2. PICK kp \in TopMembers : Tok(kp) = "roots"  BY <1>1 DEF KeysAre
<1>3. ValuesOf(TopMembers, "roots") = {kp + 2}  BY <1>1, <1>2 DEF ValuesOf, KeysAre, Unique
<1>4. Tok(kp + 2) = LBracket /\ RootsAre(Elements(kp + 2), m.roots)  BY <1>1, <1>2 DEF RootsDone
<1>5. RootObjects = Elements(kp + 2)  BY <1>3, <1>4 DEF RootObjects
<1> QED  BY <1>3, <1>4, <1>5

\* Without the key there are no roots.
LEMMA RootsNone ==
  ASSUME NEW seen, NEW v, NEW m, AllRead(TopMembers, seen, v, m), "roots" \notin seen
  PROVE  ValuesOf(TopMembers, "roots") = {}
BY DEF AllRead, KeysAre, ValuesOf

\* A root is well formed if its directories are not refused at the end.
LEMMA WellFormedIs ==
  ASSUME NEW i, NEW r, RootIs(i, r) PROVE WellFormedRoot(i) <=> ~RootRefused(r)
<1>1. /\ Tok(i) = LBrace /\ RootRead(Members(i), r) /\ \E k \in Members(i) : Tok(k) = "binaryDir"
  BY DEF RootIs
<1>2. ValuesOf(Members(i), "binaryDir") # {}  BY <1>1 DEF ValuesOf
<1>3. \A k \in ValuesOf(Members(i), "binaryDir") : Tok(k) = r.binaryDir  BY <1>1 DEF ValuesOf, RootRead
<1>4. \A k \in ValuesOf(Members(i), "dataDir") :
        Tok(k) \in Strings \cup {"null"} /\ r.dataDir = IF Tok(k) = "null" THEN Empty ELSE Tok(k)
  BY <1>1 DEF ValuesOf, RootRead
<1>5. ValuesOf(Members(i), "dataDir") = {} => r.dataDir = Empty
  <2>1. (\A k \in Members(i) : Tok(k) # "dataDir") => r.dataDir = Empty  BY <1>1 DEF RootRead
  <2> QED  BY <2>1 DEF ValuesOf
<1>6. (\A k \in ValuesOf(Members(i), "binaryDir") : Tok(k) \in Absolute) <=> r.binaryDir \in Absolute  BY <1>2, <1>3
<1>7. (\A k \in ValuesOf(Members(i), "dataDir") : Tok(k) \in Absolute \cup {Empty, "null"})
        <=> r.dataDir \in Absolute \cup {Empty}
  <2> DEFINE D == ValuesOf(Members(i), "dataDir")
  <2>1. \A k \in D : Tok(k) \in Absolute \cup {Empty, "null"} <=> r.dataDir \in Absolute \cup {Empty}
    <3> SUFFICES ASSUME NEW k \in D PROVE Tok(k) \in Absolute \cup {Empty, "null"} <=> r.dataDir \in Absolute \cup {Empty}
      OBVIOUS
    <3>1. CASE Tok(k) = "null"  BY <1>4, <3>1
    <3>2. CASE Tok(k) # "null"  BY <1>4, <3>2
    <3> QED  BY <3>1, <3>2
  <2>2. CASE D = {}  BY <1>5, <2>2
  <2>3. CASE D # {}  BY <2>1, <2>3
  <2> QED  BY <2>2, <2>3
<1> QED  BY <1>1, <1>2, <1>6, <1>7 DEF WellFormedRoot, RootRefused

\* A text that was read to its end has the faults that EndOfText looks for, and no others.
LEMMA FaultsLeft ==
  ASSUME AllRead(TopMembers, keys, version, manifest), version \in BOOLEAN
  PROVE  /\ ~version <=> NoVersion
         /\ "roots" \notin keys => NoRoots
         /\ "roots" \in keys => (NoRoots <=> \E i \in 1..Len(manifest.roots) : RootRefused(manifest.roots[i]))
         /\ "roots" \in keys => ~TooDeep /\ ~DuplicateKey
         /\ \A k \in {"selected", "exclude", "retry"} : ~NoRefList(k)
<1>1. /\ KeysAre(TopMembers, keys) /\ TopRead(TopMembers, version, manifest)
      /\ Unique(TopMembers)
  BY DEF AllRead, KeysAre
<1>2. ~version <=> NoVersion
  <2>1. version = (\E k \in TopMembers : Tok(k) = "version" /\ Tok(k + 2) = "one")  BY <1>1 DEF TopRead, VersionIs
  <2> QED  BY <2>1 DEF NoVersion, ValuesOf
<1>3. "roots" \notin keys => NoRoots  BY RootsNone DEF NoRoots
<1>4. ASSUME "roots" \in keys
      PROVE  /\ NoRoots <=> \E i \in 1..Len(manifest.roots) : RootRefused(manifest.roots[i])
             /\ ~TooDeep /\ ~DuplicateKey
  <2>1. /\ \A i \in ValuesOf(TopMembers, "roots") : Tok(i) = LBracket /\ Elements(i) = RootObjects
        /\ ValuesOf(TopMembers, "roots") # {} /\ RootsAre(RootObjects, manifest.roots)
    BY <1>4, RootsRead
  <2>2. NoRoots <=> \E i \in RootObjects : ~WellFormedRoot(i)
    BY <2>1 DEF NoRoots
  <2>3. (\E i \in RootObjects : ~WellFormedRoot(i)) <=> \E n \in 1..Len(manifest.roots) : RootRefused(manifest.roots[n])
    <3>1. ASSUME NEW i \in RootObjects, ~WellFormedRoot(i)
          PROVE  \E n \in 1..Len(manifest.roots) : RootRefused(manifest.roots[n])
      <4>1. PlaceIn(RootObjects, i) \in 1..Len(manifest.roots) /\ RootIs(i, manifest.roots[PlaceIn(RootObjects, i)])
        BY <2>1 DEF RootsAre
      <4> QED  BY <3>1, <4>1, WellFormedIs
    <3>2. ASSUME NEW n \in 1..Len(manifest.roots), RootRefused(manifest.roots[n])
          PROVE  \E i \in RootObjects : ~WellFormedRoot(i)
      <4>1. PICK i \in RootObjects : RootIs(i, manifest.roots[n])  BY <2>1 DEF RootsAre
      <4> QED  BY <3>2, <4>1, WellFormedIs
    <3> QED  BY <3>1, <3>2
  <2>4. \A i \in RootObjects : Unique(Members(i)) /\ \E r : RootRead(Members(i), r)
    BY <2>1 DEF RootsAre, RootIs
  <2>5. ~DuplicateKey  BY <1>1, <2>4 DEF DuplicateKey
  <2>6. \A i \in SkippedAt : Fits(i)
    <3> SUFFICES ASSUME NEW i \in SkippedAt PROVE Fits(i)  OBVIOUS
    <3>1. CASE \E k \in TopMembers : Tok(k) \notin Schema /\ i = k + 2  BY <1>1, <3>1 DEF TopRead
    <3>2. ASSUME NEW k \in SchemaMembers \ TopMembers, Tok(k) \notin {"binaryDir", "dataDir"}, i = k + 2
          PROVE  Fits(i)
      <4>1. PICK o \in RootObjects : k \in Members(o)  BY <3>2 DEF SchemaMembers
      <4> QED  BY <2>4, <3>2, <4>1 DEF RootRead
    <3> QED  BY <3>1, <3>2 DEF SkippedAt
  <2>7. ~TooDeep  BY <2>6 DEF TooDeep, Fits, TooDeepAt
  <2> QED  BY <2>2, <2>3, <2>5, <2>7
<1>5. ASSUME NEW k \in {"selected", "exclude", "retry"} PROVE ~NoRefList(k)
  <2>1. \E refs : RefsAre(TopMembers, k, refs)  BY <1>1 DEF TopRead
  <2> QED  BY <2>1 DEF NoRefList, RefsAre, ValuesOf
<1> QED  BY <1>2, <1>3, <1>4, <1>5

\* The root that was read is the one that the text means.
LEMMA RootMeantIs ==
  ASSUME NEW i, NEW r \in Roots, RootIs(i, r) PROVE RootMeant(i) = r
<1> DEFINE B == ValuesOf(Members(i), "binaryDir")
           D == ValuesOf(Members(i), "dataDir")
           b == CHOOSE k \in B : TRUE
           d == CHOOSE k \in D : TRUE
<1>1. /\ Unique(Members(i)) /\ RootRead(Members(i), r) /\ \E k \in Members(i) : Tok(k) = "binaryDir"
  BY DEF RootIs
<1>2. B # {} /\ \A k \in B : Tok(k) = r.binaryDir  BY <1>1 DEF ValuesOf, RootRead
<1>3. \A k \in D : r.dataDir = IF Tok(k) = "null" THEN Empty ELSE Tok(k)  BY <1>1 DEF ValuesOf, RootRead
<1>4. D = {} => r.dataDir = Empty
  <2>1. (\A k \in Members(i) : Tok(k) # "dataDir") => r.dataDir = Empty  BY <1>1 DEF RootRead
  <2> QED  BY <2>1 DEF ValuesOf
<1>5. \A k, m \in D : k = m  BY <1>1 DEF ValuesOf, Unique
<1>6. RootMeant(i) = [binaryDir |-> Tok(b), dataDir |-> IF \E k \in D : Tok(k) # "null" THEN Tok(d) ELSE Empty]
  BY DEF RootMeant
<1> HIDE DEF B, D
<1>7. Tok(b) = r.binaryDir  BY <1>2
<1>8. (IF \E k \in D : Tok(k) # "null" THEN Tok(d) ELSE Empty) = r.dataDir
  <2>1. CASE \E k \in D : Tok(k) # "null"
    <3>1. PICK k \in D : Tok(k) # "null"  BY <2>1
    <3>2. d \in D  BY <3>1
    <3>3. d = k  BY <1>5, <3>1, <3>2
    <3> QED  BY <1>3, <2>1, <3>1, <3>3
  <2>2. CASE ~\E k \in D : Tok(k) # "null"
    <3>1. CASE D = {}  BY <1>4, <2>2, <3>1
    <3>2. CASE D # {}  BY <1>3, <2>2, <3>2
    <3> QED  BY <3>1, <3>2
  <2> QED  BY <2>1, <2>2
<1> HIDE DEF b, d
<1>9. r = [binaryDir |-> r.binaryDir, dataDir |-> r.dataDir]  BY DEF Roots
<1> QED  BY <1>6, <1>7, <1>8, <1>9

\* A list that was read is the one that the text means.
LEMMA ListMeant ==
  ASSUME NEW key, NEW refs, RefsAre(TopMembers, key, refs), Unique(TopMembers)
  PROVE  ListedUnder(key) = refs
<1> DEFINE V == {i \in ValuesOf(TopMembers, key) : Tok(i) = LBracket}
<1>1. CASE \A k \in TopMembers : Tok(k) # key
  <2>1. refs = {} /\ V = {}  BY <1>1 DEF RefsAre, ValuesOf
  <2> QED  BY <2>1 DEF ListedUnder
<1>2. ASSUME NEW k \in TopMembers, Tok(k) = key PROVE ListedUnder(key) = refs
  <2>1. ValuesOf(TopMembers, key) = {k + 2}  BY <1>2 DEF ValuesOf, Unique
  <2>2. \/ Tok(k + 2) = LBracket /\ refs = {Tok(m) : m \in Elements(k + 2)}
        \/ Tok(k + 2) = "null" /\ refs = {}
    BY <1>2 DEF RefsAre
  <2>3. CASE Tok(k + 2) = LBracket /\ refs = {Tok(m) : m \in Elements(k + 2)}
    <3>1. V = {k + 2}  BY <2>1, <2>3
    <3> QED  BY <2>3, <3>1 DEF ListedUnder
  <2>4. CASE Tok(k + 2) = "null" /\ refs = {}
    <3>1. V = {}  BY <2>1, <2>4, NullIsScalar
    <3> QED  BY <2>4, <3>1 DEF ListedUnder
  <2> QED  BY <2>2, <2>3, <2>4
<1> QED  BY <1>1, <1>2

\* The roots that were read are the ones that the text means, in their order.
LEMMA RootsMeant ==
  ASSUME NEW roots \in Seq(Roots), RootsAre(RootObjects, roots)
  PROVE  [n \in 1..Cardinality(RootObjects) |-> RootMeant(Nth(RootObjects, n))] = roots
<1> DEFINE E == RootObjects
<1>1. Cardinality(E) = Len(roots) /\ Len(roots) \in Nat  BY DEF RootsAre
<1>2. ASSUME NEW n \in 1..Len(roots) PROVE RootMeant(Nth(E, n)) = roots[n]
  <2>1. Nth(E, n) = CHOOSE k \in E : PlaceIn(E, k) = n  BY DEF Nth, PlaceIn
  <2>2. \E k \in E : PlaceIn(E, k) = n  BY DEF RootsAre
  <2>3. Nth(E, n) \in E /\ PlaceIn(E, Nth(E, n)) = n
    <3> HIDE DEF E
    <3> QED  BY <2>1, <2>2
  <2>4. RootIs(Nth(E, n), roots[n])  BY <2>3 DEF RootsAre
  <2>5. roots[n] \in Roots  OBVIOUS
  <2> QED  BY <2>4, <2>5, RootMeantIs
<1>3. roots = [n \in 1..Len(roots) |-> roots[n]]  OBVIOUS
<1> HIDE DEF E
<1>4. [n \in 1..Cardinality(E) |-> RootMeant(Nth(E, n))] = [n \in 1..Len(roots) |-> roots[n]]  BY <1>1, <1>2
<1> QED  BY <1>3, <1>4 DEF E

\* The manifest that was read to the end is the one that the text means.
LEMMA MeaningIs ==
  ASSUME AllRead(TopMembers, keys, version, manifest), manifest \in Manifests, "roots" \in keys
  PROVE  manifest = Meaning
<1>1. Unique(TopMembers) /\ TopRead(TopMembers, version, manifest)  BY DEF AllRead, KeysAre
<1>2. RootsAre(RootObjects, manifest.roots)  BY RootsRead
<1>3. manifest.roots \in Seq(Roots)  BY DEF Manifests
<1>4. [n \in 1..Cardinality(RootObjects) |-> RootMeant(Nth(RootObjects, n))] = manifest.roots
  BY <1>2, <1>3, RootsMeant
<1>5. (\E i \in ValuesOf(TopMembers, "selected") : Tok(i) = LBracket) = manifest.hasSelected
  <2>1. manifest.hasSelected = (\E k \in TopMembers : Tok(k) = "selected" /\ Tok(k + 2) = LBracket)
    BY <1>1 DEF TopRead, SelectedIs
  <2>2. (\E i \in ValuesOf(TopMembers, "selected") : Tok(i) = LBracket)
          <=> (\E k \in TopMembers : Tok(k) = "selected" /\ Tok(k + 2) = LBracket)
    BY DEF ValuesOf
  <2> QED  BY <2>1, <2>2
<1>6. /\ ListedUnder("selected") = manifest.selected /\ ListedUnder("exclude") = manifest.exclude
      /\ ListedUnder("retry") = manifest.retry
  BY <1>1, ListMeant DEF TopRead
<1>7. manifest = [roots |-> manifest.roots, hasSelected |-> manifest.hasSelected, selected |-> manifest.selected,
                  exclude |-> manifest.exclude, retry |-> manifest.retry]
  BY DEF Manifests
<1> QED  BY <1>4, <1>5, <1>6, <1>7 DEF Meaning

\* EndOfText finds the fault that is left, or there is none.
LEMMA EndOfTextStep == ASSUME Reading, EndOfText PROVE Refusing \/ (outcome' = "accepted" /\ AcceptedIsRight')
<1>1. frame = "end" /\ text' = text /\ manifest' = manifest /\ version \in BOOLEAN /\ manifest \in Manifests
  BY DEF EndOfText, Expecting, ParseEnds, Reading, ParserTypeOK
<1>2. /\ Tok(at) # "eof" => ~IsJson
      /\ Tok(at) = "eof" => IsJson /\ AllRead(TopMembers, keys, version, manifest)
  BY <1>1, AtTheEnd
<1>3. CASE Tok(at) # "eof"
  <2>1. outcome' = "malformed-json"  BY <1>3 DEF EndOfText, ParseEnds
  <2> QED  BY <1>2, <1>3, <2>1, MalformedEarned DEF Refusing
<1>4. ASSUME Tok(at) = "eof", ~version PROVE Refusing
  <2>1. outcome' = "unsupported-version"  BY <1>4 DEF EndOfText, ParseEnds
  <2>2. NoVersion  BY <1>1, <1>2, <1>4, FaultsLeft
  <2>3. Earned("unsupported-version")  BY <1>2, <1>4, <2>2, FaultsAre DEF Earned
  <2> QED  BY <2>1, <2>3 DEF Refusing
<1> DEFINE bad == \E i \in 1..Len(manifest.roots) : RootRefused(manifest.roots[i])
<1>5. ASSUME Tok(at) = "eof", version, "roots" \notin keys \/ bad PROVE Refusing
  <2>1. outcome' = "invalid-roots"  BY <1>5 DEF EndOfText, ParseEnds
  <2>2. NoRoots
    <3>1. CASE "roots" \notin keys  BY <1>1, <1>2, <1>5, <3>1, FaultsLeft
    <3>2. CASE "roots" \in keys  BY <1>1, <1>2, <1>5, <3>2, FaultsLeft
    <3> QED  BY <3>1, <3>2
  <2>3. Earned("invalid-roots")  BY <1>2, <1>5, <2>2, FaultsAre DEF Earned
  <2> QED  BY <2>1, <2>3 DEF Refusing
<1>6. ASSUME Tok(at) = "eof", version, "roots" \in keys, ~bad PROVE outcome' = "accepted" /\ AcceptedIsRight'
  <2>1. outcome' = "accepted"  BY <1>6 DEF EndOfText, ParseEnds
  <2>2. IsJson /\ AllRead(TopMembers, keys, version, manifest)  BY <1>2, <1>6
  <2>3. ~TooDeep /\ ~DuplicateKey /\ ~NoVersion /\ ~NoRoots /\ \A k \in {"selected", "exclude", "retry"} : ~NoRefList(k)
    BY <1>1, <1>6, <2>2, FaultsLeft
  <2>4. Faults = {}  BY <2>3, FaultsAre
  <2>5. manifest = Meaning  BY <1>1, <1>6, <2>2, MeaningIs
  <2>6. IsJson' /\ Faults' = {} /\ Meaning' = Meaning  BY <1>1, <2>2, <2>4, SameText, SameFaults
  <2>7. manifest' = Meaning'  BY <1>1, <2>5, <2>6
  <2> QED  BY <2>1, <2>6, <2>7 DEF AcceptedIsRight
<1> QED  BY <1>3, <1>4, <1>5, <1>6

\* A step of the parser that leaves the text alone.
LEMMA StepKept ==
  ASSUME LanguageInv, text' = text, ParserTypeOK', Kept \/ (outcome' = "accepted" /\ AcceptedIsRight') PROVE LanguageInv'
<1>1. IsText' /\ (IsJson' <=> IsJson) /\ Faults' = Faults /\ \A c : Earned(c)' <=> Earned(c)
  BY SameText, SameFaults DEF LanguageInv
<1>2. CASE outcome' = "reading" /\ Scanned(frame', at', keys', rootKeys', root', version', manifest')
  <2>1. Scanned(frame, at, keys, rootKeys, root, version, manifest)'  BY <1>2, SameScan
  <2> QED  BY <1>1, <1>2, <2>1 DEF LanguageInv, RefusedForCause, AcceptedIsRight, Parsed
<1>3. CASE Refusing
  <2>1. RefusedForCause'  BY <1>1, <1>3 DEF Refusing, RefusedForCause, Earned
  <2> QED  BY <1>1, <1>3, <2>1 DEF Refusing, LanguageInv, AcceptedIsRight
<1>4. CASE outcome' = "accepted" /\ AcceptedIsRight'
  <2>1. RefusedForCause'  BY <1>4 DEF RefusedForCause
  <2> QED  BY <1>1, <1>4, <2>1 DEF LanguageInv
<1> QED  BY <1>2, <1>3, <1>4 DEF Kept

\* An empty text is a text.
LEMMA NothingMeans == ASSUME text = <<>> PROVE IsText
<1>1. Len(text) = 0  OBVIOUS
<1> QED  BY <1>1 DEF IsText

\* Load puts the scanner in front of a text, or refuses without one.
LEMMA LoadStep == ASSUME LanguageInv, Load PROVE LanguageInv'
<1>1. /\ outcome = "loading" /\ text = <<>> /\ frame = "open" /\ AtOpen(at, keys, version, manifest) /\ ParserTypeOK
  BY DEF LanguageInv, Load
<1>2. UNCHANGED <<at, frame, keys, rootKeys, root, version, manifest>>  BY DEF Load
<1>3. ParserTypeOK' /\ AtOpen(at, keys, version, manifest)'  BY <1>1, <1>2 DEF ParserTypeOK, AtOpen
<1>4. CASE outcome' \in {"not-absolute-path", "unreadable-file", "manifest-too-large"} /\ text' = text
  <2>1. text' = <<>>  BY <1>1, <1>4
  <2>2. IsText'
    <3>1. Len(text') = 0  BY <2>1
    <3> QED  BY <3>1 DEF IsText
  <2> QED  BY <1>3, <1>4, <2>1, <2>2 DEF LanguageInv, RefusedForCause, AcceptedIsRight, Parsed
<1>5. ASSUME NEW t \in Texts, outcome' = "reading", text' = t PROVE LanguageInv'
  <2>1. t \in Seq({t[i] : i \in DOMAIN t}) /\ \A i \in DOMAIN t : t[i] # "eof"  BY TextsAssumption
  <2>2. Len(t) \in Nat /\ DOMAIN t = 1..Len(t)  BY <2>1
  <2>3. IsText'  BY <1>5, <2>1, <2>2 DEF IsText
  <2>4. Scanned(frame, at, keys, rootKeys, root, version, manifest)'  BY <1>1, <1>2, <1>3 DEF Scanned
  <2> QED  BY <1>3, <1>5, <2>3, <2>4 DEF LanguageInv, RefusedForCause, AcceptedIsRight, Parsed
<1> QED  BY <1>4, <1>5 DEF Load

\* A root of which nothing has been read.
LEMMA EmptyRootIs == [binaryDir |-> Empty, dataDir |-> Empty] \in Roots
<1>1. Empty \in Strings  BY DEF Strings
<1> QED  BY <1>1 DEF Roots

\* Every action that begins with a frame of the parser.
LEMMA ParseStep == ASSUME LanguageInv, ParseNext PROVE LanguageInv'
<1>1. ParserTypeOK /\ root \in Roots /\ version \in BOOLEAN /\ manifest \in Manifests  BY DEF LanguageInv, ParserTypeOK
<1>2. ASSUME outcome = "reading" PROVE Reading  BY <1>2 DEF LanguageInv, Reading
<1>3. CASE Load  BY <1>3, LoadStep
<1>4. CASE OpenManifest
  <2>1. Reading /\ text' = text /\ UNCHANGED <<root, version, manifest>>
    BY <1>2, <1>4 DEF OpenManifest, Expecting, ParseEnds
  <2>2. ParserTypeOK'  BY <1>1, <2>1 DEF ParserTypeOK
  <2> QED  BY <1>4, <2>1, <2>2, OpenManifestStep, StepKept
<1>5. CASE RefuseKey
  <2>1. Reading /\ text' = text /\ UNCHANGED <<root, version, manifest>>
    BY <1>2, <1>5 DEF RefuseKey, Expecting, ParseEnds
  <2>2. Kept  BY <1>5, <2>1, MemberRefused, RootMemberRefused DEF RefuseKey, Expecting
  <2>3. ParserTypeOK'  BY <1>1, <2>1 DEF ParserTypeOK
  <2> QED  BY <2>1, <2>2, <2>3, StepKept
<1>6. CASE ReadVersion
  <2>1. Reading /\ text' = text /\ UNCHANGED <<root, manifest>> /\ version' \in BOOLEAN
    BY <1>1, <1>2, <1>6 DEF ReadVersion, Member, Expecting, ParseEnds
  <2>2. ParserTypeOK'  BY <1>1, <2>1 DEF ParserTypeOK
  <2> QED  BY <1>6, <2>1, <2>2, SkipMemberStep, StepKept
<1>7. CASE SkipMember
  <2>1. Reading /\ text' = text /\ UNCHANGED <<root, version, manifest>>
    BY <1>2, <1>7 DEF SkipMember, Member, Expecting, ParseEnds
  <2>2. ParserTypeOK'  BY <1>1, <2>1 DEF ParserTypeOK
  <2> QED  BY <1>7, <2>1, <2>2, SkipMemberStep, StepKept
<1>8. CASE ReadNull
  <2>1. Reading /\ text' = text /\ UNCHANGED <<root, version, manifest>>  BY <1>2, <1>8 DEF ReadNull, Member, Expecting
  <2>2. ParserTypeOK'  BY <1>1, <2>1 DEF ParserTypeOK
  <2> QED  BY <1>8, <2>1, <2>2, ReadNullStep, StepKept
<1>9. ASSUME NEW k \in {"selected", "exclude", "retry"}, ReadRefs(k) PROVE LanguageInv'
  <2>1. Reading /\ text' = text /\ UNCHANGED <<root, version>>
    BY <1>2, <1>9 DEF ReadRefs, Member, Expecting, ParseEnds
  <2>2. Kept /\ manifest' \in Manifests  BY <1>9, <2>1, ReadRefsStep
  <2>3. ParserTypeOK'  BY <1>1, <2>1, <2>2 DEF ParserTypeOK
  <2> QED  BY <2>1, <2>2, <2>3, StepKept
<1>10. CASE OpenRoots
  <2>1. Reading /\ text' = text /\ UNCHANGED <<root, version, manifest>>
    BY <1>2, <1>10 DEF OpenRoots, Member, Expecting, ParseEnds
  <2>2. ParserTypeOK'  BY <1>1, <2>1 DEF ParserTypeOK
  <2> QED  BY <1>10, <2>1, <2>2, OpenRootsStep, StepKept
<1>11. CASE OpenRoot
  <2>1. Reading /\ text' = text /\ UNCHANGED <<version, manifest>>
        /\ root' \in {root, [binaryDir |-> Empty, dataDir |-> Empty]}
    BY <1>2, <1>11 DEF OpenRoot, Expecting, ParseEnds
  <2>2. ParserTypeOK'  BY <1>1, <2>1, EmptyRootIs DEF ParserTypeOK
  <2> QED  BY <1>11, <2>1, <2>2, OpenRootStep, StepKept
<1>12. ASSUME NEW k \in {"binaryDir", "dataDir"}, ReadDir(k) PROVE LanguageInv'
  <2>1. Reading /\ text' = text /\ UNCHANGED <<version, manifest>>
    BY <1>2, <1>12 DEF ReadDir, RootMember, Expecting, ParseEnds
  <2>2. Kept /\ root' \in Roots  BY <1>12, <2>1, ReadDirStep
  <2>3. ParserTypeOK'  BY <1>1, <2>1, <2>2 DEF ParserTypeOK
  <2> QED  BY <2>1, <2>2, <2>3, StepKept
<1>13. CASE SkipRootMember
  <2>1. Reading /\ text' = text /\ UNCHANGED <<root, version, manifest>>
    BY <1>2, <1>13 DEF SkipRootMember, RootMember, Expecting, ParseEnds
  <2>2. ParserTypeOK'  BY <1>1, <2>1 DEF ParserTypeOK
  <2> QED  BY <1>13, <2>1, <2>2, SkipRootMemberStep, StepKept
<1>14. CASE CloseRoot
  <2>1. Reading /\ text' = text /\ UNCHANGED <<root, version>>  BY <1>2, <1>14 DEF CloseRoot, Expecting, ParseEnds
  <2>2. Kept /\ manifest' \in Manifests  BY <1>14, <2>1, CloseRootStep
  <2>3. ParserTypeOK'  BY <1>1, <2>1, <2>2 DEF ParserTypeOK
  <2> QED  BY <2>1, <2>2, <2>3, StepKept
<1>15. CASE CloseRoots
  <2>1. Reading /\ text' = text /\ UNCHANGED <<root, version, manifest>>  BY <1>2, <1>15 DEF CloseRoots, Expecting
  <2>2. ParserTypeOK'  BY <1>1, <2>1 DEF ParserTypeOK
  <2> QED  BY <1>15, <2>1, <2>2, CloseRootsStep, StepKept
<1>16. CASE EndOfText
  <2>1. Reading /\ text' = text /\ UNCHANGED <<root, version, manifest>>
    BY <1>2, <1>16 DEF EndOfText, Expecting, ParseEnds
  <2>2. ParserTypeOK'  BY <1>1, <2>1 DEF ParserTypeOK
  <2>3. Kept \/ (outcome' = "accepted" /\ AcceptedIsRight')  BY <1>16, <2>1, EndOfTextStep DEF Kept
  <2> QED  BY <2>1, <2>2, <2>3, StepKept
<1> QED
  BY <1>3, <1>4, <1>5, <1>6, <1>7, <1>8, <1>9, <1>10, <1>11, <1>12, <1>13, <1>14, <1>15, <1>16 DEF ParseNext

\* Boot forgets the text, and the plan does not touch it.
LEMMA LanguageStep == LanguageInv /\ [LaunchNext]_<<plan, parser>> => LanguageInv'
<1> SUFFICES ASSUME LanguageInv, [LaunchNext]_<<plan, parser>> PROVE LanguageInv'  OBVIOUS
<1>1. CASE ParseNext /\ UNCHANGED plan  BY <1>1, ParseStep
<1>2. CASE Boot
  <2>1. /\ outcome' = "booted" /\ text' = <<>> /\ root' = [binaryDir |-> Empty, dataDir |-> Empty] /\ version' = FALSE
        /\ manifest' = manifest
    BY <1>2 DEF Boot
  <2>2. ParserTypeOK'  BY <2>1, EmptyRootIs DEF LanguageInv, ParserTypeOK
  <2>3. IsText'
    <3>1. Len(text') = 0  BY <2>1
    <3> QED  BY <3>1 DEF IsText
  <2> QED  BY <2>1, <2>2, <2>3 DEF LanguageInv, RefusedForCause, AcceptedIsRight, Parsed
<1>3. CASE UNCHANGED parser
  <2>1. /\ text' = text /\ at' = at /\ frame' = frame /\ keys' = keys /\ rootKeys' = rootKeys /\ root' = root
        /\ version' = version /\ manifest' = manifest /\ outcome' = outcome
    BY <1>3 DEF parser
  <2>2. /\ IsText' <=> IsText
        /\ IsJson' <=> IsJson
        /\ Faults' = Faults /\ Meaning' = Meaning /\ \A c : Earned(c)' <=> Earned(c)
    BY <2>1, SameText, SameFaults
  <2>3. ParserTypeOK'  BY <2>1 DEF LanguageInv, ParserTypeOK
  <2>4. Scanned(frame, at, keys, rootKeys, root, version, manifest)'
          <=> Scanned(frame, at, keys, rootKeys, root, version, manifest)
    BY <2>1, SameScan
  <2>5. outcome' = "loading" => text' = <<>> /\ frame' = "open" /\ AtOpen(at, keys, version, manifest)'
    BY <2>1 DEF LanguageInv, AtOpen
  <2>6. RefusedForCause' /\ AcceptedIsRight'
    BY <2>1, <2>2 DEF LanguageInv, RefusedForCause, Earned, AcceptedIsRight, Parsed
  <2> QED  BY <2>1, <2>2, <2>3, <2>4, <2>5, <2>6 DEF LanguageInv
<1> QED  BY <1>1, <1>2, <1>3 DEF LaunchNext

\* Before a text is loaded nothing has been read.
LEMMA LanguageInit == LaunchInit => LanguageInv
<1> SUFFICES ASSUME ParseInit PROVE LanguageInv  BY DEF LaunchInit
<1>1. /\ text = <<>> /\ outcome = "loading" /\ frame = "open" /\ AtOpen(at, keys, version, manifest)
  BY DEF ParseInit, AtOpen
<1>2. ParserTypeOK
  <2>1. <<>> \in Seq(Roots)  OBVIOUS
  <2> QED  BY <2>1, EmptyRootIs DEF ParseInit, ParserTypeOK, Manifests
<1> QED  BY <1>1, <1>2, NothingMeans DEF LanguageInv, RefusedForCause, AcceptedIsRight, Parsed

\* For every set of texts, refs and bounds: parse_manifest_text always stands where the grammar
\* wants it, has read what is there, and has refused for nothing else.
THEOREM LanguageInvariant == LaunchSpec => []LanguageInv
BY LanguageInit, LanguageStep, PTL DEF LaunchSpec

\* The category code of a refused launch names a fault that its manifest has: if the text is
\* not JSON, that it is not, or a fault of what stands before the place where it breaks.  No
\* text of any length is refused with a code that it has not earned.
THEOREM RefusalHasACause == LaunchSpec => []RefusedForCause
<1>1. LanguageInv => RefusedForCause  BY DEF LanguageInv
<1> QED  BY <1>1, LanguageInvariant, PTL

\* Every text that is JSON and has no fault is accepted, no other is, and the manifest
\* that the parser read in one pass is the one that the text means.
THEOREM AcceptanceMeansIt == LaunchSpec => []AcceptedAsMeant
<1>1. LanguageInv => AcceptedAsMeant  BY DEF LanguageInv, AcceptedAsMeant, AcceptedIsRight, RefusedForCause
<1> QED  BY <1>1, LanguageInvariant, PTL
=============================================================================
