------------------------ MODULE RecordSessionProofs ------------------------
(* Proofs about RecordSession, for every set of ids, of destinations and of *)
(* sizes, and every number of saves.                                        *)
EXTENDS RecordSession, FiniteSetTheorems, SequenceTheorems, WellFoundedInduction, TLAPS

\* A session has started the file it names.
SessionsWrote == \A i \in RecordIds : records[i] # None => i \in writers[records[i].path]

\* What the file of a session holds that nobody else wrote.
FileIs(i) ==
  IF records[i].running
  THEN files[records[i].path] = <<<<i, "head">>>> /\ records[i].frames = 1
  ELSE files[records[i].path] = <<<<i, "head">>, <<i, "end">>>> /\ records[i].frames = 3

OwnFiles ==
  \A i \in RecordIds : records[i] # None /\ writers[records[i].path] = {i} => FileIs(i)

\* A buffer that runs is full.
BuffersFull ==
  \A i \in ReplayIds : replays[i] # None /\ replays[i].running => replays[i].chunks = ReplayChunks

IInv == TypeOK /\ SessionsWrote /\ OwnFiles /\ BuffersFull /\ AnnouncedAreWhole

-----------------------------------------------------------------------------

\* Nothing is recorded, and no buffer runs.
LEMMA InitIInv == Init => IInv
BY BoundAssumption
   DEF Init, RecordInit, IInv, TypeOK, Seqs, ReplayChunks, SessionsWrote, OwnFiles, BuffersFull, AnnouncedAreWhole

\* A file is begun for a session, or nothing is done.
LEMMA StartRecordStep ==
  ASSUME IInv, NEW i \in RecordIds, NEW d \in Destinations, NEW opened \in BOOLEAN, NEW answer,
         StartRecord(i, d, opened, answer)
  PROVE  IInv'
<1> USE DEF IInv, TypeOK
<1>1. CASE ~opened
  BY <1>1 DEF StartRecord, SessionsWrote, OwnFiles, FileIs, BuffersFull, AnnouncedAreWhole
<1>2. CASE opened
  <2>1. /\ files' = [files EXCEPT ![d] = <<<<i, "head">>>>]
        /\ records' = [records EXCEPT ![i] = [path |-> d, running |-> TRUE, frames |-> 1]]
        /\ writers' = [writers EXCEPT ![d] = @ \cup {i}]
        /\ UNCHANGED <<replays, segments, announced>>
    BY <1>2 DEF StartRecord
  <2>2. TypeOK'  BY <2>1
  <2>3. SessionsWrote'  BY <2>1 DEF SessionsWrote
  <2>4. OwnFiles'
    <3> SUFFICES ASSUME NEW j \in RecordIds, records'[j] # None, writers'[records'[j].path] = {j}
                 PROVE  FileIs(j)'
      BY DEF OwnFiles
    <3>1. CASE j = i  BY <2>1, <3>1 DEF FileIs
    <3>2. CASE j # i
      <4>1. records'[j] = records[j] /\ records[j].path \in Destinations  BY <2>1, <3>2
      <4>2. records[j].path # d
        <5>1. i \in writers'[d]  BY <2>1
        <5> QED  BY <3>2, <4>1, <5>1
      <4>3. writers'[records[j].path] = writers[records[j].path] /\ files'[records[j].path] = files[records[j].path]
        BY <2>1, <4>1, <4>2
      <4>4. FileIs(j)  BY <4>1, <4>3 DEF OwnFiles
      <4> QED  BY <4>1, <4>3, <4>4 DEF FileIs
    <3> QED  BY <3>1, <3>2
  <2> QED  BY <2>1, <2>2, <2>3, <2>4 DEF BuffersFull, AnnouncedAreWhole
<1> QED  BY <1>1, <1>2

\* What is appended to one write is the second.
LEMMA AppendToOne == ASSUME NEW x, NEW y PROVE Append(<<x>>, y) = <<x, y>>
<1>1. <<x>> \in Seq({x, y}) /\ <<x, y>> \in Seq({x, y})  OBVIOUS
<1>2. Append(<<x>>, y) \in Seq({x, y}) /\ Len(Append(<<x>>, y)) = Len(<<x, y>>)  BY <1>1
<1>3. \A k \in 1..Len(Append(<<x>>, y)) : Append(<<x>>, y)[k] = <<x, y>>[k]  BY <1>1
<1> QED  BY <1>1, <1>2, <1>3, SeqEqual

\* The last frames are appended once, or nothing is done.
LEMMA StopRecordStep ==
  ASSUME IInv, NEW i \in RecordIds, NEW opened \in BOOLEAN, NEW answer, StopRecord(i, opened, answer)
  PROVE  IInv'
<1> USE DEF IInv, TypeOK
<1>1. CASE records[i] # None /\ records[i].running /\ opened
  <2>1. /\ files' = [files EXCEPT ![records[i].path] = Append(@, <<i, "end">>)]
        /\ records' = [records EXCEPT ![i].running = FALSE, ![i].frames = 3]
        /\ UNCHANGED <<replays, segments, writers, announced>>
    BY <1>1 DEF StopRecord, Finalize
  <2>2. /\ records[i].path \in Destinations
        /\ records'[i] = [path |-> records[i].path, running |-> FALSE, frames |-> 3]
        /\ \A j \in RecordIds : j # i => records'[j] = records[j]
    <3>1. records[i] \in [path : Destinations, running : BOOLEAN, frames : {1, 3}]
      BY <1>1
    <3>2. records'[i] = [records[i] EXCEPT !.running = FALSE, !.frames = 3]
      BY <2>1
    <3>3. records'[i] = [path |-> records[i].path, running |-> FALSE, frames |-> 3]
      BY ONLY <3>1, <3>2
    <3>4. \A j \in RecordIds : j # i => records'[j] = records[j]
      BY <2>1
    <3> QED
      BY <3>1, <3>3, <3>4
  <2>3. TypeOK'
    <3>1. records' \in [RecordIds -> [path : Destinations, running : BOOLEAN, frames : {1, 3}] \cup {None}]
      <4>1. DOMAIN records' = RecordIds /\ records' = [j \in RecordIds |-> records'[j]]  BY <2>1
      <4>2. \A j \in RecordIds :
              records'[j] \in [path : Destinations, running : BOOLEAN, frames : {1, 3}] \cup {None}
        <5> SUFFICES ASSUME NEW j \in RecordIds
                     PROVE  records'[j] \in [path : Destinations, running : BOOLEAN, frames : {1, 3}] \cup {None}
          OBVIOUS
        <5>1. CASE j = i
          <6>1. [path |-> records[i].path, running |-> FALSE, frames |-> 3]
                  \in [path : Destinations, running : BOOLEAN, frames : {1, 3}]
            BY <2>2
          <6> QED  BY <2>2, <5>1, <6>1
        <5>2. CASE j # i  BY <2>2, <5>2
        <5> QED  BY <5>1, <5>2
      <4> QED  BY <4>1, <4>2
    <3>2. files' \in [Destinations -> Seq(RecordIds \X {"head", "end"})]
      <4>1. Append(files[records[i].path], <<i, "end">>) \in Seq(RecordIds \X {"head", "end"})
        BY <2>2
      <4> QED  BY <2>1, <4>1
    <3> QED  BY <2>1, <3>1, <3>2
  <2>4. SessionsWrote'  BY <1>1, <2>1, <2>2 DEF SessionsWrote
  <2>5. OwnFiles'
    <3> SUFFICES ASSUME NEW j \in RecordIds, records'[j] # None, writers'[records'[j].path] = {j}
                 PROVE  FileIs(j)'
      BY DEF OwnFiles
    <3>1. CASE j = i
      <4>1. FileIs(i) /\ records[i].running  BY <1>1, <2>1, <2>2, <3>1 DEF OwnFiles
      <4>2. files'[records[i].path] = Append(<<<<i, "head">>>>, <<i, "end">>)
        BY <2>1, <2>2, <4>1 DEF FileIs
      <4>3. files'[records[i].path] = <<<<i, "head">>, <<i, "end">>>>  BY <4>2, AppendToOne
      <4> QED  BY <2>2, <3>1, <4>3 DEF FileIs
    <3>2. CASE j # i
      <4>1. records'[j] = records[j] /\ records[j].path \in Destinations  BY <2>2, <3>2
      <4>2. records[j].path # records[i].path
        <5>1. i \in writers[records[i].path]  BY <1>1 DEF SessionsWrote
        <5> QED  BY <2>1, <3>2, <4>1, <5>1
      <4>3. files'[records[j].path] = files[records[j].path]  BY <2>1, <4>1, <4>2
      <4>4. FileIs(j)  BY <2>1, <4>1 DEF OwnFiles
      <4> QED  BY <4>1, <4>3, <4>4 DEF FileIs
    <3> QED  BY <3>1, <3>2
  <2> QED  BY <2>1, <2>3, <2>4, <2>5 DEF BuffersFull, AnnouncedAreWhole
<1>2. CASE ~(records[i] # None /\ records[i].running /\ opened)
  <2>1. UNCHANGED recordVars  BY <1>2 DEF StopRecord, recordVars
  <2> QED  BY <2>1 DEF recordVars, SessionsWrote, OwnFiles, FileIs, BuffersFull, AnnouncedAreWhole
<1> QED  BY <1>1, <1>2

\* A buffer is filled, saved whole while it runs, or emptied.
LEMMA ReplayStep ==
  ASSUME IInv, NEW i \in ReplayIds, NEW answer,
         \/ StartReplay(i, answer) \/ StopReplay(i, answer)
         \/ \E opened \in BOOLEAN : SaveReplay(i, opened, answer)
  PROVE  IInv'
<1> USE DEF IInv, TypeOK
<1>1. UNCHANGED <<records, files, writers>>  BY DEF StartReplay, StopReplay, SaveReplay
<1>2. SessionsWrote' /\ OwnFiles'  BY <1>1 DEF SessionsWrote, OwnFiles, FileIs
<1>3. CASE StartReplay(i, answer) \/ StopReplay(i, answer)
  <2>1. UNCHANGED <<segments, announced>>  BY <1>3 DEF StartReplay, StopReplay
  <2>2. replays' \in [ReplayIds -> [running : BOOLEAN, seq : 0..MaxSaves, chunks : {0, ReplayChunks}] \cup {None}]
        /\ BuffersFull'
    <3>1. CASE StartReplay(i, answer)  BY <3>1, BoundAssumption DEF StartReplay, BuffersFull
    <3>2. CASE StopReplay(i, answer) /\ replays[i] # None
      <4>1. replays' = [replays EXCEPT ![i] = [running |-> FALSE, seq |-> replays[i].seq, chunks |-> 0]]
        BY <3>2 DEF StopReplay
      <4>2. replays[i].seq \in 0..MaxSaves  BY <3>2
      <4> QED  BY <4>1, <4>2 DEF BuffersFull
    <3>3. CASE StopReplay(i, answer) /\ replays[i] = None  BY <3>3 DEF StopReplay, BuffersFull
    <3> QED  BY <1>3, <3>1, <3>2, <3>3
  <2> QED  BY <1>1, <1>2, <2>1, <2>2 DEF AnnouncedAreWhole
<1>4. ASSUME NEW opened \in BOOLEAN, SaveReplay(i, opened, answer) PROVE IInv'
  <2>1. CASE replays[i] # None /\ replays[i].running
    <3> DEFINE n == replays[i].seq + 1
    <3>1. /\ replays[i].seq < MaxSaves /\ replays[i].seq \in 0..MaxSaves
          /\ replays' = [replays EXCEPT ![i].seq = @ + 1]
          /\ replays[i].chunks = ReplayChunks /\ replays[i].running
      BY <1>4, <2>1 DEF SaveReplay, BuffersFull
    <3>2. n \in Seqs  BY <3>1, BoundAssumption DEF Seqs
    <3>3. replays'[i] = [running |-> TRUE, seq |-> n, chunks |-> ReplayChunks]
      BY <2>1, <3>1
    <3>4. replays' \in [ReplayIds -> [running : BOOLEAN, seq : 0..MaxSaves, chunks : {0, ReplayChunks}] \cup {None}]
          /\ BuffersFull'
      <4>1. replays' = [replays EXCEPT ![i] = [running |-> TRUE, seq |-> n, chunks |-> ReplayChunks]]
        BY <3>1, <3>3
      <4>2. n \in 0..MaxSaves  BY <3>2, BoundAssumption DEF Seqs
      <4> QED  BY <4>1, <4>2 DEF BuffersFull
    <3>5. CASE opened
      <4>1. segments' = [segments EXCEPT ![i][n] = ReplayChunks] /\ announced' = announced \cup {<<i, n>>}
        BY <1>4, <2>1, <3>1, <3>5 DEF SaveReplay, Materialize
      <4>2. segments' \in [ReplayIds -> [Seqs -> {0, ReplayChunks}]] /\ announced' \subseteq ReplayIds \X Seqs
        BY <3>2, <4>1
      <4>3. AnnouncedAreWhole'  BY <3>2, <4>1 DEF AnnouncedAreWhole
      <4> QED  BY <1>1, <1>2, <3>4, <4>2, <4>3
    <3>6. CASE ~opened
      <4>1. UNCHANGED <<segments, announced>>  BY <1>4, <2>1, <3>6 DEF SaveReplay
      <4> QED  BY <1>1, <1>2, <3>4, <4>1 DEF AnnouncedAreWhole
    <3> QED  BY <3>5, <3>6
  <2>2. CASE ~(replays[i] # None /\ replays[i].running)
    <3>1. UNCHANGED <<replays, segments, announced>>  BY <1>4, <2>2 DEF SaveReplay
    <3> QED  BY <1>1, <1>2, <3>1 DEF BuffersFull, AnnouncedAreWhole
  <2> QED  BY <2>1, <2>2
<1> QED  BY <1>3, <1>4

\* A request is one of the table, with ids of its kind.
LEMMA CallStep == ASSUME IInv, NEW r \in Requests, NEW answer, Call(r, answer) PROVE IInv'
<1>1. /\ r[1] = "record.start" => r[2] \in RecordIds /\ r[3] \in Destinations
      /\ r[1] = "record.stop" => r[2] \in RecordIds
      /\ r[1] \in {"replay.start", "replay.save", "replay.stop"} => r[2] \in ReplayIds
  BY DEF Requests
<1>2. CASE r[1] = "record.start"  BY <1>1, <1>2, StartRecordStep DEF Call
<1>3. CASE r[1] = "record.stop"  BY <1>1, <1>3, StopRecordStep DEF Call
<1>4. CASE r[1] \in {"replay.start", "replay.save", "replay.stop"}  BY <1>1, <1>4, ReplayStep DEF Call
<1>5. CASE Status(answer)
  BY <1>5 DEF Status, IInv, TypeOK, SessionsWrote, OwnFiles, FileIs, BuffersFull, AnnouncedAreWhole
<1> QED  BY <1>2, <1>3, <1>4, <1>5 DEF Call

\* Sessions and files change by calls alone.
LEMMA NextIInv == IInv /\ [Next]_vars => IInv'
<1> SUFFICES ASSUME IInv, [Next]_vars PROVE IInv'  OBVIOUS
<1>1. CASE UNCHANGED recordVars
  BY <1>1 DEF recordVars, IInv, TypeOK, SessionsWrote, OwnFiles, FileIs, BuffersFull, AnnouncedAreWhole
<1>2. CASE HandleMessage
  <2>1. CASE Message \in Requests
    <3>1. PICK answer \in AnswerTypes : Call(Message, answer)  BY <1>2, <2>1 DEF HandleMessage
    <3> QED  BY <2>1, <3>1, CallStep
  <2>2. CASE Message \notin Requests  BY <1>1, <1>2, <2>2 DEF HandleMessage
  <2> QED  BY <2>1, <2>2
<1>3. CASE Greet \/ Receive \/ EndOfClient \/ Heartbeat \/ Client
  BY <1>1, <1>3 DEF Greet, Receive, EndOfClient, HangUp, Heartbeat, Client, Ask, Hear, Leave
<1> QED  BY <1>1, <1>2, <1>3 DEF Next, Host, vars

-----------------------------------------------------------------------------

\* The inductive invariant holds in every reachable state.
THEOREM InductiveInvariant == Spec => []IInv
BY InitIInv, NextIInv, PTL DEF Spec

\* Sessions, files and segments have their types.
THEOREM TypeCorrect == Spec => []TypeOK
<1>1. IInv => TypeOK  BY DEF IInv
<1> QED  BY <1>1, InductiveInvariant, PTL

\* A beginning counts one frame, a whole recording three.
LEMMA FramesOf ==
  ASSUME NEW i
  PROVE  /\ Frames(<<<<i, "head">>>>) = 1 /\ Len(<<<<i, "head">>>>) = 1
         /\ <<<<i, "head">>>>[1] = <<i, "head">>
         /\ Frames(<<<<i, "head">>, <<i, "end">>>>) = 3 /\ Len(<<<<i, "head">>, <<i, "end">>>>) = 2
         /\ <<<<i, "head">>, <<i, "end">>>>[1] = <<i, "head">>
<1> DEFINE Ends(file) == {k \in DOMAIN file : file[k][2] = "end"}
<1>1. ASSUME NEW x, NEW y, x[2] = "head", y[2] = "end"
      PROVE  /\ Frames(<<x>>) = 1 /\ Len(<<x>>) = 1 /\ <<x>>[1] = x
             /\ Frames(<<x, y>>) = 3 /\ Len(<<x, y>>) = 2 /\ <<x, y>>[1] = x
  <2>1. /\ DOMAIN <<x>> = {1} /\ DOMAIN <<x, y>> = {1, 2} /\ Len(<<x>>) = 1 /\ Len(<<x, y>>) = 2
        /\ <<x>>[1] = x /\ <<x, y>>[1] = x /\ <<x, y>>[2] = y
    OBVIOUS
  <2>2. Ends(<<x>>) = {k \in {1} : <<x>>[k][2] = "end"}  BY <2>1
  <2>3. Ends(<<x, y>>) = {k \in {1, 2} : <<x, y>>[k][2] = "end"}  BY <2>1
  <2>4. Ends(<<x>>) = {}  BY <1>1, <2>1, <2>2
  <2>5. Ends(<<x, y>>) = {2}  BY <1>1, <2>1, <2>3
  <2>6. Cardinality(Ends(<<x>>)) = 0 /\ Cardinality(Ends(<<x, y>>)) = 1
    BY <2>4, <2>5, FS_EmptySet, FS_Singleton
  <2> HIDE DEF Ends
  <2>7. Frames(<<x>>) = Len(<<x>>) + Cardinality(Ends(<<x>>))  BY DEF Frames, Ends
  <2>8. Frames(<<x, y>>) = Len(<<x, y>>) + Cardinality(Ends(<<x, y>>))  BY DEF Frames, Ends
  <2> QED  BY <2>1, <2>6, <2>7, <2>8
<1>2. <<i, "head">>[2] = "head" /\ <<i, "end">>[2] = "end"  OBVIOUS
<1> QED  BY <1>1, <1>2

\* A file of one recording holds the frames that its session reports, and one
\* trailer exactly if it was stopped.
THEOREM FilesMatch == Spec => []FilesMatchSessions
<1>1. IInv => FilesMatchSessions
  <2> SUFFICES ASSUME IInv, NEW i \in RecordIds, records[i] # None, writers[records[i].path] = {i}
               PROVE  /\ Frames(files[records[i].path]) = records[i].frames
                      /\ files[records[i].path][1] = <<i, "head">>
                      /\ records[i].running = (Len(files[records[i].path]) = 1)
    BY DEF FilesMatchSessions
  <2>1. FileIs(i) /\ records[i].running \in BOOLEAN  BY DEF IInv, TypeOK, OwnFiles
  <2>2. CASE records[i].running  BY <2>1, <2>2, FramesOf DEF FileIs
  <2>3. CASE ~records[i].running
    <3>1. files[records[i].path] = <<<<i, "head">>, <<i, "end">>>> /\ records[i].frames = 3
      BY <2>1, <2>3 DEF FileIs
    <3> DEFINE file == files[records[i].path]
    <3>2. Frames(file) = 3 /\ Len(file) = 2 /\ file[1] = <<i, "head">>  BY <3>1, FramesOf
    <3>3. records[i].running = (Len(file) = 1)  BY <2>3, <3>2, <2>1
    <3> QED  BY <3>1, <3>2, <3>3
  <2> QED  BY <2>1, <2>2, <2>3
<1> QED  BY <1>1, InductiveInvariant, PTL

\* Every segment that a replay.saved event named is a whole buffer.
THEOREM AnnouncedWhole == Spec => []AnnouncedAreWhole
<1>1. IInv => AnnouncedAreWhole  BY DEF IInv
<1> QED  BY <1>1, InductiveInvariant, PTL

-----------------------------------------------------------------------------
(* Induction over the naturals, in terms of sets, and two recursions       *)

\* The least element of a set of naturals.
LEMMA LeastElement ==
  ASSUME NEW S \in SUBSET Nat, S # {}
  PROVE  \E x \in S : \A y \in S : x <= y
<1> DEFINE R == OpToRel(<, Nat)
<1>1. IsWellFoundedOn(R, Nat)
  BY NatLessThanWellFounded
<1>2. \A x, y \in Nat : x < y => <<x, y>> \in R
  BY DEF R, OpToRel
<1> HIDE DEF R
<1>3. \E x \in S : \A y \in S : ~ (<<y, x>> \in R)
  BY <1>1, WFMin
<1>4. PICK x \in S : \A y \in S : ~ (y < x)
  BY <1>2, <1>3
<1> QED
  BY <1>4

\* What holds of 0 and of every successor holds of every natural number.
LEMMA SetInduction ==
  ASSUME NEW S, S \subseteq Nat, 0 \in S, \A n \in S : n + 1 \in S
  PROVE  Nat \subseteq S
<1> SUFFICES ASSUME Nat \ S # {} PROVE FALSE
  OBVIOUS
<1>1. PICK x \in Nat \ S : \A y \in Nat \ S : x <= y
  BY LeastElement
<1> QED
  BY <1>1

\* The recursion of Shifted is well founded.
LEMMA ShiftedIs ==
  ASSUME NEW n \in Nat, NEW d \in Nat
  PROVE  /\ Shifted(n, d) \in [0..d -> Nat]
         /\ Shifted(n, d)[0] = n
         /\ \A k \in 1..d : Shifted(n, d)[k] = Shifted(n, d)[k - 1] \div Base
<1> DEFINE Solves(f, e) == f = [k \in 0..e |-> IF k = 0 THEN n ELSE f[k - 1] \div Base]
<1> DEFINE S == {e \in Nat : \E f : Solves(f, e)}
<1>1. 0 \in S
  <2>1. Solves([k \in 0..0 |-> n], 0)
    OBVIOUS
  <2> QED
    BY <2>1
<1>2. ASSUME NEW e \in S PROVE e + 1 \in S
  <2>1. PICK f : Solves(f, e)
    OBVIOUS
  <2> DEFINE g == [k \in 0..(e + 1) |-> IF k <= e THEN f[k] ELSE f[e] \div Base]
  <2>2. Solves(g, e + 1)
    <3>1. ASSUME NEW k \in 0..(e + 1) PROVE g[k] = IF k = 0 THEN n ELSE g[k - 1] \div Base
      BY <2>1
    <3> QED
      BY <3>1
  <2> HIDE DEF Solves, g
  <2> QED
    BY <2>2
<1>3. d \in S
  BY <1>1, <1>2, SetInduction
<1>4. Solves(Shifted(n, d), d)
  <2>1. \E f : Solves(f, d)
    BY <1>3
  <2>2. Shifted(n, d) = CHOOSE f : Solves(f, d)
    BY DEF Shifted
  <2> QED
    BY <2>1, <2>2, Zenon
<1>5. ASSUME NEW k \in 0..d PROVE Shifted(n, d)[k] = IF k = 0 THEN n ELSE Shifted(n, d)[k - 1] \div Base
  BY <1>4
<1> HIDE DEF Solves
<1> DEFINE T == {k \in Nat : k <= d => Shifted(n, d)[k] \in Nat}
<1>6. 0 \in T
  BY <1>5
<1>7. ASSUME NEW k \in T PROVE k + 1 \in T
  BY <1>5, WireAssumption
<1>8. \A k \in 0..d : Shifted(n, d)[k] \in Nat
  <2>1. T \subseteq Nat
    OBVIOUS
  <2>2. Nat \subseteq T
    <3> HIDE DEF T
    <3> QED
      BY <1>6, <1>7, <2>1, SetInduction
  <2> QED
    BY <2>2
<1>9. Shifted(n, d) \in [0..d -> Nat]
  BY <1>4, <1>8 DEF Solves
<1> QED
  BY <1>5, <1>9

\* The partial sums of Number.
Sums(digits, d) ==
  CHOOSE upTo : upTo = [k \in 0..d |-> IF k = 0 THEN 0 ELSE upTo[k - 1] * Base + digits[k]]

\* The recursion of Number is well founded.
LEMMA NumberIs ==
  ASSUME NEW d \in Nat, NEW digits \in [1..d -> Nat]
  PROVE  /\ Number(digits, d) = Sums(digits, d)[d]
         /\ Sums(digits, d) \in [0..d -> Nat]
         /\ Sums(digits, d)[0] = 0
         /\ \A k \in 1..d : Sums(digits, d)[k] = Sums(digits, d)[k - 1] * Base + digits[k]
<1> DEFINE Solves(f, e) == f = [k \in 0..e |-> IF k = 0 THEN 0 ELSE f[k - 1] * Base + digits[k]]
<1> DEFINE S == {e \in Nat : \E f : Solves(f, e)}
<1>1. 0 \in S
  <2>1. Solves([k \in 0..0 |-> 0], 0)
    OBVIOUS
  <2> QED
    BY <2>1
<1>2. ASSUME NEW e \in S PROVE e + 1 \in S
  <2>1. PICK f : Solves(f, e)
    OBVIOUS
  <2> DEFINE g == [k \in 0..(e + 1) |-> IF k <= e THEN f[k] ELSE f[e] * Base + digits[e + 1]]
  <2>2. Solves(g, e + 1)
    <3>1. ASSUME NEW k \in 0..(e + 1) PROVE g[k] = IF k = 0 THEN 0 ELSE g[k - 1] * Base + digits[k]
      <4>1. CASE k <= e
        <5>1. g[k] = f[k] /\ (k # 0 => g[k - 1] = f[k - 1])
          BY <4>1
        <5>2. f[k] = IF k = 0 THEN 0 ELSE f[k - 1] * Base + digits[k]
          BY <2>1, <4>1
        <5> HIDE DEF g
        <5> QED
          BY <5>1, <5>2
      <4>2. CASE k = e + 1
        <5>1. g[k] = f[e] * Base + digits[e + 1] /\ g[k - 1] = f[e]
          BY <4>2
        <5> HIDE DEF g
        <5> QED
          BY <4>2, <5>1
      <4> QED
        BY <4>1, <4>2
    <3> QED
      BY <3>1
  <2> HIDE DEF Solves, g
  <2> QED
    BY <2>2
<1>3. d \in S
  BY <1>1, <1>2, SetInduction
<1>4. Solves(Sums(digits, d), d)
  <2>1. \E f : Solves(f, d)
    BY <1>3
  <2>2. Sums(digits, d) = CHOOSE f : Solves(f, d)
    BY DEF Sums
  <2> QED
    BY <2>1, <2>2, Zenon
<1>5. ASSUME NEW k \in 0..d
      PROVE  Sums(digits, d)[k] = IF k = 0 THEN 0 ELSE Sums(digits, d)[k - 1] * Base + digits[k]
  BY <1>4
<1> HIDE DEF Solves
<1> DEFINE T == {k \in Nat : k <= d => Sums(digits, d)[k] \in Nat}
<1>6. 0 \in T
  BY <1>5
<1>7. ASSUME NEW k \in T PROVE k + 1 \in T
  <2> SUFFICES ASSUME k + 1 <= d PROVE Sums(digits, d)[k + 1] \in Nat
    OBVIOUS
  <2>1. Sums(digits, d)[k] \in Nat /\ digits[k + 1] \in Nat /\ Base \in Nat
    BY WireAssumption
  <2>2. Sums(digits, d)[k + 1] = Sums(digits, d)[k] * Base + digits[k + 1]
    BY <1>5
  <2>3. Sums(digits, d)[k] * Base \in Nat
    BY <2>1
  <2> QED
    BY <2>1, <2>2, <2>3
<1>8. \A k \in 0..d : Sums(digits, d)[k] \in Nat
  <2>1. T \subseteq Nat
    OBVIOUS
  <2>2. Nat \subseteq T
    <3> HIDE DEF T
    <3> QED
      BY <1>6, <1>7, <2>1, SetInduction
  <2> QED
    BY <2>2
<1>9. Sums(digits, d) \in [0..d -> Nat]
  BY <1>4, <1>8 DEF Solves
<1>10. Number(digits, d) = Sums(digits, d)[d]
  BY DEF Number, Sums
<1> QED
  BY <1>5, <1>9, <1>10

\* A number that fits into d digits is what its digits make.
LEMMA DigitsMakeNumber ==
  ASSUME NEW n \in Nat, NEW d \in Nat, Shifted(n, d)[d] = 0,
         NEW digits \in [1..d -> Nat], \A k \in 1..d : digits[k] = Digits(n, d)[k].value
  PROVE  Number(digits, d) = n
<1> DEFINE left == Shifted(n, d)
           sums == Sums(digits, d)
<1>1. /\ left \in [0..d -> Nat] /\ left[0] = n
      /\ \A k \in 1..d : left[k] = left[k - 1] \div Base
  BY ShiftedIs
<1>2. /\ Number(digits, d) = sums[d] /\ sums[0] = 0
      /\ \A k \in 1..d : sums[k] = sums[k - 1] * Base + digits[k]
  BY NumberIs
<1>3. \A k \in 1..d : digits[k] = left[d - k] % Base
  BY DEF Digits, HeaderByte
<1>4. \A m \in Nat : ((m \div Base) * Base) + (m % Base) = m
  BY WireAssumption
<1> HIDE DEF left, sums
<1> DEFINE T == {k \in Nat : k <= d => sums[k] = left[d - k]}
<1>5. 0 \in T
  BY <1>2 DEF left
<1>6. ASSUME NEW k \in T PROVE k + 1 \in T
  <2> SUFFICES ASSUME k + 1 <= d PROVE sums[k + 1] = left[d - (k + 1)]
    OBVIOUS
  <2> DEFINE m == left[d - (k + 1)]
  <2>1. k + 1 \in 1..d /\ d - k \in 1..d /\ (d - k) - 1 = d - (k + 1) /\ m \in Nat
    BY <1>1
  <2>2. sums[k + 1] = sums[k] * Base + digits[k + 1]
    BY <1>2, <2>1
  <2>3. sums[k] = m \div Base
    BY <1>1, <2>1
  <2>4. digits[k + 1] = m % Base
    BY <1>3, <2>1
  <2> QED
    BY <1>4, <2>1, <2>2, <2>3, <2>4
<1>7. sums[d] = left[d - d]
  <2>1. T \subseteq Nat
    OBVIOUS
  <2>2. Nat \subseteq T
    <3> HIDE DEF T
    <3> QED
      BY <1>5, <1>6, <2>1, SetInduction
  <2> QED
    BY <2>2
<1> QED
  BY <1>1, <1>2, <1>7

-----------------------------------------------------------------------------
(* Frames in a stream of bytes                                             *)

Messages == [what : Texts, size : Nat]
Byte == [value : Nat, of : Messages \cup {Header}, under : Nat]
Streams == Seq(Byte)

\* The length of a stream and the numbers of its bytes are naturals.
LEMMA StreamTypes ==
  ASSUME NEW s \in Streams
  PROVE  Len(s) \in Nat /\ \A k \in 1..Len(s) : s[k] \in Byte /\ s[k].value \in Nat
<1>1. Len(s) \in Nat /\ \A k \in 1..Len(s) : s[k] \in Byte
  BY LenProperties, ElementOfSeq DEF Streams
<1>2. \A b \in Byte : b.value \in Nat
  BY DEF Byte
<1> QED
  BY <1>1, <1>2

\* n bytes of a stream.
LEMMA Cut ==
  ASSUME NEW s \in Streams, NEW a \in Nat, NEW n \in Nat, a + n <= Len(s)
  PROVE  /\ SubSeq(s, a + 1, a + n) \in Streams /\ Len(SubSeq(s, a + 1, a + n)) = n
         /\ \A k \in 1..n : SubSeq(s, a + 1, a + n)[k] = s[a + k]
<1>1. \A k \in (a + 1)..(a + n) : s[k] \in Byte
  BY StreamTypes
<1>2. /\ SubSeq(s, a + 1, a + n) \in Seq(Byte)
      /\ Len(SubSeq(s, a + 1, a + n)) = IF a + 1 <= a + n THEN (a + n) - (a + 1) + 1 ELSE 0
      /\ \A k \in 1..((a + n) - (a + 1) + 1) : SubSeq(s, a + 1, a + n)[k] = s[(a + 1) + k - 1]
  <2>1. a + 1 \in Int /\ a + n \in Int
    OBVIOUS
  <2> QED
    BY <1>1, <2>1, SubSeqProperties
<1> QED
  BY <1>2 DEF Streams

\* The mark of a frame tells one of three forms, and where its key is.
LEMMA FormTypes ==
  ASSUME NEW s \in Streams, NEW i \in Nat, Len(s) >= i + 2
  PROVE  /\ ExtendedAt(s, i) \in {0, 2, LongDigits} /\ ExtendedAt(s, i) \in Nat
         /\ HeadAt(s, i) \in Nat /\ HeadAt(s, i) >= i + 2 + ExtendedAt(s, i)
         /\ s[i + 2].value % MaskBit \in Nat
<1>1. s[i + 2].value \in Nat /\ MaskBit \in Nat \ {0}
  BY StreamTypes, WireAssumption DEF MaskBit
<1>2. s[i + 2].value % MaskBit \in Nat
  BY <1>1
<1>3. ExtendedAt(s, i) \in {0, 2, LongDigits}
  BY DEF ExtendedAt
<1> QED
  BY <1>2, <1>3, WireAssumption DEF HeadAt

\* The size of a payload is known once the head of the frame is there.
LEMMA SizeTypes ==
  ASSUME NEW s \in Streams, NEW i \in Nat, Len(s) >= i + 2, Len(s) >= HeadAt(s, i)
  PROVE  /\ SizeAt(s, i) \in Nat
         /\ [k \in 1..ExtendedAt(s, i) |-> s[i + 2 + k].value] \in [1..ExtendedAt(s, i) -> Nat]
<1> DEFINE e == ExtendedAt(s, i)
           digits == [k \in 1..e |-> s[i + 2 + k].value]
<1>1. e \in Nat /\ Len(s) \in Nat /\ Len(s) >= i + 2 + e /\ s[i + 2].value % MaskBit \in Nat
  BY FormTypes, StreamTypes
<1>2. digits \in [1..e -> Nat]
  <2> SUFFICES ASSUME NEW k \in 1..e PROVE s[i + 2 + k].value \in Nat
    OBVIOUS
  <2> HIDE DEF e
  <2>1. i + 2 + k \in 1..Len(s)
    BY <1>1
  <2> QED
    BY <2>1, StreamTypes
<1>3. Number(digits, e) \in Nat
  <2> HIDE DEF digits, e
  <2>1. Number(digits, e) = Sums(digits, e)[e] /\ Sums(digits, e) \in [0..e -> Nat]
    BY <1>1, <1>2, NumberIs
  <2> QED
    BY <1>1, <2>1
<1> QED
  BY <1>1, <1>2, <1>3 DEF SizeAt

\* A frame that is whole ends within the stream.
LEMMA FrameEnds ==
  ASSUME NEW s \in Streams, NEW i \in Nat, HasFrameAt(s, i)
  PROVE  /\ Len(s) >= i + 2 /\ Len(s) >= HeadAt(s, i) /\ Len(s) \in Nat
         /\ HeadAt(s, i) \in Nat /\ HeadAt(s, i) >= i + 2 + ExtendedAt(s, i)
         /\ SizeAt(s, i) \in Nat
         /\ EndAt(s, i) = HeadAt(s, i) + SizeAt(s, i)
         /\ EndAt(s, i) \in (i + 2)..Len(s) /\ EndAt(s, i) \in Nat
<1>1. Len(s) >= i + 2 /\ Len(s) >= HeadAt(s, i) /\ Len(s) >= EndAt(s, i) /\ Len(s) \in Nat
  BY StreamTypes DEF HasFrameAt
<1>2. HeadAt(s, i) \in Nat /\ HeadAt(s, i) >= i + 2 + ExtendedAt(s, i) /\ ExtendedAt(s, i) \in Nat
  BY <1>1, FormTypes
<1>3. SizeAt(s, i) \in Nat
  BY <1>1, SizeTypes
<1> QED
  BY <1>1, <1>2, <1>3 DEF EndAt

\* The same frame is in two streams.
SameAt(s, i, t, j) ==
  /\ HasFrameAt(t, j) /\ EndAt(t, j) = j + (EndAt(s, i) - i)
  /\ FrameAt(t, j) = FrameAt(s, i)

\* A frame is made of nothing but its own bytes: the same bytes elsewhere are
\* the same frame.
LEMMA SameFrame ==
  ASSUME NEW s \in Streams, NEW t \in Streams, NEW i \in Nat, NEW j \in Nat, NEW n \in Nat,
         i + n <= Len(s), j + n <= Len(t), \A k \in 1..n : s[i + k] = t[j + k],
         HasFrameAt(s, i), EndAt(s, i) <= i + n
  PROVE  SameAt(s, i, t, j)
<1> DEFINE e == ExtendedAt(s, i)
<1>0. Len(t) \in Nat /\ Len(s) \in Nat
  BY StreamTypes
<1>1. /\ HeadAt(s, i) \in Nat /\ HeadAt(s, i) >= i + 2 + e /\ SizeAt(s, i) \in Nat
      /\ EndAt(s, i) = HeadAt(s, i) + SizeAt(s, i) /\ EndAt(s, i) >= i + 2
      /\ Len(s) >= i + 2 /\ Len(s) >= HeadAt(s, i)
  BY FrameEnds
<1>2. n >= 2 /\ s[i + 1] = t[j + 1] /\ s[i + 2] = t[j + 2] /\ Len(t) >= j + 2
  BY <1>0, <1>1
<1>3. ExtendedAt(t, j) = e /\ e \in Nat
  BY <1>1, <1>2, FormTypes DEF ExtendedAt
<1> HIDE DEF e
<1>4. HeadAt(t, j) = j + (HeadAt(s, i) - i) /\ HeadAt(t, j) \in Nat
  <2> DEFINE m == IF s[i + 2].value < MaskBit THEN 0 ELSE MaskSize
  <2>1. m \in Nat
    BY WireAssumption
  <2>2. HeadAt(s, i) = i + 2 + e + m
    BY DEF HeadAt, e
  <2>3. HeadAt(t, j) = j + 2 + e + m
    BY <1>2, <1>3 DEF HeadAt
  <2> HIDE DEF m
  <2> QED
    BY <1>3, <2>1, <2>2, <2>3
<1>5. Len(t) >= HeadAt(t, j)
  BY <1>0, <1>1, <1>4
<1>6. [k \in 1..e |-> t[j + 2 + k].value] = [k \in 1..e |-> s[i + 2 + k].value]
  <2> SUFFICES ASSUME NEW k \in 1..e PROVE t[j + 2 + k] = s[i + 2 + k]
    OBVIOUS
  <2>1. 2 + k \in 1..n
    BY <1>1, <1>3
  <2>2. s[i + (2 + k)] = t[j + (2 + k)]
    BY <2>1
  <2> QED
    BY <1>3, <2>2
<1>7. SizeAt(t, j) = SizeAt(s, i)
  BY <1>2, <1>3, <1>6 DEF SizeAt, e
<1>8. EndAt(t, j) = j + (EndAt(s, i) - i) /\ HasFrameAt(t, j)
  <2>1. EndAt(t, j) = HeadAt(t, j) + SizeAt(s, i)
    BY <1>7 DEF EndAt
  <2>2. EndAt(t, j) = j + (EndAt(s, i) - i) /\ EndAt(t, j) <= Len(t)
    BY <1>0, <1>1, <1>4, <2>1
  <2> QED
    BY <1>2, <1>5, <2>2 DEF HasFrameAt
<1>9. KeyAt(t, j) = KeyAt(s, i)
  <2>1. CASE s[i + 2].value < MaskBit
    BY <2>1, <1>2 DEF KeyAt
  <2>2. CASE ~(s[i + 2].value < MaskBit)
    <3>1. [k \in 1..MaskSize |-> t[j + 2 + e + k].value] = [k \in 1..MaskSize |-> s[i + 2 + e + k].value]
      <4> SUFFICES ASSUME NEW k \in 1..MaskSize PROVE t[j + 2 + e + k] = s[i + 2 + e + k]
        OBVIOUS
      <4>1. HeadAt(s, i) = i + 2 + e + MaskSize
        BY <2>2 DEF HeadAt, e
      <4>2. 2 + e + k \in 1..n
        BY <1>1, <1>3, <4>1, WireAssumption
      <4>3. s[i + (2 + e + k)] = t[j + (2 + e + k)]
        BY <4>2
      <4> QED
        BY <1>3, <4>3
    <3> QED
      BY <2>2, <3>1, <1>2, <1>3 DEF KeyAt, e
  <2> QED
    BY <2>1, <2>2
<1>10. SubSeq(t, HeadAt(t, j) + 1, EndAt(t, j)) = SubSeq(s, HeadAt(s, i) + 1, EndAt(s, i))
  <2> DEFINE x == SubSeq(s, HeadAt(s, i) + 1, EndAt(s, i))
             y == SubSeq(t, HeadAt(t, j) + 1, EndAt(t, j))
  <2>1. /\ x \in Streams /\ Len(x) = SizeAt(s, i)
        /\ \A k \in 1..Len(x) : x[k] = s[HeadAt(s, i) + k]
    <3>1. HeadAt(s, i) + SizeAt(s, i) <= Len(s) /\ HeadAt(s, i) \in Nat /\ SizeAt(s, i) \in Nat
      BY FrameEnds
    <3>2. x = SubSeq(s, HeadAt(s, i) + 1, HeadAt(s, i) + SizeAt(s, i))
      BY <1>1
    <3> HIDE DEF x
    <3>3. /\ x \in Streams /\ Len(x) = SizeAt(s, i)
          /\ \A k \in 1..SizeAt(s, i) : x[k] = s[HeadAt(s, i) + k]
      BY <3>1, <3>2, Cut, Zenon
    <3> QED
      BY <3>3
  <2>2. /\ y \in Streams /\ Len(y) = SizeAt(s, i)
        /\ \A k \in 1..Len(y) : y[k] = t[HeadAt(t, j) + k]
    <3>1. /\ EndAt(t, j) = HeadAt(t, j) + SizeAt(s, i) /\ HeadAt(t, j) + SizeAt(s, i) <= Len(t)
          /\ HeadAt(t, j) \in Nat /\ SizeAt(s, i) \in Nat
      BY <1>7, <1>8, FrameEnds
    <3>2. y = SubSeq(t, HeadAt(t, j) + 1, HeadAt(t, j) + SizeAt(s, i))
      BY <3>1
    <3> HIDE DEF y
    <3>3. /\ y \in Streams /\ Len(y) = SizeAt(s, i)
          /\ \A k \in 1..SizeAt(s, i) : y[k] = t[HeadAt(t, j) + k]
      BY <3>1, <3>2, Cut, Zenon
    <3> QED
      BY <3>3
  <2> HIDE DEF x, y
  <2>3. ASSUME NEW k \in 1..Len(x) PROVE x[k] = y[k]
    <3> DEFINE h == HeadAt(s, i) - i
    <3>1. h + k \in 1..n
      <4>1. h \in Nat /\ h + SizeAt(s, i) <= n /\ k \in 1..SizeAt(s, i) /\ SizeAt(s, i) \in Nat
        BY <1>1, <1>3, <2>1
      <4> HIDE DEF h
      <4> QED
        BY <4>1
    <3>2. s[i + (h + k)] = t[j + (h + k)]
      BY <3>1
    <3>3. i + (h + k) = HeadAt(s, i) + k /\ j + (h + k) = HeadAt(t, j) + k
      BY <1>1, <1>4, <2>1
    <3> QED
      BY <2>1, <2>2, <3>2, <3>3
  <2>4. x = y
    BY <2>1, <2>2, <2>3, SeqEqual DEF Streams
  <2> QED
    BY <2>4 DEF x, y
<1>11. PayloadAt(t, j) = PayloadAt(s, i)
  BY <1>9, <1>10 DEF PayloadAt
<1> QED
  BY <1>2, <1>3, <1>8, <1>11 DEF FrameAt, SameAt, e

\* The bytes of two streams, one after the other.
LEMMA JoinedStreams ==
  ASSUME NEW a \in Streams, NEW b \in Streams
  PROVE  /\ a \o b \in Streams /\ Len(a \o b) = Len(a) + Len(b)
         /\ \A k \in 1..Len(a) : (a \o b)[k] = a[k]
         /\ \A k \in 1..Len(b) : (a \o b)[Len(a) + k] = b[k]
BY ConcatProperties DEF Streams

\* A frame of the first of two streams is one of both together.
LEMMA FrameOfPrefix ==
  ASSUME NEW a \in Streams, NEW b \in Streams, NEW i \in 0..Len(a), HasFrameAt(a, i)
  PROVE  /\ HasFrameAt(a \o b, i) /\ EndAt(a \o b, i) = EndAt(a, i)
         /\ FrameAt(a \o b, i) = FrameAt(a, i)
<1> DEFINE n == Len(a) - i
<1>1. i \in Nat /\ n \in Nat /\ i + n = Len(a) /\ Len(b) \in Nat
  BY StreamTypes
<1>2. a \o b \in Streams /\ Len(a \o b) = Len(a) + Len(b) /\ \A k \in 1..n : a[i + k] = (a \o b)[i + k]
  BY <1>1, JoinedStreams
<1>3. EndAt(a, i) <= Len(a) /\ EndAt(a, i) \in Nat
  BY <1>1, FrameEnds
<1> HIDE DEF n
<1>4. i + n <= Len(a) /\ i + n <= Len(a \o b) /\ EndAt(a, i) <= i + n
  BY <1>1, <1>2, <1>3
<1>5. /\ HasFrameAt(a \o b, i) /\ EndAt(a \o b, i) = i + (EndAt(a, i) - i)
      /\ FrameAt(a \o b, i) = FrameAt(a, i)
  <2>1. SameAt(a, i, a \o b, i)
    BY <1>1, <1>2, <1>4, SameFrame, Zenon
  <2> QED
    BY <2>1 DEF SameAt
<1> QED
  BY <1>1, <1>3, <1>5

\* The frames of the second of two streams are those of both, further on.
LEMMA FrameOfSuffix ==
  ASSUME NEW a \in Streams, NEW b \in Streams, NEW j \in 0..Len(b)
  PROVE  /\ HasFrameAt(a \o b, Len(a) + j) <=> HasFrameAt(b, j)
         /\ HasFrameAt(b, j) => /\ EndAt(a \o b, Len(a) + j) = Len(a) + EndAt(b, j)
                                /\ FrameAt(a \o b, Len(a) + j) = FrameAt(b, j)
<1> DEFINE i == Len(a) + j
           n == Len(b) - j
           s == a \o b
<1>1. /\ i \in Nat /\ j \in Nat /\ n \in Nat /\ i + n = Len(s) /\ j + n = Len(b) /\ s \in Streams
      /\ Len(a) \in Nat
  <2>1. Len(a) \in Nat /\ Len(b) \in Nat
    BY StreamTypes
  <2>2. s \in Streams /\ Len(s) = Len(a) + Len(b)
    BY JoinedStreams
  <2> HIDE DEF s
  <2> QED
    BY <2>1, <2>2
<1>2. \A k \in 1..n : s[i + k] = b[j + k]
  <2> SUFFICES ASSUME NEW k \in 1..n PROVE s[i + k] = b[j + k]
    OBVIOUS
  <2>1. j + k \in 1..Len(b) /\ i + k = Len(a) + (j + k)
    BY <1>1
  <2>2. s[Len(a) + (j + k)] = b[j + k]
    BY <2>1, JoinedStreams
  <2> QED
    BY <2>1, <2>2
<1> HIDE DEF n, s
<1>3. ASSUME HasFrameAt(b, j)
      PROVE  HasFrameAt(s, i) /\ EndAt(s, i) = Len(a) + EndAt(b, j) /\ FrameAt(s, i) = FrameAt(b, j)
  <2>1. EndAt(b, j) \in Nat /\ EndAt(b, j) <= j + n
    BY <1>1, <1>3, FrameEnds
  <2> HIDE DEF i
  <2>3. i + n <= Len(s) /\ j + n <= Len(b)
    BY <1>1, StreamTypes
  <2>2. HasFrameAt(s, i) /\ EndAt(s, i) = i + (EndAt(b, j) - j) /\ FrameAt(s, i) = FrameAt(b, j)
    <3>1. SameAt(b, j, s, i)
      BY <1>1, <1>2, <1>3, <2>1, <2>3, SameFrame, Zenon
    <3> QED
      BY <3>1 DEF SameAt
  <2> QED
    BY <1>1, <2>1, <2>2 DEF i
<1>4. ASSUME HasFrameAt(s, i) PROVE HasFrameAt(b, j)
  <2> HIDE DEF i
  <2>1. EndAt(s, i) \in Nat /\ EndAt(s, i) <= i + n
    BY <1>1, <1>4, FrameEnds
  <2>2. i + n <= Len(s) /\ j + n <= Len(b)
    BY <1>1, StreamTypes
  <2>3. \A k \in 1..n : b[j + k] = s[i + k]
    BY <1>2
  <2> QED
    <3>1. SameAt(s, i, b, j)
      BY <1>1, <1>4, <2>1, <2>2, <2>3, SameFrame, Zenon
    <3> QED
      BY <3>1 DEF SameAt
<1> QED
  BY <1>3, <1>4 DEF s

\* A mask leaves bytes bytes.
LEMMA MaskedTypes ==
  ASSUME NEW s \in Streams, NEW key \in [1..MaskSize -> Nat]
  PROVE  MaskedWith(s, key) \in Streams /\ Len(MaskedWith(s, key)) = Len(s)
<1>1. ASSUME NEW b \in Byte, NEW k \in Nat PROVE Masked(b, k) \in Byte
  BY WireAssumption DEF Masked, Byte
<1>2. ASSUME NEW k \in 1..Len(s) PROVE key[1 + ((k - 1) % MaskSize)] \in Nat
  <2>1. (k - 1) % MaskSize \in 0..(MaskSize - 1)
    BY StreamTypes, WireAssumption
  <2>2. 1 + ((k - 1) % MaskSize) \in 1..MaskSize
    BY <2>1, WireAssumption
  <2> QED
    BY <2>2
<1>3. \A k \in 1..Len(s) : Masked(s[k], key[1 + ((k - 1) % MaskSize)]) \in Byte
  BY <1>1, <1>2, StreamTypes
<1>4. Len(s) \in Nat /\ MaskedWith(s, key) = [k \in 1..Len(s) |-> Masked(s[k], key[1 + ((k - 1) % MaskSize)])]
  BY StreamTypes DEF MaskedWith
<1>5. MaskedWith(s, key) \in Seq(Byte)
  BY <1>3, <1>4, IsASeq
<1>6. DOMAIN MaskedWith(s, key) = 1..Len(s)
  BY <1>4
<1>7. Len(MaskedWith(s, key)) = Len(s)
  BY <1>4, <1>5, <1>6, LenProperties
<1> QED
  BY <1>5, <1>7 DEF Streams

FrameSet == [opcode : Nat, flags : Nat, extended : Nat, payload : Streams]

\* Frames appended in two goes are the frames appended in one.
LEMMA Regrouped ==
  \A left, middle, right \in Seq(FrameSet) : left \o (middle \o right) = (left \o middle) \o right
<1> TAKE left, middle, right \in Seq(FrameSet)
<1> QED
  BY ConcatAssociative

\* The two parts of a first byte.
LEMMA Quotients ==
  /\ \A v \in Nat : v % Opcodes \in Nat /\ v \div Opcodes \in Nat
  /\ (FinBit + Text) % Opcodes = Text /\ (FinBit + Text) \div Opcodes = FinBit \div Opcodes
BY DEF Opcodes, FinBit, Text

\* What a frame is made of.
LEMMA FrameTypes ==
  ASSUME NEW s \in Streams, NEW i \in Nat, HasFrameAt(s, i)
  PROVE  FrameAt(s, i) \in FrameSet
<1> DEFINE h == HeadAt(s, i)
           n == SizeAt(s, i)
           bytes == SubSeq(s, HeadAt(s, i) + 1, EndAt(s, i))
<1>1. /\ h \in Nat /\ n \in Nat /\ EndAt(s, i) = h + n /\ h + n <= Len(s)
      /\ Len(s) >= i + 2 /\ Len(s) >= h /\ h >= i + 2 + ExtendedAt(s, i)
  BY FrameEnds
<1>2. s[i + 1].value \in Nat /\ ExtendedAt(s, i) \in Nat
  BY <1>1, StreamTypes, FormTypes
<1>6. s[i + 1].value % Opcodes \in Nat /\ s[i + 1].value \div Opcodes \in Nat
  BY <1>2, Quotients
<1>3. bytes \in Streams
  <2>1. bytes = SubSeq(s, h + 1, h + n)
    BY <1>1
  <2> HIDE DEF bytes, h, n
  <2> QED
    BY <1>1, <2>1, Cut, Zenon
<1>4. CASE s[i + 2].value < MaskBit
  <2>1. PayloadAt(s, i) = bytes
    BY <1>4 DEF PayloadAt, KeyAt
  <2> HIDE DEF bytes
  <2> QED
    BY <1>2, <1>3, <1>6, <2>1 DEF FrameAt, FrameSet
<1>5. CASE ~(s[i + 2].value < MaskBit)
  <2> DEFINE e == ExtendedAt(s, i)
             key == [k \in 1..MaskSize |-> s[i + 2 + e + k].value]
  <2>1. KeyAt(s, i) = key
    BY <1>5 DEF KeyAt
  <2>2. key \in [1..MaskSize -> Nat]
    <3> SUFFICES ASSUME NEW k \in 1..MaskSize PROVE s[i + 2 + e + k].value \in Nat
      OBVIOUS
    <3>1. h = i + 2 + e + MaskSize
      BY <1>5 DEF HeadAt
    <3>2. i + 2 + e + k \in 1..Len(s)
      BY <1>1, <1>2, <3>1, StreamTypes, WireAssumption
    <3> QED
      BY <3>2, StreamTypes
  <2>3. key # <<>>
    <3>1. 1 \in DOMAIN key
      BY WireAssumption
    <3> QED
      BY <3>1
  <2>4. PayloadAt(s, i) = MaskedWith(bytes, key)
    BY <2>1, <2>3 DEF PayloadAt
  <2> HIDE DEF key, bytes, e
  <2>5. MaskedWith(bytes, key) \in Streams
    BY <1>3, <2>2, MaskedTypes
  <2> QED
    BY <1>2, <1>6, <2>4, <2>5 DEF FrameAt, FrameSet
<1> QED
  BY <1>4, <1>5

\* The recursion of FramesFrom is well founded: a frame ends behind its beginning.
LEMMA FramesFromIs ==
  ASSUME NEW s \in Streams
  PROVE  \A i \in 0..Len(s) :
           FramesFrom(s)[i] = IF HasFrameAt(s, i)
                              THEN <<FrameAt(s, i)>> \o FramesFrom(s)[EndAt(s, i)] ELSE <<>>
<1> DEFINE L == Len(s)
           Whole_(i) == HasFrameAt(s, i)
           First(i) == <<FrameAt(s, i)>>
           Next_(i) == EndAt(s, i)
           Solves(f, n) ==
             f = [i \in (L - n)..L |-> IF Whole_(i) THEN First(i) \o f[Next_(i)] ELSE <<>>]
           S == {n \in Nat : n <= L => \E f : Solves(f, n)}
<1>1. L \in Nat
  BY StreamTypes
<1>2. \A i \in 0..L : Whole_(i) => Next_(i) \in (i + 2)..L
  BY <1>1, FrameEnds
<1>3. \E f : f = [i \in 0..L |-> IF Whole_(i) THEN First(i) \o f[Next_(i)] ELSE <<>>]
  <2> HIDE DEF L, Whole_, First, Next_
  <2>1. 0 \in S
    <3>1. ~Whole_(L)
      BY <1>1, <1>2
    <3>2. Solves([i \in (L - 0)..L |-> <<>>], 0)
      BY <1>1, <3>1
    <3> HIDE DEF Solves
    <3> QED
      BY <3>2
  <2>2. ASSUME NEW n \in S PROVE n + 1 \in S
    <3> SUFFICES ASSUME n + 1 <= L PROVE \E f : Solves(f, n + 1)
      OBVIOUS
    <3>1. PICK f : Solves(f, n)
      BY <1>1
    <3> DEFINE b == L - (n + 1)
               x == IF Whole_(b) THEN First(b) \o f[Next_(b)] ELSE <<>>
               g == [i \in b..L |-> IF i = b THEN x ELSE f[i]]
    <3>2. ASSUME NEW i \in b..L
          PROVE  g[i] = IF Whole_(i) THEN First(i) \o g[Next_(i)] ELSE <<>>
      <4>1. /\ b \in Nat /\ i \in 0..L /\ (i # b => i \in (L - n)..L)
            /\ (Whole_(i) => Next_(i) \in (L - n)..L /\ Next_(i) \in b..L /\ Next_(i) # b)
        BY <1>1, <1>2
      <4>2. \A j \in (L - n)..L : f[j] = IF Whole_(j) THEN First(j) \o f[Next_(j)] ELSE <<>>
        BY <3>1
      <4>3. Whole_(i) => g[Next_(i)] = f[Next_(i)]
        BY <4>1
      <4>4. CASE i = b
        BY <4>3, <4>4
      <4>5. CASE i # b
        BY <4>1, <4>2, <4>3, <4>5
      <4> QED
        BY <4>4, <4>5
    <3>3. Solves(g, n + 1)
      BY <3>2
    <3> HIDE DEF Solves, g
    <3> QED
      BY <3>3
  <2>3. S \subseteq Nat
    OBVIOUS
  <2>4. L \in S
    <3> HIDE DEF S
    <3> QED
      BY <1>1, <2>1, <2>2, <2>3, SetInduction
  <2>5. PICK f : Solves(f, L)
    BY <1>1, <2>4
  <2> QED
    BY <1>1, <2>5
<1>4. FramesFrom(s) = CHOOSE f : f = [i \in 0..L |-> IF Whole_(i) THEN First(i) \o f[Next_(i)] ELSE <<>>]
  BY DEF FramesFrom
<1> HIDE DEF L, Whole_, First, Next_
<1>5. FramesFrom(s) = [i \in 0..L |-> IF Whole_(i) THEN First(i) \o FramesFrom(s)[Next_(i)] ELSE <<>>]
  BY <1>3, <1>4, Zenon
<1>6. \A i \in 0..L : FramesFrom(s)[i] = IF Whole_(i) THEN First(i) \o FramesFrom(s)[Next_(i)] ELSE <<>>
  BY <1>5
<1> QED
  BY <1>6 DEF L, Whole_, First, Next_

\* The two cases of the recursion.
LEMMA FramesFromCases ==
  ASSUME NEW s \in Streams, NEW i \in 0..Len(s)
  PROVE  /\ HasFrameAt(s, i) => /\ FramesFrom(s)[i] = <<FrameAt(s, i)>> \o FramesFrom(s)[EndAt(s, i)]
                                /\ EndAt(s, i) \in (i + 2)..Len(s)
         /\ ~HasFrameAt(s, i) => FramesFrom(s)[i] = <<>>
         /\ ~HasFrameAt(s, Len(s))
<1>1. ~HasFrameAt(s, Len(s))
  BY StreamTypes, FrameEnds
<1>2. HasFrameAt(s, i) => EndAt(s, i) \in (i + 2)..Len(s)
  BY StreamTypes, FrameEnds
<1> QED
  BY <1>1, <1>2, FramesFromIs

\* The frames of a stream are a sequence, from wherever they are read.
LEMMA FramesTypes ==
  ASSUME NEW s \in Streams
  PROVE  \A i \in 0..Len(s) : FramesFrom(s)[i] \in Seq(FrameSet)
<1> DEFINE L == Len(s)
           S == {n \in Nat : \A i \in 0..L : L - i <= n => FramesFrom(s)[i] \in Seq(FrameSet)}
<1>1. L \in Nat /\ <<>> \in Seq(FrameSet)
  BY StreamTypes
<1>2. 0 \in S
  <2> SUFFICES ASSUME NEW i \in 0..L, L - i <= 0 PROVE FramesFrom(s)[i] \in Seq(FrameSet)
    OBVIOUS
  <2>1. i = L
    BY <1>1
  <2>2. FramesFrom(s)[i] = <<>>
    BY <2>1, FramesFromCases
  <2> QED
    BY <1>1, <2>2
<1>3. ASSUME NEW n \in S PROVE n + 1 \in S
  <2> SUFFICES ASSUME NEW i \in 0..L, L - i <= n + 1 PROVE FramesFrom(s)[i] \in Seq(FrameSet)
    OBVIOUS
  <2>1. CASE HasFrameAt(s, i)
    <3>1. /\ FramesFrom(s)[i] = <<FrameAt(s, i)>> \o FramesFrom(s)[EndAt(s, i)]
          /\ EndAt(s, i) \in (i + 2)..L
      BY <2>1, FramesFromCases
    <3>2. EndAt(s, i) \in 0..L /\ L - EndAt(s, i) <= n
      BY <1>1, <3>1
    <3>3. FramesFrom(s)[EndAt(s, i)] \in Seq(FrameSet)
      BY <3>2
    <3>4. FrameAt(s, i) \in FrameSet
      BY <2>1, FrameTypes
    <3>5. <<FrameAt(s, i)>> \in Seq(FrameSet)
      BY <3>4
    <3> HIDE DEF S
    <3> QED
      BY <3>1, <3>3, <3>5, ConcatProperties
  <2>2. CASE ~HasFrameAt(s, i)
    <3>1. FramesFrom(s)[i] = <<>>
      BY <2>2, FramesFromCases
    <3> QED
      BY <1>1, <3>1
  <2> QED
    BY <2>1, <2>2
<1>4. L \in S
  <2>1. S \subseteq Nat
    OBVIOUS
  <2> HIDE DEF S
  <2> QED
    BY <1>1, <1>2, <1>3, <2>1, SetInduction
<1> QED
  BY <1>1, <1>4

\* Reading on in the second of two streams.
LEMMA FramesOfSuffix ==
  ASSUME NEW a \in Streams, NEW b \in Streams
  PROVE  \A j \in 0..Len(b) : FramesFrom(a \o b)[Len(a) + j] = FramesFrom(b)[j]
<1> DEFINE L == Len(b)
           S == {n \in Nat : \A j \in 0..L :
                   L - j <= n => FramesFrom(a \o b)[Len(a) + j] = FramesFrom(b)[j]}
<1>1. L \in Nat /\ Len(a) \in Nat /\ a \o b \in Streams /\ Len(a \o b) = Len(a) + L
  BY StreamTypes, JoinedStreams
<1>2. ASSUME NEW j \in 0..L, ~HasFrameAt(b, j)
      PROVE  FramesFrom(a \o b)[Len(a) + j] = FramesFrom(b)[j]
  <2>1. ~HasFrameAt(a \o b, Len(a) + j)
    BY <1>2, FrameOfSuffix
  <2>2. Len(a) + j \in 0..Len(a \o b)
    BY <1>1
  <2>3. FramesFrom(a \o b)[Len(a) + j] = <<>>
    BY <1>1, <2>1, <2>2, FramesFromCases, Zenon
  <2>4. FramesFrom(b)[j] = <<>>
    BY <1>2, FramesFromCases
  <2> QED
    BY <2>3, <2>4
<1>3. 0 \in S
  <2> SUFFICES ASSUME NEW j \in 0..L, L - j <= 0
               PROVE  FramesFrom(a \o b)[Len(a) + j] = FramesFrom(b)[j]
    OBVIOUS
  <2>1. j = L
    BY <1>1
  <2>2. ~HasFrameAt(b, j)
    BY <2>1, FramesFromCases
  <2> QED
    BY <1>2, <2>2
<1>4. ASSUME NEW n \in S PROVE n + 1 \in S
  <2> SUFFICES ASSUME NEW j \in 0..L, L - j <= n + 1
               PROVE  FramesFrom(a \o b)[Len(a) + j] = FramesFrom(b)[j]
    OBVIOUS
  <2>1. CASE HasFrameAt(b, j)
    <3> DEFINE e == EndAt(b, j)
    <3>1. FramesFrom(b)[j] = <<FrameAt(b, j)>> \o FramesFrom(b)[e] /\ e \in (j + 2)..L
      BY <2>1, FramesFromCases
    <3>2. /\ HasFrameAt(a \o b, Len(a) + j) /\ EndAt(a \o b, Len(a) + j) = Len(a) + e
          /\ FrameAt(a \o b, Len(a) + j) = FrameAt(b, j)
      BY <2>1, FrameOfSuffix
    <3>3. Len(a) + j \in 0..Len(a \o b)
      BY <1>1
    <3>4. FramesFrom(a \o b)[Len(a) + j]
            = <<FrameAt(a \o b, Len(a) + j)>> \o FramesFrom(a \o b)[EndAt(a \o b, Len(a) + j)]
      BY <1>1, <3>2, <3>3, FramesFromCases, Zenon
    <3>5. e \in 0..L /\ L - e <= n
      BY <1>1, <3>1
    <3>6. FramesFrom(a \o b)[Len(a) + e] = FramesFrom(b)[e]
      BY <3>5
    <3> HIDE DEF S, e
    <3> QED
      BY <3>1, <3>2, <3>4, <3>6, Zenon
  <2>2. CASE ~HasFrameAt(b, j)
    BY <1>2, <2>2
  <2> QED
    BY <2>1, <2>2
<1>5. L \in S
  <2>1. S \subseteq Nat
    OBVIOUS
  <2> HIDE DEF S
  <2> QED
    BY <1>1, <1>3, <1>4, <2>1, SetInduction
<1> QED
  BY <1>1, <1>5

-----------------------------------------------------------------------------
(* Streams that are made of whole frames                                   *)

\* A set with the beginning of a stream that has the end of each of its frames.
Closed(s, P) == 0 \in P /\ \A i \in P : HasFrameAt(s, i) => EndAt(s, i) \in P

\* Reading one frame after the other reaches the end.
Framed(s) == \A P \in SUBSET (0..Len(s)) : Closed(s, P) => Len(s) \in P

OneFrame(s) == HasFrameAt(s, 0) /\ EndAt(s, 0) = Len(s)

\* Nothing, and a frame alone.
LEMMA FramedBase ==
  /\ Framed(<<>>)
  /\ \A s \in Streams : OneFrame(s) => Framed(s)
<1>1. Len(<<>>) = 0
  OBVIOUS
<1>2. Framed(<<>>)
  BY <1>1, Zenon DEF Framed, Closed
<1>3. ASSUME NEW s \in Streams, OneFrame(s) PROVE Framed(s)
  BY <1>3, Zenon DEF Framed, OneFrame, Closed
<1> QED
  BY <1>2, <1>3

\* Whole frames stay whole when others follow.
LEMMA FramedJoin ==
  ASSUME NEW a \in Streams, NEW b \in Streams, Framed(a), Framed(b)
  PROVE  Framed(a \o b)
<1> SUFFICES ASSUME NEW P \in SUBSET (0..Len(a \o b)), Closed(a \o b, P) PROVE Len(a \o b) \in P
  BY DEF Framed
<1> DEFINE A == {i \in 0..Len(a) : i \in P}
           B == {j \in 0..Len(b) : Len(a) + j \in P}
<1>0. Len(a) \in Nat /\ Len(b) \in Nat /\ Len(a \o b) = Len(a) + Len(b) /\ a \o b \in Streams
  BY StreamTypes, JoinedStreams
<1>1. Closed(a, A)
  <2>1. 0 \in A
    BY <1>0 DEF Closed
  <2>2. ASSUME NEW i \in A, HasFrameAt(a, i) PROVE EndAt(a, i) \in A
    <3>1. EndAt(a, i) \in (i + 2)..Len(a)
      BY <2>2, <1>0, FrameEnds
    <3>2. HasFrameAt(a \o b, i) /\ EndAt(a \o b, i) = EndAt(a, i)
      BY <2>2, FrameOfPrefix
    <3>3. EndAt(a, i) \in P
      BY <2>2, <3>2 DEF Closed
    <3> QED
      BY <1>0, <3>1, <3>3
  <2> QED
    BY <2>1, <2>2 DEF Closed
<1>2. Len(a) \in P
  BY <1>1 DEF Framed
<1>3. Closed(b, B)
  <2>1. 0 \in B
    BY <1>0, <1>2
  <2>2. ASSUME NEW j \in B, HasFrameAt(b, j) PROVE EndAt(b, j) \in B
    <3>1. EndAt(b, j) \in (j + 2)..Len(b)
      BY <2>2, <1>0, FrameEnds
    <3>2. HasFrameAt(a \o b, Len(a) + j) /\ EndAt(a \o b, Len(a) + j) = Len(a) + EndAt(b, j)
      BY <2>2, FrameOfSuffix
    <3>3. Len(a) + EndAt(b, j) \in P
      BY <2>2, <3>2 DEF Closed
    <3> QED
      BY <1>0, <3>1, <3>3
  <2> QED
    BY <2>1, <2>2 DEF Closed
<1>4. Len(b) \in B
  BY <1>3 DEF Framed
<1> QED
  BY <1>0, <1>4

\* Whole frames stay whole when the first is taken away.
LEMMA FramedRest ==
  ASSUME NEW f \in Streams, NEW s \in Streams, OneFrame(f), Framed(f \o s)
  PROVE  Framed(s)
<1> SUFFICES ASSUME NEW P \in SUBSET (0..Len(s)), Closed(s, P) PROVE Len(s) \in P
  BY DEF Framed
<1> DEFINE Q == {0} \cup {i \in Len(f)..Len(f \o s) : i - Len(f) \in P}
<1>0. /\ Len(f) \in Nat /\ Len(s) \in Nat /\ Len(f \o s) = Len(f) + Len(s) /\ f \o s \in Streams
      /\ Len(f) >= 2
  BY StreamTypes, JoinedStreams, FrameEnds DEF OneFrame
<1>1. Q \in SUBSET (0..Len(f \o s))
  BY <1>0
<1>2. Closed(f \o s, Q)
  <2>1. HasFrameAt(f \o s, 0) /\ EndAt(f \o s, 0) = Len(f)
    BY <1>0, FrameOfPrefix DEF OneFrame
  <2>2. Len(f) \in Q
    BY <1>0 DEF Closed
  <2>3. ASSUME NEW i \in Len(f)..Len(f \o s), i - Len(f) \in P, HasFrameAt(f \o s, i)
        PROVE  EndAt(f \o s, i) \in Q
    <3> DEFINE j == i - Len(f)
    <3>1. j \in 0..Len(s) /\ i = Len(f) + j
      BY <1>0
    <3>2. HasFrameAt(s, j) /\ EndAt(f \o s, i) = Len(f) + EndAt(s, j)
      <4>1. HasFrameAt(f \o s, Len(f) + j)
        BY <2>3, <3>1
      <4> HIDE DEF j
      <4> QED
        BY <3>1, <4>1, FrameOfSuffix
    <3>3. EndAt(s, j) \in P
      BY <2>3, <3>2 DEF Closed
    <3>4. EndAt(s, j) \in 0..Len(s)
      BY <3>3
    <3> HIDE DEF j
    <3> QED
      BY <1>0, <3>2, <3>3, <3>4
  <2> QED
    BY <2>1, <2>2, <2>3 DEF Closed
<1>3. Len(f \o s) \in Q
  BY <1>1, <1>2 DEF Framed
<1> QED
  BY <1>0, <1>3

\* A stream of whole frames begins with one.
LEMMA FramedFirst ==
  ASSUME NEW s \in Streams, Framed(s), s # <<>>
  PROVE  HasFrameAt(s, 0)
<1> SUFFICES ASSUME ~HasFrameAt(s, 0) PROVE FALSE
  OBVIOUS
<1>1. Len(s) \in Nat /\ Len(s) # 0
  BY StreamTypes, EmptySeq DEF Streams
<1>2. {0} \in SUBSET (0..Len(s)) /\ Closed(s, {0})
  BY <1>1 DEF Closed
<1> QED
  BY <1>1, <1>2 DEF Framed

\* The first frame of a stream, and the rest.
LEMMA SplitFirst ==
  ASSUME NEW s \in Streams, HasFrameAt(s, 0)
  PROVE  \E f, r \in Streams :
           /\ s = f \o r /\ OneFrame(f) /\ r = SubSeq(s, EndAt(s, 0) + 1, Len(s))
           /\ FrameAt(f, 0) = FrameAt(s, 0)
<1> DEFINE e == EndAt(s, 0)
           n == Len(s) - e
           f == SubSeq(s, 1, e)
           r == SubSeq(s, e + 1, Len(s))
<1>1. e \in 2..Len(s) /\ Len(s) \in Nat /\ e \in Nat /\ n \in Nat /\ e + n = Len(s)
  BY FrameEnds
<1>2. f \in Streams /\ Len(f) = e /\ \A k \in 1..e : f[k] = s[k]
  <2>1. /\ SubSeq(s, 0 + 1, 0 + e) \in Streams /\ Len(SubSeq(s, 0 + 1, 0 + e)) = e
        /\ \A k \in 1..e : SubSeq(s, 0 + 1, 0 + e)[k] = s[0 + k]
    <3>1. 0 \in Nat /\ 0 + e <= Len(s)
      BY <1>1
    <3> HIDE DEF e
    <3> QED
      BY <1>1, <3>1, Cut, Zenon
  <2> HIDE DEF e
  <2> QED
    BY <1>1, <2>1
<1>3. r \in Streams /\ Len(r) = n /\ \A k \in 1..n : r[k] = s[e + k]
  <2>1. e + n <= Len(s) /\ r = SubSeq(s, e + 1, e + n)
    BY <1>1
  <2> HIDE DEF r, e, n
  <2> QED
    BY <1>1, <2>1, Cut, Zenon
<1>4. s = f \o r
  <2> HIDE DEF f, r
  <2>1. f \o r \in Streams /\ Len(f \o r) = Len(s)
    BY <1>1, <1>2, <1>3, JoinedStreams
  <2>2. ASSUME NEW k \in 1..Len(s) PROVE s[k] = (f \o r)[k]
    <3>1. CASE k <= e
      <4>1. k \in 1..Len(f)
        BY <1>1, <1>2, <3>1
      <4>2. (f \o r)[k] = f[k]
        BY <1>2, <1>3, <4>1, JoinedStreams
      <4> QED
        BY <1>2, <4>1, <4>2
    <3>2. CASE k > e
      <4>1. k - e \in 1..n /\ e + (k - e) = k
        BY <1>1, <3>2
      <4> DEFINE j == k - e
      <4>2. j \in 1..n /\ e + j = k /\ Len(f) + j = k
        BY <1>2, <4>1
      <4> HIDE DEF j, e, n
      <4>3. (f \o r)[Len(f) + j] = r[j]
        BY <1>2, <1>3, <4>2, JoinedStreams
      <4>4. r[j] = s[e + j]
        BY <1>3, <4>2
      <4>5. (f \o r)[Len(f) + j] = (f \o r)[k] /\ s[e + j] = s[k]
        BY <4>2
      <4> QED
        BY <4>3, <4>4, <4>5
    <3>3. k <= e \/ k > e
      BY <1>1
    <3> QED
      BY <3>1, <3>2, <3>3, Zenon
  <2> QED
    BY <2>1, <2>2, SeqEqual DEF Streams
<1>5. SameAt(s, 0, f, 0)
  <2>1. /\ 0 \in Nat /\ 0 + e <= Len(s) /\ 0 + e <= Len(f) /\ EndAt(s, 0) <= 0 + e
        /\ \A k \in 1..e : s[0 + k] = f[0 + k]
    BY <1>1, <1>2
  <2> HIDE DEF f, e
  <2> QED
    BY <1>1, <1>2, <2>1, SameFrame, Zenon
<1>6. OneFrame(f) /\ FrameAt(f, 0) = FrameAt(s, 0)
  BY <1>1, <1>2, <1>5 DEF SameAt, OneFrame
<1> HIDE DEF f, r
<1> QED
  BY <1>2, <1>3, <1>4, <1>6 DEF r

\* The frames of two streams, the first of whole frames, are read one by one.
LEMMA FramesJoin ==
  ASSUME NEW a \in Streams, NEW b \in Streams, Framed(a)
  PROVE  FramesIn(a \o b) = FramesIn(a) \o FramesIn(b)
<1> DEFINE P == {i \in 0..Len(a) : \E p \in Seq(FrameSet) :
                   /\ FramesIn(a) = p \o FramesFrom(a)[i]
                   /\ FramesIn(a \o b) = p \o FramesFrom(a \o b)[i]}
<1>0. /\ Len(a) \in Nat /\ Len(b) \in Nat /\ Len(a \o b) = Len(a) + Len(b) /\ a \o b \in Streams
      /\ <<>> \in Seq(FrameSet)
  BY StreamTypes, JoinedStreams
<1>1. 0 \in P
  <2>1. FramesFrom(a)[0] \in Seq(FrameSet) /\ FramesFrom(a \o b)[0] \in Seq(FrameSet)
    BY <1>0, FramesTypes
  <2>2. FramesIn(a) = <<>> \o FramesFrom(a)[0] /\ FramesIn(a \o b) = <<>> \o FramesFrom(a \o b)[0]
    BY <2>1, ConcatEmptySeq, Zenon DEF FramesIn
  <2>3. 0 \in 0..Len(a)
    BY <1>0
  <2> QED
    BY <1>0, <2>2, <2>3, Zenon
<1>2. ASSUME NEW i \in P, HasFrameAt(a, i) PROVE EndAt(a, i) \in P
  <2>1. PICK p \in Seq(FrameSet) :
          /\ FramesIn(a) = p \o FramesFrom(a)[i]
          /\ FramesIn(a \o b) = p \o FramesFrom(a \o b)[i]
    OBVIOUS
  <2> DEFINE e == EndAt(a, i)
             x == <<FrameAt(a, i)>>
  <2>2. FramesFrom(a)[i] = x \o FramesFrom(a)[e] /\ e \in (i + 2)..Len(a)
    BY <1>2, FramesFromCases
  <2>3. HasFrameAt(a \o b, i) /\ EndAt(a \o b, i) = e /\ FrameAt(a \o b, i) = FrameAt(a, i)
    BY <1>2, FrameOfPrefix
  <2>4. i \in 0..Len(a \o b) /\ e \in 0..Len(a) /\ e \in 0..Len(a \o b)
    BY <1>0, <2>2
  <2>5. FramesFrom(a \o b)[i] = x \o FramesFrom(a \o b)[e]
    BY <1>0, <2>3, <2>4, FramesFromCases, Zenon
  <2>6. x \in Seq(FrameSet)
    <3>1. FrameAt(a, i) \in FrameSet
      BY <1>2, FrameTypes
    <3> QED
      BY <3>1
  <2>7. FramesFrom(a)[e] \in Seq(FrameSet) /\ FramesFrom(a \o b)[e] \in Seq(FrameSet)
    BY <1>0, <2>4, FramesTypes
  <2> HIDE DEF x, e
  <2>8. p \o x \in Seq(FrameSet)
    BY <2>6, ConcatProperties
  <2>9. /\ FramesIn(a) = (p \o x) \o FramesFrom(a)[e]
        /\ FramesIn(a \o b) = (p \o x) \o FramesFrom(a \o b)[e]
    <3>1. ASSUME NEW y \in Seq(FrameSet) PROVE p \o (x \o y) = (p \o x) \o y
      <4>1. p \in Seq(FrameSet) /\ x \in Seq(FrameSet) /\ y \in Seq(FrameSet)
        BY <2>6
      <4> QED
        BY <4>1, Regrouped, Zenon
    <3> QED
      BY <2>1, <2>2, <2>5, <2>7, <3>1, Zenon
  <2>10. e \in P
    BY <2>4, <2>8, <2>9, Zenon
  <2> QED
    BY <2>10 DEF e
<1>3. Len(a) \in P
  <2>1. P \in SUBSET (0..Len(a))
    OBVIOUS
  <2> HIDE DEF P
  <2> QED
    BY <1>1, <1>2, <2>1, Zenon DEF Framed, Closed
<1>4. PICK p \in Seq(FrameSet) :
        /\ FramesIn(a) = p \o FramesFrom(a)[Len(a)]
        /\ FramesIn(a \o b) = p \o FramesFrom(a \o b)[Len(a)]
  BY <1>3
<1>5. FramesFrom(a)[Len(a)] = <<>>
  <2>1. Len(a) \in 0..Len(a)
    BY <1>0
  <2> QED
    BY <2>1, FramesFromCases, Zenon
<1>6. FramesFrom(a \o b)[Len(a)] = FramesIn(b)
  BY <1>0, FramesOfSuffix DEF FramesIn
<1>7. FramesIn(a) = p
  BY <1>4, <1>5, ConcatEmptySeq
<1> QED
  BY <1>4, <1>6, <1>7

\* What a stream has lost at its end takes away the last of its frames.
LEMMA FramesOfPrefix ==
  ASSUME NEW a \in Streams, NEW b \in Streams
  PROVE  \E r \in Seq(FrameSet) : FramesIn(a \o b) = FramesIn(a) \o r
<1> DEFINE L == Len(a)
           S == {n \in Nat : \A i \in 0..L : L - i <= n =>
                   \E r \in Seq(FrameSet) : FramesFrom(a \o b)[i] = FramesFrom(a)[i] \o r}
<1>0. /\ L \in Nat /\ Len(b) \in Nat /\ Len(a \o b) = Len(a) + Len(b) /\ a \o b \in Streams
  BY StreamTypes, JoinedStreams
<1>1. ASSUME NEW i \in 0..L, ~HasFrameAt(a, i)
      PROVE  \E r \in Seq(FrameSet) : FramesFrom(a \o b)[i] = FramesFrom(a)[i] \o r
  <2>1. FramesFrom(a)[i] = <<>>
    BY <1>1, FramesFromCases
  <2>2. FramesFrom(a \o b)[i] \in Seq(FrameSet)
    <3>1. i \in 0..Len(a \o b)
      BY <1>0
    <3> QED
      BY <1>0, <3>1, FramesTypes, Zenon
  <2>3. FramesFrom(a \o b)[i] = <<>> \o FramesFrom(a \o b)[i]
    BY <2>2, ConcatEmptySeq
  <2> QED
    BY <2>1, <2>2, <2>3
<1>2. 0 \in S
  <2> SUFFICES ASSUME NEW i \in 0..L, L - i <= 0
               PROVE  \E r \in Seq(FrameSet) : FramesFrom(a \o b)[i] = FramesFrom(a)[i] \o r
    OBVIOUS
  <2>1. i = L
    BY <1>0
  <2> QED
    BY <1>1, <2>1, FramesFromCases
<1>3. ASSUME NEW n \in S PROVE n + 1 \in S
  <2> SUFFICES ASSUME NEW i \in 0..L, L - i <= n + 1
               PROVE  \E r \in Seq(FrameSet) : FramesFrom(a \o b)[i] = FramesFrom(a)[i] \o r
    OBVIOUS
  <2>1. CASE HasFrameAt(a, i)
    <3> DEFINE e == EndAt(a, i)
               x == <<FrameAt(a, i)>>
    <3>1. FramesFrom(a)[i] = x \o FramesFrom(a)[e] /\ e \in (i + 2)..L
      BY <2>1, FramesFromCases
    <3>2. HasFrameAt(a \o b, i) /\ EndAt(a \o b, i) = e /\ FrameAt(a \o b, i) = FrameAt(a, i)
      BY <2>1, FrameOfPrefix
    <3>3. i \in 0..Len(a \o b) /\ e \in 0..L /\ L - e <= n
      BY <1>0, <3>1
    <3>4. FramesFrom(a \o b)[i] = x \o FramesFrom(a \o b)[e]
      BY <1>0, <3>2, <3>3, FramesFromCases, Zenon
    <3>5. PICK r \in Seq(FrameSet) : FramesFrom(a \o b)[e] = FramesFrom(a)[e] \o r
      BY <3>3
    <3>6. x \in Seq(FrameSet)
      <4>1. FrameAt(a, i) \in FrameSet
        BY <2>1, FrameTypes
      <4> QED
        BY <4>1
    <3>7. FramesFrom(a)[e] \in Seq(FrameSet)
      BY <3>3, FramesTypes
    <3> HIDE DEF x, e
    <3>8. FramesFrom(a \o b)[i] = FramesFrom(a)[i] \o r
      <4>1. ASSUME NEW y \in Seq(FrameSet) PROVE x \o (y \o r) = (x \o y) \o r
        <5>1. x \in Seq(FrameSet) /\ y \in Seq(FrameSet) /\ r \in Seq(FrameSet)
          BY <3>6
        <5> QED
          BY <5>1, Regrouped, Zenon
      <4> QED
        BY <3>1, <3>4, <3>5, <3>7, <4>1, Zenon
    <3> QED
      BY <3>8
  <2>2. CASE ~HasFrameAt(a, i)
    BY <1>1, <2>2
  <2> QED
    BY <2>1, <2>2
<1>4. L \in S
  <2>1. S \subseteq Nat
    OBVIOUS
  <2> HIDE DEF S
  <2> QED
    BY <1>0, <1>2, <1>3, <2>1, SetInduction
<1>5. 0 \in 0..L /\ L - 0 <= L
  BY <1>0
<1>6. \E r \in Seq(FrameSet) : FramesFrom(a \o b)[0] = FramesFrom(a)[0] \o r
  BY <1>4, <1>5
<1> QED
  BY <1>6, Zenon DEF FramesIn

\* One frame, and none.
LEMMA FramesOfOne ==
  /\ FramesIn(<<>>) = <<>>
  /\ \A f \in Streams : OneFrame(f) => FramesIn(f) = <<FrameAt(f, 0)>>
<1>1. <<>> \in Streams /\ Len(<<>>) = 0
  BY DEF Streams
<1>2. FramesIn(<<>>) = <<>>
  <2>1. 0 \in 0..Len(<<>>) /\ ~HasFrameAt(<<>>, 0)
    <3>1. 0 \in 0..Len(<<>>)
      BY <1>1
    <3>2. ~HasFrameAt(<<>>, Len(<<>>))
      BY <1>1, <3>1, FramesFromCases, Zenon
    <3> QED
      BY <1>1, <3>1, <3>2, Zenon
  <2> QED
    BY <1>1, <2>1, FramesFromCases, Zenon DEF FramesIn
<1>3. ASSUME NEW f \in Streams, OneFrame(f) PROVE FramesIn(f) = <<FrameAt(f, 0)>>
  <2>1. Len(f) \in Nat
    BY StreamTypes
  <2>2. FramesFrom(f)[0] = <<FrameAt(f, 0)>> \o FramesFrom(f)[Len(f)]
    BY <1>3, <2>1, FramesFromCases DEF OneFrame
  <2>3. FramesFrom(f)[Len(f)] = <<>>
    <3>1. Len(f) \in 0..Len(f)
      BY <2>1
    <3> QED
      BY <3>1, FramesFromCases, Zenon
  <2>4. <<FrameAt(f, 0)>> \in Seq(FrameSet)
    <3>1. FrameAt(f, 0) \in FrameSet
      BY <1>3, FrameTypes DEF OneFrame
    <3> QED
      BY <3>1
  <2> QED
    BY <2>2, <2>3, <2>4, ConcatEmptySeq DEF FramesIn
<1> QED
  BY <1>2, <1>3

-----------------------------------------------------------------------------
(* The frames that the two sides write                                     *)

\* A length that the longest form holds.
Fits(n) == n \in Nat /\ Shifted(n, LongDigits)[LongDigits] = 0

\* The three forms of a length: the bytes that follow the mark, and the mark.
FormOf(n, extended, mark) ==
  \/ n < Plain /\ extended = 0 /\ mark = n
  \/ n >= Plain /\ n < Base * Base /\ extended = 2 /\ mark = Plain
  \/ n >= Plain /\ n >= Base * Base /\ extended = LongDigits /\ mark = Plain + 1

\* Adding a divisor does not change a remainder.
LEMMA Remainder ==
  ASSUME NEW b \in Nat \ {0}, NEW m \in 0..(b - 1)
  PROVE  m % b = m /\ (m + b) % b = m
<1>1. m % b = m
  OBVIOUS
<1>2. (m + b) % b = m
  OBVIOUS
<1> QED
  BY <1>1, <1>2

\* A number below the square of the base has two digits.
LEMMA TwoDigits ==
  ASSUME NEW n \in Nat, n < Base * Base
  PROVE  Shifted(n, 2)[2] = 0
<1> DEFINE left == Shifted(n, 2)
<1>1. left[0] = n /\ left[1] = left[0] \div Base /\ left[2] = left[1] \div Base
  <2>1. left[0] = n /\ \A k \in 1..2 : left[k] = left[k - 1] \div Base
    <3>1. 2 \in Nat
      OBVIOUS
    <3> QED
      BY <3>1, ShiftedIs, Zenon
  <2> HIDE DEF left
  <2> QED
    BY <2>1
<1> HIDE DEF left
<1>2. Base \in Nat \ {0}
  BY WireAssumption
<1>3. n \div Base \in Nat /\ n \div Base < Base
  BY <1>2
<1>4. (n \div Base) \div Base = 0
  BY <1>2, <1>3
<1> QED
  BY <1>1, <1>4 DEF left

KeysFor(masked) == IF masked THEN MaskSize ELSE 0

\* A frame with a payload of n bytes is made by the rules.
MadeBy(f, n, extended, mark, masked) ==
  /\ Len(f) = 2 + extended + KeysFor(masked) + n
  /\ f[2].value = IF masked THEN mark + MaskBit ELSE mark
  /\ \A k \in 1..extended : f[2 + k].value = Digits(n, extended)[k].value

\* It is one frame, with these fields.
ReadAs(f, extended, masked) ==
  /\ OneFrame(f) /\ ExtendedAt(f, 0) = extended /\ HeadAt(f, 0) = 2 + extended + KeysFor(masked)
  /\ f[2].value < MaskBit <=> ~masked

\* A frame that is made by the rules is read as one frame, with its fields.
LEMMA MadeFrame ==
  ASSUME NEW f \in Streams, NEW n, Fits(n), NEW extended, NEW mark, FormOf(n, extended, mark),
         NEW masked \in BOOLEAN, MadeBy(f, n, extended, mark, masked)
  PROVE  ReadAs(f, extended, masked)
<1> DEFINE keys == KeysFor(masked)
<1>0. /\ keys = IF masked THEN MaskSize ELSE 0
      /\ Len(f) = 2 + extended + keys + n
      /\ f[2].value = IF masked THEN mark + MaskBit ELSE mark
      /\ \A k \in 1..extended : f[2 + k].value = Digits(n, extended)[k].value
  BY DEF MadeBy, KeysFor
<1> HIDE DEF keys
<1>1. /\ n \in Nat /\ extended \in Nat /\ keys \in Nat /\ MaskBit \in Nat \ {0} /\ Len(f) \in Nat
      /\ mark \in 0..(MaskBit - 1) /\ extended \in {0, 2, LongDigits}
  BY <1>0, WireAssumption DEF Fits, FormOf, MaskBit
<1>2. f[2].value % MaskBit = mark /\ (f[2].value < MaskBit <=> ~masked)
  <2>1. mark % MaskBit = mark /\ (mark + MaskBit) % MaskBit = mark
    BY <1>1, Remainder
  <2>2. CASE masked
    <3>1. f[2].value = mark + MaskBit
      BY <1>0, <2>2
    <3> QED
      BY <1>1, <2>1, <2>2, <3>1
  <2>3. CASE ~masked
    <3>1. f[2].value = mark
      BY <1>0, <2>3
    <3> QED
      BY <1>1, <2>1, <2>3, <3>1
  <2> QED
    BY <2>2, <2>3
<1>3. f[0 + 2].value = f[2].value
  OBVIOUS
<1>4. ExtendedAt(f, 0) = extended
  BY <1>1, <1>2, <1>3, WireAssumption DEF ExtendedAt, FormOf
<1>5. HeadAt(f, 0) = 2 + extended + keys
  <2>1. HeadAt(f, 0) = 0 + 2 + extended + (IF f[2].value < MaskBit THEN 0 ELSE MaskSize)
    BY <1>3, <1>4 DEF HeadAt
  <2>2. (IF f[2].value < MaskBit THEN 0 ELSE MaskSize) = keys
    BY <1>0, <1>2
  <2> QED
    BY <1>1, <2>1, <2>2
<1>6. SizeAt(f, 0) = n
  <2>1. CASE extended = 0
    BY <2>1, <1>1, <1>2, <1>3, <1>4, WireAssumption DEF SizeAt, FormOf
  <2>2. CASE extended # 0
    <3> DEFINE digits == [k \in 1..extended |-> f[0 + 2 + k].value]
    <3>1. SizeAt(f, 0) = Number(digits, extended)
      BY <2>2, <1>4 DEF SizeAt
    <3>2. Shifted(n, extended)[extended] = 0
      BY <2>2, TwoDigits DEF FormOf, Fits
    <3>3. digits \in [1..extended -> Nat]
      <4>1. Len(f) >= 0 + 2 /\ Len(f) >= HeadAt(f, 0)
        BY <1>0, <1>1, <1>5
      <4> QED
        BY <4>1, <1>4, SizeTypes
    <3>4. \A k \in 1..extended : digits[k] = Digits(n, extended)[k].value
      BY <1>0
    <3> HIDE DEF digits
    <3> QED
      BY <1>1, <3>1, <3>2, <3>3, <3>4, DigitsMakeNumber
  <2> QED
    BY <2>1, <2>2
<1>7. OneFrame(f)
  <2>1. EndAt(f, 0) = Len(f) /\ Len(f) >= 0 + 2 /\ Len(f) >= HeadAt(f, 0)
    BY <1>0, <1>1, <1>5, <1>6 DEF EndAt
  <2> QED
    BY <2>1, <1>1 DEF OneFrame, HasFrameAt
<1> QED
  BY <1>2, <1>4, <1>5, <1>7 DEF ReadAs, keys

\* The second of two streams, taken from both.
LEMMA TailOfJoin ==
  ASSUME NEW a \in Streams, NEW b \in Streams
  PROVE  SubSeq(a \o b, Len(a) + 1, Len(a \o b)) = b
<1> DEFINE x == SubSeq(a \o b, Len(a) + 1, Len(a) + Len(b))
<1>1. Len(a) \in Nat /\ Len(b) \in Nat /\ a \o b \in Streams /\ Len(a \o b) = Len(a) + Len(b)
  BY StreamTypes, JoinedStreams
<1>2. Len(a) + Len(b) <= Len(a \o b)
  BY <1>1
<1>3. x \in Streams /\ Len(x) = Len(b) /\ \A k \in 1..Len(b) : x[k] = (a \o b)[Len(a) + k]
  BY <1>1, <1>2, Cut, Zenon
<1>4. \A k \in 1..Len(b) : x[k] = b[k]
  BY <1>3, JoinedStreams
<1> HIDE DEF x
<1>5. x = b
  BY <1>3, <1>4, SeqEqual DEF Streams
<1> QED
  BY <1>1, <1>5 DEF x

\* The bytes that frames are made of.
LEMMA PieceTypes ==
  /\ \A v \in Nat : HeaderByte(v) \in Byte /\ HeaderByte(v).value = v
  /\ \A n, d \in Nat : Digits(n, d) \in Streams /\ Len(Digits(n, d)) = d
  /\ \A m \in Messages : Payload(m) \in Streams /\ Len(Payload(m)) = m.size
  /\ \A v, w \in Nat : <<HeaderByte(v)>> \in Streams /\ <<HeaderByte(v), HeaderByte(w)>> \in Streams
<1>1. ASSUME NEW v \in Nat PROVE HeaderByte(v) \in Byte /\ HeaderByte(v).value = v
  BY DEF HeaderByte, Byte
<1>2. ASSUME NEW n \in Nat, NEW d \in Nat PROVE Digits(n, d) \in Streams /\ Len(Digits(n, d)) = d
  <2>1. ASSUME NEW k \in 1..d PROVE HeaderByte(Shifted(n, d)[d - k] % Base) \in Byte
    <3>1. Shifted(n, d)[d - k] \in Nat
      <4>1. d - k \in 0..d
        OBVIOUS
      <4> QED
        BY <4>1, ShiftedIs
    <3>2. Shifted(n, d)[d - k] % Base \in Nat
      BY <3>1, WireAssumption
    <3> QED
      BY <1>1, <3>2
  <2>2. Digits(n, d) = [k \in 1..d |-> HeaderByte(Shifted(n, d)[d - k] % Base)]
    BY DEF Digits
  <2>3. Digits(n, d) \in Seq(Byte)
    BY <2>1, <2>2, IsASeq
  <2>4. DOMAIN Digits(n, d) = 1..d
    BY <2>2
  <2> QED
    BY <2>3, <2>4, LenProperties DEF Streams
<1>3. ASSUME NEW m \in Messages PROVE Payload(m) \in Streams /\ Len(Payload(m)) = m.size
  <2>1. m.size \in Nat /\ \A k \in 1..m.size : [value |-> k, of |-> m, under |-> 0] \in Byte
    BY DEF Messages, Byte
  <2>2. Payload(m) = [k \in 1..m.size |-> [value |-> k, of |-> m, under |-> 0]]
    BY DEF Payload
  <2>3. Payload(m) \in Seq(Byte)
    BY <2>1, <2>2, IsASeq
  <2>4. DOMAIN Payload(m) = 1..m.size
    BY <2>2
  <2> QED
    BY <2>1, <2>3, <2>4, LenProperties DEF Streams
<1>4. ASSUME NEW v \in Nat, NEW w \in Nat
      PROVE  <<HeaderByte(v)>> \in Streams /\ <<HeaderByte(v), HeaderByte(w)>> \in Streams
  BY <1>1 DEF Streams
<1> QED
  BY <1>1, <1>2, <1>3, <1>4

\* The mark of the form that a length takes.
MarkFor(n) == IF n < Plain THEN n ELSE IF n < Base * Base THEN Plain ELSE Plain + 1

\* Both sides choose the same form.
LEMMA FormChosen ==
  ASSUME NEW n, Fits(n)
  PROVE  /\ FormOf(n, ExtendedFor(n), MarkFor(n)) /\ ExtendedFor(n) \in Nat /\ MarkFor(n) \in Nat
         /\ LengthBytes(n) = <<HeaderByte(MarkFor(n))>> \o Digits(n, ExtendedFor(n))
<1>1. n \in Nat /\ Base * Base \in Nat
  BY WireAssumption DEF Fits
<1>2. FormOf(n, ExtendedFor(n), MarkFor(n)) /\ ExtendedFor(n) \in Nat /\ MarkFor(n) \in Nat
  BY <1>1, WireAssumption DEF FormOf, ExtendedFor, MarkFor
<1>3. CASE n < Plain
  <2>1. Digits(n, 0) = <<>>
    <3>1. Digits(n, 0) \in Streams /\ Len(Digits(n, 0)) = 0
      BY <1>1, PieceTypes
    <3> QED
      BY <3>1, EmptySeq DEF Streams
  <2>2. <<HeaderByte(n)>> \in Streams
    BY <1>1, PieceTypes
  <2>3. <<HeaderByte(n)>> \o <<>> = <<HeaderByte(n)>>
    BY <2>2, ConcatEmptySeq DEF Streams
  <2>4. MarkFor(n) = n /\ ExtendedFor(n) = 0 /\ LengthBytes(n) = <<HeaderByte(n)>>
    BY <1>3 DEF MarkFor, ExtendedFor, LengthBytes
  <2> QED
    BY <1>2, <2>1, <2>3, <2>4, Zenon
<1>4. CASE ~(n < Plain)
  BY <1>2, <1>4 DEF MarkFor, ExtendedFor, LengthBytes
<1> QED
  BY <1>3, <1>4

\* The first bytes of a frame with a payload of n bytes.
HeadOf(h, n, e, mark, masked) ==
  /\ Len(h) = 2 + e
  /\ h[2].value = IF masked THEN mark + MaskBit ELSE mark
  /\ \A k \in 1..e : h[2 + k] = Digits(n, e)[k]

\* A frame is read as these parts.
PartsOf(f, e, masked, h, c, q) ==
  /\ f \in Streams /\ ReadAs(f, e, masked) /\ f[1] = h[1]
  /\ SubSeq(f, HeadAt(f, 0) + 1, EndAt(f, 0)) = q
  /\ \A k \in 1..KeysFor(masked) : f[2 + e + k] = c[k]

\* A head, the bytes of a key and a payload make one frame.
LEMMA AssembledFrame ==
  ASSUME NEW n, Fits(n), NEW e, NEW mark, FormOf(n, e, mark), NEW masked \in BOOLEAN,
         NEW h \in Streams, HeadOf(h, n, e, mark, masked),
         NEW c \in Streams, Len(c) = KeysFor(masked), NEW q \in Streams, Len(q) = n,
         NEW f, f = (h \o c) \o q
  PROVE  PartsOf(f, e, masked, h, c, q)
<1>0. /\ Len(h) = 2 + e
      /\ h[2].value = IF masked THEN mark + MaskBit ELSE mark
      /\ \A k \in 1..e : h[2 + k] = Digits(n, e)[k]
  BY DEF HeadOf
<1> DEFINE hc == h \o c
           z == KeysFor(masked)
<1>1. n \in Nat /\ e \in Nat /\ z \in Nat
  BY WireAssumption DEF Fits, FormOf, KeysFor
<1>2. /\ hc \in Streams /\ Len(hc) = Len(h) + Len(c)
      /\ (\A k \in 1..Len(h) : hc[k] = h[k]) /\ \A k \in 1..Len(c) : hc[Len(h) + k] = c[k]
  BY JoinedStreams, Zenon
<1>3. /\ hc \o q \in Streams /\ Len(hc \o q) = Len(hc) + Len(q)
      /\ \A k \in 1..Len(hc) : (hc \o q)[k] = hc[k]
  BY <1>2, JoinedStreams, Zenon
<1>4. SubSeq(hc \o q, Len(hc) + 1, Len(hc \o q)) = q
  BY <1>2, TailOfJoin, Zenon
<1>5. f = hc \o q
  OBVIOUS
<1> HIDE DEF hc, z
<1>6. f \in Streams /\ Len(f) = 2 + e + z + n /\ Len(hc) = 2 + e + z /\ \A k \in 1..Len(hc) : f[k] = hc[k]
  <2>1. f \in Streams /\ Len(f) = Len(hc) + Len(q) /\ \A k \in 1..Len(hc) : f[k] = hc[k]
    BY <1>3, <1>5, Zenon
  <2>2. Len(h) = 2 + e /\ Len(c) = z /\ Len(q) = n
    BY <1>0 DEF z
  <2> QED
    BY <1>1, <1>2, <2>1, <2>2
<1>7. \A k \in 1..(2 + e) : f[k] = h[k]
  <2> SUFFICES ASSUME NEW k \in 1..(2 + e) PROVE f[k] = h[k]
    OBVIOUS
  <2>1. k \in 1..Len(h) /\ k \in 1..Len(hc)
    BY <1>0, <1>1, <1>6
  <2> QED
    BY <1>2, <1>6, <2>1
<1>8. \A k \in 1..z : f[2 + e + k] = c[k]
  <2> SUFFICES ASSUME NEW k \in 1..z PROVE f[2 + e + k] = c[k]
    OBVIOUS
  <2>1. k \in 1..Len(c) /\ Len(h) + k = 2 + e + k /\ 2 + e + k \in 1..Len(hc)
    BY <1>0, <1>1, <1>6 DEF z
  <2>2. hc[2 + e + k] = c[k]
    BY <1>2, <2>1
  <2>3. f[2 + e + k] = hc[2 + e + k]
    BY <1>6, <2>1
  <2> QED
    BY <2>2, <2>3
<1>9. MadeBy(f, n, e, mark, masked)
  <2>1. 2 \in 1..(2 + e) /\ \A k \in 1..e : 2 + k \in 1..(2 + e)
    BY <1>1
  <2>2. f[2] = h[2] /\ \A k \in 1..e : f[2 + k] = Digits(n, e)[k]
    BY <1>0, <1>7, <2>1
  <2>3. Len(f) = 2 + e + KeysFor(masked) + n
    BY <1>6 DEF z
  <2> QED
    BY <1>0, <2>2, <2>3 DEF MadeBy
<1>10. ReadAs(f, e, masked)
  BY <1>6, <1>9, MadeFrame
<1>11. SubSeq(f, HeadAt(f, 0) + 1, EndAt(f, 0)) = q
  <2>1. HeadAt(f, 0) = Len(hc) /\ EndAt(f, 0) = Len(f)
    BY <1>6, <1>10 DEF ReadAs, OneFrame, z
  <2> QED
    BY <1>4, <1>5, <2>1, Zenon
<1>12. f[1] = h[1]
  <2>1. 1 \in 1..(2 + e)
    BY <1>1
  <2> QED
    BY <1>7, <2>1
<1> QED
  BY <1>6, <1>8, <1>10, <1>11, <1>12 DEF z, PartsOf

\* Without a key the payload is what was sent.
LEMMA UnmaskedFrame ==
  ASSUME NEW m \in Messages, Fits(m.size), NEW h \in Streams,
         Len(h) = 2 + ExtendedFor(m.size), h[2].value = MarkFor(m.size),
         \A k \in 1..ExtendedFor(m.size) : h[2 + k] = Digits(m.size, ExtendedFor(m.size))[k],
         NEW f, f = h \o Payload(m)
  PROVE  f \in Streams /\ OneFrame(f) /\ FrameAt(f, 0).payload = Payload(m) /\ f[1] = h[1]
<1> DEFINE n == m.size
           e == ExtendedFor(n)
           mark == MarkFor(n)
           q == Payload(m)
<1>1. FormOf(n, e, mark) /\ Fits(n)
  BY FormChosen
<1>2. q \in Streams /\ Len(q) = n
  BY PieceTypes
<1>3. <<>> \in Streams /\ Len(<<>>) = KeysFor(FALSE) /\ h \o <<>> = h
  BY ConcatEmptySeq DEF Streams, KeysFor
<1>4. f = (h \o <<>>) \o q
  BY <1>3
<1>5. h[2].value = IF FALSE THEN mark + MaskBit ELSE mark
  OBVIOUS
<1> HIDE DEF n, e, mark, q
<1>6. /\ f \in Streams /\ ReadAs(f, e, FALSE) /\ f[1] = h[1]
      /\ SubSeq(f, HeadAt(f, 0) + 1, EndAt(f, 0)) = q
  <2> DEFINE c == <<>>
  <2>1. c \in Streams /\ Len(c) = KeysFor(FALSE) /\ f = (h \o c) \o q
    BY <1>3, <1>4
  <2>2. HeadOf(h, n, e, mark, FALSE)
    BY <1>5 DEF n, e, HeadOf
  <2>3. FALSE \in BOOLEAN
    OBVIOUS
  <2> HIDE DEF c
  <2>4. PartsOf(f, e, FALSE, h, c, q)
    BY <1>1, <1>2, <2>1, <2>2, <2>3, AssembledFrame, Zenon
  <2> QED
    BY <2>4 DEF PartsOf
<1>7. KeyAt(f, 0) = <<>>
  <2>1. f[0 + 2] = f[2]
    OBVIOUS
  <2> QED
    BY <1>6, <2>1 DEF KeyAt, ReadAs
<1>8. PayloadAt(f, 0) = q
  BY <1>6, <1>7 DEF PayloadAt
<1> QED
  BY <1>6, <1>8 DEF FrameAt, ReadAs, q

\* What send_text_frame writes is read as one frame with the message it was
\* given.
LEMMA TextFrameIs ==
  ASSUME NEW m \in Messages, Fits(m.size)
  PROVE  /\ TextFrame(m) \in Streams /\ OneFrame(TextFrame(m))
         /\ FrameAt(TextFrame(m), 0).payload = Payload(m)
         /\ TextFrame(m)[1].value = FinBit + Text
<1> DEFINE n == m.size
           e == ExtendedFor(n)
           mark == MarkFor(n)
           a == <<HeaderByte(FinBit + Text)>>
           b == <<HeaderByte(mark)>>
           d == Digits(n, e)
           h == a \o (b \o d)
<1>1. /\ n \in Nat /\ e \in Nat /\ mark \in Nat /\ Fits(n) /\ LengthBytes(n) = b \o d
  BY FormChosen DEF Fits
<1>2. TextFrame(m) = h \o Payload(m)
  BY <1>1 DEF TextFrame
<1>3. /\ a \in Streams /\ Len(a) = 1 /\ b \in Streams /\ Len(b) = 1 /\ b[1].value = mark
      /\ d \in Streams /\ Len(d) = e /\ a[1].value = FinBit + Text
  <2>1. FinBit + Text \in Nat
    BY DEF Text, FinBit
  <2>2. a \in Streams /\ b \in Streams /\ d \in Streams /\ Len(d) = e
    BY <1>1, <2>1, PieceTypes
  <2>3. HeaderByte(mark).value = mark /\ HeaderByte(FinBit + Text).value = FinBit + Text
    BY <1>1, <2>1, PieceTypes
  <2> QED
    BY <2>2, <2>3
<1> HIDE DEF n, e, mark, a, b, d
<1>4. b \o d \in Streams /\ Len(b \o d) = 1 + e /\ (b \o d)[1] = b[1] /\ \A k \in 1..e : (b \o d)[1 + k] = d[k]
  <2> DEFINE bd == b \o d
  <2>1. /\ bd \in Streams /\ Len(bd) = Len(b) + Len(d)
        /\ (\A k \in 1..Len(b) : bd[k] = b[k]) /\ \A k \in 1..Len(d) : bd[Len(b) + k] = d[k]
    BY <1>3, JoinedStreams, Zenon
  <2> HIDE DEF bd
  <2>2. bd \in Streams /\ Len(bd) = 1 + e /\ bd[1] = b[1] /\ \A k \in 1..e : bd[1 + k] = d[k]
    BY <1>3, <2>1
  <2> QED
    BY <2>2 DEF bd
<1>5. /\ h \in Streams /\ Len(h) = 2 + e /\ h[1] = a[1] /\ h[2].value = mark
      /\ \A k \in 1..e : h[2 + k] = d[k]
  <2> DEFINE bd == b \o d
  <2>1. h = a \o bd /\ bd \in Streams /\ Len(bd) = 1 + e /\ bd[1] = b[1] /\ \A k \in 1..e : bd[1 + k] = d[k]
    BY <1>4
  <2> HIDE DEF bd
  <2>5. /\ a \o bd \in Streams /\ Len(a \o bd) = Len(a) + Len(bd)
        /\ \A k \in 1..Len(a) : (a \o bd)[k] = a[k]
        /\ \A k \in 1..Len(bd) : (a \o bd)[Len(a) + k] = bd[k]
    BY <1>3, <2>1, JoinedStreams, Zenon
  <2> HIDE DEF h
  <2>2. h \in Streams /\ Len(h) = 2 + e /\ h[1] = a[1] /\ \A k \in 1..(1 + e) : h[1 + k] = bd[k]
    BY <1>1, <1>3, <2>1, <2>5
  <2>3. h[2] = b[1]
    BY <1>1, <2>1, <2>2
  <2>4. ASSUME NEW k \in 1..e PROVE h[2 + k] = d[k]
    <3>1. 1 + k \in 1..(1 + e) /\ 1 + (1 + k) = 2 + k
      BY <1>1
    <3> QED
      BY <2>1, <2>2, <3>1
  <2> QED
    BY <1>3, <2>2, <2>3, <2>4
<1> HIDE DEF h
<1>6. /\ Len(h) = 2 + ExtendedFor(m.size) /\ h[2].value = MarkFor(m.size)
      /\ \A k \in 1..ExtendedFor(m.size) : h[2 + k] = Digits(m.size, ExtendedFor(m.size))[k]
  BY <1>5 DEF n, e, mark, d
<1>7. /\ TextFrame(m) \in Streams /\ OneFrame(TextFrame(m))
      /\ FrameAt(TextFrame(m), 0).payload = Payload(m) /\ TextFrame(m)[1] = h[1]
  <2>1. h \in Streams
    BY <1>5
  <2> DEFINE f == TextFrame(m)
  <2>2. f = h \o Payload(m)
    BY <1>2
  <2> HIDE DEF f
  <2>3. f \in Streams /\ OneFrame(f) /\ FrameAt(f, 0).payload = Payload(m) /\ f[1] = h[1]
    BY <1>6, <2>1, <2>2, UnmaskedFrame, Zenon
  <2> QED
    BY <2>3 DEF f
<1> QED
  BY <1>3, <1>5, <1>7

\* A mask key that is applied twice.
LEMMA MaskedTwice ==
  ASSUME NEW m \in Messages, NEW key, key = [k \in 1..MaskSize |-> k]
  PROVE  MaskedWith(MaskedWith(Payload(m), key), key) = Payload(m)
<1> DEFINE p == Payload(m)
           x == MaskedWith(p, key)
           y == MaskedWith(x, key)
           at(k) == 1 + ((k - 1) % MaskSize)
<1>1. p \in Streams /\ Len(p) = m.size /\ m.size \in Nat
  BY PieceTypes DEF Messages
<1>2. key \in [1..MaskSize -> Nat]
  BY WireAssumption
<1>3. x \in Streams /\ Len(x) = m.size
  BY <1>1, <1>2, MaskedTypes
<1>4. y \in Streams /\ Len(y) = m.size
  <2> HIDE DEF x
  <2> QED
    BY <1>2, <1>3, MaskedTypes
<1>5. ASSUME NEW k \in 1..m.size PROVE y[k] = p[k]
  <2>1. at(k) \in 1..MaskSize
    <3>1. (k - 1) % MaskSize \in 0..(MaskSize - 1)
      BY <1>1, WireAssumption
    <3> QED
      BY <3>1, WireAssumption
  <2>2. key[at(k)] = at(k) /\ at(k) # 0
    BY <2>1
  <2>3. x[k] = Masked(p[k], key[at(k)])
    BY <1>1 DEF MaskedWith
  <2>4. y[k] = Masked(x[k], key[at(k)])
    <3> HIDE DEF x
    <3> QED
      BY <1>3 DEF MaskedWith
  <2>5. p[k] = [value |-> k, of |-> m, under |-> 0]
    BY DEF Payload
  <2> HIDE DEF at, x, y, p
  <2>6. x[k] = [value |-> k, of |-> m, under |-> at(k)]
    BY <2>2, <2>3, <2>5 DEF Masked
  <2> QED
    BY <2>2, <2>4, <2>5, <2>6 DEF Masked
<1> HIDE DEF p, x, y
<1>6. y = p
  BY <1>1, <1>4, <1>5, SeqEqual DEF Streams
<1> QED
  BY <1>6 DEF p, x, y

\* What a client sends is read as one frame with its message.
LEMMA ClientFrameIs ==
  ASSUME NEW m \in Messages, Fits(m.size), NEW byte \in Nat, NEW masked \in BOOLEAN
  PROVE  /\ ClientFrame(byte, masked, m) \in Streams /\ OneFrame(ClientFrame(byte, masked, m))
         /\ FrameAt(ClientFrame(byte, masked, m), 0).payload = Payload(m)
<1> DEFINE n == m.size
           e == ExtendedFor(n)
           mark == MarkFor(n)
           first == IF masked THEN mark + MaskBit ELSE mark
           a == <<HeaderByte(byte), HeaderByte(first)>>
           d == Digits(n, e)
           h == a \o d
           key == [k \in 1..MaskSize |-> k]
           c == [k \in 1..MaskSize |-> HeaderByte(k)]
           q == MaskedWith(Payload(m), key)
           f == ClientFrame(byte, masked, m)
<1>1. /\ n \in Nat /\ e \in Nat /\ mark \in Nat /\ first \in Nat /\ Fits(n) /\ FormOf(n, e, mark)
  <2>1. Fits(n)
    OBVIOUS
  <2> HIDE DEF n
  <2>2. n \in Nat /\ e \in Nat /\ mark \in Nat /\ FormOf(n, e, mark)
    BY <2>1, FormChosen DEF Fits
  <2> HIDE DEF mark
  <2>3. first \in Nat
    BY <2>2, WireAssumption DEF MaskBit
  <2> QED
    BY <2>1, <2>2, <2>3
<1>2. f = IF masked THEN (h \o c) \o q ELSE h \o Payload(m)
  <2>1. (IF e = 0 THEN m.size ELSE IF e = 2 THEN Plain ELSE Plain + 1) = mark
    BY <1>1, WireAssumption DEF FormOf
  <2>2. mark + (IF masked THEN MaskBit ELSE 0) = first
    BY <1>1, WireAssumption DEF MaskBit
  <2>3. f = IF masked
            THEN ((<<HeaderByte(byte), HeaderByte((IF e = 0 THEN m.size ELSE IF e = 2 THEN Plain ELSE Plain + 1)
                                                      + (IF masked THEN MaskBit ELSE 0))>> \o d) \o c) \o q
            ELSE (<<HeaderByte(byte), HeaderByte((IF e = 0 THEN m.size ELSE IF e = 2 THEN Plain ELSE Plain + 1)
                                                     + (IF masked THEN MaskBit ELSE 0))>> \o d) \o Payload(m)
    BY DEF ClientFrame
  <2> HIDE DEF mark, first, c, q, d, f, e
  <2> QED
    BY <2>1, <2>2, <2>3
<1>3. /\ a \in Streams /\ Len(a) = 2 /\ a[2].value = first
      /\ d \in Streams /\ Len(d) = e
  <2>1. a \in Streams /\ d \in Streams /\ Len(d) = e
    BY <1>1, PieceTypes
  <2>2. HeaderByte(first).value = first
    BY <1>1, PieceTypes
  <2> HIDE DEF first
  <2> QED
    BY <2>1, <2>2
<1> HIDE DEF n, e, mark, first, a, d, f
<1>4. /\ h \in Streams /\ Len(h) = 2 + e /\ h[2].value = first
      /\ \A k \in 1..e : h[2 + k] = d[k]
  <2>1. /\ h \in Streams /\ Len(h) = Len(a) + Len(d)
        /\ (\A k \in 1..Len(a) : h[k] = a[k]) /\ \A k \in 1..Len(d) : h[Len(a) + k] = d[k]
    BY <1>3, JoinedStreams, Zenon
  <2> HIDE DEF h
  <2> QED
    BY <1>3, <2>1
<1> HIDE DEF h
<1>6. CASE ~masked
  <2>1. h[2].value = MarkFor(m.size) /\ f = h \o Payload(m)
    BY <1>2, <1>4, <1>6 DEF first, mark, n
  <2>2. /\ Len(h) = 2 + ExtendedFor(m.size)
        /\ \A k \in 1..ExtendedFor(m.size) : h[2 + k] = Digits(m.size, ExtendedFor(m.size))[k]
    BY <1>4 DEF n, e, d
  <2>3. f \in Streams /\ OneFrame(f) /\ FrameAt(f, 0).payload = Payload(m) /\ f[1] = h[1]
    BY <1>4, <2>1, <2>2, UnmaskedFrame
  <2> QED
    BY <2>3 DEF f
<1>7. CASE masked
  <2>1. c \in Streams /\ Len(c) = KeysFor(masked) /\ \A k \in 1..MaskSize : c[k].value = k
    <3>1. \A k \in 1..MaskSize : HeaderByte(k) \in Byte /\ HeaderByte(k).value = k
      BY PieceTypes
    <3>2. c \in Seq(Byte) /\ DOMAIN c = 1..MaskSize
      BY <3>1, IsASeq, WireAssumption
    <3>3. Len(c) = MaskSize
      <4> HIDE DEF c
      <4> QED
        BY <3>2, LenProperties, WireAssumption
    <3> QED
      BY <1>7, <3>1, <3>2, <3>3 DEF Streams, KeysFor
  <2>2. q \in Streams /\ Len(q) = n
    <3>1. key \in [1..MaskSize -> Nat]
      BY WireAssumption
    <3>2. Payload(m) \in Streams /\ Len(Payload(m)) = n
      BY PieceTypes DEF n
    <3> HIDE DEF key
    <3> QED
      BY <3>1, <3>2, MaskedTypes
  <2>3. f = (h \o c) \o q
    BY <1>2, <1>7
  <2>4. h[2].value = IF masked THEN mark + MaskBit ELSE mark
    BY <1>4 DEF first
  <2>5. \A k \in 1..e : h[2 + k] = Digits(n, e)[k]
    BY <1>4 DEF d
  <2> HIDE DEF c, q
  <2>6. /\ f \in Streams /\ ReadAs(f, e, masked) /\ f[1] = h[1]
        /\ SubSeq(f, HeadAt(f, 0) + 1, EndAt(f, 0)) = q
        /\ \A k \in 1..KeysFor(masked) : f[2 + e + k] = c[k]
    <3>1. HeadOf(h, n, e, mark, masked)
      BY <1>4, <2>4, <2>5 DEF HeadOf
    <3>2. PartsOf(f, e, masked, h, c, q)
      BY <1>1, <1>4, <2>1, <2>2, <2>3, <3>1, AssembledFrame, Zenon
    <3> QED
      BY <3>2 DEF PartsOf
  <2>7. KeyAt(f, 0) = key
    <3>1. f[0 + 2] = f[2]
      OBVIOUS
    <3>2. KeyAt(f, 0) = [k \in 1..MaskSize |-> f[0 + 2 + e + k].value]
      BY <1>7, <2>6, <3>1 DEF KeyAt, ReadAs
    <3>3. \A k \in 1..MaskSize : f[0 + 2 + e + k].value = k
      <4> SUFFICES ASSUME NEW k \in 1..MaskSize PROVE f[0 + 2 + e + k].value = k
        OBVIOUS
      <4>1. 0 + 2 + e + k = 2 + e + k
        BY <1>1, WireAssumption
      <4> QED
        BY <1>7, <2>1, <2>6, <4>1 DEF KeysFor
    <3> QED
      BY <3>2, <3>3
  <2>8. key # <<>>
    <3>1. 1 \in DOMAIN key
      BY WireAssumption
    <3> QED
      BY <3>1
  <2>9. PayloadAt(f, 0) = MaskedWith(q, key)
    <3> HIDE DEF key
    <3> QED
      BY <2>6, <2>7, <2>8 DEF PayloadAt
  <2>10. MaskedWith(q, key) = Payload(m)
    BY MaskedTwice DEF q
  <2>11. FrameAt(f, 0).payload = Payload(m)
    BY <2>9, <2>10 DEF FrameAt
  <2> QED
    BY <2>6, <2>11 DEF f, ReadAs
<1> QED
  BY <1>6, <1>7

\* The text of a message that is not empty is the message.
LEMMA TextOfPayload ==
  ASSUME NEW m \in Messages
  PROVE  TextOf(Payload(m)) = IF m.size > 0 THEN m.what ELSE Unknown
<1>1. Payload(m) \in Streams /\ Len(Payload(m)) = m.size /\ m.size \in Nat /\ m # Header
  BY PieceTypes, HeaderAssumption DEF Messages
<1>2. CASE m.size > 0
  <2>1. Payload(m)[1].of = m
    BY <1>1, <1>2 DEF Payload
  <2>2. Payload(m) # <<>>
    BY <1>1, <1>2, EmptySeq
  <2> QED
    BY <1>1, <1>2, <2>1, <2>2 DEF TextOf
<1>3. CASE ~(m.size > 0)
  <2>1. Payload(m) = <<>>
    BY <1>1, <1>3, EmptySeq DEF Streams
  <2> QED
    BY <1>3, <2>1 DEF TextOf
<1> QED
  BY <1>2, <1>3

-----------------------------------------------------------------------------
(* What the host has received                                              *)

\* The host has no more than the frame that it is reading.
NoMoreThanFrame(bytes) ==
  Len(bytes) >= 2 /\ Len(bytes) >= 2 + ExtSize(bytes) =>
    Len(bytes) <= 2 + ExtSize(bytes) + KeySize(bytes) + PayloadSize(bytes)

\* The least element of a set of naturals.
LEMMA MinIs ==
  ASSUME NEW S \in SUBSET Nat, S # {}
  PROVE  Min(S) \in S /\ \A y \in S : Min(S) <= y
BY LeastElement DEF Min

\* The fields of a frame have sizes.
LEMMA FieldTypes ==
  ASSUME NEW bytes \in Streams
  PROVE  /\ ExtSize(bytes) \in {0, 2} /\ KeySize(bytes) \in {0, MaskSize} /\ KeySize(bytes) \in Nat
         /\ Len(bytes) >= 2 /\ Len(bytes) >= 2 + ExtSize(bytes) => PayloadSize(bytes) \in Nat
         /\ FieldEnds(bytes) \in SUBSET Nat
<1>1. /\ ExtSize(bytes) \in {0, 2} /\ KeySize(bytes) \in {0, MaskSize} /\ KeySize(bytes) \in Nat
      /\ Len(bytes) \in Nat
  BY WireAssumption, StreamTypes DEF ExtSize, KeySize
<1>2. ASSUME Len(bytes) >= 2, Len(bytes) >= 2 + ExtSize(bytes) PROVE PayloadSize(bytes) \in Nat
  <2>1. CASE Mark(bytes) = Plain
    <3>1. bytes[3].value \in Nat /\ bytes[4].value \in Nat
      <4>1. 3 \in 1..Len(bytes) /\ 4 \in 1..Len(bytes)
        BY <1>1, <1>2, <2>1 DEF ExtSize
      <4> QED
        BY <4>1, StreamTypes
    <3>2. bytes[3].value * Base \in Nat
      BY <3>1, WireAssumption
    <3> QED
      BY <2>1, <3>1, <3>2 DEF PayloadSize
  <2>2. CASE Mark(bytes) # Plain
    <3>1. bytes[2].value \in Nat /\ MaskBit \in Nat \ {0}
      BY <1>1, <1>2, StreamTypes, WireAssumption DEF MaskBit
    <3>2. Mark(bytes) \in Nat
      BY <3>1 DEF Mark
    <3> QED
      BY <2>2, <3>2 DEF PayloadSize
  <2> QED
    BY <2>1, <2>2
<1>3. FieldEnds(bytes) \in SUBSET Nat
  BY <1>1, <1>2 DEF FieldEnds
<1> QED
  BY <1>1, <1>2, <1>3

\* What is wanted is what is missing of the next field.
LEMMA WantedIs ==
  ASSUME NEW bytes \in Streams
  PROVE  /\ Wanted(bytes) \in Nat
         /\ \A e \in FieldEnds(bytes) : e > Len(bytes) => Wanted(bytes) > 0 /\ Len(bytes) + Wanted(bytes) <= e
<1> DEFINE ahead == {e \in FieldEnds(bytes) : e > Len(bytes)}
<1>1. Len(bytes) \in Nat /\ FieldEnds(bytes) \in SUBSET Nat
  BY StreamTypes, FieldTypes
<1>2. CASE ahead = {}
  BY <1>1, <1>2 DEF Wanted
<1>3. CASE ahead # {}
  <2>1. Min(ahead) \in ahead /\ \A y \in ahead : Min(ahead) <= y
    BY <1>1, <1>3, MinIs
  <2>2. Wanted(bytes) = Min(ahead) - Len(bytes)
    BY <1>3 DEF Wanted
  <2>3. Min(ahead) \in Nat /\ Min(ahead) > Len(bytes)
    BY <1>1, <2>1
  <2>4. ASSUME NEW e \in FieldEnds(bytes), e > Len(bytes) PROVE Min(ahead) <= e /\ e \in Nat
    BY <1>1, <2>1, <2>4
  <2> HIDE DEF ahead
  <2> QED
    BY <1>1, <2>2, <2>3, <2>4
<1> QED
  BY <1>2, <1>3

\* A receive that stays within what is wanted stays within the frame.
LEMMA ReceiveWithin ==
  ASSUME NEW bytes \in Streams, NEW more \in Streams, NoMoreThanFrame(bytes),
         Wanted(bytes) > 0, Len(more) <= Wanted(bytes)
  PROVE  NoMoreThanFrame(bytes \o more)
<1> DEFINE s == bytes \o more
           x == ExtSize(bytes)
           y == KeySize(bytes)
           z == PayloadSize(bytes)
<1>1. /\ Len(bytes) \in Nat /\ Len(more) \in Nat /\ s \in Streams /\ Len(s) = Len(bytes) + Len(more)
      /\ \A k \in 1..Len(bytes) : s[k] = bytes[k]
  BY StreamTypes, JoinedStreams
<1>2. /\ x \in {0, 2} /\ y \in Nat /\ Wanted(bytes) \in Nat
      /\ (Len(bytes) >= 2 /\ Len(bytes) >= 2 + x => z \in Nat)
      /\ \A e \in FieldEnds(bytes) : e > Len(bytes) => Len(bytes) + Wanted(bytes) <= e
  BY FieldTypes, WantedIs
<1>3. ExtSize(s) \in {0, 2} /\ KeySize(s) \in Nat /\ (Len(s) >= 2 /\ Len(s) >= 2 + ExtSize(s) => PayloadSize(s) \in Nat)
  BY <1>1, FieldTypes
<1> SUFFICES NoMoreThanFrame(s)
  OBVIOUS
<1> HIDE DEF s
<1>4. CASE Len(bytes) < 2
  <2>1. 2 \in FieldEnds(bytes)
    BY DEF FieldEnds
  <2>2. Len(s) <= 2
    BY <1>1, <1>2, <1>4, <2>1
  <2> QED
    BY <1>1, <1>3, <2>2 DEF NoMoreThanFrame
<1>5. CASE Len(bytes) >= 2
  <2>1. s[2] = bytes[2]
    BY <1>1, <1>5
  <2>2. ExtSize(s) = x /\ KeySize(s) = y
    BY <2>1 DEF ExtSize, KeySize, Mark, HasMask
  <2>3. CASE Len(bytes) < 2 + x
    <3>1. 2 + x \in FieldEnds(bytes)
      BY <1>5 DEF FieldEnds
    <3>2. Len(s) <= 2 + x
      <4> HIDE DEF x
      <4> QED
        BY <1>1, <1>2, <2>3, <3>1
    <3> HIDE DEF x, y
    <3> QED
      BY <1>1, <1>2, <1>3, <2>2, <3>2 DEF NoMoreThanFrame
  <2>4. CASE Len(bytes) >= 2 + x
    <3>1. PayloadSize(s) = z
      <4>1. CASE Mark(bytes) = Plain
        <5>1. 3 \in 1..Len(bytes) /\ 4 \in 1..Len(bytes)
          BY <1>1, <2>4, <4>1 DEF ExtSize
        <5>2. s[3] = bytes[3] /\ s[4] = bytes[4]
          BY <1>1, <5>1
        <5> QED
          BY <2>1, <5>2 DEF PayloadSize, Mark
      <4>2. CASE Mark(bytes) # Plain
        BY <2>1, <4>2 DEF PayloadSize, Mark
      <4> QED
        BY <4>1, <4>2
    <3>2. Len(bytes) <= 2 + x + y + z
      BY <1>5, <2>4 DEF NoMoreThanFrame
    <3>3. 2 + x + y \in FieldEnds(bytes) /\ 2 + x + y + z \in FieldEnds(bytes)
      BY <1>5, <2>4 DEF FieldEnds
    <3>4. FieldEnds(bytes) = {2, 2 + x, 2 + x + y, 2 + x + y + z}
      BY <1>5, <2>4 DEF FieldEnds
    <3>5. Len(s) <= 2 + x + y + z
      <4>1. CASE Len(bytes) = 2 + x + y + z
        <5>1. {e \in FieldEnds(bytes) : e > Len(bytes)} = {}
          <6> HIDE DEF x, y, z
          <6> QED
            BY <1>1, <1>2, <1>5, <2>4, <3>4, <4>1
        <5>2. Wanted(bytes) = 0
          BY <5>1 DEF Wanted
        <5> QED
          BY <5>2
      <4>2. CASE Len(bytes) # 2 + x + y + z
        <5> HIDE DEF x, y, z
        <5> QED
          BY <1>1, <1>2, <1>5, <2>4, <3>2, <3>3, <4>2
      <4> QED
        BY <4>1, <4>2
    <3> HIDE DEF x, y, z
    <3> QED
      BY <2>2, <3>1, <3>5 DEF NoMoreThanFrame
  <2> QED
    BY <1>1, <1>2, <2>3, <2>4
<1>6. Len(bytes) < 2 \/ Len(bytes) >= 2
  BY <1>1
<1> QED
  BY <1>4, <1>5, <1>6

\* When nothing more is wanted the host reads what RFC 6455 reads.
LEMMA WholeIsOne ==
  ASSUME NEW bytes \in Streams, NoMoreThanFrame(bytes), ~TooLong(bytes), Wanted(bytes) = 0
  PROVE  /\ OneFrame(bytes) /\ FrameAt(bytes, 0).opcode = Opcode(bytes)
         /\ FrameAt(bytes, 0).extended # LongDigits
         /\ FrameAt(bytes, 0).payload = ReadPayload(bytes)
<1> DEFINE x == ExtSize(bytes)
           y == KeySize(bytes)
           z == PayloadSize(bytes)
<1>1. /\ Len(bytes) \in Nat /\ x \in {0, 2} /\ y \in Nat
      /\ (Len(bytes) >= 2 /\ Len(bytes) >= 2 + x => z \in Nat)
      /\ FieldEnds(bytes) \in SUBSET Nat
      /\ \A e \in FieldEnds(bytes) : e > Len(bytes) => Wanted(bytes) > 0
  BY StreamTypes, FieldTypes, WantedIs
<1>2. \A e \in FieldEnds(bytes) : e <= Len(bytes)
  <2> SUFFICES ASSUME NEW e \in FieldEnds(bytes), ~(e <= Len(bytes)) PROVE FALSE
    OBVIOUS
  <2>1. e > Len(bytes)
    BY <1>1
  <2>2. Wanted(bytes) > 0
    BY <1>1, <2>1, Zenon
  <2> QED
    BY <2>2
<1>3. Len(bytes) >= 2
  BY <1>1, <1>2 DEF FieldEnds
<1>4. Len(bytes) >= 2 + x
  <2>1. 2 + x \in FieldEnds(bytes)
    BY <1>3 DEF FieldEnds
  <2> HIDE DEF x
  <2> QED
    BY <1>1, <1>2, <2>1
<1>5. Len(bytes) = 2 + x + y + z /\ z \in Nat
  <2>1. 2 + x + y + z \in FieldEnds(bytes)
    BY <1>3, <1>4 DEF FieldEnds
  <2>2. Len(bytes) <= 2 + x + y + z
    BY <1>3, <1>4 DEF NoMoreThanFrame
  <2> HIDE DEF x, y, z
  <2> QED
    BY <1>1, <1>2, <1>3, <1>4, <2>1, <2>2
<1>6. /\ bytes[0 + 2] = bytes[2] /\ bytes[0 + 1] = bytes[1]
      /\ bytes[2].value \in Nat /\ MaskBit \in Nat \ {0} /\ MaskBit = Plain + 2 /\ Plain \in Nat
  BY <1>1, <1>3, StreamTypes, WireAssumption DEF MaskBit
<1>7. Mark(bytes) \in 0..Plain
  <2>1. Mark(bytes) \in 0..(MaskBit - 1)
    BY <1>6 DEF Mark
  <2>2. Mark(bytes) # Plain + 1
    BY <1>3 DEF TooLong
  <2> QED
    BY <1>6, <2>1, <2>2
<1>8. ExtendedAt(bytes, 0) = x
  <2>1. ExtendedAt(bytes, 0) = IF Mark(bytes) < Plain THEN 0 ELSE IF Mark(bytes) = Plain THEN 2 ELSE LongDigits
    BY <1>6 DEF ExtendedAt, Mark
  <2> QED
    BY <1>6, <1>7, <2>1 DEF ExtSize
<1>9. HeadAt(bytes, 0) = 2 + x + y
  <2>1. HeadAt(bytes, 0) = 0 + 2 + x + (IF bytes[2].value < MaskBit THEN 0 ELSE MaskSize)
    BY <1>6, <1>8 DEF HeadAt
  <2>2. (IF bytes[2].value < MaskBit THEN 0 ELSE MaskSize) = y
    BY <1>6 DEF KeySize, HasMask
  <2> HIDE DEF x, y
  <2> QED
    BY <1>1, <2>1, <2>2
<1>10. SizeAt(bytes, 0) = z
  <2>1. CASE Mark(bytes) = Plain
    <3> DEFINE digits == [k \in 1..2 |-> bytes[0 + 2 + k].value]
    <3>1. SizeAt(bytes, 0) = Number(digits, 2)
      BY <1>8, <2>1 DEF SizeAt, ExtSize
    <3>2. digits[1] = bytes[3].value /\ digits[2] = bytes[4].value
      OBVIOUS
    <3>3. digits \in [1..2 -> Nat]
      <4>1. Len(bytes) >= 0 + 2 /\ Len(bytes) >= HeadAt(bytes, 0) /\ ExtendedAt(bytes, 0) = 2
        <5>1. x = 2
          BY <2>1 DEF ExtSize
        <5> HIDE DEF x, y, z
        <5> QED
          BY <1>1, <1>3, <1>5, <1>8, <1>9, <5>1
      <4> QED
        BY <4>1, SizeTypes
    <3> HIDE DEF digits
    <3>4. /\ Number(digits, 2) = Sums(digits, 2)[2] /\ Sums(digits, 2)[0] = 0
          /\ \A k \in 1..2 : Sums(digits, 2)[k] = Sums(digits, 2)[k - 1] * Base + digits[k]
      <4>1. 2 \in Nat
        OBVIOUS
      <4> QED
        BY <3>3, <4>1, NumberIs, Zenon
    <3>5. Sums(digits, 2)[1] = digits[1] /\ digits[1] \in Nat /\ digits[2] \in Nat /\ Base \in Nat
      <4>1. Sums(digits, 2)[1] = Sums(digits, 2)[0] * Base + digits[1]
        BY <3>4
      <4>2. digits[1] \in Nat /\ digits[2] \in Nat /\ Base \in Nat
        BY <3>3, WireAssumption
      <4>3. 0 * Base = 0
        BY <4>2
      <4> QED
        BY <3>4, <4>1, <4>2, <4>3
    <3>6. Sums(digits, 2)[2] = digits[1] * Base + digits[2]
      BY <3>4, <3>5
    <3> QED
      BY <2>1, <3>1, <3>2, <3>4, <3>6 DEF PayloadSize
  <2>2. CASE Mark(bytes) # Plain
    BY <1>6, <1>8, <2>2 DEF SizeAt, ExtSize, PayloadSize, Mark
  <2> QED
    BY <2>1, <2>2
<1> HIDE DEF x, y, z
<1>11. EndAt(bytes, 0) = Len(bytes) /\ OneFrame(bytes)
  <2>1. EndAt(bytes, 0) = Len(bytes) /\ Len(bytes) >= 0 + 2 /\ Len(bytes) >= HeadAt(bytes, 0)
    BY <1>1, <1>3, <1>5, <1>9, <1>10 DEF EndAt
  <2> QED
    BY <1>1, <2>1 DEF OneFrame, HasFrameAt
<1>12. FrameAt(bytes, 0).opcode = Opcode(bytes) /\ FrameAt(bytes, 0).extended # LongDigits
  <2>1. FrameAt(bytes, 0).opcode = Opcode(bytes)
    BY <1>6 DEF FrameAt, Opcode
  <2>2. FrameAt(bytes, 0).extended = x
    BY <1>8 DEF FrameAt
  <2> QED
    BY <1>1, <2>1, <2>2, WireAssumption
<1>13. SubSeq(bytes, HeadAt(bytes, 0) + 1, EndAt(bytes, 0))
         = SubSeq(bytes, 3 + ExtSize(bytes) + KeySize(bytes), Len(bytes))
  <2>1. HeadAt(bytes, 0) + 1 = 3 + x + y
    BY <1>1, <1>9
  <2> QED
    BY <1>11, <2>1 DEF x, y
<1>14. CASE ~HasMask(bytes)
  <2>1. KeyAt(bytes, 0) = <<>>
    BY <1>6, <1>14 DEF KeyAt, HasMask
  <2>2. PayloadAt(bytes, 0) = ReadPayload(bytes)
    BY <1>13, <1>14, <2>1 DEF PayloadAt, ReadPayload
  <2> QED
    BY <1>11, <1>12, <2>2 DEF FrameAt
<1>15. CASE HasMask(bytes)
  <2> DEFINE key == [k \in 1..MaskSize |-> bytes[2 + ExtSize(bytes) + k].value]
  <2>1. KeyAt(bytes, 0) = key
    <3>1. KeyAt(bytes, 0) = [k \in 1..MaskSize |-> bytes[0 + 2 + x + k].value]
      <4>1. ~(bytes[0 + 2].value < MaskBit)
        BY <1>6, <1>15 DEF HasMask
      <4> QED
        BY <1>8, <4>1 DEF KeyAt
    <3>2. \A k \in 1..MaskSize : 0 + 2 + x + k = 2 + x + k
      BY <1>1, WireAssumption
    <3> QED
      BY <3>1, <3>2 DEF x
  <2>2. KeySize(bytes) = MaskSize
    BY <1>15 DEF KeySize
  <2>3. key # <<>>
    <3>1. 1 \in DOMAIN key
      BY WireAssumption
    <3> QED
      BY <3>1
  <2>4. PayloadAt(bytes, 0) = MaskedWith(SubSeq(bytes, HeadAt(bytes, 0) + 1, EndAt(bytes, 0)), key)
    <3> HIDE DEF key
    <3> QED
      BY <2>1, <2>3 DEF PayloadAt
  <2>5. ReadPayload(bytes) = MaskedWith(SubSeq(bytes, 3 + ExtSize(bytes) + KeySize(bytes), Len(bytes)), key)
    BY <1>15, <2>2 DEF ReadPayload
  <2>6. PayloadAt(bytes, 0) = ReadPayload(bytes)
    <3> HIDE DEF key
    <3> QED
      BY <1>13, <2>4, <2>5
  <2> QED
    BY <1>11, <1>12, <2>6 DEF FrameAt
<1> QED
  BY <1>14, <1>15

-----------------------------------------------------------------------------
(* What is asked and told in a stream                                      *)

Askings == {AskedOf(f) : f \in FrameSet}
Tellings == {Said(f) : f \in FrameSet}

\* The frames of a stream are a sequence.
LEMMA FramesInTypes ==
  ASSUME NEW s \in Streams
  PROVE  FramesIn(s) \in Seq(FrameSet)
BY StreamTypes, FramesTypes DEF FramesIn

\* There is one asking, and one telling, for each frame.
LEMMA AskedTypes ==
  ASSUME NEW s \in Streams
  PROVE  /\ Asked(s) \in Seq(Askings) /\ Len(Asked(s)) = Len(FramesIn(s))
         /\ \A k \in 1..Len(FramesIn(s)) : Asked(s)[k] = AskedOf(FramesIn(s)[k])
         /\ Told(s) \in Seq(Tellings) /\ Len(Told(s)) = Len(FramesIn(s))
         /\ \A k \in 1..Len(FramesIn(s)) : Told(s)[k] = Said(FramesIn(s)[k])
<1> DEFINE frames == FramesIn(s)
<1>1. frames \in Seq(FrameSet) /\ Len(frames) \in Nat /\ DOMAIN frames = 1..Len(frames)
  BY FramesInTypes, LenProperties
<1>2. Asked(s) = [k \in 1..Len(frames) |-> AskedOf(frames[k])]
  BY <1>1 DEF Asked
<1>3. Told(s) = [k \in 1..Len(frames) |-> Said(frames[k])]
  BY <1>1 DEF Told
<1> HIDE DEF frames
<1>4. \A k \in 1..Len(frames) : AskedOf(frames[k]) \in Askings /\ Said(frames[k]) \in Tellings
  BY <1>1, ElementOfSeq DEF Askings, Tellings
<1>5. Asked(s) \in Seq(Askings)
  BY <1>1, <1>2, <1>4, IsASeq
<1>6. Told(s) \in Seq(Tellings)
  BY <1>1, <1>3, <1>4, IsASeq
<1>7. Len(Asked(s)) = Len(frames)
  <2>1. DOMAIN Asked(s) = 1..Len(frames)
    BY <1>2
  <2> QED
    BY <1>1, <1>5, <2>1, LenProperties
<1>8. Len(Told(s)) = Len(frames)
  <2>1. DOMAIN Told(s) = 1..Len(frames)
    BY <1>3
  <2> QED
    BY <1>1, <1>6, <2>1, LenProperties
<1> QED
  BY <1>2, <1>3, <1>5, <1>6, <1>7, <1>8 DEF frames

\* Reading behind whole frames goes on where they end.
LEMMA AskedJoin ==
  ASSUME NEW a \in Streams, NEW b \in Streams, Framed(a)
  PROVE  Asked(a \o b) = Asked(a) \o Asked(b) /\ Told(a \o b) = Told(a) \o Told(b)
<1> DEFINE x == FramesIn(a)
           y == FramesIn(b)
           z == FramesIn(a \o b)
<1>1. a \o b \in Streams
  BY JoinedStreams
<1>2. x \in Seq(FrameSet) /\ y \in Seq(FrameSet) /\ z \in Seq(FrameSet) /\ Len(x) \in Nat /\ Len(y) \in Nat
  BY <1>1, FramesInTypes, LenProperties
<1>3. z = x \o y
  BY FramesJoin
<1>4. /\ Asked(a) \in Seq(Askings) /\ Len(Asked(a)) = Len(x) /\ \A k \in 1..Len(x) : Asked(a)[k] = AskedOf(x[k])
      /\ Told(a) \in Seq(Tellings) /\ Len(Told(a)) = Len(x) /\ \A k \in 1..Len(x) : Told(a)[k] = Said(x[k])
  BY AskedTypes
<1>5. /\ Asked(b) \in Seq(Askings) /\ Len(Asked(b)) = Len(y) /\ \A k \in 1..Len(y) : Asked(b)[k] = AskedOf(y[k])
      /\ Told(b) \in Seq(Tellings) /\ Len(Told(b)) = Len(y) /\ \A k \in 1..Len(y) : Told(b)[k] = Said(y[k])
  BY AskedTypes
<1>6. /\ Asked(a \o b) \in Seq(Askings) /\ Len(Asked(a \o b)) = Len(z)
      /\ \A k \in 1..Len(z) : Asked(a \o b)[k] = AskedOf(z[k])
      /\ Told(a \o b) \in Seq(Tellings) /\ Len(Told(a \o b)) = Len(z)
      /\ \A k \in 1..Len(z) : Told(a \o b)[k] = Said(z[k])
  BY <1>1, AskedTypes
<1> HIDE DEF x, y, z
<1>7. /\ Len(z) = Len(x) + Len(y)
      /\ \A k \in 1..(Len(x) + Len(y)) : z[k] = IF k <= Len(x) THEN x[k] ELSE y[k - Len(x)]
  BY <1>2, <1>3, ConcatProperties
<1>8. Asked(a \o b) = Asked(a) \o Asked(b)
  <2> DEFINE p == Asked(a)
             q == Asked(b)
             r == Asked(a \o b)
  <2>0. p \in Seq(Askings) /\ q \in Seq(Askings)
    BY <1>4, <1>5
  <2> HIDE DEF p, q, r
  <2>1. /\ p \o q \in Seq(Askings) /\ Len(p \o q) = Len(p) + Len(q)
        /\ \A k \in 1..(Len(p) + Len(q)) : (p \o q)[k] = IF k <= Len(p) THEN p[k] ELSE q[k - Len(p)]
    BY <2>0, ConcatProperties
  <2>2. ASSUME NEW k \in 1..(Len(x) + Len(y)) PROVE r[k] = (p \o q)[k]
    <3>1. CASE k <= Len(x)
      <4>1. (p \o q)[k] = p[k] /\ p[k] = AskedOf(x[k])
        BY <1>2, <1>4, <1>5, <2>1, <3>1 DEF p, q
      <4>2. r[k] = AskedOf(z[k]) /\ z[k] = x[k]
        BY <1>6, <1>7, <3>1 DEF r
      <4> QED
        BY <4>1, <4>2
    <3>2. CASE ~(k <= Len(x))
      <4>1. k - Len(x) \in 1..Len(y)
        BY <1>2, <3>2
      <4>2. (p \o q)[k] = q[k - Len(x)] /\ q[k - Len(x)] = AskedOf(y[k - Len(x)])
        BY <1>2, <1>4, <1>5, <2>1, <3>2, <4>1 DEF p, q
      <4>3. r[k] = AskedOf(z[k]) /\ z[k] = y[k - Len(x)]
        BY <1>6, <1>7, <3>2 DEF r
      <4> QED
        BY <4>2, <4>3
    <3> QED
      BY <3>1, <3>2
  <2>3. r \in Seq(Askings) /\ Len(r) = Len(x) + Len(y) /\ Len(p \o q) = Len(x) + Len(y)
    BY <1>4, <1>5, <1>6, <1>7, <2>1 DEF p, q, r
  <2>4. r = p \o q
    BY <1>2, <2>1, <2>2, <2>3, SeqEqual
  <2> QED
    BY <2>4 DEF p, q, r
<1>9. Told(a \o b) = Told(a) \o Told(b)
  <2> DEFINE p == Told(a)
             q == Told(b)
             r == Told(a \o b)
  <2>0. p \in Seq(Tellings) /\ q \in Seq(Tellings)
    BY <1>4, <1>5
  <2>1. /\ p \o q \in Seq(Tellings) /\ Len(p \o q) = Len(p) + Len(q)
        /\ \A k \in 1..(Len(p) + Len(q)) : (p \o q)[k] = IF k <= Len(p) THEN p[k] ELSE q[k - Len(p)]
    <3> HIDE DEF p, q
    <3> QED
      BY <2>0, ConcatProperties
  <2> HIDE DEF p, q, r
  <2>2. ASSUME NEW k \in 1..(Len(x) + Len(y)) PROVE r[k] = (p \o q)[k]
    <3>1. CASE k <= Len(x)
      <4>1. (p \o q)[k] = p[k] /\ p[k] = Said(x[k])
        BY <1>2, <1>4, <1>5, <2>1, <3>1 DEF p, q
      <4>2. r[k] = Said(z[k]) /\ z[k] = x[k]
        BY <1>6, <1>7, <3>1 DEF r
      <4> QED
        BY <4>1, <4>2
    <3>2. CASE ~(k <= Len(x))
      <4>1. k - Len(x) \in 1..Len(y)
        BY <1>2, <3>2
      <4>2. (p \o q)[k] = q[k - Len(x)] /\ q[k - Len(x)] = Said(y[k - Len(x)])
        BY <1>2, <1>4, <1>5, <2>1, <3>2, <4>1 DEF p, q
      <4>3. r[k] = Said(z[k]) /\ z[k] = y[k - Len(x)]
        BY <1>6, <1>7, <3>2 DEF r
      <4> QED
        BY <4>2, <4>3
    <3> QED
      BY <3>1, <3>2
  <2>3. r \in Seq(Tellings) /\ Len(r) = Len(x) + Len(y) /\ Len(p \o q) = Len(x) + Len(y)
    BY <1>4, <1>5, <1>6, <1>7, <2>1 DEF p, q, r
  <2>4. r = p \o q
    BY <1>2, <2>1, <2>2, <2>3, SeqEqual
  <2> QED
    BY <2>4 DEF p, q, r
<1> QED
  BY <1>8, <1>9

\* Nothing asks nothing, one frame asks one thing.
LEMMA AskedOfOne ==
  /\ Asked(<<>>) = <<>> /\ Told(<<>>) = <<>>
  /\ \A f \in Streams : OneFrame(f) => /\ Asked(f) = <<AskedOf(FrameAt(f, 0))>>
                                       /\ Told(f) = <<Said(FrameAt(f, 0))>>
<1>1. Asked(<<>>) = <<>> /\ Told(<<>>) = <<>>
  BY FramesOfOne DEF Asked, Told
<1>2. ASSUME NEW f \in Streams, OneFrame(f)
      PROVE  Asked(f) = <<AskedOf(FrameAt(f, 0))>> /\ Told(f) = <<Said(FrameAt(f, 0))>>
  <2>1. FramesIn(f) = <<FrameAt(f, 0)>>
    BY <1>2, FramesOfOne
  <2> QED
    BY <2>1 DEF Asked, Told
<1> QED
  BY <1>1, <1>2

\* The loss of its end takes the last askings from a stream.
LEMMA AskedOfPrefix ==
  ASSUME NEW a \in Streams, NEW b \in Streams
  PROVE  \E n \in 0..Len(Asked(a \o b)) : Asked(a) = SubSeq(Asked(a \o b), 1, n)
<1> DEFINE x == FramesIn(a)
           z == FramesIn(a \o b)
           p == Asked(a)
           q == Asked(a \o b)
           n == Len(x)
<1>1. a \o b \in Streams
  BY JoinedStreams
<1>2. PICK r \in Seq(FrameSet) : z = x \o r
  BY FramesOfPrefix
<1>3. x \in Seq(FrameSet) /\ n \in Nat /\ Len(r) \in Nat
  BY FramesInTypes, LenProperties
<1>4. p \in Seq(Askings) /\ Len(p) = n /\ \A k \in 1..n : p[k] = AskedOf(x[k])
  BY AskedTypes
<1>5. q \in Seq(Askings) /\ Len(q) = Len(z) /\ \A k \in 1..Len(z) : q[k] = AskedOf(z[k])
  BY <1>1, AskedTypes
<1> HIDE DEF x, z, p, q
<1>6. Len(z) = n + Len(r) /\ \A k \in 1..n : z[k] = x[k]
  BY <1>2, <1>3, ConcatProperties
<1>7. n \in 0..Len(q) /\ Len(q) \in Nat
  BY <1>3, <1>5, <1>6
<1>8. /\ SubSeq(q, 1, n) \in Seq(Askings) /\ Len(SubSeq(q, 1, n)) = n
      /\ \A k \in 1..n : SubSeq(q, 1, n)[k] = q[k]
  <2>1. \A k \in 1..n : q[k] \in Askings
    BY <1>5, <1>7, ElementOfSeq
  <2>2. /\ SubSeq(q, 1, n) \in Seq(Askings) /\ Len(SubSeq(q, 1, n)) = IF 1 <= n THEN n - 1 + 1 ELSE 0
        /\ \A k \in 1..(n - 1 + 1) : SubSeq(q, 1, n)[k] = q[1 + k - 1]
    BY <1>3, <2>1, SubSeqProperties
  <2> HIDE DEF n
  <2> QED
    BY <1>3, <2>2
<1>9. \A k \in 1..n : p[k] = q[k]
  BY <1>4, <1>5, <1>6, <1>3
<1>10. p = SubSeq(q, 1, n)
  BY <1>4, <1>8, <1>9, SeqEqual
<1> QED
  BY <1>7, <1>10 DEF p, q

-----------------------------------------------------------------------------
(* What one message, and one frame, does to what is asked and told         *)

\* The first of a sequence, and the others.
LEMMA Prepended ==
  ASSUME NEW S, NEW x \in S, NEW q \in Seq(S)
  PROVE  <<x>> \o q # <<>> /\ Head(<<x>> \o q) = x /\ Tail(<<x>> \o q) = q
<1>1. <<x>> \in Seq(S) /\ Len(<<x>>) = 1 /\ Len(q) \in Nat
  BY LenProperties
<1> DEFINE r == <<x>> \o q
<1>2. /\ r \in Seq(S) /\ Len(r) = 1 + Len(q)
      /\ \A k \in 1..(1 + Len(q)) : r[k] = IF k <= 1 THEN <<x>>[k] ELSE q[k - 1]
  BY <1>1, ConcatProperties
<1>3. r[1] = x
  BY <1>1, <1>2
<1> HIDE DEF r
<1>4. r # <<>>
  BY <1>1, <1>2, EmptySeq
<1>5. Head(r) = x /\ Tail(r) \in Seq(S) /\ Len(Tail(r)) = Len(q) /\ \A k \in 1..Len(Tail(r)) : Tail(r)[k] = r[k + 1]
  BY <1>1, <1>2, <1>3, <1>4, HeadTailProperties
<1>6. \A k \in 1..Len(Tail(r)) : Tail(r)[k] = q[k]
  BY <1>1, <1>2, <1>5
<1>7. Tail(r) = q
  BY <1>5, <1>6, SeqEqual
<1> QED
  BY <1>4, <1>5, <1>7 DEF r

\* A stream is its first bytes and the rest.
LEMMA CutJoin ==
  ASSUME NEW s \in Streams, NEW n \in 0..Len(s)
  PROVE  /\ SubSeq(s, 1, n) \in Streams /\ Len(SubSeq(s, 1, n)) = n
         /\ SubSeq(s, n + 1, Len(s)) \in Streams
         /\ s = SubSeq(s, 1, n) \o SubSeq(s, n + 1, Len(s))
<1>1. Len(s) \in Nat /\ n \in Nat /\ Len(s) - n \in Nat
  BY StreamTypes
<1>2. SubSeq(s, 1, n) \in Streams /\ Len(SubSeq(s, 1, n)) = n
  <2> DEFINE a == SubSeq(s, 0 + 1, 0 + n)
  <2>1. 0 \in Nat /\ 0 + n <= Len(s)
    BY <1>1
  <2>2. a \in Streams /\ Len(a) = n
    BY <1>1, <2>1, Cut
  <2>3. a = SubSeq(s, 1, n)
    BY <1>1
  <2> HIDE DEF a
  <2> QED
    BY <2>2, <2>3
<1>3. SubSeq(s, n + 1, Len(s)) \in Streams
  <2>1. n + (Len(s) - n) <= Len(s) /\ n + (Len(s) - n) = Len(s)
    BY <1>1
  <2> QED
    BY <1>1, <2>1, Cut
<1>4. SubSeq(s, 1, n) \o SubSeq(s, n + 1, Len(s)) = SubSeq(s, 1, Len(s))
  <2>1. 1 \in 1..Len(s) + 1 /\ n \in 1 - 1..Len(s) /\ Len(s) \in n..Len(s)
    BY <1>1
  <2> QED
    BY <2>1, ConcatAdjacentSubSeq, Zenon DEF Streams
<1>5. SubSeq(s, 1, Len(s)) = s
  BY SubSeqFull DEF Streams
<1> QED
  BY <1>2, <1>3, <1>4, <1>5, Zenon

\* A whole frame at the beginning of a stream is the first thing asked, and told.
LEMMA AskedFirst ==
  ASSUME NEW s \in Streams, HasFrameAt(s, 0)
  PROVE  \E f, r \in Streams :
           /\ s = f \o r /\ OneFrame(f) /\ r = SubSeq(s, EndAt(s, 0) + 1, Len(s))
           /\ Asked(s) # <<>> /\ Head(Asked(s)) = AskedOf(FrameAt(s, 0)) /\ Tail(Asked(s)) = Asked(r)
           /\ Told(s) # <<>> /\ Head(Told(s)) = Said(FrameAt(s, 0)) /\ Tail(Told(s)) = Told(r)
<1>1. PICK f, r \in Streams :
        /\ s = f \o r /\ OneFrame(f) /\ r = SubSeq(s, EndAt(s, 0) + 1, Len(s))
        /\ FrameAt(f, 0) = FrameAt(s, 0)
  BY SplitFirst
<1>2. Framed(f)
  BY <1>1, FramedBase
<1>3. /\ Asked(f \o r) = <<AskedOf(FrameAt(f, 0))>> \o Asked(r)
      /\ Told(f \o r) = <<Said(FrameAt(f, 0))>> \o Told(r)
  <2>1. Asked(f \o r) = Asked(f) \o Asked(r) /\ Told(f \o r) = Told(f) \o Told(r)
    BY <1>2, AskedJoin
  <2>2. Asked(f) = <<AskedOf(FrameAt(f, 0))>> /\ Told(f) = <<Said(FrameAt(f, 0))>>
    BY <1>1, AskedOfOne
  <2> QED
    BY <2>1, <2>2, Zenon
<1> DEFINE a == AskedOf(FrameAt(f, 0))
           t == Said(FrameAt(f, 0))
           p == Asked(r)
           q == Told(r)
<1>4. a \in Askings /\ t \in Tellings
  <2>1. FrameAt(f, 0) \in FrameSet
    <3>1. FramesIn(f) = <<FrameAt(f, 0)>> /\ FramesIn(f) \in Seq(FrameSet)
      BY <1>1, FramesOfOne, FramesInTypes
    <3> QED
      BY <3>1
  <2> QED
    BY <2>1 DEF Askings, Tellings
<1>5. p \in Seq(Askings) /\ q \in Seq(Tellings)
  BY AskedTypes
<1> HIDE DEF a, t, p, q
<1>6. <<a>> \o p # <<>> /\ Head(<<a>> \o p) = a /\ Tail(<<a>> \o p) = p
  BY <1>4, <1>5, Prepended
<1>7. <<t>> \o q # <<>> /\ Head(<<t>> \o q) = t /\ Tail(<<t>> \o q) = q
  BY <1>4, <1>5, Prepended
<1>8. Asked(s) = <<a>> \o p /\ Told(s) = <<t>> \o q
  BY <1>1, <1>3 DEF a, t, p, q
<1>9. a = AskedOf(FrameAt(s, 0)) /\ t = Said(FrameAt(s, 0))
  BY <1>1, Zenon DEF a, t
<1>10. /\ Asked(s) # <<>> /\ Head(Asked(s)) = AskedOf(FrameAt(s, 0)) /\ Tail(Asked(s)) = Asked(r)
       /\ Told(s) # <<>> /\ Head(Told(s)) = Said(FrameAt(s, 0)) /\ Tail(Told(s)) = Told(r)
  BY <1>6, <1>7, <1>8, <1>9, Zenon DEF p, q
<1> QED
  BY <1>1, <1>10

\* Behind whole frames, one more frame asks and tells one more thing.
LEMMA AskedNext ==
  ASSUME NEW s \in Streams, Framed(s), NEW f \in Streams, OneFrame(f)
  PROVE  /\ s \o f \in Streams /\ Framed(s \o f)
         /\ Asked(s \o f) = Append(Asked(s), AskedOf(FrameAt(f, 0)))
         /\ Told(s \o f) = Append(Told(s), Said(FrameAt(f, 0)))
<1>1. s \o f \in Streams /\ Framed(s \o f)
  BY JoinedStreams, FramedBase, FramedJoin
<1>2. /\ Asked(s \o f) = Asked(s) \o <<AskedOf(FrameAt(f, 0))>>
      /\ Told(s \o f) = Told(s) \o <<Said(FrameAt(f, 0))>>
  <2>1. Asked(s \o f) = Asked(s) \o Asked(f) /\ Told(s \o f) = Told(s) \o Told(f)
    BY AskedJoin
  <2>2. Asked(f) = <<AskedOf(FrameAt(f, 0))>> /\ Told(f) = <<Said(FrameAt(f, 0))>>
    BY AskedOfOne
  <2> QED
    BY <2>1, <2>2, Zenon
<1> DEFINE a == AskedOf(FrameAt(f, 0))
           t == Said(FrameAt(f, 0))
           p == Asked(s)
           q == Told(s)
<1>3. a \in Askings /\ t \in Tellings
  <2>1. FramesIn(f) = <<FrameAt(f, 0)>> /\ FramesIn(f) \in Seq(FrameSet)
    BY FramesOfOne, FramesInTypes
  <2> QED
    BY <2>1 DEF Askings, Tellings
<1>4. p \in Seq(Askings) /\ q \in Seq(Tellings)
  BY AskedTypes
<1> HIDE DEF a, t, p, q
<1>5. Append(p, a) = p \o <<a>> /\ Append(q, t) = q \o <<t>>
  BY <1>3, <1>4, AppendIsConcat
<1> QED
  BY <1>1, <1>2, <1>5, Zenon DEF a, t, p, q
-----------------------------------------------------------------------------
(* The texts of both sides                                                 *)

\* Two elements appended one by one.
LEMMA AppendTwo ==
  ASSUME NEW S, NEW s \in Seq(S), NEW x \in S, NEW y \in S
  PROVE  Append(Append(s, x), y) = s \o <<x, y>>
<1>1. Append(s, x) \in Seq(S) /\ <<x>> \in Seq(S) /\ <<y>> \in Seq(S)
  OBVIOUS
<1>2. Append(Append(s, x), y) = Append(s, x) \o <<y>> /\ Append(s, x) = s \o <<x>>
  BY <1>1, AppendIsConcat
<1>3. (s \o <<x>>) \o <<y>> = s \o (<<x>> \o <<y>>)
  BY <1>1, ConcatAssociative
<1>4. <<x>> \o <<y>> = <<x, y>>
  <2>1. Append(<<x>>, y) = <<x>> \o <<y>>
    BY <1>1, AppendIsConcat, Zenon
  <2>2. Append(<<x>>, y) = <<x, y>>
    BY AppendToOne
  <2> QED
    BY <2>1, <2>2, Zenon
<1> QED
  BY <1>2, <1>3, <1>4, Zenon


\* What a text frame of the host tells.
LEMMA HostTells ==
  ASSUME NEW text \in Texts, NEW frame \in Framings(text)
  PROVE  frame \in Streams /\ OneFrame(frame) /\ Said(FrameAt(frame, 0)) = text
<1>1. PICK n \in SizesOf(text) : frame = TextFrame([what |-> text, size |-> n])
  BY DEF Framings
<1> DEFINE m == [what |-> text, size |-> n]
<1>2. n \in Nat /\ Fits(n) /\ (text # Unknown => n > 0)
  BY SizesAssumption DEF Fits
<1>3. m \in Messages /\ m.what = text /\ m.size = n
  BY <1>2 DEF Messages
<1> HIDE DEF m
<1>4. Fits(m.size)
  BY <1>2, <1>3
<1>5. /\ frame \in Streams /\ OneFrame(frame) /\ FrameAt(frame, 0).payload = Payload(m)
      /\ frame[1].value = FinBit + Text
  BY <1>1, <1>3, <1>4, TextFrameIs DEF m
<1>6. TextOf(Payload(m)) = text
  BY <1>2, <1>3, TextOfPayload
<1>7. FrameAt(frame, 0).opcode = Text /\ FrameAt(frame, 0).flags = FinBit \div Opcodes
  <2>1. frame[0 + 1].value = FinBit + Text
    BY <1>5
  <2> QED
    BY <2>1, Quotients DEF FrameAt
<1>8. Said(FrameAt(frame, 0)) = TextOf(FrameAt(frame, 0).payload)
  <2>1. Text # Continuation
    BY DEF Text, Continuation
  <2> QED
    BY <1>7, <2>1 DEF Said, IsMessage
<1> QED
  BY <1>5, <1>6, <1>8, Zenon

\* What a frame of a client asks.
LEMMA ClientAsks ==
  ASSUME NEW r \in Requests \cup {Unknown}, NEW masked \in BOOLEAN, NEW n \in SizesOf(r),
         NEW first \in FirstBytesOf(r), NEW frame, frame = ClientFrame(first, masked, [what |-> r, size |-> n])
  PROVE  /\ frame \in Streams /\ OneFrame(frame) /\ TextOf(FrameAt(frame, 0).payload) = r
         /\ AskedOf(FrameAt(frame, 0)) \in Requests \cup {Unknown, Part, Ending}
<1> DEFINE m == [what |-> r, size |-> n]
<1>1. r \in Texts
  BY DEF Texts
<1>2. n \in Nat /\ Fits(n) /\ (r # Unknown => n > 0)
  BY <1>1, SizesAssumption DEF Fits
<1>3. m \in Messages /\ m.what = r /\ m.size = n
  BY <1>1, <1>2 DEF Messages
<1>4. first \in Nat
  BY <1>1, FirstBytesAssumption
<1>5. frame = ClientFrame(first, masked, m)
  OBVIOUS
<1> HIDE DEF m
<1>6. Fits(m.size)
  BY <1>2, <1>3
<1>7. frame \in Streams /\ OneFrame(frame) /\ FrameAt(frame, 0).payload = Payload(m)
  BY <1>3, <1>4, <1>5, <1>6, ClientFrameIs
<1>8. TextOf(Payload(m)) = r
  BY <1>2, <1>3, TextOfPayload
<1>9. TextOf(FrameAt(frame, 0).payload) = r
  BY <1>7, <1>8, Zenon
<1>10. AskedOf(FrameAt(frame, 0)) \in {Ending, Part, r, Unknown}
  BY <1>9 DEF AskedOf, Said
<1> QED
  BY <1>7, <1>9, <1>10

\* A request is neither what no method has nor the end of the connection.
LEMMA RequestsAre ==
  /\ Unknown \notin Requests /\ Ending \notin Requests /\ Part \notin Requests
  /\ Unknown # Ending /\ Unknown # Part /\ Part # Ending
<1>1. Unknown[1] = "unknown" /\ Ending[1] = "ending" /\ Part[1] = "part"
  BY DEF Unknown, Ending, Part
<1>2. \A r \in Requests : r[1] \in {"record.start", "record.stop", "record.status",
                                    "replay.start", "replay.save", "replay.stop", "replay.status"}
  BY DEF Requests
<1> QED
  BY <1>1, <1>2

\* What a call answers: an error, a result, or a result and an event of its own.
LEMMA AnswerIs ==
  ASSUME NEW r \in Requests, NEW answer \in AnswerTypes, Call(r, answer)
  PROVE  \/ Len(answer) = 1 /\ answer[1] \in {"error", "result"}
         \/ Len(answer) = 2 /\ answer[1] = "result" /\ answer[2] \in EventsOf(r)
            /\ answer[2] \in {"record.started", "record.stopped", "replay.saved"}
<1>1. Refused = <<"error">> /\ Answered(<<>>) = <<"result">>
  BY DEF Refused, Answered
<1>2. \A e \in {"record.started", "record.stopped", "replay.saved"} : Answered(<<e>>) = <<"result", e>>
  <2> SUFFICES ASSUME NEW e \in {"record.started", "record.stopped", "replay.saved"}
               PROVE  Answered(<<e>>) = <<"result", e>>
    OBVIOUS
  <2>1. <<"result">> \in Seq({"result", e}) /\ e \in {"result", e}
    OBVIOUS
  <2>2. Append(<<"result">>, e) = <<"result">> \o <<e>>
    BY <2>1, AppendIsConcat, Zenon
  <2>3. Append(<<"result">>, e) = <<"result", e>>
    BY AppendToOne
  <2> QED
    BY <2>2, <2>3, Zenon DEF Answered
<1>3. CASE answer \in {Refused, Answered(<<>>)}
  BY <1>1, <1>3
<1>4. CASE \E e \in {"record.started", "record.stopped", "replay.saved"} : answer = Answered(<<e>>)
  <2>1. PICK e \in {"record.started", "record.stopped", "replay.saved"} : answer = <<"result", e>>
    BY <1>2, <1>4
  <2>2. Len(answer) = 2 /\ answer[1] = "result" /\ answer[2] = e
    BY <2>1
  <2>3. answer # Refused /\ answer # Answered(<<>>)
    BY <1>1, <2>2
  <2>4. \A d \in {"record.started", "record.stopped", "replay.saved"} : answer = Answered(<<d>>) => d = e
    BY <1>2, <2>2
  <2>5. e \in EventsOf(r)
    <3>1. CASE r[1] = "record.start"
      <4>1. answer = Answered(<<"record.started">>)
        BY <2>3, <3>1 DEF Call, StartRecord
      <4> QED
        BY <2>4, <3>1, <4>1 DEF EventsOf
    <3>2. CASE r[1] = "record.stop"
      <4>1. answer = Answered(<<"record.stopped">>)
        BY <2>3, <3>2 DEF Call, StopRecord, Finalize
      <4> QED
        BY <2>4, <3>2, <4>1 DEF EventsOf
    <3>3. CASE r[1] = "replay.save"
      <4>1. answer = Answered(<<"replay.saved">>)
        BY <2>3, <3>3 DEF Call, SaveReplay, Materialize
      <4> QED
        BY <2>4, <3>3, <4>1 DEF EventsOf
    <3>4. CASE r[1] \notin {"record.start", "record.stop", "replay.save"}
      BY <2>3, <3>4 DEF Call, StartReplay, StopReplay, Status
    <3> QED
      BY <3>1, <3>2, <3>3, <3>4
  <2> QED
    BY <2>2, <2>5
<1> QED
  BY <1>3, <1>4 DEF AnswerTypes

-----------------------------------------------------------------------------
(* The wire                                                                *)

\* Nothing but requests is spelled in the frames of a stream.
Spoken(s) ==
  \A k \in 1..Len(FramesIn(s)) : TextOf(FramesIn(s)[k].payload) \in Requests \cup {Unknown}

\* What every state of the connection has in common.
Wired ==
  /\ open \in BOOLEAN /\ joined \in BOOLEAN
  /\ toHost \in Streams /\ got \in Streams /\ toClient \in Streams
  /\ ~open => ~joined /\ toHost = <<>> /\ got = <<>>
  /\ ~joined => toClient = <<>>
  /\ joined => Framed(got \o toHost) /\ Framed(toClient)
  /\ NoMoreThanFrame(got) /\ Spoken(got \o toHost)
  /\ asked = Asked(got \o toHost) /\ told = Told(toClient)

\* Every step keeps the two histories.
Seen == asked' = Asked(got' \o toHost') /\ told' = Told(toClient')

\* Nothing is on a wire that is empty.
LEMMA EmptyWire ==
  /\ <<>> \in Streams /\ <<>> \o <<>> = <<>> /\ Framed(<<>>) /\ NoMoreThanFrame(<<>>) /\ Spoken(<<>>)
  /\ Asked(<<>>) = <<>> /\ Told(<<>>) = <<>>
  /\ \A s \in Streams : <<>> \o s = s /\ s \o <<>> = s
<1>1. <<>> \in Streams /\ Len(<<>>) = 0
  BY DEF Streams
<1>2. \A s \in Streams : <<>> \o s = s /\ s \o <<>> = s
  BY ConcatEmptySeq DEF Streams
<1>3. NoMoreThanFrame(<<>>)
  BY <1>1 DEF NoMoreThanFrame
<1>4. Spoken(<<>>)
  <2>1. FramesIn(<<>>) = <<>>
    BY FramesOfOne
  <2> QED
    BY <1>1, <2>1 DEF Spoken
<1> QED
  BY <1>1, <1>2, <1>3, <1>4, FramedBase, AskedOfOne

\* One more request leaves nothing but requests.
LEMMA SpokenNext ==
  ASSUME NEW s \in Streams, Framed(s), Spoken(s), NEW f \in Streams, OneFrame(f),
         TextOf(FrameAt(f, 0).payload) \in Requests \cup {Unknown}
  PROVE  Spoken(s \o f)
<1> DEFINE g == FrameAt(f, 0)
           q == FramesIn(s)
           z == FramesIn(s \o f)
<1>1. z = q \o <<g>> /\ q \in Seq(FrameSet) /\ g \in FrameSet
  <2>1. FramesIn(f) = <<g>> /\ FramesIn(f) \in Seq(FrameSet) /\ q \in Seq(FrameSet)
    BY FramesOfOne, FramesInTypes
  <2>2. z = FramesIn(s) \o FramesIn(f)
    BY FramesJoin
  <2> HIDE DEF g, q, z
  <2>3. g \in FrameSet
    BY <2>1
  <2> QED
    BY <2>1, <2>2, <2>3, Zenon DEF q
<1>2. \A k \in 1..Len(q) : TextOf(q[k].payload) \in Requests \cup {Unknown}
  BY DEF Spoken
<1>3. TextOf(g.payload) \in Requests \cup {Unknown}
  OBVIOUS
<1> HIDE DEF g, q, z
<1>4. Append(q, g) = z
  BY <1>1, AppendIsConcat
<1>5. Len(z) = Len(q) + 1 /\ Len(q) \in Nat /\ z[Len(q) + 1] = g /\ \A k \in 1..Len(q) : z[k] = q[k]
  BY <1>1, <1>4, LenProperties, AppendProperties
<1>6. ASSUME NEW k \in 1..Len(z) PROVE TextOf(z[k].payload) \in Requests \cup {Unknown}
  <2>1. k \in 1..Len(q) \/ k = Len(q) + 1
    BY <1>5
  <2> QED
    BY <1>2, <1>3, <1>5, <2>1
<1> QED
  BY <1>6 DEF Spoken, z

\* So does one less, or the loss of the end.
LEMMA SpokenPart ==
  ASSUME NEW a \in Streams, NEW b \in Streams, Spoken(a \o b)
  PROVE  Spoken(a) /\ (Framed(a) => Spoken(b))
<1>1. a \o b \in Streams
  BY JoinedStreams
<1>2. Spoken(a)
  <2> DEFINE x == FramesIn(a)
             z == FramesIn(a \o b)
  <2>1. PICK r \in Seq(FrameSet) : z = x \o r
    BY FramesOfPrefix
  <2>2. x \in Seq(FrameSet) /\ Len(x) \in Nat /\ Len(r) \in Nat
    BY FramesInTypes, LenProperties
  <2>3. \A k \in 1..Len(z) : TextOf(z[k].payload) \in Requests \cup {Unknown}
    BY DEF Spoken
  <2> HIDE DEF x, z
  <2>5. Len(z) = Len(x) + Len(r) /\ \A k \in 1..Len(x) : z[k] = x[k]
    BY <2>1, <2>2, ConcatProperties
  <2>4. ASSUME NEW k \in 1..Len(x) PROVE TextOf(x[k].payload) \in Requests \cup {Unknown}
    <3>1. k \in 1..Len(z)
      BY <2>2, <2>5
    <3> QED
      BY <2>3, <2>5, <3>1
  <2> QED
    BY <2>4 DEF Spoken, x
<1>3. ASSUME Framed(a) PROVE Spoken(b)
  <2> DEFINE x == FramesIn(a)
             y == FramesIn(b)
             z == FramesIn(a \o b)
  <2>1. z = x \o y
    BY <1>3, FramesJoin
  <2>2. x \in Seq(FrameSet) /\ y \in Seq(FrameSet) /\ Len(x) \in Nat /\ Len(y) \in Nat
    BY FramesInTypes, LenProperties
  <2>3. \A k \in 1..Len(z) : TextOf(z[k].payload) \in Requests \cup {Unknown}
    BY DEF Spoken
  <2> HIDE DEF x, y, z
  <2>4. /\ Len(z) = Len(x) + Len(y)
        /\ \A k \in 1..(Len(x) + Len(y)) : z[k] = IF k <= Len(x) THEN x[k] ELSE y[k - Len(x)]
    BY <2>1, <2>2, ConcatProperties
  <2>5. ASSUME NEW k \in 1..Len(y) PROVE TextOf(y[k].payload) \in Requests \cup {Unknown}
    <3>1. Len(x) + k \in 1..(Len(x) + Len(y)) /\ ~(Len(x) + k <= Len(x)) /\ (Len(x) + k) - Len(x) = k
      BY <2>2
    <3>2. z[Len(x) + k] = y[(Len(x) + k) - Len(x)]
      BY <2>4, <3>1
    <3> QED
      BY <2>3, <2>4, <3>1, <3>2
  <2> QED
    BY <2>5 DEF Spoken, y
<1> QED
  BY <1>2, <1>3
-----------------------------------------------------------------------------
(* What the host and the client do to the wire                             *)

\* There is nothing on a wire before there is a client.
LEMMA InitWired == Init => Wired /\ Calls!Init
<1> SUFFICES ASSUME Init PROVE Wired /\ Calls!Init
  OBVIOUS
<1>1. /\ open = FALSE /\ joined = FALSE /\ toHost = <<>> /\ got = <<>> /\ toClient = <<>>
      /\ asked = <<>> /\ told = <<>>
  BY DEF Init
<1>2. Wired
  BY <1>1, EmptyWire DEF Wired
<1>3. Calls!Init
  BY <1>1 DEF Calls!Init
<1> QED
  BY <1>2, <1>3

\* One text, and two, are sent whole, or are gone.
LEMMA Sent ==
  ASSUME Wired, NEW reply \in Texts, NEW event \in Texts, told' = Told(toClient'),
         NEW messages, \/ Send(reply) /\ messages = <<reply>>
                       \/ SendBoth(reply, event) /\ messages = <<reply, event>>
  PROVE  /\ toClient' \in Streams /\ (~joined => toClient' = <<>>) /\ (joined => Framed(toClient'))
         /\ Calls!Tell(messages)
<1>1. /\ toClient \in Streams /\ (~joined => toClient = <<>>) /\ (joined => Framed(toClient))
      /\ told = Told(toClient) /\ told \in Seq(Tellings)
  BY AskedTypes DEF Wired
<1>2. CASE ~joined
  <2>1. toClient' = toClient
    BY <1>2 DEF Send, SendBoth
  <2> QED
    BY <1>1, <1>2, <2>1 DEF Calls!Tell
<1>3. CASE joined /\ Send(reply) /\ messages = <<reply>>
  <2>1. PICK frame \in Framings(reply) : toClient' = toClient \o frame
    BY <1>3 DEF Send
  <2>2. frame \in Streams /\ OneFrame(frame) /\ Said(FrameAt(frame, 0)) = reply
    BY HostTells
  <2>3. /\ toClient' \in Streams /\ Framed(toClient')
        /\ told' = Append(told, reply)
    BY <1>1, <1>3, <2>1, <2>2, AskedNext
  <2>4. told' = told \o <<reply>>
    <3>1. reply \in Tellings
      <4>1. FrameAt(frame, 0) \in FrameSet
        BY <2>2, FramesOfOne, FramesInTypes, FrameTypes DEF OneFrame
      <4> QED
        BY <2>2, <4>1 DEF Tellings
    <3>2. Append(told, reply) = told \o <<reply>>
      BY <1>1, <3>1, AppendIsConcat, Zenon
    <3> QED
      BY <2>3, <3>2
  <2> QED
    BY <1>3, <2>3, <2>4 DEF Calls!Tell
<1>4. CASE joined /\ SendBoth(reply, event) /\ messages = <<reply, event>>
  <2>1. PICK first \in Framings(reply), second \in Framings(event) : toClient' = toClient \o first \o second
    BY <1>4 DEF SendBoth
  <2>2. /\ first \in Streams /\ OneFrame(first) /\ Said(FrameAt(first, 0)) = reply
        /\ second \in Streams /\ OneFrame(second) /\ Said(FrameAt(second, 0)) = event
    BY HostTells
  <2> DEFINE s == toClient \o first
  <2>3. s \in Streams /\ Framed(s) /\ Told(s) = Append(told, reply)
    BY <1>1, <1>4, <2>2, AskedNext
  <2> HIDE DEF s
  <2>4. s \o second \in Streams /\ Framed(s \o second) /\ Told(s \o second) = Append(Told(s), event)
    BY <2>2, <2>3, AskedNext
  <2>5. told' = told \o <<reply, event>>
    <3>1. reply \in Tellings /\ event \in Tellings
      <4>1. FrameAt(first, 0) \in FrameSet /\ FrameAt(second, 0) \in FrameSet
        BY <2>2, FramesOfOne, FramesInTypes, FrameTypes DEF OneFrame
      <4> QED
        BY <2>2, <4>1 DEF Tellings
    <3>2. Append(Append(told, reply), event) = told \o <<reply, event>>
      BY <1>1, <3>1, AppendTwo, Zenon
    <3>3. told' = Append(Append(told, reply), event)
      BY <2>1, <2>3, <2>4, Zenon DEF s
    <3> QED
      BY <3>2, <3>3
  <2> QED
    BY <1>4, <2>1, <2>4, <2>5 DEF Calls!Tell, s
<1> QED
  BY <1>2, <1>3, <1>4

\* The events that greet a client.
LEMMA GreetWired ==
  ASSUME Wired, Greet, Seen
  PROVE  Wired' /\ Calls!Connect
<1>1. /\ ~open /\ open' = TRUE /\ joined' = TRUE /\ toHost' = <<>> /\ got' = <<>>
  BY DEF Greet, Wired
<1> DEFINE a == <<"host.started">>
           b == <<"host.ready">>
<1>2. a \in Texts /\ b \in Texts
  BY DEF Texts
<1>3. PICK first \in Framings(a), second \in Framings(b) : toClient' = first \o second
  BY DEF Greet
<1> HIDE DEF a, b
<1>4. /\ first \in Streams /\ OneFrame(first) /\ Said(FrameAt(first, 0)) = a
      /\ second \in Streams /\ OneFrame(second) /\ Said(FrameAt(second, 0)) = b
  BY <1>2, HostTells
<1>5. Framed(first) /\ Told(first) = <<a>>
  BY <1>4, FramedBase, AskedOfOne
<1>6. toClient' \in Streams /\ Framed(toClient') /\ Told(toClient') = Append(Told(first), b)
  BY <1>3, <1>4, <1>5, AskedNext
<1>7. told' = <<a, b>>
  <2>1. Append(<<a>>, b) = <<a, b>>
    BY AppendToOne
  <2> QED
    BY <1>5, <1>6, <2>1, Zenon DEF Seen
<1>8. asked' = asked
  BY <1>1, EmptyWire DEF Seen, Wired, Greet
<1>9. Wired'
  BY <1>1, <1>6, EmptyWire DEF Wired, Seen
<1> QED
  BY <1>1, <1>7, <1>8, <1>9 DEF Calls!Connect, Calls!Greeting, a, b

\* The connection ends, and with it all that was on the wire.
LEMMA HungUp ==
  ASSUME HangUp, Seen
  PROVE  Wired' /\ open' = FALSE /\ joined' = FALSE /\ asked' = <<>> /\ told' = <<>>
BY EmptyWire DEF HangUp, Seen, Wired

\* Some bytes arrive: they are read as before.
LEMMA ReceiveWired ==
  ASSUME Wired, Receive, Seen
  PROVE  Wired' /\ UNCHANGED Calls!vars
<1>1. /\ open \in BOOLEAN /\ joined \in BOOLEAN /\ toHost \in Streams /\ got \in Streams /\ NoMoreThanFrame(got)
      /\ open /\ Wanted(got) > 0 /\ toHost # <<>> /\ UNCHANGED <<open, joined, toClient>>
  BY DEF Wired, Receive
<1> DEFINE most == Min({Wanted(got), Len(toHost)})
<1>2. PICK n \in (IF Probing THEN 1 ELSE most)..most :
        got' = got \o SubSeq(toHost, 1, n) /\ toHost' = SubSeq(toHost, n + 1, Len(toHost))
  BY DEF Receive
<1>3. Wanted(got) \in Nat /\ Len(toHost) \in Nat
  BY <1>1, WantedIs, StreamTypes
<1>4. most \in {Wanted(got), Len(toHost)} /\ most <= Wanted(got) /\ most <= Len(toHost) /\ most \in Nat
  <2>1. {Wanted(got), Len(toHost)} \in SUBSET Nat /\ {Wanted(got), Len(toHost)} # {}
    BY <1>3
  <2> DEFINE S == {Wanted(got), Len(toHost)}
  <2> HIDE DEF S
  <2>2. Min(S) \in S /\ \A y \in S : Min(S) <= y
    BY <2>1, MinIs DEF S
  <2> QED
    BY <1>3, <2>2 DEF S
<1> HIDE DEF most
<1>5. n \in 0..Len(toHost) /\ n <= Wanted(got)
  BY <1>3, <1>4
<1> DEFINE more == SubSeq(toHost, 1, n)
           rest == SubSeq(toHost, n + 1, Len(toHost))
<1>6. more \in Streams /\ Len(more) = n /\ rest \in Streams /\ toHost = more \o rest
  BY <1>1, <1>5, CutJoin
<1>7. got' = got \o more /\ toHost' = rest
  BY <1>2
<1> HIDE DEF more, rest
<1>8. got' \in Streams /\ NoMoreThanFrame(got')
  BY <1>1, <1>5, <1>6, <1>7, JoinedStreams, ReceiveWithin
<1>9. got' \o toHost' = got \o toHost
  <2>1. (got \o more) \o rest = got \o (more \o rest)
    BY <1>1, <1>6, ConcatAssociative DEF Streams
  <2> QED
    BY <1>6, <1>7, <2>1, Zenon
<1>10. asked' = asked /\ told' = told
  <2>1. asked' = Asked(got \o toHost) /\ told' = Told(toClient)
    BY <1>1, <1>9, Zenon DEF Seen
  <2> QED
    BY <2>1 DEF Wired
<1>11. Wired'
  <2>1. toHost' \in Streams
    BY <1>6, <1>7
  <2>2. (joined' => Framed(got' \o toHost') /\ Framed(toClient')) /\ Spoken(got' \o toHost')
    <3>1. (joined => Framed(got \o toHost) /\ Framed(toClient)) /\ Spoken(got \o toHost)
      BY DEF Wired
    <3>2. joined' = joined /\ toClient' = toClient
      BY <1>1
    <3> QED
      BY <1>9, <3>1, <3>2, Zenon
  <2>3. toClient \in Streams /\ (~joined => toClient = <<>>)
    BY DEF Wired
  <2> QED
    BY <1>1, <1>8, <2>1, <2>2, <2>3 DEF Wired, Seen
<1> QED
  BY <1>1, <1>10, <1>11 DEF Calls!vars

\* What arrived first, of a wire whose frames are whole.
LEMMA FirstArrived ==
  ASSUME Wired, joined, got # <<>>
  PROVE  /\ HasFrameAt(got \o toHost, 0) /\ asked # <<>>
         /\ Head(asked) = AskedOf(FrameAt(got \o toHost, 0))
<1> DEFINE s == got \o toHost
<1>1. got \in Streams /\ toHost \in Streams /\ Framed(s) /\ asked = Asked(s) /\ Len(got) \in Nat \ {0}
  BY StreamTypes, EmptySeq DEF Wired, Streams
<1>2. s \in Streams /\ Len(s) # 0
  BY <1>1, JoinedStreams, StreamTypes
<1> HIDE DEF s
<1>3. s # <<>>
  BY <1>2
<1>4. HasFrameAt(s, 0)
  BY <1>1, <1>2, <1>3, FramedFirst
<1> QED
  BY <1>1, <1>2, <1>4, AskedFirst DEF s

\* The frame that the host has whole is the first thing asked.
LEMMA WholeIsFirst ==
  ASSUME Wired, Whole
  PROVE  /\ OneFrame(got) /\ Framed(got) /\ got # <<>>
         /\ asked # <<>> /\ Head(asked) = AskedOf(FrameAt(got, 0)) /\ Tail(asked) = Asked(toHost)
         /\ IF Opcode(got) = Close THEN AskedOf(FrameAt(got, 0)) = Ending
                                  ELSE AskedOf(FrameAt(got, 0)) \in {Message, Part}
         /\ Message \in Requests \cup {Unknown}
         /\ Spoken(toHost)
<1>1. /\ got \in Streams /\ toHost \in Streams /\ NoMoreThanFrame(got) /\ Spoken(got \o toHost)
      /\ asked = Asked(got \o toHost) /\ ~TooLong(got) /\ Wanted(got) = 0
  BY DEF Wired, Whole
<1>2. /\ OneFrame(got) /\ FrameAt(got, 0).opcode = Opcode(got)
      /\ FrameAt(got, 0).extended # LongDigits /\ FrameAt(got, 0).payload = ReadPayload(got)
  BY <1>1, WholeIsOne
<1>3. Framed(got) /\ got # <<>>
  <2>1. Framed(got)
    BY <1>1, <1>2, FramedBase
  <2>2. Len(got) >= 0 + 2 /\ Len(got) \in Nat
    BY <1>1, <1>2, StreamTypes DEF OneFrame, HasFrameAt
  <2>3. Len(got) # 0
    BY <2>2
  <2> QED
    BY <2>1, <2>3
<1> DEFINE s == got \o toHost
<1>4. s \in Streams /\ HasFrameAt(s, 0) /\ FrameAt(s, 0) = FrameAt(got, 0)
  <2>1. 0 \in 0..Len(got) /\ HasFrameAt(got, 0)
    BY <1>1, <1>2, StreamTypes DEF OneFrame
  <2> QED
    BY <1>1, <2>1, JoinedStreams, FrameOfPrefix
<1> DEFINE f == FrameAt(got, 0)
<1>5. Asked(s) = <<AskedOf(f)>> \o Asked(toHost) 
  <2>1. Asked(s) = Asked(got) \o Asked(toHost)
    BY <1>1, <1>3, AskedJoin
  <2>2. Asked(got) = <<AskedOf(f)>>
    BY <1>1, <1>2, AskedOfOne
  <2> QED
    BY <2>1, <2>2, Zenon
<1>6. AskedOf(f) \in Askings
  <2>1. FramesIn(got) = <<f>> /\ FramesIn(got) \in Seq(FrameSet)
    BY <1>1, <1>2, FramesOfOne, FramesInTypes
  <2> QED
    BY <2>1 DEF Askings
<1>7. asked # <<>> /\ Head(asked) = AskedOf(f) /\ Tail(asked) = Asked(toHost)
  <2> DEFINE a == AskedOf(f)
             p == Asked(toHost)
  <2>1. p \in Seq(Askings) /\ a \in Askings /\ asked = <<a>> \o p
    BY <1>1, <1>5, <1>6, AskedTypes
  <2> HIDE DEF a, p
  <2>2. asked # <<>> /\ Head(asked) = a /\ Tail(asked) = p
    BY <2>1, Prepended
  <2> QED
    BY <2>2 DEF a, p
<1>8. TextOf(f.payload) \in Requests \cup {Unknown}
  <2>1. Spoken(got)
    BY <1>1, SpokenPart
  <2>2. FramesIn(got) = <<f>>
    BY <1>1, <1>2, FramesOfOne
  <2> HIDE DEF f
  <2>3. 1 \in 1..Len(FramesIn(got)) /\ FramesIn(got)[1] = f
    BY <2>2
  <2> QED
    BY <2>1, <2>3 DEF Spoken
<1>9. Spoken(toHost)
  BY <1>1, <1>3, SpokenPart
<1>10. /\ f.opcode = Opcode(got) /\ f.extended # LongDigits
       /\ Message = IF f.opcode = Text THEN TextOf(f.payload) ELSE Unknown
  BY <1>2 DEF Message
<1> HIDE DEF f
<1>11. Message \in Requests \cup {Unknown}
  BY <1>8, <1>10
<1>12. IF Opcode(got) = Close THEN AskedOf(f) = Ending ELSE AskedOf(f) \in {Message, Part}
  <2>1. CASE IsMessage(f)
    BY <1>10, <2>1 DEF AskedOf, Said
  <2>2. CASE ~IsMessage(f)
    BY <1>10, <2>2 DEF AskedOf
  <2> QED
    BY <2>1, <2>2
<1> QED
  BY <1>2, <1>3, <1>7, <1>9, <1>11, <1>12 DEF f

\* A request is taken and answered.
LEMMA HandleWired ==
  ASSUME Wired, HandleMessage, Seen
  PROVE  Wired' /\ Calls!Take
<1>1. /\ Whole /\ Opcode(got) # Close /\ got' = <<>> /\ UNCHANGED <<open, joined, toHost>>
      /\ open /\ toHost \in Streams /\ open \in BOOLEAN /\ joined \in BOOLEAN
  BY DEF HandleMessage, Whole, Wired
<1>2. /\ asked # <<>> /\ Head(asked) \in {Message, Part} /\ Tail(asked) = Asked(toHost)
      /\ Framed(got) /\ OneFrame(got) /\ Message \in Requests \cup {Unknown} /\ Spoken(toHost)
  BY <1>1, WholeIsFirst
<1>3. Message # Ending /\ Part # Ending /\ Message # Part
  BY <1>2, RequestsAre
<1>4. got' \o toHost' = toHost /\ asked' = Tail(asked)
  <2>1. <<>> \o toHost = toHost
    BY <1>1, EmptyWire
  <2>2. got' \o toHost' = toHost
    BY <1>1, <2>1, Zenon
  <2> QED
    BY <1>2, <2>2, Zenon DEF Seen
<1>5. /\ toClient' \in Streams /\ (~joined => toClient' = <<>>) /\ (joined => Framed(toClient'))
      /\ \E a \in Calls!AnswersTo(Message) : Calls!Tell(a)
  <2>1. told' = Told(toClient')
    BY DEF Seen
  <2> DEFINE Goal == /\ toClient' \in Streams /\ (~joined => toClient' = <<>>) /\ (joined => Framed(toClient'))
                     /\ \E a \in Calls!AnswersTo(Message) : Calls!Tell(a)
  <2>2. CASE Message \in Requests
    <3>1. PICK answer \in AnswerTypes :
            /\ Call(Message, answer)
            /\ IF Len(answer) = 1 THEN Send(<<answer[1], Message>>)
                                  ELSE SendBoth(<<answer[1], Message>>, <<answer[2]>>)
      BY <2>2 DEF HandleMessage
    <3>2. Message # Unknown
      BY <2>2, RequestsAre
    <3>3. CASE Len(answer) = 1 /\ answer[1] \in {"error", "result"}
      <4> DEFINE reply == <<answer[1], Message>>
      <4>1. reply \in Texts
        BY <2>2, <3>3 DEF Texts
      <4>2. Send(reply)
        BY <3>1, <3>3
      <4>3. <<reply>> \in Calls!AnswersTo(Message)
        BY <3>2, <3>3 DEF Calls!AnswersTo
      <4> HIDE DEF reply
      <4>4. Goal
        BY <2>1, <4>1, <4>2, <4>3, Sent
      <4> QED
        BY <4>4
    <3>4. CASE Len(answer) = 2 /\ answer[1] = "result" /\ answer[2] \in EventsOf(Message)
               /\ answer[2] \in {"record.started", "record.stopped", "replay.saved"}
      <4> DEFINE reply == <<answer[1], Message>>
                 event == <<answer[2]>>
      <4>1. reply \in Texts /\ event \in Texts
        BY <2>2, <3>4 DEF Texts
      <4>2. SendBoth(reply, event)
        BY <3>1, <3>4
      <4>3. <<reply, event>> \in Calls!AnswersTo(Message)
        BY <3>2, <3>4 DEF Calls!AnswersTo
      <4> HIDE DEF reply, event
      <4>4. Goal
        BY <2>1, <4>1, <4>2, <4>3, Sent
      <4> QED
        BY <4>4
    <3> QED
      BY <2>2, <3>1, <3>3, <3>4, AnswerIs
  <2>3. CASE Message \notin Requests
    <3> DEFINE reply == <<"error", Unknown>>
    <3>1. Message = Unknown /\ Send(reply)
      BY <1>2, <2>3 DEF HandleMessage
    <3>2. reply \in Texts
      BY DEF Texts
    <3>3. <<reply>> \in Calls!AnswersTo(Message)
      BY <3>1 DEF Calls!AnswersTo
    <3> HIDE DEF reply
    <3>4. Goal
      BY <2>1, <3>1, <3>2, <3>3, Sent
    <3> QED
      BY <3>4
  <2> QED
    BY <2>2, <2>3
<1>6. joined => Framed(toHost)
  <2>1. joined => Framed(got \o toHost)
    BY DEF Wired
  <2>2. got \in Streams
    BY DEF Wired
  <2> QED
    BY <1>1, <1>2, <2>1, <2>2, FramedRest
<1>7. Wired'
  <2>1. got' \in Streams /\ NoMoreThanFrame(got')
    BY <1>1, EmptyWire
  <2>2. Spoken(got' \o toHost') /\ (joined' => Framed(got' \o toHost') /\ Framed(toClient'))
    <3>1. joined' = joined
      BY <1>1
    <3> QED
      BY <1>2, <1>4, <1>5, <1>6, <3>1, Zenon
  <2> QED
    BY <1>1, <1>5, <2>1, <2>2 DEF Wired, Seen
<1>8. Calls!AnswersTo(Message) \subseteq Calls!Answers(Head(asked))
  <2>1. CASE Head(asked) = Message
    BY <1>3, <2>1 DEF Calls!Answers
  <2>2. CASE Head(asked) = Part
    BY <1>2, <2>2 DEF Calls!Answers
  <2> QED
    BY <1>2, <2>1, <2>2
<1>9. \E a \in Calls!Answers(Head(asked)) : Calls!Tell(a)
  BY <1>5, <1>8
<1> QED
  BY <1>1, <1>2, <1>3, <1>4, <1>7, <1>9 DEF Calls!Take

\* The host ends the connection for no other reason than the abstract host.
LEMMA EndWired ==
  ASSUME Wired, EndOfClient, Seen
  PROVE  Wired' /\ Calls!GiveUp
<1>1. Wired' /\ open' = FALSE /\ joined' = FALSE /\ asked' = <<>> /\ told' = <<>>
  BY HungUp DEF EndOfClient
<1>2. open /\ (~joined \/ (asked # <<>> /\ Head(asked) = Ending))
  <2>1. CASE open /\ TooLong(got) /\ joined
    <3>1. got \in Streams /\ toHost \in Streams /\ Len(got) \in Nat /\ Len(got) >= 2 /\ Mark(got) = Plain + 1
      BY <2>1, StreamTypes DEF Wired, TooLong
    <3>2. got # <<>>
      BY <3>1
    <3> DEFINE s == got \o toHost
    <3>3. asked # <<>> /\ Head(asked) = AskedOf(FrameAt(s, 0))
      BY <2>1, <3>2, FirstArrived
    <3>4. s[2] = got[2]
      BY <3>1, JoinedStreams
    <3> HIDE DEF s
    <3>5. ExtendedAt(s, 0) = LongDigits
      <4>1. s[0 + 2].value % MaskBit = Plain + 1
        BY <3>1, <3>4 DEF Mark
      <4> QED
        BY <4>1, WireAssumption DEF ExtendedAt
    <3>6. AskedOf(FrameAt(s, 0)) = Ending
      BY <3>5 DEF AskedOf, FrameAt
    <3> QED
      BY <2>1, <3>3, <3>6
  <2>2. CASE Whole /\ Opcode(got) = Close
    BY <2>2, WholeIsFirst DEF Whole
  <2>3. CASE open /\ ~joined
    BY <2>3
  <2> QED
    BY <2>1, <2>2, <2>3 DEF EndOfClient
<1> QED
  BY <1>1, <1>2 DEF Calls!GiveUp

\* A heartbeat is sent, or shows that the client has left.
LEMMA HeartbeatWired ==
  ASSUME Wired, Heartbeat, Seen
  PROVE  Wired' /\ (Calls!Heartbeat \/ Calls!GiveUp)
<1>1. CASE joined
  <2> DEFINE beat == <<"host.heartbeat">>
  <2>1. open /\ Send(beat) /\ UNCHANGED <<open, joined, toHost, got>>
    BY <1>1 DEF Heartbeat
  <2>2. beat \in Texts
    BY DEF Texts
  <2> HIDE DEF beat
  <2>3. told' = Told(toClient')
    BY DEF Seen
  <2>4. /\ toClient' \in Streams /\ (~joined => toClient' = <<>>) /\ (joined => Framed(toClient'))
        /\ Calls!Tell(<<beat>>)
    BY <2>1, <2>2, <2>3, Sent
  <2>5. asked' = asked
    BY <2>1 DEF Seen, Wired
  <2>6. Wired'
    BY <2>1, <2>4 DEF Wired, Seen
  <2> QED
    BY <2>1, <2>4, <2>5, <2>6 DEF Calls!Heartbeat, beat
<1>2. CASE ~joined
  <2>1. open /\ HangUp
    BY <1>2 DEF Heartbeat
  <2>2. Wired' /\ open' = FALSE /\ joined' = FALSE /\ asked' = <<>> /\ told' = <<>>
    BY <2>1, HungUp
  <2> QED
    BY <1>2, <2>1, <2>2 DEF Calls!GiveUp
<1> QED
  BY <1>1, <1>2

\* A client's frame is one more request.
LEMMA AskWired ==
  ASSUME Wired, Ask, Seen
  PROVE  Wired' /\ \E r \in Requests \cup {Unknown, Part, Ending} : Calls!Ask(r)
<1>1. /\ open /\ joined /\ UNCHANGED <<open, joined, got, toClient>>
      /\ toHost \in Streams /\ got \in Streams /\ Framed(got \o toHost) /\ Spoken(got \o toHost)
      /\ asked = Asked(got \o toHost)
  BY DEF Wired, Ask
<1>2. PICK r \in Requests \cup {Unknown}, masked \in BOOLEAN :
        \E n \in SizesOf(r), first \in FirstBytesOf(r) :
          toHost' = toHost \o ClientFrame(first, masked, [what |-> r, size |-> n])
  BY DEF Ask
<1> PICK n \in SizesOf(r), first \in FirstBytesOf(r) :
      toHost' = toHost \o ClientFrame(first, masked, [what |-> r, size |-> n])
  BY <1>2
<1> DEFINE f == ClientFrame(first, masked, [what |-> r, size |-> n])
<1>3. /\ f \in Streams /\ OneFrame(f) /\ TextOf(FrameAt(f, 0).payload) \in Requests \cup {Unknown}
      /\ AskedOf(FrameAt(f, 0)) \in Requests \cup {Unknown, Part, Ending}
  BY ClientAsks
<1>4. toHost' = toHost \o f
  OBVIOUS
<1> HIDE DEF f
<1> DEFINE s == got \o toHost
<1>5. s \in Streams
  BY <1>1, JoinedStreams
<1>6. got' \o toHost' = s \o f
  <2>1. (got \o toHost) \o f = got \o (toHost \o f)
    BY <1>1, <1>3, ConcatAssociative DEF Streams
  <2>2. got' = got
    BY <1>1
  <2> QED
    BY <1>4, <2>1, <2>2, Zenon
<1>7. toHost' \in Streams
  BY <1>1, <1>3, <1>4, JoinedStreams
<1>8. Framed(s) /\ Spoken(s) /\ asked = Asked(s)
  BY <1>1
<1> HIDE DEF s
<1>9. Framed(s \o f) /\ Asked(s \o f) = Append(Asked(s), AskedOf(FrameAt(f, 0)))
  BY <1>3, <1>5, <1>8, AskedNext
<1>10. Spoken(s \o f)
  BY <1>3, <1>5, <1>8, SpokenNext
<1>11. Wired'
  <2>1. Framed(got' \o toHost') /\ Spoken(got' \o toHost')
    BY <1>6, <1>9, <1>10, Zenon
  <2> QED
    BY <1>1, <1>7, <2>1 DEF Wired, Seen
<1>12. asked' = Append(asked, AskedOf(FrameAt(f, 0))) /\ told' = told
  <2>1. asked' = Append(asked, AskedOf(FrameAt(f, 0)))
    BY <1>6, <1>8, <1>9, Zenon DEF Seen
  <2> QED
    BY <1>1, <2>1 DEF Seen, Wired
<1>13. Calls!Ask(AskedOf(FrameAt(f, 0)))
  BY <1>1, <1>12 DEF Calls!Ask
<1> QED
  BY <1>3, <1>11, <1>13

\* A client hears one message.
LEMMA HearWired ==
  ASSUME Wired, Hear, Seen
  PROVE  Wired' /\ Calls!Hear
<1>1. /\ joined /\ told # <<>> /\ told = Told(toClient) /\ toClient \in Streams /\ Framed(toClient)
      /\ UNCHANGED <<open, joined, toHost, got>>
      /\ toClient' = SubSeq(toClient, EndAt(toClient, 0) + 1, Len(toClient))
  BY DEF Wired, Hear
<1>2. toClient # <<>>
  BY <1>1, EmptyWire
<1>3. HasFrameAt(toClient, 0)
  BY <1>1, <1>2, FramedFirst
<1>4. PICK f, r \in Streams :
        /\ toClient = f \o r /\ OneFrame(f) /\ r = SubSeq(toClient, EndAt(toClient, 0) + 1, Len(toClient))
        /\ Tail(Told(toClient)) = Told(r)
  BY <1>1, <1>3, AskedFirst
<1>5. toClient' = r
  BY <1>1, <1>4
<1>6. Framed(r)
  <2>1. Framed(f \o r)
    BY <1>1, <1>4
  <2> QED
    BY <1>4, <2>1, FramedRest
<1>7. told' = Tail(told) /\ asked' = asked
  BY <1>1, <1>4, <1>5 DEF Seen, Wired
<1>8. Wired'
  BY <1>1, <1>5, <1>6 DEF Wired, Seen
<1> QED
  BY <1>1, <1>7, <1>8 DEF Calls!Hear

\* A client leaves, and the last of its requests may be lost.
LEMMA LeaveWired ==
  ASSUME Wired, Leave, Seen
  PROVE  Wired' /\ Calls!Leave
<1>1. /\ joined /\ joined' = FALSE /\ toClient' = <<>> /\ UNCHANGED <<open, got>>
      /\ toHost \in Streams /\ got \in Streams /\ Spoken(got \o toHost) /\ asked = Asked(got \o toHost)
      /\ open \in BOOLEAN /\ open /\ NoMoreThanFrame(got)
  BY DEF Wired, Leave
<1>2. PICK n \in 0..Len(toHost) : toHost' = SubSeq(toHost, 1, n)
  BY DEF Leave
<1> DEFINE kept == SubSeq(toHost, 1, n)
           lost == SubSeq(toHost, n + 1, Len(toHost))
<1>3. kept \in Streams /\ lost \in Streams /\ toHost = kept \o lost
  BY <1>1, CutJoin
<1>4. toHost' = kept
  BY <1>2
<1> HIDE DEF kept, lost
<1> DEFINE a == got \o kept
<1>5. a \in Streams /\ got \o toHost = a \o lost
  <2>1. (got \o kept) \o lost = got \o (kept \o lost)
    BY <1>1, <1>3, ConcatAssociative DEF Streams
  <2>2. got \o toHost = a \o lost
    BY <1>3, <2>1, Zenon
  <2>3. a \in Streams
    BY <1>1, <1>3, JoinedStreams
  <2> QED
    BY <2>2, <2>3
<1>6. got' \o toHost' = a
  BY <1>1, <1>4
<1>7. Spoken(a \o lost) /\ asked = Asked(a \o lost)
  BY <1>1, <1>5, Zenon
<1> HIDE DEF a
<1>8. PICK k \in 0..Len(asked) : Asked(a) = SubSeq(asked, 1, k)
  <2>1. \E k \in 0..Len(Asked(a \o lost)) : Asked(a) = SubSeq(Asked(a \o lost), 1, k)
    BY <1>3, <1>5, AskedOfPrefix
  <2> QED
    BY <1>7, <2>1, Zenon
<1>9. asked' = SubSeq(asked, 1, k)
  BY <1>6, <1>8, Zenon DEF Seen
<1>10. told' = <<>>
  BY <1>1, EmptyWire DEF Seen
<1>11. Wired'
  <2>1. Spoken(got' \o toHost')
    <3>1. Spoken(a)
      BY <1>3, <1>5, <1>7, SpokenPart
    <3> QED
      BY <1>6, <3>1, Zenon
  <2> QED
    BY <1>1, <1>3, <1>4, <2>1, EmptyWire DEF Wired, Seen
<1> QED
  BY <1>1, <1>8, <1>9, <1>10, <1>11 DEF Calls!Leave

\* The comment of send_record_result, of every client and every number of
\* frames, whatever the network cuts: the bytes of both directions are requests
\* taken once and in order, each with its reply and then its event.
THEOREM CallsImplemented == Spec => ImplementsCalls
<1>1. Init => Wired /\ Calls!Init
  BY InitWired
<1>2. Wired /\ [Next]_vars => Wired' /\ [Calls!Next]_Calls!vars
  <2> SUFFICES ASSUME Wired, [Next]_vars PROVE Wired' /\ [Calls!Next]_Calls!vars
    OBVIOUS
  <2>1. CASE UNCHANGED vars
    BY <2>1 DEF vars, Wired, Calls!vars, Spoken
  <2>2. CASE Next
    <3>1. Seen
      BY <2>2 DEF Next, Seen
    <3>2. CASE Greet
      BY <3>1, <3>2, GreetWired DEF Calls!Next
    <3>3. CASE Receive
      BY <3>1, <3>3, ReceiveWired
    <3>4. CASE HandleMessage
      BY <3>1, <3>4, HandleWired DEF Calls!Next
    <3>5. CASE EndOfClient
      BY <3>1, <3>5, EndWired DEF Calls!Next
    <3>6. CASE Heartbeat
      BY <3>1, <3>6, HeartbeatWired DEF Calls!Next
    <3>7. CASE Ask
      BY <3>1, <3>7, AskWired DEF Calls!Next
    <3>8. CASE Hear
      BY <3>1, <3>8, HearWired DEF Calls!Next
    <3>9. CASE Leave
      BY <3>1, <3>9, LeaveWired DEF Calls!Next
    <3> QED
      BY <2>2, <3>2, <3>3, <3>4, <3>5, <3>6, <3>7, <3>8, <3>9 DEF Next, Host, Client
  <2> QED
    BY <2>1, <2>2
<1> QED
  BY <1>1, <1>2, PTL DEF Spec, ImplementsCalls, Calls!Spec
=============================================================================
