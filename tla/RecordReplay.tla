---------------------------- MODULE RecordReplay ----------------------------
(***************************************************************************)
(* RecordReplayController: named recordings and replay buffers, and the    *)
(* files they leave under the state directory.                             *)
(*                                                                         *)
(* Sessions are keyed by the id a client chose, files by the destination   *)
(* it chose, and the two are not the same: several sessions may share a    *)
(* file, and a session that is started again starts its file again.        *)
(* RecordSession is the specification: it has the verbs called over the    *)
(* control connection.  An operation is given what it answers.             *)
(***************************************************************************)
EXTENDS Naturals, Sequences, FiniteSets

CONSTANTS
  RecordIds,     \* ids a client gives its recordings
  ReplayIds,     \* and its replay buffers
  Destinations,  \* relative paths a client may name
  None,
  MaxSaves       \* bound of the exploration: saves of one replay session

ASSUME NoneAssumption == None \notin RecordIds \cup ReplayIds \cup Destinations
ASSUME BoundAssumption == MaxSaves \in Nat

VARIABLES
  records,   \* records_: None, or the session's path, running and frame_count
  replays,   \* replays_: None, or the session's running, save_seq and chunks
  files,     \* recordings on disk: the writes each file consists of
  segments,  \* replays on disk: chunks of replays/<id>-<seq>.mkv, 0: no file
  writers,   \* history: the ids that started a recording in each file
  announced  \* history: segments a replay.saved event named

recordVars == <<records, replays, files, segments, writers, announced>>

ReplayChunks == 4
Seqs == 1..MaxSaves

\* What a client may ask for: a method of the table and its ids.
Requests ==
  ({"record.start"} \X RecordIds \X Destinations)
  \cup ({"record.stop", "record.status"} \X RecordIds)
  \cup ({"replay.start", "replay.save", "replay.stop", "replay.status"} \X ReplayIds)

RecordInit ==
  /\ records = [i \in RecordIds |-> None] /\ replays = [i \in ReplayIds |-> None]
  /\ files = [d \in Destinations |-> <<>>]
  /\ segments = [i \in ReplayIds |-> [n \in Seqs |-> 0]]
  /\ writers = [d \in Destinations |-> {}]
  /\ announced = {}

-----------------------------------------------------------------------------
(* send_record_result                                                      *)

\* An error is the whole answer; the event of a call that succeeded is sent
\* after its reply.
Refused == <<"error">>

Answered(events) == <<"result">> \o events
AnswerTypes ==
  {Refused, Answered(<<>>)}
  \cup {Answered(<<e>>) : e \in {"record.started", "record.stopped", "replay.saved"}}

-----------------------------------------------------------------------------
(* record.start, record.stop and record.status                             *)

\* The file is truncated and begun; a running session of that id is forgotten.
StartRecord(i, d, opened, answer) ==
  /\ IF opened
     THEN /\ files' = [files EXCEPT ![d] = <<<<i, "head">>>>]
          /\ records' = [records EXCEPT ![i] = [path |-> d, running |-> TRUE, frames |-> 1]]
          /\ writers' = [writers EXCEPT ![d] = @ \cup {i}]
          /\ answer = Answered(<<"record.started">>)
     ELSE answer = Refused /\ UNCHANGED <<files, records, writers>>
  /\ UNCHANGED <<replays, segments, announced>>

Finalize(i, answer) ==
  /\ files' = [files EXCEPT ![records[i].path] = Append(@, <<i, "end">>)]
  /\ records' = [records EXCEPT ![i].running = FALSE, ![i].frames = 3]
  /\ answer = Answered(<<"record.stopped">>)

\* Mutant of StopRecord: a session that was stopped is finalized once more.
StopRecordAgain(i, opened, answer) ==
  /\ IF records[i] # None /\ opened THEN Finalize(i, answer)
     ELSE answer = Refused /\ UNCHANGED <<files, records>>
  /\ UNCHANGED <<replays, segments, writers, announced>>

\* Two more frames and the trailer are appended; a file that cannot be opened
\* leaves the session running.  A session that was stopped is only reported.
StopRecord(i, opened, answer) ==
  /\ CASE records[i] # None /\ records[i].running /\ opened -> Finalize(i, answer)
       [] records[i] # None /\ ~records[i].running -> answer = Answered(<<>>) /\ UNCHANGED <<files, records>>
       [] OTHER -> answer = Refused /\ UNCHANGED <<files, records>>
  /\ UNCHANGED <<replays, segments, writers, announced>>

\* Of a session that does not exist, idle is told.
Status(answer) ==
  /\ answer = Answered(<<>>)
  /\ UNCHANGED <<records, replays, files, segments, writers, announced>>

-----------------------------------------------------------------------------
(* replay.start, replay.save and replay.stop                               *)

StartReplay(i, answer) ==
  /\ replays' = [replays EXCEPT ![i] = [running |-> TRUE, seq |-> 0, chunks |-> ReplayChunks]]
  /\ answer = Answered(<<>>)
  /\ UNCHANGED <<records, files, segments, writers, announced>>

Materialize(i, n, answer) ==
  /\ segments' = [segments EXCEPT ![i][n] = replays[i].chunks]
  /\ announced' = announced \cup {<<i, n>>}
  /\ answer = Answered(<<"replay.saved">>)

\* Mutant of SaveReplay: a stopped buffer is saved as well.
SaveReplayStopped(i, opened, answer) ==
  /\ IF replays[i] # None /\ opened
     THEN /\ replays[i].seq < MaxSaves
          /\ replays' = [replays EXCEPT ![i].seq = @ + 1]
          /\ Materialize(i, replays[i].seq + 1, answer)
     ELSE answer = Refused /\ UNCHANGED <<replays, segments, announced>>
  /\ UNCHANGED <<records, files, writers>>

\* The segment number is taken before the file is opened, and kept when that
\* fails.
SaveReplay(i, opened, answer) ==
  /\ IF replays[i] # None /\ replays[i].running
     THEN /\ replays[i].seq < MaxSaves
          /\ replays' = [replays EXCEPT ![i].seq = @ + 1]
          /\ IF opened THEN Materialize(i, replays[i].seq + 1, answer)
                       ELSE answer = Refused /\ UNCHANGED <<segments, announced>>
     ELSE answer = Refused /\ UNCHANGED <<replays, segments, announced>>
  /\ UNCHANGED <<records, files, writers>>

\* Mutant of StopReplay: one chunk is dropped.
StopReplayPartly(i, answer) ==
  /\ IF replays[i] # None
     THEN /\ replays' = [replays EXCEPT ![i].running = FALSE, ![i].chunks = ReplayChunks - 1]
          /\ answer = Answered(<<>>)
     ELSE answer = Refused /\ UNCHANGED replays
  /\ UNCHANGED <<records, files, segments, writers, announced>>

StopReplay(i, answer) ==
  /\ IF replays[i] # None
     THEN /\ replays' = [replays EXCEPT ![i].running = FALSE, ![i].chunks = 0]
          /\ answer = Answered(<<>>)
     ELSE answer = Refused /\ UNCHANGED replays
  /\ UNCHANGED <<records, files, segments, writers, announced>>

-----------------------------------------------------------------------------
\* The entries of the command table for these methods.
Call(r, answer) ==
  \/ r[1] = "record.start" /\ \E opened \in BOOLEAN : StartRecord(r[2], r[3], opened, answer)
  \/ r[1] = "record.stop" /\ \E opened \in BOOLEAN : StopRecord(r[2], opened, answer)
  \/ r[1] = "replay.start" /\ StartReplay(r[2], answer)
  \/ r[1] = "replay.save" /\ \E opened \in BOOLEAN : SaveReplay(r[2], opened, answer)
  \/ r[1] = "replay.stop" /\ StopReplay(r[2], answer)
  \/ r[1] \in {"record.status", "replay.status"} /\ Status(answer)

-----------------------------------------------------------------------------
(* Properties                                                              *)

Frames(file) == Len(file) + Cardinality({k \in DOMAIN file : file[k][2] = "end"})

\* Sessions, files and segments have their types.
TypeOK ==
  /\ records \in [RecordIds -> [path : Destinations, running : BOOLEAN, frames : {1, 3}] \cup {None}]
  /\ replays \in [ReplayIds -> [running : BOOLEAN, seq : 0..MaxSaves, chunks : {0, ReplayChunks}]
                           \cup {None}]
  /\ files \in [Destinations -> Seq(RecordIds \X {"head", "end"})]
  /\ segments \in [ReplayIds -> [Seqs -> {0, ReplayChunks}]]
  /\ writers \in [Destinations -> SUBSET RecordIds]
  /\ announced \subseteq ReplayIds \X Seqs

\* A file that no other recording was started in holds the frames its session
\* reports, and a trailer exactly if the session was stopped: no stop is
\* written twice, no restart appends to the old recording, and a start that
\* was refused changed neither.
FilesMatchSessions ==
  \A i \in RecordIds :
    records[i] # None /\ writers[records[i].path] = {i} =>
      LET r == records[i]
      IN  /\ Frames(files[r.path]) = r.frames
          /\ files[r.path][1] = <<i, "head">>
          /\ r.running = (Len(files[r.path]) = 1)

\* Every segment that was announced is a whole buffer.
AnnouncedAreWhole == \A s \in announced : segments[s[1]][s[2]] = ReplayChunks
=============================================================================
