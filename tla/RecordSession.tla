--------------------------- MODULE RecordSession ---------------------------
(***************************************************************************)
(* The recording and replay verbs over the control connection: bytes in    *)
(* both directions, the loop of handle_client that takes one frame at a    *)
(* time, and clients that come, ask, and leave in the middle of anything.  *)
(* The sessions of RecordReplay outlive the connection they were made on.  *)
(* What the loop does besides, the tick of the output and the look at      *)
(* g_stop, is in OutputController and HostServer.                          *)
(***************************************************************************)
EXTENDS RecordReplay, Rfc6455

CONSTANTS
  SizesOf(_),      \* the sizes that a text may have
  FirstBytesOf(_), \* the first bytes that the frame of a text may have
  MaxSessions,     \* bound of the exploration: sessions there may be
  MaxFrames,       \* bound of the exploration: frames in flight when a client asks
  ProbedSessions   \* bound of the exploration: sessions there may be while a
                   \* client sends frames of unusual form, or several at once

ASSUME SessionAssumption ==
  MaxSessions \in Nat /\ MaxFrames \in Nat /\ ProbedSessions \in Nat

VARIABLES
  open,      \* handle_client serves a client
  joined,    \* the client has its end of the connection
  toHost,    \* bytes that the host has not received
  got,       \* bytes of the frame that read_text_frame is reading
  toClient,  \* bytes that the client has not read
  asked,     \* history: what RFC 6455 reads in got and toHost
  told       \* history: what it reads in toClient

vars == <<recordVars, open, joined, toHost, got, toClient, asked, told>>

Init ==
  /\ RecordInit
  /\ open = FALSE /\ joined = FALSE /\ toHost = <<>> /\ got = <<>> /\ toClient = <<>>
  /\ asked = <<>> /\ told = <<>>

\* What a text says that names no method of the table.
Unknown == <<"unknown">>

\* A frame that ends the connection, and one that is not a message.
Ending == <<"ending">>
Part == <<"part">>

\* All that is said on the connection.
Texts ==
  Requests \cup {Unknown} \cup ({"result", "error"} \X (Requests \cup {Unknown}))
  \cup {<<e>> : e \in {"host.started", "host.ready", "host.heartbeat",
                       "record.started", "record.stopped", "replay.saved"}}

ASSUME FirstBytesAssumption == \A text \in Texts : FirstBytesOf(text) \subseteq Nat

\* A size fits into the longest form of a length, and no message is empty; a
\* byte outside a payload is not part of a message.
ASSUME SizesAssumption ==
  \A text \in Texts : \A n \in SizesOf(text) :
    n \in Nat /\ Shifted(n, LongDigits)[LongDigits] = 0 /\ (text # Unknown => n > 0)
ASSUME HeaderAssumption == Header \notin [what : Texts, size : Nat]

\* The text that a payload spells, if it spells one.
TextOf(bytes) ==
  IF bytes # <<>> /\ bytes[1].of # Header /\ bytes = Payload(bytes[1].of)
  THEN bytes[1].of.what ELSE Unknown

Sessions ==
  Cardinality({i \in RecordIds : records[i] # None}) + Cardinality({i \in ReplayIds : replays[i] # None})
Probing == Sessions <= ProbedSessions

-----------------------------------------------------------------------------
(* The host                                                                *)

\* send_text_frame, for a text of one of its sizes.
Framings(text) == {TextFrame([what |-> text, size |-> n]) : n \in SizesOf(text)}

\* What is sent to a client that has left is gone.
Send(text) ==
  IF joined THEN \E frame \in Framings(text) : toClient' = toClient \o frame ELSE UNCHANGED toClient

SendBoth(reply, event) ==
  IF joined
  THEN \E first \in Framings(reply), second \in Framings(event) : toClient' = toClient \o first \o second
  ELSE UNCHANGED toClient

\* The handshake, and the two events that greet a client.
Greet ==
  /\ ~open /\ open' = TRUE /\ joined' = TRUE
  /\ \E first \in Framings(<<"host.started">>), second \in Framings(<<"host.ready">>) :
       toClient' = first \o second
  /\ UNCHANGED <<recordVars, toHost, got>>

\* handle_client returns and the socket is closed.
HangUp ==
  /\ open' = FALSE /\ joined' = FALSE /\ toHost' = <<>> /\ got' = <<>> /\ toClient' = <<>>
  /\ UNCHANGED recordVars

\* One recv of receive_exact: some of the bytes that are wanted.
Receive ==
  /\ open /\ ~TooLong(got) /\ toHost # <<>> /\ Wanted(got) > 0
  /\ LET most == Min({Wanted(got), Len(toHost)})
     IN  \E n \in (IF Probing THEN 1 ELSE most)..most :
           got' = got \o SubSeq(toHost, 1, n) /\ toHost' = SubSeq(toHost, n + 1, Len(toHost))
  /\ UNCHANGED <<recordVars, open, joined, toClient>>

Whole == open /\ ~TooLong(got) /\ Wanted(got) = 0

\* A frame of another kind is handled as an empty text.
Message == IF Opcode(got) = Text THEN TextOf(ReadPayload(got)) ELSE Unknown

\* handle_message: an entry of the table answers, or "method not found".
HandleMessage ==
  /\ Whole /\ Opcode(got) # Close
  /\ IF Message \in Requests
     THEN \E answer \in AnswerTypes :
            /\ Call(Message, answer)
            /\ IF Len(answer) = 1 THEN Send(<<answer[1], Message>>)
                                  ELSE SendBoth(<<answer[1], Message>>, <<answer[2]>>)
     ELSE Send(<<"error", Unknown>>) /\ UNCHANGED recordVars
  /\ got' = <<>> /\ UNCHANGED <<open, joined, toHost>>

\* read_text_frame returns nothing: a frame that is too long, a closing frame,
\* or a client that has gone before its frame was whole.
EndOfClient ==
  /\ \/ open /\ TooLong(got)
     \/ Whole /\ Opcode(got) = Close
     \/ open /\ ~joined /\ toHost = <<>> /\ Wanted(got) > 0
  /\ HangUp

\* Between two frames, never within one.  One that cannot be sent ends the
\* connection, with all that a client that left had still sent.  Heartbeats to
\* a client that is there are explored while Probing.
Heartbeat ==
  /\ open /\ got = <<>>
  /\ IF joined
     THEN toClient = <<>> /\ Probing /\ Send(<<"host.heartbeat">>)
          /\ UNCHANGED <<recordVars, open, joined, toHost, got>>
     ELSE HangUp

Host == Greet \/ Receive \/ HandleMessage \/ EndOfClient \/ Heartbeat

-----------------------------------------------------------------------------
(* The client                                                              *)

Quiet == toHost = <<>> /\ got = <<>> /\ toClient = <<>>

\* A save is asked for only while there is a number left for its segment, and
\* a further session only while there is room for it.
WithinBounds(r) ==
  LET pending == Cardinality({k \in DOMAIN asked : asked[k] \in {r, Part}})
  IN  CASE r[1] = "replay.save" ->
             (IF replays[r[2]] = None THEN 0 ELSE replays[r[2]].seq) + pending < MaxSaves
        [] r[1] = "replay.start" -> replays[r[2]] # None \/ Sessions < MaxSessions
        [] r[1] = "record.start" -> records[r[2]] # None \/ Sessions < MaxSessions
        [] OTHER -> TRUE

\* A client asks, in a frame of some form; with sessions at stake it waits for
\* the answer of the last request and keeps to masked text frames.
Ask ==
  /\ open /\ joined
  /\ \E r \in Requests \cup {Unknown}, masked \in BOOLEAN :
       /\ r \in Requests => WithinBounds(r)
       /\ \E n \in SizesOf(r), first \in FirstBytesOf(r) :
            /\ \/ Quiet /\ first = FinBit + Text /\ masked
               \/ Probing /\ Len(asked) < MaxFrames /\ Len(told) < MaxFrames
            /\ toHost' = toHost \o ClientFrame(first, masked, [what |-> r, size |-> n])
  /\ UNCHANGED <<recordVars, open, joined, got, toClient>>

Hear ==
  /\ joined /\ told # <<>>
  /\ toClient' = SubSeq(toClient, EndAt(toClient, 0) + 1, Len(toClient))
  /\ UNCHANGED <<recordVars, open, joined, toHost, got>>

\* A client leaves with what the network still holds, or half of it.
Leave ==
  /\ joined /\ joined' = FALSE /\ toClient' = <<>>
  /\ \E n \in 0..Len(toHost) : toHost' = SubSeq(toHost, 1, n)
  /\ UNCHANGED <<recordVars, open, got>>

Client == Ask \/ Hear \/ Leave

-----------------------------------------------------------------------------
\* What a message says, and what a frame asks of the host: one of the longest
\* form is more than it takes, and a fragment asks nothing yet.
Said(frame) == IF IsMessage(frame) /\ frame.opcode = Text THEN TextOf(frame.payload) ELSE Unknown

AskedOf(frame) ==
  IF frame.opcode = Close \/ frame.extended = LongDigits THEN Ending
  ELSE IF IsMessage(frame) THEN Said(frame) ELSE Part

Asked(stream) == LET frames == FramesIn(stream) IN [k \in DOMAIN frames |-> AskedOf(frames[k])]
Told(stream)  == LET frames == FramesIn(stream) IN [k \in DOMAIN frames |-> Said(frames[k])]

Next ==
  /\ Host \/ Client
  /\ asked' = Asked(got' \o toHost') /\ told' = Told(toClient')

Spec == Init /\ [][Next]_vars

-----------------------------------------------------------------------------
(* Properties                                                              *)

EventsOf(r) ==
  CASE r[1] = "record.start" -> {"record.started"}
    [] r[1] = "record.stop" -> {"record.stopped"}
    [] r[1] = "replay.save" -> {"replay.saved"}
    [] OTHER -> {}

Calls == INSTANCE ControlCalls WITH Events <- EventsOf

\* The comment of send_record_result has the event follow its reply so that a
\* client can order it: read by RFC 6455, whatever the network cuts, the bytes
\* of both directions are requests taken once and in order and their answers.
\* That is for requests sent in one frame each.  The host, which ignores FIN and
\* the reserved bits, takes every fragment for a message: it answers each of
\* them, where the standard has it wait for the last.
ImplementsCalls == Calls!Spec
=============================================================================
