---------------------------- MODULE ControlCalls ----------------------------
(***************************************************************************)
(* What the control connection promises a client, whatever its bytes do:   *)
(* the host takes the requests that arrived whole, in the order they were  *)
(* sent, each once, and answers each with one reply, followed by the event *)
(* of what it did and by nothing in between.  What a client has not read   *)
(* when it leaves is lost, and so may be the last requests it sent.        *)
(* A client that cuts a message into fragments is promised less: each of   *)
(* them is answered, as some request or as none.                           *)
(***************************************************************************)
EXTENDS Naturals, Sequences

CONSTANTS
  Requests,    \* what the table has an entry for
  Unknown,     \* a text without a method of the table, or a message without a text
  Part,        \* a frame that is not a message: a fragment, or one with reserved bits
  Ending,      \* a frame that ends the connection
  Events(_)    \* the types of the events that a request may cause

VARIABLES
  open,    \* the host serves the connection
  joined,  \* the client has its end
  asked,   \* requests sent and not taken by the host
  told     \* messages sent by the host and not read by the client

vars == <<open, joined, asked, told>>

Greeting == <<<<"host.started">>, <<"host.ready">>>>

\* What the host says to a request: an error, or a reply and its event.
AnswersTo(r) ==
  IF r = Unknown THEN {<<<<"error", r>>>>}
  ELSE {<<<<"error", r>>>>, <<<<"result", r>>>>} \cup {<<<<"result", r>>, <<e>>>> : e \in Events(r)}

Answers(r) ==
  IF r = Part THEN UNION {AnswersTo(q) : q \in Requests \cup {Unknown}} ELSE AnswersTo(r)

Tell(messages) == told' = IF joined THEN told \o messages ELSE told

Init == open = FALSE /\ joined = FALSE /\ asked = <<>> /\ told = <<>>

Connect ==
  /\ ~open /\ open' = TRUE /\ joined' = TRUE /\ told' = Greeting /\ UNCHANGED asked

Ask(r) ==
  /\ joined /\ asked' = Append(asked, r) /\ UNCHANGED <<open, joined, told>>

Take ==
  /\ open /\ asked # <<>> /\ Head(asked) # Ending
  /\ \E a \in Answers(Head(asked)) : Tell(a)
  /\ asked' = Tail(asked) /\ UNCHANGED <<open, joined>>

Heartbeat ==
  /\ open /\ Tell(<<<<"host.heartbeat">>>>) /\ UNCHANGED <<open, joined, asked>>

Hear ==
  /\ joined /\ told # <<>> /\ told' = Tail(told) /\ UNCHANGED <<open, joined, asked>>

Leave ==
  /\ joined /\ joined' = FALSE /\ told' = <<>>
  /\ \E n \in 0..Len(asked) : asked' = SubSeq(asked, 1, n)
  /\ UNCHANGED open

\* The host gives a connection up only when the client has, or asked for it.
GiveUp ==
  /\ open /\ (~joined \/ (asked # <<>> /\ Head(asked) = Ending))
  /\ open' = FALSE /\ joined' = FALSE /\ asked' = <<>> /\ told' = <<>>

Next ==
  \/ Connect \/ Take \/ Heartbeat \/ Hear \/ Leave \/ GiveUp
  \/ \E r \in Requests \cup {Unknown, Part, Ending} : Ask(r)

Spec == Init /\ [][Next]_vars
=============================================================================
