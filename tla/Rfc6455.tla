------------------------------ MODULE Rfc6455 -------------------------------
(***************************************************************************)
(* What RFC 6455 takes a stream of bytes for: the client's side of the     *)
(* connection, and the measure for the host's.  None of it is this         *)
(* program's.                                                              *)
(***************************************************************************)
EXTENDS WireFrames

\* Bytes of the extended length of a payload of n bytes.
ExtendedFor(n) == IF n < Plain THEN 0 ELSE IF n < Base * Base THEN 2 ELSE LongDigits

\* The frame with this first byte a client sends m in, with or without a masking key.
ClientFrame(first, masked, m) ==
  LET extended == ExtendedFor(m.size)
      mark == IF extended = 0 THEN m.size ELSE IF extended = 2 THEN Plain ELSE Plain + 1
      key  == [k \in 1..MaskSize |-> k]
      head == <<HeaderByte(first), HeaderByte(mark + (IF masked THEN MaskBit ELSE 0))>>
              \o Digits(m.size, extended)
  IN  IF masked THEN head \o [k \in 1..MaskSize |-> HeaderByte(k)] \o MaskedWith(Payload(m), key)
                ELSE head \o Payload(m)

\* The parts of the frame that follows the first i bytes of a stream.
ExtendedAt(stream, i) ==
  LET mark == stream[i + 2].value % MaskBit
  IN  IF mark < Plain THEN 0 ELSE IF mark = Plain THEN 2 ELSE LongDigits

KeyAt(stream, i) ==
  IF stream[i + 2].value < MaskBit THEN <<>>
  ELSE [k \in 1..MaskSize |-> stream[i + 2 + ExtendedAt(stream, i) + k].value]

\* Bytes before the payload, and of the payload.
HeadAt(stream, i) ==
  i + 2 + ExtendedAt(stream, i) + (IF stream[i + 2].value < MaskBit THEN 0 ELSE MaskSize)

\* The number that d digits make.
Number(digits, d) ==
  LET upTo[k \in 0..d] == IF k = 0 THEN 0 ELSE upTo[k - 1] * Base + digits[k] IN upTo[d]

SizeAt(stream, i) ==
  IF ExtendedAt(stream, i) = 0 THEN stream[i + 2].value % MaskBit
  ELSE Number([k \in 1..ExtendedAt(stream, i) |-> stream[i + 2 + k].value], ExtendedAt(stream, i))

EndAt(stream, i) == HeadAt(stream, i) + SizeAt(stream, i)

HasFrameAt(stream, i) ==
  /\ Len(stream) >= i + 2 /\ Len(stream) >= HeadAt(stream, i) /\ Len(stream) >= EndAt(stream, i)

\* A frame's payload, with the mask taken off.
PayloadAt(stream, i) ==
  LET bytes == SubSeq(stream, HeadAt(stream, i) + 1, EndAt(stream, i))
      key   == KeyAt(stream, i)
  IN  IF key = <<>> THEN bytes ELSE MaskedWith(bytes, key)

FrameAt(stream, i) ==
  [opcode |-> stream[i + 1].value % Opcodes, flags |-> stream[i + 1].value \div Opcodes,
   extended |-> ExtendedAt(stream, i), payload |-> PayloadAt(stream, i)]

\* A message may be cut into fragments, the last of which has FIN set and all
\* but the first of which are continuations; without an extension the three
\* reserved bits are clear.  A frame is a message only if it is its one fragment.
IsMessage(frame) == frame.flags = FinBit \div Opcodes /\ frame.opcode # Continuation

\* The frames that are whole in a stream, from each of its positions.
FramesFrom(stream) ==
  LET from[i \in 0..Len(stream)] ==
        IF HasFrameAt(stream, i) THEN <<FrameAt(stream, i)>> \o from[EndAt(stream, i)] ELSE <<>>
  IN  from

FramesIn(stream) == FramesFrom(stream)[0]
=============================================================================
