----------------------------- MODULE WireFrames -----------------------------
(***************************************************************************)
(* The frames of the control connection: what send_text_frame writes and   *)
(* how far read_text_frame has come with the bytes it was given.           *)
(*                                                                         *)
(* A byte has a number and, where it is part of a payload, the message it  *)
(* belongs to; applying a mask key changes a byte, applying it again gives *)
(* it back.  The numbers of the protocol are parameters, so that all the   *)
(* limits are within reach: Base is 256, Plain 126, LongDigits 8 and       *)
(* MaskSize 4.                                                             *)
(***************************************************************************)
EXTENDS Naturals, SequencesExt

CONSTANTS
  Base,        \* values of a byte
  Plain,       \* first length that takes more than seven bits, and its mark
  LongDigits,  \* bytes of the longest form of a length
  MaskSize,    \* bytes of a masking key
  Header       \* what a byte outside a payload is a part of

ASSUME WireAssumption ==
  /\ Base \in Nat \ {0, 1} /\ Plain \in Nat \ {0} /\ LongDigits \in Nat \ {0, 1, 2}
  /\ MaskSize \in Nat \ {0}

\* The first byte of a frame: an opcode, below the bits that say that the frame
\* is the last one of its message and what the extensions of the protocol add.
Continuation == 0
Text == 1
Close == 8
Ping == 9
Opcodes == 16
FinBit == 128

MaskBit == Plain + 2

HeaderByte(v) == [value |-> v, of |-> Header, under |-> 0]

\* What is left of n when its lowest digits are shifted out.
Shifted(n, d) == LET left[k \in 0..d] == IF k = 0 THEN n ELSE left[k - 1] \div Base IN left

\* Big-endian, as both sides write lengths.
Digits(n, d) == [k \in 1..d |-> HeaderByte(Shifted(n, d)[d - k] % Base)]

\* The bytes of a message; a message knows its size.
Payload(m) == [k \in 1..m.size |-> [value |-> k, of |-> m, under |-> 0]]

\* Exclusive or with byte k of a masking key.
Masked(byte, k) ==
  [byte EXCEPT !.under = IF @ = 0 THEN k ELSE IF @ = k THEN 0 ELSE MaskSize + 1]
MaskedWith(bytes, key) ==
  [k \in 1..Len(bytes) |-> Masked(bytes[k], key[1 + ((k - 1) % MaskSize)])]

-----------------------------------------------------------------------------
(* send_text_frame                                                         *)

\* Mutant of LengthBytes: one length too many is written in seven bits.
LengthBytesOff(n) ==
  IF n <= Plain THEN <<HeaderByte(n)>>
  ELSE IF n < Base * Base THEN <<HeaderByte(Plain)>> \o Digits(n, 2)
  ELSE <<HeaderByte(Plain + 1)>> \o Digits(n, LongDigits)

LengthBytes(n) ==
  IF n < Plain THEN <<HeaderByte(n)>>
  ELSE IF n < Base * Base THEN <<HeaderByte(Plain)>> \o Digits(n, 2)
  ELSE <<HeaderByte(Plain + 1)>> \o Digits(n, LongDigits)

TextFrame(m) == <<HeaderByte(FinBit + Text)>> \o LengthBytes(m.size) \o Payload(m)

-----------------------------------------------------------------------------
(* read_text_frame: the bytes got so far say which field is being read     *)

Mark(got) == got[2].value % MaskBit
HasMask(got) == got[2].value >= MaskBit

\* A frame of the longest form is refused as soon as its mark is read.
TooLong(got) == Len(got) >= 2 /\ Mark(got) = Plain + 1

ExtSize(got) == IF Mark(got) = Plain THEN 2 ELSE 0
KeySize(got) == IF HasMask(got) THEN MaskSize ELSE 0
PayloadSize(got) ==
  IF Mark(got) = Plain THEN got[3].value * Base + got[4].value ELSE Mark(got)

\* Where the fields end that are known to be there.
FieldEnds(got) ==
  {2}
  \cup (IF Len(got) >= 2 THEN {2 + ExtSize(got), 2 + ExtSize(got) + KeySize(got)} ELSE {})
  \cup (IF Len(got) >= 2 /\ Len(got) >= 2 + ExtSize(got)
        THEN {2 + ExtSize(got) + KeySize(got) + PayloadSize(got)} ELSE {})

\* receive_exact: what is missing of the field that is being read, 0 when
\* there is no more to read.
Wanted(got) ==
  LET ahead == {e \in FieldEnds(got) : e > Len(got)}
  IN  IF ahead = {} THEN 0 ELSE Min(ahead) - Len(got)

\* The bits above the opcode are not looked at.
Opcode(got) == got[1].value % Opcodes

\* The payload of a frame that is complete, with its mask taken off.
ReadPayload(got) ==
  LET key   == [k \in 1..KeySize(got) |-> got[2 + ExtSize(got) + k].value]
      bytes == SubSeq(got, 3 + ExtSize(got) + KeySize(got), Len(got))
  IN  IF HasMask(got) THEN MaskedWith(bytes, key) ELSE bytes
=============================================================================
