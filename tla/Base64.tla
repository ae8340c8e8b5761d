------------------------------- MODULE Base64 -------------------------------
(***************************************************************************)
(* Base64Decode (src/service_protocol.cpp): one character after the other. *)
(* The accumulator is an int that is shifted and never masked, so that     *)
(* from the sixth digit on it has lost its upper bits and may be negative. *)
(* A character of the alphabet is the number it stands for.                *)
(***************************************************************************)
EXTENDS Integers, Sequences

CONSTANTS
  Digits,     \* characters of the alphabet, as the numbers they stand for
  Half,       \* an int is in -Half .. Half - 1; 2^31 in the code
  MaxChars    \* bound: the length of the text

Sextets == 0 .. 63

Bytes == 0 .. 255

Low == 4096   \* twelve bits: the most that is looked at between two shifts

ASSUME Base64Assumption ==
  /\ Digits \subseteq Sextets
  /\ Half \in Nat \ {0}
  /\ (2 * Half) % Low = 0
  /\ MaxChars \in Nat

VARIABLE b64   \* digits taken so far, characters read, accumulator, bits, bytes

B64Init ==
  b64 = [read |-> 0, digits |-> <<>>, buffer |-> 0, bits |-> 0, out |-> <<>>, open |-> TRUE]

-----------------------------------------------------------------------------
(* Two's complement.                                                       *)
Ints == -Half .. Half - 1

Wrap(n) == ((n + Half) % (2 * Half)) - Half

(* Variant: the sign is taken for a number of its own, as by a division.   *)
SignedByteAt(buffer, bits) ==
  (IF buffer < 0 THEN -((-buffer) \div (2 ^ bits)) ELSE buffer \div (2 ^ bits)) % 256

(* An arithmetic shift to the right and the lowest eight bits of that.     *)
ByteOf(buffer, bits) == (buffer \div (2 ^ bits)) % 256

ReadMore == b64.open /\ b64.read < MaxChars

TakeDigit(d) ==
  /\ ReadMore
  /\ LET buffer == Wrap(b64.buffer * 64 + d)
         bits   == b64.bits + 6
     IN  b64' = [read   |-> b64.read + 1,
                 digits |-> Append(b64.digits, d),
                 buffer |-> buffer,
                 bits   |-> IF bits >= 8 THEN bits - 8 ELSE bits,
                 out    |-> IF bits >= 8 THEN Append(b64.out, ByteOf(buffer, bits - 8))
                                         ELSE b64.out,
                 open   |-> TRUE]

(* White space, and characters that are no digit.                          *)
SkipChar == ReadMore /\ b64' = [b64 EXCEPT !.read = @ + 1]

(* "=" ends the text, wherever it stands.                                  *)
StopAtPad == ReadMore /\ b64' = [b64 EXCEPT !.read = @ + 1, !.open = FALSE]

B64Next == (\E d \in Digits : TakeDigit(d)) \/ SkipChar \/ StopAtPad

B64Spec == B64Init /\ [][B64Next]_b64

-----------------------------------------------------------------------------
(* The k-th byte of a text: eight bits of the two digits they lie in.      *)
TrueByte(digits, k) ==
  LET skipped == 8 * (k - 1)
      first   == digits[skipped \div 6 + 1]
      second  == digits[skipped \div 6 + 2]
  IN  ((first * 64 + second) \div (2 ^ (4 - (skipped % 6)))) % 256

(* However long the text is and whatever the accumulator has lost, the     *)
(* bytes are those the digits stand for, and none is missing.              *)
DecodedExactly ==
  /\ Len(b64.out) = (6 * Len(b64.digits)) \div 8
  /\ \A k \in DOMAIN b64.out : b64.out[k] = TrueByte(b64.digits, k)

-----------------------------------------------------------------------------
(* What carries it: the accumulator is right in its lowest twelve bits,    *)
(* which hold the last two digits.                                         *)
LastTwo(s) ==
  (IF Len(s) > 1 THEN s[Len(s) - 1] * 64 ELSE 0) + (IF Len(s) > 0 THEN s[Len(s)] ELSE 0)

B64TypeOK ==
  b64 \in [read : 0 .. MaxChars, digits : Seq(Sextets), buffer : Ints,
           bits : {0, 2, 4, 6}, out : Seq(Bytes), open : BOOLEAN]

LowBitsExact ==
  /\ b64.buffer % Low = LastTwo(b64.digits)
  /\ 6 * Len(b64.digits) = 8 * Len(b64.out) + b64.bits

B64Inv == B64TypeOK /\ LowBitsExact /\ DecodedExactly

=============================================================================
