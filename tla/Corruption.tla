----------------------------- MODULE Corruption -----------------------------
(***************************************************************************)
(* What a fault does to a value (manifest of src/fi/faultq.hh and the      *)
(* process functions that call it).  A value of w bits is the set of its   *)
(* bits that are 1, bit 0 being the least significant one.                 *)
(*                                                                         *)
(* _value is a uint64_t, which Immd and Mask use as bits and Flip and All  *)
(* as a number; a description has both readings.                           *)
(***************************************************************************)
EXTENDS Integers

CONSTANTS
  Wide,      \* 64: bits of a uint64_t, a register, a PC
  InstBits,  \* 32: bits of a machine instruction
  OpBits,    \* 6: bits of its opcode, the topmost ones
  ByteBits   \* 8

ASSUME WidthsAssumption ==
  /\ Wide \in Nat /\ InstBits \in 1 .. Wide /\ ByteBits \in 1 .. Wide
  /\ OpBits \in 1 .. InstBits
  /\ 2^ByteBits > 0   \* which the prover, for want of exponentiation, does not know

Bits(w) == 0 .. w - 1
Value(w) == SUBSET Bits(w)

What == [type : {"Immd", "Mask", "Flip", "All"}, bits : Value(Wide), n : Nat]

Xor(a, b) == (a \ b) \cup (b \ a)

\* The bytes of out that the loops of XOR and IMMD pair with a value of w bits: they
\* start from the last byte of both, so these are the high ones.
High(w, out) == {k \in Bits(w) : k + (Wide - w) \in out}

XOR(w, in, out) == Xor(in, High(w, out))

\* Mutant: the loop stops one bit short.
IMMDShort(w, in, out) == High(w, out) \ {0}

IMMD(w, in, out) == High(w, out)

\* Bits are counted from 1; 0, and a bit the value does not have, change nothing.
\* (The position is below 2^34, where its byte would not fit into an int.)
FLIP(w, in, n) == IF n \in 1 .. w THEN Xor(in, {n - 1}) ELSE in

ALL(w, in, n) == IF n = 1 THEN Bits(w) ELSE {}

manifest(w, in, what) ==
  CASE what.type = "Immd" -> IMMD(w, in, what.bits)
    [] what.type = "Mask" -> XOR(w, in, what.bits)
    [] what.type = "Flip" -> FLIP(w, in, what.n)
    [] what.type = "All" -> ALL(w, in, what.n)

-----------------------------------------------------------------------------

\* The value cast to a uint8_t.
Cast(what) == [what EXCEPT !.bits = @ \cap Bits(ByteBits), !.n = @ % 2^ByteBits]

\* MemoryInjectedFault::process casts the value first.
manifestByte(in, what) == manifest(ByteBits, in, Cast(what))

\* insertBits: the low bits of out, put into the opcode of a machine instruction.
insertBits(in, out) ==
  {k \in in : k < InstBits - OpBits} \cup
  {k \in Bits(InstBits) : k >= InstBits - OpBits /\ k - (InstBits - OpBits) \in out}

OpCode(in) == {k \in Bits(OpBits) : k + (InstBits - OpBits) \in in}

\* OpCodeInjectedFault::process knows Immd and Mask.
manifestOpCode(in, what) ==
  IF what.type = "Immd" THEN insertBits(in, what.bits)
                        ELSE insertBits(in, Xor(OpCode(in), what.bits))

-----------------------------------------------------------------------------
(* What the names of the four types say, for a value of w bits.            *)

Named(w, in, what) ==
  CASE what.type = "Immd" -> what.bits \cap Bits(w)
    [] what.type = "Mask" -> {k \in Bits(w) : (k \in in) # (k \in what.bits)}
    [] what.type = "Flip" -> {k \in Bits(w) : (k \in in) # (k = what.n - 1)}
    [] what.type = "All" -> {k \in Bits(w) : what.n = 1}
=============================================================================
