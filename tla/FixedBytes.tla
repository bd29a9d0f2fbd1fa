----------------------------- MODULE FixedBytes -----------------------------
(***************************************************************************)
(* Amounts of fixed width in cross-chain messages (common/common.go): a    *)
(* number that is not negative and has its top bit free, as bytes with the *)
(* least significant one first.                                            *)
(***************************************************************************)
EXTENDS Integers, SequencesExt

CONSTANTS
    ByteSize, \* bound: values of a byte, 256 in the code
    IntBsLen  \* bytes of an amount, 32 in every call

ASSUME FixedBytesAssumption ==
    /\ ByteSize \in Nat \ {0, 1} /\ ByteSize % 2 = 0
    /\ IntBsLen \in Nat \ {0}

PaddedBytes == [1..IntBsLen -> 0..ByteSize - 1]

\* ByteSize to the power of i.
Power[i \in 0..IntBsLen] == IF i = 0 THEN 1 ELSE ByteSize * Power[i - 1]

\* The number in the first n bytes.
ValueOf(bs, n) == SumFunction([i \in 1..n |-> bs[i] * Power[i - 1]])

UnpadFixedBytes(bs) == ValueOf(bs, IntBsLen)

\* UnpadFixedBytes refuses other lengths, and a top bit that is set.
CanUnpad(bs) == bs \in PaddedBytes /\ bs[IntBsLen] < ByteSize \div 2

\* PadFixedBytes finds the bytes of n, and refuses what has none of that form.
CanPad(n) == \E bs \in PaddedBytes : CanUnpad(bs) /\ UnpadFixedBytes(bs) = n

PadFixedBytes(n) == CHOOSE bs \in PaddedBytes : CanUnpad(bs) /\ UnpadFixedBytes(bs) = n
=============================================================================
