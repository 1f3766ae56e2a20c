------------------------------ MODULE WireFormat ------------------------------
(***************************************************************************)
(* The bytes erWire.ts makes of a message that web3.js refuses to          *)
(* serialize because it exceeds its buffer.  A byte is a number below      *)
(* 2 * Radix; a key, and the blockhash, is one element.                    *)
(***************************************************************************)
EXTENDS Naturals, SequencesExt

CONSTANTS Radix,    \* what a byte of a length holds, besides its continuation bit (128)
          Pubkeys   \* keys and blockhashes

ASSUME RadixAssumption == Radix \in Nat /\ Radix > 1

Bytes == 0 .. (2 * Radix - 1)

\* The messages that can be written: their header and indices fit a byte.
Message ==
    [header : [1..3 -> Bytes], keys : Seq(Pubkeys), blockhash : Pubkeys,
     instrs : Seq([prog : Bytes, accounts : Seq(Bytes), data : Seq(Bytes)])]

\* Buffer.from([n]) keeps the low byte.
Byte(n) == n % (2 * Radix)

\* (mutant) the last byte may be Radix itself
Shortvec_Inclusive(n) ==
    LET bytes[v \in 0..n] ==
            IF v <= Radix THEN <<v>> ELSE <<Radix + (v % Radix)>> \o bytes[v \div Radix]
    IN  bytes[n]

\* encodeShortvec: the low digits first, all but the last with the continuation
\* bit.  Its `n >>> 0` changes no length below 2^32.
Digits[v \in Nat] ==
    IF v < Radix THEN <<v>> ELSE <<Radix + (v % Radix)>> \o Digits[v \div Radix]

Shortvec(n) == Digits[n]

Instruction(ix) ==
    <<Byte(ix.prog)>>
        \o Shortvec(Len(ix.accounts)) \o [i \in DOMAIN ix.accounts |-> Byte(ix.accounts[i])]
        \o Shortvec(Len(ix.data)) \o ix.data

\* serializeMessageUnbounded
Serialize(m) ==
    [i \in 1..3 |-> Byte(m.header[i])]
        \o Shortvec(Len(m.keys)) \o m.keys \o <<m.blockhash>>
        \o Shortvec(Len(m.instrs)) \o FlattenSeq([i \in DOMAIN m.instrs |-> Instruction(m.instrs[i])])
-----------------------------------------------------------------------------
\* What a reader makes of such bytes: digits in base Radix, the low ones first.
Value[bytes \in Seq(Nat)] ==
    IF bytes = <<>> THEN 0 ELSE (bytes[1] % Radix) + Radix * Value[Tail(bytes)]

\* It takes bytes up to the first without a continuation bit: these are all.
Reads(bytes, n) ==
    /\ Len(bytes) > 0
    /\ \A i \in DOMAIN bytes : bytes[i] < Radix <=> i = Len(bytes)
    /\ n = Value[bytes]
=============================================================================
