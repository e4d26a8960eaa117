---------------------------- MODULE LittleEndian ----------------------------
(***************************************************************************)
(* Integers in byte buffers, as every side of the protocol packs and       *)
(* unpacks them.  A byte is a number below BYTE (the code: 256), and a     *)
(* layout gives each field of a buffer its offset and width.               *)
(***************************************************************************)
EXTENDS Integers, Sequences, SequencesExt, FiniteSets, TLC

CONSTANTS
    BYTE,         \* values of a byte
    Words         \* values of fields to try beside the usual ones

U32 == BYTE ^ 4

(* What the constants have to satisfy.                                     *)
ByteAssumption ==
    BYTE \in Nat /\ BYTE > 11 /\ Words \subseteq 0..(U32 - 1)

(* PutU16Le, PutU32Le and assignments to the bytes of a zeroed buffer ...  *)
PutLe(value, k) == IF k > 3 THEN 0 ELSE (value \div BYTE ^ k) % BYTE

Put(layout, size, values) ==
    [i \in 1..size |->
       LET at == {f \in DOMAIN layout : layout[f][1] < i /\ i <= layout[f][1] + layout[f][2]}
       IN  IF at = {} THEN 0
           ELSE LET f == CHOOSE g \in at : TRUE IN PutLe(values[f], i - 1 - layout[f][1])]

(* ... and GetU16Le, GetU32Le.                                             *)
GetLe(raw, offset, width) ==
    FoldLeft(LAMBDA v, k : v + raw[offset + k] * BYTE ^ (k - 1), 0, [k \in 1..width |-> k])

Get(layout, raw) == [f \in DOMAIN layout |-> GetLe(raw, layout[f][1], layout[f][2])]

(* A checksum that tells contents apart that differ in one byte.  All      *)
(* sides use the same CRC-32; Checksums is about it.                       *)
Crc32(s) == FoldLeft(LAMBDA v, b : (v * 7 + b + 1) % U32, 1, s)

CrcBytes(s) == [k \in 1..4 |-> PutLe(Crc32(s), k - 1)]

(* Values that differ from field to field, and any value of Words in one.  *)
Usual(layout) ==
    [f \in DOMAIN layout |-> IF layout[f][2] = 1 THEN (layout[f][1] + 1) % BYTE
                             ELSE layout[f][1] * 3 + layout[f][2]]

Fields(layout) ==
    {Usual(layout)} \cup {[Usual(layout) EXCEPT ![f] = w % BYTE ^ layout[f][2]] :
                             f \in DOMAIN layout, w \in Words}

=============================================================================
