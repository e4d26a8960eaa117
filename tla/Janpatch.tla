------------------------------ MODULE Janpatch ------------------------------
(***************************************************************************)
(* Delta reconstruction: JanpatchPort_ApplyStream of the bootloader (C)    *)
(* and the tool that writes and applies the same patch streams             *)
(* (tools/jojodiff_patch.py), over small bytes.                            *)
(*                                                                         *)
(* A byte is a number below BYTE (the code: 256).  Escape and opcodes are  *)
(* six of them (the code: 0xA2..0xA7); the last five prefixes of a length  *)
(* keep their meaning relative to BYTE.                                    *)
(***************************************************************************)
EXTENDS Integers, Sequences, SequencesExt, FiniteSets

CONSTANTS
    BYTE,         \* values of a byte
    Base,         \* the installed image
    TARGET_MAX,   \* bound on the target images
    BUFFER,       \* JANPATCH_IO_BUFFER_SIZE
    Symbols,      \* bytes of arbitrary streams
    MaxStream,    \* bound on their length
    Lengths,      \* lengths of EQL and DEL that the tool emits here
    Literals,     \* data that it emits here
    MaxOps        \* bound on the operations of a patch

BKT == 2
EQL == 3
DEL == 4
INS == 5
MOD == 6
ESC == 7
Opcodes == {MOD, INS, DEL, EQL, BKT}

(* What the constants have to satisfy.                                     *)
JanpatchAssumption ==
    /\ BYTE \in Nat /\ BYTE > 9 /\ BUFFER \in Nat \ {0} /\ Base # <<>>
    /\ Symbols \subseteq 0..(BYTE - 1) /\ Lengths \subseteq Nat \ {0}
    /\ \A i \in DOMAIN Base : Base[i] \in 0..(BYTE - 1)

-----------------------------------------------------------------------------
(* The decoder.  Its context: the positions in patch and base, the target  *)
(* written so far, the size that is expected, the literal buffer and the   *)
(* result; `overrun` would be a write past the end of that buffer.         *)

Context(p, size) ==
    [patch |-> p, size |-> size, at |-> 0, source |-> 0, target |-> <<>>,
     buffer |-> <<>>, overrun |-> FALSE, status |-> "OK"]

Fail(c, s) == [c EXCEPT !.status = s]
Remaining(c) == Len(c.patch) - c.at
Peek(c, i) == c.patch[c.at + i + 1]
Skip(c, n) == [c EXCEPT !.at = @ + n]

Bytes(c, n) == [i \in 1..n |-> Peek(c, i)]
BigEndian(s) == FoldLeft(LAMBDA v, b : v * BYTE + b, 0, s)

(* ReadLength: [n, used, ok] of the length at the start of the rest.       *)
NoLength == [n |-> 0, used |-> 0, status |-> "TRUNCATED_STREAM"]

LongLength(c, width) ==
    IF Remaining(c) < 1 + width THEN NoLength
    ELSE [n |-> BigEndian(Bytes(c, width)), used |-> 1 + width,
          status |-> IF BigEndian(Bytes(c, width)) # 0 THEN "OK" ELSE "BAD_LENGTH"]

ReadLength(c) ==
    CASE Remaining(c) = 0 -> NoLength
      [] Remaining(c) > 0 /\ Peek(c, 0) <= BYTE - 5 ->
           [n |-> Peek(c, 0) + 1, used |-> 1, status |-> "OK"]
      [] Remaining(c) > 0 /\ Peek(c, 0) = BYTE - 4 ->
           IF Remaining(c) < 2 THEN NoLength
           ELSE [n |-> BYTE - 3 + Peek(c, 1), used |-> 2, status |-> "OK"]
      [] Remaining(c) > 0 /\ Peek(c, 0) = BYTE - 3 -> LongLength(c, 2)
      [] Remaining(c) > 0 /\ Peek(c, 0) = BYTE - 2 -> LongLength(c, 4)
      [] OTHER -> [NoLength EXCEPT !.status = "BAD_LENGTH"]

(* TargetWrite.                                                            *)
TargetWrite(c, data) ==
    IF Len(data) > c.size - Len(c.target) THEN Fail(c, "TARGET_RANGE")
    ELSE [c EXCEPT !.target = @ \o data]

(* Mutant: the source range is not checked.                                *)
AdvanceFreely(c, n) == [c EXCEPT !.source = @ + n]

AdvanceSource(c, n) ==
    IF n > Len(Base) - c.source THEN Fail(c, "SOURCE_RANGE")
    ELSE [c EXCEPT !.source = @ + n]

ReadSource(c, n) == SubSeq(Base, c.source + 1, c.source + n)

(* CopyEqual.                                                              *)
CopyEqual(c, n) ==
    IF n > Len(Base) - c.source THEN Fail(c, "SOURCE_RANGE")
    ELSE LET written == TargetWrite(c, ReadSource(c, n))
         IN  IF written.status = "OK" THEN AdvanceSource(written, n) ELSE written

(* ConsumeLiteral: bytes go to the buffer, which is written out when full. *)
Put(c, b) == [c EXCEPT !.buffer = Append(@, b), !.overrun = @ \/ Len(c.buffer) = BUFFER]

Flush(c, advance) ==
    LET written == TargetWrite([c EXCEPT !.buffer = <<>>], c.buffer)
    IN  IF written.status = "OK" /\ advance
          THEN AdvanceSource(written, Len(c.buffer)) ELSE written

FlushFull(c, advance) == IF Len(c.buffer) = BUFFER THEN Flush(c, advance) ELSE c

RECURSIVE ConsumeLiteral(_, _)
ConsumeLiteral(c, advance) ==
    CASE c.status # "OK" -> c
      [] c.status = "OK" /\ Remaining(c) = 0 -> Flush(c, advance)
      [] c.status = "OK" /\ Remaining(c) > 0 /\ Peek(c, 0) # ESC ->
           ConsumeLiteral(FlushFull(Put(Skip(c, 1), Peek(c, 0)), advance), advance)
      [] c.status = "OK" /\ Remaining(c) = 1 /\ Peek(c, 0) = ESC -> Flush(Skip(c, 1), advance)
      [] OTHER ->
           CASE Peek(c, 1) \in Opcodes -> Flush(c, advance)
             [] Peek(c, 1) = ESC ->
                  ConsumeLiteral(FlushFull(Put(Skip(c, 2), ESC), advance), advance)
             [] OTHER ->
                  LET first == FlushFull(Put(Skip(c, 2), ESC), advance)
                  IN  IF first.status # "OK" THEN first
                      ELSE ConsumeLiteral(FlushFull(Put(first, Peek(c, 1)), advance), advance)

(* One operation of the loop of JanpatchPort_ApplyStream.                  *)
LengthOperation(c, opcode) ==
    LET len == ReadLength(c)
        d == Skip(c, len.used)
    IN  CASE len.status # "OK" -> Fail(c, len.status)
          [] len.status = "OK" /\ opcode = EQL -> CopyEqual(d, len.n)
          [] len.status = "OK" /\ opcode = DEL -> AdvanceSource(d, len.n)
          [] OTHER -> IF len.n > d.source THEN Fail(d, "SOURCE_RANGE")
                      ELSE [d EXCEPT !.source = @ - len.n]

Operation(c) ==
    CASE Peek(c, 0) = ESC /\ Remaining(c) = 1 -> Fail(c, "TRUNCATED_STREAM")
      [] Peek(c, 0) = ESC /\ Remaining(c) > 1 /\ Peek(c, 1) \in {EQL, DEL, BKT} ->
           LengthOperation(Skip(c, 2), Peek(c, 1))
      [] Peek(c, 0) = ESC /\ Remaining(c) > 1 /\ Peek(c, 1) \in {MOD, INS} ->
           ConsumeLiteral(Skip(c, 2), Peek(c, 1) = MOD)
      [] OTHER -> ConsumeLiteral(c, TRUE)

RECURSIVE Loop(_)
Loop(c) ==
    CASE c.status # "OK" -> c
      [] c.status = "OK" /\ Remaining(c) > 0 -> Loop(Operation(c))
      [] OTHER -> IF Len(c.target) = c.size THEN c ELSE Fail(c, "TARGET_SIZE_MISMATCH")

JanpatchPort_ApplyStream(p, size) ==
    IF p = <<>> \/ size = 0 THEN Fail(Context(p, size), "INVALID_ARGUMENT")
    ELSE Loop(Context(p, size))

-----------------------------------------------------------------------------
(* The tool: what generate_patch emits ...                                 *)

encode_length(n) ==
    CASE n <= BYTE - 4 -> <<n - 1>>
      [] n > BYTE - 4 /\ n <= 2 * BYTE - 4 -> <<BYTE - 4, n - (BYTE - 3)>>
      [] OTHER -> <<BYTE - 3, n \div BYTE, n % BYTE>>

escape_data(d) == FlattenSeq([i \in DOMAIN d |-> IF d[i] = ESC THEN <<ESC, ESC>> ELSE <<d[i]>>])

emit_data_op(opcode, d) == IF d = <<>> THEN <<>> ELSE <<ESC, opcode>> \o escape_data(d)
emit_length_op(opcode, n) == IF n = 0 THEN <<>> ELSE <<ESC, opcode>> \o encode_length(n)

(* _emit_gap: `old` bytes of the base become the bytes `new`.              *)
_emit_gap(old, new) ==
    LET common == IF old < Len(new) THEN old ELSE Len(new)
    IN  emit_data_op(MOD, SubSeq(new, 1, common))
          \o emit_data_op(INS, SubSeq(new, common + 1, Len(new)))
          \o emit_length_op(DEL, old - common)

(* ... and how apply_patch reads a stream.  The length 0, which the        *)
(* bootloader refuses, is legal here.                                      *)
decode_length(c) ==
    LET len == ReadLength(c)
    IN  IF len.status = "BAD_LENGTH" /\ len.used > 0 THEN [len EXCEPT !.status = "OK"] ELSE len

RECURSIVE _copy_literal(_, _)
_copy_literal(p, out) ==
    CASE p = <<>> \/ p = <<ESC>> -> [data |-> out, rest |-> <<>>]
      [] Len(p) > 1 /\ p[1] = ESC /\ p[2] \in Opcodes -> [data |-> out, rest |-> p]
      [] Len(p) > 1 /\ p[1] = ESC /\ p[2] = ESC ->
           _copy_literal(SubSeq(p, 3, Len(p)), Append(out, ESC))
      [] Len(p) > 1 /\ p[1] = ESC /\ p[2] \notin Opcodes \cup {ESC} ->
           _copy_literal(SubSeq(p, 3, Len(p)), out \o <<ESC, p[2]>>)
      [] OTHER -> _copy_literal(Tail(p), Append(out, p[1]))

Error == [ok |-> FALSE, target |-> <<>>]

RECURSIVE Applied(_, _, _)
Applied(p, position, target) ==
    LET coded == p[1] = ESC
        opcode == IF coded /\ p[2] \in Opcodes THEN p[2] ELSE MOD
        body == IF coded /\ p[2] \in Opcodes THEN SubSeq(p, 3, Len(p)) ELSE p
        len == decode_length(Context(body, 0))
        after == SubSeq(body, len.used + 1, Len(body))
        lit == _copy_literal(body, <<>>)
    IN  CASE p = <<>> -> [ok |-> position <= Len(Base), target |-> target]
          [] p = <<ESC>> -> Error
          [] OTHER ->
             CASE opcode \in {EQL, DEL, BKT} /\ len.status # "OK" -> Error
               [] opcode = EQL /\ len.status = "OK" ->
                    IF position + len.n > Len(Base) THEN Error
                    ELSE Applied(after, position + len.n,
                                 target \o SubSeq(Base, position + 1, position + len.n))
               [] opcode = DEL /\ len.status = "OK" ->
                    IF position + len.n > Len(Base) THEN Error
                    ELSE Applied(after, position + len.n, target)
               [] opcode = BKT /\ len.status = "OK" ->
                    IF len.n > position THEN Error ELSE Applied(after, position - len.n, target)
               [] opcode = INS -> Applied(lit.rest, position, target \o lit.data)
               [] OTHER -> IF position + Len(lit.data) > Len(Base) THEN Error
                           ELSE Applied(lit.rest, position + Len(lit.data), target \o lit.data)

apply_patch(p) == Applied(p, 0, <<>>)

-----------------------------------------------------------------------------
(* Patches: from the tool, along any monotonic list of matching blocks     *)
(* (SequenceMatcher), or any stream of bytes.                              *)

VARIABLES
    patch,     \* the patch so far
    position,  \* the part of Base it accounts for
    wanted,    \* the target it should produce
    ops        \* steps so far

vars == <<patch, position, wanted, ops>>

Init == patch = <<>> /\ position = 0 /\ wanted = <<>> /\ ops = 0

Grow(p, n, t) ==
    /\ ops < MaxOps /\ ops' = ops + 1
    /\ position + n <= Len(Base) /\ Len(wanted) + Len(t) <= TARGET_MAX
    /\ patch' = patch \o p /\ position' = position + n /\ wanted' = wanted \o t

GenerateEqual ==
    \E n \in Lengths : Grow(emit_length_op(EQL, n), n, SubSeq(Base, position + 1, position + n))

GenerateGap ==
    \E old \in {0} \cup Lengths, new \in Literals : Grow(_emit_gap(old, new), old, new)

AnyByte ==
    /\ Len(patch) < MaxStream
    /\ \E b \in Symbols : patch' = Append(patch, b)
    /\ UNCHANGED <<position, wanted, ops>>

(* The bootloader rebuilds exactly the image that the tool diffed,         *)
(* whatever the data: escapes, bytes that look like opcodes, lengths at    *)
(* the boundaries of their encodings, literals longer than the buffer.     *)
RebuildsTarget ==
    wanted # <<>> =>
      LET c == JanpatchPort_ApplyStream(patch, Len(wanted))
      IN  c.status = "OK" /\ c.target = wanted /\ c.at = Len(patch)

(* On any stream of bytes the decoder stays inside the base image, the     *)
(* target partition and its buffer, and leaves nothing in the buffer       *)
(* behind.                                                                 *)
StaysInBounds ==
    \A size \in 1..TARGET_MAX :
      LET c == JanpatchPort_ApplyStream(patch, size)
      IN  /\ ~c.overrun /\ c.source \in 0..Len(Base)
          /\ Len(c.target) <= size /\ c.at <= Len(patch)
          /\ c.status = "OK" => c.buffer = <<>> /\ c.at = Len(patch)

(* When the bootloader accepts a stream, the tool applies it to the same   *)
(* image: what was verified on the host is what the node rebuilds.         *)
AgreesWithTool ==
    \A size \in 1..TARGET_MAX :
      LET c == JanpatchPort_ApplyStream(patch, size)
      IN  c.status = "OK" => apply_patch(patch) = [ok |-> TRUE, target |-> c.target]

=============================================================================
