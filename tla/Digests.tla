------------------------------- MODULE Digests -------------------------------
(***************************************************************************)
(* The checksum and the hash of the system: CRC-32 (shared/src/crc32.c on  *)
(* the node, UartOta_Crc32 on the gateway), and SHA-256                    *)
(* (shared/src/sha256.c), whose compression of a block and whose buffering *)
(* of a stream are looked at one by one.                                   *)
(*                                                                         *)
(* TLC's integers are too narrow for uint32_t: a word is the pair of its   *)
(* upper and lower 16 bits.  Its operations are functions, so that their   *)
(* arguments are evaluated once.                                           *)
(***************************************************************************)
EXTENDS Integers, Sequences, SequencesExt, Bitwise

CONSTANTS
    CrcLetters, MaxMessage, \* bytes and length of checksummed messages
    Patterns,               \* changes of a damaged byte
    SHA256_BLOCK_SIZE,      \* 64 in the code
    LENGTH_SIZE,            \* bytes of the length field, 8 in the code
    StreamLetters, MaxData  \* bytes and length of hashed streams

(* What the constants have to satisfy.                                     *)
DigestsAssumption ==
    /\ CrcLetters \subseteq 0..255 /\ Patterns \subseteq 1..255 /\ MaxMessage \in Nat
    /\ SHA256_BLOCK_SIZE \in Nat /\ LENGTH_SIZE \in 1..(SHA256_BLOCK_SIZE - 1)
    /\ StreamLetters \subseteq 0..255 /\ MaxData \in 0..31

HALF == 2 ^ 16
Word == Nat \X Nat

(* Bitwise operations, four bits at a time.                                *)
XorTable == [a \in 0..15, b \in 0..15 |-> a ^^ b]
AndTable == [a \in 0..15, b \in 0..15 |-> a & b]

Nibbles(table, a, b) ==
    table[a % 16, b % 16] + 16 * table[(a \div 16) % 16, (b \div 16) % 16]
      + 256 * table[(a \div 256) % 16, (b \div 256) % 16]
      + 4096 * table[a \div 4096, b \div 4096]

Xor32[a \in Word, b \in Word] ==
    <<Nibbles(XorTable, a[1], b[1]), Nibbles(XorTable, a[2], b[2])>>
And32[a \in Word, b \in Word] ==
    <<Nibbles(AndTable, a[1], b[1]), Nibbles(AndTable, a[2], b[2])>>
Not32[a \in Word] == <<HALF - 1 - a[1], HALF - 1 - a[2]>>

(* Shifts by less than 16 bits; a rotation by 16 swaps the halves.         *)
ShiftRight[a \in Word, k \in 0..15] ==
    <<a[1] \div 2 ^ k, (a[2] \div 2 ^ k) + (a[1] % 2 ^ k) * 2 ^ (16 - k)>>
RotateRight[a \in Word, k \in 0..31] ==
    IF k >= 16 THEN RotateRight[<<a[2], a[1]>>, k - 16]
    ELSE <<(a[1] \div 2 ^ k) + (a[2] % 2 ^ k) * 2 ^ (16 - k),
           (a[2] \div 2 ^ k) + (a[1] % 2 ^ k) * 2 ^ (16 - k)>>

(* The sum modulo 2^32.                                                    *)
Plus[a \in Word, b \in Word] ==
    <<(a[1] + b[1] + (a[2] + b[2]) \div HALF) % HALF, (a[2] + b[2]) % HALF>>

-----------------------------------------------------------------------------
(* Crc32_Update.                                                           *)

INITIAL_VALUE == <<HALF - 1, HALF - 1>>
FINAL_XOR == <<HALF - 1, HALF - 1>>

REVERSED_POLYNOMIAL == <<\hEDB8, \h8320>>

(* One bit: shift, and subtract the polynomial if a one fell out.          *)
ShiftBit(crc) ==
    IF crc[2] % 2 = 1 THEN Xor32[ShiftRight[crc, 1], REVERSED_POLYNOMIAL]
    ELSE ShiftRight[crc, 1]

Crc32_Byte(crc, n) ==
    FoldLeft(LAMBDA c, bit : ShiftBit(c), Xor32[crc, <<0, n>>], [bit \in 1..8 |-> bit])

Crc32_Update(running_crc, data) == FoldLeft(Crc32_Byte, running_crc, data)

-----------------------------------------------------------------------------
(* A message that is checksummed byte by byte as it arrives, and a copy of *)
(* it in which some adjacent bytes are damaged.                            *)

VARIABLES message, running, copy, copyCrc

crcVars == <<message, running, copy, copyCrc>>

Nine == [k \in 1..9 |-> 48 + k]
Damaged == {i \in DOMAIN message : message[i] # copy[i]}

CrcInit == message = <<>> /\ running = INITIAL_VALUE /\ copy = <<>> /\ copyCrc = INITIAL_VALUE

ReceiveByte(n, m) ==
    /\ message' = Append(message, n) /\ running' = Crc32_Update(running, <<n>>)
    /\ copy' = Append(copy, m) /\ copyCrc' = Crc32_Update(copyCrc, <<m>>)

Receive ==
    /\ Len(message) < MaxMessage
    /\ \E n \in CrcLetters : ReceiveByte(n, n)

(* The damage spans at most four bytes.                                    *)
ReceiveDamaged ==
    /\ Len(message) < MaxMessage
    /\ \A i \in Damaged : Len(message) + 1 - i < 4
    /\ \E n \in CrcLetters, mask \in Patterns : ReceiveByte(n, n ^^ mask)

ReceiveDigit ==
    /\ Len(message) < 9 /\ message = SubSeq(Nine, 1, Len(message)) /\ copy = message
    /\ ReceiveByte(Nine[Len(message) + 1], Nine[Len(message) + 1])

CrcNext == Receive \/ ReceiveDamaged \/ ReceiveDigit

(* Crc32_Calculate's last step.                                            *)
Crc32_Calculate == Xor32[running, FINAL_XOR]

(* The value that the tests of both sides expect of "123456789"            *)
(* (tests/unit/test_metadata.c:37, test_gateway_protocol.c:12), for a      *)
(* checksum that is updated in pieces as those of images are.              *)
KnownValue == message = Nine => Crc32_Calculate = <<\hCBF4, \h3926>>

(* Damage within four adjacent bytes never goes unnoticed, however much    *)
(* follows it: a torn flash word, or a burst of up to 32 bits on the line. *)
BurstNoticed == copy # message => copyCrc # running

-----------------------------------------------------------------------------
(* Transform of sha256.c: the compression of one block, round by round.    *)

VARIABLES pc, state, block, w, v, i

transformVars == <<pc, state, block, w, v, i>>

(* g_sha256_k                                                              *)
K == <<
    <<\h428A, \h2F98>>, <<\h7137, \h4491>>, <<\hB5C0, \hFBCF>>, <<\hE9B5, \hDBA5>>,
    <<\h3956, \hC25B>>, <<\h59F1, \h11F1>>, <<\h923F, \h82A4>>, <<\hAB1C, \h5ED5>>,
    <<\hD807, \hAA98>>, <<\h1283, \h5B01>>, <<\h2431, \h85BE>>, <<\h550C, \h7DC3>>,
    <<\h72BE, \h5D74>>, <<\h80DE, \hB1FE>>, <<\h9BDC, \h06A7>>, <<\hC19B, \hF174>>,
    <<\hE49B, \h69C1>>, <<\hEFBE, \h4786>>, <<\h0FC1, \h9DC6>>, <<\h240C, \hA1CC>>,
    <<\h2DE9, \h2C6F>>, <<\h4A74, \h84AA>>, <<\h5CB0, \hA9DC>>, <<\h76F9, \h88DA>>,
    <<\h983E, \h5152>>, <<\hA831, \hC66D>>, <<\hB003, \h27C8>>, <<\hBF59, \h7FC7>>,
    <<\hC6E0, \h0BF3>>, <<\hD5A7, \h9147>>, <<\h06CA, \h6351>>, <<\h1429, \h2967>>,
    <<\h27B7, \h0A85>>, <<\h2E1B, \h2138>>, <<\h4D2C, \h6DFC>>, <<\h5338, \h0D13>>,
    <<\h650A, \h7354>>, <<\h766A, \h0ABB>>, <<\h81C2, \hC92E>>, <<\h9272, \h2C85>>,
    <<\hA2BF, \hE8A1>>, <<\hA81A, \h664B>>, <<\hC24B, \h8B70>>, <<\hC76C, \h51A3>>,
    <<\hD192, \hE819>>, <<\hD699, \h0624>>, <<\hF40E, \h3585>>, <<\h106A, \hA070>>,
    <<\h19A4, \hC116>>, <<\h1E37, \h6C08>>, <<\h2748, \h774C>>, <<\h34B0, \hBCB5>>,
    <<\h391C, \h0CB3>>, <<\h4ED8, \hAA4A>>, <<\h5B9C, \hCA4F>>, <<\h682E, \h6FF3>>,
    <<\h748F, \h82EE>>, <<\h78A5, \h636F>>, <<\h84C8, \h7814>>, <<\h8CC7, \h0208>>,
    <<\h90BE, \hFFFA>>, <<\hA450, \h6CEB>>, <<\hBEF9, \hA3F7>>, <<\hC671, \h78F2>> >>

(* The initial state of Sha256_Init.                                       *)
H0 == << <<\h6A09, \hE667>>, <<\hBB67, \hAE85>>, <<\h3C6E, \hF372>>, <<\hA54F, \hF53A>>,
         <<\h510E, \h527F>>, <<\h9B05, \h688C>>, <<\h1F83, \hD9AB>>, <<\h5BE0, \hCD19>> >>

Xor3[a \in Word, b \in Word, c \in Word] == Xor32[Xor32[a, b], c]

LoadBe32(at) == <<block[at + 1] * 256 + block[at + 2], block[at + 3] * 256 + block[at + 4]>>

(* The padded block that Sha256_Final makes of the message of              *)
(* tests/host/test_crypto.c, "abc".                                        *)
TransformInit ==
    /\ pc = "load" /\ state = H0 /\ w = <<>> /\ v = <<>> /\ i = 0
    /\ block = [k \in 1..64 |-> CASE k = 1 -> 97 [] k = 2 -> 98 [] k = 3 -> 99
                                  [] k = 4 -> 128 [] k = 64 -> 24 [] OTHER -> 0]

Load ==
    /\ pc = "load" /\ pc' = "schedule"
    /\ w' = [k \in 1..16 |-> LoadBe32(4 * (k - 1))] /\ i' = 16
    /\ UNCHANGED <<state, block, v>>

(* w[i] from four earlier words; sequences count from one.                 *)
Schedule ==
    /\ pc = "schedule"
    /\ LET x == w[i - 15 + 1]
           y == w[i - 2 + 1]
           s0 == Xor3[RotateRight[x, 7], RotateRight[x, 18], ShiftRight[x, 3]]
           s1 == Xor3[RotateRight[y, 17], RotateRight[y, 19], ShiftRight[y, 10]]
       IN  w' = Append(w, Plus[Plus[w[i - 16 + 1], s0], Plus[w[i - 7 + 1], s1]])
    /\ i' = (i + 1) % 64
    /\ pc' = (IF i' = 0 THEN "round" ELSE "schedule")
    /\ v' = (IF i' = 0 THEN state ELSE v)
    /\ UNCHANGED <<state, block>>

Sigma1(e) == Xor3[RotateRight[e, 6], RotateRight[e, 11], RotateRight[e, 25]]
Sigma0(a) == Xor3[RotateRight[a, 2], RotateRight[a, 13], RotateRight[a, 22]]
Choice(e, f, g) == Xor32[And32[e, f], And32[Not32[e], g]]
Majority(a, b, c) == Xor3[And32[a, b], And32[a, c], And32[b, c]]

(* v is a .. h.                                                            *)
Round ==
    /\ pc = "round"
    /\ LET temp1 == Plus[Plus[Plus[v[8], Sigma1(v[5])], Plus[Choice(v[5], v[6], v[7]), K[i + 1]]],
                         w[i + 1]]
           temp2 == Plus[Sigma0(v[1]), Majority(v[1], v[2], v[3])]
       IN  v' = <<Plus[temp1, temp2], v[1], v[2], v[3], Plus[v[4], temp1], v[5], v[6], v[7]>>
    /\ i' = i + 1
    /\ pc' = (IF i' = 64 THEN "add" ELSE "round")
    /\ UNCHANGED <<state, block, w>>

AddUp ==
    /\ pc = "add" /\ pc' = "done"
    /\ state' = [k \in 1..8 |-> Plus[state[k], v[k]]]
    /\ UNCHANGED <<block, w, v, i>>

TransformNext == Load \/ Schedule \/ Round \/ AddUp

-----------------------------------------------------------------------------
(* The routine ends with the digest that tests/host/test_crypto.c:30-36    *)
(* expects of "abc".                                                       *)
KnownDigest ==
    pc = "done" => state = << <<\hBA78, \h16BF>>, <<\h8F01, \hCFEA>>, <<\h4141, \h40DE>>,
                              <<\h5DAE, \h2223>>, <<\hB003, \h61A3>>, <<\h9617, \h7A9C>>,
                              <<\hB410, \hFF61>>, <<\hF200, \h15AD>> >>

-----------------------------------------------------------------------------
(* The stream: pieces of any size go through a buffer of one block.        *)

VARIABLES context, input, data, digest

streamVars == <<context, input, data, digest>>

None == <<>>

(* Blocks are collected in place of being compressed: two streams have     *)
(* the same digest when the same blocks were transformed.                  *)
Transform(blocks, next) == Append(blocks, next)

Sha256_Init ==
    [state |-> <<>>, total_length |-> 0,
     buffer |-> [k \in 1..SHA256_BLOCK_SIZE |-> 255], buffer_length |-> 0]

StreamInit == context = Sha256_Init /\ input = <<>> /\ data = <<>> /\ digest = None

(* Sha256_Update with some bytes ...                                       *)
Sha256_Update ==
    /\ input = <<>> /\ digest = None
    /\ \E n \in 1..(MaxData - Len(data)) : \E piece \in [1..n -> StreamLetters] :
         /\ input' = piece /\ data' = data \o piece
         /\ context' = [context EXCEPT !.total_length = @ + n]
    /\ UNCHANGED digest

TransformIfFull(c) ==
    IF c.buffer_length = SHA256_BLOCK_SIZE
      THEN [c EXCEPT !.state = Transform(c.state, c.buffer), !.buffer_length = 0]
      ELSE c

(* ... and its loop: as much as the buffer has room for.                   *)
UpdateChunk ==
    /\ input # <<>>
    /\ LET room == SHA256_BLOCK_SIZE - context.buffer_length
           chunk == IF room > Len(input) THEN Len(input) ELSE room
           at == context.buffer_length
       IN  /\ context' = TransformIfFull(
                [context EXCEPT !.buffer = [k \in 1..SHA256_BLOCK_SIZE |->
                                   IF at < k /\ k <= at + chunk THEN input[k - at] ELSE @[k]],
                                !.buffer_length = at + chunk])
           /\ input' = SubSeq(input, chunk + 1, Len(input))
    /\ UNCHANGED <<data, digest>>

(* Mutant: the length may start where the mark stands.                     *)
LengthFitsTight(used) == used <= SHA256_BLOCK_SIZE - LENGTH_SIZE + 1

(* Is there room for the length after the mark?                            *)
LengthFits(used) == used <= SHA256_BLOCK_SIZE - LENGTH_SIZE

(* A bit 1, zeros up to the length field, the length in bits; a second     *)
(* block if the field does not fit the first.                              *)
Sha256_Final ==
    /\ input = <<>> /\ digest = None
    /\ LET at == context.buffer_length + 1
           bit_length == context.total_length * 8
           marked == [k \in 1..SHA256_BLOCK_SIZE |->
                        IF k < at THEN context.buffer[k] ELSE IF k = at THEN 128 ELSE 0]
           length == [k \in 1..SHA256_BLOCK_SIZE |->
                        (bit_length \div 256 ^ (SHA256_BLOCK_SIZE - k)) % 256]
           WithLength(last) ==
             [k \in 1..SHA256_BLOCK_SIZE |->
                IF k > SHA256_BLOCK_SIZE - LENGTH_SIZE THEN length[k] ELSE last[k]]
           zeros == [k \in 1..SHA256_BLOCK_SIZE |-> 0]
       IN  digest' = IF LengthFits(at)
                       THEN Transform(context.state, WithLength(marked))
                       ELSE Transform(Transform(context.state, marked), WithLength(zeros))
    /\ context' = [context EXCEPT !.state = digest', !.buffer_length = 0]
    /\ UNCHANGED <<input, data>>

StreamNext == Sha256_Update \/ UpdateChunk \/ Sha256_Final

-----------------------------------------------------------------------------
(* The standard: the padded message, cut into blocks.                      *)

Padded(m) ==
    LET zeros == CHOOSE z \in 0..SHA256_BLOCK_SIZE :
                   /\ (Len(m) + 1 + z + LENGTH_SIZE) % SHA256_BLOCK_SIZE = 0
                   /\ z < SHA256_BLOCK_SIZE
        length == [k \in 1..LENGTH_SIZE |-> ((Len(m) * 8) \div 256 ^ (LENGTH_SIZE - k)) % 256]
    IN  Append(m, 128) \o [k \in 1..zeros |-> 0] \o length

Blocks(s) ==
    [b \in 1..(Len(s) \div SHA256_BLOCK_SIZE) |->
       SubSeq(s, (b - 1) * SHA256_BLOCK_SIZE + 1, b * SHA256_BLOCK_SIZE)]

(* Whatever pieces a message comes in, the padded blocks of the standard   *)
(* are compressed in their order, at every length about the block size and *)
(* the start of the length field: HashAndCrcPayload and                    *)
(* VerifyReconstructed hash in the pieces they read from flash.            *)
DigestIsStandard == digest # None => digest = Blocks(Padded(data))

(* Only whole blocks of the message are compressed before the end, and     *)
(* none of its bytes is lost on the way there.                             *)
NothingLost ==
    digest = None =>
      FlattenSeq(context.state) \o SubSeq(context.buffer, 1, context.buffer_length) \o input
        = data

=============================================================================
