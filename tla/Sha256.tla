------------------------------- MODULE Sha256 -------------------------------
(***************************************************************************)
(* The byte arithmetic under the DRBG: the buffering and padding of        *)
(* sha256.c, the hex strings of its self test, hash_df() and byte_add() of *)
(* hash_drbg.c.                                                            *)
(*                                                                         *)
(* sha256_transform() is not computed: the context keeps the sequence of   *)
(* the 64-byte blocks it was applied to, of which H is a function.  The    *)
(* context is on the stack of its caller, so its buffer starts with        *)
(* whatever was there.                                                     *)
(***************************************************************************)
EXTENDS Integers, Sequences, SequencesExt

CONSTANTS
  MaxMessage,   \* bound: length of a message in bytes
  UpdateSizes,  \* the lengths given to sha256_update()
  AddBytes      \* the bytes added by byte_add()

\* A message is shorter than 2^31 bits.
ASSUME ShaAssumption ==
  /\ MaxMessage \in 0..(2 ^ 28 - 1)
  /\ UpdateSizes \subseteq Nat
  /\ AddBytes \subseteq 0..255

VARIABLES
  sha,      \* SHA256_CTX and, for H, the blocks that went into it
  message,  \* history: the bytes given to sha256_update() since sha256_init()
  shaPc,    \* "idle", "open" or "done"
  sum       \* the operands and the result of the last byte_add()

shaVars == <<sha, message, shaPc, sum>>

Byte == 0..255

\* The message bytes: any bytes do that differ from their neighbours.
MessageByte(k) == (37 * k) % 256

\* A byte of the buffer that was never written.
Junk == 170

sha256_init(ctx) == [ctx EXCEPT !.datalen = 0, !.bitlen = 0, !.blocks = <<>>]

\* sha256_transform() of each of the blocks.
sha256_transform(ctx, blocks) == [ctx EXCEPT !.blocks = @ \o blocks]

\* The bytes go into the buffer one by one, and a full buffer is transformed at once: the blocks
\* are the pieces of 64 bytes of all there is, and the rest stays in front of what the buffer held.
Store(ctx, bytes) ==
  LET all   == SubSeq(ctx.data, 1, ctx.datalen) \o bytes
      full  == Len(all) \div 64
      block == [k \in 1..full |-> SubSeq(all, 64 * k - 63, 64 * k)]
      rest  == SubSeq(all, 64 * full + 1, Len(all))
      under == IF full > 0 THEN block[full] ELSE ctx.data
  IN [sha256_transform(ctx, block) EXCEPT
        !.datalen = Len(rest), !.data = rest \o SubSeq(under, Len(rest) + 1, 64)]

sha256_update(ctx, data) == [Store(ctx, data) EXCEPT !.bitlen = @ + 8 * Len(data)]

\* Mutant: the length in bytes.
LengthByteMutant(bitlen, i) == IF i < 4 THEN 0 ELSE (bitlen \div 2 ^ (59 - 8 * i)) % 256

\* Byte i of the 64-bit length, big endian; a message is shorter than 2^31 bits.
LengthByte(bitlen, i) == IF i < 4 THEN 0 ELSE (bitlen \div 2 ^ (56 - 8 * i)) % 256

\* 0x80, zeros up to byte 56, which may be that of a second block, and the length.
sha256_finalize(ctx) ==
  LET zeros  == IF ctx.datalen < 56 THEN 55 - ctx.datalen ELSE 119 - ctx.datalen
      padded == Store(ctx, <<128>> \o [k \in 1..zeros |-> 0])
      block  == SubSeq(padded.data, 1, 56) \o [i \in 1..8 |-> LengthByte(ctx.bitlen, i - 1)]
  IN sha256_transform([padded EXCEPT !.data = block], <<block>>)

-----------------------------------------------------------------------------

\* Hex digits are their values, 16 any other character; an error is the
\* sequence <<-1>>.
hex_to_bytes(in, inlen, outlen) ==
  LET h_len == IF Len(in) <= inlen THEN Len(in) ELSE inlen
  IN IF h_len % 2 = 1 \/ h_len \div 2 > outlen \/ \E i \in 1..h_len : in[i] > 15
     THEN <<-1>>
     ELSE [i \in 1..(h_len \div 2) |-> 16 * in[2 * i - 1] + in[2 * i]]

\* The string ends with a '\0' that needs its place in the array too.
bytes_to_hex(in, outlen) ==
  IF 2 * Len(in) + 1 > outlen THEN <<-1>>
  ELSE [i \in 1..(2 * Len(in)) |-> IF i % 2 = 1 THEN in[(i + 1) \div 2] \div 16 ELSE in[i \div 2] % 16]

\* The error of hash_df().
DfError == <<[counter |-> 0, copied |-> -1]>>

\* Mutant: nothing of a last block that is whole.
hash_dfMutant(out_len) ==
  LET len == (out_len + 31) \div 32
  IN IF out_len > 255 * 32 THEN DfError
     ELSE [n \in 1..len |-> [counter |-> n,
                             copied |-> IF n # len THEN 32 ELSE out_len % 32]]

\* What is hashed for each block, and how much of the hash is copied.
hash_df(out_len) ==
  LET len == (out_len + 31) \div 32
  IN IF out_len > 255 * 32 THEN DfError
     ELSE [n \in 1..len |-> [counter |-> n,
                             copied |-> IF n # len \/ out_len % 32 = 0 THEN 32 ELSE out_len % 32]]

\* X = X + Y, both big endian, as long as X; the upper bytes of a longer Y are ignored.
byte_add(X, Y) ==
  LET n        == Len(X)
      y_offset == n - Len(Y)
      Y_at(i)  == IF i - y_offset >= 1 THEN Y[i - y_offset] ELSE 0
      carry[i \in 1..(n + 1)] ==
        IF i = n + 1 THEN 0 ELSE IF X[i] + Y_at(i) + carry[i + 1] > 255 THEN 1 ELSE 0
  IN [i \in 1..n |-> (X[i] + Y_at(i) + carry[i + 1]) % 256]

-----------------------------------------------------------------------------

NoSum == [x |-> <<>>, y |-> <<>>, result |-> <<>>]

ShaInit ==
  /\ sha = [data |-> [i \in 1..64 |-> Junk], datalen |-> 0, bitlen |-> 0, blocks |-> <<>>]
  /\ message = <<>>
  /\ shaPc = "idle"
  /\ sum = NoSum

ShaOpen ==
  /\ shaPc = "idle"
  /\ sha' = sha256_init([sha EXCEPT !.data = [i \in 1..64 |-> Junk]])
  /\ message' = <<>>
  /\ shaPc' = "open"
  /\ UNCHANGED sum

ShaUpdate(n) ==
  /\ shaPc = "open"
  /\ Len(message) + n <= MaxMessage
  /\ LET bytes == [k \in 1..n |-> MessageByte(Len(message) + k)]
     IN /\ message' = message \o bytes
        /\ sha' = sha256_update(sha, bytes)
  /\ UNCHANGED <<shaPc, sum>>

ShaFinalize ==
  /\ shaPc = "open"
  /\ sha' = sha256_finalize(sha)
  /\ shaPc' = "done"
  /\ UNCHANGED <<message, sum>>

\* hash_drbg_generate_alg() adds H, C and the count to V.
Add(x, y) ==
  /\ shaPc = "done" /\ sum = NoSum
  /\ sum' = [x |-> x, y |-> y, result |-> byte_add(x, y)]
  /\ UNCHANGED <<sha, message, shaPc>>

\* The digest has been returned.
ShaReturn ==
  /\ shaPc = "done"
  /\ shaPc' = "idle" /\ sum' = NoSum /\ message' = <<>>
  /\ sha' = [sha256_init(sha) EXCEPT !.data = [i \in 1..64 |-> Junk]]

ShaNext ==
  \/ ShaOpen
  \/ \E n \in UpdateSizes : ShaUpdate(n)
  \/ ShaFinalize
  \/ /\ message = <<>>
     /\ \E x \in [1..3 -> AddBytes] :
          \E y \in [1..1 -> AddBytes] \cup [1..2 -> AddBytes] \cup [1..3 -> AddBytes] : Add(x, y)
  \/ ShaReturn

ShaSpec == ShaInit /\ [][ShaNext]_shaVars

-----------------------------------------------------------------------------

\* The value of a big-endian byte array that is below 2^31.
ValueOf(bytes) ==
  LET value[i \in 0..Len(bytes)] == IF i = 0 THEN 0 ELSE 256 * value[i - 1] + bytes[i]
  IN value[Len(bytes)]

\* The bytes that the blocks of hash_df() fill.
Filling(df) ==
  LET filled[i \in 0..Len(df)] == IF i = 0 THEN 0 ELSE filled[i - 1] + df[i].copied
  IN filled[Len(df)]

\* Whatever the pieces a message comes in, the blocks that are transformed are the
\* message, 0x80, the least number of zeros and the length in bits: FIPS 180-4, 5.1.1.
BlocksAreFips ==
  shaPc = "done" =>
    LET all   == FlattenSeq(sha.blocks)
        n     == Len(message)
        zeros == SubSeq(all, n + 2, Len(all) - 8)
    IN /\ Len(all) % 64 = 0 /\ Len(all) >= n + 9 /\ Len(all) < n + 9 + 64
       /\ SubSeq(all, 1, n) = message /\ all[n + 1] = 128
       /\ \A i \in DOMAIN zeros : zeros[i] = 0
       /\ ValueOf(SubSeq(all, Len(all) - 7, Len(all))) = 8 * n

\* The helpers are exact at every length and carry.  The self test reads its messages from hex and
\* compares digests in hex: the conversions undo each other, and an array that is too small is refused.
\* hash_df() fills an array of any length, from blocks that differ in their counter.  byte_add() is
\* addition modulo the size of X, with every carry.
HelpersAreExact ==
  /\ shaPc = "done" =>
       LET hex == bytes_to_hex(message, 2 * Len(message) + 1)
           df  == hash_df(Len(message))
       IN /\ bytes_to_hex(message, 2 * Len(message)) = <<-1>>
          /\ hex_to_bytes(hex, Len(hex), Len(message)) = message
          /\ message # <<>> => hex_to_bytes(hex, Len(hex), Len(message) - 1) = <<-1>>
          /\ Filling(df) = Len(message)
          /\ \A i, j \in DOMAIN df : df[i].counter = df[j].counter => i = j
  /\ sum # NoSum => ValueOf(sum.result) = (ValueOf(sum.x) + ValueOf(sum.y)) % (2 ^ 24)
=============================================================================
