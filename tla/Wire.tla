-------------------------------- MODULE Wire --------------------------------
(***************************************************************************)
(* What both codecs read and write (src/src/utils.rs): a buffer is a       *)
(* sequence of tokens, each one field of a packet.  A token has the number *)
(* of bytes it takes and a value; a string or a byte array is its length,  *)
(* so its token takes two bytes more than its value.  Only the bytes of a  *)
(* variable length integer are tokens of their own, because a decoder may  *)
(* see some of them and not the others.                                    *)
(***************************************************************************)
EXTENDS Integers, Sequences, SequencesExt, FiniteSetsExt

Tok(n, v) == [n |-> n, v |-> v]

\* The sum of a sequence of numbers.
Total(seq) ==
    LET upto[k \in 0..Len(seq)] == IF k = 0 THEN 0 ELSE upto[k - 1] + seq[k]
    IN  upto[Len(seq)]

\* The number of bytes of a buffer (its len() or remaining()).
Bytes(toks) == Total([i \in DOMAIN toks |-> toks[i].n])

\* A `?` of an encoder that fails: nothing is written from here on.
InvalidLength == Tok(0, -1)
MalformedPacket == Tok(0, -2)
PacketIdRequired == Tok(0, -3)
TooBig == Tok(0, -4)
Failures == {InvalidLength, MalformedPacket, PacketIdRequired, TooBig}

\* What a sequence of writes leaves in the buffer, and whether it failed.
Fails(toks) == \E i \in DOMAIN toks : toks[i] \in Failures
Written(toks) ==
    IF Fails(toks)
    THEN SubSeq(toks, 1, Min({i \in DOMAIN toks : toks[i] \in Failures}) - 1)
    ELSE toks

u8(v) == Tok(1, v)
u16(v) == Tok(2, v)
u32(v) == Tok(4, v)

\* Encode for Bytes and ByteString: the length must fit into 16 bits.
string(len) == IF len > 65535 THEN InvalidLength ELSE Tok(2 + len, len)

\* Encode for (ByteString, ByteString): a key and a value of len bytes together.
pair(len) == IF len > 65535 THEN InvalidLength ELSE Tok(4 + len, len)

MAX_PACKET_SIZE == 268435455

\* The table indexed by leading zeros: seven bits for every byte.
var_int_len(val) ==
    CASE val < 128 -> 1
      [] val >= 128 /\ val < 16384 -> 2
      [] val >= 16384 /\ val < 2097152 -> 3
      [] val >= 2097152 /\ val <= MAX_PACKET_SIZE -> 4
      [] OTHER -> 5

\* `len` from `var_int_len(len) + len`.
var_int_len_from_size(val) ==
    LET over_size == var_int_len(val)
        res == val - over_size + 1
    IN  val - var_int_len(res)

\* The bytes of a variable length integer, least significant group first.
write_variable_length(len) ==
    IF len > MAX_PACKET_SIZE THEN <<TooBig>>
    ELSE LET k == var_int_len(len)
         IN  [i \in 1..k |-> u8(((len \div 128^(i - 1)) % 128) + (IF i < k THEN 128 ELSE 0))]

\* Result<u32, DecodeError> and how much of the buffer was read.
Read(v, used) == [err |-> "none", v |-> v, used |-> used]
Err(e) == [err |-> e]

decode_variable_length_cursor(src) ==
    LET seen == SubSeq(src, 1, Min({4, Len(src)}))
        ends == {i \in DOMAIN seen : seen[i].v < 128}
    IN  IF \E i \in DOMAIN seen : seen[i].n # 1 /\ \A j \in ends : i <= j THEN Err("desync")
        ELSE IF ends # {}
        THEN LET k == Min(ends)
             IN  Read(Total([i \in 1..k |-> (seen[i].v % 128) * 128^(i - 1)]), k)
        ELSE IF Len(seen) < 4 THEN Err("MalformedPacket") ELSE Err("InvalidLength")

\* The same read of a slice: an integer that is not all there is not an error.
decode_variable_length(src) ==
    LET r == decode_variable_length_cursor(src)
    IN  IF r.err = "MalformedPacket" THEN Err("incomplete") ELSE r

\* split_to(n): the tokens of the first n bytes and the rest.
CanSplit(src, n) == \E k \in 0..Len(src) : Bytes(SubSeq(src, 1, k)) = n
split_to(src, n) ==
    LET k == CHOOSE k \in 0..Len(src) : /\ Bytes(SubSeq(src, 1, k)) = n
                                        /\ \A j \in 0..(k - 1) : Bytes(SubSeq(src, 1, j)) # n
    IN  [head |-> SubSeq(src, 1, k), rest |-> SubSeq(src, k + 1, Len(src))]

\* A property section of src whose length was read as r.
taken(src, r) ==
    IF r.err # "none" THEN r
    ELSE LET rest == SubSeq(src, r.used + 1, Len(src))
         IN  IF Bytes(rest) < r.v THEN Err("InvalidLength")
             ELSE IF ~CanSplit(rest, r.v) THEN Err("desync")
             ELSE split_to(rest, r.v) @@ [err |-> "none"]
take_properties(src) == taken(src, decode_variable_length_cursor(src))

\* The first fields of a buffer have the sizes a decoder reads them with; a
\* string has the size its own length announces.
ReadsAs(src, sizes) ==
    /\ Len(src) >= Len(sizes)
    /\ \A i \in DOMAIN sizes :
          src[i].n = (IF sizes[i] = "string" THEN 2 + src[i].v
                      ELSE IF sizes[i] = "u16" THEN 2 ELSE 1)
=============================================================================
