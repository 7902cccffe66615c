------------------------------- MODULE Bytes -------------------------------
(***************************************************************************)
(* Byte level helpers of the packet codec: integers on the wire, the       *)
(* UTF-8 check, and the reader every decoding constructor is written with. *)
(* A buffer is a sequence of numbers 0 .. 255; an error code is a string.  *)
(***************************************************************************)
EXTENDS Integers, Sequences, SequencesExt, TLC

Byte == 0 .. 255

(***************************************************************************)
(* Integers.                                                               *)
(***************************************************************************)
\* endian_store without the truncation to a byte.
endian_store_wide(v, n) == [i \in 1 .. n |-> v \div 256 ^ (n - i)]

\* The n low bytes of v, the most significant first.
endian_store(v, n) == [i \in 1 .. n |-> (v \div 256 ^ (n - i)) % 256]

RECURSIVE endian_load(_)
endian_load(s) ==
  IF s = <<>> THEN 0 ELSE 256 * endian_load(Front(s)) + Last(s)

MaxVariable == 268435455

RECURSIVE VariableBytes(_)
VariableBytes(v) ==
  IF v > 127 THEN <<(v % 128) + 128>> \o VariableBytes(v \div 128) ELSE <<v>>

\* Seven bits a byte, the low ones first; nothing above 28 bits.
val_to_variable_bytes(v) == IF v > MaxVariable THEN <<>> ELSE VariableBytes(v)

NoVariable == [ok |-> FALSE, val |-> 0, used |-> 0]

VariableVal(s, used) ==
  [ok |-> TRUE, used |-> used,
   val |-> FoldLeftDomain(LAMBDA sum, i : sum + (s[i] % 128) * 128 ^ (i - 1),
                          0, SubSeq(s, 1, used))]

\* The value at the front of s and how many bytes it takes; none when a
\* fifth byte would be needed or s ends before the last byte.
variable_bytes_to_val(s) ==
  IF \A i \in 1 .. Min({4, Len(s)}) : s[i] > 127 THEN NoVariable
  ELSE VariableVal(s, SelectInSeq(s, LAMBDA b : b < 128))

(***************************************************************************)
(* UTF-8, by the bit patterns of the bytes of one character.               *)
(***************************************************************************)
Follows(s, n) == Len(s) >= n /\ \A i \in 2 .. n : s[i] \in 128 .. 191

OneByte(b) == b \in 32 .. 126

TwoBytes(s) ==
  /\ Follows(s, 2)
  /\ s[1] \in 194 .. 223
  /\ ~ (s[1] = 194 /\ s[2] \in 128 .. 159)

ThreeBytes(s) ==
  /\ Follows(s, 3)
  /\ ~ (s[1] = 224 /\ s[2] \in 128 .. 159)
  /\ ~ (s[1] = 237 /\ s[2] \in 160 .. 191)
  /\ ~ (s[1] = 239 /\ s[2] = 191 /\ s[3] \in {190, 191})

\* FourBytes that lets through the code points U+nFFFE and U+nFFFF.
FourBytesLax(s) ==
  /\ Follows(s, 4)
  /\ ~ (s[1] = 240 /\ s[2] \in 128 .. 143)
  /\ ~ (s[1] = 244 /\ s[2] > 143)
  /\ s[1] <= 244

FourBytes(s) ==
  /\ Follows(s, 4)
  /\ ~ (s[1] = 240 /\ s[2] \in 128 .. 143)
  /\ ~ (s[1] = 244 /\ s[2] > 143)
  /\ s[1] <= 244
  /\ ~ (s[2] \in {143, 159, 175, 191} /\ s[3] = 191 /\ s[4] \in {190, 191})

RECURSIVE utf8string_check(_)
utf8string_check(s) ==
  LET first == SelectInSeq(s, LAMBDA b : ~ OneByte(b))
      rest == SubSeq(s, first, Len(s))
      From(n) == utf8string_check(SubSeq(rest, n + 1, Len(rest)))
  IN \/ first = 0
     \/ first > 0 /\ rest[1] \in 192 .. 223 /\ TwoBytes(rest) /\ From(2)
     \/ first > 0 /\ rest[1] \in 224 .. 239 /\ ThreeBytes(rest) /\ From(3)
     \/ first > 0 /\ rest[1] \in 240 .. 247 /\ FourBytes(rest) /\ From(4)

(***************************************************************************)
(* The reader: ec is the error met so far, buf what is left of the frame   *)
(* and v the fields read.  After an error nothing is read any more, as     *)
(* the decoding constructors return.                                       *)
(***************************************************************************)
None == "none"
Malformed == "malformed_packet"
ProtocolError == "protocol_error"

Failed(r) == r.ec # None
Fail(r, ec) == [r EXCEPT !.ec = ec]
Set(r, name, val) == [r EXCEPT !.v = (name :> val) @@ @]
Left(r, n) == [r EXCEPT !.buf = SubSeq(@, n + 1, Len(@))]

Reader(buf, v) == [ec |-> None, buf |-> buf, v |-> v]

\* The next thing to read, and a condition on what was read.
Then(r, F(_)) == IF Failed(r) THEN r ELSE F(r)
Check(r, P(_), ec) == Then(r, LAMBDA q : IF P(q) THEN q ELSE Fail(q, ec))

AtEnd(r) == r.buf = <<>>

\* insert_advance and copy_advance: n bytes or an error.
insert_advance(r, name, n) ==
  Then(r, LAMBDA q : IF Len(q.buf) < n THEN Fail(q, Malformed)
                     ELSE Left(Set(q, name, SubSeq(q.buf, 1, n)), n))

\* A big endian number of n bytes.
Number(r, name, n) ==
  Then(insert_advance(r, name, n), LAMBDA q : Set(q, name, endian_load(q.v[name])))

\* A two byte length and that many bytes, checked to be UTF-8 if text.
Lengthed(r, name, text) ==
  Check(Then(Number(r, name, 2), LAMBDA q : insert_advance(q, name, q.v[name])),
        LAMBDA q : text => utf8string_check(q.v[name]), Malformed)

Took(r, name, got) ==
  IF got.ok THEN Left(Set(r, name, got.val), got.used) ELSE Fail(r, Malformed)
insert_advance_variable_length(r, name) ==
  Then(r, LAMBDA q : Took(q, name, variable_bytes_to_val(q.buf)))

\* One() until nothing is left, and at least once.
ReadEntries(r, One(_)) ==
  FoldLeft(LAMBDA q, i : IF AtEnd(q) THEN q ELSE Then(q, One),
           Check(r, LAMBDA q : ~ AtEnd(q), ProtocolError), r.buf)

\* Lengthed, as a writer: the two buffers of a string.
Counted(s) == <<endian_store(Len(s), 2), s>>

(***************************************************************************)
(* The fixed header of every packet.                                       *)
(***************************************************************************)
control_packet_type ==
  [connect |-> 1, connack |-> 2, publish |-> 3, puback |-> 4, pubrec |-> 5,
   pubrel |-> 6, pubcomp |-> 7, subscribe |-> 8, suback |-> 9, unsubscribe |-> 10,
   unsuback |-> 11, pingreq |-> 12, pingresp |-> 13, disconnect |-> 14, auth |-> 15]

\* The reserved bits a type must have.
ReservedBits(type) == IF type \in {"pubrel", "subscribe", "unsubscribe"} THEN 2 ELSE 0

make_fixed_header(type, flags) == 16 * control_packet_type[type] + (flags % 16)

get_control_packet_type(byte) == byte \div 16

get_control_packet_type_with_check(byte, type) ==
  /\ byte \div 16 = control_packet_type[type]
  /\ type = "publish" \/ byte % 16 = ReservedBits(type)

FixedHeader(buf, v) ==
  Check(Number(Reader(buf, v), "fixed_header", 1),
        LAMBDA r : get_control_packet_type_with_check(r.v.fixed_header, v.type), Malformed)

\* The fixed header and a remaining length that must be what is left.
FrameHeader(buf, v) ==
  Check(insert_advance_variable_length(FixedHeader(buf, v), "remaining_length"),
        LAMBDA r : r.v.remaining_length = Len(r.buf), Malformed)

Bit(byte, mask) == (byte \div mask) % 2 = 1
If(c, n) == IF c THEN n ELSE 0
Optional(c, s) == IF c THEN s ELSE <<>>

\* The value of an optional argument, a sequence of at most one.
ValueOr(opt, default) == IF opt = <<>> THEN default ELSE opt[1]

\* What a constructor returns: the object or the error it throws.
Made(v, error) == [ec |-> error, v |-> v]
MalformedIf(c) == IF c THEN Malformed ELSE None

\* The header buffers and the size of an object.
HeaderBuffers(o) == <<<<o.fixed_header>>, val_to_variable_bytes(o.remaining_length)>>
SizeOf(o) == 1 + Len(val_to_variable_bytes(o.remaining_length)) + o.remaining_length
=============================================================================
