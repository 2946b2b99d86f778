----------------------------- MODULE TLSSyntax ------------------------------
(***************************************************************************)
(* The TLS presentation codec the core marshals its keys and structs with *)
(* (the tls_syntax library, not under src/; spec sections 4.B and 6).     *)
(*                                                                         *)
(* A type is a record tagged by its shape:                                *)
(*   [k |-> "u16"]                     a uint16_t, network byte order      *)
(*   [k |-> "opaque"]                  opaque<V>: varint length, octets    *)
(*   [k |-> "optional", of |-> T]      one-octet tag 0 / 1, then a T       *)
(*   [k |-> "struct", m |-> <<T1,..>>] TLS_SERIALIZABLE members in order   *)
(* A value of each shape is [u16 |-> n], [opaque |-> octets],             *)
(* [some |-> FALSE] or [some |-> TRUE, val |-> v], and the tuple of the    *)
(* member values.                                                          *)
(***************************************************************************)
EXTENDS Naturals, Sequences
LOCAL INSTANCE SequencesExt

\* The outcome of reading a prefix of a buffer, and of a top-level get.
Got(v, rest) == [ok |-> TRUE, val |-> v, rest |-> rest]
Ok(v)        == [ok |-> TRUE, val |-> v]
DecodeError  == [ok |-> FALSE]

Drop(b, n) == SubSeq(b, n + 1, Len(b))

\* The number a sequence of octets stands for, most significant first.
BigEndian(s) == FoldLeft(LAMBDA acc, x : 256 * acc + x, 0, s)

\* varint::encode (MLS v1): the two high bits of the first octet give the
\* size (00: 1 octet, 01: 2, 10: 4) and the remaining bits the value, in
\* the smallest size that holds it.
EncodeVarint(n) ==
  CASE n < 64    -> <<n>>
    [] n < 16384 -> <<64 + n \div 256, n % 256>>
    [] OTHER     -> <<128 + n \div 16777216, (n \div 65536) % 256,
                      (n \div 256) % 256, n % 256>>

\* The size of a varint by the prefix of its first octet; 0 for the
\* reserved prefix 11.
VarintSize(first) == <<1, 2, 4, 0>>[first \div 64 + 1]

\* The least value a varint of each size may carry.
VarintMin == [n \in {1, 2, 4} |-> CASE n = 1 -> 0 [] n = 2 -> 64 [] n = 4 -> 16384]

\* varint::decode: fails on an empty or truncated buffer, the reserved
\* prefix, and a value that a shorter varint would hold.
ReadVarint(b) ==
  IF Len(b) = 0 \/ VarintSize(b[1]) = 0 \/ Len(b) < VarintSize(b[1])
  THEN DecodeError
  ELSE LET n == VarintSize(b[1])
           v == BigEndian(<<b[1] % 64>> \o SubSeq(b, 2, n))
       IN IF v < VarintMin[n] THEN DecodeError ELSE Got(v, Drop(b, n))

\* ostream << uint16_t: two octets, network byte order.
EncodeU16(n) == <<n \div 256, n % 256>>

RECURSIVE Marshal(_, _)
\* tls::marshal(v) for a value v of type T.
Marshal(T, v) ==
  CASE T.k = "u16"      -> EncodeU16(v.u16)
    [] T.k = "opaque"   -> EncodeVarint(Len(v.opaque)) \o v.opaque
    [] T.k = "optional" -> IF v.some THEN <<1>> \o Marshal(T.of, v.val) ELSE <<0>>
    [] T.k = "struct"   -> FlattenSeq([i \in DOMAIN T.m |-> Marshal(T.m[i], v[i])])

RECURSIVE Read(_, _), ReadMembers(_, _)
\* istream >> v: read a T from the front of b, giving the rest.
Read(T, b) ==
  CASE T.k = "u16" ->
         IF Len(b) < 2 THEN DecodeError
         ELSE Got([u16 |-> BigEndian(SubSeq(b, 1, 2))], Drop(b, 2))
    [] T.k = "opaque" ->
         LET n == ReadVarint(b) IN
         IF ~n.ok \/ Len(n.rest) < n.val THEN DecodeError
         ELSE Got([opaque |-> SubSeq(n.rest, 1, n.val)], Drop(n.rest, n.val))
    [] T.k = "optional" ->
         IF Len(b) = 0 \/ b[1] > 1 THEN DecodeError
         ELSE IF b[1] = 0 THEN Got([some |-> FALSE], Tail(b))
         ELSE LET r == Read(T.of, Tail(b)) IN
              IF r.ok THEN Got([some |-> TRUE, val |-> r.val], r.rest) ELSE r
    [] T.k = "struct" -> ReadMembers(T.m, b)

\* The members of a struct, in declaration order; the first that fails
\* fails the struct.
ReadMembers(ms, b) ==
  IF ms = <<>> THEN Got(<<>>, b)
  ELSE LET h == Read(Head(ms), b) IN
       IF ~h.ok THEN h
       ELSE LET t == ReadMembers(Tail(ms), h.rest) IN
            IF ~t.ok THEN t ELSE Got(<<h.val>> \o t.val, t.rest)

\* tls::get<T>(b): a T that uses up the whole buffer.
Get(T, b) ==
  LET r == Read(T, b) IN
  IF r.ok /\ r.rest = <<>> THEN Ok(r.val) ELSE DecodeError
=============================================================================
