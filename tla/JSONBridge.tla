------------------------------ MODULE JSONBridge ------------------------------
(***************************************************************************)
(* The JSON serializers of the interop tool (src/cmd/interop/src/          *)
(* json_details.h): the adl_serializer specializations for std::optional,  *)
(* the 32-bit counters (uint_serializer), CipherSuite and the TLS-         *)
(* serializable types, and the NLOHMANN_DEFINE_TYPE_NON_INTRUSIVE structs  *)
(* of the test vectors.                                                    *)
(*                                                                         *)
(* A test-vector document is written either by this implementation        *)
(* (to_json) or by a foreign one, and read back with from_json under the   *)
(* type the harness expects.  JSON values are nlohmann's value kinds;     *)
(* numbers keep the kind the parser gives them (non-negative integers are *)
(* number_unsigned, negative ones number_integer, fractions number_float), *)
(* and a conversion to a C++ integer type is static_cast, i.e. modulo      *)
(* 2^width.  A failed from_json is Fail, whatever the exception.  An      *)
(* integer is kept as two halves, hi * 2^16 + lo, so that values of 32 and *)
(* more bits fit TLC's integers.  C++ values are records of distinct     *)
(* shapes: a counter a Num, a CipherSuite [id], bytes [octets], an          *)
(* optional [some, val], a struct a record of its members.                 *)
(***************************************************************************)
EXTENDS Integers, Sequences

CONSTANTS
  Types,        \* C++ types the harness reads and writes (records [k, of, f], see Vals)
  UintVals,     \* LeafCount / NodeCount / ... values this side writes
  SuiteVals,    \* CipherSuite IDs this side writes
  BytesVals,    \* byte strings this side writes (opaque data, key bytes)
  ForeignDocs   \* JSON values a foreign writer may put where a field goes

ASSUME \A b \in BytesVals : \A i \in 1..Len(b) : b[i] \in 0..255

VARIABLES
  doc,   \* the document on disk: [type, json, value], value = what was written
  read   \* the outcome of the last from_json of doc, or NoRead

vars == <<doc, read>>

(* nlohmann JSON values. *)
Null           == [t |-> "null"]
Bool(b)        == [t |-> "boolean", b |-> b]
Unsigned(n)    == [t |-> "number_unsigned", n |-> n]
Integer(n)     == [t |-> "number_integer", n |-> n]
Float(num, den) == [t |-> "number_float", q |-> <<num, den>>]
Str(s)         == [t |-> "string", s |-> s]
Object(o)      == [t |-> "object", o |-> o]

(* Outcomes of from_json. *)
Ok(v) == [ok |-> TRUE, val |-> v]
Fail  == [ok |-> FALSE]
NoRead == [none |-> TRUE]

(* std::optional values. *)
Nullopt  == [some |-> FALSE]
Some(v)  == [some |-> TRUE, val |-> v]

\* The integer hi * 2^16 + lo, with lo in 0..2^16-1 (hi negative for a
\* negative integer).
Num(hi, lo) == [hi |-> hi, lo |-> lo]
Small(n)    == Num(n \div 65536, n % 65536)

\* static_cast to uint32_t and to uint16_t: modulo 2^32 and 2^16.
Cast32(x) == Num(x.hi % 65536, x.lo)
Cast16(x) == x.lo

\* static_cast of a (positive, in-range) fraction: truncation toward zero.
Trunc(q) == Small(q[1] \div q[2])

-----------------------------------------------------------------------------
(* to_hex / from_hex and the TLS encoding of an opaque<V> (not under src/;  *)
(* spec sections 4.A and 6).  A hex string is a sequence of digit values,  *)
(* 16 standing for any character that is not a hex digit.                  *)

ToHex(b) == [i \in 1..2 * Len(b) |->
               IF i % 2 = 1 THEN b[(i + 1) \div 2] \div 16 ELSE b[i \div 2] % 16]

FromHex(s) ==
  IF Len(s) % 2 = 0 /\ \A i \in 1..Len(s) : s[i] < 16
  THEN Ok([i \in 1..Len(s) \div 2 |-> 16 * s[2 * i - 1] + s[2 * i]])
  ELSE Fail

\* The TLS codec.  The TLS-serialized object of the bridge is an
\* HPKEPublicKey: an opaque<V> holding the key's data.
TLS == INSTANCE TLSSyntax
PublicKeyTLS == [k |-> "opaque"]

\* to_json / from_json of bytes (declared in json_details.h, defined
\* outside src/): a hex string.
BytesToJson(v) == Str(ToHex(v.octets))
BytesFromJson(j) ==
  LET h == IF j.t = "string" THEN FromHex(j.s) ELSE Fail
  IN IF h.ok THEN Ok([octets |-> h.val]) ELSE h

-----------------------------------------------------------------------------
(* The serializers of json_details.h. *)

RECURSIVE ToJson(_, _), FromJson(_, _)

\* adl_serializer<std::optional<T>>::to_json
OptionalToJson(T, v) == IF v.some THEN ToJson(T, v.val) ELSE Null

\* adl_serializer<std::optional<T>>::from_json: null is nullopt, anything
\* else is read as a T.
OptionalFromJson(T, j) ==
  IF j.t = "null" THEN Ok(Nullopt)
  ELSE LET r == FromJson(T, j) IN IF r.ok THEN Ok(Some(r.val)) ELSE r

\* uint_serializer<T>::to_json: j = v.val, a uint32_t (a Num).
UintToJson(v) == Unsigned(v)

\* Faulty variant: the value read through a 16-bit integer.
UintFromJsonU16(j) ==
  CASE j.t \in {"number_unsigned", "number_integer"} -> Ok(Small(Cast16(j.n)))
    [] j.t = "number_float" -> Ok(Small(Cast16(Trunc(j.q))))
    [] j.t = "boolean"      -> Ok(Small(IF j.b THEN 1 ELSE 0))
    [] OTHER                -> Fail

\* uint_serializer<T>::from_json: j.get_to(v.val), nlohmann's conversion to
\* an arithmetic type, which accepts every number kind and booleans.
UintFromJson(j) ==
  CASE j.t \in {"number_unsigned", "number_integer"} -> Ok(Cast32(j.n))
    [] j.t = "number_float" -> Ok(Cast32(Trunc(j.q)))
    [] j.t = "boolean"      -> Ok(Small(IF j.b THEN 1 ELSE 0))
    [] OTHER                -> Fail

\* adl_serializer<CipherSuite>::to_json: the 16-bit ID, as an enum, which
\* nlohmann writes as its underlying integer.
SuiteToJson(v) == Unsigned(Small(v.id))

\* Faulty variant: the ID read into a 32-bit integer.
SuiteFromJsonWide(j) ==
  CASE j.t \in {"number_unsigned", "number_integer"} -> Ok([id |-> Cast32(j.n).hi * 65536 + j.n.lo])
    [] j.t = "number_float" -> Ok([id |-> Cast16(Trunc(j.q))])
    [] OTHER                -> Fail

\* adl_serializer<CipherSuite>::from_json: j.get<CipherSuite::ID>(), the
\* enum conversion, which reads a number (not a boolean) into uint16_t and
\* casts it; no check that the ID names a supported suite.
SuiteFromJson(j) ==
  CASE j.t \in {"number_unsigned", "number_integer"} -> Ok([id |-> Cast16(j.n)])
    [] j.t = "number_float" -> Ok([id |-> Cast16(Trunc(j.q))])
    [] OTHER                -> Fail

\* tls_serializer<T>: the hex of the TLS marshalling.
TlsToJson(v) ==
  BytesToJson([octets |-> TLS!Marshal(PublicKeyTLS, [opaque |-> v.octets])])
TlsFromJson(j) ==
  LET b == BytesFromJson(j)
      t == IF b.ok THEN TLS!Get(PublicKeyTLS, b.val.octets) ELSE b
  IN IF t.ok THEN Ok([octets |-> t.val.opaque]) ELSE Fail

\* Faulty variant: a null member left out of the object.
StructToJsonSkipNull(T, v) ==
  Object([f \in {g \in DOMAIN T.f : ToJson(T.f[g], v[g]) # Null} |->
            ToJson(T.f[f], v[f])])

\* NLOHMANN_DEFINE_TYPE_NON_INTRUSIVE to_json: j["f"] = v.f for each member.
StructToJson(T, v) == Object([f \in DOMAIN T.f |-> ToJson(T.f[f], v[f])])

\* NLOHMANN_DEFINE_TYPE_NON_INTRUSIVE from_json: j.at("f").get_to(v.f) for
\* each member: at() throws on a non-object and on a missing key, extra keys
\* are ignored, and the first member that fails aborts the read.
StructFromJson(T, j) ==
  IF j.t # "object" \/ ~(DOMAIN T.f \subseteq DOMAIN j.o) THEN Fail
  ELSE LET r == [f \in DOMAIN T.f |-> FromJson(T.f[f], j.o[f])]
       IN IF \A f \in DOMAIN T.f : r[f].ok
          THEN Ok([f \in DOMAIN T.f |-> r[f].val]) ELSE Fail

\* The serializer the adl_serializer specializations select for a type.
ToJson(T, v) ==
  CASE T.k = "uint"   -> UintToJson(v)
    [] T.k = "suite"  -> SuiteToJson(v)
    [] T.k = "bytes"  -> BytesToJson(v)
    [] T.k = "tls"    -> TlsToJson(v)
    [] T.k = "opt"    -> OptionalToJson(T.of, v)
    [] T.k = "struct" -> StructToJson(T, v)

FromJson(T, j) ==
  CASE T.k = "uint"   -> UintFromJson(j)
    [] T.k = "suite"  -> SuiteFromJson(j)
    [] T.k = "bytes"  -> BytesFromJson(j)
    [] T.k = "tls"    -> TlsFromJson(j)
    [] T.k = "opt"    -> OptionalFromJson(T.of, j)
    [] T.k = "struct" -> StructFromJson(T, j)

-----------------------------------------------------------------------------
(* The test-vector harness: a writer puts one document on disk, the reader *)
(* parses it under the type it expects.                                     *)

RECURSIVE Vals(_)
\* The values of a type this side writes.
Vals(T) ==
  CASE T.k = "uint"   -> UintVals
    [] T.k = "suite"  -> {[id |-> i] : i \in SuiteVals}
    [] T.k \in {"bytes", "tls"} -> {[octets |-> b] : b \in BytesVals}
    [] T.k = "opt"    -> {Nullopt} \cup {Some(v) : v \in Vals(T.of)}
    [] T.k = "struct" -> {r \in [DOMAIN T.f -> UNION {Vals(T.f[g]) : g \in DOMAIN T.f}] :
                            \A f \in DOMAIN T.f : r[f] \in Vals(T.f[f])}

RECURSIVE IsValue(_, _)
\* v is a value of the C++ type T.
IsValue(T, v) ==
  CASE T.k = "uint"   -> v.hi \in 0..65535 /\ v.lo \in 0..65535
    [] T.k = "suite"  -> v.id \in 0..65535
    [] T.k \in {"bytes", "tls"} -> \A i \in 1..Len(v.octets) : v.octets[i] \in 0..255
    [] T.k = "opt"    -> ~v.some \/ IsValue(T.of, v.val)
    [] T.k = "struct" -> DOMAIN v = DOMAIN T.f /\ \A f \in DOMAIN T.f : IsValue(T.f[f], v[f])

\* A string of an even number of hex digits, and the octets it spells.
IsHex(j) == j.t = "string" /\ Len(j.s) % 2 = 0 /\ \A i \in 1..Len(j.s) : j.s[i] < 16
HexOctets(s) == [i \in 1..Len(s) \div 2 |-> 16 * s[2 * i - 1] + s[2 * i]]

\* Octets that are an opaque<V> as a writer marshals it: the minimal varint
\* of n followed by exactly n octets.
IsOpaque(o) == \E n \in 0..Len(o) :
                 o = TLS!EncodeVarint(n) \o SubSeq(o, Len(o) - n + 1, Len(o))

RECURSIVE Conforms(_, _)
\* j is what spec section 4.H prescribes for a value of T: counters as
\* plain numbers of 32 bits, a CipherSuite as its 16-bit ID, bytes as hex,
\* TLS types as the hex of their marshalling, optionals as null or the
\* inner value, structs as an object with exactly their fields.  The form
\* is stated by how a writer produces it, not by what the reader accepts.
Conforms(T, j) ==
  CASE T.k = "uint"   -> j.t = "number_unsigned" /\ j.n.hi < 65536
    [] T.k = "suite"  -> j.t = "number_unsigned" /\ j.n.hi = 0
    [] T.k = "bytes"  -> IsHex(j)
    [] T.k = "tls"    -> IsHex(j) /\ IsOpaque(HexOctets(j.s))
    [] T.k = "opt"    -> j = Null \/ Conforms(T.of, j)
    [] T.k = "struct" -> /\ j.t = "object" /\ DOMAIN j.o = DOMAIN T.f
                         /\ \A f \in DOMAIN T.f : Conforms(T.f[f], j.o[f])

\* This implementation writes a vector: to_json.
WriteVector(T, v) ==
  /\ doc' = [type |-> T, json |-> ToJson(T, v), value |-> Ok(v)]
  /\ read' = NoRead

\* Another implementation writes a vector.
ForeignVector(T, j) ==
  /\ doc' = [type |-> T, json |-> j, value |-> NoRead]
  /\ read' = NoRead

\* The harness parses the document: j.get<T>(), i.e. from_json.
ReadVector ==
  /\ doc # NoRead
  /\ read' = FromJson(doc.type, doc.json)
  /\ UNCHANGED doc

Init == doc = NoRead /\ read = NoRead

Next ==
  \/ \E T \in Types : \E v \in Vals(T) : WriteVector(T, v)
  \/ \E T \in Types, j \in ForeignDocs : ForeignVector(T, j)
  \/ ReadVector

Spec == Init /\ [][Next]_vars

-----------------------------------------------------------------------------
(* Properties. *)

TypeOK ==
  /\ doc = NoRead \/ doc.type \in Types
  /\ read = NoRead \/ read = Fail \/ (read.ok = TRUE /\ IsValue(doc.type, read.val))

\* Write-read round trip: a vector this implementation wrote reads back, under
\* its own type, as exactly the value written, through every nesting of
\* optionals and structs (from_json inverts to_json).
WriteReadRoundTrip ==
  (read # NoRead /\ doc.value # NoRead) => read = doc.value

\* Foreign vectors are accepted (spec 4.H and 6: the core must accept any
\* vector a conforming implementation produces): a document in the form
\* the spec prescribes for the expected type reads as the value it denotes.
AcceptsConforming ==
  (read # NoRead /\ Conforms(doc.type, doc.json)) =>
    read.ok = TRUE /\ ToJson(doc.type, read.val) = doc.json
=============================================================================
