---------------------------- MODULE MCJSONBridge ----------------------------
EXTENDS JSONBridge

\* The C++ types: a counter (LeafCount / NodeIndex, uint_serializer), a
\* CipherSuite, bytes, a TLS-serializable key, an optional counter, and two
\* NLOHMANN_DEFINE_TYPE_NON_INTRUSIVE structs shaped like the tree-math and
\* key-schedule vectors.
U        == [k |-> "uint"]
S        == [k |-> "suite"]
B        == [k |-> "bytes"]
P        == [k |-> "tls"]
OU       == [k |-> "opt", of |-> U]
TreeMath == [k |-> "struct", f |-> [n_leaves |-> U, root |-> OU]]
KeySched == [k |-> "struct", f |-> [cipher_suite |-> S, group_id |-> B]]

MCTypes     == {U, S, B, P, OU, TreeMath, KeySched}
MCUintVals  == {Num(0, 0), Num(0, 1), Num(65535, 65535)}
MCSuiteVals == {1, 2}
MCBytesVals == {<<>>, <<1>>, <<0, 255>>}

\* What other writers may produce: numbers of each kind and at the edges of
\* 16 and 32 bits (65537, 2^32, -1), a boolean, null, hex strings good and
\* bad (odd length, non-hex, a length prefix that disagrees with the rest,
\* a two-octet varint for a one-octet length), and objects
\* that conform, miss a member, carry an extra one or name an unsupported
\* suite.
MCForeignDocs ==
  { Unsigned(Small(1)), Unsigned(Num(1, 1)), Unsigned(Num(65536, 0)),
    Integer(Num(-1, 65535)),
    Float(3, 2), Bool(TRUE), Null,
    Str(<<0, 1>>), Str(<<0>>), Str(<<0, 1, 0, 2>>), Str(<<16, 16>>),
    Str(<<4, 0, 0, 0>>),
    Object([n_leaves |-> Unsigned(Small(2)), root |-> Null]),
    Object([n_leaves |-> Unsigned(Small(2))]),
    Object([n_leaves |-> Unsigned(Small(2)), root |-> Unsigned(Small(1)), epoch |-> Null]),
    Object([cipher_suite |-> Unsigned(Small(7)), group_id |-> Str(<<>>)]) }
=============================================================================
