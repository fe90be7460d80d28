---------------------------- MODULE MCWireCodec -----------------------------
(* WireCodec for TLC: structs inside each other, with every kind of member *)
(* (the entries of a variant are structs: for other types the generated    *)
(* set functions do not compile), and messages whose parameters follow     *)
(* each other in the ways that make a wrong index show.  Numbers of two    *)
(* bytes have both set.                                                    *)
EXTENDS WireCodec

One(type) == [type |-> type, many |-> FALSE]
Many(type) == [type |-> type, many |-> TRUE]
Variant(entries) == [type |-> "variant", many |-> FALSE, entries |-> entries]

Sizes == [uint8 |-> 1, uint16 |-> 2, int |-> 4]

Structs ==
    [inner |-> <<One("uint8"), One("string")>>,
     pair  |-> <<One("uint16"), One("uint8")>>,
     outer |-> <<Many("inner"), Variant(<<One("pair"), One("inner")>>), Many("uint8")>>,
     wide  |-> <<Many("uint16")>>]

SeqsOf(S) == {<<>>} \cup {<<x>> : x \in S} \cup {<<x, y>> : x, y \in S}

\* The values of a member.
RECURSIVE Values(_)
Values(m) ==
    CASE m.many -> SeqsOf(Values(Element(m)))
      [] ~m.many /\ IsVariant(m) ->
            {[tag |-> 0, value |-> NULL]}
                \cup UNION {{[tag |-> i, value |-> v] : v \in Values(m.entries[i])} :
                              i \in DOMAIN m.entries}
      [] ~m.many /\ m.type = "inner" -> {<<1, NULL>>, <<2, <<7>>>>}
      [] ~m.many /\ m.type = "pair" -> {<<258, 3>>}
      [] ~m.many /\ m.type = "wide" -> {<<<<>>>>, <<<<258>>>>, <<<<258, 259>>>>}
      [] ~m.many /\ m.type = "outer" ->
            {<<a, b, c>> : a \in Values(Structs.outer[1]), b \in Values(Structs.outer[2]),
                           c \in {<<>>, <<3, 4>>}}
      [] ~m.many /\ m.type = "string" -> {NULL, <<7>>, <<7, 8>>}
      [] ~m.many /\ m.type = "uint16" -> {258}
      [] OTHER -> {1, 2}

\* Messages with the given parameters, with every combination of arguments.
Messages(stream, result, params, room) ==
    LET args[i \in 0 .. Len(params)] ==
            IF i = 0 THEN {<<>>} ELSE {Append(a, v) : a \in args[i - 1], v \in Values(params[i])}
    IN {[stream |-> stream, result |-> result, params |-> params, args |-> a, room |-> room] :
            a \in args[Len(params)]}

\* An array of structs that does not fit the caller's memory is only asked for
\* as the last parameter.
Calls ==
    UNION {
        Messages(TRUE, FALSE, <<Many("uint16"), One("string"), One("int")>>, <<0, 0, 0>>),
        Messages(FALSE, FALSE, <<One("outer"), Many("inner"), One("uint16")>>, <<0, 0, 0>>),
        Messages(TRUE, TRUE, <<One("uint16"), One("int")>>, <<0, 0>>),
        Messages(TRUE, TRUE, <<Many("uint16"), One("string"), Many("inner")>>, <<1, 2, 1>>),
        Messages(FALSE, TRUE, <<Many("inner"), One("outer"), One("uint8")>>, <<2, 0, 0>>)}

\* The messages of the further disagreements that the README lists.
ShortRoom == Messages(FALSE, TRUE, <<Many("inner"), One("uint8")>>, <<1, 0>>)
WideArray == Messages(FALSE, FALSE, <<One("wide")>>, <<0>>)
=============================================================================
