---------------------------- MODULE MCGenerator -----------------------------
EXTENDS Generator

\* The service "b" of no namespace has the derived number of "a".
MCCrc == [x \in {Anon, "gracht", "n"} \X {"a", "b", "control"} |->
            IF x = <<Anon, "a">> \/ x = <<Anon, "b">> THEN 254 ELSE IF x[1] = "n" THEN 255 ELSE 600]

MCControl == <<"gracht", "control">>

Field(n) == [name |-> n, variant |-> FALSE, types |-> {"uint"}]
Extension(t) == [name |-> "", variant |-> FALSE, types |-> {t}]
Struct(n, ms) == [kind |-> "struct", name |-> n, members |-> ms]
Import(f) == [kind |-> "import", file |-> f]
Namespace(n) == [kind |-> "namespace", name |-> n]
NewService(n, id, fs, es) ==
    [kind |-> "service", name |-> n, id |-> id, stream |-> FALSE, options |-> <<>>,
     functions |-> fs, events |-> es]
Op(id) == [id |-> id, types |-> {"uint"}]
One(statements) == [files |-> [f \in {"main"} |-> statements], root |-> "main"]
UpTo(n, S) == UNION {[1 .. k -> S] : k \in 0 .. n}

\* Structs that extend each other in every way, between two services.
Bodies(n) == {ms \in UpTo(2, {Field(n), Extension("A"), Extension("B"), Extension("C")}) : ms # <<>>}
StructInputs ==
    {One(<<Struct("A", x), Struct("B", y), NewService("a", 1, <<>>, <<>>),
           Struct("C", z), NewService("a", 2, <<>>, <<>>)>>) :
        x \in Bodies("x"), y \in Bodies("y"), z \in Bodies("z")}

\* Files that import each other, with namespaces and services here and there.
ImportInputs ==
    {[files |-> [f \in {"main", "f", "g"} |->
                    CASE f = "main" -> x [] f = "f" -> y [] f = "g" -> z], root |-> "main"] :
        x \in UpTo(3, {Import("f"), Import("g"), Namespace("n"), NewService("a", Unset, <<>>, <<>>)}),
        y \in UpTo(2, {Import("g"), Import("f"), Namespace("gracht"), NewService("control", Unset, <<>>, <<>>)}),
        z \in UpTo(1, {Import("f"), NewService("b", Unset, <<>>, <<>>)})}

\* Numbers at the ends of their ranges.
IdInputs ==
    {One(<<Namespace(n), NewService(m, i, fs, es), NewService("b", j, <<Op(1)>>, <<>>)>>) :
        n \in {Anon, "gracht"}, m \in {"a", "control"}, i \in {Unset, 0, 1, 255, 256},
        j \in {Unset, 0, 1}, fs \in UpTo(2, {Op(0), Op(1), Op(255), Op(256)}),
        es \in UpTo(1, {Op(0), Op(1), Op(255), Op(256)})}

Directions == {"to_server", "to_client", "both"}
Modes == {"bounded", "live", "both"}
StreamInputs ==
    {One(<<[kind |-> "service", name |-> "a", id |-> Unset, stream |-> TRUE, options |-> o,
            functions |-> <<>>, events |-> <<>>]>>) :
        o \in [direction : Directions] \cup [direction : Directions, mode : Modes]
              \cup [direction : Directions, mode : Modes, chunk_size : 0 .. 1]
              \cup [direction : Directions, mode : Modes, chunk_size : 0 .. 1, other : {"x"}]}

\* Types that are builtin, declared before or after, defined elsewhere, or unknown.
TypeInputs ==
    {One(<<[kind |-> "define", name |-> "T", source |-> "t.h"], [kind |-> "enum", name |-> "E"],
           Struct("A", <<[name |-> "v", variant |-> TRUE, types |-> {t, u}]>>),
           NewService("a", 1, <<[id |-> 1, types |-> {w}]>>, <<>>), Struct("B", <<Field("y")>>)>>) :
        t, u, w \in {"uint", "T", "E", "A", "B"}}

\* The input of the further disagreement that the README lists: an extension of an
\* empty struct in front of another extension.
Empty ==
    {One(<<Struct("A", <<>>), Struct("B", <<Field("y")>>),
           Struct("C", <<Extension("A"), Extension("B")>>), NewService("a", 1, <<>>, <<>>)>>)}

MCInputs == StructInputs \cup ImportInputs \cup IdInputs \cup StreamInputs \cup TypeInputs
=============================================================================
