----------------------------- MODULE WireCodec ------------------------------
(***************************************************************************)
(* The C code that generator/languages/langc.py emits for one message: the *)
(* sender acquires a buffer, serialises header and parameters into it, and *)
(* the receiver deserialises them, either in the callback of a request or  *)
(* an event, which invokes a handler and destroys what it allocated, or in *)
(* the *_result function of a response, which fills memory of the caller.  *)
(*                                                                         *)
(* A member (of a struct, or a parameter) is a record: its type, whether   *)
(* it is an array (is_variable), and the entries of a variant.  Argument   *)
(* values are numbers, strings (sequences of characters, or NULL), and     *)
(* sequences.  The values that the receiver has carry, for each pointer,   *)
(* the allocation it points to; 0 is NULL or memory that somebody else     *)
(* owns.  A fixed parameter (the protocol of the subscribe functions) is   *)
(* one that has its default as its only value.  Enums are int.  Names,     *)
(* prototypes, includes and guards are left out.                           *)
(***************************************************************************)
EXTENDS Integers, Sequences, SequencesExt

CONSTANTS SizeOf,        \* the scalar types: typename -> sizeof
          Struct,        \* the structs: name -> members
          Call,          \* the messages, of which a behaviour sends one
          BufferSize,    \* what an acquired buffer holds when no size is given
          NULL,
          Garbage        \* memory that was allocated and not written

HeaderSize == 11         \* GRACHT_MESSAGE_HEADER_SIZE
Unknown == -1            \* a size that the generator cannot express

IsVariant(m) == m.type = "variant"
IsStruct(m) == m.type \in DOMAIN Struct
Element(m) == [m EXCEPT !.many = FALSE]
Repeat(m, n) == [i \in 1 .. n |-> Element(m)]

ASSUME CodecAssumption ==
    /\ \A t \in DOMAIN SizeOf : SizeOf[t] \in 1 .. 8
    /\ \A c \in Call : /\ Len(c.args) = Len(c.params) /\ Len(c.room) = Len(c.params)
                       /\ \A i \in DOMAIN c.params : ~IsVariant(c.params[i])

VARIABLES
    call,     \* the message: stream, result, params, args and the room the caller has
    phase,    \* where the message is
    next,     \* the parameter that is next
    buffer,   \* the bytes written, and the size of the buffer
    cursor,   \* the receiver: buffer index, allocations so far, decoded parameters
    freed,    \* allocations that were freed, in order
    kept      \* the copy of a struct that the handler keeps

vars == <<call, phase, next, buffer, cursor, freed, kept>>

Init ==
    /\ call \in Call
    /\ phase = "call" /\ next = 1
    /\ buffer = [data |-> <<>>, size |-> 0]
    /\ cursor = [index |-> 0, allocs |-> 0, out |-> <<>>]
    /\ freed = <<>>
    /\ kept = [param |-> 0, out |-> NULL]

-----------------------------------------------------------------------------
(* Serialising                                                             *)

\* The bytes of an integer of the given size.
Bytes(v, size) == [j \in 1 .. size |-> (v \div 256 ^ (j - 1)) % 256]

\* Length, characters, terminator; NULL is sent as the empty string.
serialize_string(s) ==
    IF s = NULL THEN Bytes(0, 4) \o <<0>> ELSE Bytes(Len(s), 4) \o s \o <<0>>

\* write_struct_member_serializer and write_member_serializer.
RECURSIVE Serialize(_, _)
Serialize(m, v) ==
    CASE m.many ->
            Bytes(Len(v), 4) \o FlattenSeq([i \in DOMAIN v |-> Serialize(Element(m), v[i])])
      [] ~m.many /\ IsVariant(m) ->
            Bytes(v.tag, 1) \o (IF v.tag \in DOMAIN m.entries
                                THEN Serialize(m.entries[v.tag], v.value) ELSE <<>>)
      [] ~m.many /\ IsStruct(m) ->
            FlattenSeq([i \in DOMAIN v |-> Serialize(Struct[m.type][i], v[i])])
      [] ~m.many /\ m.type = "string" -> serialize_string(v)
      [] OTHER -> Bytes(v, SizeOf[m.type])

\* Mutated form: the terminator of a string is not counted.
size_no_terminator(m, v, names_in_scope) ==
    IF m.many
    THEN IF IsStruct(m) \/ m.type = "string" \/ ~names_in_scope THEN Unknown
         ELSE 4 + SizeOf[m.type] * Len(v)
    ELSE IF m.type = "string"
    THEN IF ~names_in_scope THEN Unknown ELSE 4 + (IF v # NULL THEN Len(v) ELSE 0)
    ELSE IF IsStruct(m) THEN Unknown ELSE SizeOf[m.type]

\* get_serialized_member_size_expression: what the code knows about the size
\* where the argument has a name, and where only the type is known.
MemberSize(m, v, names_in_scope) ==
    IF m.many
    THEN IF IsStruct(m) \/ m.type = "string" \/ ~names_in_scope THEN Unknown
         ELSE 4 + SizeOf[m.type] * Len(v)
    ELSE IF m.type = "string"
    THEN IF ~names_in_scope THEN Unknown ELSE 4 + (IF v # NULL THEN Len(v) ELSE 0) + 1
    ELSE IF IsStruct(m) THEN Unknown ELSE SizeOf[m.type]

\* get_serialized_params_size_expression
ParamsSize(c, names_in_scope) ==
    LET size(i) == MemberSize(c.params[i], c.args[i], names_in_scope) IN
    IF \E i \in DOMAIN c.params : size(i) = Unknown THEN Unknown
    ELSE FoldLeft(LAMBDA sum, i : sum + size(i), HeaderSize, [i \in DOMAIN c.params |-> i])

-----------------------------------------------------------------------------
(* Deserialising.  Each operator takes a cursor and returns it with the    *)
(* decoded value in "out".                                                 *)

\* Behind the message the buffer holds zeros.
Byte(data, i) == IF i \in DOMAIN data THEN data[i] ELSE 0

Read(data, index, size) ==
    FoldLeft(LAMBDA sum, j : sum + Byte(data, index + j) * 256 ^ (j - 1), 0, [j \in 1 .. size |-> j])

Chars(data, index, length) == [j \in 1 .. length |-> Byte(data, index + j)]

At(c, index, v) == [c EXCEPT !.index = index, !.out = v]

\* Mutated form: the index advances by what was copied, not by what was sent.
read_string_clamped(data, c, at, length) ==
    At(c, c.index + 4 + length + 1, [at |-> at, is |-> Chars(data, c.index + 4, length)])

\* A string in memory of its own, or where it lies in the buffer.
ReadString(data, c, at, length) ==
    LET n == Read(data, c.index, 4) IN
    At(c, c.index + 4 + n + 1, [at |-> at, is |-> Chars(data, c.index + 4, length)])

RECURSIVE FromStruct(_, _, _)

\* One member after the other.
Each(ms, data, c) ==
    FoldLeft(LAMBDA acc, m : LET r == FromStruct(m, data, acc) IN [r EXCEPT !.out = Append(acc.out, @)],
             [c EXCEPT !.out = <<>>], ms)

\* write_variable_struct_member_deserializer and write_variable_member_deserializer2:
\* the count, and memory for that many elements unless there are none.
StructArray(m, data, c) ==
    LET n == Read(data, c.index, 4)
        r == Each(Repeat(m, n), data,
                  [c EXCEPT !.index = @ + 4, !.allocs = IF n = 0 THEN @ ELSE @ + 1])
    IN [r EXCEPT !.out = [at |-> IF n = 0 THEN 0 ELSE c.allocs + 1, is |-> @]]

\* write_struct_member_deserializer: strings are copied into memory of their own.
FromStruct(m, data, c) ==
    CASE m.many -> StructArray(m, data, c)
      [] ~m.many /\ IsVariant(m) ->
            LET tag == Read(data, c.index, 1)
                d == [c EXCEPT !.index = @ + 1]
                r == IF tag \in DOMAIN m.entries THEN FromStruct(m.entries[tag], data, d)
                     ELSE [d EXCEPT !.out = NULL]
            IN [r EXCEPT !.out = [tag |-> tag, value |-> @]]
      [] ~m.many /\ IsStruct(m) -> Each(Struct[m.type], data, c)
      [] ~m.many /\ m.type = "string" ->
            ReadString(data, [c EXCEPT !.allocs = @ + 1], c.allocs + 1, Read(data, c.index, 4))
      [] OTHER -> At(c, c.index + SizeOf[m.type], Read(data, c.index, SizeOf[m.type]))

\* write_member_deserializer2, for a parameter of a request or an event: a
\* string stays in the buffer.
FromMessage(m, data, c) ==
    IF ~m.many /\ m.type = "string" THEN ReadString(data, c, 0, Read(data, c.index, 4))
    ELSE FromStruct(m, data, c)

Clamp(n, room) == IF n < room THEN n ELSE room

\* write_variable_member_deserializer: an array goes to memory of the caller, who
\* says how much there is.
ResultArray(m, data, c, room) ==
    LET n == Read(data, c.index, 4)
        r == Each(Repeat(m, Clamp(n, room)), data, [c EXCEPT !.index = @ + 4])
        index == IF IsStruct(m) THEN r.index ELSE c.index + 4 + n * SizeOf[m.type]
    IN At(r, index, [at |-> 0, is |-> r.out])

\* write_member_deserializer, for a parameter of a response: strings are clamped too.
FromResult(m, data, c, room) ==
    CASE m.many -> ResultArray(m, data, c, room)
      [] ~m.many /\ m.type = "string" ->
            ReadString(data, c, 0, Clamp(Read(data, c.index, 4), room - 1))
      [] OTHER -> FromStruct(m, data, c)

-----------------------------------------------------------------------------
(* Destroying and copying                                                  *)

\* write_structure_member_destructor: the allocations that are freed, in order.
RECURSIVE Frees(_, _)
Frees(m, v) ==
    CASE m.many ->
            (IF IsStruct(m) THEN FlattenSeq([i \in DOMAIN v.is |-> Frees(Element(m), v.is[i])])
             ELSE <<>>) \o (IF v.at # 0 THEN <<v.at>> ELSE <<>>)
      [] ~m.many /\ IsVariant(m) ->
            IF v.tag \in DOMAIN m.entries THEN Frees(m.entries[v.tag], v.value) ELSE <<>>
      [] ~m.many /\ IsStruct(m) ->
            FlattenSeq([i \in DOMAIN v |-> Frees(Struct[m.type][i], v[i])])
      [] ~m.many /\ m.type = "string" -> IF v.at # 0 THEN <<v.at>> ELSE <<>>
      [] OTHER -> <<>>

\* memcpy of as many bytes as the array has elements: later elements are not copied.
CopiedElements(m, is) ==
    [i \in DOMAIN is |-> IF i * SizeOf[m.type] <= Len(is) THEN is[i] ELSE Garbage]

\* write_structure_copy_function_members: the copy of a struct, in memory of its
\* own.  c holds the allocations so far, and the copy in "out".
RECURSIVE Copy(_, _, _)
Copy(m, v, c) ==
    LET each(ms, vs, d) ==
            FoldLeft(LAMBDA acc, i : LET r == Copy(ms[i], vs[i], acc)
                                     IN [r EXCEPT !.out = Append(acc.out, @)],
                     [d EXCEPT !.out = <<>>], [i \in DOMAIN vs |-> i])
        own == [c EXCEPT !.allocs = @ + 1]
        pointer(r) == [r EXCEPT !.out = [at |-> own.allocs, is |-> @]]
    IN
    CASE m.many /\ v.is = <<>> -> [c EXCEPT !.out = [at |-> 0, is |-> <<>>]]
      [] m.many /\ v.is # <<>> /\ IsStruct(m) ->
            pointer(each(Repeat(m, Len(v.is)), v.is, own))
      [] m.many /\ v.is # <<>> /\ ~IsStruct(m) ->
            pointer([own EXCEPT !.out = CopiedElements(m, v.is)])
      [] ~m.many /\ IsVariant(m) ->
            LET r == IF v.tag \in DOMAIN m.entries THEN Copy(m.entries[v.tag], v.value, c)
                     ELSE [c EXCEPT !.out = NULL]
            IN [r EXCEPT !.out = [tag |-> v.tag, value |-> @]]
      [] ~m.many /\ IsStruct(m) -> each(Struct[m.type], v, c)
      [] ~m.many /\ m.type = "string" -> pointer([own EXCEPT !.out = v.is])
      [] OTHER -> [c EXCEPT !.out = v]

-----------------------------------------------------------------------------
(* The generated functions                                                 *)

\* define_function_body: the size of the response that a request asks for, where
\* the generator knows it.
AnnouncedSize == IF call.stream /\ call.result THEN ParamsSize(call, FALSE) ELSE Unknown

Param == call.params[next]
NoneLeft == next > Len(call.params)

\* write_function_body_prologue: acquire a buffer and write the header.
write_function_body_prologue ==
    LET size == ParamsSize(call, TRUE) IN
    /\ phase = "call"
    /\ buffer' = [data |-> [i \in 1 .. HeaderSize |-> 0],
                  size |-> IF call.stream /\ size # Unknown THEN size ELSE BufferSize]
    /\ phase' = "serialize"
    /\ UNCHANGED <<call, next, cursor, freed, kept>>

SerializeParam ==
    /\ phase = "serialize" /\ ~NoneLeft
    /\ buffer' = [buffer EXCEPT !.data = @ \o Serialize(Param, call.args[next])]
    /\ next' = next + 1
    /\ UNCHANGED <<call, phase, cursor, freed, kept>>

\* The message is sent, and received behind its header.
Send ==
    /\ phase = "serialize" /\ NoneLeft
    /\ phase' = "deserialize" /\ next' = 1
    /\ cursor' = [cursor EXCEPT !.index = HeaderSize]
    /\ UNCHANGED <<call, buffer, freed, kept>>

DeserializeParam ==
    LET c == IF call.result THEN FromResult(Param, buffer.data, cursor, call.room[next])
             ELSE FromMessage(Param, buffer.data, cursor)
    IN
    /\ phase = "deserialize" /\ ~NoneLeft
    /\ cursor' = [c EXCEPT !.out = Append(cursor.out, @)]
    /\ next' = next + 1
    /\ UNCHANGED <<call, phase, buffer, freed, kept>>

\* malloc of an array parameter fails: the callback returns, nothing is invoked.
DeserializeFails ==
    /\ phase = "deserialize" /\ ~NoneLeft
    /\ ~call.result /\ Param.many /\ Read(buffer.data, cursor.index, 4) # 0
    /\ phase' = "failed"
    /\ UNCHANGED <<call, next, buffer, cursor, freed, kept>>

\* The handler runs, or the result function returns: the application uses what
\* it got, and may keep a copy of a struct.
Invoke ==
    /\ phase = "deserialize" /\ NoneLeft
    /\ phase' = "invoked" /\ next' = 1
    /\ \/ UNCHANGED kept
       \/ \E i \in DOMAIN call.params :
             /\ IsStruct(call.params[i]) /\ ~call.params[i].many
             /\ kept' = [param |-> i, out |-> Copy(call.params[i], cursor.out[i], cursor).out]
    /\ UNCHANGED <<call, buffer, cursor, freed>>

\* Mutated form: the structs of an array are not destroyed.
destroy_no_elements ==
    /\ phase = "invoked" /\ ~NoneLeft
    /\ freed' = freed \o (IF Param.many /\ cursor.out[next].at # 0 THEN <<cursor.out[next].at>>
                          ELSE IF Param.many THEN <<>> ELSE Frees(Param, cursor.out[next]))
    /\ next' = next + 1
    /\ UNCHANGED <<call, phase, buffer, cursor, kept>>

\* write_deserializer_destroy_members; after a response the caller does the same.
DestroyParam ==
    /\ phase = "invoked" /\ ~NoneLeft
    /\ freed' = freed \o Frees(Param, cursor.out[next])
    /\ next' = next + 1
    /\ UNCHANGED <<call, phase, buffer, cursor, kept>>

Return ==
    /\ phase = "invoked" /\ NoneLeft
    /\ phase' = "done"
    /\ UNCHANGED <<call, next, buffer, cursor, freed, kept>>

Next ==
    \/ write_function_body_prologue \/ SerializeParam \/ Send
    \/ DeserializeParam \/ DeserializeFails \/ Invoke \/ DestroyParam \/ Return

Spec == Init /\ [][Next]_vars

-----------------------------------------------------------------------------
(* Properties                                                              *)

\* The argument values that pointers of the receiver stand for.
RECURSIVE View(_, _)
View(m, v) ==
    CASE m.many -> [i \in DOMAIN v.is |-> View(Element(m), v.is[i])]
      [] ~m.many /\ IsVariant(m) ->
            IF v.tag \in DOMAIN m.entries
            THEN [v EXCEPT !.value = View(m.entries[v.tag], @)] ELSE v
      [] ~m.many /\ IsStruct(m) -> [i \in DOMAIN v |-> View(Struct[m.type][i], v[i])]
      [] ~m.many /\ m.type = "string" -> v.is
      [] OTHER -> v

\* What a receiver should get: NULL strings are empty, and strings and arrays of
\* a response end where the room of the caller ends.
RECURSIVE Sent(_, _)
Sent(m, v) ==
    CASE m.many -> [i \in DOMAIN v |-> Sent(Element(m), v[i])]
      [] ~m.many /\ IsVariant(m) ->
            IF v.tag \in DOMAIN m.entries
            THEN [v EXCEPT !.value = Sent(m.entries[v.tag], @)] ELSE v
      [] ~m.many /\ IsStruct(m) -> [i \in DOMAIN v |-> Sent(Struct[m.type][i], v[i])]
      [] ~m.many /\ m.type = "string" -> IF v = NULL THEN <<>> ELSE v
      [] OTHER -> v

Expected(i) ==
    LET m == call.params[i]
        v == Sent(m, call.args[i])
    IN  CASE call.result /\ m.many -> SubSeq(v, 1, Clamp(Len(v), call.room[i]))
          [] call.result /\ ~m.many /\ m.type = "string" ->
                SubSeq(v, 1, Clamp(Len(v), call.room[i] - 1))
          [] OTHER -> v

\* The generated deserialisers undo the generated serialisers: the handler of a
\* request or event, and the caller of a *_result function, see the arguments
\* that were sent, through nested structs, arrays, strings and variants; and the
\* copy of a struct that the application keeps has its value.
ArgumentsArrive ==
    phase \in {"invoked", "done"} =>
        /\ \A i \in DOMAIN call.params : View(call.params[i], cursor.out[i]) = Expected(i)
        /\ kept.param # 0 => View(call.params[kept.param], kept.out) = Expected(kept.param)

\* The generated size expressions are exact: a stream buffer that was acquired by
\* size is never overrun and holds nothing but the message, and a response whose
\* size the client announces with its request has that size.
SizesAreExact ==
    LET sized == call.stream /\ ParamsSize(call, TRUE) # Unknown
    IN  /\ sized => Len(buffer.data) <= buffer.size
        /\ phase \notin {"call", "serialize"} =>
              /\ sized => Len(buffer.data) = buffer.size
              /\ AnnouncedSize # Unknown => Len(buffer.data) = AnnouncedSize

\* What a deserialiser allocated is freed once: when the callback of a request or
\* event has returned, or a caller has destroyed a result, no allocation is left
\* and none was freed twice; the copy that the application keeps is not touched.
FreedOnce ==
    phase = "done" =>
        /\ Len(freed) = cursor.allocs
        /\ ToSet(freed) = 1 .. cursor.allocs
        /\ kept.param # 0 =>
              ToSet(Frees(call.params[kept.param], kept.out)) \cap ToSet(freed) = {}
=============================================================================
