----------------------------- MODULE Generator ------------------------------
(***************************************************************************)
(* generator/parser.py and generator/passes: from service files to the     *)
(* checked services code is generated for.                                 *)
(*                                                                         *)
(* A file is a sequence of statements (the tokens and their syntax are     *)
(* left out).  Parsing follows imports depth first, keeping a namespace    *)
(* per file, and gives each service copies of the lists of structs, enums  *)
(* and types known so far, though not of the structs themselves.  The      *)
(* passes then fill in the functions of stream services, replace each      *)
(* extension of a struct by the members of the extended struct, in place   *)
(* and while iterating over the list that changes, and validate ids and    *)
(* types.  Names that differ in case only are one name.                    *)
(***************************************************************************)
EXTENDS Integers, Sequences, FiniteSets, FiniteSetsExt, SequencesExt

CONSTANTS Inputs,          \* [files, root]: the files and the one the generator is run on
          Builtin,         \* BUILTIN_TYPES
          Control,         \* <<namespace, name>> of the control service
          Crc,             \* zlib.crc32 of a namespace and a name
          Unset,           \* None
          RecursionLimit   \* bound: calls of the interpreter's stack, one per import or extension

Anon == "anon"

VARIABLES
    input,
    phase,     \* parse, synthesize, consolidate, ids, services, accepted, rejected
    scopes,    \* the files being parsed: [file, pos, namespace]
    structs,   \* context.structs: [name, members], shared by the services
    types,     \* context.types: [name, source]
    enums,     \* context.enums: names
    services,  \* context.services
    current,   \* the service a pass is at
    frames,    \* calls of consolidate_struct: [struct, pos]
    done       \* structs consolidated for the current service

contextVars == <<structs, types, enums, services>>
vars == <<input, phase, scopes, contextVars, current, frames, done>>

Init ==
    /\ input \in Inputs
    /\ phase = "parse"
    /\ scopes = <<[file |-> input.root, pos |-> 1, namespace |-> Anon]>>
    /\ structs = <<>> /\ types = <<>> /\ enums = <<>> /\ services = <<>>
    /\ current = 1 /\ frames = <<>> /\ done = {}

Reject == phase' = "rejected" /\ UNCHANGED <<input, scopes, contextVars, current, frames, done>>

----------------------------------------------------------------------------
(* Parsing                                                                 *)

Scope == Last(scopes)
Statement == input.files[Scope.file][Scope.pos]
AtEnd == Scope.pos > Len(input.files[Scope.file])
Consumed == [scopes EXCEPT ![Len(scopes)].pos = @ + 1]

\* Mutated form: the namespace of the importing file is kept.
import_keeps_namespace ==
    /\ phase = "parse" /\ ~AtEnd /\ Statement.kind = "import"
    /\ IF Len(scopes) = RecursionLimit
       THEN Reject
       ELSE /\ scopes' = Append(scopes, [file |-> Statement.file, pos |-> 1,
                                         namespace |-> Scope.namespace])
            /\ UNCHANGED <<input, phase, contextVars, current, frames, done>>

\* The file is parsed in place, in a namespace of its own; the statement is consumed after.
handle_import ==
    /\ phase = "parse" /\ ~AtEnd /\ Statement.kind = "import"
    /\ IF Len(scopes) = RecursionLimit
       THEN Reject
       ELSE /\ scopes' = Append(scopes, [file |-> Statement.file, pos |-> 1, namespace |-> Anon])
            /\ UNCHANGED <<input, phase, contextVars, current, frames, done>>

\* Mutated form: the import is parsed again because its tokens were not consumed.
end_keeps_import ==
    /\ phase = "parse" /\ AtEnd
    /\ IF Len(scopes) > 1
       THEN scopes' = Front(scopes) /\ UNCHANGED phase
       ELSE scopes' = <<>> /\ phase' = "synthesize"
    /\ UNCHANGED <<input, contextVars, current, frames, done>>

\* End of a file: back to the import, or on to the passes.
EndOfFile ==
    /\ phase = "parse" /\ AtEnd
    /\ IF Len(scopes) > 1
       THEN scopes' = [Front(scopes) EXCEPT ![Len(scopes) - 1].pos = @ + 1] /\ UNCHANGED phase
       ELSE scopes' = <<>> /\ phase' = "synthesize"
    /\ UNCHANGED <<input, contextVars, current, frames, done>>

handle_namespace ==
    /\ phase = "parse" /\ ~AtEnd /\ Statement.kind = "namespace"
    /\ scopes' = [Consumed EXCEPT ![Len(scopes)].namespace = Statement.name]
    /\ UNCHANGED <<input, phase, contextVars, current, frames, done>>

\* define, enum and struct extend the lists of the context.  A member is an object: the
\* same member of the same struct is the same object, wherever it is moved.
handle_declaration ==
    /\ phase = "parse" /\ ~AtEnd
    /\ \/ /\ Statement.kind = "define"
          /\ types' = Append(types, [name |-> Statement.name, source |-> Statement.source])
          /\ UNCHANGED <<enums, structs>>
       \/ /\ Statement.kind = "enum"
          /\ enums' = Append(enums, Statement.name)
          /\ UNCHANGED <<types, structs>>
       \/ /\ Statement.kind = "struct"
          /\ structs' = Append(structs,
                [name |-> Statement.name,
                 members |-> [i \in DOMAIN Statement.members |->
                                [object |-> <<Len(structs) + 1, i>>] @@ Statement.members[i]]])
          /\ UNCHANGED <<types, enums>>
    /\ scopes' = Consumed
    /\ UNCHANGED <<input, phase, services, current, frames, done>>

\* create_service copies the lists: a service knows what was declared before it.
handle_service ==
    /\ phase = "parse" /\ ~AtEnd /\ Statement.kind = "service"
    /\ services' = Append(services,
          [namespace |-> Scope.namespace, name |-> Statement.name, id |-> Statement.id,
           stream |-> Statement.stream, options |-> Statement.options,
           functions |-> Statement.functions, events |-> Statement.events,
           structs |-> Len(structs), types |-> Len(types), enums |-> Len(enums),
           imports |-> {}])
    /\ scopes' = Consumed
    /\ UNCHANGED <<input, phase, structs, types, enums, current, frames, done>>

----------------------------------------------------------------------------
(* pass_synthesize                                                         *)

Service == services[current]
Option(key) == IF key \in DOMAIN Service.options THEN Service.options[key] ELSE Unset
Numbered(from, to) == [i \in 1 .. to - from + 1 |-> [id |-> from + i - 1, types |-> Builtin]]

\* The functions of a stream service, all of builtin types, by mode and direction.
StreamFunctions ==
    CASE Option("mode") = "bounded" /\ Option("direction") = "to_server" -> Numbered(1, 4)
      [] Option("mode") = "bounded" /\ Option("direction") = "to_client" -> Numbered(1, 3)
      [] Option("mode") = "live" /\ Option("direction") = "to_server" -> Numbered(1, 5)
      [] Option("mode") = "live" /\ Option("direction") = "to_client" -> Numbered(1, 4)
      [] OTHER -> <<>>
StreamEvents ==
    IF Option("mode") = "live" /\ Option("direction") = "to_client" THEN Numbered(5, 5) ELSE <<>>

pass_synthesize ==
    /\ phase = "synthesize" /\ current <= Len(services)
    /\ services' = IF Service.stream
                   THEN [services EXCEPT ![current].functions = StreamFunctions,
                                         ![current].events = StreamEvents]
                   ELSE services
    /\ phase' = "consolidate" /\ done' = {}
    /\ UNCHANGED <<input, scopes, structs, types, enums, current, frames>>

----------------------------------------------------------------------------
(* pass_consolidate                                                        *)

Extends(m) == m.name = "" /\ ~m.variant
Call == Last(frames)
Members == structs[Call.struct].members
Advance == [frames EXCEPT ![Len(frames)].pos = @ + 1]

\* lookup_struct: the first of that name the service knows, 0: none.
lookup_struct(name) ==
    LET found == {i \in 1 .. Service.structs : structs[i].name = name} IN
    IF found = {} THEN 0 ELSE Min(found)

\* The next struct of the service that is not done.
pass_consolidate ==
    LET left == (1 .. Service.structs) \ done IN
    /\ phase = "consolidate" /\ frames = <<>>
    /\ IF left # {}
       THEN frames' = <<[struct |-> Min(left), pos |-> 1]>> /\ UNCHANGED <<phase, current>>
       ELSE phase' = "synthesize" /\ current' = current + 1 /\ UNCHANGED frames
    /\ UNCHANGED <<input, scopes, contextVars, done>>

\* index and remove both find the first member that is the same object.
IndexOf(s, m) == Min({i \in DOMAIN s : s[i].object = m.object})

\* Mutated form: the members are put at the end.
SplicedLast(s, m, inserted) == RemoveAt(s, IndexOf(s, m)) \o inserted

\* The members of the extended struct in front of the extension, which is then removed.
Spliced(s, m, inserted) ==
    LET at == IndexOf(s, m)
        with == SubSeq(s, 1, at - 1) \o inserted \o SubSeq(s, at, Len(s)) IN
    RemoveAt(with, IndexOf(with, m))

\* One turn of the loop over the members, by position as the iterator of the list does it.
consolidate_struct_member ==
    /\ phase = "consolidate" /\ frames # <<>> /\ Call.pos <= Len(Members)
    /\ LET m == Members[Call.pos]
           target == lookup_struct(CHOOSE t \in m.types : TRUE) IN
       CASE ~Extends(m) ->
              frames' = Advance /\ UNCHANGED <<input, phase, scopes, contextVars, current, done>>
         [] Extends(m) /\ target = 0 -> Reject
         [] Extends(m) /\ target > 0 /\ target \notin done ->
              IF Len(frames) = RecursionLimit
              THEN Reject
              ELSE /\ frames' = Append(frames, [struct |-> target, pos |-> 1])
                   /\ UNCHANGED <<input, phase, scopes, contextVars, current, done>>
         [] Extends(m) /\ target \in done ->
              /\ structs' = [structs EXCEPT ![Call.struct].members =
                                Spliced(@, m, structs[target].members)]
              /\ frames' = Advance
              /\ UNCHANGED <<input, phase, scopes, types, enums, services, current, done>>

\* The end of consolidate_struct; the caller, if there is one, goes on with its extension.
ConsolidateReturns ==
    /\ phase = "consolidate" /\ frames # <<>> /\ Call.pos > Len(Members)
    /\ done' = done \cup {Call.struct}
    /\ frames' = Front(frames)
    /\ UNCHANGED <<input, phase, scopes, contextVars, current>>

----------------------------------------------------------------------------
(* pass_validate                                                           *)

\* The last service is done: the next pass, from the first service.
NextPass(from, to) ==
    /\ phase = from /\ current > Len(services)
    /\ phase' = to /\ current' = 1
    /\ UNCHANGED <<input, scopes, contextVars, frames, done>>

IsControl(s) == <<s.namespace, s.name>> = Control
derive_service_id(s) == IF IsControl(s) THEN 0 ELSE (Crc[<<s.namespace, s.name>>] % 255) + 1

validate_stream_options ==
    /\ DOMAIN Service.options \subseteq {"direction", "mode", "chunk_size"}
    /\ Option("direction") \in {"to_server", "to_client"}
    /\ Option("mode") \in {"bounded", "live"}
    /\ Option("chunk_size") \in Nat \ {0}

\* Mutated form: an id that is derived is not compared with the others.
validate_id_derived ==
    LET id == IF Service.id = Unset THEN derive_service_id(Service) ELSE Service.id IN
    /\ phase = "ids" /\ current <= Len(services)
    /\ IF /\ Service.stream => validate_stream_options
          /\ id \in 0 .. 255
          /\ Service.id = Unset \/ \A k \in 1 .. current - 1 : services[k].id # id
       THEN /\ services' = [services EXCEPT ![current].id = id]
            /\ current' = current + 1
            /\ UNCHANGED <<input, phase, scopes, structs, types, enums, frames, done>>
       ELSE Reject

\* The first loop of pass_validate.
validate_id ==
    LET id == IF Service.id = Unset THEN derive_service_id(Service) ELSE Service.id IN
    /\ phase = "ids" /\ current <= Len(services)
    /\ IF /\ Service.stream => validate_stream_options
          /\ id \in 0 .. 255
          /\ \A k \in 1 .. current - 1 : services[k].id # id
       THEN /\ services' = [services EXCEPT ![current].id = id]
            /\ current' = current + 1
            /\ UNCHANGED <<input, phase, scopes, structs, types, enums, frames, done>>
       ELSE Reject

\* Functions and events share the numbers of a service.
IdsValid(ops) == \A i \in DOMAIN ops : ops[i].id \in 1 .. 255 /\ \A j \in 1 .. i - 1 : ops[j].id # ops[i].id

UsedTypes ==
    UNION ({f.types : f \in Range(Service.functions) \cup Range(Service.events)}
           \cup {m.types : m \in UNION {Range(structs[i].members) : i \in 1 .. Service.structs}})
KnownTypes ==
    Builtin \cup Range(SubSeq(enums, 1, Service.enums)) \cup {structs[i].name : i \in 1 .. Service.structs}
\* The sources of the types that are only defined, the first definition of each.
SourceOf(t) ==
    {types[i].source : i \in {j \in 1 .. Service.types :
                                /\ types[j].name = t
                                /\ \A k \in 1 .. j - 1 : types[k].name # t}}

pass_validate_service ==
    /\ phase = "services" /\ current <= Len(services)
    /\ IF /\ Service.id \in 1 .. 255 \/ (IsControl(Service) /\ Service.id = 0)
          /\ IdsValid(Service.functions \o Service.events)
          /\ \A t \in UsedTypes \ KnownTypes : SourceOf(t) # {}
       THEN /\ services' = [services EXCEPT ![current].imports =
                                UNION {SourceOf(t) : t \in UsedTypes \ KnownTypes}]
            /\ current' = current + 1
            /\ UNCHANGED <<input, phase, scopes, structs, types, enums, frames, done>>
       ELSE Reject

----------------------------------------------------------------------------
parse_scope == handle_import \/ EndOfFile \/ handle_namespace \/ handle_declaration \/ handle_service

Next ==
    \/ parse_scope
    \/ pass_synthesize
    \/ pass_consolidate \/ consolidate_struct_member \/ ConsolidateReturns
    \/ NextPass("synthesize", "ids") \/ NextPass("ids", "services") \/ NextPass("services", "accepted")
    \/ validate_id \/ pass_validate_service

Spec == Init /\ [][Next]_vars /\ WF_vars(Next)

----------------------------------------------------------------------------
(* What the input says, independently of how it is processed               *)

Files == input.files
ImportedBy(f) == {Files[f][i].file : i \in {j \in DOMAIN Files[f] : Files[f][j].kind = "import"}}

\* A file that imports itself, through others perhaps, is reached from f.
RECURSIVE ImportCycle(_, _)
ImportCycle(f, trail) ==
    f \in trail \/ \E g \in ImportedBy(f) : ImportCycle(g, trail \cup {f})

\* The namespace statement that holds for position i of file f.
NamespaceAt(f, i) ==
    LET before == {j \in 1 .. i - 1 : Files[f][j].kind = "namespace"} IN
    IF before = {} THEN Anon ELSE Files[f][Max(before)].name

\* All statements, imports replaced by what they import.
RECURSIVE Unfold(_)
Unfold(f) == FlattenSeq([i \in DOMAIN Files[f] |->
    IF Files[f][i].kind = "import" THEN Unfold(Files[f][i].file)
    ELSE <<[namespace |-> NamespaceAt(f, i)] @@ Files[f][i]>>])

Of(kind, statements) == SelectSeq(statements, LAMBDA d : d.kind = kind)
\* The service statements, each with the statements before it.
DeclaredServices ==
    LET all == Unfold(input.root)
        at == SetToSortSeq({i \in DOMAIN all : all[i].kind = "service"}, <) IN
    [k \in DOMAIN at |-> [service |-> all[at[k]], before |-> SubSeq(all, 1, at[k] - 1)]]

Extensions(struct) == {m \in Range(struct.members) : Extends(m)}
Extended(m, known) == SelectSeq(known, LAMBDA d : {d.name} = m.types)
RECURSIVE ExtensionCycle(_, _, _)
ExtensionCycle(struct, known, trail) ==
    \/ struct.name \in trail
    \/ \E m \in Extensions(struct) :
          ExtensionCycle(Extended(m, known)[1], known, trail \cup {struct.name})

\* The names of the members a struct has in the end.
RECURSIVE Flat(_, _)
Flat(struct, known) == FlattenSeq([i \in DOMAIN struct.members |->
    IF Extends(struct.members[i]) THEN Flat(Extended(struct.members[i], known)[1], known)
    ELSE <<struct.members[i].name>>])

\* The number of a service, given or derived.
IdOf(s) == IF s.id # Unset THEN s.id
           ELSE IF <<s.namespace, s.name>> = Control THEN 0
           ELSE (Crc[<<s.namespace, s.name>>] % 255) + 1

StructsSound(known) ==
    /\ \A d \in Range(known) : \A m \in Extensions(d) : Extended(m, known) # <<>>
    /\ \A d \in Range(known) : ~ExtensionCycle(d, known, {})

OptionsSound(options) ==
    /\ DOMAIN options = {"direction", "mode", "chunk_size"}
    /\ options["direction"] \in {"to_server", "to_client"}
    /\ options["mode"] \in {"bounded", "live"}
    /\ options["chunk_size"] > 0

ServiceSound(d) ==
    LET s == d.service
        known == Of("struct", d.before)
        names == {x.name : x \in {y \in Range(d.before) : y.kind \in {"struct", "enum", "define"}}}
        used == UNION ({o.types : o \in Range(s.functions) \cup Range(s.events)}
                       \cup {m.types : m \in UNION {Range(x.members) : x \in Range(known)}})
        ids == [i \in DOMAIN (s.functions \o s.events) |-> (s.functions \o s.events)[i].id] IN
    /\ StructsSound(known)
    /\ s.stream => OptionsSound(s.options)
    /\ IdOf(s) \in 1 .. 255 \/ (<<s.namespace, s.name>> = Control /\ IdOf(s) = 0)
    /\ Range(ids) \subseteq 1 .. 255 /\ Cardinality(Range(ids)) = Len(ids)
    /\ used \subseteq Builtin \cup names

\* Nothing is wrong with the input.
Sound ==
    /\ ~ImportCycle(input.root, {})
    /\ \A k \in DOMAIN DeclaredServices : ServiceSound(DeclaredServices[k])
    /\ \A j, k \in DOMAIN DeclaredServices :
          j # k => IdOf(DeclaredServices[j].service) # IdOf(DeclaredServices[k].service)

----------------------------------------------------------------------------
(* Properties                                                              *)

Parsed == phase \in {"synthesize", "consolidate", "ids", "services", "accepted"}

\* After parsing, the services are those of the files in the order of their imports; each
\* has the namespace its own file gave it, however imports nest (push_cwd, pop_cwd), and
\* the structs that were declared before it (create_service).
ServicesInContext ==
    Parsed =>
        /\ Len(services) = Len(DeclaredServices)
        /\ \A k \in DOMAIN services :
              LET d == DeclaredServices[k] IN
              /\ services[k].name = d.service.name
              /\ services[k].namespace = d.service.namespace
              /\ services[k].structs = Len(Of("struct", d.before))

\* After the passes every struct that a service knows consists of its own members and, at
\* the place of each extension, those of the extended struct, whichever service was first
\* to consolidate it and in whatever order the structs were declared (pass_consolidate).
Flattened ==
    phase \in {"ids", "services", "accepted"} =>
        \A k \in DOMAIN services : \A i \in 1 .. services[k].structs :
            LET known == Of("struct", DeclaredServices[k].before) IN
            [j \in DOMAIN structs[i].members |-> structs[i].members[j].name] = Flat(known[i], known)

\* The generator accepts exactly the inputs in which imports and extensions have no
\* cycles, services have different numbers that fit the header of a message, functions
\* and events of a service do as well, and every type is known (pass_validate).
AcceptsSound ==
    /\ phase = "accepted" => Sound
    /\ phase = "rejected" => ~Sound

\* The generator always comes to an end, though lists grow while they are iterated over.
PassesEnd == <>(phase \in {"accepted", "rejected"})
=============================================================================
