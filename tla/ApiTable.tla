------------------------------ MODULE ApiTable ------------------------------
(***************************************************************************)
(* The binding generator: it reads the function table of one API struct    *)
(* from the preprocessed ONNX Runtime header and writes one accessor per   *)
(* member.  Every call of the crate into ONNX Runtime goes through such an *)
(* accessor, so a shifted index or a wrong pointer level is undefined      *)
(* behaviour that no compiler sees.  Text is a sequence of lexemes, the    *)
(* space being one of them.  The tool's only input is the header, which is *)
(* C the tool did not write: a declaration is enumerated together with its *)
(* layout (where the stars, the spaces and the line breaks go).            *)
(***************************************************************************)
EXTENDS Integers, Sequences, SequencesExt

CONSTANTS Headers,      \* API structs: kind and members, each with its layout
          Traits        \* name -> the words of it that classify looks for

VARIABLES header,       \* the struct being generated
          lines,        \* the lines of its body still to read
          buf,          \* lines joined so far
          fields,       \* Vec<Field>, in the order of the struct
          emitted,      \* the accessors or struct fields written, in file order
          tool          \* start, scan, written, panicked or exited

codegenVars == <<header, lines, buf, fields, emitted, tool>>

(***************************************************************************)
(* The header                                                              *)
(***************************************************************************)
RECURSIVE Join(_, _)
Join(pieces, sep) ==
    IF Len(pieces) < 2 THEN IF pieces = <<>> THEN <<>> ELSE pieces[1]
    ELSE Head(pieces) \o sep \o Join(Tail(pieces), sep)

\* A type: leading qualifiers, base, pointer levels, const between two levels.
TypeText(t, star) ==
    LET levels == IF t.depth = 2 THEN IF t.const THEN <<"*", " ", "const", "*">> ELSE <<"*", "*">>
                  ELSE [k \in 1..t.depth |-> "*"]
    IN Join(Append([k \in DOMAIN t.lead |-> <<t.lead[k]>>], <<t.base>>), <<" ">>)
       \o (IF star # "left" /\ t.depth > 0 THEN <<" ">> ELSE <<>>) \o levels

\* A parameter with or without a name, as an array, or as a callback.
ParamText(p, star) ==
    LET gap == IF star = "right" /\ p.type.depth > 0 THEN <<>> ELSE <<" ">>
    IN CASE p.form = "unnamed" -> TypeText(p.type, star)
         [] p.form = "named" -> TypeText(p.type, star) \o gap \o <<"arg">>
         [] p.form = "array" -> TypeText(p.type, star) \o gap \o <<"arg", "[", "]">>
         [] p.form = "callback" ->
              <<"void", " ", "(", "*", "arg", ")", "(">>
                \o Join([k \in DOMAIN p.inner |-> TypeText(p.inner[k], star)], <<",", " ">>) \o <<")">>

MemberText(d) ==
    TypeText(d.ret, d.star) \o (IF d.spaced THEN <<"(", " ", "*">> ELSE <<"(", "*">>)
      \o <<" ", d.name, ")", "(">>
      \o (IF d.params = <<>> THEN <<"void">>
          ELSE Join([k \in DOMAIN d.params |-> ParamText(d.params[k], d.star)], <<",", " ">>))
      \o <<")">> \o (IF d.attribute THEN <<" ", "__attribute__", "(", "nonnull", ")">> ELSE <<>>)
      \o <<";">>

\* A member on one line, or broken after every comma, with blank and comment lines.
MemberLines(d) ==
    LET text == MemberText(d)
        cuts == {0, Len(text)} \cup IF d.broken THEN {i \in DOMAIN text : text[i] = ","} ELSE {}
        Before(i) == {j \in cuts : j < i}
    IN <<<<>>, <<"//", " ", d.name, ";">>>>
       \o [k \in 1..(Cardinality(cuts) - 1) |->
             LET from == CHOOSE i \in cuts : Cardinality(Before(i)) = k - 1
                 to == CHOOSE i \in cuts : Cardinality(Before(i)) = k
             IN SubSeq(text, from + 1, to)]

Body(h) == Join([k \in DOMAIN h.members |-> MemberLines(h.members[k])], <<>>)

(***************************************************************************)
(* Text                                                                    *)
(***************************************************************************)
Find(s, x) == SelectInSeq(s, LAMBDA e : e = x)
FindLast(s, x) == SelectLastInSeq(s, LAMBDA e : e = x)
Until(s, i) == SubSeq(s, 1, i - 1)
After(s, i) == SubSeq(s, i + 1, Len(s))
Has(s, x) == x \in ToSet(s)

trim(s) == LET ink == {i \in DOMAIN s : s[i] # " "}
           IN IF ink = {} THEN <<>> ELSE SubSeq(s, Min(ink), Max(ink))

\* Position i is outside every parenthesis of s.
AtDepthZero(s, i) ==
    LET seen(x) == Cardinality({j \in 1..(i - 1) : s[j] = x}) IN seen("(") = seen(")")

\* Mutant: the first closing parenthesis ends the list.
MatchFirstClose(s) == Find(s, ")")

\* The parenthesis that closes the list s is the inside of; 0 when there is none.
match_close_paren(s) ==
    LET closing == {i \in DOMAIN s : s[i] = ")" /\ AtDepthZero(s, i)}
    IN IF closing = {} THEN 0 ELSE Min(closing)

split_top_level(c) ==
    LET cuts == SetToSortSeq({0, Len(c) + 1} \cup {i \in DOMAIN c : c[i] = "," /\ AtDepthZero(c, i)},
                             LAMBDA i, j : i < j)
        pieces == [k \in 1..(Len(cuts) - 1) |-> trim(SubSeq(c, cuts[k] + 1, cuts[k + 1] - 1))]
    IN IF Last(pieces) = <<>> THEN Front(pieces) ELSE pieces

(***************************************************************************)
(* Types                                                                   *)
(***************************************************************************)
Scalars == {"void", "char", "int", "int64_t", "size_t", "float", "bool"}
Enums == {"OrtErrorCode", "OrtLoggingLevel"}

RustType(base, depth, args) == [base |-> base, depth |-> depth, args |-> args]

\* The Rust type of a base name and the pointer level its alias holds; a name that is
\* neither listed nor an Ort handle becomes an opaque c_void.
map_base(b) ==
    CASE b \in Scalars -> [base |-> b, depth |-> 0]
      [] b = "_Bool" -> [base |-> "bool", depth |-> 0]
      [] b \in Enums -> [base |-> "int", depth |-> 0]
      [] b = "OrtStatusPtr" -> [base |-> "OrtStatus", depth |-> 1]
      [] b \in {"OrtStatus", "OrtEnv"} -> [base |-> b, depth |-> 0]
      [] OTHER -> [base |-> "void", depth |-> 0]

\* The words of a type; stars are words of their own.
tokenize(c) == SelectSeq(c, LAMBDA e : e # " ")

\* The base is the first word that is no qualifier, the depth the stars after it.
analyze(toks) ==
    LET i == SelectInSeq(toks, LAMBDA e : e \notin {"const", "struct", "enum"})
        base == IF i = 0 \/ toks[i] = "*" THEN "void" ELSE toks[i]
    IN [base |-> base, depth |-> Len(SelectSeq(toks, LAMBDA e : e = "*"))]

build_rust(a) == RustType(map_base(a.base).base, map_base(a.base).depth + a.depth, <<>>)

map_type(c) == build_rust(analyze(tokenize(c)))

map_return_type(c) == IF trim(c) = <<"void">> THEN RustType("void", 0, <<>>) ELSE map_type(c)

(***************************************************************************)
(* Parameters                                                              *)
(***************************************************************************)
\* The type of a parameter that may end in a bare name.
split_param_name(c) ==
    LET space == FindLast(c, " ")
        tail == After(c, space)
    IN IF space = 0 \/ Has(tail, "*") \/ tail \in {<<"const">>, <<"enum">>, <<"struct">>, <<"void">>}
       THEN c ELSE trim(Until(c, space))

param_type_only(c) == trim(split_param_name(c))

RECURSIVE StripFrom(_, _)
StripFrom(c, levels) ==
    IF c # <<>> /\ Last(c) = "]" /\ Has(c, "[")
    THEN StripFrom(trim(Until(c, FindLast(c, "["))), levels + 1)
    ELSE [text |-> c, levels |-> levels]

\* Trailing array declarators decay to pointers.
strip_array_suffix(c) == StripFrom(trim(c), 0)

\* The mapped types of a callback's parameters; its return type is not read.
parse_fn_ptr_param(c) ==
    LET open == SelectInSeq([i \in 1..(Len(c) - 1) |-> <<c[i], c[i + 1]>>], LAMBDA e : e = <<"(", "*">>)
        star == After(c, open + 1)
        name == trim(Until(star, Find(star, ")")))
        rest == After(star, Find(star, ")"))
        list == After(rest, Find(rest, "("))
        inner == trim(Until(list, match_close_paren(list)))
    IN IF open = 0 \/ name = <<>> \/ Has(name, "*") THEN <<>>
       ELSE <<RustType("fn", 0, IF inner \in {<<>>, <<"void">>} THEN <<>>
                                ELSE [k \in DOMAIN split_top_level(inner) |->
                                        map_type(param_type_only(split_top_level(inner)[k]))])>>

parse_param(c) ==
    LET stripped == strip_array_suffix(c)
        mapped == map_type(split_param_name(stripped.text))
    IN IF parse_fn_ptr_param(c) # <<>> THEN parse_fn_ptr_param(c)[1]
       ELSE [mapped EXCEPT !.depth = @ + stripped.levels]

parse_params(c) ==
    IF trim(c) \in {<<>>, <<"void">>} THEN <<>>
    ELSE [k \in DOMAIN split_top_level(trim(c)) |-> parse_param(split_top_level(trim(c))[k])]

\* A declaration, or nothing when it is no function pointer.
parse_field(line) ==
    LET open == Find(line, "(")
        inner == trim(After(line, open))
        declarator == After(inner, 1)
        close == Find(declarator, ")")
        rest == After(declarator, close)
        list == After(rest, Find(rest, "("))
        end == match_close_paren(list)
    IN IF open = 0 \/ inner = <<>> \/ inner[1] # "*" \/ close = 0 \/ ~Has(rest, "(") \/ end = 0
       THEN <<>>
       ELSE <<[name |-> trim(Until(declarator, close))[1],
               ret |-> map_return_type(Until(line, open)),
               params |-> parse_params(Until(list, end))]>>

(***************************************************************************)
(* The tool                                                                *)
(***************************************************************************)
CodegenInit ==
    /\ header \in Headers
    /\ lines = <<>> /\ buf = <<>> /\ fields = <<>> /\ emitted = <<>>
    /\ tool = "start"

\* main reads the preprocessed text, writes bool for _Bool and finds the struct.
ReadHeader ==
    /\ tool = "start"
    /\ LET body == Body(header)
       IN lines' = [k \in DOMAIN body |-> ReplaceAll(body[k], "_Bool", "bool")]
    /\ tool' = "scan"
    /\ UNCHANGED <<header, buf, fields, emitted>>

\* parse_api_struct, one line: blank and comment lines are skipped, the others
\* joined up to the one that ends a declaration.
parse_api_struct ==
    /\ tool = "scan" /\ lines # <<>>
    /\ lines' = Tail(lines)
    /\ LET line == trim(Head(lines))
           skipped == IF line = <<>> THEN TRUE ELSE line[1] = "//"
       IN IF skipped THEN UNCHANGED <<buf, fields>>
          ELSE IF Last(line) = ";"
          THEN buf' = <<>> /\ fields' = fields \o parse_field(trim(buf \o line))
          ELSE buf' = buf \o line \o <<" ">> /\ UNCHANGED fields
    /\ UNCHANGED <<header, emitted, tool>>

\* The feature a name is gated by; the first list that matches wins.
classify(name) ==
    LET traits == Traits[name]
    IN CASE "provider" \in traits -> "ep"
         [] "training" \in traits -> "training"
         [] "getter" \in traits -> "model-editor"
         [] "kernel" \in traits -> "custom-ops"
         [] OTHER -> "core"

\* The groups in file order: core first, then the features by name.
Groups == <<"core", "custom-ops", "ep", "model-editor", "training">>

\* The accessors of the positional table, each with the index its field was given.
emit(fs) ==
    LET numbered == [k \in DOMAIN fs |-> [idx |-> k - 1] @@ fs[k]]
    IN Join([g \in DOMAIN Groups |->
           SelectSeq(numbered, LAMBDA f : classify(f.name) = Groups[g])], <<>>)

\* A sub-API is a repr(C) struct in declaration order.
emit_sub_api(fs) == [k \in DOMAIN fs |-> [idx |-> k - 1] @@ fs[k]]

\* The bindings are written, unless the main table came out empty.
WriteBindings ==
    /\ tool = "scan" /\ lines = <<>>
    /\ IF header.kind = "OrtApi" /\ fields = <<>>
       THEN tool' = "panicked" /\ UNCHANGED emitted
       ELSE /\ tool' = "written"
            /\ emitted' = IF header.kind = "OrtApi" THEN emit(fields) ELSE emit_sub_api(fields)
    /\ UNCHANGED <<header, lines, buf, fields>>

\* The tool exits; nothing of its memory is left.
ExitTool ==
    /\ tool \in {"written", "panicked"}
    /\ tool' = "exited"
    /\ header' = [kind |-> "none", members |-> <<>>]
    /\ fields' = <<>> /\ emitted' = <<>>
    /\ UNCHANGED <<lines, buf>>

(***************************************************************************)
(* Properties                                                              *)
(***************************************************************************)
\* What C passes for a type: enums as int, the status alias as a pointer.
CType(t) ==
    CASE t.base = "_Bool" -> RustType("bool", t.depth, <<>>)
      [] t.base \in Enums -> RustType("int", t.depth, <<>>)
      [] t.base = "OrtStatusPtr" -> RustType("OrtStatus", t.depth + 1, <<>>)
      [] OTHER -> RustType(t.base, t.depth, <<>>)
CParam(p) ==
    CASE p.form = "callback" -> RustType("fn", 0, [k \in DOMAIN p.inner |-> CType(p.inner[k])])
      [] p.form = "array" -> [CType(p.type) EXCEPT !.depth = @ + 1]
      [] OTHER -> CType(p.type)

\* The bindings have one entry per member of the header's struct: its index is the
\* member's position, and its return and parameter types have the base and the pointer
\* level of the C declaration, however the header lays the declaration out and
\* whichever feature gates it.  (parse_api_struct: "so indices stay correct".)
TableMatchesHeader ==
    tool = "written" =>
        /\ Len(emitted) = Len(header.members)
        /\ \A k \in DOMAIN header.members : LET d == header.members[k] IN
              \E e \in ToSet(emitted) :
                 /\ e.idx = k - 1 /\ e.name = d.name
                 /\ e.ret = CType(d.ret)
                 /\ e.params = [j \in DOMAIN d.params |-> CParam(d.params[j])]
=============================================================================
