--------------------------- MODULE RpcgenGrammar ---------------------------
(***************************************************************************)
(* The RPC language, as the set of spellings of every definition: the      *)
(* reference rpc_parse.c is checked against. A definition is the record    *)
(* the parser builds; optional words (int after long, the name of an       *)
(* argument) give it several spellings.                                    *)
(***************************************************************************)
EXTENDS RpcgenParse
LOCAL INSTANCE SequencesExt

CONSTANT Names    \* the identifiers an input may hold

S \odot T == {s \o t : s \in S, t \in T}
Word(k)  == {<<Kw(k)>>}
Mark(k)  == {<<Punct(k)>>}
Name(n)  == {<<Id(n)>>}
Opt(S)   == S \cup {<<>>}
All(spellings) == FoldLeft(\odot, {<<>>}, spellings)      \* one after the other
Each(seq, Spell(_)) == All([i \in DOMAIN seq |-> Spell(seq[i])])

(* What a type is written as, other than by its own name.                  *)
Words(type) ==
    CASE type \in {"string", "opaque", "char", "int", "float", "double", "bool", "void"} -> Word(type)
      [] type \in {"short", "long"} -> Word(type) \odot Opt(Word("int"))
      [] type = "int64_t"  -> Word("hyper") \odot Opt(Word("int"))
      [] type = "u_char"   -> Word("unsigned") \odot Word("char")
      [] type = "u_short"  -> Word("unsigned") \odot Word("short") \odot Opt(Word("int"))
      [] type = "u_long"   -> Word("unsigned") \odot Word("long") \odot Opt(Word("int"))
      [] type = "uint64_t" -> Word("unsigned") \odot Word("hyper") \odot Opt(Word("int"))
      [] type = "u_int"    -> Word("unsigned") \odot Opt(Word("int"))
      [] OTHER -> {}
Type(prefix, type) ==
    CASE prefix # ""       -> Word(prefix) \odot Name(type)
      [] type \in Keywords -> Words(type)
      [] OTHER             -> Words(type) \cup Name(type)

Bound(max) == IF max = "~0" THEN {<<>>} ELSE Name(max)
Declarator(d) ==
    CASE d.rel = "alias"   -> Name(d.name)
      [] d.rel = "pointer" -> Mark("*") \odot Name(d.name)
      [] d.rel = "vector"  -> Name(d.name) \odot Mark("[") \odot Name(d.max) \odot Mark("]")
      [] d.rel = "array"   -> Name(d.name) \odot Mark("<") \odot Bound(d.max) \odot Mark(">")
Decl(d) ==
    IF \/ d.type \in ReservedWords
       \/ d.type = "opaque" /\ d.rel \notin {"vector", "array"}
       \/ d.type = "string" /\ d.rel # "array"
       \/ d.type = "void"
    THEN {} ELSE Type(d.prefix, d.type) \odot Declarator(d)
DeclOrVoid(d) == IF d.type = "void" THEN Word("void") ELSE Decl(d)

---------------------------------------------------------------------------
Member(d)  == Decl(d) \odot Mark(";")
Value(v)   == Name(v.name) \odot IF v.assignment = "" THEN {<<>>} ELSE Mark("=") \odot Name(v.assignment)
(* The values of an enumeration are separated by commas.                   *)
Values(vals) == All([i \in DOMAIN vals |-> (IF i = 1 THEN {<<>>} ELSE Mark(",")) \odot Value(vals[i])])
Arm(c) ==
    Word("case") \odot (Name(c.name) \cup {<<[k |-> "charconst", v |-> c.name]>>}) \odot Mark(":")
      \odot IF c.cont THEN {<<>>} ELSE DeclOrVoid(c.decl) \odot Mark(";")
Default(d) == Word("default") \odot Mark(":") \odot DeclOrVoid(d) \odot Mark(";")

(* An argument: nothing at all, or a type. Its name may be left out or come *)
(* behind the star, which then counts; a string may be without its bound.  *)
Argument(a) ==
    LET T == Type(a.prefix, a.type)
        Named == IF a.name = "arg1" THEN Opt(Name("arg1")) ELSE Name(a.name)
        Bounds == Mark("<") \odot Bound(a.max) \odot Mark(">")
    IN CASE a.type = "void"   -> IF a.name = "" THEN {<<>>} ELSE T \odot Named
         [] a.type = "opaque" -> {}
         [] a.type = "string" -> T \odot Named \odot IF a.max = "~0" THEN Opt(Bounds) ELSE Bounds
         [] a.rel = "alias"   -> T \odot Named
         [] a.rel = "pointer" -> T \odot Named \odot Mark("*")
               \cup T \odot Opt({<<Id(n)>> : n \in Names}) \odot Mark("*") \odot Name(a.name)
Proc(p) ==
    IF p.type = "opaque" \/ Len(p.args) # 1 THEN {}
    ELSE Type(p.prefix, p.type) \odot Name(p.name) \odot Mark("(") \odot Argument(p.args[1]) \odot Mark(")")
           \odot Mark("=") \odot Name(p.num) \odot Mark(";")
Version(v) ==
    Word("version") \odot Name(v.name) \odot Mark("{") \odot Each(v.procs, Proc) \odot Mark("}")
      \odot Mark("=") \odot Name(v.num) \odot Mark(";")

(* The definitions, each with the semicolon that ends it. At least one     *)
(* member, value, case, version and procedure.                             *)
Spellings(def) ==
    (CASE def.kind = "struct" ->
            IF def.decls = <<>> THEN {} ELSE
            Word("struct") \odot Name(def.name) \odot Mark("{") \odot Each(def.decls, Member) \odot Mark("}")
       [] def.kind = "enum" ->
            IF def.vals = <<>> THEN {} ELSE
            Word("enum") \odot Name(def.name) \odot Mark("{") \odot Values(def.vals) \odot Mark("}")
       [] def.kind = "union" ->
            IF def.cases = <<>> THEN {} ELSE
            Word("union") \odot Name(def.name) \odot Word("switch")
              \odot Mark("(") \odot DeclOrVoid(def.enum) \odot Mark(")")
              \odot Mark("{") \odot Each(def.cases, Arm) \odot Each(def.default, Default) \odot Mark("}")
       [] def.kind = "typedef" ->
            IF ~LegalTypeName(def.name, TRUE) THEN {} ELSE Word("typedef") \odot Decl(def)
       [] def.kind = "program" ->
            IF def.versions = <<>> \/ \E i \in DOMAIN def.versions : def.versions[i].procs = <<>>
            THEN {} ELSE
            Word("program") \odot Name(def.name) \odot Mark("{") \odot Each(def.versions, Version) \odot Mark("}")
              \odot Mark("=") \odot Name(def.num)) \odot Mark(";")

===========================================================================
