---------------------------- MODULE RpcgenParse ----------------------------
(***************************************************************************)
(* rpc_parse.c: the recursive descent that turns the tokens into a list of *)
(* definitions, one token per step.                                        *)
(*                                                                         *)
(* `pc' names the scan the parser is in; get_declaration and get_type are  *)
(* called from several places and return to work.back and work.tback.      *)
(* `work' holds the locals: the definition and the declaration under       *)
(* construction and, inside a program, the version and the procedure. A    *)
(* field that nothing has assigned yet holds Garbage, NULL is "".          *)
(***************************************************************************)
EXTENDS RpcgenScan

VARIABLES pc, work, defined

parseVars == <<pc, work, defined>>

Garbage == "garbage"
NoDec == [prefix |-> Garbage, type |-> Garbage, rel |-> Garbage,
          name |-> Garbage, max |-> Garbage]
NoWork == [def |-> [kind |-> Garbage, name |-> Garbage], dec |-> NoDec,
           dkind |-> "", back |-> "", tback |-> "", arg |-> 0,
           vers |-> <<>>, proc |-> <<>>, labels |-> <<>>, value |-> <<>>]

ReservedWords == {"array", "bytes", "destroy", "free", "getpos", "inline",
                  "pointer", "reference", "setpos", "sizeof", "union", "vector"}
ReservedTypes == {"opaque", "string"}
\* Mutant: the types are refused where they are used, too.
MutantLegalTypeName(name, newType) == name \notin ReservedWords \cup ReservedTypes

(* check_type_name; the name of a struct, union or enum is never checked.  *)
LegalTypeName(name, newType) ==
    /\ name \notin ReservedWords
    /\ newType => name \notin ReservedTypes

Kind == Upcoming.k
Val  == Upcoming.v

---------------------------------------------------------------------------
(* Continuations of a scan: the next one with the locals it finds, and     *)
(* error(), after which nothing of the parser runs.                        *)
Goto(to, w) == pc' = to /\ work' = w /\ UNCHANGED defined
Error == Goto("error", work)

Set(w, field, val) == [w EXCEPT ![field] = val]
Dec(field, val)    == [work EXCEPT !.dec[field] = val]

(* scan, scan2, scan3 and scan_num: any token of kinds, else an error.     *)
Scan(kinds, to, w) ==
    /\ GetToken(FALSE)
    /\ IF Kind \in kinds THEN Goto(to, w) ELSE Error
\* Mutant: a token that is not of that kind is lost.
MutantPeekScan(kind, yes, wyes, no, wno) ==
    /\ GetToken(FALSE)
    /\ IF Kind = kind THEN Goto(yes, wyes) ELSE Goto(no, wno)

(* peekscan: the token is taken only when it is of that kind.              *)
PeekScan(kind, yes, wyes, no, wno) ==
    /\ GetToken(Kind # kind)
    /\ IF Kind = kind THEN Goto(yes, wyes) ELSE Goto(no, wno)
At(from) == pc = from

(* The call of get_declaration, with the locals w of its caller.           *)
Declaration(w, dkind, back) == [w EXCEPT !.dkind = dkind, !.back = back, !.tback = "decl"]

---------------------------------------------------------------------------
(* get_definition, and the name every definition but a typedef begins with.*)
Definers == {"struct", "union", "enum", "program"}
GetDefinition ==
    /\ At("def") /\ GetToken(FALSE)
    /\ \/ /\ Kind \in Definers
          /\ Goto("name", [work EXCEPT !.def.kind = Kind])
       \/ /\ Kind = "typedef"
          /\ Goto("type", Declaration(work, "typedef", "typedef"))
       \/ /\ Kind = "EOF" /\ Goto("eof", work)
       \/ /\ Kind \notin Definers \cup {"typedef", "EOF"} /\ Error

DefName ==
    /\ At("name")
    /\ Scan({"ident"}, work.def.kind, [work EXCEPT !.def.name = Val])

EndDefinition ==
    /\ At("def;") /\ GetToken(FALSE)
    /\ IF Kind = ";"
       THEN pc' = "emit" /\ defined' = Append(defined, work.def) /\ work' = NoWork
       ELSE Error

---------------------------------------------------------------------------
DefStruct ==
    \/ /\ At("struct")
       /\ Scan({"{"}, "type",
               Declaration([work EXCEPT !.def = [kind |-> "struct", name |-> @.name, decls |-> <<>>]],
                           "struct", "struct ;"))
    \/ /\ At("struct ;")
       /\ Scan({";"}, "struct }", [work EXCEPT !.def.decls = Append(@, work.dec)])
    \/ /\ At("struct }")
       /\ PeekScan("}", "def;", work, "type", work)

DefEnum ==
    LET Added(assignment) ==
            [work EXCEPT !.def.vals = Append(@, [name |-> work.value, assignment |-> assignment])]
    IN
    \/ /\ At("enum")
       /\ Scan({"{"}, "enum value",
               [work EXCEPT !.def = [kind |-> "enum", name |-> @.name, vals |-> <<>>]])
    \/ /\ At("enum value") /\ Scan({"ident"}, "enum next", Set(work, "value", Val))
    \/ /\ At("enum next") /\ Kind = "=" /\ Scan({"="}, "enum num", work)
    \/ /\ At("enum next") /\ Kind # "="
       /\ Scan({",", "}"}, IF Kind = "}" THEN "def;" ELSE "enum value", Added(""))
    \/ /\ At("enum num") /\ Scan({"ident"}, "enum sep", Added(Val))
    \/ /\ At("enum sep") /\ Scan({",", "}"}, IF Kind = "}" THEN "def;" ELSE "enum value", work)

(* labels are the cases that share the arm that follows (contflag).        *)
DefUnion ==
    LET Case(name, cont, decl) == [name |-> name, cont |-> cont, decl |-> decl]
        Arm == [i \in 1 .. Len(work.labels) |->
                    IF i = Len(work.labels) THEN Case(work.labels[i], FALSE, work.dec)
                    ELSE Case(work.labels[i], TRUE, NoDec)]
    IN
    \/ /\ At("union") /\ Scan({"switch"}, "union (", work)
    \/ /\ At("union (") /\ Scan({"("}, "type", Declaration(work, "union", "union )"))
    \/ /\ At("union )")
       /\ Scan({")"}, "union {",
               [work EXCEPT !.def = [kind |-> "union", name |-> @.name, enum |-> work.dec,
                                     cases |-> <<>>, default |-> <<>>]])
    \/ /\ At("union {") /\ Scan({"{"}, "union case", work)
    \/ /\ At("union case") /\ Scan({"case"}, "label", Set(work, "labels", <<>>))
    \/ /\ At("label")
       /\ Scan({"ident", "charconst"}, "label :", [work EXCEPT !.labels = Append(@, Val)])
    \/ /\ At("label :") /\ Scan({":"}, "label case", work)
    \/ /\ At("label case")
       /\ PeekScan("case", "label", work, "type", Declaration(work, "union", "arm ;"))
    \/ /\ At("arm ;")
       /\ Scan({";"}, "union next", [work EXCEPT !.def.cases = @ \o Arm, !.labels = <<>>])
    \/ /\ At("union next")
       /\ Scan({"case", "default", "}"},
               CASE Kind = "case" -> "label" [] Kind = "default" -> "default :"
                 [] OTHER -> "def;", work)
    \/ /\ At("default :") /\ Scan({":"}, "type", Declaration(work, "union", "default ;"))
    \/ /\ At("default ;")
       /\ Scan({";"}, "union }", [work EXCEPT !.def.default = <<work.dec>>])
    \/ /\ At("union }") /\ Scan({"}"}, "def;", work)

DefTypedef ==
    /\ At("typedef")
    /\ UNCHANGED scanVars
    /\ IF LegalTypeName(work.dec.name, TRUE)
       THEN Goto("def;", [work EXCEPT !.def = [kind |-> "typedef", name |-> work.dec.name,
                prefix |-> work.dec.prefix, type |-> work.dec.type,
                rel |-> work.dec.rel, max |-> work.dec.max]])
       ELSE Error

---------------------------------------------------------------------------
(* def_program: versions of procedures. proc_num is taken from tok.str     *)
(* after the semicolon has been scanned into the same token.               *)
Procedure(w) == [w EXCEPT !.dkind = "program", !.tback = "result"]

DefProgram ==
    LET NoVers == [name |-> Garbage, num |-> Garbage, procs |-> <<>>]
        NoProc == [name |-> Garbage, num |-> Garbage, prefix |-> work.dec.prefix,
                   type |-> work.dec.type, args |-> <<>>]
        Pr == [work.def EXCEPT !.versions = Append(@, [work.vers EXCEPT !.num = Val])]
    IN
    \/ /\ At("program")
       /\ Scan({"{"}, "program version",
               [work EXCEPT !.def = [kind |-> "program", name |-> @.name, num |-> Garbage,
                                     versions |-> <<>>]])
    \/ /\ At("program version") /\ Scan({"version"}, "version", work)
    \/ /\ At("version")
       /\ Scan({"ident"}, "version {", Set(work, "vers", [NoVers EXCEPT !.name = Val]))
    \/ /\ At("version {") /\ Scan({"{"}, "type", Procedure(work))
    \/ /\ At("result") /\ work.dec.type = "opaque" /\ Error /\ UNCHANGED scanVars
    \/ /\ At("result") /\ work.dec.type # "opaque"
       /\ Scan({"ident"}, "proc (", Set(work, "proc", [NoProc EXCEPT !.name = Val]))
    \/ /\ At("proc (") /\ Scan({"("}, "arg", work)
    \/ /\ At("arg ,") /\ Kind = ","
       /\ PeekScan(",", "type", [work EXCEPT !.proc.args = Append(@, work.dec),
                                 !.dkind = "struct", !.tback = "arg name"], "", work)
    \/ /\ At("arg ,") /\ Kind # "," /\ GetToken(TRUE)
       /\ IF Len(work.proc.args) = 0        \* newstyle is never set
          THEN Goto("proc )", [work EXCEPT !.proc.args = Append(@, work.dec)])
          ELSE Error
    \/ /\ At("proc )") /\ Scan({")"}, "proc =", work)
    \/ /\ At("proc =") /\ Scan({"="}, "proc num", work)
    \/ /\ At("proc num") /\ Scan({"ident"}, "proc ;", work)
    \/ /\ At("proc ;") /\ Scan({";"}, "proc }", [work EXCEPT !.proc.num = Val])
    \/ /\ At("proc }")
       /\ LET w == [work EXCEPT !.vers.procs = Append(@, work.proc)]
          IN PeekScan("}", "version =", w, "type", Procedure(w))
    \/ /\ At("version =") /\ Scan({"="}, "version num", work)
    \/ /\ At("version num") /\ Scan({"ident"}, "version ;", [work EXCEPT !.def = Pr])
    \/ /\ At("version ;") /\ Scan({";"}, "version next", work)
    \/ /\ At("version next")
       /\ Scan({"version", "}"}, IF Kind = "}" THEN "program =" ELSE "version", work)
    \/ /\ At("program =") /\ Scan({"="}, "program num", work)
    \/ /\ At("program num") /\ Scan({"ident"}, "def;", [work EXCEPT !.def.num = Val])

---------------------------------------------------------------------------
(* get_declaration: the declarator, and what opaque and string demand.     *)
GetDeclaration ==
    LET name(w) == [w EXCEPT !.dec.name = Val]
        Bounded(rel) == IF work.dec.rel = "pointer" THEN "error" ELSE rel
    IN
    \/ /\ At("decl") /\ work.dec.type = "void"
       /\ Goto(work.back, Dec("rel", "alias")) /\ UNCHANGED scanVars
    \/ /\ At("decl") /\ work.dec.type # "void"
       /\ LegalTypeName(work.dec.type, FALSE)
       /\ \/ Kind = "*" /\ Scan({"*"}, "decl name", Dec("rel", "pointer"))
          \/ Kind # "*" /\ Scan({"ident"}, "decl [", name(Dec("rel", "alias")))
    \/ /\ At("decl") /\ work.dec.type # "void"
       /\ ~LegalTypeName(work.dec.type, FALSE)
       /\ Error /\ UNCHANGED scanVars
    \/ /\ At("decl name") /\ Scan({"ident"}, "decl [", name(work))
    \/ /\ At("decl [")
       /\ PeekScan("[", Bounded("vector"), Dec("rel", "vector"),
                   "decl <", work)
    \/ /\ At("vector") /\ Scan({"ident"}, "decl ]", Dec("max", Val))
    \/ /\ At("decl ]") /\ Scan({"]"}, "decl end", work)
    \/ /\ At("decl <")
       /\ PeekScan("<", Bounded("array"), Dec("rel", "array"),
                   "decl end", work)
    \/ /\ At("array") /\ PeekScan(">", "decl end", Dec("max", "~0"), "decl num", work)
    \/ /\ At("decl num") /\ Scan({"ident"}, "decl >", Dec("max", Val))
    \/ /\ At("decl >") /\ Scan({">"}, "decl end", work)
    \/ /\ At("decl end") /\ UNCHANGED scanVars
       /\ IF \/ work.dec.type = "opaque" /\ work.dec.rel \notin {"array", "vector"}
             \/ work.dec.type = "string" /\ work.dec.rel # "array"
          THEN Error
          ELSE Goto(work.back, work)

(* get_prog_declaration: the argument of a procedure. Its name is optional *)
(* and shorter than char name[10].                                         *)
GetProgDeclaration ==
    LET Void == [work.dec EXCEPT !.rel = "alias", !.type = "void", !.prefix = "", !.name = ""]
        DefaultName == IF work.proc.args = <<>> THEN "arg1" ELSE "arg2"
        Named(w, to) == CASE w.dec.type = "void"   -> Goto("arg ,", w)
                          [] w.dec.type = "opaque" -> Error
                          [] OTHER                 -> Goto(to, w)
        IsString == work.dec.type = "string"
    IN
    \/ /\ At("arg") /\ GetToken(TRUE)
       /\ IF Kind = ")" THEN Goto("arg ,", [work EXCEPT !.dec = Void])
          ELSE Goto("type", [work EXCEPT !.tback = "arg name"])
    \/ /\ At("arg name") /\ GetToken(Kind # "ident")
       /\ LET n == IF Kind = "ident" THEN Val ELSE DefaultName
          IN Named([work EXCEPT !.dec.rel = "alias", !.dec.name = n], "arg *")
    \/ /\ At("arg *")
       /\ PeekScan("*", IF IsString THEN "error" ELSE "arg * name",
                   IF IsString THEN work ELSE Dec("rel", "pointer"), "arg <", work)
    \/ /\ At("arg * name") /\ PeekScan("ident", "arg <", Dec("name", Val), "arg <", work)
    \/ /\ At("arg <")
       /\ PeekScan("<", IF IsString THEN "arg >" ELSE "error",
                   IF IsString THEN Dec("rel", "array") ELSE work, "arg end", work)
    \/ /\ At("arg >") /\ PeekScan(">", "arg end", Dec("max", "~0"), "arg num", work)
    \/ /\ At("arg num") /\ Scan({"ident"}, "arg close", Dec("max", Val))
    \/ /\ At("arg close") /\ Scan({">"}, "arg end", work)
    \/ /\ At("arg end") /\ UNCHANGED scanVars
       /\ Goto("arg ,", IF IsString /\ work.dec.rel # "array"
                        THEN [work EXCEPT !.dec.rel = "array", !.dec.max = "~0"]
                        ELSE work)

(* get_type and unsigned_dec.                                              *)
Basic  == {"string", "opaque", "char", "int", "float", "double", "bool"}
Signed == [short |-> "short", long |-> "long", hyper |-> "int64_t"]
Unsigned == [char |-> "u_char", short |-> "u_short", long |-> "u_long",
             hyper |-> "uint64_t", int |-> "u_int"]

GetType ==
    LET Typed(type) == [work EXCEPT !.dec.prefix = "", !.dec.type = type]
    IN
    \/ /\ At("type") /\ GetToken(FALSE)
       /\ CASE Kind \in Basic \cup {"ident"} -> Goto(work.tback, Typed(Val))
            [] Kind \in {"struct", "enum", "union"} -> Goto("tag", Dec("prefix", Val))
            [] Kind = "unsigned" -> Goto("unsigned", work)
            [] Kind \in DOMAIN Signed -> Goto("type int", Typed(Signed[Kind]))
            [] Kind = "void" /\ work.dkind \in {"union", "program"} ->
                   Goto(work.tback, Typed("void"))
            [] OTHER -> Error
    \/ /\ At("tag") /\ Scan({"ident"}, work.tback, Dec("type", Val))
    \/ /\ At("type int") /\ PeekScan("int", work.tback, work, work.tback, work)
    \/ /\ At("unsigned")
       /\ GetToken(Kind \notin DOMAIN Unsigned)
       /\ Goto(IF Kind \in {"short", "long", "hyper"} THEN "type int" ELSE work.tback,
               Typed(IF Kind \in DOMAIN Unsigned THEN Unsigned[Kind] ELSE "u_int"))

===========================================================================
