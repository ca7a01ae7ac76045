----------------------------- MODULE RpcgenEmit -----------------------------
(***************************************************************************)
(* What rpcgen prints: rpc_hout.c, rpc_cout.c, rpc_clntout.c, rpc_svcout.c,*)
(* rpc_tblout.c and rpc_sample.c.                                          *)
(*                                                                         *)
(* A printed piece of C is an item: the definition it is for, the names it *)
(* declares and the names it uses. The layout of the C text is left out,   *)
(* and so is lower-casing: `stub', `svc' and `dispatch' names are          *)
(* pairs of a name and a version number (pvname, pvname_svc). newstyle and *)
(* mtflag are never set and inlineflag is 0, their branches are left out.  *)
(***************************************************************************)
EXTENDS Naturals, Sequences
LOCAL INSTANCE SequencesExt

Item(of, declares, uses) == [of |-> of, declares |-> declares, uses |-> uses]
Xdr(name) == <<"xdr", name>>
Num(name) == <<"value", name>>

First(defs, Test(_)) == SelectInSeq(defs, Test)          \* findval; 0 for NULL
(* The elements of a program, version after version.                       *)
Procs(def) == FlattenSeq([i \in DOMAIN def.versions |->
                 [j \in DOMAIN def.versions[i].procs |->
                     [proc |-> def.versions[i].procs[j], vers |-> def.versions[i]]]])
Arg(proc) == proc.args[1]
Programs(defs) == SelectSeq(defs, LAMBDA d : d.kind = "program")

---------------------------------------------------------------------------
(* rpc_util.c: a type through the typedefs that define it. Both walks      *)
(* follow the names for ever when a typedef leads back to itself: Endless. *)
Endless == "endless"

Relations == {"vector", "array", "pointer", "alias"}
Types(defs) == {defs[i].type : i \in {j \in DOMAIN defs : defs[j].kind = "typedef"}}

isvectordef(defs, type0, rel0) ==
    LET typedefed(type) == First(defs, LAMBDA d : d.kind = "typedef" /\ d.prefix = "" /\ d.name = type)
        walk[n \in 0 .. Len(defs) + 1, type \in {type0} \cup Types(defs), rel \in Relations] ==
            CASE rel = "vector" -> IF type # "string" THEN "yes" ELSE "no"
              [] rel \in {"array", "pointer"} -> "no"
              [] rel = "alias" ->
                    LET i == typedefed(type) IN
                    IF i = 0 THEN "no" ELSE IF n = 0 THEN Endless
                    ELSE walk[n - 1, defs[i].type, defs[i].rel]
    IN walk[Len(defs) + 1, type0, rel0]

fixtype(defs, orig) ==
    LET fixit[n \in 0 .. Len(defs) + 1, type \in {orig} \cup Types(defs)] ==
            LET i == First(defs, LAMBDA d : d.name = type) IN
            IF i = 0 \/ defs[i].kind # "typedef" THEN orig
            ELSE CASE defs[i].rel = "vector" -> IF defs[i].type = "opaque" THEN "char" ELSE defs[i].type
                   [] defs[i].rel = "alias"  -> IF n = 0 THEN Endless ELSE fixit[n - 1, defs[i].type]
                   [] OTHER -> orig
    IN fixit[Len(defs) + 1, orig]

stringfix(type) == IF type = "string" THEN "wrapstring" ELSE type

(* ptype: the C type of a value, through fixtype where the code follows.   *)
ptype(defs, prefix, type, follow) ==
    (IF prefix = "" THEN {} ELSE {<<IF prefix = "enum" THEN "enum" ELSE "struct", type>>})
    \cup CASE type = "bool"   -> {<<"type", "bool_t">>}
           [] type = "string" -> {<<"type", "char">>}
           [] OTHER -> IF prefix # "" THEN {}
                       ELSE {<<"type", IF follow THEN fixtype(defs, type) ELSE type>>}

---------------------------------------------------------------------------
(* rpc_hout.c: pdeclaration, and the definitions of data. name is the type *)
(* the declaration is part of.                                             *)
CType(type) == CASE type = "bool" -> "bool_t" [] type \in {"opaque", "string"} -> "char"
                 [] OTHER -> type
\* Mutant: a member of the type it is part of is not written as a struct.
MutantDeclaration(name, d) ==
    IF d.type = "void" THEN {}
    ELSE (IF d.prefix # "" THEN {<<d.prefix, d.type>>} ELSE {<<"type", CType(d.type)>>})
         \cup (IF d.rel = "vector" /\ d.type # "string" THEN {Num(d.max)} ELSE {})
pdeclaration(name, d) ==
    IF d.type = "void" THEN {}
    ELSE (CASE d.type = name /\ d.prefix = "" -> {<<"struct", name>>}
            [] d.prefix # "" /\ d.type \notin {"string", "bool", "opaque"} -> {<<d.prefix, d.type>>}
            [] OTHER -> {<<"type", CType(d.type)>>})
         \cup (IF d.rel = "vector" /\ d.type # "string" THEN {Num(d.max)} ELSE {})

(* undefined2: type has no definition in front of stop.                    *)
undefined2(defs, type, stop) ==
    LET i == First(defs, LAMBDA d : d.kind # "program" /\ d.name \in {type, stop})
    IN i = 0 \/ defs[i].name = stop

Struct(name) == {<<"struct", name>>, <<"type", name>>}
pstructdef(def) ==
    Item(<<"struct", def.name>>, Struct(def.name),
         UNION {pdeclaration(def.name, def.decls[i]) : i \in DOMAIN def.decls})
puniondef(def) ==
    Item(<<"union", def.name>>, Struct(def.name),
         {<<"type", CType(def.enum.type)>>}
         \cup UNION {pdeclaration(def.name, def.cases[i].decl) :
                        i \in {j \in DOMAIN def.cases : ~def.cases[j].cont}}
         \cup UNION {pdeclaration(def.name, def.default[i]) : i \in DOMAIN def.default})
penumdef(def) ==
    Item(<<"enum", def.name>>,
         {<<"enum", def.name>>, <<"type", def.name>>}
         \cup {Num(def.vals[i].name) : i \in DOMAIN def.vals},
         {Num(def.vals[i].assignment) : i \in {j \in DOMAIN def.vals : def.vals[j].assignment # ""}})
ptypedef(defs, def) ==
    Item(<<"typedef", def.name>>, {<<"type", def.name>>},
         (IF def.prefix # "" /\ undefined2(defs, CType(def.type), def.name)
          THEN {<<def.prefix, CType(def.type)>>} ELSE {<<"type", CType(def.type)>>})
         \cup (IF def.rel = "vector" THEN {Num(def.max)} ELSE {}))

(* print_datadef: nothing for a program, only a new line for a typedef of  *)
(* a name by itself.                                                       *)
print_datadef(defs, def) ==
    CASE def.kind = "program" -> <<>>
      [] def.kind = "struct"  -> <<pstructdef(def)>>
      [] def.kind = "union"   -> <<puniondef(def)>>
      [] def.kind = "enum"    -> <<penumdef(def)>>
      [] def.kind = "typedef" -> IF def.name = def.type
                                 THEN <<Item(<<"line", def.name>>, {}, {})>>
                                 ELSE <<ptypedef(defs, def)>>

(* The routines of the definitions (storexdrfuncdecl), and whether one is  *)
(* given the object or a pointer to it: a vector is passed as it is.       *)
Object == [no |-> "pointer", yes |-> "object", endless |-> Endless]
pointerp(defs, def) ==
    IF def.kind # "typedef" THEN "pointer" ELSE Object[isvectordef(defs, def.type, def.rel)]
print_xdr_func_def(name, ptr) ==
    Item(<<"xdr", name>>, {Xdr(name), <<"passes", name, ptr>>}, {<<"type", name>>})

(* define_printed: a procedure of this name came first.                    *)
define_printed(def, p) ==
    \E i \in DOMAIN Procs(def) :
        /\ Procs(def)[i].proc.name = p.proc.name
        /\ \A j \in 1 .. i : Procs(def)[j] # p

pprocdef(defs, p, server) ==
    Item(<<"proc", p.proc.name, p.vers.num>>,
         {<<IF server THEN "svc" ELSE "stub", p.proc.name, p.vers.num>>},
         ptype(defs, p.proc.prefix, p.proc.type, TRUE)
         \cup ptype(defs, Arg(p.proc).prefix, Arg(p.proc).type, TRUE))

(* With -T a version's table, an array of struct rpcgen_table, and its size*)
(* are declared in front of the version's number; the structure itself is  *)
(* declared at the end of the header (h_output).                           *)
RpcgenTable == <<"struct", "rpcgen_table">>
TableNames(def, v) == {<<"table", def.name, v.num>>, <<"nproc", def.name, v.num>>}
rpcgen_table_dcl ==
    Item(<<"rpcgen_table">>, {RpcgenTable}, {<<"type", "char">>, <<"type", "xdrproc_t">>, <<"type", "unsigned">>})

pprogramdef(defs, def, flags) ==
    LET ofVersion(v) ==
            <<Item(<<"version", v.name>>,
                   {Num(v.name)} \cup IF flags.tbl THEN TableNames(def, v) ELSE {},
                   {Num(v.num)} \cup IF flags.tbl THEN {RpcgenTable} ELSE {})>>
        ofProc(p) ==
            (IF define_printed(def, p) THEN <<>>
             ELSE <<Item(<<"define", p.proc.name>>, {Num(p.proc.name)}, {Num(p.proc.num)})>>)
            \o <<pprocdef(defs, p, FALSE)>>
            \o (IF flags.C THEN <<pprocdef(defs, p, TRUE)>> ELSE <<>>)
        Of(v) == ofVersion(v) \o FlattenSeq([i \in DOMAIN v.procs |->
                                                ofProc([proc |-> v.procs[i], vers |-> v])])
    IN <<Item(<<"program", def.name>>, {Num(def.name)}, {Num(def.num)})>>
       \o FlattenSeq([i \in DOMAIN def.versions |-> Of(def.versions[i])])

---------------------------------------------------------------------------
(* rpc_cout.c: the routine of a definition.                                *)
undefined(defs, type) == First(defs, LAMBDA d : d.kind # "program" /\ d.name = type) = 0

print_ifsizeof(defs, prefix, type) ==
    CASE type = "bool" -> {<<"type", "bool_t">>, Xdr("bool")}
      [] undefined(defs, type) /\ prefix # "" -> {<<prefix, type>>, Xdr(type)}
      [] OTHER -> {<<"type", type>>, Xdr(type)}
print_ifstat(defs, prefix, type, rel, max) ==
    CASE rel = "pointer" -> {Xdr("pointer")} \cup print_ifsizeof(defs, prefix, type)
      [] rel = "alias"   -> {Xdr(type)}
      [] rel = "vector"  ->
            {Num(max)} \cup
            IF type \in {"string", "opaque"} THEN {Xdr(type)}
            ELSE {Xdr("vector")} \cup print_ifsizeof(defs, prefix, type)
      [] rel = "array"   ->
            {Num(max)} \cup
            CASE type = "string" -> {Xdr("string")}
              [] type = "opaque" -> {Xdr("bytes")}
              [] OTHER -> {Xdr("array")} \cup print_ifsizeof(defs, prefix, type)
(* A member is given to the routine of its type as a pointer or, a vector, *)
(* as it is.                                                               *)
print_stat(defs, d) ==
    print_ifstat(defs, d.prefix, d.type, d.rel, d.max)
    \cup IF d.rel # "alias" THEN {}
         ELSE {<<"passes", d.type, Object[isvectordef(defs, d.type, d.rel)]>>}

emit_union(defs, def) ==
    print_stat(defs, def.enum)
    \cup {Num(def.cases[i].name) : i \in DOMAIN def.cases}
    \cup UNION {print_stat(defs, def.cases[i].decl) :
                   i \in {j \in DOMAIN def.cases : ~def.cases[j].cont /\ def.cases[j].decl.type # "void"}}
    \cup UNION {print_stat(defs, def.default[i]) :
                   i \in {j \in DOMAIN def.default : def.default[j].type # "void"}}

emit(defs, def) ==
    IF def.kind = "program" \/ (def.kind = "typedef" /\ def.type = def.name) THEN <<>>
    ELSE <<Item(<<"routine", def.name>>, {Xdr(def.name)},
                {<<"type", def.name>>, <<"passes", def.name, pointerp(defs, def)>>} \cup
                CASE def.kind = "union"   -> emit_union(defs, def)
                  [] def.kind = "enum"    -> {Xdr("enum")}
                  [] def.kind = "struct"  -> UNION {print_stat(defs, def.decls[i]) : i \in DOMAIN def.decls}
                  [] def.kind = "typedef" -> print_ifstat(defs, def.prefix, def.type, def.rel, def.max))>>

---------------------------------------------------------------------------
(* rpc_clntout.c: a stub for every procedure. printarglist follows the     *)
(* typedefs of the argument, the result's declaration in the body does not.*)
printarglist(defs, proc) == ptype(defs, Arg(proc).prefix, Arg(proc).type, TRUE)
printbody(defs, proc) ==
    (IF proc.type = "void" THEN {} ELSE ptype(defs, proc.prefix, proc.type, FALSE))
    \cup {Num(proc.name), Xdr(stringfix(Arg(proc).type)), Xdr(stringfix(proc.type))}

Over(def, Of(_)) == [i \in DOMAIN Procs(def) |-> Of(Procs(def)[i])]
EachProgram(defs, Of(_)) == FlattenSeq([i \in DOMAIN Programs(defs) |-> Of(Programs(defs)[i])])
EachVersion(def, Of(_)) == [i \in DOMAIN def.versions |-> Of(def.versions[i])]

write_stubs(defs) ==
    LET stub(p) == Item(<<"call", p.proc.name, p.vers.num>>, {<<"stub", p.proc.name, p.vers.num>>},
                        ptype(defs, p.proc.prefix, p.proc.type, TRUE)
                        \cup printarglist(defs, p.proc) \cup printbody(defs, p.proc))
    IN EachProgram(defs, LAMBDA def : Over(def, stub))

(* The procedure the server's code calls.                                  *)
Service(p, flags) == <<IF flags.C THEN "svc" ELSE "stub", p.proc.name, p.vers.num>>

(* rpc_tblout.c: the table of every version, in the order of its           *)
(* procedures, an empty entry in front when none has number 0. Numbers are *)
(* what atoi makes of them.                                                *)
nullproc(v) == \E i \in DOMAIN v.procs : v.procs[i].num = "0"
OutOfOrder(v, atoi) ==
    LET first == IF nullproc(v) THEN 0 ELSE 1
    IN \E i \in DOMAIN v.procs :
          atoi[v.procs[i].num] # IF i = 1 THEN first ELSE atoi[v.procs[i - 1].num] + 1
write_tables(defs, flags) ==
    LET entry(def, v, i) ==
            {Service([proc |-> v.procs[i], vers |-> v], flags),
             Xdr(stringfix(Arg(v.procs[i]).type)), Xdr(stringfix(v.procs[i].type))}
            \cup UNION {IF d.type = "void" THEN {} ELSE ptype(defs, d.prefix, d.type, FALSE) :
                           d \in {[prefix |-> Arg(v.procs[i]).prefix, type |-> Arg(v.procs[i]).type],
                                  [prefix |-> v.procs[i].prefix, type |-> v.procs[i].type]}}
        table(def, v) == Item(<<"table", def.name, v.num>>, TableNames(def, v),
                              {RpcgenTable} \cup UNION {entry(def, v, i) : i \in DOMAIN v.procs})
    IN EachProgram(defs, LAMBDA def : EachVersion(def, LAMBDA v : table(def, v)))

(* rpc_svcout.c: the dispatchers.                                          *)
write_programs(defs, flags) ==
    LET case(p) == {Num(p.proc.name), Xdr(stringfix(Arg(p.proc).type)), Xdr(stringfix(p.proc.type)),
                    Service(p, flags)}
                   \cup IF Arg(p.proc).type = "void" THEN {}
                        ELSE ptype(defs, Arg(p.proc).prefix, Arg(p.proc).type, FALSE)
        program(def, v) == Item(<<"dispatch", def.name, v.num>>, {<<"dispatch", def.name, v.num>>},
                                UNION {case([proc |-> v.procs[i], vers |-> v]) : i \in DOMAIN v.procs})
    IN EachProgram(defs, LAMBDA def : EachVersion(def, LAMBDA v : program(def, v)))
(* The registrations of main.                                              *)
registrations(defs) ==
    EachProgram(defs, LAMBDA def : EachVersion(def, LAMBDA v :
        Item(<<"register", def.name, v.num>>, {},
             {Num(def.name), Num(v.name), <<"dispatch", def.name, v.num>>})))

(* rpc_sample.c: the templates of the server's procedures and of a client. *)
write_sample_svc(defs, def, flags) ==
    IF def.kind # "program" THEN <<>>
    ELSE Over(def, LAMBDA p : Item(<<"sample", p.proc.name, p.vers.num>>, {Service(p, flags)},
                  ptype(defs, p.proc.prefix, p.proc.type, TRUE) \cup printarglist(defs, p.proc)))
write_sample_clnt(defs, def) ==
    LET call(p) == {<<"stub", p.proc.name, p.vers.num>>} \cup ptype(defs, p.proc.prefix, p.proc.type, TRUE)
                   \cup IF Arg(p.proc).type = "void" THEN {} ELSE printarglist(defs, p.proc)
    IN IF def.kind # "program" THEN <<>>
       ELSE EachVersion(def, LAMBDA v :
               Item(<<"client", def.name, v.num>>, {<<"client", def.name, v.num>>},
                    {Num(def.name), Num(v.name)}
                    \cup UNION {call([proc |-> v.procs[i], vers |-> v]) : i \in DOMAIN v.procs}))
write_sample_clnt_main(defs) ==
    <<Item(<<"main">>, {}, UNION {{<<"client", def.name, def.versions[i].num>> : i \in DOMAIN def.versions} :
                                     def \in {Programs(defs)[i] : i \in DOMAIN Programs(defs)}})>>

===========================================================================
