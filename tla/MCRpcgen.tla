------------------------------ MODULE MCRpcgen ------------------------------
(***************************************************************************)
(* Small .x files, commands and disks for Rpcgen.                          *)
(***************************************************************************)
EXTENDS Rpcgen

(* Declarations, as the parser records them.                               *)
D(prefix, type, rel, name, max) ==
    [prefix |-> prefix, type |-> type, rel |-> rel, name |-> name, max |-> max]
Plain(type, name) == D("", type, "alias", name, Garbage)
Void == D("", "void", "alias", Garbage, Garbage)
NoArg == D("", "void", "alias", "", Garbage)

StructDef(name, decls) == [kind |-> "struct", name |-> name, decls |-> decls]
EnumDef(name, vals) == [kind |-> "enum", name |-> name, vals |-> vals]
Val1(name, n) == [name |-> name, assignment |-> n]
UnionDef(name, enum, cases, default) ==
    [kind |-> "union", name |-> name, enum |-> enum, cases |-> cases, default |-> default]
Case1(name, decl) == [name |-> name, cont |-> FALSE, decl |-> decl]
Cont1(name) == [name |-> name, cont |-> TRUE, decl |-> NoDec]
TypedefDef(d) == [kind |-> "typedef", name |-> d.name, prefix |-> d.prefix, type |-> d.type,
                  rel |-> d.rel, max |-> d.max]
ProcDef(name, num, prefix, type, arg) ==
    [name |-> name, num |-> num, prefix |-> prefix, type |-> type, args |-> <<arg>>]
VersionDef(name, num, procs) == [name |-> name, num |-> num, procs |-> procs]
ProgramDef(name, num, versions) ==
    [kind |-> "program", name |-> name, num |-> num, versions |-> versions]

---------------------------------------------------------------------------
(* Definitions. The names of a definition that another needs come in front.*)
color == EnumDef("color", <<Val1("RED", "1"), Val1("BLUE", "")>>)
point == StructDef("point", <<Plain("int", "x"), D("", "point", "pointer", "next", Garbage)>>)
item  == StructDef("item", <<D("", "string", "array", "x", "4"), D("", "opaque", "vector", "y", "4"),
                             D("", "point", "array", "z", "~0"), D("", "bool", "vector", "b", "4")>>)
tags  == StructDef("tags", <<D("struct", "point", "alias", "x", Garbage), D("enum", "color", "pointer", "y", Garbage),
                             Plain("u_int", "z"), D("", "opaque", "array", "b", "~0")>>)
shape == UnionDef("shape", Plain("color", "c"),
                  <<Cont1("RED"), Case1("1", D("", "point", "pointer", "x", Garbage)), Case1("BLUE", Void)>>,
                  <<Plain("int64_t", "y")>>)
small == UnionDef("small", Plain("int", "c"), <<Case1("1", Void)>>, <<>>)
word  == TypedefDef(Plain("u_long", "word"))
vec   == TypedefDef(D("", "int", "vector", "vec", "4"))
vec2  == TypedefDef(Plain("vec", "vec2"))
both  == StructDef("both", <<Plain("vec2", "x"), Plain("point", "y")>>)
label == TypedefDef(D("", "string", "array", "label", "~0"))
later == TypedefDef(D("struct", "undefined_t", "pointer", "later", Garbage))
self  == TypedefDef(D("struct", "point", "alias", "point", Garbage))
loop1 == TypedefDef(Plain("loop2", "loop1"))
loop2 == TypedefDef(Plain("loop1", "loop2"))
same  == TypedefDef(Plain("same", "same"))
useof == StructDef("useof", <<Plain("same", "x")>>)
foo   == TypedefDef(D("struct", "foo", "alias", "foo", Garbage))

prog  == ProgramDef("PROG", "4", <<VersionDef("VERS", "1", <<ProcDef("GET", "1", "", "int", NoArg)>>)>>)
prog2 == ProgramDef("TWO", "4",
            <<VersionDef("VERS", "1", <<ProcDef("NONE", "0", "", "void", NoArg),
                                       ProcDef("GET", "1", "", "string", D("", "int", "pointer", "arg1", Garbage))>>),
              VersionDef("LAST", "2", <<ProcDef("GET", "1", "struct", "point", Plain("vec2", "x")),
                                       ProcDef("PUT", "4", "", "vec2", D("", "string", "array", "arg1", "~0"))>>)>>)
progfoo == ProgramDef("PROG", "4", <<VersionDef("VERS", "1", <<ProcDef("GET", "1", "", "foo", NoArg)>>)>>)

---------------------------------------------------------------------------
(* Pieces of a document.                                                   *)
Def(d) == [kind |-> "def", def |-> d, inside |-> <<>>, on |-> {}]
With(d, layout) == [kind |-> "def", def |-> d, inside |-> layout, on |-> {}]
On(define, piece) == [piece EXCEPT !.on = {define}]
Text(layout) == [kind |-> "text", def |-> word, inside |-> layout, on |-> {}]
Defs2(ds) == [i \in DOMAIN ds |-> Def(ds[i])]

NL == Layout("nl", "")
Percent(v) == Layout("directive", v)
Comment == <<Layout("open", ""), Percent("a"), Layout("cpp", "bad"), Kw("struct"), NL, Layout("close", "")>>

DataDocs == {
    Defs2(<<color, point, shape>>),
    Defs2(<<point, item, label>>),
    Defs2(<<color, point, tags, small, later>>),
    Defs2(<<point, self, vec, vec2, both>>),
    <<Text(<<NL, Layout("cpp", "line")>>), Text(<<Percent("a")>>),
      With(point, <<Percent("b")>> \o Comment \o <<Percent("c"), NL>>), Text(<<Percent("d")>>)>>,
    <<On("RPC_HDR", Def(point)), On("RPC_CLNT", Text(<<Percent("a")>>)), On("RPC_SVC", Def(prog)),
      On("RPC_TBL", Text(<<Percent("b")>>))>> }
ProgramDocs == {
    Defs2(<<prog>>),
    Defs2(<<point, vec, vec2, prog2>>),
    <<On("RPC_HDR", Text(<<Percent("a")>>)), Def(prog), Text(<<Percent("b")>>)>> }
FailingDocs == {
    Defs2(<<prog>>) \o <<Text(<<Layout("illegal", "")>>)>>,
    <<With(word, <<Layout("cpp", "bad")>>)>>,
    <<Text(<<Layout("close", "")>>)>>,
    <<Text(<<Layout("open", ""), Kw("struct")>>)>>,
    Defs2(<<loop1, loop2>>),
    Defs2(<<same, useof>>),
    Defs2(<<foo, progfoo>>) }
NoDocs == { <<Text(<<NL>>)>>, <<Text(<<Percent("a")>>)>> }

---------------------------------------------------------------------------
(* Commands.                                                               *)
Opt1(o) == <<[o |-> o, v |-> <<>>]>>
File(ext) == <<[o |-> "file", v |-> <<"p", ext>>]>>
Out(ext) == <<[o |-> "o", v |-> <<"q", ext>>]>>
Net(n) == <<[o |-> "s", v |-> <<n>>]>>
Ds(n) == [i \in 1 .. n |-> [o |-> "D", v |-> <<>>]]
X == File(".x")

OneOutput == {Opt1(o) : o \in {"c", "h", "l", "m", "t", "n", "Ss", "Sc", "Sm"}}
             \cup {Net("udp") \o Net("tcp"), Opt1("h") \o Opt1("T"), Opt1("5") \o Opt1("n")}
ManyOutputs == {<<>>, Opt1("a"), Opt1("T"), Opt1("k"), Opt1("a") \o Opt1("k"), Opt1("I") \o Opt1("b")}
Refused1 == {<<>>, X \o X, Opt1("c") \o Opt1("c") \o X, Net("ipx") \o X, Opt1("N") \o X, Opt1("M") \o X,
             Opt1("n") \o Opt1("I") \o X, Opt1("n") \o Opt1("b") \o X, Out(".c") \o X, Opt1("a"),
             Opt1("Ss"), Opt1("c") \o Opt1("h") \o X, Out(".c") \o Out(".c") \o Opt1("c") \o X, Ds(19)}

Case(opts, doc, before, n) ==
    [opts |-> opts, doc |-> doc, text |-> <<>>, before |-> before, faults |-> n]
Input == {<<"p", ".x">>}

(* Every document with every command, and nothing goes wrong.              *)
Sound == {Case(o \o X, d, Input, 0) : o \in OneOutput \cup ManyOutputs,
                                      d \in DataDocs \cup ProgramDocs \cup NoDocs}
(* Short documents, and one call fails.                                    *)
Short == {Defs2(<<word>>), Defs2(<<prog>>)}
Faulty == {Case(o \o X, d, Input, 1) : o \in {Opt1("c") \o Out(".c"), <<>>}, d \in Short}
          \cup {Case(Opt1("a") \o X, d, Input, 1) : d \in Short}
          \cup {Case(Opt1("h"), Defs2(<<word>>), {}, 1)}
(* Files that are there or not, commands rpcgen refuses, bad documents.    *)
Files == {Case(o \o X, Defs2(<<prog>>), b, 0) :
            o \in {<<>>, Opt1("a"), Opt1("a") \o Opt1("T"), Opt1("c") \o Out(".c"), Opt1("Ss") \o Out(".c")},
            b \in {{}} \cup {Input \cup S : S \in
                  SUBSET {<<"q", ".c">>, <<"p", "_server.c">>, <<"p", "_client.c">>, <<"Makefile.", "p">>, <<"p", ".h">>}}}
         \cup {Case(File(".h"), Defs2(<<word>>), {<<"p", ".h">>}, 0),
               Case(Opt1("h") \o File(".h"), Defs2(<<word>>), {<<"p", ".h">>}, 0),
               Case(Opt1("c"), Defs2(<<word>>), {}, 0)}
Bad == {Case(o, Defs2(<<word>>), Input, 0) : o \in Refused1 \cup {Ds(n) \o X : n \in 15 .. 19}}
       \cup {Case(o \o X, d, Input, 0) : o \in {<<>>, Opt1("a"), Opt1("h")}, d \in FailingDocs}
       \cup {Case(Opt1("l") \o X, Defs2(<<foo, progfoo>>), Input, 0)}

---------------------------------------------------------------------------
(* Input of the parser alone: a spelling of a legal definition with one    *)
(* token left out, put in or exchanged.                                    *)
AllLegal == {color, point, item, tags, shape, small, word, vec, label, later, prog, prog2}
Alphabet == {Id("x"), Id("vector"), Punct(";"), Punct(","), Punct("*"), Punct("["), Punct("<"), Punct(">"),
             Punct("}"), Punct("="), Punct(")"), Kw("int"), Kw("string"), Kw("opaque"), Kw("void"),
             Kw("unsigned"), Kw("struct"), Kw("case"), Kw("default")}
Edits(s) ==
    {s}
    \cup {SubSeq(s, 1, i - 1) \o SubSeq(s, i + 1, Len(s)) : i \in 1 .. Len(s)}
    \cup {SubSeq(s, 1, i - 1) \o <<t>> \o SubSeq(s, i + 1, Len(s)) : i \in 1 .. Len(s), t \in Alphabet}
    \cup {SubSeq(s, 1, i) \o <<t>> \o SubSeq(s, i + 1, Len(s)) : i \in 0 .. Len(s), t \in Alphabet}
Parser == {[opts |-> Opt1("c"), doc |-> <<>>, text |-> s, before |-> {}, faults |-> 0] :
              s \in UNION {Edits(Spelled(d)) : d \in AllLegal} \cup UNION {Spellings(d) : d \in AllLegal}}

TestCases == Sound \cup Faulty \cup Files \cup Bad \cup Parser

TestNames == {"x", "y", "z", "b", "c", "next", "arg1", "GET", "PUT", "vec2"}
TestAtoi == [n \in {"0", "1", "2", "4"} |->
                CASE n = "0" -> 0 [] n = "1" -> 1 [] n = "2" -> 2 [] n = "4" -> 4]
(* What C, the library and the user's own headers declare.                 *)
TestLibrary ==
    {<<"type", n>> : n \in {"int", "u_int", "u_long", "int64_t", "char", "bool_t", "void", "unsigned", "xdrproc_t"}}
    \cup {<<"passes", n, "pointer">> : n \in {"int", "u_int", "u_long", "int64_t", "bool"}}
    \cup {Xdr(n) : n \in {"int", "u_int", "u_long", "int64_t", "bool", "void", "enum", "string", "wrapstring",
                          "bytes", "opaque", "array", "vector", "pointer"}}
    \cup {Num(n) : n \in {"0", "1", "2", "4", "~0"}}
    \cup {<<"struct", "undefined_t">>, Xdr("undefined_t")}

=============================================================================
