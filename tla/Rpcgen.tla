------------------------------- MODULE Rpcgen -------------------------------
(***************************************************************************)
(* rpc_main.c and rpc_util.c: the rpcgen program. It runs cpp over the     *)
(* input once for every file it generates, parses what cpp delivers and    *)
(* prints; when something goes wrong crash() removes what was generated.   *)
(*                                                                         *)
(* A file name is a pair of stem and extension, <<>> is no name (standard  *)
(* input or output). The disk maps the names that exist to what they hold. *)
(* A document is a sequence of pieces of text: a definition with the       *)
(* layout that stands inside of it, or a line of layout; a piece is there  *)
(* only for the passes whose -D symbol it is `on' for (#ifdef).            *)
(***************************************************************************)
EXTENDS FiniteSets, RpcgenGrammar, RpcgenEmit
LOCAL INSTANCE SequencesExt
LOCAL INSTANCE FiniteSetsExt

CONSTANTS
    Cases,      \* what is checked: [opts, doc, text, before, faults]; faults
                \* bounds how often the system refuses a call in one run
    NFILES,     \* 7: the outputs crash() can remember
    atoi        \* the numbers that identifiers spell

(* <<>> stands for no name: no file has it.                                *)
ASSUME CasesAssumption == \A c \in Cases : <<>> \notin c.before

VARIABLES
    case,       \* the command line, the document, the files there were before
    disk,       \* the files there are
    outfiles,   \* output file names
    pass,       \* the pass at work, an index into Passes
    fout,       \* the current output
    xdrfuncs,   \* xdr function list
    nonfatalerrors,
    faults,     \* calls the system has refused
    blind,      \* some pass did not see all of its input: cpp failed
    status      \* "running", or how rpcgen has ended

mainVars == <<case, disk, outfiles, pass, fout, xdrfuncs, nonfatalerrors, faults, blind, status>>
vars == <<scanVars, parseVars, mainVars>>

---------------------------------------------------------------------------
(* parseargs. An option is [o, v] with a tuple of what follows it; "file"  *)
(* is the word that is no option.                                          *)
Opts == case.opts
Given(o) == \E i \in DOMAIN Opts : Opts[i].o = o
Number(o) == Cardinality({i \in DOMAIN Opts : Opts[i].o = o})
ValueOf(o) == LET i == CHOOSE j \in DOMAIN Opts : Opts[j].o = o IN Opts[i].v
infile  == IF Given("file") THEN ValueOf("file") ELSE <<>>
outfile == IF Given("o") THEN ValueOf("o") ELSE <<>>

(* The last of two opposite options counts.                                *)
Last3(on, off, default) ==
    LET S == {i \in DOMAIN Opts : Opts[i].o \in {on, off}}
    IN IF S = {} THEN default ELSE Opts[Max(S)].o = on
tirpcflag == Last3("5", "b", FALSE)
Cflag     == Last3("C", "k", TRUE)
inetdflag == Given("I")
allfiles  == Given("a")
flags == [C |-> Cflag, tbl |-> Given("T")]

Once   == {"c", "h", "l", "m", "t", "Ss", "Sc", "Sm"}
Single == {"c", "h", "l", "m", "t", "s", "n", "Ss", "Sc"}      \* nflags
nflags == Cardinality({o \in Single : Given(o)})
Usage ==
    \/ Opts = <<>>
    \/ \E o \in Once \cup {"file", "o"} : Number(o) > 1
    \/ \E i \in DOMAIN Opts : Opts[i].o = "s" /\ Opts[i].v \notin {<<"udp">>, <<"tcp">>}
    \/ Given("N") \/ Given("M")
    \/ Given("n") /\ (inetdflag \/ ~tirpcflag)
    \/ nflags = 0 /\ (outfile # <<>> \/ infile = <<>>)
    \/ nflags > 0 /\ infile = <<>> /\ (Given("Ss") \/ Given("Sc") \/ Given("Sm"))
    \/ nflags > 1

ARGLISTLEN == 20
FIXEDARGS  == 2
(* addarg: every -D, and in the child the pass's symbol, the input and NULL*)
TooManyArgs(more) == FIXEDARGS + Number("D") + more > ARGLISTLEN

---------------------------------------------------------------------------
(* main: the passes of a command, each with its own symbol for cpp. parse- *)
(* args lets at most one option of Single through.                         *)
Symbol == [c |-> "RPC_XDR", h |-> "RPC_HDR", l |-> "RPC_CLNT", s |-> "RPC_SVC", t |-> "RPC_TBL",
           Ss |-> "RPC_SERVER", Sc |-> "RPC_CLIENT", Makefile |-> ""]
extendfile(name, ext) == <<name[1], ext>>
Pass(kind, extend, out) == [kind |-> kind, define |-> Symbol[kind], extend |-> extend, out |-> out]
Ext(kind, ext) == Pass(kind, TRUE, extendfile(infile, ext))

Asked == CHOOSE o \in Single : Given(o)
OnlyPass == Pass(IF Asked \in {"s", "m", "n"} THEN "s" ELSE Asked, FALSE, outfile)
Makefile == Pass("Makefile", FALSE, IF allfiles THEN <<"Makefile.", infile[1]>> ELSE <<>>)

Passes ==
    IF nflags > 0 THEN <<OnlyPass>>
    ELSE IF Given("Sm") THEN <<Makefile>>
    ELSE <<Ext("c", "_xdr.c"), Ext("h", ".h"), Ext("l", "_clnt.c"), Ext("s", "_svc.c")>>
         \o (IF flags.tbl THEN <<Ext("t", "_tbl.i")>> ELSE <<>>)
         \o (IF allfiles THEN <<Ext("Ss", "_server.c"), Ext("Sc", "_client.c"), Makefile>> ELSE <<>>)
This == Passes[pass]

(* What cpp delivers to a pass.                                            *)
Spelled(d) == CHOOSE s \in Spellings(d) : TRUE
Pieces(p) == IF p.kind = "def" THEN SubSeq(Spelled(p.def), 1, 2) \o p.inside \o
                                    SubSeq(Spelled(p.def), 3, Len(Spelled(p.def)))
             ELSE p.inside
Sees(p, define) == p.on = {} \/ define \in p.on
Cpp(define) ==
    IF case.doc = <<>> THEN case.text
    ELSE FlattenSeq([i \in DOMAIN case.doc |->
                        IF Sees(case.doc[i], define) THEN Pieces(case.doc[i]) ELSE <<>>])

---------------------------------------------------------------------------
Exists(n) == n \in DOMAIN disk
Without(S) == [n \in DOMAIN disk \ S |-> disk[n]]
Written(files, n, content, t) ==
    [k \in {n} \cup DOMAIN files |-> IF k = n THEN [by |-> content, text |-> t] ELSE files[k]]
\* Mutant: the last output is forgotten.
MutantOutputs == {outfiles[i] : i \in 1 .. Len(outfiles) - 1}
Outputs == {outfiles[i] : i \in DOMAIN outfiles}

(* crash: unlink any files that we may have created, and exit (1).         *)
crash ==
    /\ disk' = Without(Outputs)
    /\ status' = "crash"
    /\ UNCHANGED <<case, outfiles, pass, fout, xdrfuncs, nonfatalerrors, blind>>
Refused == faults < case.faults /\ faults' = faults + 1

\* Mutant: the output is not looked for.
MutantChecked(in, out) == in = <<>> \/ Exists(in)
(* checkfiles: the input must exist, the output must not.                  *)
Checked(in, out) == (in = <<>> \/ Exists(in)) /\ (out = <<>> \/ ~Exists(out))

Main ==
    /\ pc = "main" /\ status = "running"
    /\ UNCHANGED <<scanVars, work, defined, faults>>
    /\ \/ /\ TooManyArgs(0) /\ crash /\ UNCHANGED pc
       \/ /\ ~TooManyArgs(0) /\ Usage
          /\ status' = "usage"
          /\ UNCHANGED <<pc, case, disk, outfiles, pass, fout, xdrfuncs, nonfatalerrors, blind>>
       \/ /\ ~TooManyArgs(0) /\ ~Usage
          /\ ~Checked(infile, IF nflags > 0 THEN outfile ELSE <<>>)
          /\ crash /\ UNCHANGED pc
       \/ /\ ~TooManyArgs(0) /\ ~Usage
          /\ Checked(infile, IF nflags > 0 THEN outfile ELSE <<>>)
          /\ pc' = "open"
          /\ UNCHANGED mainVars

(* open_input: a child runs cpp, whose text the parent reads. cpp may end  *)
(* before it has delivered all of it. When the child finds no cpp, or has  *)
(* no room for its arguments, it runs crash() itself: it removes the files *)
(* of the earlier passes, and the parent goes on with an empty input.      *)
InPass == pc = "open" /\ status = "running"
Reads(input) ==
    /\ file' = input
    /\ at' = 0 /\ commenting' = FALSE /\ text' = <<>> /\ read' = <<>>
    /\ UNCHANGED <<pushed, lasttok, tok>>
    /\ pc' = "create"
    /\ UNCHANGED <<work, defined, case, outfiles, pass, fout, xdrfuncs, nonfatalerrors, status>>

OpenInput ==
    /\ InPass /\ This.kind # "Makefile"
    /\ ~TooManyArgs(IF infile = <<>> THEN 2 ELSE 3)
    /\ Reads(Cpp(This.define))
    /\ UNCHANGED <<disk, faults, blind>>
CppStops ==
    /\ InPass /\ This.kind # "Makefile"
    /\ ~TooManyArgs(IF infile = <<>> THEN 2 ELSE 3)
    /\ Refused
    /\ \E n \in 0 .. Len(Cpp(This.define)) - 1 : Reads(SubSeq(Cpp(This.define), 1, n))
    /\ blind' = TRUE
    /\ UNCHANGED disk
ChildCrashes ==
    /\ InPass /\ This.kind # "Makefile"
    /\ IF TooManyArgs(IF infile = <<>> THEN 2 ELSE 3) THEN UNCHANGED faults ELSE Refused
    /\ Reads(<<>>)
    /\ blind' = TRUE
    /\ disk' = Without(Outputs)
(* pipe or fork fails: exit (1) without crash().                           *)
NoChild ==
    /\ InPass /\ This.kind # "Makefile"
    /\ Refused
    /\ status' = "exit"
    /\ UNCHANGED <<scanVars, parseVars, case, disk, outfiles, pass, fout, xdrfuncs, nonfatalerrors, blind>>
(* mkfile_output reads nothing.                                            *)
SkipInput ==
    /\ InPass /\ This.kind = "Makefile"
    /\ pc' = "create" /\ text' = <<>>
    /\ UNCHANGED <<file, at, commenting, pushed, lasttok, tok, read, work, defined, mainVars>>

(* open_output, after the checkfiles of the templates and the Makefile. A  *)
(* file is created before record_open finds that there is no room for it.  *)
(* mkfile_output ends the name of its file by no NUL: it may be followed by*)
(* what malloc left there.                                                 *)
OutNames == IF This.kind = "Makefile" /\ allfiles THEN {This.out, <<"Makefile.", "junk">>}
            ELSE {This.out}
MustNotExist(n) == IF This.kind \in {"Ss", "Sc"} THEN Checked(infile, n)
                   ELSE This.kind = "Makefile" => Checked(<<>>, n)
Overwrites(n) == This.kind # "Makefile" /\ n # <<>> /\ n = infile

OpenOutput ==
    /\ pc = "create" /\ status = "running"
    /\ UNCHANGED <<scanVars, work, defined>>
    /\ \E n \in OutNames :
         \/ /\ ~MustNotExist(n) \/ Overwrites(n)
            /\ crash /\ UNCHANGED <<pc, faults>>
         \/ /\ MustNotExist(n) /\ ~Overwrites(n) /\ n # <<>>
            /\ Refused /\ crash /\ UNCHANGED pc
         \/ /\ MustNotExist(n) /\ ~Overwrites(n)
            /\ n # <<>> /\ Len(outfiles) = NFILES
            /\ disk' = Written(Without(Outputs), n, "rpcgen", <<>>)
            /\ status' = "crash"
            /\ UNCHANGED <<pc, case, outfiles, pass, fout, xdrfuncs, nonfatalerrors, faults, blind>>
         \/ /\ MustNotExist(n) /\ ~Overwrites(n)
            /\ n # <<>> => Len(outfiles) < NFILES
            /\ fout' = n
            /\ disk' = IF n = <<>> THEN disk ELSE Written(disk, n, "rpcgen", <<>>)
            /\ outfiles' = IF n = <<>> THEN outfiles ELSE Append(outfiles, n)
            /\ pc' = IF This.kind = "Makefile" THEN "eof" ELSE "def"
            /\ UNCHANGED <<case, pass, xdrfuncs, nonfatalerrors, faults, blind, status>>

---------------------------------------------------------------------------
(* The parser runs until it has a definition, the end of the input or an   *)
(* error: error() prints where and calls crash().                          *)
Parsing == pc \notin {"main", "open", "create", "emit", "eof", "error"}
Parse ==
    /\ status = "running" /\ Parsing
    /\ \/ GetDefinition \/ DefName \/ EndDefinition
       \/ DefStruct \/ DefEnum \/ DefUnion \/ DefTypedef \/ DefProgram
       \/ GetDeclaration \/ GetProgDeclaration \/ GetType
    /\ UNCHANGED mainVars
ReadLayout ==
    /\ status = "running" /\ Parsing
    /\ SkipLayout
    /\ UNCHANGED <<parseVars, mainVars>>
Rejected ==
    /\ status = "running"
    /\ pc = "error" \/ (Parsing /\ Unscannable)
    /\ crash
    /\ UNCHANGED <<scanVars, parseVars, faults>>

(* What the pass does with the definition it has got: print it, or keep it *)
(* in `defined' for the end.                                               *)
def == defined[Len(defined)]
Printed ==
    CASE This.kind = "c"  -> emit(defined, def)
      [] This.kind = "h"  -> print_datadef(defined, def)
      [] This.kind = "Ss" -> write_sample_svc(defined, def, flags)
      [] This.kind = "Sc" -> write_sample_clnt(defined, def)
      [] OTHER -> <<>>
(* A walk through the typedefs that finds no end: the loop of isvectordef, *)
(* the recursion of fixit.                                                 *)
NoEnd(items) ==
    \E i \in DOMAIN items : \E u \in items[i].uses \cup items[i].declares :
        u[Len(u)] = Endless
Declares(d) == This.kind = "h" /\ d.kind # "program"

TakeDefinition ==
    /\ status = "running" /\ pc = "emit"
    /\ LET xdr == IF Declares(def) THEN <<print_xdr_func_def(def.name, pointerp(defined, def))>>
                  ELSE <<>>
       IN IF NoEnd(Printed \o xdr)
          THEN status' = "endless" /\ UNCHANGED <<pc, text, xdrfuncs>>
          ELSE /\ text' = text \o Printed
               /\ xdrfuncs' = xdrfuncs \o xdr
               /\ pc' = "def" /\ UNCHANGED status
    /\ read' = <<>>
    /\ UNCHANGED <<file, at, commenting, pushed, lasttok, tok, work, defined,
                   case, disk, outfiles, pass, fout, nonfatalerrors, faults, blind>>

---------------------------------------------------------------------------
(* The end of a pass: what is printed last, and whether the output stays.  *)
foundprogram == Programs(defined) # <<>>
(* The passes, as what they print besides their definitions: the #include  *)
(* lines, guards and warnings at both ends, always the same, are left out. *)
h_output ==
    LET funcs == EachProgram(defined, LAMBDA d : pprogramdef(defined, d, flags)) \o xdrfuncs
    IN IF flags.tbl /\ (This.extend => text \o funcs # <<>>) THEN Append(funcs, rpcgen_table_dcl) ELSE funcs
s_output == write_programs(defined, flags) \o IF Given("m") THEN <<>> ELSE registrations(defined)
l_output == write_stubs(defined)
t_output == write_tables(defined, flags)
clnt_output == IF foundprogram THEN write_sample_clnt_main(defined) ELSE <<>>
(* The Makefile lists the templates whether they are there or not.         *)
mkfile_output ==
    LET there == {e \in {"_svc.c", "_clnt.c", "_xdr.c", ".h"} : Exists(extendfile(infile, e))}
    IN <<Item(<<"TARGETS">>, {},
              {extendfile(infile, e) : e \in there \cup IF allfiles THEN {"_server.c", "_client.c"} ELSE {}})>>
AtLast ==
    CASE This.kind = "h"  -> h_output
      [] This.kind = "s"  -> s_output
      [] This.kind = "l"  -> l_output
      [] This.kind = "t"  -> t_output
      [] This.kind = "Sc" -> clnt_output
      [] This.kind = "Makefile" -> mkfile_output
      [] OTHER -> <<>>

\* Mutant: the end of the file is looked up before its last items are printed.
MutantEmpty == This.extend /\ IF This.kind \in {"l", "s", "t"} THEN ~foundprogram ELSE text = <<>>
(* A file that nothing was printed into is not kept, when its name is not  *)
(* the user's; without a program there are no stubs, server or table.      *)
Empty == This.extend /\ IF This.kind \in {"l", "s", "t"} THEN ~foundprogram
                        ELSE text \o AtLast = <<>>
(* These return without close_input and close_output.                      *)
Unclosed == Empty /\ This.kind \in {"l", "s", "t"}

Ends(items) ==
    /\ status = "running" /\ pc = "eof"
    /\ UNCHANGED <<file, at, commenting, pushed, lasttok, tok, read, work, case, fout, blind>>
Finish ==
    /\ Ends(AtLast) /\ ~NoEnd(AtLast)
    /\ text' = text \o AtLast
    /\ disk' = IF Empty THEN Without({fout})
               ELSE IF fout = <<>> THEN disk ELSE Written(disk, fout, "rpcgen", text \o AtLast)
    /\ nonfatalerrors' = \/ nonfatalerrors
                         \/ /\ This.kind = "t" /\ ~Empty
                            /\ \E i \in DOMAIN Programs(defined) :
                                 \E j \in DOMAIN Programs(defined)[i].versions :
                                    OutOfOrder(Programs(defined)[i].versions[j], atoi)
    /\ defined' = <<>>                                        \* reinitialize
    /\ IF pass = Len(Passes)
       THEN status' = "done" /\ UNCHANGED <<pc, pass>>
       ELSE pc' = "open" /\ pass' = pass + 1 /\ UNCHANGED status
    /\ UNCHANGED <<outfiles, xdrfuncs, faults>>
EndlessAtLast ==
    /\ Ends(AtLast) /\ NoEnd(AtLast)
    /\ status' = "endless"
    /\ UNCHANGED <<text, pc, defined, disk, outfiles, pass, xdrfuncs, nonfatalerrors, faults>>
(* close_output finds a write error.                                       *)
CannotWrite ==
    /\ Ends(AtLast) /\ ~Unclosed
    /\ Refused
    /\ disk' = Without(Outputs)
    /\ status' = "crash"
    /\ UNCHANGED <<text, pc, defined, outfiles, pass, xdrfuncs, nonfatalerrors>>

Init ==
    /\ case \in Cases
    /\ file = <<>> /\ at = 0 /\ commenting = FALSE /\ pushed = FALSE
    /\ lasttok = EOF /\ tok = EOF /\ read = <<>> /\ text = <<>>
    /\ pc = "main" /\ work = NoWork /\ defined = <<>>
    /\ disk = [n \in case.before |-> [by |-> "user", text |-> <<>>]]
    /\ outfiles = <<>> /\ pass = 1 /\ fout = <<>> /\ xdrfuncs = <<>>
    /\ nonfatalerrors = FALSE /\ faults = 0 /\ blind = FALSE /\ status = "running"

(* rpcgen has ended, or it walks in a circle.                              *)
Ended == status # "running" /\ UNCHANGED vars

Next ==
    \/ Main \/ OpenInput \/ CppStops \/ ChildCrashes \/ NoChild \/ SkipInput \/ OpenOutput
    \/ Parse \/ ReadLayout \/ Rejected \/ TakeDefinition
    \/ Finish \/ EndlessAtLast \/ CannotWrite
    \/ Ended

Spec == Init /\ [][Next]_vars

---------------------------------------------------------------------------
(* Properties.                                                             *)

(* What a definition record says is what was written: the tokens taken for *)
(* it are one of its spellings in the RPC language (rpc_parse.c against    *)
(* its grammar, with the token of push-back and the shared locals).        *)
DefinitionsAreInput == pc = "emit" /\ status = "running" => read \in Spellings(def)

(* The parser refuses nothing that is the beginning of a legal definition: *)
(* at an error, the tokens read so far, the refused one with them, begin no*)
(* spelling of a definition of Legal.                                      *)
CONSTANT Legal
LegalSpellings == UNION {Spellings(d) : d \in Legal}
NothingLegalRejected ==
    pc = "error" => \A s \in LegalSpellings : ~IsPrefix(read, s)

(* crash: unlink any files that we may have created. Only the file that    *)
(* record_open found no room for stays.                                    *)
Left == {n \in DOMAIN disk : disk[n].by = "rpcgen"}
CrashLeavesNothing ==
    status = "crash" => Cardinality(Left) <= IF Len(outfiles) = NFILES THEN 1 ELSE 0

(* The input, an output the user has named, a template and a Makefile that *)
(* are there already stay as they are, whatever else is generated, removed *)
(* or fails (checkfiles, open_output).                                     *)
Kept == {infile, outfile} \cup
        IF Given("file") THEN {extendfile(infile, "_server.c"), extendfile(infile, "_client.c"),
                               <<"Makefile.", infile[1]>>} ELSE {}
NothingOverwritten ==
    \A n \in case.before \cap Kept : Exists(n) /\ disk[n].by = "user"

(* When rpcgen ends without an error and cpp has delivered everything, each*)
(* output is there if and only if there is something for it, and holds the *)
(* directives and the definitions of its own pass, each once, a directive  *)
(* in front of the definition it stands in (c_output to clnt_output).      *)
Defs(p) == LET seen == SelectSeq(case.doc, LAMBDA x : Sees(x, p.define) /\ x.kind = "def")
           IN [i \in DOMAIN seen |-> seen[i].def]
Marks(x, k, i) == Cardinality({j \in 1 .. i : x.inside[j].k = k})
Lines(x) == FlattenSeq([i \in DOMAIN x.inside |->
               IF x.inside[i].k = "directive" /\ Marks(x, "open", i) = Marks(x, "close", i)
               THEN <<<<"%", x.inside[i].v>>>> ELSE <<>>])
Of(tag, d) == LET P == Procs(d) IN [i \in DOMAIN P |-> <<tag, P[i].proc.name, P[i].vers.num>>]
OfVersion(tag, d) == EachVersion(d, LAMBDA v : <<tag, d.name, v.num>>)
InPlace(kind, d) ==
    CASE kind = "c" /\ d.kind # "program" /\ ~(d.kind = "typedef" /\ d.type = d.name) ->
             <<<<"routine", d.name>>>>
      [] kind = "h" /\ d.kind # "program" ->
             <<<<IF d.kind = "typedef" /\ d.type = d.name THEN "line" ELSE d.kind, d.name>>>>
      [] kind = "Ss" /\ d.kind = "program" -> Of("sample", d)
      [] kind = "Sc" /\ d.kind = "program" -> OfVersion("client", d)
      [] OTHER -> <<>>
AtTheEnd(kind, defs) ==
    LET programs(F(_)) == EachProgram(defs, F)
        data == SelectSeq(defs, LAMBDA d : d.kind # "program")
        procs(d) == Of("proc", d)
    IN CASE kind = "l" -> programs(LAMBDA d : Of("call", d))
         [] kind = "t" -> programs(LAMBDA d : OfVersion("table", d))
         [] kind = "s" -> programs(LAMBDA d : OfVersion("dispatch", d))
                          \o IF Given("m") THEN <<>> ELSE programs(LAMBDA d : OfVersion("register", d))
         [] kind = "h" -> programs(LAMBDA d : <<<<"program", d.name>>>>) \o
                          [i \in DOMAIN data |-> <<"xdr", data[i].name>>]
         [] kind = "Sc" -> IF Programs(defs) = <<>> THEN <<>> ELSE <<<<"main">>>>
         [] OTHER -> <<>>
Expected(p) ==
    LET all == FlattenSeq([i \in DOMAIN case.doc |->
                   IF ~Sees(case.doc[i], p.define) THEN <<>>
                   ELSE Lines(case.doc[i]) \o
                        IF case.doc[i].kind = "def" THEN InPlace(p.kind, case.doc[i].def) ELSE <<>>])
               \o AtTheEnd(p.kind, Defs(p))
    IN IF p.kind = "h" /\ Given("T") /\ (~p.extend \/ all # <<>>) THEN Append(all, <<"rpcgen_table">>) ELSE all
Outline(t) ==
    LET items == SelectSeq(t, LAMBDA x : x.of[1] \notin {"version", "define", "proc"})
    IN [i \in DOMAIN items |-> items[i].of]
Wanted(p) == ~p.extend \/ IF p.kind \in {"l", "s", "t"} THEN Programs(Defs(p)) # <<>>
                           ELSE Expected(p) # <<>>
Complete == status = "done" /\ ~blind /\ case.doc # <<>>
OutputsComplete ==
    Complete =>
        \A i \in DOMAIN Passes :
            LET p == Passes[i] IN
            p.kind = "Makefile" \/ p.out = <<>> \/
            IF Wanted(p) THEN Exists(p.out) /\ Outline(disk[p.out].text) = Expected(p)
            ELSE ~Exists(p.out)

(* The outputs of one run fit together: a name the header uses is declared *)
(* above in it or in the library (the name of a type not before its own    *)
(* definition ends), a name of another output there, in the output itself  *)
(* or in the library; header and routine agree on how an object is passed; *)
(* what is called is defined by an output that is linked with the caller.  *)
(* One name comes too late: with -T the header declares the tables above   *)
(* struct rpcgen_table, and C has no arrays of an incomplete type; it is   *)
(* declared below them, so that the file of the tables finds it.           *)
CONSTANT Library
Texts(kinds) == {disk[Passes[i].out].text :
                    i \in {j \in DOMAIN Passes : Passes[j].kind \in kinds /\ Exists(Passes[j].out)}}
Declared(kinds) == UNION {UNION {t[i].declares : i \in DOMAIN t} : t \in Texts(kinds)}
Used(kinds) == UNION {UNION {t[i].uses : i \in DOMAIN t} : t \in Texts(kinds)}
Calls(kinds, what) == {u \in Used(kinds) : u[1] \in what} \ Library
Late(t) == {RpcgenTable} \cap UNION {t[i].declares : i \in DOMAIN t}
InOrder(t) ==
    \A i \in DOMAIN t :
        t[i].uses \subseteq UNION {t[j].declares : j \in 1 .. i - 1} \cup Library \cup Late(t)
                             \cup {d \in t[i].declares : d[1] # "type"}
NamesResolve ==
    Complete /\ nflags = 0 /\ ~Given("Sm") /\ (\A i \in DOMAIN case.doc : case.doc[i].on = {}) =>
        /\ \A t \in Texts({"h"}) : InOrder(t)
        /\ \A kind \in {"c", "l", "s", "t", "Ss", "Sc"} :
              Used({kind}) \subseteq Declared({"h", kind}) \cup Library
        /\ Calls({"c", "l", "s"}, {"xdr"}) \subseteq Declared({"c"})
        /\ Calls({"Sc"}, {"stub"}) \subseteq Declared({"l"})
        /\ allfiles => Calls({"s", "t"}, {"svc", "stub"}) \subseteq Declared({"Ss"})

===========================================================================
