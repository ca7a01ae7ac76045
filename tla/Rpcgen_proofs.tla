---------------------------- MODULE Rpcgen_proofs ----------------------------
(***************************************************************************)
(* Rpcgen's disk: crash() leaves nothing behind, and what the user had is  *)
(* never written over.                                                     *)
(***************************************************************************)
EXTENDS Rpcgen, FiniteSetTheorems, SequenceTheorems, TLAPS

---------------------------------------------------------------------------
(* What rpcgen has created and what crash() remembers.                     *)

(* Every file of rpcgen's is one of the outputs crash() knows, until it has*)
(* run; after it, only the file record_open had no room for is left.       *)
OutputsKnown ==
    /\ outfiles \in Seq(Outputs)
    /\ fout = <<>> \/ fout \in Outputs
    /\ status # "crash" => Left \subseteq Outputs
    /\ status = "crash" => Left = {} \/ (Len(outfiles) = NFILES /\ \E n \in Left : Left = {n})

(* The command line parseargs and checkfiles have let through.             *)
CommandChecked == ~Usage /\ (nflags > 0 => outfile \notin case.before)

(* No output of this run is a file that has to stay.                       *)
UserFiles == case.before \cap Kept
UserFilesStay ==
    /\ case \in Cases
    /\ pass \in DOMAIN Passes
    /\ pc # "main" /\ status = "running" => CommandChecked
    /\ Outputs \cap UserFiles = {}
    /\ NothingOverwritten

(* The names that are taken away.                                          *)
LEMMA WithoutIs ==
    ASSUME NEW S
    PROVE  /\ DOMAIN Without(S) = DOMAIN disk \ S
           /\ \A n \in DOMAIN disk \ S : Without(S)[n] = disk[n]
  BY DEF Without

(* outfiles grows by the name of the file that is opened.                  *)
LEMMA OutputsGrow ==
    ASSUME outfiles \in Seq(Outputs), NEW n, outfiles' = Append(outfiles, n)
    PROVE  /\ Outputs' = Outputs \cup {n}
           /\ outfiles' \in Seq(Outputs')
           /\ Len(outfiles') = Len(outfiles) + 1
  <1> DEFINE Known == Outputs \cup {n}
  <1>1. outfiles \in Seq(Known)
    BY DEF Outputs
  <1>2. outfiles' \in Seq(Known) /\ Len(outfiles') = Len(outfiles) + 1
    BY <1>1
  <1>3. \A i \in DOMAIN outfiles : outfiles'[i] = outfiles[i]
    BY <1>1
  <1>4. outfiles'[Len(outfiles) + 1] = n
    BY <1>1
  <1>5. DOMAIN outfiles' = DOMAIN outfiles \cup {Len(outfiles) + 1}
    BY <1>1, <1>2
  <1>6. Outputs' = Outputs \cup {n}
    BY <1>3, <1>4, <1>5 DEF Outputs
  <1> QED
    BY <1>2, <1>6

---------------------------------------------------------------------------
(* What the actions do to the disk.                                        *)

(* Nothing is created or removed.                                          *)
SameFiles ==
    /\ UNCHANGED <<case, disk, outfiles, fout>>
    /\ status' # status => status = "running" /\ status' # "crash"
(* crash has run, in rpcgen or in the child that was to become cpp.        *)
Removed ==
    /\ disk' = Without(Outputs)
    /\ UNCHANGED <<case, outfiles, fout>>
(* record_open found no room.                                              *)
NoRoom(n) ==
    /\ n # <<>> /\ Len(outfiles) = NFILES /\ status' = "crash"
    /\ disk' = Written(Without(Outputs), n, "rpcgen", <<>>)
    /\ UNCHANGED <<case, outfiles, fout>>
(* An output is opened.                                                    *)
Opened(n) ==
    /\ n # <<>> /\ fout' = n
    /\ outfiles' = Append(outfiles, n)
    /\ disk' = Written(disk, n, "rpcgen", <<>>)
    /\ UNCHANGED <<case, status>>
(* The pass prints to the standard output.                                 *)
NotOpened ==
    /\ fout' = <<>>
    /\ UNCHANGED <<case, disk, outfiles, status>>
(* A pass has ended: its output is written, or removed when it is empty.   *)
PassClosed ==
    /\ \/ disk' = Without({fout})
       \/ disk' = disk
       \/ \E t : fout # <<>> /\ disk' = Written(disk, fout, "rpcgen", t)
    /\ UNCHANGED <<case, outfiles, fout>>
    /\ status' # "crash"

(* The file an output may be written to: it passed the checks in front of  *)
(* it (open_output, and checkfiles for the templates and the Makefile).    *)
MayWrite(n) == n \in OutNames /\ MustNotExist(n) /\ ~Overwrites(n)

LEMMA EffectsOnDisk ==
    ASSUME Next, status = "running"
    PROVE  \/ SameFiles
           \/ Removed
           \/ PassClosed
           \/ pc = "create" /\ \E n \in OutNames : MayWrite(n) /\ (NoRoom(n) \/ Opened(n))
           \/ NotOpened
  <1>1. CASE Main
    BY <1>1 DEF Main, crash, Removed, SameFiles, mainVars
  <1>2. CASE OpenInput \/ SkipInput \/ NoChild
    BY <1>2 DEF OpenInput, SkipInput, NoChild, Reads, SameFiles, mainVars
  <1>3. CASE CppStops
    BY <1>3 DEF CppStops, Reads, SameFiles
  <1>4. CASE ChildCrashes
    BY <1>4 DEF ChildCrashes, Reads, Removed
  <1>5. CASE OpenOutput
    <2>1. PICK n \in OutNames :
            \/ crash
            \/ MayWrite(n) /\ NoRoom(n)
            \/ MayWrite(n) /\ n = <<>> /\ NotOpened
            \/ MayWrite(n) /\ Opened(n)
      BY <1>5 DEF OpenOutput, MayWrite, NoRoom, NotOpened, Opened
    <2>2. pc = "create"
      BY <1>5 DEF OpenOutput
    <2>3. CASE crash
      BY <2>3 DEF crash, Removed
    <2> QED
      BY <2>1, <2>2, <2>3
  <1>6. CASE Parse \/ ReadLayout \/ TakeDefinition \/ EndlessAtLast
    BY <1>6 DEF Parse, ReadLayout, TakeDefinition, EndlessAtLast, Ends, SameFiles, mainVars
  <1>7. CASE Rejected
    BY <1>7 DEF Rejected, crash, Removed
  <1>8. CASE CannotWrite
    BY <1>8 DEF CannotWrite, Ends, Removed
  <1>9. CASE Finish
    <2>1. UNCHANGED <<case, outfiles, fout>> /\ status' # "crash"
      BY <1>9 DEF Finish, Ends
    <2>2. disk' = IF Empty THEN Without({fout})
                  ELSE IF fout = <<>> THEN disk ELSE Written(disk, fout, "rpcgen", text \o AtLast)
      BY <1>9 DEF Finish
    <2> QED
      BY <2>1, <2>2 DEF PassClosed
  <1> QED
    BY <1>1, <1>2, <1>3, <1>4, <1>5, <1>6, <1>7, <1>8, <1>9 DEF Next, Ended

---------------------------------------------------------------------------
(* crash() leaves nothing behind.                                          *)

LEMMA KnownInit == Init => OutputsKnown
  <1> SUFFICES ASSUME Init PROVE OutputsKnown
    OBVIOUS
  <1>1. outfiles = <<>> /\ fout = <<>> /\ status = "running"
    BY DEF Init
  <1>2. Left = {}
    BY DEF Init, Left
  <1> QED
    BY <1>1, <1>2 DEF OutputsKnown

LEMMA LeftWithout ==
    ASSUME Left \subseteq Outputs, disk' = Without(Outputs)
    PROVE  Left' = {}
  <1>1. DOMAIN disk' = DOMAIN disk \ Outputs /\ \A n \in DOMAIN disk' : disk'[n] = disk[n]
    BY WithoutIs
  <1> QED
    BY <1>1 DEF Left

LEMMA LeftNoRoom ==
    ASSUME Left \subseteq Outputs, NEW n, NoRoom(n)
    PROVE  Left' = {n}
  <1> DEFINE rest == Without(Outputs)
  <1>1. DOMAIN rest = DOMAIN disk \ Outputs /\ \A k \in DOMAIN rest : rest[k] = disk[k]
    BY WithoutIs
  <1>2. /\ DOMAIN disk' = {n} \cup DOMAIN rest
        /\ disk'[n].by = "rpcgen"
        /\ \A k \in DOMAIN rest \ {n} : disk'[k] = rest[k]
    BY DEF NoRoom, Written
  <1> HIDE DEF rest
  <1> QED
    BY <1>1, <1>2 DEF Left

LEMMA LeftOpened ==
    ASSUME OutputsKnown, Left \subseteq Outputs, NEW n, Opened(n)
    PROVE  /\ Left' \subseteq Outputs'
           /\ fout' \in Outputs'
           /\ outfiles' \in Seq(Outputs')
  <1>1. Outputs' = Outputs \cup {n} /\ outfiles' \in Seq(Outputs')
    BY OutputsGrow DEF OutputsKnown, Opened
  <1>2. /\ DOMAIN disk' = {n} \cup DOMAIN disk
        /\ \A k \in DOMAIN disk \ {n} : disk'[k] = disk[k]
    BY DEF Opened, Written
  <1>3. fout' = n
    BY DEF Opened
  <1>4. Left' \subseteq Left \cup {n}
    BY <1>2 DEF Left
  <1> QED
    BY <1>1, <1>3, <1>4

LEMMA LeftClosed ==
    ASSUME OutputsKnown, Left \subseteq Outputs, PassClosed
    PROVE  Left' \subseteq Outputs
  <1>1. CASE disk' = Without({fout})
    <2>1. DOMAIN disk' \subseteq DOMAIN disk /\ \A n \in DOMAIN disk' : disk'[n] = disk[n]
      BY <1>1, WithoutIs
    <2> QED
      BY <2>1 DEF Left
  <1>2. CASE disk' = disk
    BY <1>2 DEF Left
  <1>3. CASE \E t : fout # <<>> /\ disk' = Written(disk, fout, "rpcgen", t)
    <2>1. /\ DOMAIN disk' = {fout} \cup DOMAIN disk
          /\ \A k \in DOMAIN disk \ {fout} : disk'[k] = disk[k]
      BY <1>3 DEF Written
    <2>2. fout \in Outputs
      BY <1>3 DEF OutputsKnown
    <2> QED
      BY <2>1, <2>2 DEF Left
  <1> QED
    BY <1>1, <1>2, <1>3 DEF PassClosed

LEMMA KnownStep == OutputsKnown /\ [Next]_vars => OutputsKnown'
  <1> SUFFICES ASSUME OutputsKnown, [Next]_vars PROVE OutputsKnown'
    OBVIOUS
  <1>1. CASE UNCHANGED vars \/ status # "running"
    <2>1. UNCHANGED <<disk, outfiles, fout, status>>
      BY <1>1 DEF vars, mainVars, Next, Main, OpenInput, CppStops, ChildCrashes, NoChild, SkipInput,
            InPass, OpenOutput, Parse, ReadLayout, Rejected, TakeDefinition, Finish, EndlessAtLast,
            CannotWrite, Ends, Ended
    <2> QED
      BY <2>1 DEF OutputsKnown, Outputs, Left
  <1>2. CASE Next /\ status = "running"
    <2>0. Left \subseteq Outputs /\ outfiles \in Seq(Outputs) /\ (fout = <<>> \/ fout \in Outputs)
      BY <1>2 DEF OutputsKnown
    <2>1. CASE SameFiles
      <3>1. Outputs' = Outputs /\ Left' = Left /\ outfiles' = outfiles /\ fout' = fout /\ status' # "crash"
        BY <1>2, <2>1 DEF SameFiles, Outputs, Left
      <3> QED
        BY <2>0, <3>1 DEF OutputsKnown
    <2>2. CASE Removed
      <3>1. Outputs' = Outputs /\ outfiles' = outfiles /\ fout' = fout
        BY <2>2 DEF Removed, Outputs
      <3>2. Left' = {}
        BY <2>0, <2>2, LeftWithout DEF Removed
      <3> QED
        BY <2>0, <3>1, <3>2 DEF OutputsKnown
    <2>3. CASE PassClosed
      <3>1. Outputs' = Outputs /\ outfiles' = outfiles /\ fout' = fout /\ status' # "crash"
        BY <2>3 DEF PassClosed, Outputs
      <3>2. Left' \subseteq Outputs
        BY <2>0, <2>3, LeftClosed
      <3> QED
        BY <2>0, <3>1, <3>2 DEF OutputsKnown
    <2>4. ASSUME NEW n, NoRoom(n) PROVE OutputsKnown'
      <3>1. Outputs' = Outputs /\ outfiles' = outfiles /\ fout' = fout /\ status' = "crash"
        BY <2>4 DEF NoRoom, Outputs
      <3>2. Left' = {n}
        BY <2>0, <2>4, LeftNoRoom
      <3>3. Len(outfiles') = NFILES
        BY <2>4 DEF NoRoom
      <3> QED
        BY <2>0, <3>1, <3>2, <3>3 DEF OutputsKnown
    <2>5. ASSUME NEW n, Opened(n) PROVE OutputsKnown'
      <3>1. Left' \subseteq Outputs' /\ fout' \in Outputs' /\ outfiles' \in Seq(Outputs')
        BY <2>0, <2>5, LeftOpened
      <3>2. status' = "running"
        BY <1>2, <2>5 DEF Opened
      <3> QED
        BY <3>1, <3>2 DEF OutputsKnown
    <2>6. CASE NotOpened
      <3>1. Outputs' = Outputs /\ Left' = Left /\ outfiles' = outfiles /\ fout' = <<>> /\ status' = "running"
        BY <1>2, <2>6 DEF NotOpened, Outputs, Left
      <3> QED
        BY <2>0, <3>1 DEF OutputsKnown
    <2> QED
      BY <1>2, <2>1, <2>2, <2>3, <2>4, <2>5, <2>6, EffectsOnDisk
  <1> QED
    BY <1>1, <1>2

LEMMA KnownLeavesNothing == OutputsKnown => CrashLeavesNothing
  <1> SUFFICES ASSUME OutputsKnown, status = "crash"
               PROVE  Cardinality(Left) <= IF Len(outfiles) = NFILES THEN 1 ELSE 0
    BY DEF CrashLeavesNothing
  <1>1. CASE Left = {}
    <2>1. Cardinality(Left) = 0
      BY <1>1, FS_EmptySet
    <2> QED
      BY <2>1
  <1>2. CASE Len(outfiles) = NFILES /\ \E n \in Left : Left = {n}
    <2>1. PICK n : Left = {n}
      BY <1>2
    <2>2. Cardinality(Left) = 1
      BY <2>1, FS_Singleton
    <2> QED
      BY <1>2, <2>2
  <1> QED
    BY <1>1, <1>2 DEF OutputsKnown

---------------------------------------------------------------------------
(* What stays as it is.                                                    *)

(* A pass that parseargs asks for writes to the name it was given, and that*)
(* is none of the files that stay, unless open_output or checkfiles looks  *)
(* at it first: it is the input, or the output of a template or Makefile.  *)
Harmless(p) ==
    \/ p.kind \in {"Ss", "Sc", "Makefile"}
    \/ p.out = <<>>
    \/ p.out = infile
    \/ p.out \notin UserFiles

LEMMA FlagsAreCounted == nflags \in Nat
  <1> DEFINE F == {x \in Single : Given(x)}
  <1>1. \A S, x : IsFiniteSet(S) => IsFiniteSet(S \cup {x})
    BY FS_AddElement
  <1>2. IsFiniteSet({} \cup {"c"} \cup {"h"} \cup {"l"})
    BY <1>1, FS_EmptySet
  <1>3. IsFiniteSet({"c", "h", "l"} \cup {"m"} \cup {"t"} \cup {"s"})
    <2>1. {} \cup {"c"} \cup {"h"} \cup {"l"} = {"c", "h", "l"}
      OBVIOUS
    <2> QED
      BY <1>1, <1>2, <2>1
  <1>4. IsFiniteSet({"c", "h", "l", "m", "t", "s"} \cup {"n"} \cup {"Ss"} \cup {"Sc"})
    <2>1. {"c", "h", "l"} \cup {"m"} \cup {"t"} \cup {"s"} = {"c", "h", "l", "m", "t", "s"}
      OBVIOUS
    <2> QED
      BY <1>1, <1>3, <2>1
  <1>5. IsFiniteSet(Single)
    <2>1. {"c", "h", "l", "m", "t", "s"} \cup {"n"} \cup {"Ss"} \cup {"Sc"} = Single
      BY DEF Single
    <2> QED
      BY <1>4, <2>1
  <1>6. IsFiniteSet(F)
    BY <1>5, FS_Subset
  <1> QED
    BY <1>6, FS_CardinalityType DEF nflags

LEMMA NoFlag ==
    ASSUME CommandChecked, ~(nflags > 0)
    PROVE  outfile = <<>> /\ infile # <<>> /\ Given("file")
  <1>2. nflags = 0
    BY FlagsAreCounted
  <1>3. outfile = <<>> /\ infile # <<>>
    BY <1>2 DEF CommandChecked, Usage
  <1> QED
    BY <1>3 DEF infile

(* The passes that are asked for one by one, and what rpcgen makes of a    *)
(* file when nothing is asked for.                                         *)
OnePass(p) ==
    \/ p.out = outfile /\ nflags > 0
    \/ p.kind = "Makefile"
ManyPasses(p) ==
    \/ p.kind \in {"Ss", "Sc", "Makefile"}
    \/ p.kind \notin {"Ss", "Sc", "Makefile"} /\ \E e \in {"_xdr.c", ".h", "_clnt.c", "_svc.c", "_tbl.i"} : p.out = <<infile[1], e>>

FirstPasses == <<Ext("c", "_xdr.c"), Ext("h", ".h"), Ext("l", "_clnt.c"), Ext("s", "_svc.c")>>
TablePass == IF flags.tbl THEN <<Ext("t", "_tbl.i")>> ELSE <<>>
TemplatePasses == IF allfiles THEN <<Ext("Ss", "_server.c"), Ext("Sc", "_client.c"), Makefile>> ELSE <<>>

LEMMA PassesByCommand ==
    \/ Passes = <<OnlyPass>> /\ nflags > 0
    \/ Passes = <<Makefile>>
    \/ Passes = FirstPasses \o TablePass \o TemplatePasses /\ ~(nflags > 0)
  BY DEF Passes, FirstPasses, TablePass, TemplatePasses

LEMMA PassesAre ==
    /\ Passes # <<>>
    /\ DOMAIN Passes = 1 .. Len(Passes) /\ Len(Passes) \in Nat
    /\ \/ \A i \in DOMAIN Passes : OnePass(Passes[i])
       \/ ~(nflags > 0) /\ \A i \in DOMAIN Passes : ManyPasses(Passes[i])
  <1>1. ASSUME NEW p, Passes = <<p>>, OnePass(p)
        PROVE  /\ Passes # <<>>
               /\ DOMAIN Passes = 1 .. Len(Passes) /\ Len(Passes) \in Nat
               /\ \A i \in DOMAIN Passes : OnePass(Passes[i])
    BY <1>1
  <1>2. CASE Passes = <<OnlyPass>> /\ nflags > 0
    <2>1. OnePass(OnlyPass)
      BY <1>2 DEF OnePass, OnlyPass, Pass
    <2> QED
      BY <1>1, <1>2, <2>1
  <1>3. CASE Passes = <<Makefile>>
    <2>1. OnePass(Makefile)
      BY DEF OnePass, Makefile, Pass
    <2> QED
      BY <1>1, <1>3, <2>1
  <1>4. CASE Passes = FirstPasses \o TablePass \o TemplatePasses /\ ~(nflags > 0)
    <2> DEFINE Many == {p \in {Passes[i] : i \in DOMAIN Passes} \cup
                               {FirstPasses[i] : i \in DOMAIN FirstPasses} \cup
                               {TablePass[i] : i \in DOMAIN TablePass} \cup
                               {TemplatePasses[i] : i \in DOMAIN TemplatePasses} : ManyPasses(p)}
    <2>1. FirstPasses \in Seq(Many) /\ Len(FirstPasses) = 4
      <3>1. ManyPasses(Ext("c", "_xdr.c")) /\ ManyPasses(Ext("h", ".h"))
        BY DEF ManyPasses, Ext, Pass, extendfile
      <3>2. ManyPasses(Ext("l", "_clnt.c")) /\ ManyPasses(Ext("s", "_svc.c"))
        BY DEF ManyPasses, Ext, Pass, extendfile
      <3>3. DOMAIN FirstPasses = 1 .. 4 /\ Len(FirstPasses) = 4
        BY DEF FirstPasses
      <3>4. \A i \in 1 .. 4 : ManyPasses(FirstPasses[i])
        BY <3>1, <3>2 DEF FirstPasses
      <3>5. \A i \in 1 .. 4 : FirstPasses[i] \in Many
        BY <3>3, <3>4
      <3>6. FirstPasses \in Seq({FirstPasses[i] : i \in DOMAIN FirstPasses})
        BY DEF FirstPasses
      <3> HIDE DEF Many
      <3> QED
        BY <3>3, <3>5, <3>6
    <2>2. TablePass \in Seq(Many)
      <3>1. ManyPasses(Ext("t", "_tbl.i"))
        BY DEF ManyPasses, Ext, Pass, extendfile
      <3>2. CASE flags.tbl
        <4>1. TablePass = <<Ext("t", "_tbl.i")>>
          BY <3>2 DEF TablePass
        <4>2. Ext("t", "_tbl.i") \in {TablePass[i] : i \in DOMAIN TablePass}
          BY <4>1
        <4>3. Ext("t", "_tbl.i") \in Many
          BY <3>1, <4>2
        <4> HIDE DEF Many
        <4> QED
          BY <4>1, <4>3
      <3>3. CASE ~flags.tbl
        <4>1. TablePass = <<>>
          BY <3>3 DEF TablePass
        <4> HIDE DEF Many
        <4> QED
          BY <4>1
      <3> QED
        BY <3>2, <3>3
    <2>3. TemplatePasses \in Seq(Many)
      <3>1. ManyPasses(Ext("Ss", "_server.c")) /\ ManyPasses(Ext("Sc", "_client.c"))
        BY DEF ManyPasses, Ext, Pass
      <3>2. ManyPasses(Makefile)
        BY DEF ManyPasses, Makefile, Pass
      <3>3. CASE allfiles
        <4>1. TemplatePasses = <<Ext("Ss", "_server.c"),
                                 Ext("Sc", "_client.c"), Makefile>>
          BY <3>3 DEF TemplatePasses
        <4>2. \A i \in 1 .. 3 : ManyPasses(TemplatePasses[i])
          BY <3>1, <3>2, <4>1
        <4>3. DOMAIN TemplatePasses = 1 .. 3
          BY <4>1
        <4>4. \A i \in 1 .. 3 : TemplatePasses[i] \in Many
          BY <4>2, <4>3
        <4>5. TemplatePasses \in Seq({TemplatePasses[i] : i \in DOMAIN TemplatePasses})
          BY <4>1
        <4> HIDE DEF Many
        <4> QED
          BY <4>3, <4>4, <4>5
      <3>4. CASE ~allfiles
        <4>1. TemplatePasses = <<>>
          BY <3>4 DEF TemplatePasses
        <4> HIDE DEF Many
        <4> QED
          BY <4>1
      <3> QED
        BY <3>3, <3>4
    <2>4. \A p \in Many : ManyPasses(p)
      OBVIOUS
    <2> HIDE DEF Many
    <2>5. FirstPasses \o TablePass \in Seq(Many)
      BY <2>1, <2>2
    <2>6. Passes \in Seq(Many)
      BY <1>4, <2>3, <2>5
    <2>8. Len(FirstPasses \o TablePass) = 4 + Len(TablePass) /\ Len(TablePass) \in Nat
      <3>1. FirstPasses \in Seq(Many) /\ Len(FirstPasses) = 4
        BY <2>1
      <3>2. Len(TablePass) \in Nat
        BY <2>2
      <3>3. Len(FirstPasses \o TablePass) = Len(FirstPasses) + Len(TablePass)
        BY <3>1, <2>2, ConcatProperties
      <3> QED
        BY <3>1, <3>2, <3>3
    <2>9. Len(Passes) = Len(FirstPasses \o TablePass) + Len(TemplatePasses) /\ Len(TemplatePasses) \in Nat
      BY <1>4, <2>3, <2>5
    <2>10. Passes # <<>>
      BY <2>6, <2>8, <2>9
    <2>7. \A i \in DOMAIN Passes : ManyPasses(Passes[i])
      BY <2>4, <2>6
    <2> QED
      BY <1>4, <2>6, <2>7, <2>10
  <1> QED
    BY <1>2, <1>3, <1>4, PassesByCommand

LEMMA PassesAreHarmless ==
    ASSUME CommandChecked, pass \in DOMAIN Passes, CasesAssumption, case \in Cases
    PROVE  Harmless(This)
  <1>1. CASE nflags > 0 /\ This.out = outfile
    BY <1>1 DEF CommandChecked, Harmless, UserFiles
  <1>2. CASE ManyPasses(This) /\ ~(nflags > 0)
    <2>1. outfile = <<>> /\ Given("file")
      BY <1>2, NoFlag
    <2>2. CASE This.kind \in {"Ss", "Sc", "Makefile"}
      BY <2>2 DEF Harmless
    <2>3. ASSUME NEW e \in {"_xdr.c", ".h", "_clnt.c", "_svc.c", "_tbl.i"}, This.out = <<infile[1], e>>
          PROVE  Harmless(This)
      <3>1. This.out # extendfile(infile, "_server.c") /\ This.out # extendfile(infile, "_client.c")
        BY <2>3 DEF extendfile
      <3>2. This.out # <<"Makefile.", infile[1]>>
        BY <2>3
      <3>3. This.out \in Kept => This.out = infile \/ This.out = <<>>
        BY <2>1, <3>1, <3>2 DEF Kept
      <3> QED
        BY <3>3 DEF Harmless, UserFiles
    <2> QED
      BY <1>2, <2>2, <2>3 DEF ManyPasses
  <1>3. CASE This.kind = "Makefile"
    BY <1>3 DEF Harmless
  <1> QED
    BY <1>1, <1>2, <1>3, PassesAre DEF This, OnePass

(* No output is written over a file that stays.                            *)
LEMMA WritesOther ==
    ASSUME NEW n, MayWrite(n), n # <<>>, Harmless(This), NothingOverwritten
    PROVE  n \notin UserFiles
  <1>1. CASE This.kind \in {"Ss", "Sc", "Makefile"}
    <2>1. ~Exists(n)
      BY <1>1 DEF MayWrite, MustNotExist, Checked
    <2> QED
      BY <2>1 DEF NothingOverwritten, UserFiles
  <1>2. CASE This.kind \notin {"Ss", "Sc", "Makefile"}
    <2>1. n = This.out
      BY <1>2 DEF MayWrite, OutNames
    <2>2. n # infile
      BY <1>2 DEF MayWrite, Overwrites
    <2> QED
      BY <1>2, <2>1, <2>2 DEF Harmless
  <1> QED
    BY <1>1, <1>2

LEMMA StayInit == Init => UserFilesStay
  <1> SUFFICES ASSUME Init PROVE UserFilesStay
    OBVIOUS
  <1>1. case \in Cases /\ pass = 1 /\ pc = "main"
    BY DEF Init
  <1>2. pass \in DOMAIN Passes
    <2>1. Len(Passes) \in Nat /\ DOMAIN Passes = 1 .. Len(Passes) /\ Passes # <<>>
      BY PassesAre
    <2>2. Len(Passes) # 0
      BY <2>1, PassesAre, EmptySeq
    <2> QED
      BY <1>1, <2>1, <2>2
  <1>3. Outputs = {}
    BY DEF Init, Outputs
  <1>4. NothingOverwritten
    BY DEF Init, NothingOverwritten, Exists
  <1> QED
    BY <1>1, <1>2, <1>3, <1>4 DEF UserFilesStay

(* The passes are those of the command line, whatever has happened.        *)
LEMMA CommandStays ==
    ASSUME UserFilesStay, [Next]_vars
    PROVE  /\ case' = case
           /\ Passes' = Passes /\ UserFiles' = UserFiles
           /\ CommandChecked' = CommandChecked
  <1>1. case' = case
    BY DEF vars, mainVars, Next, Main, crash, OpenInput, CppStops, ChildCrashes, NoChild, SkipInput, Reads,
           OpenOutput, Parse, ReadLayout, Rejected, TakeDefinition, Finish, EndlessAtLast, CannotWrite,
           Ends, Ended
  <1>2. Passes' = Passes
    BY <1>1 DEF Passes, OnlyPass, Asked, Makefile, Ext, Pass, extendfile, flags, Cflag, Last3, allfiles,
           infile, outfile, ValueOf, Given, nflags, Opts
  <1>3. UserFiles' = UserFiles
    BY <1>1 DEF UserFiles, Kept, infile, outfile, extendfile, ValueOf, Given, Opts
  <1>4. CommandChecked' = CommandChecked
    BY <1>1 DEF CommandChecked, Usage, nflags, inetdflag, tirpcflag, Last3, Number, infile, outfile,
           ValueOf, Given, Opts
  <1> QED
    BY <1>1, <1>2, <1>3, <1>4

LEMMA NextPass == \A n \in Nat : \A i \in 1 .. n : i # n => i + 1 \in 1 .. n
  OBVIOUS

LEMMA PassStays ==
    ASSUME UserFilesStay, [Next]_vars
    PROVE  pass' \in DOMAIN Passes
  <1>1. Len(Passes) \in Nat /\ DOMAIN Passes = 1 .. Len(Passes)
    BY PassesAre
  <1>2. pass \in 1 .. Len(Passes)
    BY <1>1 DEF UserFilesStay
  <1>3. pass' = pass \/ (pass' = pass + 1 /\ pass # Len(Passes))
    BY DEF vars, mainVars, Next, Main, crash, OpenInput, CppStops, ChildCrashes, NoChild, SkipInput, Reads,
           OpenOutput, Parse, ReadLayout, Rejected, TakeDefinition, Finish, EndlessAtLast, CannotWrite,
           Ends, Ended
  <1>4. pass' \in 1 .. Len(Passes)
    <2>1. CASE pass' = pass
      BY <1>2, <2>1
    <2>2. CASE pass' = pass + 1 /\ pass # Len(Passes)
      BY <1>1, <1>2, <2>2, NextPass
    <2> QED
      BY <1>3, <2>1, <2>2
  <1> QED
    BY <1>1, <1>4

LEMMA CheckedStays ==
    ASSUME UserFilesStay, [Next]_vars, pc' # "main", status' = "running"
    PROVE  CommandChecked'
  <1>1. CASE pc = "main" /\ Main
    <2>1. ~Usage /\ Checked(infile, IF nflags > 0 THEN outfile ELSE <<>>)
      BY <1>1 DEF Main, crash
    <2>2. ASSUME nflags > 0, outfile \in case.before PROVE FALSE
      <3>1. outfile \in UserFiles
        BY <2>2 DEF UserFiles, Kept
      <3>2. Exists(outfile)
        BY <3>1 DEF UserFilesStay, NothingOverwritten, UserFiles
      <3>3. outfile # <<>>
        BY <2>2, CasesAssumption DEF UserFilesStay
      <3> QED
        BY <2>1, <2>2, <3>2, <3>3 DEF Checked
    <2> QED
      BY <2>1, <2>2, CommandStays DEF CommandChecked
  <1>2. CASE pc # "main" /\ status = "running"
    BY <1>2, CommandStays DEF UserFilesStay
  <1>3. (pc = "main" /\ Main) \/ (pc # "main" /\ status = "running")
    BY DEF vars, mainVars, parseVars, Next, Main, crash, OpenInput, CppStops, ChildCrashes, NoChild, SkipInput, InPass,
           OpenOutput, Parse, Parsing, ReadLayout, Rejected, TakeDefinition, Finish, EndlessAtLast, CannotWrite,
           Ends, Ended
  <1> QED
    BY <1>1, <1>2, <1>3

(* What a step does to the outputs and to the files that stay.             *)
LEMMA FilesStay ==
    ASSUME OutputsKnown, UserFilesStay, CasesAssumption, Next, status = "running"
    PROVE  /\ Outputs' \cap UserFiles = {}
           /\ \A n \in UserFiles : n \in DOMAIN disk' /\ disk'[n].by = "user"
  <1>0. /\ Outputs \cap UserFiles = {} /\ outfiles \in Seq(Outputs)
        /\ \A n \in UserFiles : n \in DOMAIN disk /\ disk[n].by = "user"
        /\ <<>> \notin UserFiles
    BY CasesAssumption DEF OutputsKnown, UserFilesStay, NothingOverwritten, UserFiles, Exists
  <1>1. CASE SameFiles
    BY <1>0, <1>1 DEF SameFiles, Outputs
  <1>2. CASE Removed
    <2>1. Outputs' = Outputs
      BY <1>2 DEF Removed, Outputs
    <2>2. disk' = Without(Outputs)
      BY <1>2 DEF Removed
    <2>3. DOMAIN disk' = DOMAIN disk \ Outputs /\ \A n \in DOMAIN disk \ Outputs : disk'[n] = disk[n]
      BY <2>2, WithoutIs
    <2> QED
      BY <1>0, <2>1, <2>3
  <1>3. CASE PassClosed
    <2>1. Outputs' = Outputs
      BY <1>3 DEF PassClosed, Outputs
    <2>2. fout \notin UserFiles
      BY <1>0 DEF OutputsKnown
    <2>3. CASE disk' = Without({fout})
      <3>1. DOMAIN disk' = DOMAIN disk \ {fout} /\ \A n \in DOMAIN disk \ {fout} : disk'[n] = disk[n]
        BY <2>3, WithoutIs
      <3> QED
        BY <1>0, <2>1, <2>2, <3>1
    <2>4. CASE disk' = disk
      BY <1>0, <2>1, <2>4
    <2>5. ASSUME NEW t, disk' = Written(disk, fout, "rpcgen", t)
          PROVE  \A n \in UserFiles : n \in DOMAIN disk' /\ disk'[n].by = "user"
      <3>1. DOMAIN disk' = {fout} \cup DOMAIN disk /\ \A k \in DOMAIN disk \ {fout} : disk'[k] = disk[k]
        BY <2>5 DEF Written
      <3> QED
        BY <1>0, <2>2, <3>1
    <2> QED
      BY <1>0, <1>3, <2>1, <2>3, <2>4, <2>5 DEF PassClosed
  <1>4. ASSUME NEW n, pc = "create", MayWrite(n), n # <<>>
        PROVE  n \notin UserFiles
    <2>1. CommandChecked /\ pass \in DOMAIN Passes /\ case \in Cases /\ NothingOverwritten
      BY <1>4 DEF UserFilesStay
    <2>2. Harmless(This)
      BY <2>1, PassesAreHarmless
    <2> QED
      BY <1>4, <2>1, <2>2, WritesOther
  <1>5. ASSUME NEW n, pc = "create", MayWrite(n), NoRoom(n)
        PROVE  /\ Outputs' = Outputs
               /\ \A k \in UserFiles : k \in DOMAIN disk' /\ disk'[k].by = "user"
    <2> DEFINE rest == Without(Outputs)
    <2>1. n \notin UserFiles
      BY <1>4, <1>5 DEF NoRoom
    <2>2. DOMAIN rest = DOMAIN disk \ Outputs /\ \A k \in DOMAIN rest : rest[k] = disk[k]
      BY WithoutIs
    <2>3. DOMAIN disk' = {n} \cup DOMAIN rest /\ \A k \in DOMAIN rest \ {n} : disk'[k] = rest[k]
      BY <1>5 DEF NoRoom, Written
    <2>4. Outputs' = Outputs
      BY <1>5 DEF NoRoom, Outputs
    <2> HIDE DEF rest
    <2> QED
      BY <1>0, <2>1, <2>2, <2>3, <2>4
  <1>6. ASSUME NEW n, pc = "create", MayWrite(n), Opened(n)
        PROVE  /\ Outputs' \cap UserFiles = {}
               /\ \A k \in UserFiles : k \in DOMAIN disk' /\ disk'[k].by = "user"
    <2>1. n \notin UserFiles
      BY <1>4, <1>6 DEF Opened
    <2>2. Outputs' = Outputs \cup {n}
      BY <1>0, <1>6, OutputsGrow DEF Opened
    <2>3. DOMAIN disk' = {n} \cup DOMAIN disk /\ \A k \in DOMAIN disk \ {n} : disk'[k] = disk[k]
      BY <1>6 DEF Opened, Written
    <2> QED
      BY <1>0, <2>1, <2>2, <2>3
  <1>7. CASE NotOpened
    BY <1>0, <1>7 DEF NotOpened, Outputs
  <1> QED
    BY <1>0, <1>1, <1>2, <1>3, <1>5, <1>6, <1>7, EffectsOnDisk

LEMMA StayStep == OutputsKnown /\ UserFilesStay /\ [Next]_vars => UserFilesStay'
  <1> SUFFICES ASSUME OutputsKnown, UserFilesStay, [Next]_vars PROVE UserFilesStay'
    OBVIOUS
  <1>1. case' = case /\ Passes' = Passes /\ UserFiles' = UserFiles
    BY CommandStays
  <1>2. pass' \in DOMAIN Passes'
    BY <1>1, PassStays
  <1>3. pc' # "main" /\ status' = "running" => CommandChecked'
    BY CheckedStays
  <1>4. Outputs' \cap UserFiles' = {} /\ NothingOverwritten'
    <2>1. CASE UNCHANGED <<disk, outfiles>>
      <3>1. Outputs' = Outputs
        BY <2>1 DEF Outputs
      <3> QED
        BY <1>1, <2>1, <3>1 DEF UserFilesStay, NothingOverwritten, UserFiles, Exists
    <2>2. CASE Next /\ status = "running"
      <3>1. /\ Outputs' \cap UserFiles = {}
            /\ \A n \in UserFiles : n \in DOMAIN disk' /\ disk'[n].by = "user"
        BY <2>2, FilesStay, CasesAssumption
      <3> QED
        BY <1>1, <3>1 DEF NothingOverwritten, UserFiles, Exists
    <2>3. UNCHANGED <<disk, outfiles>> \/ (Next /\ status = "running")
      BY DEF vars, mainVars, Next, Main, OpenInput, CppStops, ChildCrashes, NoChild, SkipInput,
            InPass, OpenOutput, Parse, ReadLayout, Rejected, TakeDefinition, Finish, EndlessAtLast,
            CannotWrite, Ends, Ended
    <2> QED
      BY <2>1, <2>2, <2>3
  <1>5. case' \in Cases
    BY <1>1 DEF UserFilesStay
  <1> QED
    BY <1>2, <1>3, <1>4, <1>5 DEF UserFilesStay

---------------------------------------------------------------------------
(* The theorems.                                                           *)

(***************************************************************************)
(* The inductive invariant. That crash() leaves nothing needs that it knows*)
(* every file there is of rpcgen's (OutputsKnown); that it removes and     *)
(* overwrites nothing of the user's needs that no output is a file that    *)
(* stays, and for that, that the command was let through by parseargs and  *)
(* checkfiles (UserFilesStay).                                             *)
(***************************************************************************)
IInv == OutputsKnown /\ UserFilesStay

(* Every state of rpcgen satisfies the invariant, whatever the command, the*)
(* document, the files there were and the calls that fail.                 *)
THEOREM RpcgenInvariance == Spec => []IInv
<1>1. Init => IInv
  BY KnownInit, StayInit DEF IInv
<1>2. IInv /\ [Next]_vars => IInv'
  BY KnownStep, StayStep DEF IInv
<1>3. QED
  BY <1>1, <1>2, PTL DEF Spec

(* After crash() no file of rpcgen's is there, but the one that was opened *)
(* when record_open had no room for its name.                              *)
THEOREM CrashCleansUp == Spec => []CrashLeavesNothing
<1>1. IInv => CrashLeavesNothing
  BY KnownLeavesNothing DEF IInv
<1>2. QED
  BY <1>1, RpcgenInvariance, PTL

(* The input, an output the user has named, a template or a Makefile that  *)
(* was there is never removed and never written to.                        *)
THEOREM UserFilesAreSafe == Spec => []NothingOverwritten
<1>1. IInv => NothingOverwritten
  BY DEF IInv, UserFilesStay
<1>2. QED
  BY <1>1, RpcgenInvariance, PTL
=============================================================================
