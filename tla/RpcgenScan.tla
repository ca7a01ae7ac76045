---------------------------- MODULE RpcgenScan ----------------------------
(***************************************************************************)
(* rpc_scan.c: the tokens of rpcgen's input, with one token of push-back.  *)
(*                                                                         *)
(* The input is what cpp delivers in one pass, a sequence of pieces. A     *)
(* piece is a token, as get_token would return it, or layout: the start of *)
(* a line ("nl"), a line of cpp or a directive (a line that begins with %),*)
(* the marks of a comment, a character no token begins with. `at' is the   *)
(* number of pieces get_token has gone past, which stands for `where'.     *)
(* Lines are shorter than MAXLINESIZE.                                     *)
(***************************************************************************)
EXTENDS Naturals, Sequences

VARIABLES
    file,        \* what is in the pipe from cpp
    at,          \* pieces read
    commenting,  \* get_token is inside a comment
    pushed,      \* is a token pushed
    lasttok,     \* last token, if pushed
    tok,         \* the token the caller of get_token was given
    read,        \* history: the tokens taken since the definition began
    text         \* what this pass has printed into fout after its header

scanVars == <<file, at, commenting, pushed, lasttok, tok, read, text>>

(* Keywords carry their own spelling in tok.str; the code leaves tok.str   *)
(* alone for punctuation, here the empty string.                           *)
Kw(k)    == [k |-> k, v |-> k]
Punct(k) == [k |-> k, v |-> ""]
Id(s)    == [k |-> "ident", v |-> s]
Layout(k, v) == [k |-> k, v |-> v]
EOF      == Punct("EOF")

(* symbols[]: TOK_CONST is listed with an empty string, which no word      *)
(* matches, so that `const' is scanned as an identifier.                   *)
Keywords == {"union", "switch", "case", "default", "struct", "typedef", "enum",
             "opaque", "bool", "void", "char", "int", "unsigned", "short",
             "long", "hyper", "float", "double", "string", "program", "version"}
Punctuation == {":", ";", ",", "=", "*", "[", "]", "{", "}", "(", ")", "<", ">"}
LayoutKinds == {"nl", "cpp", "directive", "open", "close", "illegal"}
IsToken(p) == p.k \notin LayoutKinds

Piece == IF at < Len(file) THEN file[at + 1] ELSE EOF
AtEnd == at = Len(file)

---------------------------------------------------------------------------
(* get_token, once it has gone past the layout in front of the token. A    *)
(* token keeps the str of the caller's last one when it has none.          *)
Ready == pushed \/ AtEnd \/ (at < Len(file) /\ ~commenting /\ IsToken(Piece))
Upcoming ==
    IF pushed THEN lasttok
    ELSE [k |-> Piece.k, v |-> IF Piece.v = "" THEN tok.v ELSE Piece.v]

(* back: the caller puts the token back (unget_token).                     *)
GetToken(back) ==
    /\ Ready
    /\ tok' = Upcoming
    /\ at' = IF pushed \/ AtEnd THEN at ELSE at + 1
    /\ read' = IF pushed THEN read ELSE Append(read, Piece)
    /\ pushed' = back
    /\ lasttok' = IF back THEN Upcoming ELSE lasttok
    /\ commenting' = FALSE
    /\ UNCHANGED <<file, text>>

(* The layout that get_token goes past, with its effects. Inside a comment *)
(* nothing but its end counts; cpp's and directive lines are ordinary text.*)
Skip ==
    /\ ~pushed
    /\ at < Len(file)
    /\ at' = at + 1
    /\ UNCHANGED <<file, pushed, lasttok, tok, read>>

SkipComment ==
    /\ commenting
    /\ Skip
    /\ commenting' = (Piece.k # "close")
    /\ UNCHANGED text
StartComment ==
    /\ ~commenting /\ Piece.k = "open"
    /\ Skip
    /\ commenting' = TRUE
    /\ UNCHANGED text
NextLine ==
    /\ ~commenting /\ Piece.k = "nl"
    /\ Skip
    /\ UNCHANGED <<commenting, text>>
(* docppline takes file name and line number for messages; "bad" is a line *)
(* without a file name, "preprocessor error".                              *)
CppLine ==
    /\ ~commenting /\ Piece = Layout("cpp", "line")
    /\ Skip
    /\ UNCHANGED <<commenting, text>>
PrintDirective ==
    /\ ~commenting /\ Piece.k = "directive"
    /\ Skip
    /\ text' = Append(text, [of |-> <<"%", Piece.v>>, declares |-> {}, uses |-> {}])
    /\ UNCHANGED commenting
(* What get_token refuses: error() is called, which never returns.         *)
Unscannable ==
    /\ ~pushed /\ ~commenting /\ at < Len(file)
    /\ Piece = Layout("cpp", "bad") \/ Piece.k \in {"illegal", "close"}

SkipLayout == SkipComment \/ StartComment \/ NextLine \/ CppLine \/ PrintDirective

===========================================================================
