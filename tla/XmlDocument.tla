----------------------------- MODULE XmlDocument -----------------------------
(***************************************************************************)
(* What an XML stream promises to the program that reads it: the document  *)
(* is a tree of named elements with trimmed text; in a stream of messages  *)
(* every element below the root is a message, delivered when its end tag   *)
(* arrives, in order, once, and kept no longer.  How the parser cuts the   *)
(* character data up, and how the tree is stored, does not show.           *)
(***************************************************************************)
EXTENDS Sequences, Naturals

CONSTANTS Names,        \* names of elements
          Chars,        \* characters of the text
          Space,        \* the ones isspace() holds of
          MaxPiece      \* bound: characters that arrive at once

VARIABLES streaming,    \* a callback takes the messages
          frames,       \* the open elements, outermost first, with their text so far
          done,         \* the finished document, or nothing yet
          msgs          \* the messages delivered

docVars == <<streaming, frames, done, msgs>>

Pieces == UNION { [1..n -> Chars] : n \in 1..MaxPiece }

Element(name, text, kids) == [name |-> name, text |-> text, kids |-> kids]

Blank(s) == \A i \in 1..Len(s) : s[i] \in Space

\* White space at the two ends is no part of a value.
Trim(s) ==
  LET black == { i \in 1..Len(s) : s[i] \notin Space }
  IN IF black = {} THEN << >>
     ELSE SubSeq(s, CHOOSE i \in black : \A k \in black : i <= k,
                    CHOOSE j \in black : \A k \in black : k <= j)

Init == streaming \in BOOLEAN /\ frames = << >> /\ done = << >> /\ msgs = << >>

Top == frames[Len(frames)]
Outer == SubSeq(frames, 1, Len(frames) - 1)

StartTag(name) ==
  /\ done = << >>
  /\ frames' = Append(frames, Element(name, << >>, << >>))
  /\ UNCHANGED <<streaming, done, msgs>>

\* Text directly in the root element is ignored.
Text(s) ==
  /\ Len(frames) > 0
  /\ frames' = IF Len(frames) = 1 THEN frames
               ELSE Append(Outer, [Top EXCEPT !.text = @ \o s])
  /\ UNCHANGED <<streaming, done, msgs>>

Finished == [Top EXCEPT !.text = Trim(@)]

EndTag ==
  /\ Len(frames) > 0
  /\ frames' = IF Len(frames) = 1 \/ (streaming /\ Len(frames) = 2) THEN Outer
               ELSE [Outer EXCEPT ![Len(Outer)].kids = Append(@, Finished)]
  /\ done' = IF Len(frames) = 1 THEN <<Finished>> ELSE done
  /\ msgs' = IF streaming /\ Len(frames) = 2 THEN Append(msgs, Finished) ELSE msgs
  /\ UNCHANGED streaming

\* The program closes the stream, whatever has arrived.
Close == frames' = << >> /\ UNCHANGED <<streaming, done, msgs>>

Next == \/ \E name \in Names : StartTag(name)
        \/ \E s \in Pieces : Text(s)
        \/ EndTag
        \/ Close

Spec == Init /\ [][Next]_docVars
=============================================================================
