----------------------------- MODULE MCSession -----------------------------
(***************************************************************************)
(* Instances of Session for TLC: the lines the user types, with names of   *)
(* two letters.                                                            *)
(***************************************************************************)
EXTENDS Session

CONSTANTS a, b

FullNames == {<<a, a>>, <<a, b>>, <<b, a>>}

\* A file of one sector on the disk.
OneFile == [f \in {<<a, a>>} |-> <<b, NUL>>]

\* Full names, corrected while they are typed; one line of text.
PlainLines ==
  [line |-> {<<w>> \o f : w \in {"type", "delete"}, f \in FullNames}
            \cup {<<"copy", a, a, Blank, b, a>>,
                  <<"copy", b, a, Blank, a, Back, a, b>>,
                  <<Back, "delete", b, b, Back, Back, a, b>>, <<"texted">>, <<b>>, <<>>},
   filename |-> {<<a, b>>, <<b, b, Back, a>>},
   file |-> {<<a, CtrlD>>, <<b, a, Back, b, CtrlD>>, <<CtrlD>>}]

\* Names of three cells, two of them shorter.
ShortNames == {<<a, NUL, NUL>>, <<a, b, NUL>>, <<b, a, a>>}

ShortFile == [f \in {<<a, NUL, NUL>>} |-> <<b, NUL>>]

ShortLines ==
  [PlainLines EXCEPT !.line = {<<"type", a>>, <<"type", b, a, a>>, <<"delete", a>>}]

\* A first name that does not fill its cells.
CopyLines ==
  [PlainLines EXCEPT !.line = @ \cup {<<"copy", a, Blank, b, a>>}]

\* A file that fills its sector, and one longer than it.
FullFile == [f \in FullNames |->
  IF f = <<a, a>> THEN <<b, b>> ELSE <<a, a, a, NUL>>]

\* A line longer than the buffer.
LongLines == [PlainLines EXCEPT
  !.line = @ \cup {<<"type", a, a, Blank, a, a, a, a>>}]

\* Two lines of text.
TextLines == [PlainLines EXCEPT !.file = {<<a>>, <<b, CtrlD>>}]
=============================================================================
