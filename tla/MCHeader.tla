------------------------------- MODULE MCHeader -------------------------------
(* Bodies that a mode tells apart or does not: content, white space inside *)
(* and at the end of a line, lines of white space and empty lines at the   *)
(* end, the empty body; and one of each kind that is not plain text.       *)
EXTENDS Header

MCBodies ==
  {<< >>, << << >> >>, <<<<"SP">>>>, <<<<"a">>>>, <<<<"b">>>>, <<<<"a", "SP">>>>,
   <<<<"a", "SP", "SP", "b">>>>, <<<<"a", "SP", "b">>>>, <<<<"a">>, << >>>>,
   <<<<"a">>, <<"SP">>, << >>>>, <<<<"a", "NBSP">>>>, <<<<"a", "x80">>>>}
==============================================================================
