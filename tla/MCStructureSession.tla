-------------------------- MODULE MCStructureSession --------------------------
EXTENDS StructureSession

\* A FETCH, well and badly numbered; a status of three words whose response code
\* is not closed in any of its prefixes; a continuation.
MCLines ==
  {<<"*", " ", "1", " ", "FETCH", " ">>, <<"*", " ", "0", " ", "FETCH", " ">>,
   <<"*", " ", "OK", " ", "[", " ">>, <<"+">>}

MCFetchBytes == {" ", "(", ")", "LBRACE", "RBRACE", "QUOTE", "BACKSLASH", "1",
                 "UID", "FLAGS", "BODYSTRUCTURE", "CR", "LF"}
===============================================================================
