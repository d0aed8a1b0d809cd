----------------------------- MODULE MCDiffCalls -----------------------------
(***************************************************************************)
(* DiffCalls with calls and pieces that meet every branch of parse.        *)
(***************************************************************************)
EXTENDS DiffCalls

KeyName  == <<115>>
DiffName == <<100>>

MCPaths == {<<102>>, <<103>>}
Anchor(v) == [old |-> v, new |-> << >>]
Sub(v, w) == [old |-> v, new |-> <<w>>]
MCPatterns == {<< >>, <<Anchor(<<SP>>)>>, <<Sub(<< >>, <<97>>), Anchor(<<ETX>>)>>}
MCScalars == {<< >>, <<97>>, <<SUB>>}
MCContexts == {<< >>, <<97>>}

\* Every code of a diff, a value, a line feed, a text with an escape.
MCPieces == {<<FS, 102>>, <<GS>>, <<RS>>, <<SUB>>, <<US>>, <<BEL>>, <<97>>, <<LF>>,
             <<GS, 97>>, <<ETB>>, <<EOT>>, <<STX, DLE, ETX, ETX>>, <<SOH>>}

=============================================================================
