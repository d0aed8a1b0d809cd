--------------------------- MODULE MCBuilderCalls ---------------------------
(***************************************************************************)
(* Callers of the builder: plain and escaped values, an empty one, one     *)
(* that starts with a space.                                               *)
(***************************************************************************)
EXTENDS BuilderCalls

KeyName  == <<115>>
DiffName == <<100>>

MCScalars == {<< >>, <<ETX>>}
MCNames   == {<<103>>}
MCKeys    == {<<107>>}
MCHeaders == {<<<<104>>, <<105>>>>}
MCRows    == {<< >>, <<<< >>, <<SP, 97>>>>}
MCMaps    == {<< >>, <<<<<<107>>, <<97>>>>, <<<<108>>, << >>>>>>}
MCPaths   == {<<<<103>>>>, <<<<102>>, <<103>>>>}

=============================================================================
