----------------------------- MODULE MCConverters -----------------------------
(***************************************************************************)
(* Short CSV texts of the characters that parse_csv tells apart, and trees *)
(* of two strings, of which one needs a text, an empty string, an empty    *)
(* array and an empty object.                                              *)
(***************************************************************************)
EXTENDS Converters

ShapeName == <<115>>
DiffName  == <<100>>
GroupName == <<103>>

CsvChars == {97, SP, LF, CR, Quote, Comma}
KeyNames == {<< >>, <<107>>}
SmallTrees == {EmptyStr, <<"str", <<ETX>>>>, <<"array", << >>>>, <<"object", << >>>>}
AllLeaves  == SmallTrees \cup {<<"str", <<97>>>>}

=============================================================================
