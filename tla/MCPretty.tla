------------------------------- MODULE MCPretty -------------------------------
(***************************************************************************)
(* Pretty over every buffer of up to MaxPieces pieces of an alphabet.      *)
(***************************************************************************)
EXTENDS Pretty

KeyName  == <<115>>
DiffName == <<100>>
TwoSpaces == <<SP, SP>>

\* Bodies: every code of one, layout, a text with an escape.
BodyPieces == {<<RS>>, <<US>>, <<SOH>>, <<BEL>>, <<DLE>>, <<CAN>>, <<GS>>, <<FS>>,
               <<97>>, <<SP>>, <<LF>>, <<ENQ>>, <<STX, DLE, ETX, ETX>>, <<ETB>>}
\* Framing.
FramePieces == {<<SYN>>, <<EOT>>, <<EM>>, <<ETB>>, <<BEL>>, <<SOH>>, <<US>>, <<RS>>,
                <<97>>, <<LF>>, <<SUB>>, <<SYN, SOH>> \o KeyName \o <<US>> \o DiffName}
\* Tables: rows, keyed records, a header row, texts with an escape and with lines,
\* a picture.
TablePieces == {<<RS>>, <<US>>, <<97>>, <<BEL>>, <<GS>>, <<DLE>>, <<CAN>>, <<ETB>>,
                <<RS, 97, US>>, <<RS, SOH, 97, US, 98>>, <<SOH, RS, 97, 98, US, 97>>,
                <<SOH, 107, US>>, <<STX, DLE, ETX, US, SP, ETX>>,
                <<STX, SP, LF, SP, 97, SP, ETX>>, <<Glyph(3)>>}

Every == {BodyPieces, FramePieces, TablePieces}

\* A text with a line that looks like a row.
Broken == {{<<RS>>, <<US>>, <<STX, LF, RS, SP, 97, ETX>>, <<GS>>, <<97>>}}
=============================================================================
