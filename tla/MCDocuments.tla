---------------------------- MODULE MCDocuments ----------------------------
(***************************************************************************)
(* Documents over the pieces that the walks tell apart: those of a body,   *)
(* those of the frames around bodies, and the bytes of texts.              *)
(***************************************************************************)
EXTENDS Documents

KeyName  == <<115>>
DiffName == <<100>>

\* A text that could not be plain, a heading that says diff.
EscapedText == <<STX, DLE, ETX, ETX>>
DiffHeading == <<SYN, SOH>> \o KeyName \o <<US>> \o DiffName

\* A record with a SYN in a text, and a level: a walk may not lose count of them.
HiddenSyn   == <<RS, STX, DLE, SYN, ETX, US, DLE, RS, CAN>>

BodyPieces  == {<<RS>>, <<US>>, <<SOH>>, <<BEL>>, <<DLE>>, <<CAN>>, <<GS>>, <<FS>>,
                <<97>>, <<SP>>, <<LF>>, <<ENQ>>, EscapedText}
FramePieces == {<<SYN>>, <<EOT>>, <<EM>>, <<ETB>>, <<BEL>>, <<SOH>>, <<US>>, <<RS>>,
                <<97>>, <<LF>>, <<SUB>>, DiffHeading, HiddenSyn}

TextPieces  == {<<RS>>, <<US>>, <<BEL>>, <<ENQ>>, <<STX>>, <<ETX>>, <<DLE>>, <<97>>, <<SP>>}

Every     == {BodyPieces, FramePieces, TextPieces}
OnlyBody  == {BodyPieces}

=============================================================================
