--------------------------- MODULE MCStreamReader ---------------------------
(***************************************************************************)
(* StreamReader over every buffer of up to MaxLen bytes of an alphabet.    *)
(***************************************************************************)
EXTENDS StreamReader

CONSTANT MaxLen

Words(alphabet) == UNION {[1 .. n -> alphabet] : n \in 0 .. MaxLen}

\* Every code the loop or scan::text/level treats differently, a code it does
\* not (RS) and a plain byte.
FramingAlphabet == {STX, ETX, DLE, CAN, ETB, SYN, EOT, RS, 97}

\* What torn_tail and payload_end tell apart.
TailAlphabet == {ETB, SP, LF, 97, BEL, EOT, EM, STX, ETX, RS}

ShortBuffers == Words(FramingAlphabet) \cup Words(TailAlphabet)

\* Framing that cuts a text.
CutBuffers == Words({STX, EOT, RS, ETB})

Concatenations(pieces, n) ==
  {FlattenSeq(s) : s \in UNION {[1 .. k -> pieces] : k \in 1 .. n}}

\* Committed records with a payload on the line below the ETB or a space behind
\* it, which the grammar allows.
LayoutLogs == Concatenations({<<RS, 97, ETB>>, <<RS, 97, ETB, LF, 98>>, <<RS, 97, ETB, SP>>}, 3)

ClaimBuffers == CutBuffers \cup LayoutLogs

=============================================================================
