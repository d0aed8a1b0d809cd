------------------------------- MODULE C0Bytes -------------------------------
(***************************************************************************)
(* The byte alphabet of C0DATA (src/src/lib.rs).  A byte is its number, as *)
(* in the code: a control code is below 32, everything from 32 up is       *)
(* plain.  Offsets are those of the code, counted from 0; a buffer is a    *)
(* sequence, so the byte at offset p is buf[p + 1].                        *)
(***************************************************************************)
EXTENDS Integers, Sequences

Byte == 0 .. 255

SOH ==  1
STX ==  2
ETX ==  3
EOT ==  4
ENQ ==  5
BEL ==  7
HT  ==  9
LF  == 10
CR  == 13
DLE == 16
SYN == 22
ETB == 23
CAN == 24
EM  == 25
SUB == 26
FS  == 28
GS  == 29
RS  == 30
US  == 31
SP  == 32

IsLayout(b) == b \in {SP, HT, LF, CR}

IsPlain(b) == b >= 32

\* The seven codes that take a DLE inside a text.
IsTextEscaped(b) == b \in {STX, ETX, DLE, ETB, EOT, SYN, EM}

\* The codes that frame documents and blocks; none may stand in an open text
\* or level.
IsFraming(b) == b \in {ETB, EOT, SYN, EM}

At(buf, p) == buf[p + 1]

\* The slice buf[s..e] of the code: offsets s to e - 1.
Slice(buf, s, e) == SubSeq(buf, s + 1, e)

=============================================================================
