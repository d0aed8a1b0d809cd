-------------------------------- MODULE Pretty --------------------------------
(***************************************************************************)
(* The pretty form of buffers that grow piece by piece: what is formatted  *)
(* and parsed again is what was there.                                     *)
(***************************************************************************)
EXTENDS Documents, PrettyAlign

\* Where the byte at each offset is: in a text, escaped there, or outside.
Places(bytes) ==
  LET place[p \in 0 .. Len(bytes)] ==
        LET before == place[p - 1]
            b == At(bytes, p - 1)
        IN  IF p = 0 THEN "data"
            ELSE CASE before = "data" -> IF b = STX THEN "text" ELSE "data"
                   [] before = "text" -> CASE b = DLE -> "escaped" [] b = ETX -> "data"
                                           [] OTHER -> "text"
                   [] OTHER -> "text"
  IN  place

\* Layout at p that touches a code or an end of the buffer.
TouchesCode(bytes, p) ==
  LET data(q) == ~IsLayout(At(bytes, q))
      plain(q) == IsPlain(At(bytes, q)) /\ data(q)
      nearest(side) == {q \in side : data(q)}
      before == nearest(0 .. (p - 1))
      behind == nearest((p + 1) .. (Len(bytes) - 1))
  IN  ~(before # {} /\ behind # {} /\ plain(Max(before)) /\ plain(Min(behind)))

\* A buffer without the layout that means nothing and without its raw region.
SqueezedAt(bytes, place) ==
  LET ems == {p \in 0 .. (Len(bytes) - 1) : At(bytes, p) = EM /\ place[p] = "data"}
      end == IF ems = {} THEN Len(bytes) ELSE Min(ems) + 1
      kept == {p \in 0 .. (end - 1) :
                 ~(place[p] = "data" /\ IsLayout(At(bytes, p)) /\ TouchesCode(bytes, p))}
      order == SelectSeq([p \in 1 .. Len(bytes) |-> p - 1], LAMBDA p : p \in kept)
  IN  [i \in DOMAIN order |-> At(bytes, order[i])]

Squeezed(bytes) == SqueezedAt(bytes, Places(bytes))

HasGlyph(bytes) == \E i \in DOMAIN bytes : IsGlyph(bytes[i])

(***************************************************************************)
(* "format and parse are inverses on well-formed input" (pretty.rs:1-3):   *)
(* what is well-formed has a pretty form unless a picture is in its data,  *)
(* and its parse is the buffer without the layout between its codes.       *)
(***************************************************************************)
PrettyIsInverse ==
  WellFormed(buf) =>
    LET Right(chars, want) ==
          IF HasGlyph(want) THEN chars = NotFormatted
          ELSE chars # NotFormatted /\ PrettyParse(chars) = want
    IN  Right(FormatCompact(buf), Squeezed(buf))

\* A note behind a header row is a part of its last name, layout and all.
NotedHeader(bytes) ==
  \E p, q \in 0 .. (Len(bytes) - 1) :
    p < q /\ HeaderRowAt(bytes, p, Len(bytes)) /\ At(bytes, q) = BEL

\* What documents say: their keys with their values, their bodies.
DocumentsSaid(docs) ==
  LET Pairs(pairs) == [i \in DOMAIN pairs |-> <<pairs[i][1], ReadUnit(pairs[i][2])>>]
  IN  IF docs = NoContainer THEN docs
      ELSE [i \in DOMAIN docs |-> <<Pairs(docs[i].heading), docs[i].body>>]

(***************************************************************************)
(* The layout that a pretty form adds or drops means nothing: with and     *)
(* without it a buffer is well-formed and says the same.                   *)
(***************************************************************************)
LayoutMeansNothing ==
  ~GrammarsDiffer(buf) /\ ~NotedHeader(buf) =>
    \A says \in {[bytes \in {buf, Squeezed(buf)} |->
                    IF WellFormed(bytes) THEN <<DocumentsSaid(Container(bytes))>> ELSE << >>]} :
      says[buf] # << >> => \A bytes \in DOMAIN says : says[bytes] = says[buf]

\* The bytes that the characters show.
Shown(chars) == [i \in DOMAIN chars |-> IF IsGlyph(chars[i]) THEN chars[i] - Pictures ELSE chars[i]]

\* What may stand on a line before the code of its element.  A header row's SOH
\* is on its line; the BEL of a dead file or group has a line of its own, and
\* that of a dead header row behind a heading is on the heading's.
Leads == {Glyph(BEL), Glyph(SOH), Glyph(GS), SP}

ElementsLead(chars, place) ==
  \A i \in DOMAIN chars :
    chars[i] \in {Glyph(c) : c \in {FS, GS, RS, SYN, EOT, EM}} /\ place[i - 1] = "data"
    => \E j \in 0 .. (i - 1) :
         /\ j > 0 => chars[j] = LF /\ place[j - 1] = "data"
         /\ j > 1 => chars[j - 1] # Glyph(SOH)
         /\ \A k \in (j + 1) .. (i - 1) : chars[k] \in Leads

(***************************************************************************)
(* "One element per line" (pretty.rs:10), levels closed at the end: each   *)
(* file, group, record, header row, document and EOT begins its line.  (A  *)
(* level in a heading is written inline.)                                  *)
(***************************************************************************)
OneElementPerLine ==
  WellFormed(buf) /\ ~({SYN, DLE} \subseteq Range(buf)) =>
    LET Lead(w) == w.pos # Err => /\ w.depth = 0 /\ w.stack = << >>
                                  /\ ElementsLead(w.out, Places(Shown(w.out)))
    IN  Lead(WriteFrom(buf, NewWriter))

\* The aligned forms parse to what the compact one parses to.
AlignedParsesIn(bytes) ==
  WellFormed(bytes) =>
    LET Parses(compact) ==
          compact = NotFormatted \/
          \A mode \in {"aligned", "spaced"} : PrettyParse(Align(compact, mode)) = PrettyParse(compact)
    IN  Parses(FormatCompact(bytes))

\* A line of a text that begins like an element, or a wide space.
AlignLosesIt(bytes) ==
  \/ Wide \in Range(bytes)
  \/ \E p \in 0 .. (Len(bytes) - 1) :
       /\ At(bytes, p) = LF /\ Places(bytes)[p] = "text"
       /\ CodeAt(bytes, Layout(bytes, p + 1, Len(bytes)), Len(bytes), PrefixCodes)

(***************************************************************************)
(* The columns of an aligned or spaced form are layout: its parse is that  *)
(* of the compact one (tests/converters.rs:205, "must round-trip").        *)
(***************************************************************************)
AlignedParses == ~AlignLosesIt(buf) => AlignedParsesIn(buf)

(***************************************************************************)
(* The same of every text and every character: refuted by the text         *)
(* LF RS SP a, whose second line is taken for a row.                       *)
(***************************************************************************)
EveryAlignedParses == AlignedParsesIn(buf)

=============================================================================
