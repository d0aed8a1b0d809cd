--------------------------- MODULE DocumentReader ---------------------------
(***************************************************************************)
(* Document and Container (src/src/document.rs): a heading, a body and an  *)
(* EOT, several of them, and the raw tail behind an EM.  The warnings are  *)
(* left out.                                                               *)
(***************************************************************************)
EXTENDS BodyIndex

NoDocument == [stop |-> Err]

(***************************************************************************)
(* parse_heading: keys with their raw units, notes and dead keys, up to    *)
(* the first code of the body.                                             *)
(***************************************************************************)
NoHeading == [pos |-> Err]

\* A heading takes any value but a reference.
HeadingTakes(raw) ==
  CASE StartsWith(raw, ENQ) -> FALSE
    [] StartsWith(raw, DLE) -> TRUE
    [] OTHER -> Value(raw) # NoValue

\* The key at ks and its value, which end at us and at ve.
HeadingKey(buf, ks, us, ve) ==
  LET raw == Trim(Slice(buf, us + 1, ve))
  IN  IF ve = Err \/ ~HeadingTakes(raw) THEN NoHeading
      ELSE [pos |-> ve, pair |-> <<Trim(Slice(buf, ks, us)), raw>>]

RECURSIVE Heading(_, _, _)
Heading(buf, from, pairs) ==
  LET len  == Len(buf)
      pos  == Layout(buf, from, len)
      next == Layout(buf, pos + 1, len)
      us   == Plain(buf, next, len)
      Behind(key) == IF key.pos = Err THEN NoHeading
                     ELSE Heading(buf, key.pos, Append(pairs, key.pair))
      Past(note) == IF note = Err THEN NoHeading ELSE Heading(buf, note, pairs)
  IN  CASE CodeAt(buf, pos, len, {SOH}) /\ ~HeaderRowAt(buf, pos, len) ->
             IF CodeAt(buf, us, len, {US})
             THEN Behind(HeadingKey(buf, next, us, Unit(buf, us + 1, len))) ELSE NoHeading
        [] CodeAt(buf, pos, len, {BEL})
             /\ (next < len => \/ IsPlain(At(buf, next))
                               \/ At(buf, next) = STX
                               \/ At(buf, next) = SOH /\ ~HeaderRowAt(buf, next, len)) ->
             Past(Comment(buf, pos, len))
        [] pos < len /\ IsPlain(At(buf, pos)) -> NoHeading
        [] OTHER -> [pos |-> pos, pairs |-> pairs]

\* Wrong: a SYN is taken for a byte of the body.
BodyStops_notSyn == {EOT, EM}

\* The codes that end a body.
BodyStops == {EOT, SYN, EM}

\* find_body_end
BodyEnd(buf, start) ==
  LET len == Len(buf)
      from[p \in 0 .. len] ==
        LET end == CASE At(buf, p) = STX -> Text(buf, p, len)
                     [] At(buf, p) = DLE -> Level(buf, p, len)
                     [] At(buf, p) = CAN -> Err
                     [] OTHER -> p + 1
        IN  IF p = len \/ At(buf, p) \in BodyStops THEN p
            ELSE IF end = Err THEN Err ELSE from[end]
  IN  from[start]

\* Document::at
DocumentOf(buf, heading, end, body) ==
  LET stop == Layout(buf, end, Len(buf))
  IN  IF end = Err \/ body = Unreadable THEN NoDocument
      ELSE [heading |-> heading.pairs, body |-> body,
            stop |-> IF CodeAt(buf, stop, Len(buf), {EOT}) THEN stop + 1 ELSE stop]

BodyFrom(buf, heading, end) == DocumentOf(buf, heading, end, Read(buf, heading.pos, end))

BodyBehind(buf, heading) ==
  IF heading.pos = Err THEN NoDocument
  ELSE BodyFrom(buf, heading, BodyEnd(buf, heading.pos))

Document(buf, start) ==
  LET first == Layout(buf, start, Len(buf))
  IN  BodyBehind(buf, IF CodeAt(buf, first, Len(buf), {SYN}) THEN Heading(buf, first + 1, << >>)
                      ELSE [pos |-> first, pairs |-> << >>])

\* groups: those of all files, in order.
GroupsOf(doc) == FlattenSeq([i \in DOMAIN doc.body[2] |-> doc.body[2][i].groups])

\* Container::new: the documents, or NoContainer.
NoContainer == <<NoDocument>>

RECURSIVE DocumentsFrom(_, _, _)
DocumentsFrom(buf, pos, docs) ==
  LET Behind(doc, next) ==
        IF doc.stop = Err \/ (next < Len(buf) /\ At(buf, next) \notin {SYN, EM})
        THEN NoContainer ELSE DocumentsFrom(buf, next, Append(docs, doc))
      Go(doc) == Behind(doc, Layout(buf, doc.stop, Len(buf)))
  IN  IF pos = Len(buf) \/ At(buf, pos) = EM THEN docs ELSE Go(Document(buf, pos))

Container(buf) == DocumentsFrom(buf, Layout(buf, 0, Len(buf)), << >>)

=============================================================================
