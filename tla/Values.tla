------------------------------- MODULE Values -------------------------------
(***************************************************************************)
(* Values and names (src/src/lib.rs): how a value is spelled and what a    *)
(* raw unit stands for.  A raw slice is a sequence of bytes of its own.    *)
(***************************************************************************)
EXTENDS Scan, SequencesExt

\* What is no value: the code's Err(..) where it returns bytes.
NoValue == <<Err>>

\* Wrong: the layout at the end stays.
Trim_front(raw) ==
  LET data == {i \in DOMAIN raw : ~IsLayout(raw[i])}
      first == CHOOSE i \in data : \A j \in data : i <= j
  IN  IF data = {} THEN << >> ELSE SubSeq(raw, first, Len(raw))

\* The layout at both ends goes.
Trim(raw) ==
  LET data == {i \in DOMAIN raw : ~IsLayout(raw[i])}
      first == CHOOSE i \in data : \A j \in data : i <= j
      last  == CHOOSE i \in data : \A j \in data : j <= i
  IN  IF data = {} THEN << >> ELSE SubSeq(raw, first, last)

StartsWith(raw, code) == Trim(raw) # << >> /\ Head(Trim(raw)) = code

\* The inside of a text without its escapes; a lone DLE at the end is dropped.
DecodeText(inside) ==
  LET len == Len(inside)
      from[i \in 1 .. len + 2] ==
        IF i > len THEN << >>
        ELSE IF inside[i] # DLE THEN <<inside[i]>> \o from[i + 1]
        ELSE IF i = len THEN << >>
        ELSE <<inside[i + 1]>> \o from[i + 2]
  IN  from[1]

\* The value of the text from p to past its ETX.
TextValue(buf, p, end) == DecodeText(Slice(buf, p + 1, end - 1))

IsPlainValue(v) ==
  v # << >> => /\ ~IsLayout(Head(v))
               /\ ~IsLayout(Last(v))
               /\ \A i \in DOMAIN v : IsPlain(v[i])

IsName(v) == IsPlainValue(v)

\* Wrong: a space at the edge is taken for data.
WriteValue_edges(v) ==
  IF \A i \in DOMAIN v : IsPlain(v[i]) THEN v
  ELSE <<STX>> \o FlattenSeq([i \in DOMAIN v |->
         IF IsTextEscaped(v[i]) THEN <<DLE, v[i]>> ELSE <<v[i]>>]) \o <<ETX>>

\* write_value: the one spelling of a value.
WriteValue(v) ==
  IF IsPlainValue(v) THEN v
  ELSE <<STX>> \o FlattenSeq([i \in DOMAIN v |->
         IF IsTextEscaped(v[i]) THEN <<DLE, v[i]>> ELSE <<v[i]>>]) \o <<ETX>>

\* only_notes_after: notes and dead levels, each with its layout, to the end.
OnlyNotesAfter(t, pos) ==
  LET len == Len(t)
      notes[p \in 0 .. len] ==
        \/ p = len
        \/ /\ At(t, p) = BEL
           /\ \E e \in {Comment(t, p, len)} \ {Err} : notes[Layout(t, e, len)]
  IN  notes[Layout(t, pos, len)]

\* value: the logical value of a raw unit.
TrimmedValue(t) ==
  LET len   == Len(t)
      end   == Text(t, 0, len)
      plain == Plain(t, 0, len)
  IN  CASE CodeAt(t, 0, len, {STX}) ->
             IF end # Err /\ OnlyNotesAfter(t, end) THEN TextValue(t, 0, end) ELSE NoValue
        [] CodeAt(t, 0, len, {DLE, ENQ}) -> NoValue
        [] OTHER ->
             IF plain = len \/ (At(t, plain) = BEL /\ OnlyNotesAfter(t, plain))
             THEN Trim(Slice(t, 0, plain)) ELSE NoValue

Value(raw) == TrimmedValue(Trim(raw))

=============================================================================
