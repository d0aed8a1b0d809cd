---------------------------- MODULE BuilderCalls ----------------------------
(***************************************************************************)
(* A caller of Builder's composed methods (src/src/builder.rs): any        *)
(* sequence of calls, the closures of level and key_level run call by      *)
(* call.  said keeps what the calls mean, to be compared with what the     *)
(* readers find in the bytes.                                              *)
(*                                                                         *)
(* The code takes the calls in any order.  A caller that is InOrder keeps  *)
(* positional and keyed units apart, writes a header row first in its      *)
(* group, and puts a note neither before a record's first unit, nor on a   *)
(* reference, nor behind another note of the same record.                  *)
(***************************************************************************)
EXTENDS Validator, Builder

CONSTANTS
  Scalars,     \* values
  Names,       \* names of files, groups and references
  Keys,        \* keys
  Headers,     \* header rows
  Rows,        \* the values of a record or a list
  Maps,        \* the pairs of a map
  Paths,       \* references
  InOrder,     \* does the caller keep the order above?
  MaxCalls,    \* bound: calls
  MaxDepth     \* bound: levels in one another

ASSUME BuilderCallsAssumption ==
  /\ Scalars \cup Names \cup Keys \subseteq Seq(Byte)
  /\ \A name \in Names \cup Keys : IsName(name)
  /\ InOrder \in BOOLEAN
  /\ {MaxCalls, MaxDepth} \subseteq Nat

VARIABLES
  builder, \* the builder
  said,    \* ghost: the body said so far, and below it the bodies around it
  levels,  \* ghost: for each open level, << >> or its key
  noted,   \* ghost: was the last call a note?
  calls    \* calls so far

vars == <<builder, said, levels, noted, calls>>

-----------------------------------------------------------------------------
(* What is said: files of groups of records, as Read returns them. *)

NewBody == <<File(<< >>)>>

\* The last group of a body, the unnamed one when there is none.
LastGroup(body) ==
  LET groups == Last(body).groups IN IF groups = << >> THEN Group(0, << >>) ELSE Last(groups)

SayLastGroup(body, group) ==
  LET file == Last(body)
      kept == IF file.groups = << >> THEN << >> ELSE Front(file.groups)
  IN  Append(Front(body), [file EXCEPT !.groups = Append(kept, group)])

SayFile(body, name) ==
  IF body = NewBody THEN <<File(name)>> ELSE Append(body, File(name))

SayGroup(body, group) ==
  Append(Front(body), [Last(body) EXCEPT !.groups = Append(@, group)])

SayHeader(body, names) == SayLastGroup(body, [LastGroup(body) EXCEPT !.header = <<names>>])

SayRecord(body, record) ==
  SayLastGroup(body, [LastGroup(body) EXCEPT !.records = Append(@, record)])

\* A record is open: the last one, or a new one.
SayOpen(body) ==
  IF builder.in_record THEN body ELSE SayRecord(body, <<"positional", << >>>>)

\* One more unit of the last record.
SayUnit(body, kind, unit) ==
  LET group == LastGroup(body)
      units == Last(group.records)[2]
  IN  SayLastGroup(body, [group EXCEPT !.records =
                            Append(Front(@), <<kind, Append(units, unit)>>)])

SayValue(body, unit) == SayUnit(SayOpen(body), "positional", unit)
SayKey(body, k, unit) == SayUnit(SayOpen(body), "keyed", <<k, unit>>)

\* A record without units reads as one empty value, a header row without
\* names as one empty name.
Said(body) ==
  LET record(r) == IF r[2] = << >> THEN <<"positional", <<<<"value", << >>>>>>>> ELSE r
      row(names) == IF names = << >> THEN <<<< >>>> ELSE names
      group(g) == [g EXCEPT !.records = [i \in DOMAIN @ |-> record(@[i])],
                            !.header  = [i \in DOMAIN @ |-> row(@[i])]]
      file(f) == [f EXCEPT !.groups = [i \in DOMAIN @ |-> group(@[i])]]
  IN  <<"body", [i \in DOMAIN body |-> file(body[i])], TRUE>>

Each(values) == [i \in DOMAIN values |-> <<"value", values[i]>>]

-----------------------------------------------------------------------------
(* The order that a caller may keep. *)

\* The kind of the open record: none, empty, positional or keyed.
Open ==
  LET record == Last(LastGroup(Head(said)).records)
  IN  IF ~builder.in_record THEN "none" ELSE IF record[2] = << >> THEN "empty" ELSE record[1]

\* The last unit of the open record.
LastUnit ==
  LET record == Last(LastGroup(Head(said)).records)
  IN  IF record[1] = "keyed" THEN Last(record[2])[2] ELSE Last(record[2])

BehindHeader ==
  Open = "none" /\ LastGroup(Head(said)).header # << >> /\ LastGroup(Head(said)).records = << >>

MayAddValue == InOrder => Open # "keyed"
MayAddKey   == InOrder => Open # "positional"
MayAddHeader ==
  InOrder => /\ ~builder.in_record
             /\ LastGroup(Head(said)).header = << >>
             /\ LastGroup(Head(said)).records = << >>
MayAddNote ==
  InOrder => /\ ~BehindHeader
             /\ Open # "empty"
             /\ Open \in {"positional", "keyed"} =>
                  LastUnit[1] # "ref" /\ ~(LastUnit = <<"value", << >>>> /\ noted)

-----------------------------------------------------------------------------
(* The calls. *)

Init ==
  /\ builder = NewBuilder
  /\ said = <<NewBody>>
  /\ levels = << >>
  /\ noted = FALSE
  /\ calls = 0

Called(next, body) ==
  /\ calls < MaxCalls
  /\ calls' = calls + 1
  /\ builder' = next
  /\ said' = <<body>> \o Tail(said)
  /\ noted' = FALSE
  /\ UNCHANGED levels

CallFile(name) == Called(Fs(builder, name), SayFile(Head(said), name))

CallGroup(name, header, depth) ==
  Called(GroupAt(builder, name, header, depth),
         SayGroup(Head(said), [Group(depth, name) EXCEPT !.header = header]))

CallHeader(names) ==
  /\ MayAddHeader
  /\ Called(Header(builder, names), SayHeader(Head(said), names))

CallRecord(values) ==
  Called(PositionalRecord(builder, values),
         SayRecord(Head(said), <<"positional", Each(values)>>))

CallBeginRecord == Called(Rs(builder), SayRecord(Head(said), <<"positional", << >>>>))

CallMap(pairs) ==
  Called(KeyedRecord(builder, pairs),
         SayRecord(Head(said), <<"keyed", [i \in DOMAIN pairs |->
                                   <<pairs[i][1], <<"value", pairs[i][2]>>>>]>>))

CallField(v) ==
  /\ MayAddValue
  /\ Called(Field(builder, v), SayValue(Head(said), <<"value", v>>))

CallKey(k, v) ==
  /\ MayAddKey
  /\ Called(Key(builder, k, v), SayKey(Head(said), k, <<"value", v>>))

CallList(values) ==
  LET list == IF values = << >> THEN NewBody
              ELSE SayRecord(NewBody, <<"positional", Each(values)>>)
  IN  /\ MayAddValue
      /\ Called(List(builder, values), SayValue(Head(said), <<"level", Said(list)>>))

CallReference(path) ==
  /\ MayAddValue
  /\ Called(ReferencePath(builder, path), SayValue(Head(said), <<"ref", path>>))

CallNote(v) ==
  /\ MayAddNote
  /\ calls < MaxCalls
  /\ calls' = calls + 1
  /\ builder' = Note(builder, v)
  /\ noted' = TRUE
  /\ UNCHANGED <<said, levels>>

\* level and key_level call their f, which says a body of its own.
Enter(next, key) ==
  /\ calls < MaxCalls
  /\ Len(levels) < MaxDepth
  /\ calls' = calls + 1
  /\ builder' = next
  /\ said' = <<NewBody, SayOpen(Head(said))>> \o Tail(said)
  /\ levels' = <<key>> \o levels
  /\ noted' = FALSE

CallLevel == MayAddValue /\ Enter(OpenLevel(builder), << >>)

CallKeyLevel(k) == MayAddKey /\ Enter(OpenKeyLevel(builder, k), <<k>>)

\* f returns.
Leave ==
  LET unit == <<"level", Said(said[1])>>
      key == Head(levels)
      body == IF key = << >> THEN SayUnit(said[2], "positional", unit)
              ELSE SayUnit(said[2], "keyed", <<key[1], unit>>)
  IN  /\ levels # << >>
      /\ builder' = Can(builder)
      /\ said' = <<body>> \o Tail(Tail(said))
      /\ levels' = Tail(levels)
      /\ noted' = FALSE
      /\ UNCHANGED calls

Next ==
  \/ \E name \in Names : CallFile(name)
  \/ \E name \in Names, depth \in 1 .. 2 : CallGroup(name, << >>, depth)
  \/ \E name \in Names, names \in Headers : CallGroup(name, <<names>>, 1)
  \/ \E names \in Headers : CallHeader(names)
  \/ \E values \in Rows : CallRecord(values) \/ CallList(values)
  \/ \E pairs \in Maps : CallMap(pairs)
  \/ \E k \in Keys, v \in Scalars : CallKey(k, v)
  \/ \E v \in Scalars : CallField(v)
  \/ \E path \in Paths : CallReference(path)
  \/ \E v \in Scalars \ {<< >>} : CallNote(v)
  \/ CallBeginRecord
  \/ CallLevel
  \/ \E k \in Keys : CallKeyLevel(k)
  \/ Leave

Spec == Init /\ [][Next]_vars

-----------------------------------------------------------------------------
(* Properties. *)

TypeOK ==
  /\ builder.buf \in Seq(Byte)
  /\ builder.units \in 0 .. Len(builder.buf)
  /\ Len(builder.stack) = Len(levels)
  /\ Len(said) = Len(levels) + 1
  /\ calls \in 0 .. MaxCalls

Complete == levels = << >>

\* "The composed methods ... cannot write ill-formed output" (builder.rs:36-37):
\* refuted by a caller that is not InOrder.
ComposedIsWellFormed == Complete => WellFormed(builder.buf)

(***************************************************************************)
(* What was said is what is read, level by level and unit by unit: no call *)
(* joins, drops or moves what another said.                                *)
(***************************************************************************)
SaidIsRead ==
  Complete => Read(builder.buf, 0, Len(builder.buf)) = Said(Head(said))

\* No record of a body, nor of a level in it, has a key twice.
RECURSIVE KeysOnce(_)
KeysOnce(body) ==
  \A i \in DOMAIN body : \A g \in Range(body[i].groups) : \A record \in Range(g.records) :
    LET keyed == record[1] = "keyed"
        unit(j) == IF keyed THEN record[2][j][2] ELSE record[2][j]
    IN  /\ keyed => IsInjective([j \in DOMAIN record[2] |-> record[2][j][1]])
        /\ \A j \in DOMAIN record[2] : unit(j)[1] = "level" => KeysOnce(unit(j)[2][2])

(***************************************************************************)
(* What a caller InOrder writes is well-formed, and "the builder's output  *)
(* is canonical" (README.md:69): it is, without notes and with each key    *)
(* once in its record.                                                     *)
(***************************************************************************)
ComposedIsCanonical ==
  /\ ComposedIsWellFormed
  /\ Complete /\ BEL \notin Range(builder.buf) /\ KeysOnce(Head(said)) => Canonical(builder.buf)

=============================================================================
