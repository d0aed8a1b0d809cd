------------------------------ MODULE Documents ------------------------------
(***************************************************************************)
(* Three walks over the same bytes: the validator, the readers (Container, *)
(* Document, Body) and the builder writing again what was read.  A buffer  *)
(* grows piece by piece.                                                   *)
(***************************************************************************)
EXTENDS Validator, DocumentReader, Builder

CONSTANTS
  Alphabets, \* sets of the pieces that buffers are made of
  MaxPieces  \* bound: how many of them

ASSUME DocumentsAssumption == UNION Alphabets \subseteq Seq(Nat) /\ MaxPieces \in Nat

VARIABLES
  pieces,  \* the alphabet of this buffer
  buf,     \* the buffer
  count    \* its pieces

vars == <<pieces, buf, count>>

TypeOK == pieces \in Alphabets /\ buf \in Seq(Nat) /\ count \in 0 .. MaxPieces

Init == pieces \in Alphabets /\ buf = << >> /\ count = 0

Grow ==
  /\ count < MaxPieces
  /\ \E piece \in pieces : buf' = buf \o piece
  /\ count' = count + 1
  /\ UNCHANGED pieces

Spec == Init /\ [][Grow]_vars

-----------------------------------------------------------------------------
(***************************************************************************)
(* A body written again from what it was read as, unit by unit, the way    *)
(* the tests build one.  A leading group without a name has no GS, a       *)
(* leading file without a name no FS.                                      *)
(***************************************************************************)
RECURSIVE Build(_, _)
Build(b, body) ==
  LET unit(c, u) ==
        CASE u[1] = "value" -> Field(c, u[2])
          [] u[1] = "ref"   -> ReferencePath(c, u[2])
          [] u[1] = "level" -> Can(Build(OpenLevel(c), u[2]))
      entry(c, e) ==
        IF e[2][1] = "value" THEN Key(c, e[1], e[2][2])
        ELSE IF e[2][1] = "level" THEN Can(Build(OpenKeyLevel(c, e[1]), e[2][2]))
        ELSE EnqPath(Us(Soh(InRecord(c), e[1]), << >>), e[2][2])
      record(c, r) ==
        FoldLeft(LAMBDA d, x : IF r[1] = "keyed" THEN entry(d, x) ELSE unit(d, x), Rs(c), r[2])
      group(c, g) ==
        LET start == CASE g.depth > 0 -> GroupAt(c, g.name, g.header, g.depth)
                       [] g.depth = 0 /\ g.header # << >> -> Header(c, g.header[1])
                       [] OTHER -> c
        IN  FoldLeft(record, start, g.records)
      groups(c, f) == FoldLeft(group, c, f.groups)
      first == Head(body[2])
  IN  FoldLeft(LAMBDA c, f : groups(Fs(c, f.name), f),
               groups(IF first.name = << >> THEN b ELSE Fs(b, first.name), first),
               Tail(body[2]))

-----------------------------------------------------------------------------
\* Every unit of the body can be read, and nothing in it was passed over.
RECURSIVE AllRead(_)
AllRead(body) ==
  LET unit(u) == /\ u # Unreadable
                 /\ u[1] = "level" => AllRead(u[2])
                 /\ u[1] = "ref"   => IsPath(u[2])
      record(r) ==
        /\ r # Unreadable
        /\ \A i \in DOMAIN r[2] : unit(IF r[1] = "keyed" THEN r[2][i][2] ELSE r[2][i])
  IN  /\ body # Unreadable
      /\ body[3]
      /\ \A file \in Range(body[2]) : \A group \in Range(file.groups) :
           \A r \in Range(group.records) : record(r)

\* Well-formed, and no diff in it.
WellFormedData(bytes) ==
  LET Accepts(verdict) == verdict.pos # Err /\ ~verdict.diff IN Accepts(Validate(bytes))

ValidIsReadIn(bytes) ==
  WellFormedData(bytes) =>
    LET Legible(docs) == docs # NoContainer /\ \A doc \in Range(docs) : AllRead(doc.body)
    IN  Legible(Container(bytes))

\* Where the two grammars differ: a dead record before a header row and a note
\* on the line below a plain value, which only the validator takes, and a note
\* on a reference, which the reader takes for a part of its name.
GrammarsDiffer(bytes) ==
  LET len == Len(bytes)
  IN  \E p \in 0 .. (len - 1) :
        \/ /\ DeadAt(bytes, p, len, {RS})
           /\ \E q \in p .. len : HeaderRowAt(bytes, q, len)
        \/ /\ p > 0 /\ IsPlain(At(bytes, p - 1))
           /\ ~IsPlain(At(bytes, p)) /\ CodeAt(bytes, Layout(bytes, p, len), len, {BEL})
           /\ At(bytes, p) # BEL
        \/ At(bytes, p) = ENQ /\ CodeAt(bytes, Plain(bytes, p + 1, len), len, {BEL})

(***************************************************************************)
(* What the validator accepts, the readers read, to its end and unit by    *)
(* unit: the two walk the same bytes with two grammars (validator.rs,      *)
(* body.rs).                                                               *)
(***************************************************************************)
ValidIsRead == ~GrammarsDiffer(buf) => ValidIsReadIn(buf)

(***************************************************************************)
(* The same of every buffer: refuted by BEL RS SOH RS, by RS a LF BEL b.   *)
(***************************************************************************)
EveryValidIsRead == ValidIsReadIn(buf)

\* A canonical body is what the builder writes for what it says.
OneSpellingIn(bytes) ==
  Canonical(bytes) => Build(NewBuilder, Read(bytes, 0, Len(bytes))).buf = bytes

\* A file line without a name reads like none, and layout behind a key or a
\* reference is not seen by the validator.
SpelledTwice(bytes) ==
  \E p \in 0 .. (Len(bytes) - 1) :
    LET end == Plain(bytes, p + 1, Len(bytes))
    IN  \/ At(bytes, p) = FS /\ end = p + 1
        \/ At(bytes, p) \in {SOH, ENQ} /\ end > p + 1 /\ IsLayout(At(bytes, end - 1))

(***************************************************************************)
(* "one spelling per value" (validator.rs:23): a canonical body is what    *)
(* the builder writes for what it says, so two that say the same are the   *)
(* same bytes.                                                             *)
(***************************************************************************)
OneSpelling == ~SpelledTwice(buf) => OneSpellingIn(buf)

(***************************************************************************)
(* "no layout, one spelling per value" (validator.rs:23), of every         *)
(* buffer whose files have names: refuted by the space in RS ENQ a SP.     *)
(***************************************************************************)
CanonicalHasOneSpelling ==
  (\A p \in 0 .. (Len(buf) - 1) :
     At(buf, p) = FS => Plain(buf, p + 1, Len(buf)) > p + 1) => OneSpellingIn(buf)

(***************************************************************************)
(* A document begins at its SYN whatever stands before it: two well-formed *)
(* containers one behind the other are one, and its documents are theirs.  *)
(* This leaves out a first one with a diff in it, whose shape the validator *)
(* keeps for the documents that follow (validator.rs:134), and one with a  *)
(* raw region.                                                             *)
(***************************************************************************)
DocumentsApart ==
  LET Said(docs) == [j \in DOMAIN docs |-> [docs[j] EXCEPT !.stop = 0]]
      Apart(verdict, docs, one, two) ==
        /\ verdict[one].pos # Err /\ verdict[two].pos # Err /\ ~verdict[one].diff
        => /\ verdict[buf].pos # Err
           /\ docs[one] # NoContainer /\ docs[two] # NoContainer
                => Said(docs[buf]) = Said(docs[one]) \o Said(docs[two])
  IN  \A i \in 2 .. Len(buf) :
        LET one == SubSeq(buf, 1, i - 1)
            two == SubSeq(buf, i, Len(buf))
        IN  buf[i] = SYN /\ EM \notin Range(one)
            => Apart([bytes \in {one, two, buf} |-> Validate(bytes)],
                     [bytes \in {one, two, buf} |-> Container(bytes)], one, two)

=============================================================================
