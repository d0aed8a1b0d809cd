------------------------------ MODULE DiffCalls ------------------------------
(***************************************************************************)
(* A diff on its way from its author to diff::parse and the validator      *)
(* (src/src/diff.rs, src/src/validator.rs).  DiffBuilder writes it call by *)
(* call; an element that was written may be struck out with a BEL before   *)
(* it; or it is written by hand, piece by piece.  said keeps what the      *)
(* calls mean.                                                             *)
(*                                                                         *)
(* The code takes the calls in any order.  This caller names each path     *)
(* once, names one before its sections and writes nothing after eot; it    *)
(* writes no empty note, nor one on the heading's line unless HeadingNote. *)
(***************************************************************************)
EXTENDS Validator, DiffText

CONSTANTS
  Paths,      \* paths
  Patterns,   \* the units of a section
  Contexts,   \* what stands before and after a replacement
  Scalars,    \* what is replaced, replaces or is noted
  Pieces,     \* what a hand writes
  HeadingNote, \* may a note follow the heading?
  MaxCalls,   \* bound: calls
  MaxPieces   \* bound: pieces

ASSUME DiffCallsAssumption ==
  /\ \A path \in Paths : path \in Seq(Byte) /\ path # << >> /\ IsName(path)
  /\ HeadingNote \in BOOLEAN
  /\ {MaxCalls, MaxPieces} \subseteq Nat

VARIABLES
  buf,     \* the diff
  said,    \* ghost: the edits said, in the order of the files
  hand,    \* written by hand?
  ended,   \* ghost: has eot been called?
  count    \* calls, or pieces

vars == <<buf, said, hand, ended, count>>

Init ==
  /\ hand \in BOOLEAN
  /\ buf \in {DiffHeadingBytes(Shape, Diff)} \cup IF hand THEN {} ELSE {<< >>}
  /\ said = << >>
  /\ ended = FALSE
  /\ count = 0

\* A call, whose element may have been struck out.
Called(bytes, meant) ==
  /\ ~hand /\ ~ended /\ count < MaxCalls
  /\ count' = count + 1
  /\ \/ buf' = buf \o bytes /\ said' = meant
     \/ buf' = buf \o <<BEL>> \o bytes /\ said' = said
  /\ UNCHANGED <<hand, ended>>

LastEdit == said[Len(said)]

SayLast(edit) == Append(Front(said), edit)

\* file
CallFile(path) ==
  /\ \A i \in DOMAIN said : said[i].path # path
  /\ Called(<<FS>> \o path, Append(said, FileEdit(path)))

\* A pattern without units reads as one empty anchor.
SaidUnits(units) == IF units = << >> THEN <<[old |-> << >>, new |-> << >>]>> ELSE units

CallSection(units) ==
  /\ said # << >>
  /\ Called(SectionBytes(units),
            SayLast([LastEdit EXCEPT
                      !.sections = Append(@, [units |-> SaidUnits(units), replaces |-> << >>])]))

CallReplace(before, old, new, after) == CallSection(ReplaceUnits(before, old, new, after))

\* The last section said, or the file before its first.
SaidReplace(edit, replace) ==
  LET n == Len(edit.sections)
  IN  IF n = 0 THEN [edit EXCEPT !.leading = Append(@, replace)]
      ELSE [edit EXCEPT !.sections = [i \in 1 .. n |->
             IF i = n THEN [@[i] EXCEPT !.replaces = Append(@, replace)] ELSE @[i]]]

CallReplaceAll(old, new) ==
  /\ said # << >> /\ old # << >>
  /\ Called(ReplaceAllBytes(old, new),
            SayLast(SaidReplace(LastEdit, [old |-> old, new |-> new])))

CallNote(v) ==
  /\ ~hand /\ ~ended /\ count < MaxCalls
  /\ v # << >>
  /\ HeadingNote \/ buf # DiffHeadingBytes(Shape, Diff)
  /\ buf' = buf \o NoteBytes(v)
  /\ count' = count + 1
  /\ UNCHANGED <<said, hand, ended>>

CallEot ==
  /\ ~hand /\ ~ended
  /\ buf' = buf \o <<EOT>>
  /\ ended' = TRUE
  /\ UNCHANGED <<said, hand, count>>

HandWrites(piece) ==
  /\ hand /\ count < MaxPieces
  /\ buf' = buf \o piece
  /\ count' = count + 1
  /\ UNCHANGED <<said, hand, ended>>

Next ==
  \/ \E path \in Paths : CallFile(path)
  \/ \E units \in Patterns : CallSection(units)
  \/ \E before, after \in Contexts, old, new \in Scalars : CallReplace(before, old, new, after)
  \/ \E old, new \in Scalars : CallReplaceAll(old, new)
  \/ \E v \in Scalars : CallNote(v)
  \/ CallEot
  \/ \E piece \in Pieces : HandWrites(piece)

Spec == Init /\ [][Next]_vars

-----------------------------------------------------------------------------
Parsed == ParseDiff(buf, Shape, Diff)

\* A diff to the validator.
ValidDiff(bytes) == LET Is(v) == v.pos # Err /\ v.diff IN Is(Validate(bytes))

(***************************************************************************)
(* parse gives the edits that the calls said, file by file and in order,   *)
(* without what was struck out: a dead section's replace-alls go to the    *)
(* section before it, a dead file's sections to the file before it.        *)
(***************************************************************************)
ParsedIsSaid == ~hand => Parsed.error = "none" /\ Parsed.files = said

(***************************************************************************)
(* What DiffBuilder writes behind its heading the validator takes for a    *)
(* well-formed diff, whatever was struck out.                              *)
(***************************************************************************)
BuiltIsValid == ~hand /\ buf # << >> /\ Head(buf) = SYN => ValidDiff(buf)

\* Where the two differ: a note behind the heading's last value, which the
\* validator takes for a part of it; a line break behind a plain value and before a
\* SUB, a US or a note, which only the validator takes; a dead key or header
\* row, which only parse takes.
DiffsDiffer(bytes) ==
  LET len == Len(bytes)
      body == Layout(bytes, Len(DiffHeadingBytes(Shape, Diff)), len)
  IN  \E p \in 1 .. (len - 1) :
        \/ p = body /\ CodeAt(bytes, p, len, {BEL})
        \/ /\ IsPlain(At(bytes, p - 1)) /\ ~IsPlain(At(bytes, p)) /\ IsLayout(At(bytes, p))
           /\ CodeAt(bytes, Layout(bytes, p, len), len, {SUB, US, BEL})
        \/ DeadAt(bytes, p, len, {SOH})

(***************************************************************************)
(* Of what a hand wrote, parse and the validator take the same diffs, but  *)
(* for the paths, which the validator does not look at, and what           *)
(* DiffsDiffer names.                                                      *)
(***************************************************************************)
ParseAgreesWithValidator ==
  LET Agree(error, valid) ==
        /\ valid => error \in {"none", "DuplicatePath", "BeforeAnyFile"}
        /\ error = "none" => valid
  IN  hand /\ ~DiffsDiffer(buf) => Agree(Parsed.error, ValidDiff(buf))

=============================================================================
