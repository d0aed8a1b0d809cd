------------------------------ MODULE DiffEdit ------------------------------
(***************************************************************************)
(* diff::apply_file (src/src/diff.rs): one file's edits.  Sections are     *)
(* found in order, each once and only once behind the one before it; the   *)
(* replace-alls of a section work on the bytes up to the next match, those *)
(* before any section on the bytes up to the first.                        *)
(*                                                                         *)
(* A result is [ok |-> TRUE, data |-> bytes] or [ok |-> FALSE, error |->   *)
(* the DiffError].  Nothing here depends on what a byte is.                *)
(***************************************************************************)
EXTENDS Integers, SequencesExt

CONSTANTS
  Bytes,     \* what files are made of
  Inputs,    \* the file contents that may be edited
  Edits      \* the edits

\* One unit of a pattern, or a replace-all: an anchor is a unit whose new is
\* its old.
Change   == [old : Seq(Bytes), new : Seq(Bytes)]
Section  == [units : Seq(Change), replaces : Seq(Change)]
FileEdit == [leading : Seq(Change), sections : Seq(Section)]

ASSUME DiffEditAssumption == Inputs \subseteq Seq(Bytes) /\ Edits \subseteq FileEdit

VARIABLES data, edit, result

vars == <<data, edit, result>>

None == -1

Ok(bytes)  == [ok |-> TRUE, data |-> bytes]
Error(why) == [ok |-> FALSE, error |-> why]

Search(section)      == FlattenSeq([i \in DOMAIN section.units |-> section.units[i].old])
Replacement(section) == FlattenSeq([i \in DOMAIN section.units |-> section.units[i].new])

-----------------------------------------------------------------------------
OccursAt(hay, needle, p) ==
  p + Len(needle) <= Len(hay) /\ SubSeq(hay, p + 1, p + Len(needle)) = needle

\* Wrong: looks at the last occurrence.
Find_last(hay, needle, from) ==
  LET found == {p \in from .. Len(hay) - Len(needle) : OccursAt(hay, needle, p)}
  IN  IF needle = << >> \/ found = {} THEN None
      ELSE CHOOSE p \in found : \A q \in found : q <= p

\* The first occurrence from an offset on; an empty needle is never found.
Find(hay, needle, from) ==
  LET found == {p \in from .. Len(hay) - Len(needle) : OccursAt(hay, needle, p)}
  IN  IF needle = << >> \/ found = {} THEN None
      ELSE CHOOSE p \in found : \A q \in found : p <= q

\* Wrong: replaces again in what it has written.
ReplaceOne_again(segment, r) ==
  LET from[rest \in Seq(UNION {ToSet(segment), ToSet(r.new)}), fuel \in Nat] ==
        LET p == Find(rest, r.old, 0)
        IN  IF p = None \/ fuel = 0 THEN rest
            ELSE from[SubSeq(rest, 1, p) \o r.new
                        \o SubSeq(rest, p + Len(r.old) + 1, Len(rest)), fuel - 1]
  IN  IF Find(segment, r.old, 0) = None THEN Error("ReplaceAllNothing")
      ELSE Ok(from[segment, Len(segment) + 1])

\* One replace-all over a segment: left to right, what is written is not
\* looked at again; finding nothing is an error.
ReplaceOne(segment, r) ==
  LET from[pos \in 0 .. Len(segment)] ==
        LET p == Find(segment, r.old, pos)
        IN  IF p = None THEN SubSeq(segment, pos + 1, Len(segment))
            ELSE SubSeq(segment, pos + 1, p) \o r.new \o from[p + Len(r.old)]
  IN  IF Find(segment, r.old, 0) = None THEN Error("ReplaceAllNothing")
      ELSE Ok(from[0])

\* replace_all: the replace-alls of a scope one after the other.
ReplaceAlls(segment, replaces) ==
  LET after[i \in 0 .. Len(replaces)] ==
        IF i = 0 THEN Ok(segment)
        ELSE IF after[i - 1].ok THEN ReplaceOne(after[i - 1].data, replaces[i])
        ELSE after[i - 1]
  IN  after[Len(replaces)]

-----------------------------------------------------------------------------
\* Wrong: a second match that overlaps the first is not seen.
FindSection_afterMatch(bytes, section, cursor) ==
  LET search == Search(section)
      first  == Find(bytes, search, cursor)
  IN  CASE search = << >> -> Error("EmptySearch")
        [] search # << >> /\ first = None -> Error("PatternNotFound")
        [] search # << >> /\ first # None /\ Find(bytes, search, first + Len(search)) # None ->
             Error("PatternAmbiguous")
        [] OTHER -> Ok(first)

\* One section: its match from the cursor on, which must be the only one.
FindSection(bytes, section, cursor) ==
  LET search == Search(section)
      first  == Find(bytes, search, cursor)
  IN  CASE search = << >> -> Error("EmptySearch")
        [] search # << >> /\ first = None -> Error("PatternNotFound")
        [] search # << >> /\ first # None /\ Find(bytes, search, first + 1) # None ->
             Error("PatternAmbiguous")
        [] OTHER -> Ok(first)

\* The ends of a match.
MatchEnd(section, first) == first + Len(Search(section))

\* The sections' matches in order, or the first error.
Matches(bytes, sections) ==
  LET upto[i \in 0 .. Len(sections)] ==
        IF i = 0 THEN Ok(<< >>)
        ELSE IF ~upto[i - 1].ok THEN upto[i - 1]
        ELSE LET cursor == IF i = 1 THEN 0
                           ELSE MatchEnd(sections[i - 1], upto[i - 1].data[i - 1])
                 found  == FindSection(bytes, sections[i], cursor)
             IN  IF found.ok THEN Ok(Append(upto[i - 1].data, found.data)) ELSE found
  IN  upto[Len(sections)]

\* The output: the leading scope, then each replacement and its scope.
Splice(bytes, file_edit, starts) ==
  LET n == Len(starts)
      next(i) == IF i < n THEN starts[i + 1] ELSE Len(bytes)
      scope(i) ==
        IF i = 0 THEN ReplaceAlls(SubSeq(bytes, 1, next(0)), file_edit.leading)
        ELSE LET section == file_edit.sections[i]
             IN  ReplaceAlls(SubSeq(bytes, MatchEnd(section, starts[i]) + 1, next(i)),
                            section.replaces)
      written[i \in 0 .. n] ==
        LET done == IF i = 0 THEN Ok(<< >>) ELSE written[i - 1]
            repl == IF i = 0 THEN << >> ELSE Replacement(file_edit.sections[i])
        IN  CASE ~done.ok    -> done
              [] done.ok /\ ~scope(i).ok -> scope(i)
              [] OTHER       -> Ok(done.data \o repl \o scope(i).data)
  IN  written[n]

ApplyFile(bytes, file_edit) ==
  LET found == Matches(bytes, file_edit.sections)
  IN  IF found.ok THEN Splice(bytes, file_edit, found.data) ELSE found

-----------------------------------------------------------------------------
Unanswered == [ok |-> FALSE, error |-> "none"]

Init ==
  /\ data \in Inputs
  /\ edit \in Edits
  /\ result = Unanswered

Apply ==
  /\ result = Unanswered
  /\ result' = ApplyFile(data, edit)
  /\ UNCHANGED <<data, edit>>

Next == Apply

Spec == Init /\ [][Next]_vars

Answered == result # Unanswered

-----------------------------------------------------------------------------
(***************************************************************************)
(* The reference: the vectors of offsets at which the sections occur in    *)
(* order, each at the only place it occurs behind the one before.          *)
(***************************************************************************)
Placements ==
  LET sections == edit.sections
      after(v, i) == IF i = 1 THEN 0 ELSE MatchEnd(sections[i - 1], v[i - 1])
  IN  {v \in [DOMAIN sections -> 0 .. Len(data)] :
         \A i \in DOMAIN sections :
           /\ Search(sections[i]) # << >>
           /\ {p \in after(v, i) .. Len(data) :
                 OccursAt(data, Search(sections[i]), p)} = {v[i]}}

(***************************************************************************)
(* The sections are found exactly when there is one such vector; a file    *)
(* whose sections cannot be placed without doubt is refused.               *)
(***************************************************************************)
FoundIffPlaced ==
  Answered =>
    /\ Cardinality(Placements) <= 1
    /\ (Placements = {}) <=>
         (~result.ok /\ result.error \in {"EmptySearch", "PatternNotFound", "PatternAmbiguous"})

Swap(section) ==
  [units |-> [i \in DOMAIN section.units |->
                [old |-> section.units[i].new, new |-> section.units[i].old]],
   replaces |-> << >>]

HasReplaces ==
  edit.leading # << >> \/ \E i \in DOMAIN edit.sections : edit.sections[i].replaces # << >>

(***************************************************************************)
(* An applied diff of sections can be taken back: if the diff with old and *)
(* new swapped applies to the result, it gives the file as it was, because *)
(* uniqueness leaves it no other place to match.                           *)
(***************************************************************************)
SwapRestores ==
  Answered /\ result.ok /\ ~HasReplaces =>
    LET back == ApplyFile(result.data,
                          [leading |-> << >>,
                           sections |-> [i \in DOMAIN edit.sections |-> Swap(edit.sections[i])]])
    IN  back.ok => back.data = data

(***************************************************************************)
(* A replace-all counts what its scope held: the length of the result is   *)
(* that of the file, plus what each section and each replaced occurrence   *)
(* adds.  (With at most one replace-all a scope, occurrences are those in  *)
(* the file.)                                                              *)
(***************************************************************************)
Gain(new, old) == Len(new) - Len(old)

\* The most disjoint occurrences of a word that fit in a segment.
MostDisjoint(segment, word) ==
  LET at == {p \in 0 .. Len(segment) - Len(word) : OccursAt(segment, word, p)}
      disjoint == {S \in SUBSET at : \A p, q \in S : p < q => p + Len(word) <= q}
  IN  Max({Cardinality(S) : S \in disjoint})

ScopeGain(segment, replaces) ==
  IF replaces = << >> THEN 0
  ELSE MostDisjoint(segment, replaces[1].old) * Gain(replaces[1].new, replaces[1].old)

ReplacesWhatWasThere ==
  Answered /\ result.ok =>
    LET v == CHOOSE v \in Placements : TRUE
        n == Len(edit.sections)
        next(i) == IF i < n THEN v[i + 1] ELSE Len(data)
        leading == ScopeGain(SubSeq(data, 1, next(0)), edit.leading)
        gains == [i \in 1 .. n |->
                    Gain(Replacement(edit.sections[i]), Search(edit.sections[i]))
                    + ScopeGain(SubSeq(data, MatchEnd(edit.sections[i], v[i]) + 1, next(i)),
                                edit.sections[i].replaces)]
    IN  Len(result.data) = Len(data) + leading + FoldFunction(+, 0, gains)

=============================================================================
