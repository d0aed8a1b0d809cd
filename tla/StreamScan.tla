----------------------------- MODULE StreamScan -----------------------------
(***************************************************************************)
(* The pieces of StreamReader (src/src/stream.rs): the branches of its     *)
(* scan loop, each a map from one reader to the next, and what is computed *)
(* from the buffer once the loop has ended.  StreamReader.tla is the loop  *)
(* as a state machine; ScanOf is its result, for the models that call      *)
(* StreamReader::new as one step.                                          *)
(*                                                                         *)
(* The code keeps the blocks and the indexes of the damaged ones in two    *)
(* vectors; here a block carries the flag.                                 *)
(***************************************************************************)
EXTENDS Scan, SequencesExt

Block == [start : Nat, stop : Nat, damaged : BOOLEAN]

Reader == [pos : Nat, block_start : Nat, in_text : BOOLEAN, depth : Nat,
           blocks : Seq(Block), committed_end : Nat]

NewReader ==
  [pos |-> 0, block_start |-> 0, in_text |-> FALSE, depth |-> 0,
   blocks |-> << >>, committed_end |-> 0]

-----------------------------------------------------------------------------
(***************************************************************************)
(* payload_end: a commit ends with its payload, a plain run after optional *)
(* layout, without the spaces at its end.  With no payload it ends at the  *)
(* marker, and layout after it belongs to the next block.                  *)
(***************************************************************************)
TrimSpaces(buf, from, to) ==
  CHOOSE p \in from .. to :
    /\ \A q \in p .. (to - 1) : At(buf, q) = SP
    /\ p > from => At(buf, p - 1) # SP

PayloadEnd(buf, pos) ==
  LET len == Len(buf)
      p   == Layout(buf, pos, len)
  IN  IF p < len /\ IsPlain(At(buf, p))
      THEN TrimSpaces(buf, pos, Plain(buf, p, len))
      ELSE pos

-----------------------------------------------------------------------------
(* The branches of the scan loop. *)

Reading(buf, r) == r.pos < Len(buf)

InText(buf, r, codes) ==
  /\ Reading(buf, r)
  /\ r.in_text
  /\ At(buf, r.pos) \in codes

Outside(buf, r, codes) ==
  /\ Reading(buf, r)
  /\ ~r.in_text
  /\ At(buf, r.pos) \in codes

TextByte(buf, r) ==
  /\ Reading(buf, r)
  /\ r.in_text
  /\ At(buf, r.pos) \notin {DLE, ETX, ETB, SYN, EOT, EM}

\* A SYN at offset 0 opens the document and tears nothing.
OtherByte(buf, r) ==
  /\ Reading(buf, r)
  /\ ~r.in_text
  /\ At(buf, r.pos) \notin {STX, DLE, CAN, ETB}
  /\ At(buf, r.pos) = SYN => r.pos = 0

NewDocument(buf, r) == Outside(buf, r, {SYN}) /\ r.pos > 0

\* Wrong: the loop does not move.
Skip_stuck(r) == r

Skip(r) == [r EXCEPT !.pos = @ + 1]

SkipEscaped(r) == [r EXCEPT !.pos = @ + 2]

OpenText(r) == [Skip(r) EXCEPT !.in_text = TRUE]

CloseText(r) == [Skip(r) EXCEPT !.in_text = FALSE]

\* Wrong: levels are not counted.
EnterLevel_uncounted(r) == Skip(r)

EnterLevel(r) == [Skip(r) EXCEPT !.depth = @ + 1]

CloseLevel(r) == [Skip(r) EXCEPT !.depth = IF @ = 0 THEN 0 ELSE @ - 1]

\* Past the byte, with no text or level open and the next block at start.
Restart(r, start) ==
  [pos |-> r.pos + 1, block_start |-> start, in_text |-> FALSE, depth |-> 0,
   blocks |-> r.blocks, committed_end |-> r.committed_end]

\* Framing other than ETB in an open text cuts it; a SYN also starts over.
CutText(buf, r) ==
  Restart(r, IF At(buf, r.pos) = SYN THEN r.pos ELSE r.block_start)

StartDocument(r) == Restart(r, r.pos)

\* Wrong: an ETB in a text is text.
CommitBlock_notInText(buf, r, damaged) ==
  LET end == PayloadEnd(buf, r.pos + 1)
  IN  IF r.in_text THEN Skip(r)
      ELSE [Restart(r, end) EXCEPT
              !.pos = end, !.committed_end = end,
              !.blocks = Append(@, [start |-> r.block_start, stop |-> r.pos,
                                    damaged |-> damaged])]

\* Wrong: an ETB in a text is text if the text is closed later.
CommitBlock_looksAhead(buf, r, damaged) ==
  LET end == PayloadEnd(buf, r.pos + 1)
  IN  IF r.in_text /\ \E p \in r.pos .. Len(buf) - 1 : At(buf, p) = ETX THEN Skip(r)
      ELSE [Restart(r, end) EXCEPT
              !.pos = end, !.committed_end = end,
              !.blocks = Append(@, [start |-> r.block_start, stop |-> r.pos,
                                    damaged |-> damaged])]

\* Wrong: the next block starts where this one did.
CommitBlock_keepsStart(buf, r, damaged) ==
  LET end == PayloadEnd(buf, r.pos + 1)
  IN  [Restart(r, r.block_start) EXCEPT
         !.pos = end, !.committed_end = end,
         !.blocks = Append(@, [start |-> r.block_start, stop |-> r.pos,
                               damaged |-> damaged])]

\* Wrong: committed_end is the ETB's own offset.
CommitBlock_atMarker(buf, r, damaged) ==
  LET end == PayloadEnd(buf, r.pos + 1)
  IN  [Restart(r, end) EXCEPT
         !.pos = end, !.committed_end = r.pos,
         !.blocks = Append(@, [start |-> r.block_start, stop |-> r.pos,
                               damaged |-> damaged])]

CommitBlock(buf, r, damaged) ==
  LET end == PayloadEnd(buf, r.pos + 1)
  IN  [pos |-> end, block_start |-> end, in_text |-> FALSE, depth |-> 0,
       blocks |-> Append(r.blocks, [start |-> r.block_start, stop |-> r.pos,
                                    damaged |-> damaged]),
       committed_end |-> end]

\* One iteration of the loop.
Step(buf, r) ==
  CASE InText(buf, r, {DLE})           -> SkipEscaped(r)
    [] InText(buf, r, {ETX})           -> CloseText(r)
    [] InText(buf, r, {ETB})           -> CommitBlock(buf, r, TRUE)
    [] InText(buf, r, {SYN, EOT, EM})  -> CutText(buf, r)
    [] TextByte(buf, r)                -> Skip(r)
    [] Outside(buf, r, {STX})          -> OpenText(r)
    [] Outside(buf, r, {DLE})          -> EnterLevel(r)
    [] Outside(buf, r, {CAN})          -> CloseLevel(r)
    [] Outside(buf, r, {ETB})          -> CommitBlock(buf, r, r.depth > 0)
    [] NewDocument(buf, r)             -> StartDocument(r)
    [] OtherByte(buf, r)               -> Skip(r)
    [] OTHER                           -> r

\* The loop run to its end: every iteration moves pos forward.
ScanOf(buf) ==
  LET run[r \in Reader] == IF Reading(buf, r) THEN run[Step(buf, r)] ELSE r
  IN  run[NewReader]

-----------------------------------------------------------------------------
(* What the reader answers when the loop has ended. *)

\* Wrong: a note that is not closed is still a note.
TornTail_openNote(buf, from) ==
  LET len == Len(buf)
      torn[pos \in 0 .. len] ==
        LET p    == Layout(buf, pos, len)
            note == Comment(buf, p, len)
        IN  CASE p >= len                        -> FALSE
              [] p < len /\ At(buf, p) = EOT     -> torn[p + 1]
              [] p < len /\ At(buf, p) = EM      -> FALSE
              [] p < len /\ At(buf, p) = BEL     ->
                   IF note = Err THEN FALSE ELSE torn[note]
              [] OTHER                           -> TRUE
  IN  torn[from]

\* torn_tail: is there more than layout, notes and EOT from pos on?  A dead
\* element is data, and an EM opens the raw region, which is not.
TornTail(buf, from) ==
  LET len == Len(buf)
      torn[pos \in 0 .. len] ==
        LET p      == Layout(buf, pos, len)
            body   == Layout(buf, p + 1, len)
            note   == Comment(buf, p, len)
            isNote == /\ body < len => IsPlain(At(buf, body)) \/ At(buf, body) = STX
                      /\ note \in 0 .. len
        IN  IF p < len /\ At(buf, p) = EOT THEN torn[p + 1]
            ELSE IF p < len /\ At(buf, p) = BEL /\ isNote THEN torn[note]
            ELSE p < len /\ At(buf, p) # EM
  IN  torn[from]

\* Wrong: no tail is torn.
Torn_never(buf) == FALSE

Torn(buf) == TornTail(buf, ScanOf(buf).committed_end)

\* Wrong: the end of the last block, its ETB left out.
CommittedEnd_atMarker(buf) ==
  LET blocks == ScanOf(buf).blocks
  IN  IF blocks = << >> THEN 0 ELSE Last(blocks).stop

CommittedEnd(buf) == ScanOf(buf).committed_end

BlockBytes(buf, block) == Slice(buf, block.start, block.stop)

\* last_commit_end: the last ETB behind an even run of DLEs, and the plain
\* run after it.
\* Wrong: escapes are not looked for.
EscapesBefore_none(buf, p) == 0

EscapesBefore(buf, p) ==
  CHOOSE n \in 0 .. p :
    /\ \A q \in (p - n) .. (p - 1) : At(buf, q) = DLE
    /\ n < p => At(buf, p - n - 1) # DLE

LastCommitEnd(buf) ==
  LET marks == {p \in 0 .. Len(buf) - 1 :
                  At(buf, p) = ETB /\ EscapesBefore(buf, p) % 2 = 0}
  IN  IF marks = {} THEN 0
      ELSE LET last == CHOOSE p \in marks : \A q \in marks : q <= p
           IN  Plain(buf, last + 1, Len(buf))

-----------------------------------------------------------------------------
(* What a writer appends, and to what. *)

\* Everything is committed: the next block starts at the end of the buffer.
Ready(buf, r) ==
  /\ r.pos = Len(buf)
  /\ r.block_start = Len(buf)
  /\ r.committed_end = Len(buf)
  /\ ~r.in_text
  /\ r.depth = 0

Settled(buf) == buf \in Seq(Byte) /\ Ready(buf, ScanOf(buf))

\* A byte that opens an element: no payload goes on with it, and a tail that
\* starts with it is torn.
OpensElement(b) == ~IsLayout(b) /\ ~IsPlain(b) /\ b \notin {SYN, EOT, EM, BEL}

\* Read alone, it is one undamaged block that ends with its last byte.
OneCommit(batch) ==
  /\ Settled(batch)
  /\ batch # << >>
  /\ OpensElement(At(batch, 0))
  /\ ScanOf(batch).blocks =
       <<[start |-> 0, stop |-> Len(batch) - 1, damaged |-> FALSE]>>

\* A byte that last_commit_end may take for a commit.
Mark(buf, p) ==
  /\ p \in 0 .. Len(buf) - 1
  /\ At(buf, p) = ETB
  /\ EscapesBefore(buf, p) % 2 = 0

\* The only such byte is the last one.
OneMark(batch) ==
  /\ At(batch, 0) \notin {DLE, ETB}
  /\ \A p \in 0 .. Len(batch) - 1 : Mark(batch, p) <=> p = Len(batch) - 1

\* A batch that is one commit, opens with data and has one ETB that counts.
IsBatch(bytes) == OneCommit(bytes) /\ OneMark(bytes) /\ Len(bytes) > 1

=============================================================================
