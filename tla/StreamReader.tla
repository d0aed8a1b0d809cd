---------------------------- MODULE StreamReader ----------------------------
(***************************************************************************)
(* StreamReader::new (src/src/stream.rs): the forward scan of one buffer   *)
(* for commits, one action per branch of the loop, and the decision        *)
(* whether the tail is torn.  The scan is what every promise of the log    *)
(* rests on: a repair cuts the file where it says, and a reader sees the   *)
(* blocks it says.                                                         *)
(***************************************************************************)
EXTENDS StreamScan

CONSTANT Buffers    \* the buffers that may be scanned

ASSUME BuffersAssumption == Buffers \subseteq Seq(Byte)

VARIABLES
  buf,      \* the buffer, never written
  reader,   \* the locals of scan and the fields of StreamReader
  phase     \* "scan" in the loop, then "torn" or "clean"

vars == <<buf, reader, phase>>

TypeOK ==
  /\ buf \in Seq(Byte)
  /\ reader \in Reader
  /\ phase \in {"scan", "torn", "clean"}

Init ==
  /\ buf \in Buffers
  /\ reader = NewReader
  /\ phase = "scan"

Branch(enabled, next) ==
  /\ phase = "scan"
  /\ enabled
  /\ reader' = next
  /\ UNCHANGED <<buf, phase>>

ScanEscape       == Branch(InText(buf, reader, {DLE}), SkipEscaped(reader))
ScanTextClose    == Branch(InText(buf, reader, {ETX}), CloseText(reader))
ScanTextCommit   == Branch(InText(buf, reader, {ETB}), CommitBlock(buf, reader, TRUE))
ScanTextCut      == Branch(InText(buf, reader, {SYN, EOT, EM}), CutText(buf, reader))
ScanTextByte     == Branch(TextByte(buf, reader), Skip(reader))
ScanTextOpen     == Branch(Outside(buf, reader, {STX}), OpenText(reader))
ScanLevelOpen    == Branch(Outside(buf, reader, {DLE}), EnterLevel(reader))
ScanLevelClose   == Branch(Outside(buf, reader, {CAN}), CloseLevel(reader))
ScanCommit       == Branch(Outside(buf, reader, {ETB}),
                           CommitBlock(buf, reader, reader.depth > 0))
ScanNewDocument  == Branch(NewDocument(buf, reader), StartDocument(reader))
ScanOther        == Branch(OtherByte(buf, reader), Skip(reader))

FindTorn ==
  /\ phase = "scan"
  /\ ~Reading(buf, reader)
  /\ TornTail(buf, reader.committed_end)
  /\ phase' = "torn"
  /\ UNCHANGED <<buf, reader>>

FindClean ==
  /\ phase = "scan"
  /\ ~Reading(buf, reader)
  /\ ~TornTail(buf, reader.committed_end)
  /\ phase' = "clean"
  /\ UNCHANGED <<buf, reader>>

Next ==
  \/ ScanEscape \/ ScanTextClose \/ ScanTextCommit \/ ScanTextCut
  \/ ScanTextByte \/ ScanTextOpen \/ ScanLevelOpen \/ ScanLevelClose
  \/ ScanCommit \/ ScanNewDocument \/ ScanOther
  \/ FindTorn \/ FindClean

Spec == Init /\ [][Next]_vars

\* The loop runs to its end: it is ordinary sequential code.
FairSpec == Spec /\ WF_vars(Next)

Finished == phase # "scan"

-----------------------------------------------------------------------------
(* The blocks. *)

Stops == {reader.blocks[i].stop : i \in DOMAIN reader.blocks}

(***************************************************************************)
(* "An unescaped ETB is always a commit, inside open text or a level too"  *)
(* (stream.rs:3): whatever surrounds it, an ETB the loop has passed stops  *)
(* a block unless the byte before it is a DLE.                             *)
(***************************************************************************)
EveryEtbCommits ==
  \A p \in 0 .. Len(buf) - 1 :
    (p < reader.pos /\ At(buf, p) = ETB) =>
      p \in Stops \/ (p > 0 /\ At(buf, p - 1) = DLE)

BlockStarts(block, least) ==
  /\ block.start >= least
  /\ block.start = least \/ At(buf, block.start) = SYN

\* Where the payload of a block ends.
PayloadEndOf(block) == PayloadEnd(buf, block.stop + 1)

(***************************************************************************)
(* The blocks lie one behind the other, each between the commit before it  *)
(* (or a SYN that tore what was not committed) and its own ETB, and        *)
(* committed_end is where the payload of the last one ends: no byte        *)
(* belongs to two blocks and no marker or payload to any.                  *)
(***************************************************************************)
BlocksInOrder ==
  /\ \A i \in DOMAIN reader.blocks :
       LET block == reader.blocks[i]
       IN  /\ block.start <= block.stop
           /\ block.stop < Len(buf)
           /\ At(buf, block.stop) = ETB
           /\ BlockStarts(block,
                IF i = 1 THEN 0 ELSE PayloadEndOf(reader.blocks[i - 1]))
  /\ reader.committed_end =
       IF reader.blocks = << >> THEN 0 ELSE PayloadEndOf(Last(reader.blocks))

(***************************************************************************)
(* What is not committed yet starts where the last commit ended, or at a   *)
(* SYN that tore what came before it: the next block can neither reach     *)
(* back into a committed one nor leave bytes out.                          *)
(***************************************************************************)
PendingBlock ==
  /\ reader.pos <= Len(buf) + 1
  /\ reader.committed_end <= reader.block_start
  /\ reader.block_start <= reader.pos
  /\ \/ reader.block_start = reader.committed_end
     \/ reader.block_start < Len(buf) /\ At(buf, reader.block_start) = SYN

-----------------------------------------------------------------------------
(* Damage.  Reads is how the readers of a block see it: scan::text and     *)
(* scan::level get over every text and level that starts in it.            *)

Reads(bytes, start, stop) ==
  LET reads[p \in start .. stop] ==
        IF p = stop THEN TRUE
        ELSE LET q == CASE At(bytes, p) = STX -> Text(bytes, p, stop)
                        [] At(bytes, p) = DLE -> Level(bytes, p, stop)
                        [] OTHER              -> p + 1
             IN  q # Err /\ reads[q]
  IN  reads[start]

\* An STX behind which no ETX is met before q, or only one behind a DLE.
OpenedBefore(bytes, start, q) ==
  \E p \in start .. q - 1 :
    /\ At(bytes, p) = STX
    /\ \A k \in p + 1 .. q - 1 : At(bytes, k) = ETX => At(bytes, k - 1) = DLE

\* What the loop does not judge: framing that cut a text or stands in a level, an
\* STX or a bad escape inside a text.
NotJudged(bytes, start, stop) ==
  \E q \in start .. stop - 1 :
    \/ /\ At(bytes, q) \in {EOT, EM}
       /\ \E p \in start .. q - 1 : At(bytes, p) \in {STX, DLE}
    \/ /\ OpenedBefore(bytes, start, q)
       /\ \/ At(bytes, q) = STX
          \/ At(bytes, q) = DLE /\ ~(q + 1 < stop /\ IsTextEscaped(At(bytes, q + 1)))

(***************************************************************************)
(* A damaged block is one the block readers could not have read, so that   *)
(* leaving it out of undamaged() loses no record; and a block that does    *)
(* not read is damaged, unless it holds what the loop does not judge, so   *)
(* that what undamaged() hands out can be read.                            *)
(***************************************************************************)
DamagedIffUnreadable ==
  Finished =>
    \A i \in DOMAIN reader.blocks :
      LET block == reader.blocks[i]
          reads == Reads(buf, block.start, block.stop)
      IN  /\ block.damaged => ~reads
          /\ ~reads => block.damaged \/ NotJudged(buf, block.start, block.stop)

(***************************************************************************)
(* What stream.rs:153 says of a text that framing cuts: "the block is torn *)
(* or damaged".                                                            *)
(***************************************************************************)
CutTextIsDamaged ==
  \A i \in DOMAIN reader.blocks :
    LET block == reader.blocks[i]
    IN  (\E p, q \in block.start .. block.stop - 1 :
           /\ p < q
           /\ At(buf, p) = STX
           /\ At(buf, q) \in {SYN, EOT, EM}
           /\ \A k \in p + 1 .. q - 1 : At(buf, k) \notin {ETX, DLE})
        => block.damaged

-----------------------------------------------------------------------------
(* Appending and repairing. *)

(***************************************************************************)
(* A log only grows: a commit found in a file is found, the same, in every *)
(* longer version of it.  A reader that read while a writer appended has   *)
(* seen a prefix of the log.                                               *)
(***************************************************************************)
PrefixStable ==
  Finished =>
    \A n \in 0 .. Len(buf) :
      LET before == ScanOf(Slice(buf, 0, n))
      IN  /\ IsPrefix(before.blocks, reader.blocks)
          /\ before.committed_end <= reader.committed_end

\* What repair_log leaves of the file.
Repaired ==
  IF phase = "torn" THEN Slice(buf, 0, reader.committed_end) ELSE buf

(***************************************************************************)
(* repair_log cuts at committed_end: every commit survives, and the file   *)
(* needs no second repair.                                                 *)
(***************************************************************************)
RepairKeepsCommits ==
  Finished =>
    /\ ScanOf(Repaired).blocks = reader.blocks
    /\ CommittedEnd(Repaired) = reader.committed_end
    /\ ~Torn(Repaired)

\* Blocks as the writer appends them: a record, one with an ETB in a text,
\* one with a level.
Appends == {<<RS, 97, ETB>>,
            <<RS, STX, DLE, ETB, ETX, ETB>>,
            <<RS, DLE, US, CAN, ETB>>}

\* EM opens a raw region, which is not data of the log.
RawTail == \E p \in reader.committed_end .. Len(buf) - 1 : At(buf, p) = EM

(***************************************************************************)
(* What open_log then appends to the repaired file is committed: one more  *)
(* block, undamaged, from the commit before it to the new ETB.             *)
(***************************************************************************)
AppendLands ==
  Finished /\ ~(phase = "clean" /\ RawTail) =>
    \A batch \in Appends :
      ScanOf(Repaired \o batch).blocks =
        Append(reader.blocks,
               [start   |-> reader.committed_end,
                stop    |-> Len(Repaired) + Len(batch) - 1,
                damaged |-> FALSE])

-----------------------------------------------------------------------------
(* What the reader hands out. *)

(***************************************************************************)
(* last_commit_end is "a shortcut for well-formed input" (stream.rs:243):  *)
(* scanning backward finds the commit that the forward scan finds.         *)
(***************************************************************************)
LastCommitAgrees == Finished => LastCommitEnd(buf) = reader.committed_end

(***************************************************************************)
(* The loop always ends and decides the tail.                              *)
(***************************************************************************)
ScanEnds == <>Finished

=============================================================================
