------------------------- MODULE StreamReaderProofs -------------------------
(***************************************************************************)
(* The loop of StreamReader::new, for every buffer: its invariants, that   *)
(* its result is ScanOf, and what that says of prefixes, of repairs and of *)
(* what is appended behind them.                                           *)
(***************************************************************************)
EXTENDS StreamReader, ScanProofs

-----------------------------------------------------------------------------
(* The invariant.  An action either moves over one byte (two for an        *)
(* escape) that is no commit, or commits; what it does to the rest of the  *)
(* reader does not matter to the blocks.                                   *)

Inv == TypeOK /\ PendingBlock /\ EveryEtbCommits /\ BlocksInOrder

Advances ==
  /\ UNCHANGED <<buf, phase>>
  /\ Reading(buf, reader)
  /\ reader' \in Reader
  /\ Moves(buf, reader, reader')

Commits ==
  /\ UNCHANGED <<buf, phase>>
  /\ Reading(buf, reader)
  /\ At(buf, reader.pos) = ETB
  /\ \E damaged \in BOOLEAN : reader' = CommitBlock(buf, reader, damaged)

Decides ==
  /\ UNCHANGED <<buf, reader>>
  /\ ~Reading(buf, reader)
  /\ phase' = IF TornTail(buf, reader.committed_end) THEN "torn" ELSE "clean"

Iterates ==
  /\ phase = "scan"
  /\ UNCHANGED <<buf, phase>>
  /\ Reading(buf, reader)
  /\ reader' = Step(buf, reader)

\* The actions are the branches of Step, one each.
LEMMA LoopSteps ==
  ASSUME TypeOK, Next
  PROVE  Iterates \/ Decides
<1> DEFINE b == At(buf, reader.pos)
           Goes(next) == /\ phase = "scan" /\ UNCHANGED <<buf, phase>>
                         /\ Reading(buf, reader) /\ reader' = next
<1>0. reader \in Reader /\ reader.in_text \in BOOLEAN /\ reader.pos \in Nat
  BY DEF TypeOK, Reader
<1>1. CASE \/ ScanEscape \/ ScanTextClose \/ ScanTextCommit \/ ScanTextCut \/ ScanTextByte
  <2> USE DEF Branch, InText, TextByte
  <2>0. Reading(buf, reader) /\ reader.in_text
    BY <1>1 DEF ScanEscape, ScanTextClose, ScanTextCommit, ScanTextCut, ScanTextByte
  <2>1. /\ b = DLE => Step(buf, reader) = SkipEscaped(reader)
        /\ b = ETX => Step(buf, reader) = CloseText(reader)
        /\ b = ETB => Step(buf, reader) = CommitBlock(buf, reader, TRUE)
        /\ b = SYN \/ b = EOT \/ b = EM => Step(buf, reader) = CutText(buf, reader)
        /\ b # DLE /\ b # ETX /\ b # ETB /\ b # SYN /\ b # EOT /\ b # EM
             => Step(buf, reader) = Skip(reader)
    BY <1>0, <2>0, StepInText
  <2> HIDE DEF b
  <2>2. CASE ScanEscape
    <3>1. b = DLE /\ Goes(SkipEscaped(reader))
      BY <2>2 DEF ScanEscape, b
    <3> QED BY <2>1, <3>1 DEF Iterates
  <2>3. CASE ScanTextClose
    <3>1. b = ETX /\ Goes(CloseText(reader))
      BY <2>3 DEF ScanTextClose, b
    <3> QED BY <2>1, <3>1 DEF Iterates
  <2>4. CASE ScanTextCommit
    <3>1. b = ETB /\ Goes(CommitBlock(buf, reader, TRUE))
      BY <2>4 DEF ScanTextCommit, b
    <3> QED BY <2>1, <3>1 DEF Iterates
  <2>5. CASE ScanTextCut
    <3>1. (b = SYN \/ b = EOT \/ b = EM) /\ Goes(CutText(buf, reader))
      BY <2>5 DEF ScanTextCut, b
    <3> QED BY <2>1, <3>1 DEF Iterates
  <2>6. CASE ScanTextByte
    <3>1. /\ b # DLE /\ b # ETX /\ b # ETB /\ b # SYN /\ b # EOT /\ b # EM
          /\ Goes(Skip(reader))
      BY <2>6 DEF ScanTextByte, b
    <3> QED BY <2>1, <3>1 DEF Iterates
  <2> QED BY <1>1, <2>2, <2>3, <2>4, <2>5, <2>6
<1>2. CASE \/ ScanTextOpen \/ ScanLevelOpen \/ ScanLevelClose \/ ScanCommit
           \/ ScanNewDocument \/ ScanOther
  <2> USE DEF Branch, Outside, NewDocument, OtherByte
  <2>0. Reading(buf, reader) /\ ~reader.in_text
    BY <1>2 DEF ScanTextOpen, ScanLevelOpen, ScanLevelClose, ScanCommit,
                ScanNewDocument, ScanOther
  <2>1. /\ b = STX => Step(buf, reader) = OpenText(reader)
        /\ b = DLE => Step(buf, reader) = EnterLevel(reader)
        /\ b = CAN => Step(buf, reader) = CloseLevel(reader)
        /\ b = ETB => Step(buf, reader) = CommitBlock(buf, reader, reader.depth > 0)
        /\ b = SYN /\ reader.pos > 0 => Step(buf, reader) = StartDocument(reader)
        /\ b = SYN /\ ~(reader.pos > 0) => Step(buf, reader) = Skip(reader)
        /\ b # STX /\ b # DLE /\ b # CAN /\ b # ETB /\ b # SYN
             => Step(buf, reader) = Skip(reader)
    BY <1>0, <2>0, StepOutside
  <2> HIDE DEF b
  <2>2. CASE ScanTextOpen
    <3>1. b = STX /\ Goes(OpenText(reader))
      BY <2>2 DEF ScanTextOpen, b
    <3> QED BY <2>1, <3>1 DEF Iterates
  <2>3. CASE ScanLevelOpen
    <3>1. b = DLE /\ Goes(EnterLevel(reader))
      BY <2>3 DEF ScanLevelOpen, b
    <3> QED BY <2>1, <3>1 DEF Iterates
  <2>4. CASE ScanLevelClose
    <3>1. b = CAN /\ Goes(CloseLevel(reader))
      BY <2>4 DEF ScanLevelClose, b
    <3> QED BY <2>1, <3>1 DEF Iterates
  <2>5. CASE ScanCommit
    <3>1. b = ETB /\ Goes(CommitBlock(buf, reader, reader.depth > 0))
      BY <2>5 DEF ScanCommit, b
    <3> QED BY <2>1, <3>1 DEF Iterates
  <2>6. CASE ScanNewDocument
    <3>1. b = SYN /\ reader.pos > 0 /\ Goes(StartDocument(reader))
      BY <2>6 DEF ScanNewDocument, b
    <3> QED BY <2>1, <3>1 DEF Iterates
  <2>7. CASE ScanOther
    <3>1. /\ b # STX /\ b # DLE /\ b # CAN /\ b # ETB
          /\ b = SYN => ~(reader.pos > 0)
          /\ Goes(Skip(reader))
      BY <1>0, <2>7 DEF ScanOther, b
    <3> QED BY <2>1, <3>1 DEF Iterates
  <2> QED BY <1>2, <2>2, <2>3, <2>4, <2>5, <2>6, <2>7
<1>3. CASE FindTorn
  BY <1>3 DEF FindTorn, Decides
<1>4. CASE FindClean
  BY <1>4 DEF FindClean, Decides
<1> QED BY <1>1, <1>2, <1>3, <1>4 DEF Next

LEMMA StepKinds ==
  ASSUME TypeOK, Next
  PROVE  Advances \/ Commits \/ Decides
<1>0. buf \in Seq(Byte) /\ reader \in Reader /\ reader.in_text \in BOOLEAN /\ reader.depth \in Nat
  BY DEF TypeOK, Reader
<1>1. ASSUME Iterates, At(buf, reader.pos) # ETB
      PROVE  Advances
  BY <1>0, <1>1, StepMoves DEF Iterates, Advances
<1>2. ASSUME Iterates, At(buf, reader.pos) = ETB
      PROVE  Commits
  <2>1. reader' = CommitBlock(buf, reader, reader.in_text \/ reader.depth > 0)
    BY <1>0, <1>2, StepCommits DEF Iterates
  <2>2. (reader.in_text \/ reader.depth > 0) \in BOOLEAN
    BY <1>0
  <2>3. \E damaged \in BOOLEAN : reader' = CommitBlock(buf, reader, damaged)
    BY <2>1, <2>2, Zenon
  <2> QED BY <1>2, <2>3 DEF Iterates, Commits
<1> QED BY <1>1, <1>2, LoopSteps

LEMMA InitInv ==
  ASSUME Init
  PROVE  Inv
<1> USE BuffersAssumption DEF Init, NewReader
<1>1. TypeOK
  BY DEF TypeOK, Reader
<1>2. PendingBlock
  BY <1>1 DEF PendingBlock, TypeOK
<1>3. EveryEtbCommits
  BY DEF EveryEtbCommits
<1>4. BlocksInOrder
  BY DEF BlocksInOrder
<1> QED BY <1>1, <1>2, <1>3, <1>4 DEF Inv

LEMMA MoveKeepsInv ==
  ASSUME Inv, Advances
  PROVE  Inv'
<1> USE DEF Inv, Advances, Moves, Reading
<1>1. TypeOK'
  BY DEF TypeOK
<1>2. reader.pos \in Nat /\ Len(buf) \in Nat /\ reader.block_start \in Nat
      /\ reader.committed_end \in Nat
  BY DEF TypeOK, Reader
<1>3. PendingBlock'
  BY <1>2 DEF PendingBlock
<1>4. EveryEtbCommits'
  <2>1. Stops' = Stops
    BY DEF Stops
  <2> SUFFICES ASSUME NEW p \in 0 .. Len(buf) - 1,
                      p < reader'.pos, At(buf, p) = ETB
               PROVE  p \in Stops \/ (p > 0 /\ At(buf, p - 1) = DLE)
    BY <2>1 DEF EveryEtbCommits
  <2>2. CASE p < reader.pos
    BY <2>2 DEF EveryEtbCommits
  <2>3. CASE p = reader.pos + 1
    BY <1>2, <2>3
  <2> QED BY <1>2, <2>2, <2>3
<1>5. BlocksInOrder'
  BY DEF BlocksInOrder, PayloadEndOf, BlockStarts
<1> QED BY <1>1, <1>3, <1>4, <1>5

LEMMA CommitKeepsInv ==
  ASSUME Inv, Commits
  PROVE  Inv'
<1> USE DEF Inv, Commits, Reading
<1> DEFINE end == PayloadEnd(buf, reader.pos + 1)
<1>1. PICK damaged \in BOOLEAN : reader' = CommitBlock(buf, reader, damaged)
  OBVIOUS
<1> DEFINE block == [start |-> reader.block_start, stop |-> reader.pos,
                     damaged |-> damaged]
<1>2. /\ buf \in Seq(Byte) /\ Len(buf) \in Nat
      /\ reader.pos \in 0 .. Len(buf) - 1 /\ reader.block_start \in Nat
      /\ reader.committed_end \in Nat /\ reader.blocks \in Seq(Block)
  BY DEF TypeOK, Reader
<1>3. /\ end \in reader.pos + 1 .. Len(buf)
      /\ \A q \in reader.pos + 1 .. end - 1 : At(buf, q) # ETB
  <2>1. reader.pos + 1 \in 0 .. Len(buf)
    BY <1>2
  <2> QED BY <1>2, <2>1, PayloadStops
<1>4. /\ reader'.pos = end /\ reader'.block_start = end
      /\ reader'.committed_end = end
      /\ reader'.in_text = FALSE /\ reader'.depth = 0
      /\ reader'.blocks = Append(reader.blocks, block)
      /\ buf' = buf
  BY <1>1 DEF CommitBlock
<1>5. block \in Block
  BY <1>2 DEF Block
<1> HIDE DEF end, block
<1>6. TypeOK'
  <2>1. reader' \in Reader
    BY <1>1, <1>2, <1>3, <1>4, <1>5 DEF CommitBlock, Reader, end, block
  <2> QED BY <2>1 DEF TypeOK
<1>7. PendingBlock'
  BY <1>2, <1>3, <1>4 DEF PendingBlock
<1>8. DEFINE n == Len(reader.blocks)
<1>9. /\ n \in Nat /\ Len(reader'.blocks) = n + 1
      /\ DOMAIN reader'.blocks = 1 .. n + 1
      /\ DOMAIN reader.blocks = 1 .. n
      /\ \A i \in 1 .. n : reader'.blocks[i] = reader.blocks[i]
      /\ reader'.blocks[n + 1] = block
  BY <1>2, <1>4, <1>5
<1> HIDE DEF n
<1>10. block.start = reader.block_start /\ block.stop = reader.pos
  BY DEF block
<1>11. EveryEtbCommits'
  <2>1. /\ Stops = {reader.blocks[i].stop : i \in 1 .. n}
        /\ Stops' = {reader'.blocks[i].stop : i \in 1 .. n + 1}
    BY <1>9 DEF Stops
  <2>2. Stops \subseteq Stops'
    BY <1>9, <2>1
  <2>3. reader.pos \in Stops'
    BY <1>9, <1>10, <2>1
  <2> SUFFICES ASSUME NEW p \in 0 .. Len(buf) - 1,
                      p < end, At(buf, p) = ETB
               PROVE  p \in Stops' \/ (p > 0 /\ At(buf, p - 1) = DLE)
    BY <1>4 DEF EveryEtbCommits
  <2>4. CASE p < reader.pos
    BY <2>2, <2>4 DEF EveryEtbCommits
  <2>5. CASE p = reader.pos
    BY <2>3, <2>5
  <2>6. CASE p > reader.pos
    BY <1>2, <1>3, <2>6
  <2> QED BY <1>2, <2>4, <2>5, <2>6
<1>12. BlocksInOrder'
  <2>1. ASSUME NEW i \in 1 .. n + 1
        PROVE  /\ reader'.blocks[i].start <= reader'.blocks[i].stop
               /\ reader'.blocks[i].stop < Len(buf)
               /\ At(buf, reader'.blocks[i].stop) = ETB
               /\ BlockStarts(reader'.blocks[i],
                    IF i = 1 THEN 0 ELSE PayloadEndOf(reader'.blocks[i - 1]))
    <3>1. CASE i \in 1 .. n
      <4>1. i = 1 \/ i - 1 \in 1 .. n
        BY <1>9, <3>1
      <4>2. /\ reader.blocks[i].start <= reader.blocks[i].stop
            /\ reader.blocks[i].stop < Len(buf)
            /\ At(buf, reader.blocks[i].stop) = ETB
            /\ BlockStarts(reader.blocks[i],
                 IF i = 1 THEN 0 ELSE PayloadEndOf(reader.blocks[i - 1]))
        BY <1>9, <3>1 DEF BlocksInOrder
      <4>3. /\ reader'.blocks[i] = reader.blocks[i]
            /\ i = 1 \/ reader'.blocks[i - 1] = reader.blocks[i - 1]
        BY <1>9, <3>1, <4>1
      <4> HIDE DEF Inv, Commits, Reading
      <4> QED BY <4>2, <4>3
    <3>2. CASE i = n + 1
      <4>1. reader.committed_end = IF i = 1 THEN 0 ELSE PayloadEndOf(reader'.blocks[i - 1])
        <5>1. CASE n = 0
          BY <1>2, <1>9, <3>2, <5>1 DEF BlocksInOrder, n
        <5>2. CASE n # 0
          <6>1. reader.blocks # << >> /\ Last(reader.blocks) = reader.blocks[n]
            BY <1>2, <1>9, <5>2 DEF Last, n
          <6>2. n \in 1 .. n /\ i - 1 = n
            BY <1>9, <3>2, <5>2
          <6> QED BY <1>9, <3>2, <5>2, <6>1, <6>2 DEF BlocksInOrder
        <5> QED BY <5>1, <5>2
      <4>2. BlockStarts(block, reader.committed_end)
        BY <1>2, <1>10 DEF PendingBlock, BlockStarts
      <4> QED BY <1>2, <1>9, <1>10, <3>2, <4>1, <4>2 DEF PendingBlock
    <3> QED BY <1>9, <3>1, <3>2
  <2>2. reader'.blocks # << >> /\ Last(reader'.blocks) = block
    BY <1>9, <1>2, <1>4, <1>5 DEF Last
  <2>3. reader'.committed_end = PayloadEndOf(block)
    BY <1>4, <1>10 DEF PayloadEndOf, end
  <2>4. (IF reader'.blocks = << >> THEN 0 ELSE PayloadEnd(buf, Last(reader'.blocks).stop + 1))
          = reader'.committed_end
    BY <2>2, <2>3 DEF PayloadEndOf
  <2>5. \A i \in DOMAIN reader'.blocks :
          /\ reader'.blocks[i].start <= reader'.blocks[i].stop
          /\ reader'.blocks[i].stop < Len(buf)
          /\ At(buf, reader'.blocks[i].stop) = ETB
          /\ BlockStarts(reader'.blocks[i],
               IF i = 1 THEN 0 ELSE PayloadEndOf(reader'.blocks[i - 1]))
    BY <1>9, <2>1
  <2> HIDE DEF Inv, Commits
  <2> QED BY <1>4, <2>4, <2>5 DEF BlocksInOrder, BlockStarts, PayloadEndOf
<1> QED BY <1>6, <1>7, <1>11, <1>12

\* Every reachable state satisfies the invariant.
THEOREM ScanInvariant == Spec => []Inv
<1>1. Init => Inv
  BY InitInv
<1>2. Inv /\ [Next]_vars => Inv'
  <2> SUFFICES ASSUME Inv, [Next]_vars
               PROVE  Inv'
    OBVIOUS
  <2>1. CASE Next
    <3>1. CASE Advances
      BY <3>1, MoveKeepsInv
    <3>2. CASE Commits
      BY <3>2, CommitKeepsInv
    <3>3. CASE Decides
      BY <3>3 DEF Decides, Inv, TypeOK, PendingBlock, EveryEtbCommits, Stops,
                  BlocksInOrder, PayloadEndOf, BlockStarts
    <3> QED BY <2>1, <3>1, <3>2, <3>3, StepKinds DEF Inv
  <2>2. CASE UNCHANGED vars
    BY <2>2 DEF vars, Inv, TypeOK, PendingBlock, EveryEtbCommits, Stops,
                BlocksInOrder, PayloadEndOf, BlockStarts
  <2> QED BY <2>1, <2>2
<1> QED BY <1>1, <1>2, PTL DEF Spec

(***************************************************************************)
(* The locals of the scan keep their types: in particular depth never goes *)
(* below zero on a stray CAN (saturating_sub), and no offset is negative.  *)
(***************************************************************************)
THEOREM TypeCorrect == Spec => []TypeOK
<1>1. Inv => TypeOK
  BY DEF Inv
<1> QED BY <1>1, ScanInvariant, PTL

(***************************************************************************)
(* For every buffer, an ETB without a DLE before it stops a block, in an   *)
(* open text or level too: no writer's commit is overlooked by the scan.   *)
(***************************************************************************)
THEOREM CommitsFound == Spec => []EveryEtbCommits
<1>1. Inv => EveryEtbCommits
  BY DEF Inv
<1> QED BY <1>1, ScanInvariant, PTL

(***************************************************************************)
(* For every buffer, the blocks lie in order between the commits, each     *)
(* ending at its ETB, and committed_end, where repair_log cuts, is behind  *)
(* the payload of the last one.                                            *)
(***************************************************************************)
THEOREM BlocksOrdered == Spec => []BlocksInOrder
<1>1. Inv => BlocksInOrder
  BY DEF Inv
<1> QED BY <1>1, ScanInvariant, PTL

(***************************************************************************)
(* For every buffer, the next block can only start at the last commit or   *)
(* at a SYN after it.                                                      *)
(***************************************************************************)
THEOREM PendingStarts == Spec => []PendingBlock
<1>1. Inv => PendingBlock
  BY DEF Inv
<1> QED BY <1>1, ScanInvariant, PTL

-----------------------------------------------------------------------------
(* What the loop computes.  The rest of the loop gives the same result from *)
(* every state on, and once it has ended the reader is that result.        *)

Result ==
  /\ RunOf(buf)[reader] = ScanOf(buf)
  /\ phase # "scan" =>
       /\ ~Reading(buf, reader)
       /\ phase = IF TornTail(buf, reader.committed_end) THEN "torn" ELSE "clean"

LEMMA ResultKept ==
  ASSUME TypeOK, Result, [Next]_vars
  PROVE  Result'
<1>1. CASE Iterates
  BY <1>1, RunUnfolds DEF Result, Iterates, TypeOK
<1>2. CASE Decides
  BY <1>2 DEF Result, Decides
<1>3. CASE UNCHANGED vars
  BY <1>3 DEF Result, vars
<1> QED BY <1>1, <1>2, <1>3, LoopSteps

LEMMA ResultInvariant == Spec => [](Inv /\ Result)
<1>1. Init => Result
  BY BuffersAssumption, RunUnfolds DEF Init, Result
<1>2. Inv => TypeOK
  BY DEF Inv
<1>3. TypeOK /\ Result /\ [Next]_vars => Result'
  BY ResultKept
<1> QED BY <1>1, <1>2, <1>3, ScanInvariant, PTL DEF Spec

\* At the end of the loop.
LEMMA Ended ==
  ASSUME Inv, Result, Finished
  PROVE  /\ buf \in Seq(Byte)
         /\ reader = ScanOf(buf)
         /\ reader.committed_end \in 0 .. Len(buf)
         /\ phase = IF Torn(buf) THEN "torn" ELSE "clean"
<1>1. buf \in Seq(Byte) /\ reader \in Reader /\ Len(buf) \in Nat
  BY DEF Inv, TypeOK
<1>2. ~Reading(buf, reader) /\ RunOf(buf)[reader] = ScanOf(buf)
  BY DEF Result, Finished
<1>3. reader = ScanOf(buf)
  BY <1>1, <1>2, RunUnfolds
<1>4. reader.committed_end \in 0 .. Len(buf)
  <2>1. reader.committed_end \in Nat /\ reader.blocks \in Seq(Block)
    BY <1>1 DEF Reader
  <2>2. CASE reader.blocks = << >>
    BY <1>1, <2>1, <2>2 DEF Inv, BlocksInOrder
  <2>3. CASE reader.blocks # << >>
    <3> DEFINE n == Len(reader.blocks)
               stop == reader.blocks[n].stop
    <3>1. n \in DOMAIN reader.blocks /\ Last(reader.blocks) = reader.blocks[n]
      BY <2>1, <2>3 DEF Last
    <3>2. stop < Len(buf) /\ stop \in Nat
      <4>1. reader.blocks[n] \in Block
        BY <2>1, <3>1
      <4> QED BY <3>1, <4>1 DEF Inv, BlocksInOrder, Block
    <3>3. reader.committed_end = PayloadEnd(buf, stop + 1)
      BY <2>3, <3>1 DEF Inv, BlocksInOrder, PayloadEndOf
    <3>4. PayloadEnd(buf, stop + 1) \in stop + 1 .. Len(buf)
      BY <1>1, <3>2, PayloadStops
    <3> QED BY <1>1, <3>2, <3>3, <3>4
  <2> QED BY <2>2, <2>3
<1>5. phase = IF Torn(buf) THEN "torn" ELSE "clean"
  BY <1>3 DEF Result, Finished, Torn
<1> QED BY <1>1, <1>3, <1>4, <1>5

(***************************************************************************)
(* For every buffer, the loop of StreamReader::new ends with the result of *)
(* the function ScanOf, and decides the tail as Torn does: the models that *)
(* call the reader as one step mean this loop.                             *)
(***************************************************************************)
THEOREM ScanComputes ==
  Spec => [](Finished => reader = ScanOf(buf) /\ (phase = "torn" <=> Torn(buf)))
<1>1. Inv /\ Result => (Finished => reader = ScanOf(buf) /\ (phase = "torn" <=> Torn(buf)))
  BY Ended
<1> QED BY <1>1, ResultInvariant, PTL

(***************************************************************************)
(* For every buffer and every prefix of it, the commits found in the       *)
(* prefix are the first of those found in the whole: reading a log while   *)
(* it grows never shows what a later reading takes back.                   *)
(***************************************************************************)
THEOREM CommitsStay == Spec => []PrefixStable
<1>1. ASSUME Inv, Result
      PROVE  PrefixStable
  <2> SUFFICES ASSUME Finished, NEW n \in 0 .. Len(buf)
               PROVE  LET before == ScanOf(Slice(buf, 0, n))
                      IN  /\ IsPrefix(before.blocks, reader.blocks)
                          /\ before.committed_end <= reader.committed_end
    BY DEF PrefixStable
  <2>1. buf \in Seq(Byte) /\ reader = ScanOf(buf)
    BY <1>1, Ended
  <2>2. Slice(buf, 0, n) \in Seq(Byte) /\ Begins(Slice(buf, 0, n), buf)
    BY <2>1, SliceBegins
  <2> QED BY <2>1, <2>2, PrefixScan
<1> QED BY <1>1, ResultInvariant, PTL

(***************************************************************************)
(* For every buffer, what repair_log leaves of a torn one holds every      *)
(* commit, ends at the last one, and needs no second repair.               *)
(***************************************************************************)
THEOREM RepairIsSafe == Spec => []RepairKeepsCommits
<1>1. ASSUME Inv, Result
      PROVE  RepairKeepsCommits
  <2> SUFFICES ASSUME Finished
               PROVE  /\ ScanOf(Repaired).blocks = reader.blocks
                      /\ CommittedEnd(Repaired) = reader.committed_end
                      /\ ~Torn(Repaired)
    BY DEF RepairKeepsCommits
  <2>1. /\ buf \in Seq(Byte) /\ reader = ScanOf(buf)
        /\ reader.committed_end \in 0 .. Len(buf)
        /\ phase = IF Torn(buf) THEN "torn" ELSE "clean"
    BY <1>1, Ended
  <2>2. CASE phase = "torn"
    <3>1. Repaired = Slice(buf, 0, reader.committed_end)
      BY <2>2 DEF Repaired
    <3>2. reader.committed_end = CommittedEnd(buf)
      BY <2>1 DEF CommittedEnd
    <3>3. /\ ScanOf(Repaired).blocks = ScanOf(buf).blocks
          /\ CommittedEnd(Repaired) = CommittedEnd(buf)
          /\ Torn(Repaired) = FALSE
      BY <2>1, <3>1, <3>2, CutAtCommit
    <3> QED BY <2>1, <3>2, <3>3
  <2>3. CASE phase # "torn"
    <3>1. Repaired = buf /\ ~Torn(buf)
      BY <2>1, <2>3 DEF Repaired
    <3> QED BY <2>1, <3>1 DEF CommittedEnd
  <2> QED BY <2>2, <2>3
<1> QED BY <1>1, ResultInvariant, PTL

-----------------------------------------------------------------------------
(* The batches of Appends, read alone. *)

\* A record, a text with an escaped ETB, a level: each is one commit.
LEMMA AppendsAreCommits == \A batch \in Appends : OneCommit(batch)
<1> USE DEF At
<1>0. /\ STX = 2 /\ ETX = 3 /\ BEL = 7 /\ DLE = 16 /\ SYN = 22 /\ ETB = 23 /\ CAN = 24
      /\ EOT = 4 /\ EM = 25 /\ RS = 30 /\ US = 31
  BY DEF STX, ETX, BEL, DLE, SYN, ETB, CAN, EOT, EM, RS, US
<1>1. /\ MovesOnly(RS) /\ MovesOnly(97) /\ MovesOnly(US) /\ OpensElement(RS)
  BY <1>0 DEF MovesOnly, OpensElement, IsLayout, IsPlain, SP, HT, LF, CR
<1>2. ASSUME NEW b \in Seq(Byte)
      PROVE  ComesTo(b, 0, FALSE, 0)
  <2>1. Changed(NewReader, NewReader, 0, FALSE, 0)
    BY DEF Changed, NewReader
  <2> QED BY <2>1, NewReaderTyped, RunUnfolds DEF ComesTo
<1>3. OneCommit(<<RS, 97, ETB>>)
  <2> DEFINE b == <<RS, 97, ETB>>
  <2>1. b \in Seq(Byte) /\ Len(b) = 3 /\ b # << >>
    BY <1>0 DEF Byte
  <2>2. At(b, 0) = RS /\ At(b, 1) = 97 /\ At(b, 2) = ETB
    OBVIOUS
  <2> HIDE DEF b, At
  <2>3. ComesTo(b, 1, FALSE, 0)
    <3>1. 0 \in 0 .. Len(b) - 1 /\ 0 + 1 = 1
      BY <2>1
    <3>2. MovesOnly(At(b, 0)) /\ ComesTo(b, 0, FALSE, 0)
      BY <1>1, <1>2, <2>1, <2>2
    <3> QED BY <2>1, <3>1, <3>2, ComesFurther
  <2>4. ComesTo(b, 2, FALSE, 0)
    <3>1. 1 \in 0 .. Len(b) - 1 /\ 1 + 1 = 2
      BY <2>1
    <3>2. MovesOnly(At(b, 1))
      BY <1>1, <2>2
    <3> QED BY <2>1, <2>3, <3>1, <3>2, ComesFurther
  <2>5. Len(b) - 1 = 2
    BY <2>1
  <2> QED BY <1>1, <2>1, <2>2, <2>4, <2>5, ComesToCommit DEF b
<1>4. OneCommit(<<RS, STX, DLE, ETB, ETX, ETB>>)
  <2> DEFINE b == <<RS, STX, DLE, ETB, ETX, ETB>>
  <2>1. b \in Seq(Byte) /\ Len(b) = 6 /\ b # << >>
    BY <1>0 DEF Byte
  <2>2. At(b, 0) = RS /\ At(b, 1) = STX /\ At(b, 2) = DLE /\ At(b, 4) = ETX /\ At(b, 5) = ETB
    OBVIOUS
  <2> HIDE DEF b, At
  <2>3. ComesTo(b, 1, FALSE, 0)
    <3>1. 0 \in 0 .. Len(b) - 1 /\ 0 + 1 = 1
      BY <2>1
    <3> QED BY <1>1, <1>2, <2>1, <2>2, <3>1, ComesFurther
  <2>4. ComesTo(b, 2, TRUE, 0)
    <3>1. 1 \in 0 .. Len(b) - 1 /\ 1 + 1 = 2
      BY <2>1
    <3> QED BY <2>1, <2>2, <2>3, <3>1, ComesFurther
  <2>5. ComesTo(b, 4, TRUE, 0)
    <3>1. 2 \in 0 .. Len(b) - 1 /\ 2 + 2 = 4
      BY <2>1
    <3> QED BY <2>1, <2>2, <2>4, <3>1, ComesFurther
  <2>6. ComesTo(b, 5, FALSE, 0)
    <3>1. 4 \in 0 .. Len(b) - 1 /\ 4 + 1 = 5
      BY <2>1
    <3> QED BY <2>1, <2>2, <2>5, <3>1, ComesFurther
  <2>7. Len(b) - 1 = 5
    BY <2>1
  <2> QED BY <1>1, <2>1, <2>2, <2>6, <2>7, ComesToCommit DEF b
<1>5. OneCommit(<<RS, DLE, US, CAN, ETB>>)
  <2> DEFINE b == <<RS, DLE, US, CAN, ETB>>
  <2>1. b \in Seq(Byte) /\ Len(b) = 5 /\ b # << >>
    BY <1>0 DEF Byte
  <2>2. At(b, 0) = RS /\ At(b, 1) = DLE /\ At(b, 2) = US /\ At(b, 3) = CAN /\ At(b, 4) = ETB
    OBVIOUS
  <2> HIDE DEF b, At
  <2>3. ComesTo(b, 1, FALSE, 0)
    <3>1. 0 \in 0 .. Len(b) - 1 /\ 0 + 1 = 1
      BY <2>1
    <3> QED BY <1>1, <1>2, <2>1, <2>2, <3>1, ComesFurther
  <2>4. ComesTo(b, 2, FALSE, 1)
    <3>1. 1 \in 0 .. Len(b) - 1 /\ 1 + 1 = 2 /\ 0 + 1 = 1
      BY <2>1
    <3> QED BY <2>1, <2>2, <2>3, <3>1, ComesFurther
  <2>5. ComesTo(b, 3, FALSE, 1)
    <3>1. 2 \in 0 .. Len(b) - 1 /\ 2 + 1 = 3
      BY <2>1
    <3> QED BY <1>1, <2>1, <2>2, <2>4, <3>1, ComesFurther
  <2>6. ComesTo(b, 4, FALSE, 0)
    <3>1. 3 \in 0 .. Len(b) - 1 /\ 3 + 1 = 4 /\ 1 - 1 = 0 /\ 1 > 0
      BY <2>1
    <3> QED BY <2>1, <2>2, <2>5, <3>1, ComesFurther
  <2>7. Len(b) - 1 = 4
    BY <2>1
  <2> QED BY <1>1, <2>1, <2>2, <2>6, <2>7, ComesToCommit DEF b
<1> QED BY <1>3, <1>4, <1>5 DEF Appends

(***************************************************************************)
(* For every buffer that is repaired or in which no raw region follows the *)
(* last commit, with notes behind it or not: what open_log then appends, a *)
(* batch that is one commit when it is read alone, is one more block,      *)
(* undamaged, from the commit before it to its own ETB.                    *)
(***************************************************************************)
AnyAppendLands ==
  Finished /\ ~(phase = "clean" /\ RawTail) =>
    \A batch : OneCommit(batch) =>
      ScanOf(Repaired \o batch).blocks =
        Append(reader.blocks,
               [start   |-> reader.committed_end,
                stop    |-> Len(Repaired) + Len(batch) - 1,
                damaged |-> FALSE])

\* For every buffer, any batch that is one commit lands as one block more.
THEOREM AnyAppendsLand == Spec => []AnyAppendLands
<1>1. ASSUME Inv, Result
      PROVE  AnyAppendLands
  <2> SUFFICES ASSUME Finished, ~(phase = "clean" /\ RawTail),
                      NEW batch, OneCommit(batch)
               PROVE  ScanOf(Repaired \o batch).blocks =
                        Append(reader.blocks,
                               [start   |-> reader.committed_end,
                                stop    |-> Len(Repaired) + Len(batch) - 1,
                                damaged |-> FALSE])
    BY DEF AnyAppendLands
  <2>1. /\ buf \in Seq(Byte) /\ reader = ScanOf(buf)
        /\ reader.committed_end \in 0 .. Len(buf)
        /\ phase = IF Torn(buf) THEN "torn" ELSE "clean"
    BY <1>1, Ended
  <2>2. reader.committed_end = CommittedEnd(buf)
    BY <2>1 DEF CommittedEnd
  <2>3. /\ Resting(Repaired) /\ ScanOf(Repaired).blocks = reader.blocks
        /\ CommittedEnd(Repaired) = reader.committed_end
    <3>1. CASE Torn(buf)
      <4>1. Repaired = Slice(buf, 0, reader.committed_end)
        BY <2>1, <3>1 DEF Repaired
      <4>2. ScanOf(Repaired).blocks = reader.blocks /\ CommittedEnd(Repaired) = reader.committed_end
        BY <2>1, <2>2, <4>1, CutAtCommit
      <4>3. Repaired \in Seq(Byte) /\ Len(Repaired) = reader.committed_end
        BY <2>1, <4>1, SliceBegins
      <4>4. Settled(Repaired)
        BY <4>2, <4>3, CommittedIsSettled
      <4> QED BY <4>2, <4>4, SettledIsResting
    <3>2. CASE ~Torn(buf)
      <4>1. Repaired = buf /\ ~RawTail
        BY <2>1, <3>2 DEF Repaired
      <4>2. \A q \in CommittedEnd(buf) .. Len(buf) - 1 : At(buf, q) # EM
        BY <2>2, <4>1 DEF RawTail
      <4> QED BY <2>1, <2>2, <3>2, <4>1, <4>2, CleanIsResting
    <3> QED BY <3>1, <3>2
  <2>4. ScanOf(Repaired \o batch).blocks =
          Append(ScanOf(Repaired).blocks,
                 [start |-> CommittedEnd(Repaired), stop |-> Len(Repaired) + Len(batch) - 1,
                  damaged |-> FALSE])
    BY <2>3, BatchLands
  <2> HIDE DEF Finished
  <2> QED BY <2>3, <2>4
<1> QED BY <1>1, ResultInvariant, PTL

(***************************************************************************)
(* For every buffer, what open_log appends to the repaired file is         *)
(* committed: a record, a text with an ETB in it and a level land as one   *)
(* more block, undamaged, from the commit before them to their ETB.        *)
(***************************************************************************)
THEOREM AppendsLand == Spec => []AppendLands
<1>1. AnyAppendLands => AppendLands
  BY AppendsAreCommits DEF AnyAppendLands, AppendLands
<1> QED BY <1>1, AnyAppendsLand, PTL

-----------------------------------------------------------------------------
(* Damage. *)

\* Where the reader of a block is behind the byte at p, or behind the text or
\* level that opens there.
ReadsTo(bytes, p, stop) ==
  IF At(bytes, p) = STX THEN Text(bytes, p, stop)
  ELSE IF At(bytes, p) = DLE THEN Level(bytes, p, stop)
  ELSE p + 1

LEMMA ReadsForward ==
  ASSUME NEW bytes, NEW stop \in Nat, NEW p \in 0 .. stop - 1
  PROVE  ReadsTo(bytes, p, stop) \in {Err} \cup (p + 1 .. stop)
<1>1. Text(bytes, p, stop) \in {Err} \cup (p + 1 .. stop)
  <2>1. p \in Nat
    OBVIOUS
  <2>2. Text(bytes, p, stop) \in {Err} \cup (p + 2 .. stop)
    BY <2>1, TextStops
  <2> QED BY <2>2
<1>2. Level(bytes, p, stop) \in {Err} \cup (p + 1 .. stop)
  <2>1. p \in Nat
    OBVIOUS
  <2>2. Level(bytes, p, stop) \in {Err} \cup (p + 2 .. stop)
    BY <2>1, LevelStops
  <2> QED BY <2>2
<1> QED BY <1>1, <1>2 DEF ReadsTo

\* A reader of the block from start on: at its stop it is done, before it goes on
\* as ReadsTo says.
IsReading(reads, bytes, start, stop) ==
  \A p \in start .. stop :
    /\ p = stop => reads[p] = TRUE
    /\ p # stop /\ ReadsTo(bytes, p, stop) = Err => reads[p] = FALSE
    /\ p # stop /\ ReadsTo(bytes, p, stop) # Err => reads[p] = reads[ReadsTo(bytes, p, stop)]

LEMMA OneReading ==
  ASSUME NEW bytes, NEW stop \in Nat, NEW start \in 0 .. stop, NEW f, NEW g,
         IsReading(f, bytes, start, stop), IsReading(g, bytes, start, stop)
  PROVE  \A p \in start .. stop : f[p] = g[p]
<1> DEFINE G == {p \in 0 .. stop : p >= start => f[p] = g[p]}
           q(p) == ReadsTo(bytes, p, stop)
<1>1. \A p \in start .. stop :
        /\ p = stop => f[p] = TRUE /\ g[p] = TRUE
        /\ p # stop /\ q(p) = Err => f[p] = FALSE /\ g[p] = FALSE
        /\ p # stop /\ q(p) # Err => f[p] = f[q(p)] /\ g[p] = g[q(p)]
  BY DEF IsReading
<1>2. \A p \in 0 .. stop - 1 : q(p) \in {Err} \cup (p + 1 .. stop)
  BY ReadsForward
<1> HIDE DEF q
<1>3. stop \in G
  <2>1. stop \in start .. stop
    OBVIOUS
  <2>2. f[stop] = TRUE /\ g[stop] = TRUE
    BY <1>1, <2>1
  <2>3. f[stop] = g[stop]
    BY <2>2
  <2> QED BY <2>3
<1>4. ASSUME NEW i \in 0 .. stop - 1, \A j \in i + 1 .. stop : j \in G
      PROVE  i \in G
  <2> SUFFICES ASSUME i >= start PROVE f[i] = g[i]
    OBVIOUS
  <2>1. i \in start .. stop /\ i # stop
    OBVIOUS
  <2>2. CASE q(i) = Err
    BY <1>1, <2>1, <2>2
  <2>3. CASE q(i) # Err
    <3>1. q(i) \in i + 1 .. stop
      BY <1>2, <2>3
    <3>2. q(i) \in G /\ q(i) >= start
      BY <1>4, <3>1
    <3>3. f[q(i)] = g[q(i)]
      BY <3>2
    <3> QED BY <1>1, <2>1, <2>3, <3>3
  <2> QED BY <2>2, <2>3
<1>5. \A i \in 0 .. stop : i \in G
  <2> HIDE DEF G
  <2> QED BY <1>3, <1>4, DownFrom
<1> QED BY <1>5

\* Reads is such a reader.
LEMMA ReadsIs ==
  ASSUME NEW bytes, NEW stop \in Nat, NEW start \in 0 .. stop
  PROVE  \E f : IsReading(f, bytes, start, stop) /\ Reads(bytes, start, stop) = f[start]
<1> DEFINE S == start .. stop
           q(p) == ReadsTo(bytes, p, stop)
           Value(f, p) == IF p = stop THEN TRUE ELSE q(p) # Err /\ f[q(p)]
           Body(f) == [p \in S |-> Value(f, p)]
           go   == [p \in S |-> p # stop /\ q(p) # Err]
           next == [p \in S |-> IF p # stop /\ q(p) # Err THEN q(p) ELSE p]
           out  == [p \in S |-> p = stop]
           reads == CHOOSE f : f = Body(f)
<1>1. \A p \in S : p # stop => q(p) \in {Err} \cup (p + 1 .. stop)
  BY ReadsForward
<1>2. Reads(bytes, start, stop) = reads[start]
  <2>1. \A p \in S : q(p) = CASE At(bytes, p) = STX -> Text(bytes, p, stop)
                               [] At(bytes, p) = DLE -> Level(bytes, p, stop)
                               [] OTHER              -> p + 1
    BY DEF ReadsTo, STX, DLE
  <2> DEFINE Given(f) == [p \in S |->
               IF p = stop THEN TRUE
               ELSE LET r == CASE At(bytes, p) = STX -> Text(bytes, p, stop)
                               [] At(bytes, p) = DLE -> Level(bytes, p, stop)
                               [] OTHER              -> p + 1
                    IN  r # Err /\ f[r]]
  <2> HIDE DEF q
  <2>2. \A f : Given(f) = Body(f)
    BY <2>1
  <2>3. Reads(bytes, start, stop) = (CHOOSE f : f = Given(f))[start]
    BY DEF Reads
  <2> HIDE DEF Given, Body
  <2>4. (CHOOSE f : f = Given(f)) = (CHOOSE f : f = Body(f))
    BY <2>2
  <2> QED BY <2>3, <2>4
<1> HIDE DEF q
<1>3. next \in [S -> S]
  BY <1>1
<1>4. PICK g : Follows(g, S, go, next, out)
  <2> HIDE DEF go, next, out, S
  <2> QED BY <1>3, TailRecursion
<1> DEFINE h == [p \in S |-> g[p] = TRUE]
<1>5. ASSUME NEW p \in S
      PROVE  h[p] = Value(h, p)
  <2>1. g[p] = IF go[p] THEN g[next[p]] ELSE out[p]
    BY <1>4 DEF Follows
  <2>2. CASE p = stop
    <3>1. ~go[p] /\ out[p] = TRUE
      BY <2>2
    <3> HIDE DEF go, next, out
    <3> QED BY <2>1, <2>2, <3>1
  <2>3. CASE p # stop /\ q(p) = Err
    <3>1. ~go[p] /\ out[p] = FALSE
      BY <2>3
    <3>2. h[p] = FALSE
      <4> HIDE DEF go, next, out
      <4> QED BY <2>1, <3>1
    <3> HIDE DEF h
    <3> QED BY <2>3, <3>2
  <2>4. CASE p # stop /\ q(p) # Err
    <3>1. go[p] /\ next[p] = q(p)
      BY <2>4
    <3>4. q(p) \in S
      BY <1>1, <2>4
    <3>2. g[p] = g[q(p)]
      <4> HIDE DEF go, next, out
      <4> QED BY <2>1, <3>1
    <3>3. h[p] = h[q(p)] /\ h[q(p)] \in BOOLEAN
      BY <3>4, <3>2
    <3> HIDE DEF h
    <3> QED BY <2>4, <3>3
  <2> QED BY <2>2, <2>3, <2>4
<1>6. reads = Body(reads)
  <2>1. h = Body(h)
    <3>1. h = [p \in S |-> h[p]]
      OBVIOUS
    <3> HIDE DEF Value, h, S
    <3> QED BY <1>5, <3>1
  <2> HIDE DEF Body, h
  <2> QED BY <2>1
<1> HIDE DEF reads
<1>7. ASSUME NEW p \in S
      PROVE  reads[p] = Value(reads, p) /\ reads[p] \in BOOLEAN
  <2>1. reads[p] = Value(reads, p)
    <3> HIDE DEF Value
    <3> QED BY <1>6
  <2>2. Value(reads, p) \in BOOLEAN
    OBVIOUS
  <2> HIDE DEF Value
  <2> QED BY <2>1, <2>2
<1>8. ASSUME NEW p \in S
      PROVE  /\ p = stop => reads[p] = TRUE
             /\ p # stop /\ q(p) = Err => reads[p] = FALSE
             /\ p # stop /\ q(p) # Err => reads[p] = reads[q(p)]
  <2>1. p # stop /\ q(p) # Err => q(p) \in S
    BY <1>1
  <2>2. p # stop /\ q(p) # Err => reads[q(p)] \in BOOLEAN
    BY <1>7, <2>1
  <2> QED BY <1>7, <2>2
<1>9. IsReading(reads, bytes, start, stop)
  BY <1>8 DEF IsReading, q
<1> QED BY <1>2, <1>9

\* Reads, byte by byte.
LEMMA ReadsUnfolds ==
  ASSUME NEW bytes, NEW stop \in Nat, NEW p \in 0 .. stop
  PROVE  /\ p = stop => Reads(bytes, p, stop) = TRUE
         /\ p < stop /\ ReadsTo(bytes, p, stop) = Err => Reads(bytes, p, stop) = FALSE
         /\ p < stop /\ ReadsTo(bytes, p, stop) # Err =>
              Reads(bytes, p, stop) = Reads(bytes, ReadsTo(bytes, p, stop), stop)
<1> DEFINE q == ReadsTo(bytes, p, stop)
<1>1. PICK f : IsReading(f, bytes, p, stop) /\ Reads(bytes, p, stop) = f[p]
  BY ReadsIs
<1>2. /\ p = stop => f[p] = TRUE
      /\ p # stop /\ q = Err => f[p] = FALSE
      /\ p # stop /\ q # Err => f[p] = f[q]
  BY <1>1 DEF IsReading
<1>3. p < stop => q \in {Err} \cup (p + 1 .. stop)
  BY ReadsForward
<1> HIDE DEF q
<1>4. ASSUME p < stop, q # Err
      PROVE  f[q] = Reads(bytes, q, stop)
  <2>1. q \in 0 .. stop /\ q >= p
    BY <1>3, <1>4
  <2>2. PICK g : IsReading(g, bytes, q, stop) /\ Reads(bytes, q, stop) = g[q]
    BY <2>1, ReadsIs
  <2>3. \A x \in q .. stop : x \in p .. stop
    BY <2>1
  <2>4. IsReading(f, bytes, q, stop)
    BY <1>1, <2>3 DEF IsReading
  <2>5. \A x \in q .. stop : f[x] = g[x]
    BY <2>1, <2>2, <2>4, OneReading
  <2> QED BY <2>1, <2>2, <2>5
<1> DEFINE R == Reads(bytes, p, stop)
           N == Reads(bytes, q, stop)
<1>5. R = f[p]
  BY <1>1
<1>6. p < stop /\ q # Err => N = f[q]
  BY <1>4
<1> HIDE DEF R, N
<1>7. p < stop => p # stop
  OBVIOUS
<1>8. p = stop => R = TRUE
  BY <1>2, <1>5, Zenon
<1>9. p < stop /\ q = Err => R = FALSE
  BY <1>2, <1>5, <1>7, Zenon
<1>10. p < stop /\ q # Err => R = N
  BY <1>2, <1>5, <1>6, <1>7, Zenon
<1> QED BY <1>8, <1>9, <1>10 DEF q, R, N

\* A block reads from p on.
Readable(bytes, p, stop) == Reads(bytes, p, stop) = TRUE

LEMMA ReadableUnfolds ==
  ASSUME NEW bytes, NEW stop \in Nat, NEW p \in 0 .. stop
  PROVE  /\ p = stop => Readable(bytes, p, stop)
         /\ p < stop /\ ReadsTo(bytes, p, stop) = Err => ~Readable(bytes, p, stop)
         /\ p < stop /\ ReadsTo(bytes, p, stop) # Err =>
              (Readable(bytes, p, stop) <=> Readable(bytes, ReadsTo(bytes, p, stop), stop))
<1> DEFINE R == Reads(bytes, p, stop)
           q == ReadsTo(bytes, p, stop)
           N == Reads(bytes, q, stop)
<1>1. /\ p = stop => R = TRUE
      /\ p < stop /\ q = Err => R = FALSE
      /\ p < stop /\ q # Err => R = N
  BY ReadsUnfolds
<1> HIDE DEF R, q, N
<1>2. /\ p = stop => R = TRUE
      /\ p < stop /\ q = Err => ~(R = TRUE)
      /\ p < stop /\ q # Err => (R = TRUE <=> N = TRUE)
  BY <1>1, Zenon
<1> QED BY <1>2 DEF Readable, R, q, N

\* At p, outside a text and behind depth levels that are open, a block can be read
\* to stop.
After(bytes, stop, p, depth) ==
  IF depth = 0 THEN Readable(bytes, p, stop)
  ELSE /\ LevelRest(bytes, stop)[<<p, depth>>] # Err
       /\ Readable(bytes, LevelRest(bytes, stop)[<<p, depth>>], stop)

\* What scan::text and scan::level do there goes with what the loop counts.
LEMMA AfterUnfolds ==
  ASSUME NEW bytes, NEW stop \in Nat, NEW p \in 0 .. stop - 1, NEW depth \in Nat,
         NEW b, b = At(bytes, p)
  PROVE  /\ b = STX => ( After(bytes, stop, p, depth) <=>
                           /\ TextRest(bytes, stop)[p + 1] # Err
                           /\ After(bytes, stop, TextRest(bytes, stop)[p + 1], depth) )
         /\ b = DLE => (After(bytes, stop, p, depth) <=> After(bytes, stop, p + 1, depth + 1))
         /\ b = CAN => ( After(bytes, stop, p, depth) <=>
                           After(bytes, stop, p + 1, IF depth = 0 THEN 0 ELSE depth - 1) )
         /\ PlainInLevel(b) \/ (depth = 0 /\ b # STX /\ b # DLE) =>
              (After(bytes, stop, p, depth) <=> After(bytes, stop, p + 1, depth))
         /\ b \in {EOT, EM} /\ depth > 0 => ~After(bytes, stop, p, depth)
<1> DEFINE t(q) == TextRest(bytes, stop)[q]
           l(q, d) == LevelRest(bytes, stop)[<<q, d>>]
           R(q) == Readable(bytes, q, stop)
<1>1. STX = 2 /\ EOT = 4 /\ DLE = 16 /\ SYN = 22 /\ ETB = 23 /\ CAN = 24 /\ EM = 25
  BY DEF STX, EOT, DLE, SYN, ETB, CAN, EM
<1>2. /\ p + 1 \in 0 .. stop /\ p \in 0 .. stop /\ p < stop /\ p \in Nat /\ ~(p + 1 > stop)
      /\ p # stop
  OBVIOUS
<1>3. t(p + 1) \in {Err} \cup (p + 2 .. stop)
  BY <1>2, TextStops
<1>4. \A q \in 0 .. stop, d \in Nat \ {0} : l(q, d) \in {Err} \cup (q + 1 .. stop)
  BY LevelStops, Zenon
<1>5. Text(bytes, p, stop) = t(p + 1) /\ Level(bytes, p, stop) = l(p + 1, 1)
  BY <1>2, TextUnfolds, LevelUnfolds
<1>6. depth = 0 => (After(bytes, stop, p, depth) <=> R(p))
  BY DEF After
<1>7. \A q, d : d \in Nat \ {0} => (After(bytes, stop, q, d) <=> l(q, d) # Err /\ R(l(q, d)))
  BY DEF After
<1>8. \A q : After(bytes, stop, q, 0) <=> R(q)
  BY DEF After
<1>9. /\ b = STX => (R(p) <=> t(p + 1) # Err /\ R(t(p + 1)))
      /\ b = DLE => (R(p) <=> l(p + 1, 1) # Err /\ R(l(p + 1, 1)))
      /\ b # STX /\ b # DLE => (R(p) <=> R(p + 1))
  <2> DEFINE q == ReadsTo(bytes, p, stop)
  <2>1. /\ q = Err => ~R(p)
        /\ q # Err => (R(p) <=> R(q))
    BY <1>2, ReadableUnfolds
  <2>2. /\ b = STX => q = t(p + 1)
        /\ b = DLE => q = l(p + 1, 1)
        /\ b # STX /\ b # DLE => q = p + 1 /\ q # Err
    <3> HIDE DEF t, l
    <3> QED BY <1>1, <1>2, <1>5 DEF ReadsTo, Err
  <2> HIDE DEF R, q, t, l
  <2> QED BY <2>1, <2>2
<1>10. ASSUME depth # 0
       PROVE  /\ b = STX => l(p, depth) = IF t(p + 1) = Err THEN Err ELSE l(t(p + 1), depth)
              /\ b = DLE => l(p, depth) = l(p + 1, depth + 1)
              /\ b = CAN => l(p, depth) = IF depth = 1 THEN p + 1 ELSE l(p + 1, depth - 1)
              /\ PlainInLevel(b) => l(p, depth) = l(p + 1, depth)
              /\ b \in {EOT, EM} => l(p, depth) = Err
  <2> DEFINE goes == LevelGoesOn(bytes, stop, p, depth)
             next == LevelNext(bytes, stop, p, depth)
  <2>1. depth \in Nat \ {0}
    BY <1>10
  <2>2. l(p, depth) = IF goes THEN LevelRest(bytes, stop)[next]
                      ELSE IF b = CAN THEN p + 1 ELSE Err
    BY <1>2, <2>1, LevelUnfolds DEF LevelUnfolded
  <2>3. /\ b = STX => (goes <=> t(p + 1) # Err) /\ next = <<t(p + 1), depth>>
        /\ b = DLE => goes /\ next = <<p + 1, depth + 1>>
        /\ b = CAN => (goes <=> depth # 1) /\ next = <<p + 1, depth - 1>>
        /\ PlainInLevel(b) => goes /\ next = <<p + 1, depth>> /\ b # CAN
        /\ b \in {EOT, EM} => ~goes /\ b # CAN
    <3> HIDE DEF t
    <3> QED BY <1>1, <1>2, <1>5 DEF LevelGoesOn, LevelNext, PlainInLevel
  <2>4. b = STX \/ b = DLE => b # CAN
    BY <1>1
  <2> HIDE DEF goes, next, t
  <2> QED BY <2>2, <2>3, <2>4
<1>11. t(p + 1) # Err => t(p + 1) \in 0 .. stop
  BY <1>2, <1>3
<1>12. p + 1 # Err
  BY <1>2 DEF Err
<1> HIDE DEF t, l, R
<1>13. CASE depth = 0
  <2>1. depth + 1 = 1 /\ 1 \in Nat \ {0}
    BY <1>13
  <2>2. ~PlainInLevel(STX) /\ ~PlainInLevel(DLE) /\ CAN # STX /\ CAN # DLE
    BY <1>1 DEF PlainInLevel
  <2>3. PlainInLevel(b) => b # STX /\ b # DLE
    BY <2>2
  <2>4. b = CAN => b # STX /\ b # DLE
    BY <2>2
  <2>5. b = STX => ( After(bytes, stop, p, 0) <=>
                       t(p + 1) # Err /\ After(bytes, stop, t(p + 1), 0) )
    BY <1>8, <1>9
  <2>6. b = DLE => (After(bytes, stop, p, 0) <=> After(bytes, stop, p + 1, 1))
    BY <1>7, <1>8, <1>9, <2>1
  <2>7. b # STX /\ b # DLE => (After(bytes, stop, p, 0) <=> After(bytes, stop, p + 1, 0))
    BY <1>8, <1>9
  <2>8. ~(depth > 0)
    BY <1>13
  <2> QED BY <1>13, <2>1, <2>3, <2>4, <2>5, <2>6, <2>7, <2>8 DEF t
<1>14. CASE depth # 0
  <2>1. depth \in Nat \ {0} /\ depth + 1 \in Nat \ {0} /\ (depth # 1 => depth - 1 \in Nat \ {0})
    BY <1>14
  <2>2. After(bytes, stop, p, depth) <=> l(p, depth) # Err /\ R(l(p, depth))
    BY <1>7, <2>1
  <2>3. b = STX => ( After(bytes, stop, p, depth) <=>
                       t(p + 1) # Err /\ After(bytes, stop, t(p + 1), depth) )
    BY <1>7, <1>10, <1>14, <2>1, <2>2
  <2>4. b = DLE => (After(bytes, stop, p, depth) <=> After(bytes, stop, p + 1, depth + 1))
    BY <1>7, <1>10, <1>14, <2>1, <2>2
  <2>5. b = CAN => (After(bytes, stop, p, depth) <=> After(bytes, stop, p + 1, depth - 1))
    <3>1. CASE depth = 1
      <4>1. b = CAN => l(p, depth) = p + 1
        BY <1>10, <1>14, <3>1
      <4>2. After(bytes, stop, p + 1, depth - 1) <=> R(p + 1)
        BY <1>8, <3>1
      <4> QED BY <1>12, <2>2, <4>1, <4>2
    <3>2. CASE depth # 1
      BY <1>7, <1>10, <1>14, <2>1, <2>2, <3>2
    <3> QED BY <3>1, <3>2
  <2>6. PlainInLevel(b) => (After(bytes, stop, p, depth) <=> After(bytes, stop, p + 1, depth))
    BY <1>7, <1>10, <1>14, <2>1, <2>2
  <2>7. b \in {EOT, EM} => ~After(bytes, stop, p, depth)
    BY <1>10, <1>14, <2>2
  <2> QED BY <1>14, <2>3, <2>4, <2>5, <2>6, <2>7 DEF t
<1> QED BY <1>13, <1>14

\* At its stop a block must have no level open.
LEMMA AfterAtStop ==
  ASSUME NEW bytes, NEW stop \in Nat, NEW depth \in Nat
  PROVE  After(bytes, stop, stop, depth) <=> depth = 0
<1>1. CASE depth = 0
  <2>1. Readable(bytes, stop, stop)
    BY ReadableUnfolds
  <2> QED BY <1>1, <2>1 DEF After
<1>2. CASE depth # 0
  <2>1. LevelUnfolded(bytes, stop, LevelRest(bytes, stop), stop, depth)
    BY <1>2, LevelUnfolds
  <2>2. LevelRest(bytes, stop)[<<stop, depth>>] = Err
    BY <2>1 DEF LevelUnfolded, LevelGoesOn
  <2> QED BY <1>2, <2>2 DEF After
<1> QED BY <1>1, <1>2

\* Where the loop is, a block that ends at stop can still be read to there.
Onward(bytes, stop, r) ==
  IF r.in_text
  THEN /\ TextRest(bytes, stop)[r.pos] # Err
       /\ After(bytes, stop, TextRest(bytes, stop)[r.pos], r.depth)
  ELSE After(bytes, stop, r.pos, r.depth)

\* The byte at the loop's place is one that the readers of the block do not get
\* over and the loop does not mind.
Overlooked(bytes, stop, r) ==
  \/ /\ r.in_text
     /\ \/ At(bytes, r.pos) \in {STX, EOT, EM}
        \/ At(bytes, r.pos) = DLE /\ ~EscapeAt(bytes, r.pos, stop)
  \/ ~r.in_text /\ r.depth > 0 /\ At(bytes, r.pos) \in {EOT, EM}

\* In a text the loop goes as the readers of the block go.
LEMMA OnwardInText ==
  ASSUME NEW bytes, NEW r \in Reader, Reading(bytes, r), r.in_text,
         At(bytes, r.pos) # ETB, At(bytes, r.pos) # SYN,
         NEW stop \in Nat, Step(bytes, r).pos <= stop, r.pos < stop
  PROVE  /\ Overlooked(bytes, stop, r) => ~Onward(bytes, stop, r)
         /\ ~Overlooked(bytes, stop, r) =>
              (Onward(bytes, stop, r) <=> Onward(bytes, stop, Step(bytes, r)))
<1> DEFINE s == Step(bytes, r)
           b == At(bytes, r.pos)
           t(q) == TextRest(bytes, stop)[q]
           escape == EscapeAt(bytes, r.pos, stop)
           A(q) == After(bytes, stop, q, r.depth)
<1>0. r.pos \in 0 .. stop - 1 /\ r.pos \in Nat /\ r.depth \in Nat
  BY DEF Reader
<1>1. /\ STX = 2 /\ ETX = 3 /\ EOT = 4 /\ DLE = 16 /\ SYN = 22 /\ ETB = 23 /\ EM = 25
  BY DEF STX, ETX, EOT, DLE, SYN, ETB, EM
<1>2. /\ escape => t(r.pos) = t(r.pos + 2)
      /\ b = ETX => t(r.pos) = r.pos + 1
      /\ PlainInText(b) => t(r.pos) = t(r.pos + 1)
      /\ ~escape /\ b # ETX /\ ~PlainInText(b) => t(r.pos) = Err
  BY <1>0, TextUnfolds
<1>3. /\ b = DLE => s = SkipEscaped(r)
      /\ b = ETX => s = CloseText(r)
      /\ b # DLE /\ b # ETX /\ b # ETB /\ b # SYN /\ b # EOT /\ b # EM => s = Skip(r)
  BY StepInText
<1>4. /\ Changed(r, Skip(r), r.pos + 1, TRUE, r.depth)
      /\ Changed(r, SkipEscaped(r), r.pos + 2, TRUE, r.depth)
      /\ Changed(r, CloseText(r), r.pos + 1, FALSE, r.depth)
  <2>1. r.in_text = TRUE
    BY DEF Reader
  <2> QED BY <2>1, FieldsOf
<1>5. Onward(bytes, stop, r) <=> t(r.pos) # Err /\ A(t(r.pos))
  BY DEF Onward
<1>6. ASSUME s.in_text, s.depth = r.depth
      PROVE  Onward(bytes, stop, s) <=> t(s.pos) # Err /\ A(t(s.pos))
  BY <1>6 DEF Onward
<1>7. ASSUME ~s.in_text, s.depth = r.depth
      PROVE  Onward(bytes, stop, s) <=> A(s.pos)
  BY <1>7 DEF Onward
<1>8. escape => b = DLE
  BY DEF EscapeAt
<1>9. Overlooked(bytes, stop, r) <=> b \in {STX, EOT, EM} \/ (b = DLE /\ ~escape)
  BY DEF Overlooked
<1>10. PlainInText(b) <=> b # DLE /\ b # ETX /\ b # STX /\ b # ETB /\ b # EOT /\ b # SYN /\ b # EM
  BY DEF PlainInText
<1>11. r.pos + 1 # Err
  BY <1>0 DEF Err
<1> HIDE DEF s, b, t, escape, A
<1>12. CASE Overlooked(bytes, stop, r)
  <2>1. ~escape /\ b # ETX /\ ~PlainInText(b)
    BY <1>1, <1>8, <1>9, <1>10, <1>12
  <2> QED BY <1>2, <1>5, <1>12, <2>1
<1>13. CASE ~Overlooked(bytes, stop, r)
  <2>1. CASE b = DLE
    <3>1. escape
      BY <1>9, <1>13, <2>1
    <3>2. s.pos = r.pos + 2 /\ s.in_text /\ s.depth = r.depth
      BY <1>3, <1>4, <2>1 DEF Changed
    <3>3. t(r.pos) = t(s.pos)
      BY <1>2, <3>1, <3>2
    <3>4. Onward(bytes, stop, s) <=> t(s.pos) # Err /\ A(t(s.pos))
      BY <1>6, <3>2
    <3>5. Onward(bytes, stop, r) <=> Onward(bytes, stop, s)
      BY <1>5, <3>3, <3>4
    <3> QED BY <1>13, <3>5 DEF s
  <2>2. CASE b = ETX
    <3>2. s.pos = r.pos + 1 /\ ~s.in_text /\ s.depth = r.depth
      BY <1>3, <1>4, <2>2 DEF Changed
    <3>3. t(r.pos) = s.pos /\ s.pos # Err
      BY <1>2, <1>11, <2>2, <3>2
    <3>4. Onward(bytes, stop, s) <=> A(s.pos)
      BY <1>7, <3>2
    <3>5. Onward(bytes, stop, r) <=> Onward(bytes, stop, s)
      BY <1>5, <3>3, <3>4
    <3> QED BY <1>13, <3>5 DEF s
  <2>3. CASE b # DLE /\ b # ETX
    <3>1. PlainInText(b)
      BY <1>9, <1>10, <1>13, <2>3 DEF b
    <3>2. s.pos = r.pos + 1 /\ s.in_text /\ s.depth = r.depth
      BY <1>3, <1>4, <1>10, <3>1 DEF Changed
    <3>3. t(r.pos) = t(s.pos)
      BY <1>2, <3>1, <3>2
    <3>4. Onward(bytes, stop, s) <=> t(s.pos) # Err /\ A(t(s.pos))
      BY <1>6, <3>2
    <3>5. Onward(bytes, stop, r) <=> Onward(bytes, stop, s)
      BY <1>5, <3>3, <3>4
    <3> QED BY <1>13, <3>5 DEF s
  <2> QED BY <2>1, <2>2, <2>3
<1> QED BY <1>12, <1>13

\* So it does outside one.
LEMMA OnwardOutside ==
  ASSUME NEW bytes, NEW r \in Reader, Reading(bytes, r), ~r.in_text,
         At(bytes, r.pos) # ETB, At(bytes, r.pos) = SYN => r.pos = 0 /\ r.depth = 0,
         NEW stop \in Nat, r.pos < stop
  PROVE  /\ Overlooked(bytes, stop, r) => ~Onward(bytes, stop, r)
         /\ ~Overlooked(bytes, stop, r) =>
              (Onward(bytes, stop, r) <=> Onward(bytes, stop, Step(bytes, r)))
<1> DEFINE s == Step(bytes, r)
           b == At(bytes, r.pos)
           p == r.pos
           d == r.depth
           u == IF d = 0 THEN 0 ELSE d - 1
           t(q) == TextRest(bytes, stop)[q]
           A(q, n) == After(bytes, stop, q, n)
<1>0. p \in 0 .. stop - 1 /\ p \in Nat /\ d \in Nat
  BY DEF Reader
<1>1. /\ STX = 2 /\ EOT = 4 /\ DLE = 16 /\ SYN = 22 /\ ETB = 23 /\ CAN = 24 /\ EM = 25
  BY DEF STX, EOT, DLE, SYN, ETB, CAN, EM
<1>2. /\ b = STX => (A(p, d) <=> t(p + 1) # Err /\ A(t(p + 1), d))
      /\ b = DLE => (A(p, d) <=> A(p + 1, d + 1))
      /\ b = CAN => (A(p, d) <=> A(p + 1, u))
      /\ PlainInLevel(b) \/ (d = 0 /\ b # STX /\ b # DLE) => (A(p, d) <=> A(p + 1, d))
      /\ b \in {EOT, EM} /\ d > 0 => ~A(p, d)
  <2>1. b = At(bytes, p)
    OBVIOUS
  <2> HIDE DEF b, p, d
  <2> QED BY <1>0, <2>1, AfterUnfolds
<1>3. /\ b = STX => s = OpenText(r)
      /\ b = DLE => s = EnterLevel(r)
      /\ b = CAN => s = CloseLevel(r)
      /\ b = SYN /\ ~(p > 0) => s = Skip(r)
      /\ b # STX /\ b # DLE /\ b # CAN /\ b # ETB /\ b # SYN => s = Skip(r)
  BY StepOutside
<1>4. /\ Changed(r, Skip(r), p + 1, FALSE, d)
      /\ Changed(r, OpenText(r), p + 1, TRUE, d)
      /\ Changed(r, EnterLevel(r), p + 1, FALSE, d + 1)
      /\ Changed(r, CloseLevel(r), p + 1, FALSE, u)
  <2>1. r.in_text = FALSE
    BY DEF Reader
  <2> QED BY <2>1, FieldsOf
<1>5. Onward(bytes, stop, r) <=> A(p, d)
  BY DEF Onward
<1>6. ASSUME s.in_text
      PROVE  Onward(bytes, stop, s) <=> t(s.pos) # Err /\ A(t(s.pos), s.depth)
  BY <1>6 DEF Onward
<1>7. ASSUME ~s.in_text
      PROVE  Onward(bytes, stop, s) <=> A(s.pos, s.depth)
  BY <1>7 DEF Onward
<1>9. Overlooked(bytes, stop, r) <=> d > 0 /\ b \in {EOT, EM}
  BY DEF Overlooked
<1>10. PlainInLevel(b) <=> b # STX /\ b # DLE /\ b # CAN /\ b # ETB /\ b # EOT /\ b # SYN /\ b # EM
  BY DEF PlainInLevel
<1>11. b # ETB /\ (b = SYN => p = 0 /\ d = 0)
  OBVIOUS
<1> HIDE DEF s, b, p, d, u, t, A
<1>12. CASE Overlooked(bytes, stop, r)
  BY <1>2, <1>5, <1>9, <1>12
<1>13. CASE ~Overlooked(bytes, stop, r)
  <2>1. CASE b = STX
    <3>1. s.in_text /\ s.pos = p + 1 /\ s.depth = d
      BY <1>3, <1>4, <2>1 DEF Changed
    <3>2. Onward(bytes, stop, s) <=> t(p + 1) # Err /\ A(t(p + 1), d)
      BY <1>6, <3>1
    <3>3. Onward(bytes, stop, r) <=> Onward(bytes, stop, s)
      BY <1>2, <1>5, <2>1, <3>2
    <3> QED BY <1>13, <3>3 DEF s
  <2>2. CASE b = DLE
    <3>1. ~s.in_text /\ s.pos = p + 1 /\ s.depth = d + 1
      BY <1>3, <1>4, <2>2 DEF Changed
    <3>2. Onward(bytes, stop, s) <=> A(p + 1, d + 1)
      BY <1>7, <3>1
    <3>3. Onward(bytes, stop, r) <=> Onward(bytes, stop, s)
      BY <1>2, <1>5, <2>2, <3>2
    <3> QED BY <1>13, <3>3 DEF s
  <2>3. CASE b = CAN
    <3>1. ~s.in_text /\ s.pos = p + 1 /\ s.depth = u
      BY <1>3, <1>4, <2>3 DEF Changed
    <3>2. Onward(bytes, stop, s) <=> A(p + 1, u)
      BY <1>7, <3>1
    <3>3. Onward(bytes, stop, r) <=> Onward(bytes, stop, s)
      BY <1>2, <1>5, <2>3, <3>2
    <3> QED BY <1>13, <3>3 DEF s
  <2>4. CASE b # STX /\ b # DLE /\ b # CAN
    <3>1. s = Skip(r)
      BY <1>3, <1>11, <2>4
    <3>2. ~s.in_text /\ s.pos = p + 1 /\ s.depth = d
      BY <1>4, <3>1 DEF Changed
    <3>3. Onward(bytes, stop, s) <=> A(p + 1, d)
      BY <1>7, <3>2
    <3>4. PlainInLevel(b) \/ d = 0
      BY <1>0, <1>9, <1>10, <1>11, <1>13, <2>4
    <3>5. Onward(bytes, stop, r) <=> Onward(bytes, stop, s)
      BY <1>2, <1>5, <2>4, <3>3, <3>4
    <3> QED BY <1>13, <3>5 DEF s
  <2> QED BY <2>1, <2>2, <2>3, <2>4
<1> QED BY <1>12, <1>13

\* What the loop has seen of the block it is in: an STX that no ETX has closed if
\* it is in a text, a DLE if it is in a level.
Knows(bytes, r) ==
  /\ r.block_start <= r.pos
  /\ r.in_text => OpenedBefore(bytes, r.block_start, r.pos)
  /\ r.depth > 0 => \E p \in r.block_start .. r.pos - 1 : At(bytes, p) = DLE

\* An open text stays open up to an ETX.
LEMMA OpenedOn ==
  ASSUME NEW bytes, NEW start \in Nat, NEW q \in Nat, start <= q
  PROVE  /\ At(bytes, q) = STX => OpenedBefore(bytes, start, q + 1)
         /\ OpenedBefore(bytes, start, q) /\ At(bytes, q) # ETX =>
              OpenedBefore(bytes, start, q + 1)
         /\ OpenedBefore(bytes, start, q) /\ At(bytes, q) = DLE =>
              OpenedBefore(bytes, start, q + 2)
<1> DEFINE Opens(p, k) == /\ At(bytes, p) = STX
                          /\ \A i \in p + 1 .. k - 1 : At(bytes, i) = ETX => At(bytes, i - 1) = DLE
<1>1. \A k : OpenedBefore(bytes, start, k) <=> \E p \in start .. k - 1 : Opens(p, k)
  BY DEF OpenedBefore
<1>2. At(bytes, q) = STX => Opens(q, q + 1) /\ q \in start .. (q + 1) - 1
  <2>1. \A i \in q + 1 .. (q + 1) - 1 : FALSE
    OBVIOUS
  <2> QED BY <2>1
<1>3. ASSUME NEW p \in start .. q - 1, Opens(p, q), At(bytes, q) # ETX
      PROVE  p \in start .. (q + 1) - 1 /\ Opens(p, q + 1)
  <2>1. \A i \in p + 1 .. (q + 1) - 1 : i \in p + 1 .. q - 1 \/ i = q
    OBVIOUS
  <2> QED BY <1>3, <2>1
<1>4. ASSUME NEW p \in start .. q - 1, Opens(p, q), At(bytes, q) = DLE
      PROVE  p \in start .. (q + 2) - 1 /\ Opens(p, q + 2)
  <2>1. \A i \in p + 1 .. (q + 2) - 1 : i \in p + 1 .. q - 1 \/ i = q \/ (i = q + 1 /\ i - 1 = q)
    OBVIOUS
  <2>2. DLE # ETX
    BY DEF DLE, ETX
  <2> QED BY <1>4, <2>1, <2>2
<1> HIDE DEF Opens
<1> QED BY <1>1, <1>2, <1>3, <1>4

\* What Restart makes of a reader, and when a step is one.
LEMMA RestartIs ==
  ASSUME NEW bytes, NEW r \in Reader, Reading(bytes, r), NEW b, b = At(bytes, r.pos), b # ETB,
         NEW s, s = Step(bytes, r)
  PROVE  /\ b = SYN /\ (r.in_text \/ r.pos > 0) =>
              s.pos = r.pos + 1 /\ s.block_start = r.pos /\ ~s.in_text /\ s.depth = 0
         /\ r.in_text /\ b \in {EOT, EM} =>
              /\ s.pos = r.pos + 1 /\ s.block_start = r.block_start
              /\ ~s.in_text /\ s.depth = 0
<1>1. SYN = 22 /\ EOT = 4 /\ EM = 25
  BY DEF SYN, EOT, EM
<1>2. \A start : /\ Restart(r, start).pos = r.pos + 1 /\ Restart(r, start).block_start = start
                 /\ ~Restart(r, start).in_text /\ Restart(r, start).depth = 0
  BY DEF Restart
<1>3. r.in_text /\ b \in {SYN, EOT, EM} =>
        s = IF b = SYN THEN Restart(r, r.pos) ELSE Restart(r, r.block_start)
  <2>1. r.in_text /\ b \in {SYN, EOT, EM} => s = CutText(bytes, r)
    BY StepInText
  <2> QED BY <2>1 DEF CutText
<1>4. ~r.in_text /\ b = SYN /\ r.pos > 0 => s = Restart(r, r.pos)
  BY StepOutside DEF StartDocument
<1> QED BY <1>1, <1>2, <1>3, <1>4

LEMMA KnowsOn ==
  ASSUME NEW bytes, NEW r \in Reader, Reading(bytes, r), Knows(bytes, r), At(bytes, r.pos) # ETB
  PROVE  Knows(bytes, Step(bytes, r))
<1> DEFINE s == Step(bytes, r)
           b == At(bytes, r.pos)
           p == r.pos
           d == r.depth
           B == r.block_start
           u == IF d = 0 THEN 0 ELSE d - 1
           Open(n) == OpenedBefore(bytes, B, n)
           Level0(n) == \E q \in B .. n - 1 : At(bytes, q) = DLE
<1>0. p \in Nat /\ d \in Nat /\ B \in Nat /\ B <= p
  BY DEF Reader, Knows
<1>1. /\ STX = 2 /\ ETX = 3 /\ EOT = 4 /\ DLE = 16 /\ SYN = 22 /\ ETB = 23 /\ CAN = 24 /\ EM = 25
  BY DEF STX, ETX, EOT, DLE, SYN, ETB, CAN, EM
<1>2. /\ b = STX => Open(p + 1)
      /\ Open(p) /\ b # ETX => Open(p + 1)
      /\ Open(p) /\ b = DLE => Open(p + 2)
  BY <1>0, OpenedOn
<1>3. /\ Level0(p) => Level0(p + 1) /\ Level0(p + 2)
      /\ b = DLE => Level0(p + 1)
  <2>1. \A q \in B .. p - 1 : q \in B .. (p + 1) - 1 /\ q \in B .. (p + 2) - 1
    BY <1>0
  <2>2. p \in B .. (p + 1) - 1
    BY <1>0
  <2> QED BY <2>1, <2>2
<1>4. (r.in_text => Open(p)) /\ (d > 0 => Level0(p))
  BY DEF Knows
<1>5. /\ r.in_text /\ b = DLE => s = SkipEscaped(r)
      /\ r.in_text /\ b = ETX => s = CloseText(r)
      /\ r.in_text /\ b # DLE /\ b # ETX /\ b # ETB /\ b # SYN /\ b # EOT /\ b # EM => s = Skip(r)
  BY StepInText
<1>6. /\ ~r.in_text /\ b = STX => s = OpenText(r)
      /\ ~r.in_text /\ b = DLE => s = EnterLevel(r)
      /\ ~r.in_text /\ b = CAN => s = CloseLevel(r)
      /\ ~r.in_text /\ b = SYN /\ ~(p > 0) => s = Skip(r)
      /\ ~r.in_text /\ b # STX /\ b # DLE /\ b # CAN /\ b # ETB /\ b # SYN => s = Skip(r)
  BY StepOutside
<1>7. /\ b = SYN /\ (r.in_text \/ p > 0) =>
           s.pos = p + 1 /\ s.block_start = p /\ ~s.in_text /\ s.depth = 0
      /\ r.in_text /\ b \in {EOT, EM} =>
           s.pos = p + 1 /\ s.block_start = B /\ ~s.in_text /\ s.depth = 0
  BY RestartIs
<1>8. /\ Changed(r, Skip(r), p + 1, r.in_text, d)
      /\ Changed(r, SkipEscaped(r), p + 2, r.in_text, d)
      /\ Changed(r, OpenText(r), p + 1, TRUE, d)
      /\ Changed(r, CloseText(r), p + 1, FALSE, d)
      /\ Changed(r, EnterLevel(r), p + 1, r.in_text, d + 1)
      /\ Changed(r, CloseLevel(r), p + 1, r.in_text, u)
  BY FieldsOf
<1>9. r.in_text \in BOOLEAN /\ b # ETB
  BY DEF Reader
<1> HIDE DEF Open, Level0
<1> SUFFICES /\ s.block_start <= s.pos
             /\ s.in_text => OpenedBefore(bytes, s.block_start, s.pos)
             /\ s.depth > 0 => \E q \in s.block_start .. s.pos - 1 : At(bytes, q) = DLE
  BY DEF Knows
<1>10. \A n, m, k : /\ k = B => (OpenedBefore(bytes, k, n) <=> Open(n))
                    /\ k = B => ((\E q \in k .. n - 1 : At(bytes, q) = DLE) <=> Level0(n))
  BY DEF Open, Level0
<1> HIDE DEF s, b, p, d, B, u
<1>11. CASE s.depth = 0 /\ ~s.in_text /\ s.block_start <= s.pos
  BY <1>11
<1>12. ASSUME s.block_start = B,
              s.pos = p + 1 \/ s.pos = p + 2,
              s.in_text => Open(s.pos),
              s.depth > 0 => Level0(s.pos)
       PROVE  /\ s.block_start <= s.pos
              /\ s.in_text => OpenedBefore(bytes, s.block_start, s.pos)
              /\ s.depth > 0 => \E q \in s.block_start .. s.pos - 1 : At(bytes, q) = DLE
  <2>1. s.block_start <= s.pos
    BY <1>0, <1>12
  <2> QED BY <1>10, <1>12, <2>1
<1>13. CASE b = SYN /\ (r.in_text \/ p > 0)
  BY <1>0, <1>7, <1>13
<1>14. CASE r.in_text /\ b \in {EOT, EM}
  BY <1>0, <1>7, <1>14
<1>15. CASE r.in_text /\ b = DLE
  <2>1. s.block_start = B /\ s.pos = p + 2 /\ s.depth = d
    BY <1>5, <1>8, <1>15 DEF Changed, B
  <2>2. Open(p + 2) /\ (d > 0 => Level0(p + 2))
    BY <1>2, <1>3, <1>4, <1>15
  <2> QED BY <1>12, <2>1, <2>2
<1>16. CASE r.in_text /\ b = ETX
  <2>1. s.block_start = B /\ s.pos = p + 1 /\ ~s.in_text /\ s.depth = d
    BY <1>5, <1>8, <1>16 DEF Changed, B
  <2>2. d > 0 => Level0(p + 1)
    BY <1>3, <1>4
  <2> QED BY <1>12, <2>1, <2>2
<1>17. CASE r.in_text /\ b # DLE /\ b # ETX /\ b # SYN /\ b \notin {EOT, EM}
  <2>1. s.block_start = B /\ s.pos = p + 1 /\ s.depth = d
    BY <1>5, <1>8, <1>9, <1>17 DEF Changed, B
  <2>2. Open(p + 1) /\ (d > 0 => Level0(p + 1))
    BY <1>2, <1>3, <1>4, <1>17
  <2> QED BY <1>12, <2>1, <2>2
<1>18. CASE ~r.in_text /\ b = STX
  <2>1. s.block_start = B /\ s.pos = p + 1 /\ s.depth = d
    BY <1>6, <1>8, <1>18 DEF Changed, B
  <2>2. Open(p + 1) /\ (d > 0 => Level0(p + 1))
    BY <1>2, <1>3, <1>4, <1>18
  <2> QED BY <1>12, <2>1, <2>2
<1>19. CASE ~r.in_text /\ b = DLE
  <2>1. s.block_start = B /\ s.pos = p + 1 /\ s.in_text = r.in_text
    BY <1>6, <1>8, <1>19 DEF Changed, B
  <2>2. Level0(p + 1)
    BY <1>3, <1>19
  <2> QED BY <1>12, <1>19, <2>1, <2>2
<1>20. CASE ~r.in_text /\ b = CAN
  <2>1. s.block_start = B /\ s.pos = p + 1 /\ s.in_text = r.in_text /\ s.depth = u
    BY <1>6, <1>8, <1>20 DEF Changed, B
  <2>2. u > 0 => d > 0
    BY <1>0 DEF u
  <2>3. u > 0 => Level0(p + 1)
    BY <1>3, <1>4, <2>2
  <2> QED BY <1>12, <1>20, <2>1, <2>3
<1>21. CASE ~r.in_text /\ b # STX /\ b # DLE /\ b # CAN /\ (b = SYN => ~(p > 0))
  <2>1. s = Skip(r)
    BY <1>6, <1>9, <1>21
  <2>2. s.block_start = B /\ s.pos = p + 1 /\ s.in_text = r.in_text /\ s.depth = d
    BY <1>8, <2>1 DEF Changed, B
  <2>3. d > 0 => Level0(p + 1)
    BY <1>3, <1>4
  <2> QED BY <1>12, <1>21, <2>2, <2>3
<1> QED BY <1>13, <1>14, <1>15, <1>16, <1>17, <1>18, <1>19, <1>20, <1>21

\* A flag of a block that is right: it says that the block cannot be read, and if
\* it does not say so the block can be read, unless the loop does not judge it.
RightFlag(bytes, start, stop, damaged) ==
  /\ damaged => ~Readable(bytes, start, stop)
  /\ ~damaged => Readable(bytes, start, stop) \/ NotJudged(bytes, start, stop)

\* So far, and wherever the block will end: it can be read from its start only if
\* it can be read from the loop's place on, and if it cannot be read from its start
\* then it cannot from there, unless the loop does not judge it.
OnCourse(bytes, r, stop) ==
  /\ Readable(bytes, r.block_start, stop) => Onward(bytes, stop, r)
  /\ Onward(bytes, stop, r) =>
       Readable(bytes, r.block_start, stop) \/ NotJudged(bytes, r.block_start, stop)

Judged(bytes, r) ==
  /\ Knows(bytes, r)
  /\ \A stop \in r.pos .. Len(bytes) : OnCourse(bytes, r, stop)
  /\ \A i \in 1 .. Len(r.blocks) :
       RightFlag(bytes, r.blocks[i].start, r.blocks[i].stop, r.blocks[i].damaged)

\* What the loop overlooks is what NotJudged says.
LEMMA OverlookedIs ==
  ASSUME NEW bytes, NEW r \in Reader, Knows(bytes, r), NEW stop \in Nat, r.pos < stop,
         Overlooked(bytes, stop, r)
  PROVE  NotJudged(bytes, r.block_start, stop)
<1> DEFINE p == r.pos
           B == r.block_start
<1>0. p \in Nat /\ B \in Nat /\ r.depth \in Nat /\ p \in B .. stop - 1
  BY DEF Reader, Knows
<1>1. CASE At(bytes, p) \in {EOT, EM} /\ r.in_text
  <2>1. OpenedBefore(bytes, B, p)
    BY <1>1 DEF Knows
  <2>2. \E q \in B .. p - 1 : At(bytes, q) \in {STX, DLE}
    BY <2>1 DEF OpenedBefore
  <2> HIDE DEF p, B
  <2> QED BY <1>0, <1>1, <2>2 DEF NotJudged, p, B
<1>2. CASE At(bytes, p) \in {EOT, EM} /\ ~r.in_text
  <2>1. r.depth > 0
    BY <1>2 DEF Overlooked
  <2>2. \E q \in B .. p - 1 : At(bytes, q) \in {STX, DLE}
    BY <2>1 DEF Knows
  <2> QED BY <1>0, <1>2, <2>2 DEF NotJudged
<1>3. CASE At(bytes, p) \notin {EOT, EM}
  <2>1. r.in_text /\ (At(bytes, p) = STX \/ (At(bytes, p) = DLE /\ ~EscapeAt(bytes, p, stop)))
    BY <1>3 DEF Overlooked
  <2>2. OpenedBefore(bytes, B, p)
    BY <2>1 DEF Knows
  <2>3. At(bytes, p) = DLE /\ ~EscapeAt(bytes, p, stop) =>
          ~(p + 1 < stop /\ IsTextEscaped(At(bytes, p + 1)))
    BY DEF EscapeAt
  <2> QED BY <1>0, <2>1, <2>2, <2>3 DEF NotJudged
<1> QED BY <1>1, <1>2, <1>3

\* A step keeps the course.
LEMMA CourseKept ==
  ASSUME NEW bytes, NEW r \in Reader, Reading(bytes, r), Knows(bytes, r), At(bytes, r.pos) # ETB,
         NEW stop \in Nat, Step(bytes, r).pos <= stop, OnCourse(bytes, r, stop)
  PROVE  OnCourse(bytes, Step(bytes, r), stop)
<1> DEFINE s == Step(bytes, r)
           b == At(bytes, r.pos)
<1>0. /\ r.pos \in Nat /\ r.block_start \in Nat /\ r.depth \in Nat
      /\ r.in_text \in BOOLEAN /\ r.block_start <= r.pos
  BY DEF Reader, Knows
<1>1. s \in Reader /\ s.pos > r.pos /\ s.pos \in Nat
  <2>1. s \in Reader /\ Moves(bytes, r, s)
    BY StepMoves
  <2> HIDE DEF s
  <2> QED BY <1>0, <2>1 DEF Moves, Reader
<1>2. r.pos < stop
  BY <1>0, <1>1
<1>3. CASE b = SYN /\ (r.in_text \/ r.pos > 0)
  <2>1. s.pos = r.pos + 1 /\ s.block_start = r.pos /\ ~s.in_text /\ s.depth = 0
    BY <1>3, RestartIs
  <2>2. Onward(bytes, stop, s) <=> Readable(bytes, r.pos + 1, stop)
    BY <2>1 DEF Onward, After
  <2>3. ReadsTo(bytes, r.pos, stop) = r.pos + 1 /\ r.pos + 1 # Err
    <3>1. STX = 2 /\ DLE = 16 /\ SYN = 22
      BY DEF STX, DLE, SYN
    <3> QED BY <1>0, <1>3, <3>1 DEF ReadsTo, Err
  <2>4. Readable(bytes, r.pos, stop) <=> Readable(bytes, r.pos + 1, stop)
    <3>1. r.pos \in 0 .. stop
      BY <1>0, <1>2
    <3>2. ReadsTo(bytes, r.pos, stop) # Err =>
            (Readable(bytes, r.pos, stop) <=> Readable(bytes, ReadsTo(bytes, r.pos, stop), stop))
      BY <1>2, <3>1, ReadableUnfolds
    <3> QED BY <2>3, <3>2
  <2> HIDE DEF s
  <2> QED BY <2>1, <2>2, <2>4 DEF OnCourse, s
<1>4. CASE ~(b = SYN /\ (r.in_text \/ r.pos > 0))
  <2>1. s.block_start = r.block_start
    <3>1. s.block_start = r.block_start \/ (s.block_start = r.pos /\ b = SYN)
      BY StepMoves DEF Moves
    <3>2. b = SYN => r.block_start = r.pos
      BY <1>0, <1>4
    <3> QED BY <3>1, <3>2
  <2>2. /\ Overlooked(bytes, stop, r) => ~Onward(bytes, stop, r)
        /\ ~Overlooked(bytes, stop, r) =>
             (Onward(bytes, stop, r) <=> Onward(bytes, stop, s))
    <3>1. CASE r.in_text
      <4>1. b # SYN
        BY <1>4, <3>1
      <4> QED BY <1>2, <3>1, <4>1, OnwardInText
    <3>2. CASE ~r.in_text
      <4>1. b = SYN => r.pos = 0 /\ r.depth = 0
        <5>1. b = SYN => r.pos = 0
          BY <1>0, <1>4
        <5>2. r.pos = 0 => \A p \in r.block_start .. r.pos - 1 : FALSE
          BY <1>0
        <5>3. r.pos = 0 => ~(r.depth > 0)
          BY <5>2 DEF Knows
        <5> QED BY <1>0, <5>1, <5>3
      <4> QED BY <1>2, <3>2, <4>1, OnwardOutside
    <3> QED BY <3>1, <3>2
  <2>3. Overlooked(bytes, stop, r) => NotJudged(bytes, r.block_start, stop)
    BY <1>2, OverlookedIs
  <2> HIDE DEF s
  <2> QED BY <2>1, <2>2, <2>3 DEF OnCourse, s
<1> QED BY <1>3, <1>4

\* At the commit the course is the flag.
LEMMA CourseEnds ==
  ASSUME NEW bytes, NEW r \in Reader, OnCourse(bytes, r, r.pos)
  PROVE  RightFlag(bytes, r.block_start, r.pos, r.in_text \/ r.depth > 0)
<1>1. r.pos \in Nat /\ r.depth \in Nat /\ r.in_text \in BOOLEAN
  BY DEF Reader
<1>2. TextRest(bytes, r.pos)[r.pos] = Err
  BY <1>1, TextUnfolds
<1>3. After(bytes, r.pos, r.pos, r.depth) <=> r.depth = 0
  BY <1>1, AfterAtStop
<1>4. Onward(bytes, r.pos, r) <=> ~r.in_text /\ r.depth = 0
  BY <1>1, <1>2, <1>3 DEF Onward
<1>5. (r.in_text \/ r.depth > 0) <=> ~Onward(bytes, r.pos, r)
  BY <1>1, <1>4
<1> QED BY <1>5 DEF OnCourse, RightFlag

\* Where a block has just begun there is nothing to judge.
LEMMA CourseBegins ==
  ASSUME NEW bytes, NEW r \in Reader, r.block_start = r.pos, ~r.in_text, r.depth = 0
  PROVE  /\ Knows(bytes, r)
         /\ \A stop : OnCourse(bytes, r, stop)
<1>1. \A stop : Onward(bytes, stop, r) <=> Readable(bytes, r.block_start, stop)
  BY DEF Onward, After
<1>2. r.pos \in Nat
  BY DEF Reader
<1> QED BY <1>1, <1>2 DEF Knows, OnCourse

LEMMA JudgedKept ==
  ASSUME NEW bytes \in Seq(Byte), NEW r \in Reader, Reading(bytes, r), Judged(bytes, r)
  PROVE  Judged(bytes, Step(bytes, r))
<1> DEFINE s == Step(bytes, r)
           n == Len(r.blocks)
           Right(b) == RightFlag(bytes, b.start, b.stop, b.damaged)
<1>0. r.pos \in Nat /\ r.pos < Len(bytes) /\ Len(bytes) \in Nat /\ r.blocks \in Seq(Block) /\ n \in Nat
  BY DEF Reader, Reading
<1>1. CASE At(bytes, r.pos) # ETB
  <2>1. s \in Reader /\ s.blocks = r.blocks /\ s.pos > r.pos
    BY <1>0, <1>1, StepMoves DEF Moves
  <2>2. Knows(bytes, s)
    BY <1>1, KnowsOn DEF Judged
  <2>3. ASSUME NEW stop \in s.pos .. Len(bytes)
        PROVE  OnCourse(bytes, s, stop)
    <3>1. s.pos \in Nat
      BY <2>1 DEF Reader
    <3>2. stop \in Nat /\ s.pos <= stop /\ stop \in r.pos .. Len(bytes)
      BY <1>0, <2>1, <3>1
    <3>3. Knows(bytes, r) /\ OnCourse(bytes, r, stop)
      BY <3>2 DEF Judged
    <3> QED BY <1>1, <3>2, <3>3, CourseKept
  <2> HIDE DEF s
  <2> QED BY <2>1, <2>2, <2>3 DEF Judged, s
<1>2. CASE At(bytes, r.pos) = ETB
  <2> DEFINE e == PayloadEnd(bytes, r.pos + 1)
             flag == r.in_text \/ r.depth > 0
             block == [start |-> r.block_start, stop |-> r.pos, damaged |-> flag]
  <2>1. /\ s \in Reader /\ s.pos = e /\ s.block_start = e
        /\ ~s.in_text /\ s.depth = 0
        /\ s.blocks = Append(r.blocks, block)
    BY <1>2, CommitIs
  <2>2. Right(block)
    <3>1. r.pos \in r.pos .. Len(bytes)
      BY <1>0
    <3>2. OnCourse(bytes, r, r.pos)
      BY <3>1 DEF Judged
    <3>3. RightFlag(bytes, r.block_start, r.pos, flag)
      BY <3>2, CourseEnds
    <3> HIDE DEF flag
    <3> QED BY <3>3
  <2> HIDE DEF s, e, block
  <2>3. Len(s.blocks) = n + 1 /\ s.blocks[n + 1] = block /\ \A i \in 1 .. n : s.blocks[i] = r.blocks[i]
    BY <1>0, <2>1
  <2>4. \A i \in 1 .. n : Right(r.blocks[i])
    BY DEF Judged
  <2>5. ASSUME NEW i \in 1 .. Len(s.blocks)
        PROVE  Right(s.blocks[i])
    <3> HIDE DEF Right
    <3>1. i \in 1 .. n \/ i = n + 1
      BY <1>0, <2>3
    <3> QED BY <2>2, <2>3, <2>4, <3>1
  <2>6. Knows(bytes, s) /\ \A stop : OnCourse(bytes, s, stop)
    BY <2>1, CourseBegins
  <2> QED BY <2>5, <2>6 DEF Judged, s
<1> QED BY <1>1, <1>2

\* In every buffer the flag of every block is right.
LEMMA ScanJudged ==
  ASSUME NEW bytes \in Seq(Byte)
  PROVE  Judged(bytes, ScanOf(bytes))
<1> DEFINE Good(x) == Judged(bytes, x) => Judged(bytes, RunOf(bytes)[x])
           G == {x \in Reader : Good(x)}
<1>1. ASSUME NEW x \in Reader, ~Reading(bytes, x)
      PROVE  Good(x)
  BY <1>1, RunUnfolds
<1>2. ASSUME NEW x \in Reader, Reading(bytes, x), Good(Step(bytes, x))
      PROVE  Good(x)
  BY <1>2, RunUnfolds, JudgedKept
<1> HIDE DEF Good
<1>3. G = Reader
  <2>1. /\ G \in SUBSET Reader
        /\ \A x \in Reader : ~Reading(bytes, x) => x \in G
        /\ \A x \in Reader : Reading(bytes, x) /\ Step(bytes, x) \in G => x \in G
    BY <1>1, <1>2
  <2> HIDE DEF G
  <2> QED BY <2>1, ScanInduction
<1>4. Judged(bytes, NewReader)
  <2>1. Knows(bytes, NewReader) /\ \A stop : OnCourse(bytes, NewReader, stop)
    <3>1. /\ NewReader \in Reader /\ NewReader.block_start = NewReader.pos
          /\ ~NewReader.in_text /\ NewReader.depth = 0
      BY NewReaderTyped DEF NewReader
    <3> QED BY <3>1, CourseBegins
  <2>2. Len(NewReader.blocks) = 0
    BY DEF NewReader
  <2>3. \A i \in 1 .. Len(NewReader.blocks) : FALSE
    BY <2>2
  <2> QED BY <2>1, <2>3 DEF Judged
<1> QED BY <1>3, <1>4, NewReaderTyped, RunUnfolds DEF Good

(***************************************************************************)
(* For every buffer, a block that StreamReader reports as damaged is one   *)
(* that scan::text and scan::level do not get through, so that leaving it  *)
(* out loses no record; and a block that they do not get through is        *)
(* reported, unless framing or an STX or a bad escape, of the kind that    *)
(* NotJudged says, stands in it.                                           *)
(***************************************************************************)
THEOREM DamageIsRight == Spec => []DamagedIffUnreadable
<1>1. ASSUME Inv, Result
      PROVE  DamagedIffUnreadable
  <2> SUFFICES ASSUME Finished, NEW i \in DOMAIN reader.blocks
               PROVE  LET block == reader.blocks[i]
                          reads == Reads(buf, block.start, block.stop)
                      IN  /\ block.damaged => ~reads
                          /\ ~reads => block.damaged \/ NotJudged(buf, block.start, block.stop)
    BY DEF DamagedIffUnreadable
  <2>1. buf \in Seq(Byte) /\ reader = ScanOf(buf) /\ reader.blocks \in Seq(Block)
    BY <1>1, Ended DEF Inv, TypeOK, Reader
  <2>2. i \in 1 .. Len(reader.blocks)
    BY <2>1
  <2>3. RightFlag(buf, reader.blocks[i].start, reader.blocks[i].stop, reader.blocks[i].damaged)
    BY <2>1, <2>2, ScanJudged DEF Judged
  <2> QED BY <2>3 DEF RightFlag, Readable
<1> QED BY <1>1, ResultInvariant, PTL

=============================================================================
