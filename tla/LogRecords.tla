------------------------------ MODULE LogRecords ------------------------------
(***************************************************************************)
(* From StreamWriter's calls to StreamReader::records (src/src/stream.rs): *)
(* each call appends the bytes that Builder writes and an ETB; a crash     *)
(* leaves a part of them; the caller opens the log again, with open_log's  *)
(* repair or without it (a StreamWriter over a file of its own).  Without  *)
(* it the next call's bytes go on behind the torn ones.  said is the       *)
(* records that were committed, in the order of the calls.                 *)
(***************************************************************************)
EXTENDS StreamScan, DocumentReader, Builder

CONSTANTS
  Rows,       \* the values of a record
  Names,      \* names of groups, keys and columns
  MaxCalls,   \* bound: calls
  MaxTears    \* bound: crashes in a call

ASSUME LogRecordsAssumption ==
  /\ \A row \in Rows : row \in Seq(Seq(Byte))
  /\ \A name \in Names : name \in Seq(Byte) /\ name # << >> /\ IsName(name)
  /\ {MaxCalls, MaxTears} \subseteq Nat

-----------------------------------------------------------------------------
(* StreamReader's accessors. *)

CommittedBytes(buf) == Slice(buf, 0, CommittedEnd(buf))

\* Wrong: the damaged blocks are joined with the others.
Undamaged_all(buf) ==
  LET blocks == ScanOf(buf).blocks
  IN  IF \A i \in DOMAIN blocks : ~blocks[i].damaged THEN CommittedBytes(buf)
      ELSE FlattenSeq([i \in DOMAIN blocks |-> BlockBytes(buf, blocks[i])])

\* undamaged: the committed bytes, or its undamaged blocks one behind the other.
Undamaged(buf) ==
  LET blocks == ScanOf(buf).blocks
      whole  == SelectSeq(blocks, LAMBDA block : ~block.damaged)
  IN  IF whole = blocks THEN CommittedBytes(buf)
      ELSE FlattenSeq([i \in DOMAIN whole |-> BlockBytes(buf, whole[i])])

NoRecords == <<<<NoValue>>>>

\* values: those of the fields, of which a keyed record has none.
ValuesOf(record) ==
  IF record[1] = "positional"
  THEN [i \in DOMAIN record[2] |-> IF record[2][i][1] = "value" THEN record[2][i][2] ELSE NoValue]
  ELSE << >>

RecordsOf(doc) ==
  LET groups == GroupsOf(doc)
      all == FlattenSeq([i \in DOMAIN groups |->
               [k \in DOMAIN groups[i].records |-> ValuesOf(groups[i].records[k])]])
  IN  IF \E i \in DOMAIN all : NoValue \in Range(all[i]) THEN NoRecords ELSE all

\* records
Records(buf) ==
  LET Of(doc) == IF doc = NoDocument THEN NoRecords ELSE RecordsOf(doc)
  IN  Of(Document(Undamaged(buf), 0))

-----------------------------------------------------------------------------
(* StreamWriter's batches. *)

\* A note and two records, a record with a list, a record and its
\* payload, an EOT.
NotedBytes(note, row)  == Bytes(PositionalRecord(PositionalRecord(Note(NewBuilder, note), row), row))
ListBytes(row)         == Bytes(List(NewBuilder, row))
SealedBytes(row, name) == Bytes(EtbPayload(PositionalRecord(NewBuilder, row), name))
EotBytes               == Bytes(Eot(NewBuilder))

-----------------------------------------------------------------------------
VARIABLES
  file,   \* the log
  tail,   \* ghost: the torn bytes at its end
  said,   \* ghost: the values of the records committed in the first document
  fresh,  \* ghost: may a header row follow?
  failed, \* ghost: has a block been committed that records does not read?
  begun,  \* ghost: is there something before a start?
  closed, \* ghost: has the first document ended?
  joined, \* ghost: was a torn part committed together with what followed it?
  calls,  \* calls so far
  tears   \* crashes so far

vars == <<file, tail, said, fresh, failed, begun, closed, joined, calls, tears>>

Init ==
  /\ file = << >> /\ tail = << >> /\ said = << >>
  /\ fresh = TRUE /\ failed = FALSE /\ begun = FALSE
  /\ closed = FALSE /\ joined = FALSE
  /\ calls = 0 /\ tears = 0

\* Is the torn tail inside a text or a level?
TornOpen == BodyEnd(tail, 0) = Err

\* A call whose block is committed behind the last one.
Commits(bytes, values, nowFresh, bad) ==
  /\ calls < MaxCalls /\ tail = << >>
  /\ file' = file \o bytes
  /\ said' = IF closed \/ joined THEN said ELSE said \o values
  /\ fresh' = nowFresh
  /\ failed' = (failed \/ (bad /\ ~closed /\ ~joined))
  /\ begun' = TRUE
  /\ calls' = calls + 1
  /\ UNCHANGED <<tail, joined>>

\* The ETB behind the torn tail stands in the text or level that the tail opened.
Spoils(bytes) == TornOpen /\ Range(bytes) \cap {ETX, CAN, EOT, SYN} = {}

\* The same behind a torn tail that was not repaired.  Either the block is damaged,
\* with what the call said, or the tail is committed and reads on into the call.
Continues(bytes) ==
  /\ calls < MaxCalls /\ tail # << >>
  /\ file' = file \o bytes
  /\ tail' = << >>
  /\ joined' = (joined \/ ~Spoils(bytes))
  /\ calls' = calls + 1
  /\ UNCHANGED <<said, fresh, failed, begun, closed, tears>>

\* The process dies in a call, behind a commit or a tail that was not repaired.
Tears(bytes, n) ==
  /\ calls < MaxCalls /\ tears < MaxTears
  /\ file' = file \o SubSeq(bytes, 1, n)
  /\ tail' = tail \o SubSeq(bytes, 1, n)
  /\ calls' = calls + 1 /\ tears' = tears + 1
  /\ UNCHANGED <<said, fresh, failed, begun, closed, joined>>

Call(bytes, values, nowFresh, bad) ==
  \/ Commits(bytes, values, nowFresh, bad) /\ UNCHANGED <<closed, tears>>
  \/ Continues(bytes)
  \/ \E n \in 1 .. (Len(bytes) - 1) : Tears(bytes, n)

\* What is read of a record without values: one empty one.
AsRead(row) == IF row = << >> THEN <<<< >>>> ELSE row

CallRecord(row)    == Call(RecordBytes(row), <<AsRead(row)>>, FALSE, FALSE)
CallMap(k, v)      == Call(MapBytes(<<<<k, v>>>>), <<<< >>>>, FALSE, FALSE)
CallHeader(names)  == Call(HeaderBytes(names), << >>, FALSE, ~fresh)
CallGroup(name, header) == Call(GroupBytes(name, header), << >>, header = << >>, FALSE)
CallNoted(note, row) == Call(NotedBytes(note, row), <<AsRead(row), AsRead(row)>>, FALSE, FALSE)
CallList(row)      == Call(ListBytes(row), <<<<NoValue>>>>, FALSE, TRUE)
CallEot ==
  \/ Commits(EotBytes, << >>, fresh, FALSE) /\ closed' = TRUE /\ UNCHANGED tears
  \/ Continues(EotBytes)
  \/ Tears(EotBytes, 1)

\* The record is committed by its own ETB, whatever is left of the payload.
CallSealed(row, name) ==
  LET bytes  == SealedBytes(row, name)
      record == RecordBytes(row)
  IN  \/ /\ Commits(bytes, <<AsRead(row)>>, FALSE, FALSE)
         /\ UNCHANGED <<closed, tears>>
      \/ Continues(bytes)
      \/ \E n \in 1 .. Len(record) - 1 : Tears(bytes, n)
      \/ \E n \in Len(record) .. Len(bytes) - 1 :
           /\ tears < MaxTears
           /\ Commits(SubSeq(bytes, 1, n), <<AsRead(row)>>, FALSE, FALSE)
           /\ tears' = tears + 1
           /\ UNCHANGED closed

\* A start behind a block opens another document, which records does not read.
\* Its SYN tears what was not committed.
CallStart(k, v) ==
  /\ calls < MaxCalls
  /\ file' = file \o StartBytes(<<<<k, v>>>>)
  /\ tail' = << >>
  /\ begun' = TRUE
  /\ closed' = (closed \/ begun \/ tail # << >>)
  /\ joined' = (joined \/ tail # << >>)
  /\ calls' = calls + 1
  /\ UNCHANGED <<said, fresh, failed, tears>>

\* open_log's repair.  A tail of notes or an EOT is not torn and stays: the
\* first is then what stands before the SYN of a start, the second ends the
\* document although it was not committed.
Repair ==
  /\ tail # << >>
  /\ file' = IF Torn(file) THEN CommittedBytes(file) ELSE file
  /\ tail' = << >>
  /\ begun' = (begun \/ ~Torn(file))
  /\ closed' = (closed \/ (~Torn(file) /\ EOT \in Range(tail)))
  /\ UNCHANGED <<said, fresh, failed, joined, calls, tears>>

Next ==
  \/ \E row \in Rows : CallRecord(row) \/ CallList(row)
  \/ \E k \in Names, row \in Rows : CallNoted(k, row) \/ CallSealed(row, k)
  \/ \E k, v \in Names : CallMap(k, v) \/ CallStart(k, v)
  \/ \E names \in {<<k>> : k \in Names} : CallHeader(names)
  \/ \E name \in Names : CallGroup(name, << >>) \/ CallGroup(name, <<<<name>>>>)
  \/ CallEot
  \/ Repair

Spec == Init /\ [][Next]_vars

-----------------------------------------------------------------------------
(***************************************************************************)
(* "Logical values of every committed record, undamaged blocks only"       *)
(* (stream.rs:118): whatever crashed and was repaired, or was damaged by   *)
(* the call behind it, records gives the values of those of the first      *)
(* document, one by one and in order; it fails when a record holds a list, *)
(* or a header row follows a record.  Once a torn part was committed with  *)
(* the call behind it, what was committed before is still read first, or   *)
(* records fails.                                                          *)
(***************************************************************************)
RecordsAreCommitted ==
  LET read == Records(file)
  IN  IF joined THEN read = NoRecords \/ (~failed /\ IsPrefix(said, read))
                ELSE read = IF failed THEN NoRecords ELSE said

=============================================================================
