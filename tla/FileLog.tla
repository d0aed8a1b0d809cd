------------------------------- MODULE FileLog -------------------------------
(***************************************************************************)
(* FileLog, open_log_with, repair_log and read_log (src/src/stream.rs) on  *)
(* a file that processes share, one action per system call: a process may  *)
(* be killed between any two of them, a write may stop in the middle of a  *)
(* batch, and power may be lost.                                           *)
(*                                                                         *)
(* The file system is external.  An append adds a prefix of the bytes      *)
(* given to it at the end of the file, sync_all makes the file durable,    *)
(* and power loss leaves either the durable contents or what the page      *)
(* cache had, cut anywhere behind what the two share.  A missing file is   *)
(* an empty one (open_log_with repairs only a file that exists).           *)
(***************************************************************************)
EXTENDS StreamScan

CONSTANTS
  Procs,         \* the processes that open the log
  Batches,       \* the bytes of a call, its ETB included (commit_bytes)
  DropOnError,   \* does the caller drop a FileLog whose call failed?
  Settings       \* open_log_with's sync, and bounds: calls that append, write
                 \* and sync errors, killed processes and power losses, reads

ASSUME FileLogAssumption ==
  /\ Batches \subseteq Seq(Byte)
  /\ << >> \notin Batches
  /\ DropOnError \in BOOLEAN
  /\ Settings \subseteq [sync : BOOLEAN, calls : Nat, errors : Nat, crashes : Nat, reads : Nat]

VARIABLES
  file,      \* what a read of the file returns
  durable,   \* what is on disk whatever happens
  proc,      \* each process: its place in the code, its locals
  acked,     \* the batches whose call answered Ok, in order
  reader,    \* one caller of read_log
  env        \* the setting: sync, and what is left of the bounds

vars == <<file, durable, proc, acked, reader, env>>

Process == [pc : {"closed", "truncating", "opening", "idle", "writing", "written"},
            batch : Batches \cup {<< >>},   \* the batch of the running call
            todo : Seq(Byte),               \* what write_all has not written yet
            cut : Nat]                      \* repair_log's committed_end

Closed == [pc |-> "closed", batch |-> << >>, todo |-> << >>, cut |-> 0]
Idle   == [Closed EXCEPT !.pc = "idle"]

ReadCall == [pc : {"none", "reading", "done"},
            got : Seq(Byte),      \* the bytes read so far
            base : Seq(Seq(Byte)), \* ghost: the log when the read began
            mixed : BOOLEAN]      \* ghost: the file was cut during the read

NotReading == [pc |-> "none", got |-> << >>, base |-> << >>, mixed |-> FALSE]

Init ==
  /\ file = << >>
  /\ durable = << >>
  /\ proc = [p \in Procs |-> Closed]
  /\ acked = << >>
  /\ reader = NotReading
  /\ env \in Settings

-----------------------------------------------------------------------------
(* The records of a file: its undamaged blocks without their notes.  A BEL *)
(* in a text is data.  Where a note is no comment, or a text has no end,   *)
(* which the readers refuse, the data ends.                                *)

\* Where the note, the text or the byte at p ends, or Err.
PieceEnd(bytes, p) ==
  CASE At(bytes, p) = BEL -> Comment(bytes, p, Len(bytes))
    [] At(bytes, p) = STX -> Text(bytes, p, Len(bytes))
    [] OTHER              -> p + 1

Data(bytes) ==
  LET len == Len(bytes)
      from[p \in 0 .. len] ==
        LET end == PieceEnd(bytes, p)
        IN  IF p = len \/ end = Err THEN << >>
            ELSE IF At(bytes, p) = BEL THEN from[end]
            ELSE Slice(bytes, p, end) \o from[end]
  IN  from[0]

Records(bytes, blocks) ==
  LET upto[i \in 0 .. Len(blocks)] ==
        IF i = 0 THEN << >>
        ELSE IF blocks[i].damaged THEN upto[i - 1]
        ELSE Append(upto[i - 1], Data(BlockBytes(bytes, blocks[i])))
  IN  upto[Len(blocks)]

Committed(bytes) ==
  LET records[blocks \in Seq(Block)] == Records(bytes, blocks)
  IN  records[ScanOf(bytes).blocks]

\* What one batch adds to them: its data without the ETB.
Contributions == [b \in Batches |-> Data(Front(b))]

Contribution(batch) == IF batch = << >> THEN << >> ELSE Contributions[batch]

-----------------------------------------------------------------------------
(* open_log_with *)

\* Wrong: the repair cuts the last block with the tail.
OpenRead_cutsBlock(p) ==
  LET blocks == ScanOf(file).blocks
  IN  /\ proc[p].pc = "closed"
      /\ proc' = [proc EXCEPT ![p] =
           IF Torn(file) /\ blocks # << >>
           THEN [Closed EXCEPT !.pc = "truncating", !.cut = Last(blocks).start]
           ELSE [Closed EXCEPT !.pc = "opening"]]
      /\ UNCHANGED <<file, durable, acked, reader, env>>

\* fs::read and StreamReader::new of repair_log.
OpenRead(p) ==
  /\ proc[p].pc = "closed"
  /\ proc' = [proc EXCEPT ![p] =
       IF Torn(file) THEN [Closed EXCEPT !.pc = "truncating", !.cut = CommittedEnd(file)]
                     ELSE [Closed EXCEPT !.pc = "opening"]]
  /\ UNCHANGED <<file, durable, acked, reader, env>>

\* set_len: cuts the file, or fills it with zeros up to the length.
SetLen(bytes, n) ==
  [i \in 1 .. n |-> IF i <= Len(bytes) THEN bytes[i] ELSE 0]

Truncate(p) ==
  /\ proc[p].pc = "truncating"
  /\ file' = SetLen(file, proc[p].cut)
  /\ proc' = [proc EXCEPT ![p] = [Closed EXCEPT !.pc = "opening"]]
  /\ reader' = [reader EXCEPT !.mixed = @ \/ reader.pc = "reading"]
  /\ UNCHANGED <<durable, acked, env>>

OpenAppend(p) ==
  /\ proc[p].pc = "opening"
  /\ proc' = [proc EXCEPT ![p] = Idle]
  /\ UNCHANGED <<file, durable, acked, reader, env>>

-----------------------------------------------------------------------------
(* batch: write_all, flush (nothing on a File), sync_all. *)

Begin(p, b) ==
  /\ proc[p].pc = "idle"
  /\ env.calls > 0
  /\ proc' = [proc EXCEPT ![p] = [Idle EXCEPT !.pc = "writing", !.batch = b, !.todo = b]]
  /\ env' = [env EXCEPT !.calls = @ - 1]
  /\ UNCHANGED <<file, durable, acked, reader>>

\* One write(2) of write_all: some of the bytes that are left.
WriteSome(p, n) ==
  LET todo == proc[p].todo
  IN  /\ proc[p].pc = "writing"
      /\ n \in 1 .. Len(todo)
      /\ file' = file \o SubSeq(todo, 1, n)
      /\ proc' = [proc EXCEPT ![p].todo = SubSeq(todo, n + 1, Len(todo)),
                              ![p].pc = IF n = Len(todo) THEN "written" ELSE "writing"]
      /\ UNCHANGED <<durable, acked, reader, env>>

AfterError == IF DropOnError THEN Closed ELSE Idle

WriteError(p) ==
  /\ proc[p].pc = "writing"
  /\ env.errors > 0
  /\ proc' = [proc EXCEPT ![p] = AfterError]
  /\ env' = [env EXCEPT !.errors = @ - 1]
  /\ UNCHANGED <<file, durable, acked, reader>>

\* Wrong: answers Ok before the fsync.
Return_unsynced(p) ==
  /\ proc[p].pc = "written"
  /\ acked' = Append(acked, proc[p].batch)
  /\ proc' = [proc EXCEPT ![p] = Idle]
  /\ UNCHANGED <<file, durable, reader, env>>

\* sync_all when sync is set; the call answers Ok.
Return(p) ==
  /\ proc[p].pc = "written"
  /\ durable' = IF env.sync THEN file ELSE durable
  /\ acked' = Append(acked, proc[p].batch)
  /\ proc' = [proc EXCEPT ![p] = Idle]
  /\ UNCHANGED <<file, reader, env>>

\* The block is in the file, but the call answers Err.
SyncError(p) ==
  /\ proc[p].pc = "written"
  /\ env.sync
  /\ env.errors > 0
  /\ proc' = [proc EXCEPT ![p] = AfterError]
  /\ env' = [env EXCEPT !.errors = @ - 1]
  /\ UNCHANGED <<file, durable, acked, reader>>

\* The FileLog is dropped.
Close(p) ==
  /\ proc[p].pc = "idle"
  /\ proc' = [proc EXCEPT ![p] = Closed]
  /\ UNCHANGED <<file, durable, acked, reader, env>>

-----------------------------------------------------------------------------
(* Failures. *)

Kill(p) ==
  /\ proc[p].pc # "closed"
  /\ env.crashes > 0
  /\ proc' = [proc EXCEPT ![p] = Closed]
  /\ env' = [env EXCEPT !.crashes = @ - 1]
  /\ UNCHANGED <<file, durable, acked, reader>>

AfterPowerLoss ==
  LET shared == LongestCommonPrefix({file, durable})
  IN  {durable} \cup {SubSeq(file, 1, n) : n \in Len(shared) .. Len(file)}

PowerLoss ==
  /\ env.crashes > 0
  /\ \E left \in AfterPowerLoss : file' = left /\ durable' = left
  /\ proc' = [p \in Procs |-> Closed]
  /\ reader' = NotReading
  /\ env' = [env EXCEPT !.crashes = @ - 1]
  /\ UNCHANGED acked

-----------------------------------------------------------------------------
(* read_log: reads at growing offsets until one returns nothing. *)

ReadOpen ==
  /\ reader.pc # "reading"
  /\ env.reads > 0
  /\ reader' = [pc |-> "reading", got |-> << >>, base |-> Committed(file), mixed |-> FALSE]
  /\ env' = [env EXCEPT !.reads = @ - 1]
  /\ UNCHANGED <<file, durable, proc, acked>>

\* Wrong: every chunk is read from the start of the file.
ReadChunk_restarts(n) ==
  /\ reader.pc = "reading"
  /\ n \in Len(reader.got) + 1 .. Len(file)
  /\ reader' = [reader EXCEPT !.got = @ \o SubSeq(file, 1, n - Len(@))]
  /\ UNCHANGED <<file, durable, proc, acked, env>>

ReadChunk(n) ==
  /\ reader.pc = "reading"
  /\ n \in Len(reader.got) + 1 .. Len(file)
  /\ reader' = [reader EXCEPT !.got = @ \o SubSeq(file, Len(@) + 1, n)]
  /\ UNCHANGED <<file, durable, proc, acked, env>>

ReadEnd ==
  /\ reader.pc = "reading"
  /\ Len(reader.got) >= Len(file)
  /\ reader' = [reader EXCEPT !.pc = "done"]
  /\ UNCHANGED <<file, durable, proc, acked, env>>

-----------------------------------------------------------------------------
Call(p) ==
  \/ \E n \in 1 .. Len(proc[p].todo) : WriteSome(p, n)
  \/ WriteError(p) \/ Return(p) \/ SyncError(p)

Opening(p) == OpenRead(p) \/ Truncate(p) \/ OpenAppend(p)

Next ==
  \/ \E p \in Procs : Opening(p) \/ Call(p) \/ Close(p) \/ Kill(p)
  \/ \E p \in Procs, b \in Batches : Begin(p, b)
  \/ PowerLoss
  \/ ReadOpen
  \/ \E n \in 1 .. Len(file) : ReadChunk(n)
  \/ ReadEnd

Spec == Init /\ [][Next]_vars

-----------------------------------------------------------------------------
(* Properties. *)

Count(seq, x) == Cardinality({i \in DOMAIN seq : seq[i] = x})

(***************************************************************************)
(* With sync, every batch whose call answered Ok is in the log, as often   *)
(* as it was answered: no crash, failed call or repair takes it out.       *)
(***************************************************************************)
AckedInLog ==
  LET found == Committed(file)
  IN  env.sync => \A b \in Batches : Count(acked, b) <= Count(found, Contribution(b))

(***************************************************************************)
(* "Several writes under one ETB: atomic as a batch" (stream.rs:319): what *)
(* a reader of the file finds in a block is one whole batch.               *)
(***************************************************************************)
WholeBatches ==
  ToSet(Committed(file)) \subseteq {Contribution(b) : b \in Batches}

(***************************************************************************)
(* "Truncate an uncommitted tail so the file ends at a commit"             *)
(* (stream.rs:406): what a repair is about to cut is not committed.        *)
(***************************************************************************)
RepairCutsTail ==
  \A p \in Procs :
    proc[p].pc = "truncating" =>
      Committed(SetLen(file, proc[p].cut)) = Committed(file)

(***************************************************************************)
(* Scanning the file backward finds the commit that the forward scan       *)
(* finds, wherever the writer stopped or crashed.                          *)
(***************************************************************************)
ShortcutAgrees == LastCommitEnd(file) = CommittedEnd(file)

(***************************************************************************)
(* read_log beside a writer: what was in the log when the read began is    *)
(* seen, and nothing is seen that is not in the log, unless the file was   *)
(* cut under the read.                                                     *)
(***************************************************************************)
ReadIsConsistent ==
  reader.pc = "done" /\ ~reader.mixed =>
    /\ IsPrefix(reader.base, Committed(reader.got))
    /\ IsPrefix(Committed(reader.got), Committed(file))

(***************************************************************************)
(* What is committed on the disk stays, at its place: no repair, kill,     *)
(* failed call or later power loss takes it back, with sync or without.    *)
(***************************************************************************)
DurableStays == [][IsPrefix(Committed(durable), Committed(durable'))]_durable

-----------------------------------------------------------------------------
(* The one-writer log implements CommitLog.  A batch has landed when its   *)
(* last byte, the ETB, is in the file.                                     *)

Writer == CHOOSE p \in Procs : TRUE

SyncedLog == INSTANCE CommitLog WITH
  Batch   <- Range(Contributions),
  None    <- << >>,
  Sync    <- TRUE,
  log     <- Committed(file),
  sealed  <- Len(Committed(durable)),
  pending <- Contribution(proc[Writer].batch),
  landed  <- proc[Writer].pc = "written",
  acked   <- Len(acked)

UnsyncedLog == INSTANCE CommitLog WITH
  Batch   <- Range(Contributions),
  None    <- << >>,
  Sync    <- FALSE,
  log     <- Committed(file),
  sealed  <- Len(Committed(durable)),
  pending <- Contribution(proc[Writer].batch),
  landed  <- proc[Writer].pc = "written",
  acked   <- Len(acked)

\* The Spec of CommitLog, whose Sync is a constant: env.sync never changes.
Implements ==
  /\ SyncedLog!Init
  /\ [][(env.sync /\ SyncedLog!Next) \/ (~env.sync /\ UnsyncedLog!Next)]_(SyncedLog!vars)

=============================================================================
