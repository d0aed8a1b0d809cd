------------------------------ MODULE CommitLog ------------------------------
(***************************************************************************)
(* What FileLog (src/src/stream.rs) promises its one writer: a log of      *)
(* whole batches.  A call lands entirely or not at all; once it has        *)
(* answered Ok with fsync on, no crash takes it back; a call that failed,  *)
(* or whose process died, may have landed all the same.                    *)
(***************************************************************************)
EXTENDS Integers, SequencesExt

CONSTANTS
  Batch,   \* what a call may append
  None,    \* no call is running
  Sync     \* is each commit fsync'd (open_log_with's argument)?

ASSUME CommitLogAssumption == None \notin Batch /\ Sync \in BOOLEAN

VARIABLES
  log,      \* the batches a reader of the file finds
  sealed,   \* how many of them are on disk whatever happens
  pending,  \* the batch of the running call, or None
  landed,   \* is it in the log already?
  acked     \* how many calls have answered Ok

vars == <<log, sealed, pending, landed, acked>>

TypeOK ==
  /\ log \in Seq(Batch)
  /\ sealed \in 0 .. Len(log)
  /\ pending \in Batch \cup {None}
  /\ landed \in BOOLEAN
  /\ acked \in Nat

Init ==
  /\ log = << >>
  /\ sealed = 0
  /\ pending = None
  /\ landed = FALSE
  /\ acked = 0

Submit(b) ==
  /\ pending = None
  /\ pending' = b
  /\ UNCHANGED <<log, sealed, landed, acked>>

\* The batch's ETB reaches the file.
Land ==
  /\ pending # None
  /\ ~landed
  /\ landed' = TRUE
  /\ log' = Append(log, pending)
  /\ UNCHANGED <<sealed, pending, acked>>

\* Wrong: the next call starts as if landed.
Ack_staysLanded ==
  /\ pending # None
  /\ landed
  /\ sealed' = IF Sync THEN Len(log) ELSE sealed
  /\ pending' = None
  /\ acked' = acked + 1
  /\ UNCHANGED <<log, landed>>

\* Wrong: the call answers before it has sealed the log.
Ack_unsealed ==
  /\ pending # None
  /\ landed
  /\ pending' = None
  /\ landed' = FALSE
  /\ acked' = acked + 1
  /\ UNCHANGED <<log, sealed>>

\* The call answers Ok.
Ack ==
  /\ pending # None
  /\ landed
  /\ sealed' = IF Sync THEN Len(log) ELSE sealed
  /\ pending' = None
  /\ landed' = FALSE
  /\ acked' = acked + 1
  /\ UNCHANGED log

\* The call answers Err, or its process dies.
Fail ==
  /\ pending # None
  /\ pending' = None
  /\ landed' = FALSE
  /\ UNCHANGED <<log, sealed, acked>>

\* Power is lost: of what is not sealed, any end may go.
Lose ==
  /\ pending' = None
  /\ landed' = FALSE
  /\ UNCHANGED acked
  /\ \E n \in sealed .. Len(log) :
       /\ log' = SubSeq(log, 1, n)
       /\ sealed' = n

Next ==
  \/ \E b \in Batch : Submit(b)
  \/ Land
  \/ Ack
  \/ Fail
  \/ Lose

Spec == Init /\ [][Next]_vars

-----------------------------------------------------------------------------
(***************************************************************************)
(* Every batch lands at most once and the running call's only: while a     *)
(* call has landed, its batch is the last of the log.                      *)
(***************************************************************************)
LandedIsLast ==
  landed => /\ pending # None
            /\ log # << >>
            /\ log[Len(log)] = pending
            /\ sealed < Len(log)

(***************************************************************************)
(* With fsync on, the log holds a sealed batch for every call that         *)
(* answered Ok: what a caller was told is there survives a power loss.     *)
(***************************************************************************)
AckedSealed == Sync => acked <= sealed

=============================================================================
