--------------------------- MODULE CommitLogProofs ---------------------------
(***************************************************************************)
(* The promises of CommitLog, for every set of batches and every length    *)
(* of the log.                                                             *)
(***************************************************************************)
EXTENDS CommitLog, SequenceTheorems, TLAPS

Inv == TypeOK /\ LandedIsLast /\ AckedSealed

LEMMA LoseTypes ==
  ASSUME TypeOK, NEW n \in sealed .. Len(log)
  PROVE  /\ SubSeq(log, 1, n) \in Seq(Batch)
         /\ Len(SubSeq(log, 1, n)) = n
         /\ \A i \in 1 .. n : SubSeq(log, 1, n)[i] = log[i]
<1>1. /\ log \in Seq(Batch) /\ Len(log) \in Nat /\ sealed \in Nat
      /\ n \in Nat /\ n <= Len(log)
  BY DEF TypeOK
<1>2. \A i \in 1 .. n : log[i] \in Batch
  BY <1>1
<1> QED BY <1>1, <1>2, SubSeqProperties

LEMMA StepKeepsInv ==
  ASSUME Inv, [Next]_vars
  PROVE  Inv'
<1> USE CommitLogAssumption DEF Inv, TypeOK
<1>0. /\ log \in Seq(Batch) /\ Len(log) \in Nat
      /\ sealed \in Nat /\ sealed <= Len(log) /\ acked \in Nat
  OBVIOUS
<1>1. CASE \E b \in Batch : Submit(b)
  BY <1>1 DEF Submit, LandedIsLast, AckedSealed
<1>2. CASE Land
  <2>1. /\ log' = Append(log, pending) /\ pending \in Batch
        /\ sealed' = sealed /\ acked' = acked
    BY <1>2 DEF Land
  <2>2. /\ log' \in Seq(Batch) /\ Len(log') = Len(log) + 1
        /\ log'[Len(log')] = pending
    BY <1>0, <2>1
  <2>3. TypeOK' /\ LandedIsLast'
    BY <1>0, <1>2, <2>1, <2>2 DEF Land, LandedIsLast
  <2>4. AckedSealed'
    BY <2>1 DEF AckedSealed
  <2> QED BY <2>3, <2>4
<1>3. CASE Ack
  <2>1. /\ log' = log /\ pending' = None /\ acked' = acked + 1
        /\ sealed' = IF Sync THEN Len(log) ELSE sealed
        /\ landed' \in BOOLEAN /\ ~landed'
    BY <1>3 DEF Ack
  <2>2. sealed' \in 0 .. Len(log')
    BY <1>0, <2>1
  <2>3. sealed < Len(log)
    BY <1>3 DEF Ack, LandedIsLast
  <2>4. AckedSealed'
    BY <1>0, <2>1, <2>3 DEF AckedSealed
  <2> QED BY <1>0, <2>1, <2>2, <2>4 DEF LandedIsLast
<1>4. CASE Fail
  BY <1>4 DEF Fail, LandedIsLast, AckedSealed
<1>5. CASE Lose
  <2>1. PICK n \in sealed .. Len(log) : log' = SubSeq(log, 1, n) /\ sealed' = n
    BY <1>5 DEF Lose
  <2>2. /\ pending' = None /\ acked' = acked
        /\ landed' \in BOOLEAN /\ ~landed'
    BY <1>5 DEF Lose
  <2>3. log' \in Seq(Batch) /\ Len(log') = n /\ n \in Nat
    BY <2>1, LoseTypes
  <2>4. sealed' \in 0 .. Len(log')
    BY <2>1, <2>3
  <2>5. AckedSealed'
    BY <1>0, <2>1, <2>2 DEF AckedSealed
  <2> QED BY <1>0, <2>2, <2>3, <2>4, <2>5 DEF LandedIsLast
<1>6. CASE UNCHANGED vars
  BY <1>6 DEF vars, LandedIsLast, AckedSealed
<1> QED BY <1>1, <1>2, <1>3, <1>4, <1>5, <1>6 DEF Next

LEMMA LogInvariant == Spec => []Inv
<1>1. Init => Inv
  <2> SUFFICES ASSUME Init PROVE Inv
    OBVIOUS
  <2>1. log \in Seq(Batch) /\ sealed \in 0 .. Len(log) /\ pending \in Batch \cup {None}
    BY DEF Init
  <2>2. landed \in BOOLEAN /\ ~landed
    BY DEF Init
  <2>3. acked \in Nat /\ AckedSealed
    BY DEF Init, AckedSealed
  <2> QED BY <2>1, <2>2, <2>3 DEF Inv, TypeOK, LandedIsLast
<1> QED BY <1>1, StepKeepsInv, PTL DEF Spec

(***************************************************************************)
(* The log and its seal keep their types; the seal never passes the end of *)
(* the log, whatever is lost.                                              *)
(***************************************************************************)
THEOREM LogTyped == Spec => []TypeOK
<1>1. Inv => TypeOK
  BY DEF Inv
<1> QED BY <1>1, LogInvariant, PTL

(***************************************************************************)
(* A landed batch is the last of the log and not sealed before its call    *)
(* answers: no batch lands twice.                                          *)
(***************************************************************************)
THEOREM LandsOnce == Spec => []LandedIsLast
<1>1. Inv => LandedIsLast
  BY DEF Inv
<1> QED BY <1>1, LogInvariant, PTL

(***************************************************************************)
(* With fsync on, there is a sealed batch for every answer Ok, after any   *)
(* number of crashes.                                                      *)
(***************************************************************************)
THEOREM AckedAreSealed == Spec => []AckedSealed
<1>1. Inv => AckedSealed
  BY DEF Inv
<1> QED BY <1>1, LogInvariant, PTL

=============================================================================
