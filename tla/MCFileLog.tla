------------------------------ MODULE MCFileLog ------------------------------
(***************************************************************************)
(* FileLog with the batches whose torn prefixes differ: an escaped ETB in  *)
(* a text, a record behind one with a level, a note before a record.       *)
(***************************************************************************)
EXTENDS FileLog

Record  == <<RS, 97, ETB>>
Pair    == <<RS, DLE, US, CAN, RS, 98, ETB>>
Noted   == <<BEL, 99, RS, 98, ETB>>
Escaped == <<RS, STX, DLE, ETB, ETX, ETB>>

AllBatches  == {Record, Pair, Noted, Escaped}
FewBatches  == {Record, Pair}

\* A log that is synced through three calls; one that is not, with a reader.
Synced   == [sync |-> TRUE,  calls |-> 3, errors |-> 1, crashes |-> 2, reads |-> 0]
Unsynced == [sync |-> FALSE, calls |-> 2, errors |-> 0, crashes |-> 1, reads |-> 1]
OneOfEach == {Synced, Unsynced}

\* No crash: a caller that goes on after an error, and two openers.
NoCrash == {[sync |-> TRUE, calls |-> 2, errors |-> e, crashes |-> 0, reads |-> 0] : e \in {0, 1}}

=============================================================================
