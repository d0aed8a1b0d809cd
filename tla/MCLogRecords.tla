----------------------------- MODULE MCLogRecords -----------------------------
(***************************************************************************)
(* Rows: a value that needs a text with an escaped ETB, and two values of  *)
(* which the last is empty, so that the block ends in a US.                *)
(* Also, on rows of many more values: what the calls write are the batches *)
(* that StreamReaderProofs and FileLogProofs speak of.                     *)
(***************************************************************************)
EXTENDS LogRecords

ShortRows == {<<<<ETB>>>>, <<<<97>>, << >>>>}
OneName == {<<110>>}

\* Up to two values of up to two bytes that a value, a text or the scan treats
\* differently.
Values2   == UNION {[1 .. n -> {97, ETB, DLE, STX, EOT, BEL, SP}] : n \in 0 .. 2}
ManyRows  == UNION {[1 .. n -> Values2] : n \in 0 .. 2}

ASSUME CallsAreBatches ==
  \A row \in ManyRows :
    /\ IsBatch(RecordBytes(row)) /\ IsBatch(ListBytes(row))
    /\ IsBatch(Bytes(PositionalRecord(PositionalRecord(NewBuilder, row), row)))
    /\ \A n \in OneName : /\ \A i \in DOMAIN row : IsBatch(MapBytes(<<<<n, row[i]>>>>))
                           /\ IsBatch(HeaderBytes(<<n>>))
                           /\ IsBatch(GroupBytes(n, << >>)) /\ IsBatch(GroupBytes(n, <<<<n>>>>))

\* The batches that the runs of StreamReader and FileLog append, without notes.
ASSUME AppendedAreBatches ==
  \A bytes \in {<<RS, 97, ETB>>, <<RS, 97, RS, 98, ETB>>, <<RS, DLE, US, CAN, RS, 98, ETB>>,
                <<RS, STX, DLE, ETB, ETX, ETB>>, <<RS, DLE, US, CAN, ETB>>} : IsBatch(bytes)

=============================================================================
