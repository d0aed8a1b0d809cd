# Formal models of c0

`c0` (`src/`) is a Rust library for C0DATA, a data format built on the ASCII control
codes: a writer and a validator, zero-copy readers, append-only logs with commits, multi-file
diffs, and converters to a pretty form, JSON and CSV. This directory holds TLA+ models of it, the
TLC runs that check them and the TLAPS proofs about them.

## Inventory

| component | state | operations | interacts with |
|---|---|---|---|
| bytes and values (`lib.rs`) | none | byte classes, `trim`, `value`, `decode_text`, `write_value`, name rules | used by everything |
| scan primitives (`scan.rs`) | none | `layout`, `plain`, `text`, `level`, `unit`, `comment`, `record_end`, `keyed_unit_end` | used by every reader |
| stream reader (`stream.rs:18-258`) | locals of the scan (`pos`, `block_start`, `in_text`, `depth`); blocks, damaged, `committed_end`, `torn` | `new`, accessors, `undamaged`, `records`, `last_commit_end` | `scan`; `Document` for `records` |
| stream writer, log file (`stream.rs:260-421`) | an open append handle; the file, shared by processes | `start`/`record`/`map`/`header`/`group`/`batch`, `open_log`, `repair_log`, `read_log` | Builder for the bytes, StreamReader for the repair, the file system |
| diff (`diff.rs`) | parsed edits; the files on disk | `parse`, `apply`, `apply_bytes`, `apply_files`, `apply_file`, `DiffBuilder` | `scan`, `lib`, the file system |
| builder (`builder.rs`) | output bytes, `in_record`, `units`, a stack of open levels | one primitive per code, composed methods on top | `lib` |
| validator (`validator.rs`) | a position and the list of canonical-form complaints | recursive descent over a document; well-formed and canonical verdicts | `scan`, `lib` |
| body and records (`body.rs`) | an index of parts, groups, records | `index`, lookups, edit access to dead elements | `scan`, `lib` |
| documents (`document.rs`) | heading, body range, trailer, raw region | `Document::at`, `Container`, `blob_bytes` | `scan`, `Body` |
| pretty printer (`pretty.rs`) | an output buffer, table columns | `format_compact`, `format`, `parse` | `scan` |
| JSON, CSV (`json.rs`, `csv.rs`) | none | export and import | `Document`, `Body`, Builder |

Only the log file and the diffs keep state that outlives the process, and only there do processes,
crashes and partial failures matter. The hard behaviour is:

* **what a commit is.** A log is repaired and read by one forward scan. It has to find the same
  commits whatever stands inside the blocks, whatever is appended later and wherever a crash cut the
  file. Damage inside a block must neither hide a commit nor spread.
* **failure between system calls.** A batch is one `write_all` and one `sync_all`; a repair is a
  read and a `set_len`; an applied diff is a read of every file, then a write and a rename for each.
  A process may die, fail or be overtaken between any two.
* **several grammars over the same bytes.** The validator, `Body::index`, the pretty parser and
  `diff::parse` each walk the bytes on their own; they must agree. The Builder promises that its
  composed methods "cannot write ill-formed output" (`builder.rs:35-37`).

What makes each component correct:

* stream reader: no unescaped ETB is missed; blocks are disjoint and in order; damaged means
  unreadable; the blocks of a prefix are a prefix of the blocks; a repair keeps every commit.
* log file: acknowledged batches survive; only whole batches are read; a repair cuts nothing that
  is committed; a reader beside a writer sees a prefix.
* diff: a file's sections are placed in one way or refused; a refused diff changes no file; files are
  never half written; an answered diff is entirely there.
* builder and validator: what composed calls write is well formed; canonical output is a fixed point.
* body, documents: they read what the validator accepts, the same values in every access path.
* pretty form: its parse is what was formatted, and the layout lost on the way means nothing;
  JSON and CSV: what was imported is exported as it was.

The hazards, each with its line and the properties aimed at it, are in `PROJECT.json`.

## Modules

| module | models | role |
|---|---|---|
| `C0Bytes` | codes and byte classes of `lib.rs` | shared definitions |
| `Scan` | `scan.rs` | pure functions: offset to offset past a construct, or `Err` |
| `Values` | the values and names of `lib.rs`: `trim`, `value`, `decode_text`, `write_value` | pure functions |
| `StreamScan` | the branches of `StreamReader::scan`, `payload_end`, `torn_tail`, `last_commit_end` | pure functions on a record of the scan's locals |
| `StreamReader` | `StreamReader::new` on one buffer | state machine, one action per branch of the loop |
| `CommitLog` | what a log promises its one writer | abstract specification |
| `FileLog` | `open_log_with`, `repair_log`, `batch`, `sync`, `read_log` | one action per system call; composes `StreamScan`; implements `CommitLog` |
| `LogRecords` | `StreamWriter`'s calls, `undamaged`, `records` | one action per call; composes `Builder`, `StreamScan`, `DocumentReader` |
| `BodyIndex` | `body.rs`: `Body::index` and what records, units, keys and references are read as | pure functions |
| `DocumentReader` | `document.rs`: `parse_heading`, `find_body_end`, `Document::at`, `Container::new` | pure functions |
| `Validator` | `validator.rs`, data and diff bodies | one function per method, from the state of the walk to the state after |
| `Builder` | `builder.rs`: primitives and composed methods | functions on the builder's state |
| `BuilderCalls` | a caller of the composed methods | state machine, one action per method; composes `Builder`, `Validator`, `BodyIndex` |
| `Documents` | one buffer in front of all of them | composes `Validator`, `DocumentReader`, `Builder` |
| `DiffEdit` | `apply_file`, `replace_all`, `find` | pure functions, one `Apply` step |
| `DiffFiles` | `apply_files` | one action per system call |
| `DiffText` | `diff::parse` and the methods of `DiffBuilder` and `SectionBuilder` | pure functions |
| `DiffCalls` | the author of a diff, by calls or by hand | state machine; composes `DiffText`, `Validator` |
| `PrettyForm` | `pretty.rs`: `format_compact`, `parse` | a walk that writes characters, and one that reads them |
| `PrettyAlign` | `pretty.rs`: `align`, the columns of a table | pure functions on the compact form |
| `Pretty` | a buffer, formatted and parsed | properties; composes `Documents`, `PrettyAlign` |
| `CsvForm`, `JsonForm` | `csv.rs`; `json.rs` without `serde_json` | pure functions |
| `Converters` | CSV texts and value trees, there and back | state machine; composes the two with `Validator` |
| `RecursionProofs`, `ScanProofs`, `StreamReaderProofs`, `WriterProofs`, `CommitLogProofs`, `FileLogProofs`, `DiffEditProofs`, `DiffFilesProofs` | | theorems and their proofs |
| `MC*` | | constants for TLC |

### How state and actions correspond to the code

**Bytes.** A byte is its number; offsets count from 0 as in the code, so the byte at offset `p` is
`At(buf, p) == buf[p + 1]`. `Err` stands for every `Error`; positions and wording are left out.

**StreamScan and StreamReader.** `reader` holds the locals of the loop and the fields of the struct;
a block carries its damage flag, where the code keeps a second vector of indexes. Each branch of the
`if` chain is one function (`OpenText`, `CloseLevel`, `CutText`, `CommitBlock`, ...) and one action
(`ScanTextOpen`, ...). `CommitBlock` is the whole branch: `commit`, `payload_end` and the resets.
`FindTorn`/`FindClean` are the end of the loop with `torn_tail`. `ScanOf` runs the same `Step` to the
end for models that call the scan as one step. `pos` may pass the end by one (a DLE at the end).

**FileLog.** `proc[p].pc` is the place in the code: `OpenRead` is `fs::read` and the scan of
`repair_log`, which fixes the offset that `Truncate` later gives to `set_len`; `OpenAppend` is the
`open`. A call is `Begin`, one `WriteSome` for each `write(2)` of `write_all`, then `Return`
(`sync_all` when `sync` is set, then Ok). `WriteError` and `SyncError` answer Err. With `DropOnError`
the caller drops a log whose call failed and opens it again, as a careful caller does; without, it
goes on. The file system is external. An append adds bytes at the end; `set_len` cuts or fills with
zeros; `sync_all` makes `durable = file`; power loss leaves `durable`, or the file cut anywhere behind
what both share. A missing file is an empty file. `read_log` reads in chunks; `mixed` and `base` are
ghosts that remember whether the file was cut during the read and what it held before.

**CommitLog refinement.** `log` is the undamaged blocks of the file without their notes (`Data`; a BEL in a
text is data), `sealed` the number of those in `durable`, `pending` the running batch, `landed` whether its last byte is in the file.
Every `WriteSome` but the last, every repair and every open are stutters.

**DiffEdit.** A section is its units (an anchor is a unit whose new is its old) and its replace-alls.
Results are `Ok(data)` or `Error(variant)`. Nothing depends on what a byte is (`Bytes`), so the files
that TLC checks are short words over two letters.

**DiffFiles.** The directory maps entries to inodes, so that a file that one call holds open can be
renamed by another. A content is the set of edits made to the file and whether it is a whole
version. `Plan` is one turn of the first loop (canonicalize, read, `apply_file`), `Refuse` any of its
errors; `OpenTmp`, `WriteTmp`, `Rename` are `fs::write` and `fs::rename` of one turn of the second.

**Values, BodyIndex, DocumentReader.** A raw slice is a sequence of bytes of its own; a record is its
raw bytes behind the RS. `Index` is `Body::index`: `Leading` and `GroupLines` are the two parts of
`index_part`, `GroupContents` is `index_group_contents`. It may stop before the end of the body without
an error, as the code does. `Read` applies the accessors to all that was indexed: each unit
becomes a value, a reference, the body of a level, or `Unreadable` where the accessor answers an
error. `Container` is the list of documents or `NoContainer`.

**Validator.** The state is `[pos, canonical, diff]`: the position that each method returns, `ok`, and the
flag that a heading sets. An error is `Failed`. `DataBody`, `BodyPart` and `Contents` are `body`,
`part` with `group`, and `pre`, `header_row` and `items`: a body is a part and what stands behind the next
file line. The descent meets itself in `value`, whose levels hold records: `UnitValues` is that
method as a function of the state, which the methods above it take as a parameter. All methods
stop at the end of the buffer, because the code hands the same `stop` down into levels.

**Builder and BuilderCalls.** `builder` is the struct. A method that takes a closure (`level`,
`key_level`) is an `Enter` and a `Leave` action with the closure's calls between them. `said` is a ghost: the
body that the calls describe, in the form in which `Read` returns one. A record without units reads
as one empty value, which `Said` accounts for. Names are legal, because others panic. `InOrder` says
whether the caller keeps to what the grammar asks of it; its conditions are `MayAddValue`, `MayAddKey`,
`MayAddHeader` and `MayAddNote`.

**LogRecords.** A call appends the bytes that `Builder` gives and an ETB; `Tears` is a process that dies
in it with any part of them in the file. The caller then opens the log (`Repair`) or writes on without a
repair, as a `StreamWriter` over a file of its own does, behind whatever bytes are there (`Continues`). Either the
tail is inside a text or a level, in which the next ETB stands and damages that block with what the call said
(`Spoils`); or the tail is committed with the call and reads on into it, which the ghost `joined` remembers. `Records` is `records`:
`undamaged`, the document in front, the values of all its records or an error. Other ghosts hold what was said, and
whether the document has ended.

**DiffText and DiffCalls.** `ParseDiff` walks the bytes as `parse` does and keeps the files that are
complete, the one it is in, and the first error by its variant. In `DiffCalls` an author either calls
`DiffBuilder`, with a BEL put before some elements to strike them out, or writes pieces by hand.

**PrettyForm and PrettyAlign.** A buffer's form is a sequence of characters: a byte is its own
character, the picture of a code is the code plus an offset, as `glyph` has it. The writer `w` is
`[pos, depth, gdepth, stack, out]`, the locals of `format_compact`; `WriteNext` is one turn of its loop, with
`WriteElement` and `WriteUnits` for the two functions it calls. `align` works on the lines of the
compact form: `AlignLines` collects tables and pads them. Its width is one per character, as in
`chars().count()`. The number in the summary of a raw region is one character, since the parser skips it.

**JsonForm, CsvForm and Converters.** A tree is `<<"str", bytes>>`, `<<"array", trees>>` or
`<<"object", pairs>>`. An error of an export is `NoTree` or `NoCsv`. Texts grow character by character and
trees level by level, alone or beside a small sibling.

Operators named `X_what` beside `X`, marked "Wrong:", are plausible bugs. They are used by nothing
but the `mutants` of `PROJECT.json`: with `X` replaced by one of them, TLC finds the named property
violated.

## Runs

| run | question | bounds |
|---|---|---|
| `reader` | commits, blocks, damage, growth, repair and append, termination | every buffer of up to 5 bytes over two alphabets: what the loop and `scan::text`/`level` tell apart (9 bytes), and what `torn_tail` and `payload_end` do (10 bytes, EM among them) |
| `commit_log` | the abstract log: a batch lands once, an acknowledged one is sealed | 2 batches, 4 places |
| `file_log` | one writer with failures; what is committed on the disk stays; the file implements the abstract log | with fsync: 4 batches with different torn prefixes, 3 calls, 2 crashes, 1 I/O error; without: 2 calls, 1 crash, a `read_log` in any chunks beside the writer |
| `log_records` | what `records` gives after calls and crashes, with a repair or without | 4 calls of 10 kinds, 1 crash at any byte; rows with an escaped ETB and with an empty last value |
| `diff_edit` | placement, undo, replace-all | files of up to 5 letters; up to 2 sections with and without anchor, a replace-all in the leading and in the section's scope |
| `diff_files` | three calls that share files two by two in opposite order, one with a name that is not there | 2 crashes, 2 errors |
| `diff_parse` | `parse`, `DiffBuilder` and the validator on the same diffs | 3 calls with any element struck out; 4 pieces of 13 by hand |
| `documents` | the validator, the readers and the builder on the same bytes | every buffer of up to 5 pieces of a body (13), of the frames around bodies (13, one of them a text and a level with a SYN inside) or of texts (9) |
| `builder` | what composed calls write | up to 4 calls, 2 levels deep; plain, escaped and empty values |
| `pretty` | the pretty forms and their parse | every buffer of up to 4 pieces of a body (14), of frames (12) or of tables (15) |
| `converters` | CSV and JSON there and back | CSV texts of up to 6 of 6 characters; trees of up to 3 levels around 5 leaves (two different strings and an empty one among them), with 2 keys |
| `json_keyed_level` | refutes that every tree written can be exported | trees of 2 levels |

Five bytes are enough for a text or level opened, cut and committed with a payload or a second block
behind it; all branch pairs and most triples occur. Three calls and two crashes allow: write, crash in
the repair of a crash, write again. Four calls of a log allow a record before a torn one and one behind it, and a
start or EOT between. Five pieces hold a dead or live element with a unit and a note, or a
heading with a second document behind it, and four calls a unit before, in and behind a level. Three
calls of a diff are a file, a section and a replace-all or a second file, each of them dead or alive. Four
pieces of tables are two rows of two cells, a table in a level, a note in a row. Six characters are two
quoted fields or three rows, and three levels hold tables in records in tables.

What the passing runs show:

* a repair keeps every commit, what is appended behind it is one more block, and a block is damaged
  exactly when its readers cannot read its texts and levels;
* an acknowledged batch survives crashes of the process and of the machine, whole, for one writer that
  drops a log whose call failed, and what the disk holds committed stays there; `records` gives the committed records
  once each and in order, after a repair of what was torn or behind a torn tail that damaged the next block. Where a torn tail
  was committed with the next call instead, `records` gives what was committed before it first, or an error;
* a refused diff changes no file, files stay whole, and an answer Ok means that the edits are there,
  for calls that do not meet in a file; a call that stopped has made the first edits of its diff;
* what `DiffBuilder` was told is what `parse` finds, dead elements left out, and the validator accepts it;
  of diffs written by hand `parse` and the validator take the same;
* a buffer that the validator accepts is read to its end, unit by unit; a canonical one is the
  builder's spelling of what it says; documents behind one another are read as each is alone;
* composed calls in the grammar's order write a well-formed body that reads as what was said, and
  one that is canonical when there is no note in it and no key twice;
* the parse of a compact, aligned or spaced form is the buffer without the layout around its codes, that layout
  means nothing, and each element has a line of its own;
* a CSV table comes back cell by cell; what `from_value` writes is canonical and comes back with every
  key and string in the same order, although empty arrays, objects and the nesting of lists may change; a second
  round trip changes nothing.

### Where properties keep clear of what the code does

Each of the properties above leaves a case out by a named condition. In these cases the code does
something that is worth knowing. The configurations named here are not among the runs: TLC refutes each
of their invariants (where there are two, with `-continue`).

| condition | what the code does there | refuted by |
|---|---|---|
| `AppendLands`: no `RawTail` | a tail with an EM is not torn, so records are appended behind the EM (`stream.rs:225`) | |
| `DamagedIffUnreadable`: not `NotJudged` | a text cut by EOT or EM is committed as undamaged, where `stream.rs:153` says "torn or damaged"; so is a level with one of them in it, and a text with an STX or a bad escape | `StreamReader_claims.cfg` |
| `ShortcutAgrees`: logs as the writer leaves them | a payload on the line below its ETB is seen by the forward scan only (`stream.rs:254`) | `StreamReader_claims.cfg` |
| `joined`: a torn tail that was not repaired, outside texts and levels | a batch is appended behind any bytes (`stream.rs:320`), so that a torn `RS a` is committed with the next batch and `records` gives it | |
| `joined`: a `start` behind such a tail | no block holds the torn bytes (`stream.rs:176`), but with no block damaged they are in `undamaged()`, and `records` reads them (`stream.rs:103`) | |
| `CallMap` in `said`: no values | `records` gives a keyed record as an empty row, because `fields` leaves its pairs out (`body.rs:541`); `stream.rs:118` says "values of every committed record" | |
| `failed` | one record with a list, or a header row behind a record, makes `records` fail for the whole log (`stream.rs:121`) | |
| `Repair`, a tail of notes or an EOT | it is not torn and stays: a `start` then opens a second document, which `records` does not read | |
| `DropOnError` | after a failed write, the next batch on the same handle is joined to the torn bytes (`stream.rs:321`) | `FileLog.cfg` with `DropOnError = FALSE`: `WholeBatches` |
| one process in `Procs` | a repair cuts what another process committed since its read (`stream.rs:413`) | `FileLog.cfg` with `Procs = {p1, p2}`, `Settings <- NoCrash`: `RepairCutsTail` |
| `met`: files in which calls met | two calls on a file share its temporary file, and the target can be left empty (`diff.rs:321`) | |
| `OkEditsStay`: each name another file | `a` and `./a` in one diff: Ok, and the first edit is lost (`diff.rs:317`) | `DiffFiles_claims.cfg` |
| `EditsInOrder`, not all or none | an error after the first rename leaves the diff half applied; `README.md:26` says "atomic multi-file apply" | `DiffFiles_claims.cfg` |
| `CallNote`: no empty note | `note("")` writes a bare BEL, which strikes out the next element (`diff.rs:556`) | |
| `HeadingNote = FALSE` | a note behind the heading is a part of its last value to the validator (`validator.rs:140`), not to `parse` | `DiffCalls.cfg` with `HeadingNote = TRUE` |
| `DiffsDiffer` | a line break between a plain value and a SUB, US or note is an error of `parse` only; a dead key or header row is an error of the validator only | |
| `GrammarsDiffer`, dead record | `BEL RS` before a header row is valid (`validator.rs:237`) and refused by `Body` (`body.rs:323`) | `Documents_claims.cfg` |
| `GrammarsDiffer`, note below a value | `RS a LF BEL b` is valid, and `value` answers "layout code inside a plain value" (`lib.rs:239`) | the same |
| `GrammarsDiffer`, note on a reference | `ENQ a BEL b` is valid, and `Reference::parse` takes the note into the name (`body.rs:717`) | the same |
| `SpelledTwice`, layout | the space in `RS ENQ a SP` is not seen as layout, so one content has two canonical forms; `validator.rs:23` says "one spelling per value" | `Documents_claims.cfg` |
| `SpelledTwice`, FS without a name | reads like no FS, and both are canonical | |
| `DocumentsApart`: no diff before | `diff` is not reset at the next SYN, so a data document behind a diff is checked as one (`validator.rs:134`) | |
| `InOrder` | `group` with a header row and then `header`, or `field` and then `key`, write an ill-formed body; `builder.rs:35-37` says that composed methods cannot | `BuilderCalls.cfg` with `InOrder = FALSE` |
| `MayAddNote` | a note before a record's first unit runs into its value, one behind a header row or on a reference into the name | |
| `NotedHeader` | the same of a note that stands behind a header row: with its layout it is a part of the last name (`body.rs:427`) | |
| `Leads` | the BEL of a dead file or group has a line of its own, and that of a dead header row behind a heading stands on the heading's line; `pretty.rs:202` says "render it on this line" | |
| `AlignLosesIt` | a line of a text that begins like a row is aligned with the table; a wide space at the end of a cell is trimmed (`pretty.rs:618`) | `Pretty.cfg` with `Alphabets <- Broken`: `EveryAlignedParses` |
| `CsvPanics` | a first CSV row with a cell that is no name: `Builder::header` panics (`builder.rs:329`) | |

### The run that refutes a claim

`json_keyed_level`: `export_record` takes the keys of a keyed record from `pairs()`, which reads every
value as a scalar, so `to_value` fails on what `from_value` writes for an object that holds a list or an object in
a record (`json.rs:110`); `export_raw`, two lines below, could export both. `HasKeyedLevel` names these trees.

### Fairness

Only `StreamReader` assumes fairness, `WF_vars(Next)`: a sequential loop runs on. `ScanEnds` rests on it. The other
machines state safety only: nobody has to open a log, begin a call or finish it, and a crash may stop each of them
anywhere.

## Proofs

What follows holds for every value of the constants, under the assumptions of the modules
(`BuffersAssumption`: buffers are sequences of bytes; `CommitLogAssumption`: `None` is no batch;
`FileLogAssumption`; `DiffEditAssumption`: files are sequences of `Bytes`, edits are of sections and replace-alls;
`DiffFilesAssumption`, with finitely many files) and under the hypotheses named in the theorems.

**`RecursionProofs`**: a loop of the code is a recursive function here, and nothing is known of such a function
until it is shown to exist. `TailRecursion` does that for functions that go on at another place, `StepByStep` for
those that go on with the next number; the latter builds the function on ever longer domains. Both rest, as `UpTo`
and `DownFrom` (induction up to and down from a bound) do, on `LeastOffset`: a nonempty set of offsets has a least one.

**`ScanProofs`**: the primitives of `scan.rs`, for every buffer. `LayoutStops` and `PlainStops` say where a run of a class ends.
`text` and `level` are loops: `TextUnfolds` and `LevelUnfolds` give the next turn of each, a case for each kind of byte, and
`TextStops` and `LevelStops` that they return an error or an offset behind the one they start from and not behind their stop.
`comment`, `record_end`, `unit` and `keyed_unit_end` call one another. That such a function exists at all is shown from the stop
backwards: what one of them answers at an offset depends on what they answer behind it only (`PrimitiveDepends`), so
that the answers for the offsets from one on determine those of the offset before it (`RightAtOneMore`). `PrimitivesMove` is the
result: each of the four ends, with an error or with an offset that is not before the one it started from.

Behind them, the scan of `stream.rs` as a function, for every buffer. `TrimStops` and `PayloadStops` say what the helpers return, and
`RunUnfolds` and `ScanInduction` turn the run of the loop into an induction over what is left of the buffer. The results:

* `PrefixScan`: the scan of a prefix finds the first blocks of the scan of the whole. The two runs agree
  step by step (`SameStep`) but for the last payload, which the prefix may cut (`PayloadCut`);
* `CutAtCommit`: cut at `committed_end`, a buffer has the same blocks and no torn tail;
* `ScanPlaced`: the blocks and `committed_end` lie in the buffer;
* `AppendScan`: behind a buffer that is all committed (`Settled`), or that has notes behind its last commit (`Resting`), the scan
  goes on as on the appended bytes alone, shifted (`StepShift`); the block that was pending keeps its start (`Moved`);
* `PassesTail`: a tail that is not torn and holds no EM is layout, notes and EOTs, and the loop passes it with no text and no
  level open. A note may be a text, which the loop passes because `scan::text` does (`PassesText`);
* `BatchLands`, `PartLandsNot`: a batch that is one commit (`OneCommit`) adds its block, with the notes before it, and any
  proper part of it behind a settled file adds none and is torn;
* `ComesFurther`, `ComesToCommit`: how far the loop has come, with a text open or not and at which depth, and what a commit there
  adds. `EscapesAre`: the number of DLEs that `last_commit_end` counts before an offset.

**`StreamReaderProofs`**: the loop as a state machine. `TypeCorrect`, `CommitsFound` (`EveryEtbCommits`),
`BlocksOrdered` (`BlocksInOrder`) and `PendingStarts` follow from one inductive invariant `Inv`.
`EveryEtbCommits` is not inductive as it stands: a commit moves `pos` over the payload, and that no ETB
is skipped there needs that a payload is layout and plain bytes; an escape moves `pos` by two, and
the byte it skips may be an ETB, which the statement allows because its predecessor is the DLE.
`BlocksInOrder` needs that the next block starts where the last ended or at a SYN. `StepKinds` reduces
the eleven branches to two kinds. `ScanComputes` ties the machine to the function: whatever is left of the loop, the
run from the present locals gives `ScanOf` (`Result`). With it the lemmas above give `CommitsStay` (`PrefixStable`),
`RepairIsSafe` (`RepairKeepsCommits`) and `AppendsLand` (`AppendLands`): a file that is not torn rests, so a batch lands.
`AnyAppendsLand` says it of any batch that is one commit; that the three of `Appends` are is proved byte by byte.

`DamageIsRight` (`DamagedIffUnreadable`) compares two readings of a block. `Reads` jumps over texts and levels with `scan::text` and
`scan::level`; the loop goes byte by byte with `in_text` and `depth`. They meet in `Onward`: whether the block, if it
ended at some stop, could still be read from where the loop is, out of the text and the levels it is in. For every
stop at once, `Judged` keeps `Onward` between "readable from its start" and "readable or `NotJudged`"; a step either leaves
`Onward` as it is (`AfterUnfolds`, `OnwardInText`, `OnwardOutside`) or is at a byte that makes it false and that
`NotJudged` names (`OverlookedIs`). For the latter `Knows` remembers the STX or DLE that the loop has seen. At the ETB `Onward` is
that no text and no level is open, which is the flag (`CourseEnds`).

**`WriterProofs`**: what the writer gives the readers. `WrittenIsRead` is that `value` reads back what `write_value` wrote, for every
sequence of bytes. For a plain value that is that `trim` and the run of plain bytes take all of it; for a text that the loop of `text` stops at the
last ETX (`SpelledText`), because an ETX in the value has a DLE before it, and that `decode_text` gives each byte back
(`DecodeSpelled`): the spelling of the first k bytes ends at the offset `off[k]`, and the two loops are followed from one of these to the next.

The other result is about whole batches. A byte sequence is a `Piece` if the scan comes through it to its end, with no text open and at the depth at which
it began, wherever it stands; if each ETB in it follows an odd number of DLEs; and if it does not end in a DLE. Values, codes, notes and names are pieces
(`PieceMarks`, `SpelledAlike`, `PieceInside`), and pieces behind one another are one. `Sound` is the invariant of the builder's state: its bytes are free of
marks that count, and the scan stands behind them with no text open, as deep as the builder's stack is high.
`Grows` says of a call that it adds a piece and leaves the stack. Each of the builder's calls does (`RecordGrows`, `KeyedGrows`,
`HeaderGrows`, `GroupGrows`, `PathGrows`, ...), or opens or closes one level (`LevelsSound`). `BatchIsOne` follows by induction over the calls: whatever a closure
does with the builder, call by call and with any values, if it has closed its levels and did not begin with a note, then the bytes that
`commit_bytes` appends are one undamaged block, and a backward search meets no ETB that counts but the last. The calls are those of `DataCall` and
notes: all that `Builder` models but `syn`, `eot` and `etb`, which end or begin a document or a block. `WritersCalls` (`CallsWriteBatches`) is the
same of `StreamWriter`'s own `record`, `map`, `header` and `group` and of a list, for all rows, pairs and names.

**`CommitLogProofs`**: `LogTyped`, `LandsOnce` and `AckedAreSealed`. The last says that
with fsync on there is a sealed batch for every answer Ok, after any number of failures and power losses.

**`FileLogProofs`**: the log file with one writer (`OneWriter`), any number of bytes a write, any number of crashes.
`StepDoes` says once what each action does to the one process, the file and the disk, and the proofs
use that. Whatever the batches are, `BaseInv` is inductive: nobody changes the file between the read and the cut of a
repair (`CutInv`), what is left to write is the end of the batch (`CallInv`), and what a reader has got is the start of
the file unless the file was cut (`ReadInv`). It gives `RepairsCutTail` (`RepairCutsTail`) and
`ReadsAreConsistent` (`ReadIsConsistent`).

`LogInv` is the invariant of what is in the file. It needs that a failed handle is dropped
(`DropOnError`) and that each batch, read alone, is one commit (`RecordBatches`). That the records found are whole batches is
not inductive: power loss can cut the file anywhere. `LogFile` is: wherever the file is cut, there are whole
batches and a proper part of one more. The other parts say that the disk's committed part is
at the start of the file, that at rest there is no part, that during a call the part is what was written, and
that a batch answered Ok is in the disk's committed part (`AckedInv`, where equal batches are counted).
`BatchesAreWhole` (`WholeBatches`), `AckedAreInLog` (`AckedInLog`) and
`LogImplements` (`Implements`) follow; the last needs `RecordsHaveData`, for a batch without data
leaves no record by which its landing could be told. `StepImplements` maps the steps: `Begin` is `Submit`,
the `WriteSome` of the last byte is `Land`, `Return` is `Ack`, errors are `Fail`, `PowerLoss` is `Lose`, and the rest stutters.

`DiskStays` (`DurableStays`) is about the steps that change the disk, an answer after an fsync and a power loss. `LogInv` has what is
committed on the disk at the start of the file, and of each file that a power loss can leave (`DiskKept`).

`ShortcutIsSound` (`ShortcutAgrees`) needs `BatchesOneMark` too: the only ETB in a batch that no DLE escapes is its last byte.
`MarkInv` says that this is so wherever a cut of the file would end with a commit.

`BuiltLog` puts this together with `WriterProofs`. Its hypothesis on the batches is `BuiltBatches`: each is what some calls on a new
builder make. By `BatchIsOne` such a batch is one commit with one mark, and by `DataUnfolds` it leaves data, so that
`RecordBatches`, `BatchesOneMark` and `RecordsHaveData` are true (`BuiltAre`) and nothing else is asked of the batches. `Data` is a loop
over a block's notes and texts; that it ends rests on `PrimitivesMove` and `TextStops`: the end of either is behind its start, or an error, with which the model's loop stops.

TLC evaluates the same on small values in the run of `LogRecords` (`CallsAreBatches`), and that the batches of `MCFileLog` and `Appends` are such
(`AppendedAreBatches`), except `Noted`, which opens with a note. Such a batch is a tail of notes when it is cut
before its record, which is not torn and stays in the file: the batch behind it lands with those notes
(`AnyAppendsLand`), so that the records are no longer the batches. That they are then whole but for the notes is
checked by TLC only.

**`DiffEditProofs`**: one file's edits, for every file and every edit. The loops of `apply_file` are unfolded first
(`FlattenUnfolds`, `MatchesUnfold`, `ReplaceOneTyped`, `SpliceUnfolds`). `FindIs` says that `find` gives the first occurrence, so that
the second `find` of `SectionPlaced`, one byte behind the first, finds something exactly when there is a second place.
`MatchesPlaced` goes through the sections: after k of them, either the k matches are the one vector of places
of the first k sections, or there is no such vector and the error is the code's. With `ReplaceOneTyped` (a replace-all fails
with its own error only) that is `PlacedOrRefused` (`FoundIffPlaced`).
For `BackAndForth` (`SwapRestores`), `WrittenAre` gives the output as the parts kept and the replacements in between.
What was written for a section occurs in the output where it was written (`WrittenLeads`); the way back found it at one place
only, so it found it there (`BackWrites`), section by section, and puts the old bytes between the same kept parts.

**`DiffFilesProofs`**: any number of files, names, calls, diffs, errors and crashes. `SafeInv` is inductive: types; every file has a
name, and no inode two (`Directory`); only a call that has planned its whole diff writes (`Loops`); between open and
rename a call has the temporary file of its target, or has lost it where calls have met (`Opened`); running calls share only
such files (`Apart`); what is planned is whole; nobody has the edits of a call that is still planning (`Unwritten`). It gives
`CallsTyped`, `FilesStayThere` (`FilesExist`), `TargetsWhole` (`FilesAreWhole`) and `RefusedIsUndone`
(`RefusedChangesNothing`). For `OkIsKept` (`OkEditsStay`) and `EditedInOrder` (`EditsInOrder`) `EditsInv` adds that what a call is
about to write is what the file holds and its own edit (`PlansAreFresh`), and that its edits are in the files it has renamed and
in no other (`EditsAreRenamed`). These two need `NoAlias`: no two names of one diff are one file; without it
`DiffFiles_claims.cfg` refutes `OkEditsStay`. That `Files` is finite gives each an inode of its own at the start (`InodesApart`).

### Checked by TLC only

* That the scan ends (`ScanEnds`): liveness rests on `ENABLED`, which the prover does not have.
* `ReplacesWhatWasThere`: the most disjoint occurrences of a word are counted by a fold over a choice of sets, an
  induction over data.
* The batch `Noted`, as said above.
* The readers, `Validator`, `diff::parse`, the pretty form and the converters, and so `LogRecords`, `Documents`,
  `DiffCalls`, `BuilderCalls`, `Pretty` and `Converters`: recursive descents written as RECURSIVE operators, which the prover does not take.
  Of the builder it is proved that its bytes are scanned as one block and that its values come back, not that the body is read as what was said.
* Batches with a `start` or an EOT in them, in `LogRecords`.

`TypeOK` of `StreamReader`, `CommitLog` and `DiffFiles` is proved and in no run, as are `PendingBlock`, `FilesExist`
and `RepairCutsTail`; the type invariants of the other state machines are stated beside their variables.

## Not modelled, and the plan

Not modelled: the positions and wording of errors and warnings; the page cache in `DiffFiles` (a temporary file
that is renamed before its bytes are on disk); permissions and links of files that a rename replaces;
`blob` and `blob_bytes`, look-ups whose only arithmetic is the sum of an offset and a length that the document gives
(unchecked, `document.rs:438`); values of a heading and paths that are not UTF-8 (`document.rs:53`, `diff.rs:413`); `em`, `sub`, `heading_level` and the bare
primitives of the builder called by the user; look-ups by name, which read what is modelled and keep no
state; the map between a value tree and `serde_json`'s; the tests.

What is left is proof about the readers, `Body::index` first: their descents would have to be written as recursive
functions, as those of `scan.rs` are.
