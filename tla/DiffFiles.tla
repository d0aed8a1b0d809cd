------------------------------ MODULE DiffFiles ------------------------------
(***************************************************************************)
(* diff::apply_files (src/src/diff.rs) on a directory that calls share,    *)
(* one action per system call: every file of the diff is resolved, read    *)
(* and edited in memory, then each is written to a temporary file beside   *)
(* it and renamed over it.  A call may fail at an I/O error or die between *)
(* any two steps, and another call may come after it or beside it.         *)
(*                                                                         *)
(* The file system is external: a directory of inodes, in which a rename   *)
(* is atomic and an open file outlives its name.  What a file holds is     *)
(* abstracted to the edits made to it and whether it is a whole version.   *)
(* Whether an edit applies (DiffEdit.tla) is a choice of Refuse.           *)
(***************************************************************************)
EXTENDS Integers, SequencesExt

CONSTANTS
  Calls,        \* the calls of apply_files
  Files,        \* the files under base_dir
  Names,        \* what a diff may call them
  Resolve,      \* canonicalize: the file of a name, or NotThere
  NotThere,     \* no file under base_dir: FileNotFound or PathEscapes
  Diffs,        \* each call's parsed diff: its names in order, none twice
  MaxCrashes,   \* bound: calls that die
  MaxErrors     \* bound: I/O errors

ASSUME DiffFilesAssumption ==
  /\ IsFiniteSet(Files)
  /\ Resolve \in [Names -> Files \cup {NotThere}]
  /\ NotThere \notin Files
  /\ Diffs \in [Calls -> Seq(Names)]
  /\ \A c \in Calls : IsInjective(Diffs[c])
  /\ {MaxCrashes, MaxErrors} \subseteq Nat

\* A file and the temporary file beside it are entries of the directory.
Entries == Files \X {"file", "tmp"}
File(f) == <<f, "file">>
Tmp(f)  == <<f, "tmp">>

Edits   == Calls \X Names
Content == [edits : SUBSET Edits, whole : BOOLEAN, empty : BOOLEAN]

Original == [edits |-> {}, whole |-> TRUE, empty |-> FALSE]
Empty    == [edits |-> {}, whole |-> FALSE, empty |-> TRUE]

VARIABLES
  dir,     \* the directory: entry -> inode, 0 for none
  data,    \* what the inodes hold, in the order they were made
  call,    \* each call: its place in the code, its locals
  met,     \* ghost: the files that two calls have worked on at the same time
  spent    \* what has been used of the bounds

vars == <<dir, data, call, met, spent>>

Call == [pc : {"idle", "plan", "open", "write", "rename", "ok", "refused", "failed", "dead"},
         next : Nat,                                      \* the loops' index
         planned : Seq([file : Files, content : Content]),
         fd : Nat]                                        \* the open inode

NotCalled == [pc |-> "idle", next |-> 1, planned |-> << >>, fd |-> 0]

TypeOK ==
  /\ dir \in [Entries -> 0 .. Len(data)]
  /\ data \in Seq(Content)
  /\ call \in [Calls -> Call]
  /\ met \subseteq Files
  /\ spent \in [crashes : 0 .. MaxCrashes, errors : 0 .. MaxErrors]

\* The files lie in the first inodes.
InodeOf(f) == CHOOSE i \in 1 .. Cardinality(Files) : SetToSeq(Files)[i] = f

Init ==
  /\ data = [i \in 1 .. Cardinality(Files) |-> Original]
  /\ dir = [e \in Entries |-> IF e[2] = "file" THEN InodeOf(e[1]) ELSE 0]
  /\ call = [c \in Calls |-> NotCalled]
  /\ met = {}
  /\ spent = [crashes |-> 0, errors |-> 0]

-----------------------------------------------------------------------------
Running(c) == call[c].pc \in {"plan", "open", "write", "rename"}

FilesOf(c) == {Resolve[n] : n \in ToSet(Diffs[c])} \ {NotThere}

Begin(c) ==
  /\ call[c].pc = "idle"
  /\ met' = met \cup UNION {FilesOf(c) \cap FilesOf(d) : d \in {d \in Calls : Running(d)}}
  /\ call' = [call EXCEPT ![c].pc = IF Diffs[c] = << >> THEN "ok" ELSE "plan"]
  /\ UNCHANGED <<dir, data, spent>>

\* The file named next, with this diff's edit for the name.
Edited(c, name) ==
  LET now == data[dir[File(Resolve[name])]]
  IN  [now EXCEPT !.edits = @ \cup {<<c, name>>}, !.empty = FALSE]

\* Wrong: a file is written as soon as it is planned.
Plan_writes(c) ==
  LET name == Diffs[c][call[c].next]
  IN  /\ call[c].pc = "plan"
      /\ Resolve[name] # NotThere
      /\ data' = [data EXCEPT ![dir[File(Resolve[name])]] = Edited(c, name)]
      /\ call' = [call EXCEPT
           ![c].planned = Append(@, [file |-> Resolve[name], content |-> Edited(c, name)]),
           ![c].next = IF @ = Len(Diffs[c]) THEN 1 ELSE @ + 1,
           ![c].pc = IF call[c].next = Len(Diffs[c]) THEN "open" ELSE "plan"]
      /\ UNCHANGED <<dir, met, spent>>

\* Canonicalize, read, apply_file.
Plan(c) ==
  LET name == Diffs[c][call[c].next]
  IN  /\ call[c].pc = "plan"
      /\ Resolve[name] # NotThere
      /\ call' = [call EXCEPT
           ![c].planned = Append(@, [file |-> Resolve[name], content |-> Edited(c, name)]),
           ![c].next = IF @ = Len(Diffs[c]) THEN 1 ELSE @ + 1,
           ![c].pc = IF call[c].next = Len(Diffs[c]) THEN "open" ELSE "plan"]
      /\ UNCHANGED <<dir, data, met, spent>>

\* The file is not there, outside, unreadable, or its edits do not apply.
Refuse(c) ==
  /\ call[c].pc = "plan"
  /\ call' = [call EXCEPT ![c].pc = "refused"]
  /\ UNCHANGED <<dir, data, met, spent>>

-----------------------------------------------------------------------------
(* std::fs::write of the temporary file: open, then write. *)

\* Wrong: the files are written from the last to the first.
Target_backwards(c) == call[c].planned[Len(call[c].planned) + 1 - call[c].next]

Target(c) == call[c].planned[call[c].next]

\* Wrong: a temporary file that was left behind keeps its bytes.
OpenTmp_keeps(c) ==
  LET tmp == Tmp(Target(c).file)
  IN  /\ call[c].pc = "open"
      /\ IF dir[tmp] = 0
         THEN /\ data' = Append(data, Empty)
              /\ dir' = [dir EXCEPT ![tmp] = Len(data) + 1]
         ELSE UNCHANGED <<dir, data>>
      /\ call' = [call EXCEPT ![c].pc = "write", ![c].fd = dir'[tmp]]
      /\ UNCHANGED <<met, spent>>

OpenTmp(c) ==
  LET tmp == Tmp(Target(c).file)
  IN  /\ call[c].pc = "open"
      /\ IF dir[tmp] = 0
         THEN /\ data' = Append(data, Empty)
              /\ dir' = [dir EXCEPT ![tmp] = Len(data) + 1]
         ELSE /\ data' = [data EXCEPT ![dir[tmp]] = Empty]
              /\ UNCHANGED dir
      /\ call' = [call EXCEPT ![c].pc = "write", ![c].fd = dir'[tmp]]
      /\ UNCHANGED <<met, spent>>

\* All bytes: a whole file, or a mixture where another call has written to it.
WriteTmp(c) ==
  LET fd == call[c].fd
  IN  /\ call[c].pc = "write"
      /\ \/ data' = [data EXCEPT ![fd] = Target(c).content]
         \/ ~data[fd].empty /\ data' = [data EXCEPT ![fd].whole = FALSE]
      /\ call' = [call EXCEPT ![c].pc = "rename"]
      /\ UNCHANGED <<dir, met, spent>>

\* Wrong: the last file is left where it was written.
Rename_notLast(c) ==
  LET f    == Target(c).file
      last == call[c].next = Len(call[c].planned)
  IN  /\ call[c].pc = "rename"
      /\ last \/ dir[Tmp(f)] # 0
      /\ dir' = IF last THEN dir ELSE [dir EXCEPT ![File(f)] = dir[Tmp(f)], ![Tmp(f)] = 0]
      /\ call' = [call EXCEPT ![c].pc = IF last THEN "ok" ELSE "open",
                              ![c].next = @ + 1, ![c].fd = 0]
      /\ UNCHANGED <<data, met, spent>>

Rename(c) ==
  LET f    == Target(c).file
      last == call[c].next = Len(call[c].planned)
  IN  /\ call[c].pc = "rename"
      /\ dir[Tmp(f)] # 0
      /\ dir' = [dir EXCEPT ![File(f)] = dir[Tmp(f)], ![Tmp(f)] = 0]
      /\ call' = [call EXCEPT ![c].pc = IF last THEN "ok" ELSE "open",
                              ![c].next = @ + 1, ![c].fd = 0]
      /\ UNCHANGED <<data, met, spent>>

-----------------------------------------------------------------------------
(* Failures. *)

Answer(c, pc) == [call EXCEPT ![c].pc = pc, ![c].fd = 0]

\* Another call has renamed the temporary file away.
TmpIsGone(c) ==
  /\ call[c].pc = "rename"
  /\ dir[Tmp(Target(c).file)] = 0
  /\ call' = Answer(c, "failed")
  /\ UNCHANGED <<dir, data, met, spent>>

\* An error of open, of a write that may have written some bytes, of rename.
IOError(c) ==
  /\ call[c].pc \in {"open", "write", "rename"}
  /\ spent.errors < MaxErrors
  /\ \/ UNCHANGED data
     \/ /\ call[c].pc = "write"
        /\ data' = [data EXCEPT ![call[c].fd] = [Target(c).content EXCEPT !.whole = FALSE]]
  /\ call' = Answer(c, "failed")
  /\ spent' = [spent EXCEPT !.errors = @ + 1]
  /\ UNCHANGED <<dir, met>>

Crash(c) ==
  /\ Running(c)
  /\ spent.crashes < MaxCrashes
  /\ \/ UNCHANGED data
     \/ /\ call[c].pc = "write"
        /\ data' = [data EXCEPT ![call[c].fd] = [Target(c).content EXCEPT !.whole = FALSE]]
  /\ call' = Answer(c, "dead")
  /\ spent' = [spent EXCEPT !.crashes = @ + 1]
  /\ UNCHANGED <<dir, met>>

Next ==
  \E c \in Calls :
    \/ Begin(c) \/ Plan(c) \/ Refuse(c)
    \/ OpenTmp(c) \/ WriteTmp(c) \/ Rename(c)
    \/ TmpIsGone(c) \/ IOError(c) \/ Crash(c)

Spec == Init /\ [][Next]_vars

-----------------------------------------------------------------------------
(* Properties. *)

Holds(f) == data[dir[File(f)]]

EditsMade(c) ==
  {n \in ToSet(Diffs[c]) : Resolve[n] # NotThere /\ <<c, n>> \in Holds(Resolve[n]).edits}

(***************************************************************************)
(* "each is written through a temporary file and a rename" (diff.rs:303):  *)
(* a file that calls have worked on one at a time is at every moment a     *)
(* whole version of itself, old or new, whatever fails, dies or was left   *)
(* behind.  (Calls at the same time share the temporary file.)             *)
(***************************************************************************)
FilesAreWhole == \A f \in Files \ met : Holds(f).whole

(***************************************************************************)
(* No file is ever without a name: calls beside each other that rename one *)
(* another's temporary files away leave every file some version.           *)
(***************************************************************************)
FilesExist == \A f \in Files : dir[File(f)] # 0

(***************************************************************************)
(* "every file is validated before any is written" (diff.rs:302-303): of a *)
(* call that was refused, no edit is in any file.                          *)
(***************************************************************************)
RefusedChangesNothing ==
  \A c \in Calls : call[c].pc = "refused" => EditsMade(c) = {}

(***************************************************************************)
(* A call that answered Ok made every edit of its diff, and they stay      *)
(* whatever later calls do; in files, again, that calls have worked on one *)
(* at a time.                                                              *)
(***************************************************************************)
OkEditsStay ==
  \A c \in Calls : call[c].pc = "ok" =>
    \A n \in ToSet(Diffs[c]) : Resolve[n] \in met \/ n \in EditsMade(c)

(***************************************************************************)
(* A file is edited in the order of the diff: the edits of a call that     *)
(* stopped on its way are those of the names before one of them.           *)
(***************************************************************************)
EditsInOrder ==
  \A c \in Calls : \A i, j \in DOMAIN Diffs[c] :
    /\ i < j
    /\ Diffs[c][j] \in EditsMade(c)
    /\ FilesOf(c) \cap met = {}
    => Diffs[c][i] \in EditsMade(c)

(***************************************************************************)
(* What README.md:26 ("atomic multi-file apply") and diff.rs:302 say of a  *)
(* call: when it is over, all of its edits are made or none.               *)
(***************************************************************************)
AllOrNothing ==
  \A c \in Calls :
    call[c].pc # "idle" /\ ~Running(c) => EditsMade(c) \in {{}, ToSet(Diffs[c])}

=============================================================================
