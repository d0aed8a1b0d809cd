--------------------------- MODULE DiffFilesProofs ---------------------------
(***************************************************************************)
(* apply_files on a shared directory, for every number of files, calls and *)
(* names, every diff, and any number of crashes and errors.                *)
(***************************************************************************)
EXTENDS DiffFiles, FiniteSetTheorems, SequenceTheorems, TLAPS

-----------------------------------------------------------------------------
(* The invariant, part by part. *)

\* Every file is there, and no inode has two names.
Directory ==
  /\ \A f \in Files : dir[File(f)] # 0
  /\ \A e, d \in Entries : dir[e] = dir[d] /\ dir[e] # 0 => e = d

Planned(c) == call[c].planned

\* Where a call is in its two loops: only one that has planned its whole diff
\* writes.
AllPlanned(c) == Len(Planned(c)) = Len(Diffs[c])

LoopsOf(c) ==
  /\ \A i \in 1 .. Len(Planned(c)) :
       i <= Len(Diffs[c]) /\ Planned(c)[i].file = Resolve[Diffs[c][i]]
  /\ call[c].pc = "idle" => Planned(c) = << >> /\ call[c].next = 1
  /\ call[c].pc = "plan" =>
       call[c].next = Len(Planned(c)) + 1 /\ call[c].next <= Len(Diffs[c])
  /\ call[c].pc = "refused" => ~AllPlanned(c)
  /\ call[c].pc \in {"open", "write", "rename"} =>
       AllPlanned(c) /\ call[c].next \in 1 .. Len(Planned(c))
  /\ call[c].pc = "ok" => AllPlanned(c) /\ call[c].next = Len(Planned(c)) + 1
  /\ AllPlanned(c) => call[c].next \in 1 .. Len(Planned(c)) + 1

Loops == \A c \in Calls : LoopsOf(c)

\* Between open and rename a call has the temporary file of its target; it
\* has lost it, to that target or to no name, only where calls have met.
Opened ==
  \A c \in Calls : call[c].pc \in {"write", "rename"} =>
    /\ call[c].fd \in 1 .. Len(data)
    /\ \A e \in Entries : dir[e] = call[c].fd => e[1] = Target(c).file
    /\ Target(c).file \notin met =>
         /\ dir[Tmp(Target(c).file)] = call[c].fd
         /\ data[call[c].fd] = IF call[c].pc = "write" THEN Empty ELSE Target(c).content

\* Two running calls share only files in which calls have met.
Apart ==
  \A c, d \in Calls :
    c # d /\ Running(c) /\ Running(d) => FilesOf(c) \cap FilesOf(d) \subseteq met

\* What is about to be written is whole.
PlansAreWhole ==
  \A c \in Calls : \A i \in 1 .. Len(Planned(c)) :
    Planned(c)[i].file \notin met => Planned(c)[i].content.whole

\* Nobody has the edits of a call that has not planned its whole diff.
Unwritten ==
  \A c \in Calls : \A n \in Names : ~AllPlanned(c) =>
    /\ \A i \in 1 .. Len(data) : <<c, n>> \notin data[i].edits
    /\ \A d \in Calls \ {c} : \A i \in 1 .. Len(Planned(d)) :
         <<c, n>> \notin Planned(d)[i].content.edits

SafeInv ==
  /\ TypeOK
  /\ Directory
  /\ Loops
  /\ Opened
  /\ Apart
  /\ FilesAreWhole
  /\ PlansAreWhole
  /\ Unwritten

-----------------------------------------------------------------------------
(* Whose edits a file holds.  Two names of one file break it: the second   *)
(* is planned before the first is written (diff.rs:317).                   *)

NoAlias ==
  \A c \in Calls : \A i, j \in DOMAIN Diffs[c] :
    Resolve[Diffs[c][i]] = Resolve[Diffs[c][j]] /\ Resolve[Diffs[c][i]] # NotThere => i = j

\* How many of the planned files a call has renamed.
Renamed(c) == IF AllPlanned(c) THEN call[c].next - 1 ELSE 0

\* What a running call is about to write to a file is what the file holds and
\* its own edit.
PlansAreFresh ==
  \A c \in Calls : \A i \in 1 .. Len(Planned(c)) :
    Running(c) /\ i > Renamed(c) /\ Planned(c)[i].file \notin met =>
      Planned(c)[i].content.edits = Holds(Planned(c)[i].file).edits \cup {<<c, Diffs[c][i]>>}

\* The edits of a call are in the files it has renamed, and in no other.
EditsAreRenamed ==
  \A c \in Calls : \A i \in DOMAIN Diffs[c] :
    Resolve[Diffs[c][i]] \in Files \ met =>
      (<<c, Diffs[c][i]>> \in Holds(Resolve[Diffs[c][i]]).edits <=> i <= Renamed(c))

EditsInv == NoAlias /\ SafeInv /\ PlansAreFresh /\ EditsAreRenamed

-----------------------------------------------------------------------------
(* The start. *)

\* SetToSeq lists every file, so InodeOf gives each an inode of its own.
LEMMA InodesApart ==
  /\ Cardinality(Files) \in Nat
  /\ \A f \in Files : InodeOf(f) \in 1 .. Cardinality(Files)
  /\ \A f, g \in Files : InodeOf(f) = InodeOf(g) => f = g
<1> DEFINE n == Cardinality(Files)
           Lists == {l \in [1 .. n -> Files] : IsInjective(l)}
<1>1. n \in Nat /\ ExistsBijection(1 .. n, Files)
  BY DiffFilesAssumption, FS_CardinalityType
<1>2. \E l \in [1 .. n -> Files] : IsInjective(l)
  BY <1>1 DEF ExistsBijection, Bijection, Injection
<1>3. SetToSeq(Files) \in [1 .. n -> Files] /\ IsInjective(SetToSeq(Files))
  BY <1>2 DEF SetToSeq
<1>4. SetToSeq(Files) \in Surjection(1 .. n, Files)
  <2>1. SetToSeq(Files) \in Injection(1 .. n, Files)
    BY <1>3 DEF Injection
  <2>2. Cardinality(1 .. n) = n
    <3>1. 1 \in Int /\ n \in Int
      BY <1>1
    <3> QED BY <1>1, <3>1, FS_Interval
  <2> QED BY <2>1, <2>2, DiffFilesAssumption, FS_Injection
<1>5. \A f \in Files : \E i \in 1 .. n : SetToSeq(Files)[i] = f
  BY <1>4 DEF Surjection
<1>6. \A f \in Files : InodeOf(f) \in 1 .. n /\ SetToSeq(Files)[InodeOf(f)] = f
  BY <1>5 DEF InodeOf
<1> QED BY <1>1, <1>6

LEMMA InitSafe ==
  ASSUME Init
  PROVE  SafeInv
<1> USE DiffFilesAssumption, InodesApart DEF Init, Entries, File, Tmp
<1> DEFINE n == Cardinality(Files)
<1>1. /\ n \in Nat /\ Len(data) = n /\ data \in Seq(Content)
      /\ \A i \in 1 .. n : data[i] = Original
  <2>1. Original \in Content
    BY DEF Content, Original
  <2>2. data \in [1 .. n -> Content] /\ \A i \in 1 .. n : data[i] = Original
    BY <2>1
  <2>3. n \in Nat
    OBVIOUS
  <2> HIDE DEF n, Init
  <2> QED BY <2>2, <2>3
<1>2. /\ \A f \in Files : dir[File(f)] = InodeOf(f) /\ dir[Tmp(f)] = 0
      /\ \A e \in Entries : dir[e] = IF e[2] = "file" THEN InodeOf(e[1]) ELSE 0
  OBVIOUS
<1>3. \A c \in Calls : call[c] = NotCalled /\ ~Running(c)
  BY DEF NotCalled, Running
<1>4. TypeOK
  <2>1. NotCalled \in Call
    BY DEF NotCalled, Call
  <2>2. dir \in [Entries -> 0 .. Len(data)]
    BY <1>1
  <2>3. spent \in [crashes : 0 .. MaxCrashes, errors : 0 .. MaxErrors]
    OBVIOUS
  <2> QED BY <1>1, <2>1, <2>2, <2>3 DEF TypeOK
<1>5. Directory
  <2> SUFFICES ASSUME NEW e \in Entries, NEW d \in Entries, dir[e] = dir[d], dir[e] # 0
               PROVE  e = d
    BY <1>2 DEF Directory
  <2>1. e[2] = "file" /\ d[2] = "file"
    BY <1>2
  <2>2. /\ e[1] \in Files /\ d[1] \in Files
        /\ InodeOf(e[1]) = InodeOf(d[1])
        /\ e = <<e[1], "file">> /\ d = <<d[1], "file">>
    BY <1>2, <2>1
  <2> QED BY <2>2, InodesApart
<1>6. Loops
  BY <1>3 DEF Loops, LoopsOf, Planned, AllPlanned, NotCalled
<1>7. Opened
  BY <1>3 DEF Opened, NotCalled
<1>8. FilesAreWhole /\ PlansAreWhole
  BY <1>1, <1>2, <1>3 DEF FilesAreWhole, PlansAreWhole, Holds, Planned, Original, NotCalled
<1>9. Apart /\ Unwritten
  BY <1>1, <1>3 DEF Apart, Unwritten, Planned, Original, NotCalled
<1> QED BY <1>4, <1>5, <1>6, <1>7, <1>8, <1>9 DEF SafeInv

-----------------------------------------------------------------------------
(* What the parts of a typed state are. *)

LEMMA EveryElement ==
  ASSUME NEW S, NEW s \in Seq(S)
  PROVE  \A i \in 1 .. Len(s) : s[i] \in S
OBVIOUS

LEMMA DiffTypes ==
  ASSUME NEW c \in Calls
  PROVE  /\ Diffs[c] \in Seq(Names) /\ Len(Diffs[c]) \in Nat
         /\ DOMAIN Diffs[c] = 1 .. Len(Diffs[c])
         /\ \A i \in 1 .. Len(Diffs[c]) :
              /\ Diffs[c][i] \in Names
              /\ Resolve[Diffs[c][i]] \in Files =>
                   Resolve[Diffs[c][i]] \in FilesOf(c)
              /\ Resolve[Diffs[c][i]] # NotThere => Resolve[Diffs[c][i]] \in Files
<1>1. Diffs[c] \in Seq(Names)
  BY DiffFilesAssumption
<1>2. \A i \in 1 .. Len(Diffs[c]) : Diffs[c][i] \in Names /\ Diffs[c][i] \in ToSet(Diffs[c])
  BY <1>1 DEF ToSet
<1>3. \A i \in 1 .. Len(Diffs[c]) : Resolve[Diffs[c][i]] \in Files \cup {NotThere}
  BY <1>2, DiffFilesAssumption
<1> QED BY <1>1, <1>2, <1>3, DiffFilesAssumption DEF FilesOf

LEMMA CallTypes ==
  ASSUME TypeOK, NEW c \in Calls
  PROVE  /\ call[c] \in Call
         /\ call[c].pc \in {"idle", "plan", "open", "write", "rename",
                            "ok", "refused", "failed", "dead"}
         /\ call[c].next \in Nat /\ call[c].fd \in Nat
         /\ Planned(c) \in Seq([file : Files, content : Content])
         /\ Len(Planned(c)) \in Nat
         /\ \A i \in 1 .. Len(Planned(c)) :
              /\ Planned(c)[i] \in [file : Files, content : Content]
              /\ Planned(c)[i].file \in Files
              /\ Planned(c)[i].content \in Content
<1>1. call[c] \in Call
  BY DEF TypeOK
<1>2. Planned(c) \in Seq([file : Files, content : Content])
  BY <1>1 DEF Call, Planned
<1>3. \A i \in 1 .. Len(Planned(c)) : Planned(c)[i] \in [file : Files, content : Content]
  BY <1>2, EveryElement
<1>4. Len(Planned(c)) \in Nat
  BY <1>2
<1> QED BY <1>1, <1>2, <1>3, <1>4 DEF Call

LEMMA DirTypes ==
  ASSUME TypeOK, Directory
  PROVE  /\ data \in Seq(Content) /\ Len(data) \in Nat
         /\ \A i \in 1 .. Len(data) : data[i] \in Content
         /\ \A e \in Entries : dir[e] \in 0 .. Len(data)
         /\ \A f \in Files : /\ File(f) \in Entries /\ Tmp(f) \in Entries
                             /\ dir[File(f)] \in 1 .. Len(data)
                             /\ Holds(f) \in Content
         /\ \A e \in Entries : e = File(e[1]) \/ e = Tmp(e[1])
         /\ \A e \in Entries : e[1] \in Files
         /\ \A f, g : File(f) # Tmp(g) /\ File(f)[1] = f /\ Tmp(f)[1] = f
<1>1. data \in Seq(Content) /\ Len(data) \in Nat
  BY DEF TypeOK
<1>2. \A i \in 1 .. Len(data) : data[i] \in Content
  BY <1>1
<1>3. \A e \in Entries : dir[e] \in 0 .. Len(data)
  BY DEF TypeOK
<1>4. \A f \in Files : File(f) \in Entries /\ Tmp(f) \in Entries
  BY DEF Entries, File, Tmp
<1>5. \A f \in Files : dir[File(f)] \in 1 .. Len(data)
  BY <1>1, <1>3, <1>4 DEF Directory
<1>6. \A f \in Files : Holds(f) \in Content
  BY <1>2, <1>5 DEF Holds
<1>7. /\ \A e \in Entries : e = File(e[1]) \/ e = Tmp(e[1])
      /\ \A e \in Entries : e[1] \in Files
      /\ \A f, g : File(f) # Tmp(g) /\ File(f)[1] = f /\ Tmp(f)[1] = f
  BY DEF Entries, File, Tmp
<1> QED BY <1>1, <1>2, <1>3, <1>4, <1>5, <1>6, <1>7

\* The target of a call that writes is one of its files, planned by it.
LEMMA TargetTypes ==
  ASSUME SafeInv, NEW c \in Calls, call[c].pc \in {"open", "write", "rename"}
  PROVE  /\ Running(c) /\ AllPlanned(c)
         /\ call[c].next \in 1 .. Len(Planned(c))
         /\ Target(c) = Planned(c)[call[c].next]
         /\ Target(c).file \in Files /\ Target(c).file \in FilesOf(c)
         /\ Target(c).content \in Content
<1>1. /\ AllPlanned(c) /\ call[c].next \in 1 .. Len(Planned(c))
      /\ \A i \in 1 .. Len(Planned(c)) :
           i <= Len(Diffs[c]) /\ Planned(c)[i].file = Resolve[Diffs[c][i]]
  BY DEF SafeInv, Loops, LoopsOf
<1>2. Target(c) = Planned(c)[call[c].next]
  BY DEF Target, Planned
<1>3. Target(c).file \in Files /\ Target(c).content \in Content
  BY <1>1, <1>2, CallTypes DEF SafeInv
<1>4. Target(c).file = Resolve[Diffs[c][call[c].next]] /\ call[c].next \in 1 .. Len(Diffs[c])
  BY <1>1, <1>2, DiffTypes DEF AllPlanned
<1>5. Target(c).file \in FilesOf(c)
  BY <1>3, <1>4, DiffTypes
<1> QED BY <1>1, <1>2, <1>3, <1>5 DEF Running

\* Nobody else writes a file that the call works on and in which none have met.
LEMMA NobodyElse ==
  ASSUME SafeInv, NEW c \in Calls, NEW d \in Calls, c # d,
         call[c].pc \in {"open", "write", "rename"}, Running(d),
         NEW f \in FilesOf(d), f \notin met
  PROVE  Target(c).file # f
BY TargetTypes DEF SafeInv, Apart

-----------------------------------------------------------------------------
(* The steps that only plan. *)

\* A step of c that leaves the directory and the inodes alone, and that plans
\* nothing but whole contents with edits that are already in the files.
LEMMA PlanningKeepsSafe ==
  ASSUME SafeInv, NEW c \in Calls,
         UNCHANGED <<dir, data>>, met \subseteq met', TypeOK',
         \A d \in Calls \ {c} : call'[d] = call[d],
         call'[c].pc \in {"plan", "open", "ok", "refused"},
         Loops',
         \A d \in Calls \ {c} : Running(d) => FilesOf(c) \cap FilesOf(d) \subseteq met',
         AllPlanned(c) => AllPlanned(c)',
         \A i \in 1 .. Len(call'[c].planned) :
           /\ call'[c].planned[i].file \notin met' => call'[c].planned[i].content.whole
           /\ \A d \in Calls \ {c}, n \in Names : ~AllPlanned(d) =>
                <<d, n>> \notin call'[c].planned[i].content.edits
  PROVE  SafeInv'
<1>1. Directory'
  BY DEF SafeInv, Directory
<1>2. Opened'
  BY DEF SafeInv, Opened, Target
<1>3. Apart'
  BY DEF SafeInv, Apart, Running, FilesOf
<1>4. FilesAreWhole'
  BY DEF SafeInv, FilesAreWhole, Holds
<1>5. PlansAreWhole'
  <2> SUFFICES ASSUME NEW d \in Calls, NEW i \in 1 .. Len(Planned(d)'),
                      Planned(d)'[i].file \notin met'
               PROVE  Planned(d)'[i].content.whole
    BY DEF PlansAreWhole
  <2>1. CASE d = c
    BY <2>1 DEF Planned
  <2>2. CASE d # c
    BY <2>2 DEF SafeInv, PlansAreWhole, Planned
  <2> QED BY <2>1, <2>2
<1>6. Unwritten'
  <2> SUFFICES ASSUME NEW d \in Calls, NEW n \in Names, ~AllPlanned(d)'
               PROVE  /\ \A i \in 1 .. Len(data) : <<d, n>> \notin data[i].edits
                      /\ \A e \in Calls \ {d} : \A i \in 1 .. Len(Planned(e)') :
                           <<d, n>> \notin Planned(e)'[i].content.edits
    BY DEF Unwritten
  <2>1. ~AllPlanned(d)
    BY DEF AllPlanned, Planned
  <2>2. \A i \in 1 .. Len(data) : <<d, n>> \notin data[i].edits
    BY <2>1 DEF SafeInv, Unwritten
  <2>3. ASSUME NEW e \in Calls \ {d}, NEW i \in 1 .. Len(Planned(e)')
        PROVE  <<d, n>> \notin Planned(e)'[i].content.edits
    <3>1. CASE e = c
      BY <2>1, <3>1 DEF Planned
    <3>2. CASE e # c
      BY <2>1, <3>2 DEF SafeInv, Unwritten, Planned
    <3> QED BY <3>1, <3>2
  <2> QED BY <2>2, <2>3
<1> QED BY <1>1, <1>2, <1>3, <1>4, <1>5, <1>6 DEF SafeInv

LEMMA BeginKeepsSafe ==
  ASSUME SafeInv, NEW c \in Calls, Begin(c)
  PROVE  SafeInv'
<1> DEFINE shared == UNION {FilesOf(c) \cap FilesOf(d) : d \in {d \in Calls : Running(d)}}
<1>0. call \in [Calls -> Call] /\ call[c] \in Call
  BY DEF SafeInv, TypeOK
<1>1. /\ UNCHANGED <<dir, data, spent>>
      /\ call[c].pc = "idle"
      /\ call'[c].pc = IF Diffs[c] = << >> THEN "ok" ELSE "plan"
      /\ call'[c].next = call[c].next /\ call'[c].planned = call[c].planned
      /\ call'[c].fd = call[c].fd
      /\ call' \in [Calls -> Call]
      /\ \A d \in Calls \ {c} : call'[d] = call[d]
  BY <1>0 DEF Begin, Call
<1>2. Planned(c) = << >> /\ call[c].next = 1
  BY <1>1 DEF SafeInv, Loops, LoopsOf
<1>3. met' = met \cup shared
  BY DEF Begin
<1>4. \A d \in Calls \ {c} : Running(d) => FilesOf(c) \cap FilesOf(d) \subseteq met'
  BY <1>3
<1>5. shared \subseteq Files
  <2>1. FilesOf(c) \subseteq Files
    BY DiffTypes DEF FilesOf, ToSet
  <2> QED BY <2>1
<1> HIDE DEF shared
<1>6. TypeOK'
  BY <1>1, <1>3, <1>5 DEF SafeInv, TypeOK
<1>7. Loops'
  <2>1. Diffs[c] # << >> => Len(Diffs[c]) >= 1
    BY DiffTypes
  <2>2. Diffs[c] = << >> => Len(Diffs[c]) = 0
    OBVIOUS
  <2> QED BY <1>1, <1>2, <2>1, <2>2, DiffTypes DEF SafeInv, Loops, LoopsOf, Planned, AllPlanned
<1> QED BY <1>1, <1>2, <1>3, <1>4, <1>6, <1>7, PlanningKeepsSafe DEF Planned, AllPlanned

LEMMA EditedTypes ==
  ASSUME SafeInv, NEW c \in Calls, NEW name \in Names, Resolve[name] \in Files
  PROVE  /\ Edited(c, name) \in Content
         /\ Edited(c, name).edits = Holds(Resolve[name]).edits \cup {<<c, name>>}
         /\ Edited(c, name).whole = Holds(Resolve[name]).whole
<1> DEFINE now == Holds(Resolve[name])
<1>1. now \in Content
  BY DirTypes DEF SafeInv
<1>2. Edited(c, name) = [now EXCEPT !.edits = @ \cup {<<c, name>>}, !.empty = FALSE]
  BY DEF Edited, Holds
<1> HIDE DEF now
<1>3. Edited(c, name) = [edits |-> now.edits \cup {<<c, name>>},
                         whole |-> now.whole, empty |-> FALSE]
  BY <1>1, <1>2 DEF Content
<1>4. now.edits \cup {<<c, name>>} \in SUBSET Edits /\ now.whole \in BOOLEAN
  BY <1>1 DEF Content, Edits
<1>5. Edited(c, name) \in Content
  BY <1>3, <1>4 DEF Content
<1> QED BY <1>3, <1>5 DEF now

\* Plan appends the file named k-th, as it is now, with the call's edit.
Plans(c, k, item) ==
  /\ k \in 1 .. Len(Diffs[c]) /\ Len(Diffs[c]) \in Nat
  /\ k = Len(Planned(c)) + 1 /\ Len(Planned(c)) \in Nat /\ ~AllPlanned(c)
  /\ Diffs[c][k] \in Names /\ item.file \in Files /\ item.file = Resolve[Diffs[c][k]]
  /\ item.content.edits = Holds(item.file).edits \cup {<<c, Diffs[c][k]>>}
  /\ item.content.whole = Holds(item.file).whole
  /\ UNCHANGED <<dir, data, met, spent>>
  /\ call' \in [Calls -> Call]
  /\ \A d \in Calls \ {c} : call'[d] = call[d]
  /\ call'[c].pc = IF k = Len(Diffs[c]) THEN "open" ELSE "plan"
  /\ call'[c].next = IF k = Len(Diffs[c]) THEN 1 ELSE k + 1
  /\ Len(Planned(c)') = k
  /\ \A i \in 1 .. k - 1 : Planned(c)'[i] = Planned(c)[i]
  /\ Planned(c)'[k] = item

LEMMA PlanPlans ==
  ASSUME SafeInv, NEW c \in Calls, Plan(c)
  PROVE  \E k, item : Plans(c, k, item)
<1>0. PICK k : k = call[c].next
  OBVIOUS
<1>1. PICK item :
        item = [file |-> Resolve[Diffs[c][k]], content |-> Edited(c, Diffs[c][k])]
  OBVIOUS
<1> DEFINE name   == Diffs[c][k]
           Item   == [file : Files, content : Content]
           longer == Append(Planned(c), item)
<1>2. call \in [Calls -> Call] /\ call[c] \in Call
  BY DEF SafeInv, TypeOK
<1>3. /\ k = Len(Planned(c)) + 1 /\ k <= Len(Diffs[c])
      /\ Len(Planned(c)) \in Nat /\ Len(Diffs[c]) \in Nat
  BY <1>0, CallTypes, DiffTypes DEF Plan, SafeInv, Loops, LoopsOf
<1>4. k \in 1 .. Len(Diffs[c]) /\ ~AllPlanned(c)
  BY <1>3 DEF AllPlanned
<1>5. name \in Names /\ Resolve[name] \in Files
  BY <1>0, <1>4, DiffTypes DEF Plan
<1>6. /\ item \in Item /\ item.file = Resolve[name]
      /\ item.content.edits = Holds(Resolve[name]).edits \cup {<<c, name>>}
      /\ item.content.whole = Holds(Resolve[name]).whole
  BY <1>1, <1>5, EditedTypes
<1>7. Planned(c) \in Seq(Item)
  BY CallTypes DEF SafeInv
<1>8. /\ longer \in Seq(Item) /\ Len(longer) = k
      /\ \A i \in 1 .. k - 1 : longer[i] = Planned(c)[i]
      /\ longer[k] = item
  <2> HIDE DEF Item
  <2> QED BY <1>3, <1>6, <1>7, AppendProperties
<1>9. /\ UNCHANGED <<dir, data, met, spent>>
      /\ call'[c].pc = IF k = Len(Diffs[c]) THEN "open" ELSE "plan"
      /\ call'[c].next = IF k = Len(Diffs[c]) THEN 1 ELSE k + 1
      /\ call'[c].planned = longer
      /\ \A d \in Calls \ {c} : call'[d] = call[d]
      /\ call' \in [Calls -> Call]
  <2> DEFINE pc    == IF k = Len(Diffs[c]) THEN "open" ELSE "plan"
             next  == IF k = Len(Diffs[c]) THEN 1 ELSE k + 1
  <2>1. call' = [call EXCEPT ![c].planned = longer, ![c].next = next, ![c].pc = pc]
    BY <1>0, <1>1 DEF Plan, Planned
  <2>2. pc \in {"open", "plan"} /\ next \in Nat
    BY <1>3
  <2>3. longer \in Seq([file : Files, content : Content])
    BY <1>8 DEF Item
  <2> HIDE DEF longer, pc, next
  <2>4. /\ call'[c].pc = pc /\ call'[c].next = next
        /\ call'[c].planned = longer
        /\ \A d \in Calls \ {c} : call'[d] = call[d]
    BY <1>2, <2>1 DEF Call
  <2>5. call' \in [Calls -> Call]
    BY <1>2, <2>1, <2>2, <2>3 DEF Call
  <2>6. UNCHANGED <<dir, data, met, spent>>
    BY DEF Plan
  <2> QED BY <2>4, <2>5, <2>6 DEF pc, next
<1> HIDE DEF longer
<1>10. Planned(c)' = longer
  BY <1>9 DEF Planned
<1>11. Plans(c, k, item)
  BY <1>3, <1>4, <1>5, <1>6, <1>8, <1>9, <1>10 DEF Plans
<1> QED BY <1>11

LEMMA PlanKeepsSafe ==
  ASSUME SafeInv, NEW c \in Calls, Plan(c)
  PROVE  SafeInv'
<1>1. PICK k, item : Plans(c, k, item)
  BY PlanPlans
<1> USE DEF Plans
<1>2. TypeOK'
  BY <1>1 DEF SafeInv, TypeOK
<1>3. Loops'
  <2> SUFFICES ASSUME NEW d \in Calls
               PROVE  LoopsOf(d)'
    BY DEF Loops
  <2>1. CASE d # c
    <3>1. LoopsOf(d)
      BY DEF SafeInv, Loops
    <3>2. call'[d] = call[d]
      BY <1>1, <2>1
    <3> QED BY <3>1, <3>2 DEF LoopsOf, Planned, AllPlanned
  <2>2. CASE d = c
    <3>1. \A i \in 1 .. k : i <= Len(Diffs[c]) /\ Planned(c)'[i].file = Resolve[Diffs[c][i]]
      <4>1. \A i \in 1 .. k - 1 : Planned(c)[i].file = Resolve[Diffs[c][i]]
        BY <1>1 DEF SafeInv, Loops, LoopsOf
      <4> QED BY <1>1, <4>1
    <3>2. CASE k = Len(Diffs[c])
      BY <1>1, <2>2, <3>1, <3>2 DEF LoopsOf, AllPlanned
    <3>3. CASE k # Len(Diffs[c])
      BY <1>1, <2>2, <3>1, <3>3 DEF LoopsOf, AllPlanned
    <3> QED BY <3>2, <3>3
  <2> QED BY <2>1, <2>2
<1>4. \A i \in 1 .. Len(Planned(c)') :
        /\ Planned(c)'[i].file \notin met' => Planned(c)'[i].content.whole
        /\ \A d \in Calls \ {c}, n \in Names : ~AllPlanned(d) =>
             <<d, n>> \notin Planned(c)'[i].content.edits
  <2>1. Holds(item.file) = data[dir[File(item.file)]] /\ dir[File(item.file)] \in 1 .. Len(data)
    BY <1>1, DirTypes DEF SafeInv, Holds
  <2>2. ASSUME NEW d \in Calls \ {c}, NEW n \in Names, ~AllPlanned(d)
        PROVE  <<d, n>> \notin item.content.edits
    <3>1. <<d, n>> \notin Holds(item.file).edits
      BY <2>1, <2>2 DEF SafeInv, Unwritten
    <3> QED BY <1>1, <3>1
  <2>3. item.file \notin met => item.content.whole
    BY <1>1 DEF SafeInv, FilesAreWhole
  <2>4. \A i \in 1 .. k - 1 :
          /\ Planned(c)[i].file \notin met => Planned(c)[i].content.whole
          /\ \A d \in Calls \ {c}, n \in Names : ~AllPlanned(d) =>
               <<d, n>> \notin Planned(c)[i].content.edits
    BY <1>1 DEF SafeInv, PlansAreWhole, Unwritten
  <2> QED BY <1>1, <2>2, <2>3, <2>4
<1>5. \A d \in Calls \ {c} : Running(d) => FilesOf(c) \cap FilesOf(d) \subseteq met'
  BY <1>1 DEF SafeInv, Apart, Plan, Running
<1>6. call'[c].pc \in {"plan", "open"} /\ Planned(c)' = call'[c].planned
  BY <1>1 DEF Planned
<1> QED BY <1>1, <1>2, <1>3, <1>4, <1>5, <1>6, PlanningKeepsSafe

LEMMA RefuseKeepsSafe ==
  ASSUME SafeInv, NEW c \in Calls, Refuse(c)
  PROVE  SafeInv'
<1>0. call \in [Calls -> Call] /\ call[c] \in Call
  BY DEF SafeInv, TypeOK
<1>1. /\ UNCHANGED <<dir, data, met, spent>>
      /\ call[c].pc = "plan" /\ call'[c].pc = "refused"
      /\ call'[c].next = call[c].next /\ call'[c].planned = call[c].planned
      /\ call' \in [Calls -> Call]
      /\ \A d \in Calls \ {c} : call'[d] = call[d]
  BY <1>0 DEF Refuse, Call
<1>2. ~AllPlanned(c)
  BY <1>1, CallTypes DEF SafeInv, Loops, LoopsOf, AllPlanned
<1>3. TypeOK'
  BY <1>1 DEF SafeInv, TypeOK
<1>4. Loops'
  BY <1>1, <1>2 DEF SafeInv, Loops, LoopsOf, Planned, AllPlanned
<1>5. \A d \in Calls \ {c} : Running(d) => FilesOf(c) \cap FilesOf(d) \subseteq met'
  BY <1>1 DEF SafeInv, Apart, Running
<1>6. \A i \in 1 .. Len(call'[c].planned) :
        /\ call'[c].planned[i].file \notin met' => call'[c].planned[i].content.whole
        /\ \A d \in Calls \ {c}, n \in Names : ~AllPlanned(d) =>
             <<d, n>> \notin call'[c].planned[i].content.edits
  BY <1>1 DEF SafeInv, PlansAreWhole, Unwritten, Planned
<1> QED BY <1>1, <1>2, <1>3, <1>4, <1>5, <1>6, PlanningKeepsSafe

-----------------------------------------------------------------------------
(* The steps that write, and those that fail. *)

\* A step of c alone that plans nothing.
Alone(c) ==
  /\ Running(c)
  /\ met' = met
  /\ call' \in [Calls -> Call]
  /\ call'[c].planned = call[c].planned
  /\ \A d \in Calls \ {c} : call'[d] = call[d]

\* No content has an edit of a call that has not planned its whole diff.
Clean(content) ==
  \A d \in Calls, n \in Names : ~AllPlanned(d) => <<d, n>> \notin content.edits

LEMMA AloneKeeps ==
  ASSUME SafeInv, NEW c \in Calls, Alone(c)
  PROVE  /\ \A d \in Calls : Planned(d)' = Planned(d) /\ AllPlanned(d)' = AllPlanned(d)
         /\ Apart' /\ PlansAreWhole'
         /\ (\A i \in 1 .. Len(data') : Clean(data'[i])) => Unwritten'
<1>1. \A d \in Calls : Planned(d)' = Planned(d)
  BY DEF Alone, Planned
<1>2. \A d \in Calls : AllPlanned(d)' = AllPlanned(d)
  BY <1>1 DEF AllPlanned
<1>3. \A d \in Calls : Running(d)' => Running(d)
  BY DEF Alone, Running
<1>4. Apart'
  BY <1>3 DEF Alone, SafeInv, Apart, FilesOf
<1>5. PlansAreWhole'
  BY <1>1 DEF Alone, SafeInv, PlansAreWhole
<1>6. ASSUME \A i \in 1 .. Len(data') : Clean(data'[i])
      PROVE  Unwritten'
  BY <1>1, <1>2, <1>6 DEF Clean, SafeInv, Unwritten
<1> QED BY <1>1, <1>2, <1>4, <1>5, <1>6

\* The target's content is clean.
LEMMA TargetClean ==
  ASSUME SafeInv, NEW c \in Calls, call[c].pc \in {"open", "write", "rename"}
  PROVE  Clean(Target(c).content)
<1>1. /\ AllPlanned(c) /\ call[c].next \in 1 .. Len(Planned(c))
      /\ Target(c) = Planned(c)[call[c].next]
  BY TargetTypes
<1> SUFFICES ASSUME NEW d \in Calls, NEW n \in Names, ~AllPlanned(d)
             PROVE  <<d, n>> \notin Target(c).content.edits
  BY DEF Clean
<1>2. d # c
  BY <1>1
<1> QED BY <1>1, <1>2 DEF SafeInv, Unwritten

LEMMA InodesClean ==
  ASSUME SafeInv
  PROVE  \A i \in 1 .. Len(data) : Clean(data[i])
BY DEF SafeInv, Unwritten, Clean

\* What a call may write through its open file.
Writes(c) ==
  /\ dir' = dir
  /\ \/ data' = data
     \/ /\ call[c].pc = "write"
        /\ \E x \in Content : Clean(x) /\ data' = [data EXCEPT ![call[c].fd] = x]

LEMMA WritesTarget ==
  ASSUME SafeInv, NEW c \in Calls, Writes(c)
  PROVE  /\ data' \in Seq(Content) /\ Len(data') = Len(data)
         /\ \A i \in 1 .. Len(data') : Clean(data'[i])
         /\ \A f \in Files \ met : Holds(f)' = Holds(f)
         /\ \A d \in Calls \ {c} :
              call[d].pc \in {"write", "rename"} /\ Target(d).file \notin met =>
                data'[call[d].fd] = data[call[d].fd]
<1>0. data \in Seq(Content) /\ Len(data) \in Nat
  BY DirTypes DEF SafeInv
<1>1. CASE data' = data
  BY <1>0, <1>1, InodesClean DEF Writes, Holds
<1>2. CASE data' # data
  <2>1. call[c].pc = "write"
    BY <1>2 DEF Writes
  <2>2. PICK x \in Content : Clean(x) /\ data' = [data EXCEPT ![call[c].fd] = x]
    BY <1>2 DEF Writes
  <2>3. /\ call[c].fd \in 1 .. Len(data)
        /\ \A e \in Entries : dir[e] = call[c].fd => e[1] = Target(c).file
        /\ Target(c).file \notin met => dir[Tmp(Target(c).file)] = call[c].fd
    BY <2>1 DEF SafeInv, Opened
  <2>4. /\ data' \in Seq(Content) /\ Len(data') = Len(data)
        /\ data'[call[c].fd] = x
        /\ \A i \in 1 .. Len(data) : i # call[c].fd => data'[i] = data[i]
    BY <1>0, <2>2, <2>3
  <2>5. \A i \in 1 .. Len(data') : Clean(data'[i])
    BY <2>2, <2>4, InodesClean
  <2>6. ASSUME NEW f \in Files \ met
        PROVE  Holds(f)' = Holds(f)
    <3>1. /\ File(f) \in Entries /\ Tmp(f) \in Entries /\ File(f) # Tmp(f)
          /\ dir[File(f)] \in 1 .. Len(data) /\ File(f)[1] = f
      BY DirTypes DEF SafeInv
    <3>2. dir[File(f)] # call[c].fd
      BY <2>3, <3>1 DEF SafeInv, Directory
    <3> QED BY <2>4, <3>1, <3>2 DEF Writes, Holds
  <2>7. ASSUME NEW d \in Calls \ {c}, call[d].pc \in {"write", "rename"},
               Target(d).file \notin met
        PROVE  data'[call[d].fd] = data[call[d].fd]
    <3>1. /\ Running(c) /\ Target(d).file \in Files
          /\ Target(c).file \in FilesOf(c)
      BY <2>1, <2>7, TargetTypes
    <3>2. Target(d).file # Target(c).file
      BY <2>7, <3>1, NobodyElse
    <3>3. /\ call[d].fd \in 1 .. Len(data)
          /\ dir[Tmp(Target(d).file)] = call[d].fd
      BY <2>7 DEF SafeInv, Opened
    <3>4. Tmp(Target(d).file) \in Entries /\ Tmp(Target(d).file)[1] = Target(d).file
      BY <3>1, DirTypes DEF SafeInv
    <3>5. call[d].fd # call[c].fd
      BY <2>3, <3>2, <3>3, <3>4
    <3> QED BY <2>4, <3>3, <3>5
  <2> QED BY <2>4, <2>5, <2>6, <2>7
<1> QED BY <1>1, <1>2

\* A step of c that writes at most through its open file keeps the rest; of
\* itself it must leave its loops right, and what it has opened.
LEMMA WritesKeepSafe ==
  ASSUME SafeInv, NEW c \in Calls, Writes(c), Alone(c),
         spent' \in [crashes : 0 .. MaxCrashes, errors : 0 .. MaxErrors],
         LoopsOf(c)',
         call'[c].pc \in {"failed", "dead"} \/
           /\ call[c].pc = "write" /\ call'[c].pc = "rename"
           /\ call'[c].next = call[c].next /\ call'[c].fd = call[c].fd
           /\ Target(c).file \notin met => data'[call[c].fd] = Target(c).content
  PROVE  SafeInv'
<1>1. /\ data' \in Seq(Content) /\ Len(data') = Len(data)
      /\ \A i \in 1 .. Len(data') : Clean(data'[i])
      /\ \A f \in Files \ met : Holds(f)' = Holds(f)
      /\ \A d \in Calls \ {c} :
           call[d].pc \in {"write", "rename"} /\ Target(d).file \notin met =>
             data'[call[d].fd] = data[call[d].fd]
  BY WritesTarget
<1>2. dir' = dir /\ met' = met
  BY DEF Writes, Alone
<1>3. TypeOK'
  BY <1>1, <1>2 DEF SafeInv, TypeOK, Alone
<1>4. Directory'
  BY <1>2 DEF SafeInv, Directory
<1>5. Loops'
  <2> SUFFICES ASSUME NEW d \in Calls \ {c}
               PROVE  LoopsOf(d)'
    BY DEF Loops
  <2>1. LoopsOf(d) /\ call'[d] = call[d]
    BY DEF SafeInv, Loops, Alone
  <2> QED BY <2>1 DEF LoopsOf, Planned, AllPlanned
<1>6. Opened'
  <2> SUFFICES ASSUME NEW d \in Calls, call'[d].pc \in {"write", "rename"}
               PROVE  /\ call'[d].fd \in 1 .. Len(data')
                      /\ \A e \in Entries : dir'[e] = call'[d].fd => e[1] = Target(d)'.file
                      /\ Target(d)'.file \notin met' =>
                           /\ dir'[Tmp(Target(d)'.file)] = call'[d].fd
                           /\ data'[call'[d].fd] =
                                IF call'[d].pc = "write" THEN Empty ELSE Target(d)'.content
    BY DEF Opened
  <2>1. CASE d = c
    <3>1. Target(c)' = Target(c)
      BY <2>1 DEF Target, Alone
    <3>2. call[c].pc = "write" /\ call'[c].pc = "rename" /\ call'[c].fd = call[c].fd
      BY <2>1
    <3> QED BY <1>1, <1>2, <2>1, <3>1, <3>2 DEF SafeInv, Opened
  <2>2. CASE d # c
    <3>1. call'[d] = call[d] /\ Target(d)' = Target(d)
      BY <2>2 DEF Target, Alone
    <3> QED BY <1>1, <1>2, <2>2, <3>1 DEF SafeInv, Opened
  <2> QED BY <2>1, <2>2
<1>7. FilesAreWhole'
  BY <1>1, <1>2 DEF SafeInv, FilesAreWhole
<1>8. Apart' /\ PlansAreWhole' /\ Unwritten'
  BY <1>1, AloneKeeps
<1> QED BY <1>3, <1>4, <1>5, <1>6, <1>7, <1>8 DEF SafeInv

\* Contents that differ from a clean one in whole only.
LEMMA PartTypes ==
  ASSUME NEW x \in Content, Clean(x)
  PROVE  /\ [x EXCEPT !.whole = FALSE] \in Content
         /\ Clean([x EXCEPT !.whole = FALSE])
BY DEF Content, Clean

LEMMA WriteTmpWrites ==
  ASSUME SafeInv, NEW c \in Calls, WriteTmp(c)
  PROVE  Writes(c)
<1> DEFINE fd == call[c].fd
<1>1. call[c].pc = "write" /\ dir' = dir
  BY DEF WriteTmp
<1>2. fd \in 1 .. Len(data)
  BY <1>1 DEF SafeInv, Opened
<1>3. /\ Target(c).content \in Content /\ Clean(Target(c).content)
      /\ data[fd] \in Content /\ Clean(data[fd])
  BY <1>1, <1>2, TargetTypes, TargetClean, DirTypes, InodesClean DEF SafeInv
<1>4. \/ data' = [data EXCEPT ![fd] = Target(c).content]
      \/ data' = [data EXCEPT ![fd] = [data[fd] EXCEPT !.whole = FALSE]]
  BY DEF WriteTmp
<1> QED BY <1>1, <1>3, <1>4, PartTypes DEF Writes

LEMMA WriteTmpKeepsSafe ==
  ASSUME SafeInv, NEW c \in Calls, WriteTmp(c)
  PROVE  SafeInv'
<1> DEFINE fd == call[c].fd
<1>0. call \in [Calls -> Call] /\ call[c] \in Call
  BY DEF SafeInv, TypeOK
<1>1. /\ call[c].pc = "write" /\ UNCHANGED <<dir, met, spent>>
      /\ call'[c].pc = "rename"
      /\ call'[c].next = call[c].next /\ call'[c].planned = call[c].planned
      /\ call'[c].fd = fd
      /\ call' \in [Calls -> Call]
      /\ \A d \in Calls \ {c} : call'[d] = call[d]
  BY <1>0 DEF WriteTmp, Call
<1>2. /\ fd \in 1 .. Len(data)
      /\ Target(c).file \notin met => data[fd] = Empty
  BY <1>1 DEF SafeInv, Opened
<1>3. \/ data' = [data EXCEPT ![fd] = Target(c).content]
      \/ ~data[fd].empty /\ data' = [data EXCEPT ![fd] = [data[fd] EXCEPT !.whole = FALSE]]
  BY DEF WriteTmp
<1>4. Writes(c)
  BY WriteTmpWrites
<1>5. Alone(c)
  BY <1>1 DEF Alone, Running
<1>6. LoopsOf(c)'
  BY <1>1 DEF SafeInv, Loops, LoopsOf, Planned, AllPlanned
<1>7. Target(c).file \notin met => data'[fd] = Target(c).content
  <2> SUFFICES ASSUME Target(c).file \notin met
               PROVE  data'[fd] = Target(c).content
    OBVIOUS
  <2>1. data[fd].empty
    BY <1>2 DEF Empty
  <2>2. data \in Seq(Content)
    BY DirTypes DEF SafeInv
  <2> QED BY <1>2, <1>3, <2>1, <2>2
<1>8. spent' \in [crashes : 0 .. MaxCrashes, errors : 0 .. MaxErrors]
  BY <1>1 DEF SafeInv, TypeOK
<1> QED BY <1>1, <1>4, <1>5, <1>6, <1>7, <1>8, WritesKeepSafe

\* A call that ends where it is: some of its bytes may be written, none of its
\* files is renamed.
Ends(c) ==
  /\ Running(c)
  /\ UNCHANGED <<dir, met>>
  /\ \/ UNCHANGED data
     \/ /\ call[c].pc = "write"
        /\ data' = [data EXCEPT ![call[c].fd] = [Target(c).content EXCEPT !.whole = FALSE]]
  /\ \E pc \in {"failed", "dead"} : call' = Answer(c, pc)
  /\ spent' \in [crashes : 0 .. MaxCrashes, errors : 0 .. MaxErrors]

LEMMA FailuresEnd ==
  ASSUME SafeInv, NEW c \in Calls, TmpIsGone(c) \/ IOError(c) \/ Crash(c)
  PROVE  Ends(c)
<1>0. spent \in [crashes : 0 .. MaxCrashes, errors : 0 .. MaxErrors]
      /\ MaxCrashes \in Nat /\ MaxErrors \in Nat
  BY DiffFilesAssumption DEF SafeInv, TypeOK
<1>1. CASE TmpIsGone(c)
  BY <1>0, <1>1 DEF TmpIsGone, Ends, Running
<1>2. CASE IOError(c)
  <2>1. spent' = [spent EXCEPT !.errors = @ + 1] /\ spent.errors < MaxErrors
    BY <1>2 DEF IOError
  <2>2. spent' \in [crashes : 0 .. MaxCrashes, errors : 0 .. MaxErrors]
    BY <1>0, <2>1
  <2> QED BY <1>2, <2>2 DEF IOError, Ends, Running
<1>3. CASE Crash(c)
  <2>1. spent' = [spent EXCEPT !.crashes = @ + 1] /\ spent.crashes < MaxCrashes
    BY <1>3 DEF Crash
  <2>2. spent' \in [crashes : 0 .. MaxCrashes, errors : 0 .. MaxErrors]
    BY <1>0, <2>1
  <2> QED BY <1>3, <2>2 DEF Crash, Ends
<1> QED BY <1>1, <1>2, <1>3

LEMMA EndsWrites ==
  ASSUME SafeInv, NEW c \in Calls, Ends(c)
  PROVE  Writes(c)
BY PartTypes, TargetTypes, TargetClean DEF Ends, Writes

LEMMA EndsKeepsSafe ==
  ASSUME SafeInv, NEW c \in Calls, Ends(c)
  PROVE  SafeInv'
<1>0. call \in [Calls -> Call] /\ call[c] \in Call
  BY DEF SafeInv, TypeOK
<1>1. PICK pc \in {"failed", "dead"} : call' = [call EXCEPT ![c].pc = pc, ![c].fd = 0]
  BY DEF Ends, Answer
<1>2. /\ call'[c].pc \in {"failed", "dead"}
      /\ call'[c].next = call[c].next /\ call'[c].planned = call[c].planned
      /\ \A d \in Calls \ {c} : call'[d] = call[d]
  BY <1>0, <1>1 DEF Call
<1>3. call' \in [Calls -> Call]
  BY <1>0, <1>1 DEF Call
<1>4. Alone(c)
  BY <1>2, <1>3 DEF Alone, Running, Ends
<1>5. LoopsOf(c)'
  BY <1>2 DEF SafeInv, Loops, LoopsOf, Planned, AllPlanned
<1>6. Writes(c)
  BY EndsWrites
<1> QED BY <1>2, <1>4, <1>5, <1>6, WritesKeepSafe DEF Ends

\* What OpenTmp does to the directory and the inodes: the temporary file of the
\* target is an empty one, new or emptied, and no other name is moved.
LEMMA OpenTmpOpens ==
  ASSUME SafeInv, NEW c \in Calls, OpenTmp(c), NEW tmp, tmp = Tmp(Target(c).file)
  PROVE  /\ tmp \in Entries
         /\ dir'[tmp] \in 1 .. Len(data') /\ data'[dir'[tmp]] = Empty
         /\ data' \in Seq(Content) /\ Len(data') \in Nat /\ Len(data) <= Len(data')
         /\ dir' \in [Entries -> 0 .. Len(data')]
         /\ \A e \in Entries \ {tmp} : dir'[e] = dir[e]
         /\ \A i \in 1 .. Len(data) : i # dir'[tmp] => data'[i] = data[i]
         /\ \A i \in 1 .. Len(data') : i # dir'[tmp] => i \in 1 .. Len(data)
         /\ dir'[tmp] <= Len(data) => dir[tmp] = dir'[tmp]
         /\ \A e \in Entries \ {tmp} : dir[e] # dir'[tmp]
<1>1. call[c].pc = "open" /\ Target(c).file \in Files
  BY TargetTypes DEF OpenTmp
<1>2. tmp \in Entries
  BY <1>1 DEF Entries, Tmp
<1>3. /\ data \in Seq(Content) /\ Len(data) \in Nat
      /\ dir \in [Entries -> 0 .. Len(data)]
  BY DEF SafeInv, TypeOK
<1>4. Empty \in Content
  BY DEF Empty, Content, Edits
<1>5. CASE dir[tmp] = 0
  <2>1. data' = Append(data, Empty) /\ dir' = [dir EXCEPT ![tmp] = Len(data) + 1]
    BY <1>5 DEF OpenTmp
  <2>2. /\ data' \in Seq(Content) /\ Len(data') = Len(data) + 1
        /\ data'[Len(data) + 1] = Empty
        /\ \A i \in 1 .. Len(data) : data'[i] = data[i]
    <3> HIDE DEF Empty, Content
    <3> QED BY <1>3, <1>4, <2>1, AppendProperties
  <2>3. /\ dir'[tmp] = Len(data) + 1
        /\ \A e \in Entries \ {tmp} : dir'[e] = dir[e]
        /\ dir' \in [Entries -> 0 .. Len(data) + 1]
    BY <1>2, <1>3, <2>1
  <2>4. \A e \in Entries \ {tmp} : dir[e] # dir'[tmp]
    BY <1>3, <2>3
  <2> QED BY <1>2, <1>3, <2>2, <2>3, <2>4
<1>6. CASE dir[tmp] # 0
  <2>1. data' = [data EXCEPT ![dir[tmp]] = Empty] /\ dir' = dir
    BY <1>6 DEF OpenTmp
  <2>2. dir[tmp] \in 1 .. Len(data)
    BY <1>2, <1>3, <1>6
  <2>3. /\ data' \in Seq(Content) /\ Len(data') = Len(data)
        /\ data'[dir[tmp]] = Empty
        /\ \A i \in 1 .. Len(data) : i # dir[tmp] => data'[i] = data[i]
    BY <1>3, <1>4, <2>1, <2>2
  <2>4. \A e \in Entries \ {tmp} : dir[e] # dir[tmp]
    BY <1>2, <1>6 DEF SafeInv, Directory
  <2> QED BY <1>2, <1>3, <2>1, <2>2, <2>3, <2>4
<1> QED BY <1>5, <1>6

LEMMA OpenTmpKeepsSafe ==
  ASSUME SafeInv, NEW c \in Calls, OpenTmp(c)
  PROVE  SafeInv'
<1> DEFINE f   == Target(c).file
           tmp == Tmp(f)
           n   == dir'[tmp]
<1>0. call \in [Calls -> Call] /\ call[c] \in Call
  BY DEF SafeInv, TypeOK
<1>1. /\ tmp \in Entries
      /\ n \in 1 .. Len(data') /\ data'[n] = Empty
      /\ data' \in Seq(Content) /\ Len(data') \in Nat /\ Len(data) <= Len(data')
      /\ dir' \in [Entries -> 0 .. Len(data')]
      /\ \A e \in Entries \ {tmp} : dir'[e] = dir[e]
      /\ \A i \in 1 .. Len(data) : i # n => data'[i] = data[i]
      /\ \A i \in 1 .. Len(data') : i # n => i \in 1 .. Len(data)
      /\ n <= Len(data) => dir[tmp] = n
      /\ \A e \in Entries \ {tmp} : dir[e] # n
  BY OpenTmpOpens
<1>2. /\ call[c].pc = "open" /\ call'[c].pc = "write" /\ call'[c].fd = n
      /\ call'[c].next = call[c].next /\ call'[c].planned = call[c].planned
      /\ UNCHANGED <<met, spent>>
      /\ \A d \in Calls \ {c} : call'[d] = call[d]
  BY <1>0 DEF OpenTmp, Call
<1>3. call' \in [Calls -> Call]
  <2>1. n \in Nat
    BY <1>1
  <2>2. call' = [call EXCEPT ![c].pc = "write", ![c].fd = n]
    BY DEF OpenTmp
  <2> HIDE DEF n
  <2> QED BY <1>0, <2>1, <2>2 DEF Call
<1>4. Alone(c)
  BY <1>2, <1>3 DEF Alone, Running
<1>5. /\ Len(data) \in Nat
      /\ \A e \in Entries : dir[e] \in 0 .. Len(data)
      /\ \A g \in Files : /\ File(g) \in Entries /\ Tmp(g) \in Entries
                          /\ File(g) # tmp /\ Tmp(g)[1] = g
                          /\ dir[File(g)] \in 1 .. Len(data)
  BY DirTypes DEF SafeInv
<1>6. f \in Files /\ f \in FilesOf(c) /\ tmp[1] = f /\ Running(c)
  BY <1>2, TargetTypes DEF Tmp
<1> HIDE DEF tmp, n
<1>7. TypeOK'
  BY <1>1, <1>2, <1>3 DEF SafeInv, TypeOK
<1>8. Directory'
  <2>1. \A g \in Files : dir'[File(g)] # 0
    BY <1>1, <1>5 DEF SafeInv, Directory
  <2>2. \A e \in Entries : dir'[e] = n => e = tmp
    BY <1>1
  <2>3. ASSUME NEW e \in Entries, NEW d \in Entries, dir'[e] = dir'[d], dir'[e] # 0
        PROVE  e = d
    <3>1. CASE e = tmp \/ d = tmp
      BY <2>2, <2>3, <3>1 DEF n
    <3>2. CASE e # tmp /\ d # tmp
      BY <1>1, <2>3, <3>2 DEF SafeInv, Directory
    <3> QED BY <3>1, <3>2
  <2> QED BY <2>1, <2>3 DEF Directory
<1>9. Loops'
  <2> SUFFICES ASSUME NEW d \in Calls
               PROVE  LoopsOf(d)'
    BY DEF Loops
  <2>1. LoopsOf(d)
    BY DEF SafeInv, Loops
  <2>2. CASE d = c
    BY <1>2, <2>1, <2>2 DEF LoopsOf, Planned, AllPlanned
  <2>3. CASE d # c
    BY <1>2, <2>1, <2>3 DEF LoopsOf, Planned, AllPlanned
  <2> QED BY <2>2, <2>3
<1>10. Opened'
  <2> SUFFICES ASSUME NEW d \in Calls, call'[d].pc \in {"write", "rename"}
               PROVE  /\ call'[d].fd \in 1 .. Len(data')
                      /\ \A e \in Entries : dir'[e] = call'[d].fd => e[1] = Target(d)'.file
                      /\ Target(d)'.file \notin met' =>
                           /\ dir'[Tmp(Target(d)'.file)] = call'[d].fd
                           /\ data'[call'[d].fd] =
                                IF call'[d].pc = "write" THEN Empty ELSE Target(d)'.content
    BY DEF Opened
  <2>1. CASE d = c
    <3>1. Target(c)' = Target(c)
      BY <1>2 DEF Target
    <3> QED BY <1>1, <1>2, <1>6, <2>1, <3>1 DEF n, tmp
  <2>2. CASE d # c
    <3>1. call'[d] = call[d] /\ Target(d)' = Target(d)
      BY <1>2, <2>2 DEF Target
    <3>2. /\ call[d].fd \in 1 .. Len(data)
          /\ \A e \in Entries : dir[e] = call[d].fd => e[1] = Target(d).file
          /\ Target(d).file \notin met =>
               /\ dir[Tmp(Target(d).file)] = call[d].fd
               /\ data[call[d].fd] =
                    IF call[d].pc = "write" THEN Empty ELSE Target(d).content
      BY <2>2, <3>1 DEF SafeInv, Opened
    <3>3. ASSUME NEW e \in Entries, dir'[e] = call[d].fd
          PROVE  e[1] = Target(d).file
      BY <1>1, <1>5, <3>2, <3>3 DEF n
    <3>4. ASSUME Target(d).file \notin met
          PROVE  /\ dir'[Tmp(Target(d).file)] = call[d].fd
                 /\ data'[call[d].fd] = data[call[d].fd]
      <4>1. Target(d).file # f /\ Target(d).file \in Files
        BY <1>6, <2>2, <3>1, <3>4, NobodyElse, TargetTypes
      <4>2. Tmp(Target(d).file) \in Entries \ {tmp}
        BY <1>5, <1>6, <4>1
      <4>3. dir'[Tmp(Target(d).file)] = dir[Tmp(Target(d).file)]
        BY <1>1, <4>2
      <4>4. call[d].fd # n
        BY <1>1, <3>2, <3>4, <4>2
      <4> QED BY <1>1, <3>2, <3>4, <4>3, <4>4
    <3> QED BY <1>1, <1>2, <1>5, <3>1, <3>2, <3>3, <3>4
  <2> QED BY <2>1, <2>2
<1>11. FilesAreWhole'
  <2>1. \A g \in Files : Holds(g)' = Holds(g)
    BY <1>1, <1>5 DEF Holds
  <2> QED BY <1>2, <2>1 DEF SafeInv, FilesAreWhole
<1>12. Apart' /\ PlansAreWhole' /\ Unwritten'
  <2>1. Clean(Empty)
    BY DEF Clean, Empty
  <2>2. \A i \in 1 .. Len(data') : Clean(data'[i])
    BY <1>1, <2>1, InodesClean
  <2> QED BY <1>4, <2>2, AloneKeeps
<1> QED BY <1>7, <1>8, <1>9, <1>10, <1>11, <1>12 DEF SafeInv

\* What Rename does: the temporary file of the target gets the target's name.
LEMMA RenameRenames ==
  ASSUME SafeInv, NEW c \in Calls, Rename(c), NEW f, f = Target(c).file
  PROVE  /\ f \in Files /\ f \in FilesOf(c)
         /\ dir[Tmp(f)] \in 1 .. Len(data) /\ data' = data
         /\ dir' \in [Entries -> 0 .. Len(data)]
         /\ dir'[File(f)] = dir[Tmp(f)] /\ dir'[Tmp(f)] = 0
         /\ \A e \in Entries \ {File(f), Tmp(f)} : dir'[e] = dir[e]
         /\ f \notin met => dir[Tmp(f)] = call[c].fd /\ data[call[c].fd] = Target(c).content
<1>1. call[c].pc = "rename" /\ dir[Tmp(f)] # 0 /\ data' = data
  BY DEF Rename
<1>2. f \in Files /\ f \in FilesOf(c)
  BY <1>1, TargetTypes
<1>3. /\ File(f) \in Entries /\ Tmp(f) \in Entries /\ File(f) # Tmp(f)
      /\ dir[Tmp(f)] \in 0 .. Len(data) /\ Len(data) \in Nat
      /\ dir \in [Entries -> 0 .. Len(data)]
  BY <1>2, DirTypes DEF SafeInv, TypeOK
<1>4. dir' = [dir EXCEPT ![File(f)] = dir[Tmp(f)], ![Tmp(f)] = 0]
  BY DEF Rename
<1>5. /\ dir' \in [Entries -> 0 .. Len(data)]
      /\ dir'[File(f)] = dir[Tmp(f)] /\ dir'[Tmp(f)] = 0
      /\ \A e \in Entries \ {File(f), Tmp(f)} : dir'[e] = dir[e]
  BY <1>3, <1>4
<1>6. f \notin met => dir[Tmp(f)] = call[c].fd /\ data[call[c].fd] = Target(c).content
  BY <1>1 DEF SafeInv, Opened
<1> QED BY <1>1, <1>2, <1>3, <1>5, <1>6

\* Of the files in which no calls have met, Rename changes its target only.
LEMMA RenameHolds ==
  ASSUME SafeInv, NEW c \in Calls, Rename(c), NEW f, f = Target(c).file
  PROVE  /\ \A g \in Files \ {f} : Holds(g)' = Holds(g)
         /\ f \notin met => Holds(f)' = Target(c).content
<1>1. /\ data' = data /\ dir'[File(f)] = dir[Tmp(f)]
      /\ \A e \in Entries \ {File(f), Tmp(f)} : dir'[e] = dir[e]
      /\ f \notin met => dir[Tmp(f)] = call[c].fd /\ data[call[c].fd] = Target(c).content
  BY RenameRenames
<1>2. \A g \in Files \ {f} : File(g) \in Entries \ {File(f), Tmp(f)}
  BY DEF Entries, File, Tmp
<1> QED BY <1>1, <1>2 DEF Holds

LEMMA RenameMoves ==
  ASSUME SafeInv, NEW c \in Calls, Rename(c)
  PROVE  /\ call[c].pc = "rename"
         /\ call'[c].pc = IF call[c].next = Len(Planned(c)) THEN "ok" ELSE "open"
         /\ call'[c].next = call[c].next + 1
         /\ UNCHANGED spent
         /\ Alone(c)
<1>0. /\ call \in [Calls -> Call] /\ call[c] \in Call
      /\ call[c].next + 1 \in Nat
  BY CallTypes DEF SafeInv, TypeOK
<1> DEFINE pc   == IF call[c].next = Len(Planned(c)) THEN "ok" ELSE "open"
           next == call[c].next + 1
<1>1. call' = [call EXCEPT ![c].pc = pc, ![c].next = next, ![c].fd = 0]
  BY DEF Rename, Planned
<1>2. pc \in {"ok", "open"}
  OBVIOUS
<1> HIDE DEF pc, next
<1>3. /\ call'[c].pc = pc /\ call'[c].next = next
      /\ call'[c].planned = call[c].planned
      /\ \A d \in Calls \ {c} : call'[d] = call[d]
  BY <1>0, <1>1 DEF Call
<1>4. call' \in [Calls -> Call]
  BY <1>0, <1>1, <1>2 DEF Call, next
<1>5. call[c].pc = "rename" /\ UNCHANGED <<met, spent>>
  BY DEF Rename
<1> QED BY <1>3, <1>4, <1>5 DEF Alone, Running, pc, next

LEMMA RenameKeepsSafe ==
  ASSUME SafeInv, NEW c \in Calls, Rename(c)
  PROVE  SafeInv'
<1>0. PICK f : f = Target(c).file
  OBVIOUS
<1>1. /\ f \in Files /\ f \in FilesOf(c)
      /\ dir[Tmp(f)] \in 1 .. Len(data) /\ data' = data
      /\ dir' \in [Entries -> 0 .. Len(data)]
      /\ dir'[File(f)] = dir[Tmp(f)] /\ dir'[Tmp(f)] = 0
      /\ \A e \in Entries \ {File(f), Tmp(f)} : dir'[e] = dir[e]
  BY <1>0, RenameRenames
<1>2. /\ call[c].pc = "rename"
      /\ call'[c].pc = IF call[c].next = Len(Planned(c)) THEN "ok" ELSE "open"
      /\ call'[c].next = call[c].next + 1
      /\ UNCHANGED spent
      /\ Alone(c)
  BY RenameMoves
<1>3. /\ \A g \in Files \ {f} : Holds(g)' = Holds(g)
      /\ f \notin met => Holds(f)' = Target(c).content
  BY <1>0, RenameHolds
<1>4. /\ Len(data) \in Nat
      /\ \A e \in Entries : dir[e] \in 0 .. Len(data)
      /\ \A g \in Files : /\ File(g) \in Entries /\ Tmp(g) \in Entries
                          /\ File(g)[1] = g /\ Tmp(g)[1] = g
                          /\ dir[File(g)] \in 1 .. Len(data)
      /\ \A g, h : File(g) # Tmp(h)
  BY DirTypes DEF SafeInv
<1>5. met' = met /\ \A d \in Calls \ {c} : call'[d] = call[d]
  BY <1>2 DEF Alone
<1>6. TypeOK'
  BY <1>1, <1>2, <1>5 DEF SafeInv, TypeOK, Alone
<1>7. Directory'
  <2>1. \A g \in Files : dir'[File(g)] # 0
    BY <1>1, <1>4
  <2>2. ASSUME NEW e \in Entries, NEW d \in Entries, dir'[e] = dir'[d], dir'[e] # 0
        PROVE  e = d
    <3>1. e # Tmp(f) /\ d # Tmp(f)
      BY <1>1, <2>2
    <3>2. CASE e = File(f) \/ d = File(f)
      BY <1>1, <1>4, <2>2, <3>1, <3>2 DEF SafeInv, Directory
    <3>3. CASE e # File(f) /\ d # File(f)
      BY <1>1, <2>2, <3>1, <3>3 DEF SafeInv, Directory
    <3> QED BY <3>2, <3>3
  <2> QED BY <2>1, <2>2 DEF Directory
<1>8. Loops'
  <2> SUFFICES ASSUME NEW d \in Calls
               PROVE  LoopsOf(d)'
    BY DEF Loops
  <2>1. LoopsOf(d)
    BY DEF SafeInv, Loops
  <2>2. Planned(d)' = Planned(d) /\ AllPlanned(d)' = AllPlanned(d)
    BY <1>2, AloneKeeps
  <2>3. CASE d = c
    <3>1. /\ AllPlanned(c) /\ call[c].next \in 1 .. Len(Planned(c))
          /\ Len(Planned(c)) \in Nat
      BY <1>2, TargetTypes, CallTypes DEF SafeInv
    <3> QED BY <1>2, <2>1, <2>2, <2>3, <3>1 DEF LoopsOf
  <2>4. CASE d # c
    BY <1>5, <2>1, <2>2, <2>4 DEF LoopsOf
  <2> QED BY <2>3, <2>4
<1>9. Opened'
  <2> SUFFICES ASSUME NEW d \in Calls, call'[d].pc \in {"write", "rename"}
               PROVE  /\ call'[d].fd \in 1 .. Len(data')
                      /\ \A e \in Entries : dir'[e] = call'[d].fd => e[1] = Target(d)'.file
                      /\ Target(d)'.file \notin met' =>
                           /\ dir'[Tmp(Target(d)'.file)] = call'[d].fd
                           /\ data'[call'[d].fd] =
                                IF call'[d].pc = "write" THEN Empty ELSE Target(d)'.content
    BY DEF Opened
  <2>1. d # c
    BY <1>2
  <2>2. call'[d] = call[d] /\ Target(d)' = Target(d)
    BY <1>5, <2>1 DEF Target
  <2>3. /\ call[d].fd \in 1 .. Len(data)
        /\ \A e \in Entries : dir[e] = call[d].fd => e[1] = Target(d).file
        /\ Target(d).file \notin met =>
             /\ dir[Tmp(Target(d).file)] = call[d].fd
             /\ data[call[d].fd] =
                  IF call[d].pc = "write" THEN Empty ELSE Target(d).content
    BY <2>2 DEF SafeInv, Opened
  <2>4. ASSUME NEW e \in Entries, dir'[e] = call[d].fd
        PROVE  e[1] = Target(d).file
    BY <1>1, <1>4, <2>3, <2>4
  <2>5. ASSUME Target(d).file \notin met
        PROVE  dir'[Tmp(Target(d).file)] = dir[Tmp(Target(d).file)]
    <3>1. Target(d).file # f /\ Target(d).file \in Files
      BY <1>0, <1>1, <1>2, <2>1, <2>2, <2>5, NobodyElse, TargetTypes DEF Alone
    <3> QED BY <1>1, <1>4, <3>1
  <2> QED BY <1>1, <1>5, <2>2, <2>3, <2>4, <2>5
<1>10. FilesAreWhole'
  <2>1. f \notin met => Target(c).content.whole
    BY <1>0, <1>2, TargetTypes DEF SafeInv, PlansAreWhole
  <2>2. ASSUME NEW g \in Files, g \notin met
        PROVE  Holds(g)'.whole
    <3>1. CASE g = f
      BY <1>3, <2>1, <2>2, <3>1
    <3>2. CASE g # f
      BY <1>3, <2>2, <3>2 DEF SafeInv, FilesAreWhole
    <3> QED BY <3>1, <3>2
  <2> QED BY <1>5, <2>2 DEF FilesAreWhole
<1>11. Apart' /\ PlansAreWhole' /\ Unwritten'
  BY <1>1, <1>2, AloneKeeps, InodesClean
<1> QED BY <1>6, <1>7, <1>8, <1>9, <1>10, <1>11 DEF SafeInv

-----------------------------------------------------------------------------
(* What holds of every diff. *)

LEMMA StepKeepsSafe ==
  ASSUME SafeInv, [Next]_vars
  PROVE  SafeInv'
<1>1. ASSUME NEW c \in Calls,
             \/ Begin(c) \/ Plan(c) \/ Refuse(c)
             \/ OpenTmp(c) \/ WriteTmp(c) \/ Rename(c)
             \/ TmpIsGone(c) \/ IOError(c) \/ Crash(c)
      PROVE  SafeInv'
  BY <1>1, BeginKeepsSafe, PlanKeepsSafe, RefuseKeepsSafe, OpenTmpKeepsSafe,
     WriteTmpKeepsSafe, RenameKeepsSafe, FailuresEnd, EndsKeepsSafe
<1>2. CASE UNCHANGED vars
  <2> USE <1>2 DEF vars
  <2>1. TypeOK' /\ Directory' /\ Apart' /\ FilesAreWhole'
    BY DEF SafeInv, TypeOK, Directory, Apart, FilesAreWhole, Holds, Running, FilesOf
  <2>2. Loops' /\ Opened'
    BY DEF SafeInv, Loops, LoopsOf, Opened, Target, Planned, AllPlanned
  <2>3. PlansAreWhole' /\ Unwritten'
    BY DEF SafeInv, PlansAreWhole, Unwritten, Planned, AllPlanned
  <2> QED BY <2>1, <2>2, <2>3 DEF SafeInv
<1> QED BY <1>1, <1>2 DEF Next

LEMMA SafeInvariant == Spec => []SafeInv
<1>1. Init => SafeInv
  BY InitSafe
<1>2. SafeInv /\ [Next]_vars => SafeInv'
  BY StepKeepsSafe
<1> QED BY <1>1, <1>2, PTL DEF Spec

(***************************************************************************)
(* The directory, the inodes and the locals of every call keep their       *)
(* types: no call indexes its plan or an inode that is not there, however  *)
(* many calls rename one another's temporary files away.                   *)
(***************************************************************************)
THEOREM CallsTyped == Spec => []TypeOK
<1>1. SafeInv => TypeOK
  BY DEF SafeInv
<1> QED BY <1>1, SafeInvariant, PTL

(***************************************************************************)
(* No file is ever without a name, in files in which calls have met too.   *)
(***************************************************************************)
THEOREM FilesStayThere == Spec => []FilesExist
<1>1. SafeInv => FilesExist
  BY DEF SafeInv, Directory, FilesExist
<1> QED BY <1>1, SafeInvariant, PTL

(***************************************************************************)
(* A file that calls have worked on one at a time is a whole version of    *)
(* itself at every moment, whatever temporary files errors and crashes     *)
(* have left.                                                              *)
(***************************************************************************)
THEOREM TargetsWhole == Spec => []FilesAreWhole
<1>1. SafeInv => FilesAreWhole
  BY DEF SafeInv
<1> QED BY <1>1, SafeInvariant, PTL

(***************************************************************************)
(* A refused call has changed no file, and no other call has its edits.    *)
(***************************************************************************)
THEOREM RefusedIsUndone == Spec => []RefusedChangesNothing
<1>1. SafeInv => RefusedChangesNothing
  <2> SUFFICES ASSUME SafeInv, NEW c \in Calls, call[c].pc = "refused",
                      NEW n \in EditsMade(c)
               PROVE  FALSE
    BY DEF RefusedChangesNothing
  <2>1. ~AllPlanned(c)
    BY DEF SafeInv, Loops, LoopsOf
  <2>2. n \in ToSet(Diffs[c]) /\ Resolve[n] # NotThere /\ <<c, n>> \in Holds(Resolve[n]).edits
    BY DEF EditsMade
  <2>3. n \in Names /\ Resolve[n] \in Files
    BY <2>2, DiffTypes DEF ToSet
  <2>4. dir[File(Resolve[n])] \in 1 .. Len(data)
    BY <2>3, DirTypes DEF SafeInv
  <2> QED BY <2>1, <2>2, <2>3, <2>4 DEF SafeInv, Unwritten, Holds
<1> QED BY <1>1, SafeInvariant, PTL

-----------------------------------------------------------------------------
(* What holds of diffs whose names are different files. *)

\* A step that renames nothing and plans only what is fresh.
LEMMA QuietKeepsEdits ==
  ASSUME EditsInv, SafeInv', met \subseteq met',
         \A f \in Files \ met : Holds(f)' = Holds(f),
         \A c \in Calls : Renamed(c)' = Renamed(c),
         \A c \in Calls : Running(c)' =>
           \A i \in 1 .. Len(Planned(c)') :
             \/ Running(c) /\ i <= Len(Planned(c)) /\ Planned(c)'[i] = Planned(c)[i]
             \/ Planned(c)'[i].file \notin met =>
                  Planned(c)'[i].content.edits =
                    Holds(Planned(c)'[i].file).edits \cup {<<c, Diffs[c][i]>>}
  PROVE  EditsInv'
<1>1. PlansAreFresh'
  <2> SUFFICES ASSUME NEW c \in Calls, NEW i \in 1 .. Len(Planned(c)'),
                      NEW f, f = Planned(c)'[i].file,
                      Running(c)', i > Renamed(c)', f \notin met'
               PROVE  Planned(c)'[i].content.edits =
                        Holds(f)'.edits \cup {<<c, Diffs[c][i]>>}
    BY DEF PlansAreFresh, Holds
  <2>1. TypeOK'
    BY DEF SafeInv
  <2>2. f \in Files \ met
    <3>1. call'[c] \in Call /\ Planned(c)' = call'[c].planned
      BY <2>1 DEF TypeOK, Planned
    <3>2. Planned(c)' \in Seq([file : Files, content : Content])
      BY <3>1 DEF Call
    <3>3. Planned(c)'[i] \in [file : Files, content : Content]
      BY <3>2, EveryElement
    <3> QED BY <3>3
  <2>3. Planned(c)'[i].content.edits = Holds(f).edits \cup {<<c, Diffs[c][i]>>}
    <3>1. CASE Running(c) /\ i <= Len(Planned(c)) /\ Planned(c)'[i] = Planned(c)[i]
      <4>1. i \in 1 .. Len(Planned(c))
        BY <3>1, CallTypes DEF EditsInv, SafeInv
      <4> QED BY <3>1, <4>1 DEF EditsInv, PlansAreFresh
    <3>2. CASE ~(Running(c) /\ i <= Len(Planned(c)) /\ Planned(c)'[i] = Planned(c)[i])
      BY <2>2, <3>2
    <3> QED BY <3>1, <3>2
  <2> QED BY <2>2, <2>3
<1>2. EditsAreRenamed'
  <2> SUFFICES ASSUME NEW c \in Calls, NEW i \in DOMAIN Diffs[c],
                      Resolve[Diffs[c][i]] \in Files \ met'
               PROVE  <<c, Diffs[c][i]>> \in Holds(Resolve[Diffs[c][i]])'.edits
                        <=> i <= Renamed(c)
    BY DEF EditsAreRenamed
  <2>1. Holds(Resolve[Diffs[c][i]])' = Holds(Resolve[Diffs[c][i]])
    OBVIOUS
  <2> QED BY <2>1 DEF EditsInv, EditsAreRenamed
<1> QED BY <1>1, <1>2 DEF EditsInv

LEMMA QuietSteps ==
  ASSUME SafeInv, NEW c \in Calls,
         \/ Begin(c) \/ Refuse(c) \/ OpenTmp(c) \/ WriteTmp(c)
         \/ TmpIsGone(c) \/ IOError(c) \/ Crash(c)
  PROVE  /\ met \subseteq met'
         /\ \A f \in Files \ met : Holds(f)' = Holds(f)
         /\ \A d \in Calls : /\ call'[d].planned = call[d].planned
                             /\ call'[d].next = call[d].next
                             /\ Running(d)' => Running(d) \/ Planned(d) = << >>
<1>0. call \in [Calls -> Call] /\ call[c] \in Call
  BY DEF SafeInv, TypeOK
<1>1. CASE Begin(c)
  <2>1. /\ met \subseteq met' /\ UNCHANGED <<dir, data>> /\ call[c].pc = "idle"
        /\ call'[c].next = call[c].next /\ call'[c].planned = call[c].planned
        /\ \A d \in Calls \ {c} : call'[d] = call[d]
    BY <1>0, <1>1 DEF Begin, Call
  <2>2. Planned(c) = << >>
    BY <2>1 DEF SafeInv, Loops, LoopsOf
  <2> QED BY <2>1, <2>2 DEF Holds, Running
<1>2. CASE Refuse(c)
  <2>1. /\ UNCHANGED <<dir, data, met>> /\ Running(c)
        /\ call'[c].next = call[c].next /\ call'[c].planned = call[c].planned
        /\ \A d \in Calls \ {c} : call'[d] = call[d]
    BY <1>0, <1>2 DEF Refuse, Call, Running
  <2> QED BY <2>1 DEF Holds, Running
<1>3. CASE OpenTmp(c)
  <2>1. /\ met' = met /\ Running(c)
        /\ call'[c].next = call[c].next /\ call'[c].planned = call[c].planned
        /\ \A d \in Calls \ {c} : call'[d] = call[d]
    BY <1>0, <1>3 DEF OpenTmp, Call, Running
  <2>2. \A f \in Files : Holds(f)' = Holds(f)
    <3>1. PICK tmp : tmp = Tmp(Target(c).file)
      OBVIOUS
    <3>2. /\ \A e \in Entries \ {tmp} : dir'[e] = dir[e] /\ dir[e] # dir'[tmp]
          /\ \A i \in 1 .. Len(data) : i # dir'[tmp] => data'[i] = data[i]
      BY <1>3, <3>1, OpenTmpOpens
    <3>3. \A f \in Files : /\ File(f) \in Entries \ {tmp}
                           /\ dir[File(f)] \in 1 .. Len(data)
      BY <3>1, DirTypes DEF SafeInv
    <3> QED BY <3>2, <3>3 DEF Holds
  <2> QED BY <2>1, <2>2 DEF Running
<1>4. CASE WriteTmp(c)
  <2>1. /\ call[c].pc = "write" /\ UNCHANGED <<dir, met>>
        /\ call'[c].next = call[c].next /\ call'[c].planned = call[c].planned
        /\ \A d \in Calls \ {c} : call'[d] = call[d]
    BY <1>0, <1>4 DEF WriteTmp, Call
  <2>2. Writes(c)
    BY <1>4, <2>1, WriteTmpWrites
  <2> QED BY <2>1, <2>2, WritesTarget DEF Running
<1>5. CASE TmpIsGone(c) \/ IOError(c) \/ Crash(c)
  <2>1. Ends(c) /\ Writes(c)
    BY <1>5, FailuresEnd, EndsWrites
  <2>2. PICK pc \in {"failed", "dead"} : call' = [call EXCEPT ![c].pc = pc, ![c].fd = 0]
    BY <2>1 DEF Ends, Answer
  <2>3. /\ call'[c].next = call[c].next /\ call'[c].planned = call[c].planned
        /\ \A d \in Calls \ {c} : call'[d] = call[d]
    BY <1>0, <2>2 DEF Call
  <2> QED BY <2>1, <2>3, WritesTarget DEF Running, Ends
<1> QED BY <1>1, <1>2, <1>3, <1>4, <1>5

LEMMA PlanKeepsEdits ==
  ASSUME EditsInv, SafeInv', NEW c \in Calls, Plan(c)
  PROVE  EditsInv'
<1>1. PICK k, item : Plans(c, k, item)
  BY PlanPlans DEF EditsInv
<1> USE DEF Plans
<1>2. \A d \in Calls : Renamed(d)' = Renamed(d)
  <2>1. Renamed(c) = 0
    BY <1>1 DEF Renamed
  <2>2. Renamed(c)' = 0
    BY <1>1 DEF Renamed, AllPlanned
  <2> QED BY <1>1, <2>1, <2>2 DEF Renamed, AllPlanned, Planned
<1>3. ASSUME NEW d \in Calls, Running(d)', NEW i \in 1 .. Len(Planned(d)')
      PROVE  \/ Running(d) /\ i <= Len(Planned(d)) /\ Planned(d)'[i] = Planned(d)[i]
             \/ Planned(d)'[i].file \notin met =>
                  Planned(d)'[i].content.edits =
                    Holds(Planned(d)'[i].file).edits \cup {<<d, Diffs[d][i]>>}
  <2>1. CASE d # c
    <3>1. call'[d] = call[d]
      BY <1>1, <2>1
    <3>2. i <= Len(Planned(d)) /\ Planned(d)'[i] = Planned(d)[i] /\ Running(d)
      BY <1>3, <3>1 DEF Planned, Running
    <3> QED BY <3>2
  <2>2. CASE d = c /\ i = k
    BY <1>1, <2>2
  <2>3. CASE d = c /\ i # k
    <3>1. i \in 1 .. k - 1
      BY <1>1, <2>3
    <3>2. Running(c)
      BY DEF Plan, Running
    <3> QED BY <1>1, <2>3, <3>1, <3>2
  <2> QED BY <2>1, <2>2, <2>3
<1>4. \A f \in Files \ met : Holds(f)' = Holds(f)
  BY <1>1 DEF Holds
<1> QED BY <1>1, <1>2, <1>3, <1>4, QuietKeepsEdits

\* The target gets the edits it had and the one of its name.
LEMMA RenameKeepsEdits ==
  ASSUME EditsInv, SafeInv', NEW c \in Calls, Rename(c)
  PROVE  EditsInv'
<1>0. SafeInv
  BY DEF EditsInv
<1>1. PICK f : f = Target(c).file
  OBVIOUS
<1>2. PICK k : k = call[c].next
  OBVIOUS
<1>3. /\ \A g \in Files \ {f} : Holds(g)' = Holds(g)
      /\ f \notin met => Holds(f)' = Target(c).content
  BY <1>0, <1>1, RenameHolds
<1>4. call[c].pc = "rename" /\ call'[c].next = k + 1 /\ Alone(c)
  BY <1>0, <1>2, RenameMoves
<1>5. \A d \in Calls : Planned(d)' = Planned(d) /\ AllPlanned(d)' = AllPlanned(d)
  BY <1>0, <1>4, AloneKeeps
<1>6. /\ Running(c) /\ AllPlanned(c) /\ k \in 1 .. Len(Planned(c))
      /\ Target(c) = Planned(c)[k] /\ f = Planned(c)[k].file /\ f \in FilesOf(c)
      /\ k \in 1 .. Len(Diffs[c]) /\ f = Resolve[Diffs[c][k]] /\ f \in Files
  BY <1>0, <1>1, <1>2, <1>4, TargetTypes DEF SafeInv, Loops, LoopsOf, AllPlanned
<1>7. Renamed(c) = k - 1 /\ Renamed(c)' = k
  BY <1>2, <1>4, <1>5, <1>6 DEF Renamed
<1>8. \A d \in Calls \ {c} :
        call'[d] = call[d] /\ Renamed(d)' = Renamed(d) /\ (Running(d)' <=> Running(d))
  BY <1>4, <1>5 DEF Alone, Renamed, Running
<1>9. f \notin met => Holds(f)'.edits = Holds(f).edits \cup {<<c, Diffs[c][k]>>}
  <2>1. k > Renamed(c)
    BY <1>6, <1>7
  <2> QED BY <1>3, <1>6, <2>1 DEF EditsInv, PlansAreFresh
<1>10. \A d \in Calls : \A i \in 1 .. Len(Planned(d)) :
         /\ i \in 1 .. Len(Diffs[d]) /\ Planned(d)[i].file = Resolve[Diffs[d][i]]
         /\ Planned(d)[i].file \in Files /\ Planned(d)[i].file \in FilesOf(d)
  <2> SUFFICES ASSUME NEW d \in Calls, NEW i \in 1 .. Len(Planned(d))
               PROVE  /\ i \in 1 .. Len(Diffs[d]) /\ Planned(d)[i].file = Resolve[Diffs[d][i]]
                      /\ Planned(d)[i].file \in Files /\ Planned(d)[i].file \in FilesOf(d)
    OBVIOUS
  <2>1. i <= Len(Diffs[d]) /\ Planned(d)[i].file = Resolve[Diffs[d][i]]
    BY <1>0 DEF SafeInv, Loops, LoopsOf
  <2>2. Planned(d)[i].file \in Files
    BY <1>0, CallTypes DEF SafeInv
  <2>3. i \in 1 .. Len(Diffs[d])
    BY <2>1, DiffTypes
  <2> QED BY <2>1, <2>2, <2>3, DiffTypes
<1>11. PlansAreFresh'
  <2> SUFFICES ASSUME NEW d \in Calls, NEW i \in 1 .. Len(Planned(d)),
                      NEW g, g = Planned(d)[i].file,
                      Running(d)', i > Renamed(d)', g \notin met
               PROVE  Planned(d)[i].content.edits = Holds(g)'.edits \cup {<<d, Diffs[d][i]>>}
    BY <1>4, <1>5 DEF PlansAreFresh, Alone, Holds
  <2>1. Running(d) /\ i > Renamed(d)
    BY <1>6, <1>7, <1>8
  <2>2. Planned(d)[i].content.edits = Holds(g).edits \cup {<<d, Diffs[d][i]>>}
    BY <2>1 DEF EditsInv, PlansAreFresh
  <2>3. g # f
    <3>1. CASE d # c
      BY <1>0, <1>6, <1>10, <2>1, <3>1 DEF SafeInv, Apart
    <3>2. CASE d = c
      <4>1. i # k /\ i \in DOMAIN Diffs[c] /\ k \in DOMAIN Diffs[c]
        BY <1>6, <1>7, <1>10, <3>2, DiffTypes
      <4>2. f # NotThere
        BY <1>6, DiffFilesAssumption
      <4> QED BY <1>6, <1>10, <3>2, <4>1, <4>2 DEF EditsInv, NoAlias
    <3> QED BY <3>1, <3>2
  <2>4. Holds(g)' = Holds(g)
    BY <1>3, <1>10, <2>3
  <2> QED BY <2>2, <2>4
<1>12. EditsAreRenamed'
  <2> SUFFICES ASSUME NEW d \in Calls, NEW i \in DOMAIN Diffs[d],
                      NEW g, g = Resolve[Diffs[d][i]], g \in Files \ met
               PROVE  <<d, Diffs[d][i]>> \in Holds(g)'.edits <=> i <= Renamed(d)'
    BY <1>4 DEF EditsAreRenamed, Alone, Holds
  <2>1. <<d, Diffs[d][i]>> \in Holds(g).edits <=> i <= Renamed(d)
    BY DEF EditsInv, EditsAreRenamed
  <2>2. i \in 1 .. Len(Diffs[d])
    BY DiffTypes
  <2>3. CASE g # f
    <3>1. Holds(g)' = Holds(g)
      BY <1>3, <2>3
    <3>2. d = c => i # k
      BY <1>6, <2>3
    <3> QED BY <1>6, <1>7, <1>8, <2>1, <2>2, <3>1, <3>2
  <2>4. CASE g = f /\ d # c
    BY <1>8, <1>9, <2>1, <2>4
  <2>5. CASE g = f /\ d = c
    <3>1. f # NotThere
      BY <1>6, DiffFilesAssumption
    <3>2. i = k
      BY <1>6, <2>5, <3>1, DiffTypes DEF EditsInv, NoAlias
    <3> QED BY <1>7, <1>9, <2>2, <2>5, <3>2
  <2> QED BY <2>3, <2>4, <2>5
<1> QED BY <1>11, <1>12 DEF EditsInv

LEMMA StepKeepsEdits ==
  ASSUME EditsInv, [Next]_vars
  PROVE  EditsInv'
<1>0. SafeInv /\ SafeInv'
  BY StepKeepsSafe DEF EditsInv
<1>1. ASSUME NEW c \in Calls,
             \/ Begin(c) \/ Refuse(c) \/ OpenTmp(c) \/ WriteTmp(c)
             \/ TmpIsGone(c) \/ IOError(c) \/ Crash(c)
      PROVE  EditsInv'
  <2>1. /\ met \subseteq met'
        /\ \A f \in Files \ met : Holds(f)' = Holds(f)
        /\ \A d \in Calls : /\ call'[d].planned = call[d].planned
                            /\ call'[d].next = call[d].next
                            /\ Running(d)' => Running(d) \/ Planned(d) = << >>
    BY <1>0, <1>1, QuietSteps
  <2>2. \A d \in Calls : Planned(d)' = Planned(d) /\ Renamed(d)' = Renamed(d)
    BY <2>1 DEF Planned, Renamed, AllPlanned
  <2>3. ASSUME NEW d \in Calls, Running(d)', NEW i \in 1 .. Len(Planned(d)')
        PROVE  Running(d) /\ i <= Len(Planned(d)) /\ Planned(d)'[i] = Planned(d)[i]
    <3>1. i \in 1 .. Len(Planned(d)) /\ Len(Planned(d)) \in Nat
      BY <1>0, <2>2, CallTypes DEF SafeInv
    <3>2. Planned(d) # << >>
      BY <3>1
    <3> QED BY <2>1, <2>2, <2>3, <3>1, <3>2
  <2> QED BY <1>0, <2>1, <2>2, <2>3, QuietKeepsEdits
<1>2. ASSUME NEW c \in Calls, Plan(c)
      PROVE  EditsInv'
  BY <1>0, <1>2, PlanKeepsEdits
<1>3. ASSUME NEW c \in Calls, Rename(c)
      PROVE  EditsInv'
  BY <1>0, <1>3, RenameKeepsEdits
<1>4. CASE UNCHANGED vars
  BY <1>0, <1>4 DEF vars, EditsInv, PlansAreFresh, EditsAreRenamed, Renamed, AllPlanned,
     Planned, Holds, Running
<1> QED BY <1>1, <1>2, <1>3, <1>4 DEF Next

LEMMA InitEdits ==
  ASSUME Init, NoAlias
  PROVE  EditsInv
<1>1. SafeInv
  BY InitSafe
<1>2. \A c \in Calls : call[c].pc = "idle" /\ call[c].next = 1 /\ ~Running(c)
  BY DEF Init, NotCalled, Running
<1>3. PlansAreFresh
  BY <1>2 DEF PlansAreFresh
<1>4. EditsAreRenamed
  <2> SUFFICES ASSUME NEW c \in Calls, NEW i \in DOMAIN Diffs[c],
                      NEW g, g = Resolve[Diffs[c][i]], g \in Files
               PROVE  <<c, Diffs[c][i]>> \in Holds(g).edits <=> i <= Renamed(c)
    BY DEF EditsAreRenamed
  <2>1. Renamed(c) = 0 /\ ~(i <= Renamed(c))
    BY <1>2, DiffTypes DEF Renamed
  <2>2. dir[File(g)] \in 1 .. Cardinality(Files)
    BY InodesApart DEF Init, Entries, File
  <2>3. Holds(g) = Original
    BY <2>2 DEF Init, Holds
  <2> QED BY <2>1, <2>3 DEF Original
<1> QED BY <1>1, <1>3, <1>4 DEF EditsInv

LEMMA EditsInvariant == NoAlias /\ Spec => []EditsInv
<1>1. Init /\ NoAlias => EditsInv
  BY InitEdits
<1>2. EditsInv /\ [Next]_vars => EditsInv'
  BY StepKeepsEdits
<1> QED BY <1>1, <1>2, PTL DEF Spec

(***************************************************************************)
(* Where no two names of a diff are one file, a call that answered Ok made *)
(* every edit of its diff, and later calls keep them, in files that calls  *)
(* have worked on one at a time.                                           *)
(***************************************************************************)
THEOREM OkIsKept == NoAlias /\ Spec => []OkEditsStay
<1>1. EditsInv => OkEditsStay
  <2> SUFFICES ASSUME EditsInv, NEW c \in Calls, call[c].pc = "ok",
                      NEW n \in ToSet(Diffs[c]), Resolve[n] \notin met
               PROVE  n \in EditsMade(c)
    BY DEF OkEditsStay
  <2>1. PICK i \in 1 .. Len(Diffs[c]) : n = Diffs[c][i]
    BY DiffTypes DEF ToSet
  <2>2. /\ AllPlanned(c) /\ call[c].next = Len(Planned(c)) + 1
        /\ \A j \in 1 .. Len(Planned(c)) :
             j <= Len(Diffs[c]) /\ Planned(c)[j].file = Resolve[Diffs[c][j]]
    BY DEF EditsInv, SafeInv, Loops, LoopsOf
  <2>3. i \in 1 .. Len(Planned(c)) /\ Resolve[n] = Planned(c)[i].file
    BY <2>1, <2>2 DEF AllPlanned
  <2>4. Resolve[n] \in Files /\ Resolve[n] # NotThere
    BY <2>3, CallTypes, DiffFilesAssumption DEF EditsInv, SafeInv
  <2>5. i <= Renamed(c)
    BY <2>1, <2>2, DiffTypes DEF Renamed, AllPlanned
  <2>6. i \in DOMAIN Diffs[c]
    BY <2>1, DiffTypes
  <2> QED BY <2>1, <2>4, <2>5, <2>6 DEF EditsInv, EditsAreRenamed, EditsMade
<1> QED BY <1>1, EditsInvariant, PTL

(***************************************************************************)
(* Where no two names of a diff are one file, the edits of a call that     *)
(* stopped on its way, at an error or dead, are those of the names before  *)
(* one of them.                                                            *)
(***************************************************************************)
THEOREM EditedInOrder == NoAlias /\ Spec => []EditsInOrder
<1>1. EditsInv => EditsInOrder
  <2> SUFFICES ASSUME EditsInv, NEW c \in Calls,
                      NEW i \in DOMAIN Diffs[c], NEW j \in DOMAIN Diffs[c], i < j,
                      Diffs[c][j] \in EditsMade(c), FilesOf(c) \cap met = {}
               PROVE  Diffs[c][i] \in EditsMade(c)
    BY DEF EditsInOrder
  <2>1. /\ i \in 1 .. Len(Diffs[c]) /\ j \in 1 .. Len(Diffs[c]) /\ Len(Diffs[c]) \in Nat
        /\ DOMAIN Diffs[c] = 1 .. Len(Diffs[c])
    BY DiffTypes
  <2>2. /\ Resolve[Diffs[c][j]] # NotThere
        /\ <<c, Diffs[c][j]>> \in Holds(Resolve[Diffs[c][j]]).edits
    BY DEF EditsMade
  <2>3. Resolve[Diffs[c][j]] \in Files \ met
    BY <2>1, <2>2, DiffTypes
  <2>4. j <= Renamed(c)
    BY <2>2, <2>3 DEF EditsInv, EditsAreRenamed
  <2>5. AllPlanned(c) /\ call[c].next \in 1 .. Len(Planned(c)) + 1
    BY <2>1, <2>4 DEF EditsInv, SafeInv, Loops, LoopsOf, Renamed
  <2>6. i <= Renamed(c) /\ i \in 1 .. Len(Planned(c))
    BY <2>1, <2>4, <2>5 DEF Renamed, AllPlanned
  <2>7. Resolve[Diffs[c][i]] \in Files
    <3>1. Planned(c)[i].file \in Files
      BY <2>6, CallTypes DEF EditsInv, SafeInv
    <3>2. Planned(c)[i].file = Resolve[Diffs[c][i]]
      BY <2>6 DEF EditsInv, SafeInv, Loops, LoopsOf
    <3> QED BY <3>1, <3>2
  <2>8. Resolve[Diffs[c][i]] \notin met /\ Resolve[Diffs[c][i]] # NotThere
    BY <2>1, <2>7, DiffTypes, DiffFilesAssumption
  <2>9. <<c, Diffs[c][i]>> \in Holds(Resolve[Diffs[c][i]]).edits
    BY <2>6, <2>7, <2>8 DEF EditsInv, EditsAreRenamed
  <2>10. Diffs[c][i] \in ToSet(Diffs[c])
    BY <2>1 DEF ToSet
  <2> QED BY <2>8, <2>9, <2>10 DEF EditsMade
<1> QED BY <1>1, EditsInvariant, PTL

=============================================================================
