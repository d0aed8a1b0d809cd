------------------------------ MODULE Converters ------------------------------
(***************************************************************************)
(* What goes through a converter and comes back: CSV texts that grow       *)
(* character by character, value trees that grow level by level.  The two  *)
(* exports read what the two imports write.                                *)
(***************************************************************************)
EXTENDS Validator, CsvForm, JsonForm

CONSTANTS
  Chars,    \* characters of a text
  Keys,     \* keys of an object
  Leaves,   \* trees of no level
  Siblings, \* trees that stand beside another
  Name,     \* the name of the group
  MaxChars, \* bound: characters
  MaxLevels \* bound: levels

ASSUME ConvertersAssumption ==
  /\ Chars \subseteq Byte
  /\ \A name \in Keys \cup {Name} : name \in Seq(Byte) /\ IsName(name)
  /\ {MaxChars, MaxLevels} \subseteq Nat

VARIABLES
  text,  \* the CSV text
  tree,  \* the value tree
  level  \* its levels, or TextOnly

vars == <<text, tree, level>>

TextOnly == -1

Init ==
  /\ text = << >>
  /\ \/ level = TextOnly /\ tree = EmptyStr
     \/ level = 0 /\ tree \in Leaves

Type ==
  /\ level = TextOnly /\ Len(text) < MaxChars
  /\ \E ch \in Chars : text' = Append(text, ch)
  /\ UNCHANGED <<tree, level>>

\* A tree with its items in the other order; an object also with its values in
\* the other order behind the same keys, as another row of a table would be.
Turned(t) ==
  IF IsStr(t) THEN {}
  ELSE {<<t[1], Reverse(t[2])>>} \cup
       (IF IsArray(t) THEN {}
        ELSE {<<"object", [i \in DOMAIN t[2] |-> <<t[2][i][1], Reverse(t[2])[i][2]>>]>>})

\* The tree in an array, alone or beside another.
WrapInArray ==
  /\ level \in 0 .. (MaxLevels - 1)
  /\ level' = level + 1
  /\ \E sibling \in Siblings \cup {tree} \cup Turned(tree) :
       tree' \in {<<"array", trees>> : trees \in {<<tree>>, <<tree, sibling>>, <<sibling, tree>>}}
  /\ UNCHANGED text

\* The tree in an object.
WrapInObject ==
  /\ level \in 0 .. (MaxLevels - 1)
  /\ level' = level + 1
  /\ \E sibling \in Siblings \cup {tree} : \E k, j \in Keys :
       \/ tree' = <<"object", <<<<k, tree>>>>>>
       \/ k # j /\ tree' = <<"object", <<<<k, tree>>, <<j, sibling>>>>>>
       \/ k # j /\ tree' = <<"object", <<<<k, sibling>>, <<j, tree>>>>>>
  /\ UNCHANGED text

Next == Type \/ WrapInArray \/ WrapInObject

Spec == Init /\ [][Next]_vars

-----------------------------------------------------------------------------
Written(t) == FromValue(t, Name)

Back(t) == ToValue(Written(t))

\* The table of the text, or what a tree is exported to.
Table ==
  LET Of(csv) == IF csv = NoCsv THEN << >> ELSE ParseCsv(csv)
  IN  IF level = TextOnly THEN ParseCsv(text)
      ELSE Of(ToCsv(Document(Written(tree), 0), << >>))

(***************************************************************************)
(* A table whose first row holds names comes back from C0DATA as it was,   *)
(* cell by cell, quotes, commas and line breaks included.                  *)
(***************************************************************************)
CsvRoundTrips ==
  \A table \in {Table} :
    table # << >> /\ ~CsvPanics(table) =>
      \A csv \in {ToCsv(Document(FromCsv(table, Name), 0), <<Name>>)} :
        csv # NoCsv /\ ParseCsv(csv) = table

(***************************************************************************)
(* "Emit a Value tree as canonical C0DATA bytes" (json.rs:145).            *)
(***************************************************************************)
FromValueIsCanonical ==
  LET Is(verdict) == verdict.pos # Err /\ verdict.canonical
  IN  level # TextOnly => Is(Validate(Written(tree)))

\* The keys and strings of a tree in their order, without the empty ones.
RECURSIVE Words(_)
Words(t) ==
  LET word(kind, v) == IF v = << >> THEN << >> ELSE <<<<kind, v>>>>
  IN  CASE IsStr(t)    -> word("str", t[2])
        [] IsArray(t)  -> FlattenSeq([i \in DOMAIN t[2] |-> Words(t[2][i])])
        [] IsObject(t) -> FlattenSeq([i \in DOMAIN t[2] |->
                                        word("key", t[2][i][1]) \o Words(t[2][i][2])])

\* A tree that is no object of groups is exported behind the name of its group.
Named(t) == ~IsFile(t) /\ ~(IsObject(t) /\ AllGroupable(t))

\* A tree where a keyed record would hold a level.
RECURSIVE KeyedLevel(_)
KeyedLevel(t) ==
  LET within(trees) == \E i \in DOMAIN trees : KeyedLevel(trees[i])
      values(object) == [i \in DOMAIN object[2] |-> object[2][i][2]]
  IN  CASE IsStr(t)    -> FALSE
        [] IsObject(t) -> \E i \in DOMAIN t[2] : ~IsStr(t[2][i][2])
        [] IsArray(t)  -> \E item \in Range(t[2]) :
                            CASE Tabular(t[2]) -> within(values(item))
                              [] ~Tabular(t[2]) /\ IsArray(item) -> within(item[2])
                              [] OTHER -> KeyedLevel(item)

\* Its objects of groups, a file's or the body's, are no keyed records.
HasKeyedLevel(t) ==
  LET inner == IF IsFile(t) THEN t[2][1][2] ELSE t
  IN  IF IsObject(inner) /\ AllGroupable(inner)
      THEN \E i \in DOMAIN inner[2] : KeyedLevel(inner[2][i][2]) ELSE KeyedLevel(t)

(***************************************************************************)
(* What from_value writes, to_value reads, and no key or string is lost,   *)
(* moved or put behind another key, whatever rows, records and lists the   *)
(* tree became.  (The nesting of lists is not compared: it may change.)    *)
(***************************************************************************)
StringsComeBack ==
  level # TextOnly /\ ~HasKeyedLevel(tree) =>
    \A t \in {Back(tree)} :
      /\ t # NoTree
      /\ Words(t) = (IF Named(tree) THEN <<<<"key", Name>>>> ELSE << >>) \o Words(tree)

(***************************************************************************)
(* The same of every tree (json.rs:9-11, "a keyed record an object"):      *)
(* refuted by an object with a list in it.                                 *)
(***************************************************************************)
EveryTreeComesBack == level # TextOnly => Back(tree) # NoTree

(***************************************************************************)
(* "Export never guesses" (json.rs:9): a tree that was exported comes back *)
(* the same from its own import.                                           *)
(***************************************************************************)
ExportIsStable ==
  level # TextOnly => \A t \in {Back(tree)} : t # NoTree => Back(t) = t

=============================================================================
