------------------------------- MODULE JsonForm -------------------------------
(***************************************************************************)
(* Value trees to and from C0DATA (src/src/json.rs).  A tree is            *)
(* <<"str", value>>, <<"array", trees>> or <<"object", pairs of a key and  *)
(* a tree>>.                                                               *)
(***************************************************************************)
EXTENDS DocumentReader, Builder

IsStr(tree)    == tree[1] = "str"
IsArray(tree)  == tree[1] = "array"
IsObject(tree) == tree[1] = "object"
EmptyStr       == <<"str", << >>>>

KeysOf(object) == [i \in DOMAIN object[2] |-> object[2][i][1]]

-----------------------------------------------------------------------------
(* from_value *)

\* Wrong: an object is no group.
AllGroupable_arrays(tree) ==
  tree[2] # << >> /\ \A i \in DOMAIN tree[2] : IsArray(tree[2][i][2])

AllGroupable(tree) ==
  tree[2] # << >> /\ \A i \in DOMAIN tree[2] : ~IsStr(tree[2][i][2])

\* Wrong: the keys may stand in another order.
Tabular_anyOrder(trees) ==
  /\ trees # << >>
  /\ \A i \in DOMAIN trees :
       IsObject(trees[i]) /\ Range(KeysOf(trees[i])) = Range(KeysOf(trees[1]))

\* An array of objects with the same keys in the same order.
Tabular(trees) ==
  /\ trees # << >>
  /\ \A i \in DOMAIN trees : IsObject(trees[i]) /\ KeysOf(trees[i]) = KeysOf(trees[1])

\* lookup: the first value of a key.
Lookup(object, key) ==
  LET at == SelectInSeq(object[2], LAMBDA pair : pair[1] = key)
  IN  IF at = 0 THEN EmptyStr ELSE object[2][at][2]

\* A unit or a key of a tree that is no string holds a level.
RECURSIVE EmitLevel(_, _)

EmitUnit(b, tree) ==
  IF IsStr(tree) THEN Field(b, tree[2]) ELSE Can(EmitLevel(OpenLevel(b), tree))

EmitEntry(b, pair) ==
  IF IsStr(pair[2]) THEN Key(b, pair[1], pair[2][2])
  ELSE Can(EmitLevel(OpenKeyLevel(b, pair[1]), pair[2]))

EmitMap(b, object) ==
  FoldLeft(LAMBDA c, pair : EmitEntry(c, pair), Rs(b), object[2])

EmitUnits(b, trees) ==
  FoldLeft(LAMBDA c, tree : EmitUnit(c, tree), Rs(b), trees)

\* Records of one table behind its header row.
EmitRows(b, trees) ==
  LET keys == KeysOf(trees[1])
  IN  FoldLeft(LAMBDA c, row : EmitUnits(c, [i \in DOMAIN keys |-> Lookup(row, keys[i])]),
               b, trees)

EmitItem(b, tree) ==
  CASE IsStr(tree)    -> PositionalRecord(b, <<tree[2]>>)
    [] IsArray(tree)  -> EmitUnits(b, tree[2])
    [] IsObject(tree) -> EmitMap(b, tree)

EmitItems(b, trees) == FoldLeft(LAMBDA c, tree : EmitItem(c, tree), b, trees)

\* emit_level_body
EmitLevel(b, tree) ==
  CASE ~IsArray(tree) -> EmitItem(b, tree)
    [] IsArray(tree) ->
         IF \A i \in DOMAIN tree[2] : IsStr(tree[2][i]) THEN EmitUnits(b, tree[2])
         ELSE IF Tabular(tree[2]) THEN EmitRows(Header(b, KeysOf(tree[2][1])), tree[2])
         ELSE EmitItems(b, tree[2])

\* emit_array_as_group
EmitArray(b, trees, name) ==
  IF Tabular(trees) THEN EmitRows(GroupAt(b, name, <<KeysOf(trees[1])>>, 1), trees)
  ELSE EmitItems(GroupAt(b, name, << >>, 1), trees)

EmitGroup(b, name, tree) ==
  IF IsArray(tree) THEN EmitArray(b, tree[2], name)
  ELSE EmitItem(GroupAt(b, name, << >>, 1), tree)

EmitGroups(b, object) == FoldLeft(LAMBDA c, pair : EmitGroup(c, pair[1], pair[2]), b, object[2])

\* An object whose one value is an object of groups becomes a file.
IsFile(tree) ==
  /\ IsObject(tree) /\ Len(tree[2]) = 1
  /\ IsObject(tree[2][1][2]) /\ AllGroupable(tree[2][1][2])

FromValue(tree, name) ==
  (CASE IsFile(tree) -> EmitGroups(Fs(NewBuilder, tree[2][1][1]), tree[2][1][2])
     [] ~IsFile(tree) /\ IsObject(tree) /\ AllGroupable(tree) -> EmitGroups(NewBuilder, tree)
     [] OTHER -> EmitGroup(NewBuilder, name, tree)).buf

-----------------------------------------------------------------------------
(* to_value *)

NoTree == <<"error">>

Collect(trees) == IF NoTree \in Range(trees) THEN NoTree ELSE <<"array", trees>>

CollectPairs(pairs) ==
  IF \E i \in DOMAIN pairs : pairs[i][2] = NoTree THEN NoTree ELSE <<"object", pairs>>

(***************************************************************************)
(* A keyed record: the last value of a key at the place of its first.  The *)
(* keys are read by pairs(), which has no value for a level or a reference. *)
(***************************************************************************)
ExportPairs(pairs) ==
  LET n == Len(pairs)
      same(i) == {j \in 1 .. n : pairs[j][1] = pairs[i][1]}
      firsts == SelectSeq([i \in 1 .. n |-> i], LAMBDA i : i = Min(same(i)))
  IN  IF \E i \in 1 .. n : pairs[i][2][1] # "value" THEN NoTree
      ELSE <<"object", [k \in DOMAIN firsts |->
              <<pairs[firsts[k]][1], <<"str", pairs[Max(same(firsts[k]))][2][2]>>>>]>>

\* A record of a table: the header's names and a value for each.
ExportRow(names, trees) ==
  CollectPairs([i \in DOMAIN names |->
                  <<names[i], IF i <= Len(trees) THEN trees[i] ELSE EmptyStr>>])

RefKey == <<36, 114, 101, 102>>

ExportRef(path) ==
  <<"object", <<<<RefKey, <<"str", FlattenSeq([i \in DOMAIN path |->
                             IF i = 1 THEN path[i] ELSE <<47>> \o path[i]])>>>>>>>>

\* A group without a header row.
ExportRecords(trees, alone) == IF Len(trees) = 1 /\ alone THEN trees[1] ELSE Collect(trees)

RECURSIVE ExportBody(_, _)
ExportBody(body, level) ==
  LET raw(u) ==
        CASE u[1] = "level" -> ExportBody(u[2], TRUE)
          [] u[1] = "ref"   -> ExportRef(u[2])
          [] u[1] = "value" -> <<"str", u[2]>>
          [] OTHER          -> NoTree
      units(r) == [i \in DOMAIN r[2] |-> raw(r[2][i])]
      record(r, names) ==
        CASE r[1] = "keyed" -> ExportPairs(r[2])
          [] r[1] = "positional" ->
               IF names = << >> THEN Collect(units(r)) ELSE ExportRow(names[1], units(r))
          [] OTHER -> NoTree
      records(g) == [i \in DOMAIN g.records |-> record(g.records[i], g.header)]
      group(g, alone) ==
        IF g.header # << >> THEN Collect(records(g))
        ELSE ExportRecords(records(g), alone \/ \E r \in Range(g.records) : r[1] = "keyed")
      groups(gs) ==
        CASE gs = << >> -> <<"array", << >>>>
          [] Len(gs) = 1 /\ gs[1].name = << >> /\ gs[1].depth = 0 -> group(gs[1], level)
          [] OTHER -> CollectPairs([i \in DOMAIN gs |-> <<gs[i].name, group(gs[i], FALSE)>>])
      files == body[2]
  IN  IF body = Unreadable THEN NoTree
      ELSE IF Len(files) = 1 /\ files[1].name = << >> THEN groups(files[1].groups)
      ELSE CollectPairs([i \in DOMAIN files |-> <<files[i].name, groups(files[i].groups)>>])

ToValue(buf) ==
  LET Of(doc) == IF doc = NoDocument THEN NoTree ELSE ExportBody(doc.body, FALSE)
  IN  Of(Document(buf, 0))

=============================================================================
