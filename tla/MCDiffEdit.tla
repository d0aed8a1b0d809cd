----------------------------- MODULE MCDiffEdit -----------------------------
(***************************************************************************)
(* DiffEdit over short files of two letters: up to two sections without     *)
(* replace-alls, or one section with a replace-all in each scope.          *)
(***************************************************************************)
EXTENDS DiffEdit

Words(n) == UNION {[1 .. k -> {"a", "b"}] : k \in 0 .. n}

Anchored(old, new) == [units |-> <<[old |-> <<"a">>, new |-> <<"a">>], [old |-> old, new |-> new]>>,
                       replaces |-> << >>]
Plain(old, new) == [units |-> <<[old |-> old, new |-> new]>>, replaces |-> << >>]

Sections == {Plain(old, new) : old \in Words(2), new \in Words(1)}
              \cup {Anchored(old, new) : old \in Words(1), new \in Words(2)}

SectionEdits ==
  {[leading |-> << >>, sections |-> s] : s \in UNION {[1 .. k -> Sections] : k \in 0 .. 2}}

Replaces == UNION {[1 .. k -> [old : Words(2) \ {<< >>}, new : Words(1)]] : k \in 0 .. 1}

ReplaceEdits ==
  {[leading |-> l,
    sections |-> <<[units |-> <<[old |-> old, new |-> <<"a">>]>>, replaces |-> r]>>] :
     l \in Replaces, r \in Replaces, old \in {<<"b">>, <<"b", "a">>}}
  \cup {[leading |-> l, sections |-> << >>] : l \in Replaces}

AllEdits == SectionEdits \cup ReplaceEdits

ShortFiles == Words(5)

=============================================================================
