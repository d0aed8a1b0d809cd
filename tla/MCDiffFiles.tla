----------------------------- MODULE MCDiffFiles -----------------------------
(***************************************************************************)
(* DiffFiles with small diffs, a name that is not there, and an alias.     *)
(***************************************************************************)
EXTENDS DiffFiles

MCFiles == {"a", "b", "c"}
MCNames == {"a", "b", "c", "./a", "../x"}

MCResolve ==
  [n \in MCNames |-> CASE n = "./a" -> "a" [] n = "../x" -> NotThere [] OTHER -> n]

\* Three calls that share files two by two, in opposite order.
MCDiffs == [c \in Calls |->
  CASE c = 1 -> <<"a", "b">>
    [] c = 2 -> <<"b", "a">>
    [] c = 3 -> <<"c", "../x">>]

\* Two names of one file; two files.
ClaimDiffs == [c \in Calls |-> IF c = 1 THEN <<"a", "./a">> ELSE <<"b", "c">>]

=============================================================================
