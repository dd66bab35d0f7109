---------------------------- MODULE MCAcademies ----------------------------
(* Small instances of Academies. *)
EXTENDS Academies, TLC

CONSTANTS v1, s1

Body(data, wanted) == [data |-> data, sports |-> wanted]
Symmetry == Permutations(Requests) \union Permutations(Users)

\* A POST or PUT of everything, POSTs that leave out what they may, PATCHes of one
\* column, of the sports and of nothing, and bodies that are refused.
MCBodies ==
    {Body([name |-> v1, city |-> Blank], {s1}), Body([name |-> Blank, city |-> v1], {}),
     Body([name |-> v1], Unset), Body([city |-> v1], Unset),
     Body([city |-> Invalid], {s1}), Body(<<>>, {s1}), Body(<<>>, Unset)}

\* For the lists the columns do not matter.
OneBody == {Body([name |-> v1], {s1})}
=============================================================================
