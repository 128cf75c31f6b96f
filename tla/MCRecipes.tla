------------------------------ MODULE MCRecipes ------------------------------
(* Instance of Recipes. *)
EXTENDS Recipes, TLC

\* The first release is fine.  The second one is not: what a call may do with an index that is
\* fine, it may also do with one that has an unsupported recipe, but for the end of a list.
MCQualities == {<<"fine", "unsupported">>, <<"fine", "unparsable">>}

Interchangeable == Permutations(Caller)
=============================================================================
