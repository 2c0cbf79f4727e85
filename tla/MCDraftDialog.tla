---------------------------- MODULE MCDraftDialog ----------------------------
(***************************************************************************)
(* Small instances of DraftDialog for TLC: a text of two blocks, the first *)
(* of which has the default deadline and expires, and a text that is not   *)
(* taken.                                                                  *)
(***************************************************************************)
EXTENDS DraftDialog, TLC

Plain == [start |-> 1, line |-> "absent", deadline |-> 0]
Early == [start |-> 3, line |-> "given", deadline |-> 2]
Late == [start |-> 2, line |-> "given", deadline |-> 3]

SmallTexts == {<<Plain, Early>>, <<Late>>}

Symmetry == Permutations(Handlers) \union Permutations(Taps)
==============================================================================
