----------------------------- MODULE MCDispatch -----------------------------
(* TLC instances of Tpm2Dispatch: one command of the application, with two *)
(* handles that need authorization or with one.                            *)
EXTENDS Tpm2Dispatch, TLC

CONSTANTS authorized, mine, h1, h2, h3

TwoHandles == [cc \in {authorized} |-> 2]
OneHandle  == [cc \in {authorized} |-> 1]
MineOnly   == {<<mine>>}
MineSecond == {<<"Default", mine>>}

Symmetry == Permutations(Handles)
=============================================================================
