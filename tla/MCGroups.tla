------------------------------- MODULE MCGroups -------------------------------
(* Groups for TLC. Accounts and tasks are interchangeable: nothing orders  *)
(* them or chooses among them.                                             *)
EXTENDS Groups, TLC

\* Two days: a plan of one day is over on the second, one of two days is not.
TwoDays == {0, 6}

\* A start that is early enough for two accounts and too late for three.
LateStart == {5}

Symmetry == Permutations(Account) \union Permutations(Task)

==============================================================================
