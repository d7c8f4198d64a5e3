----------------------------- MODULE MCAuthFlow ------------------------------
(* Admins and their request slots; admins and devices are interchangeable. *)
EXTENDS AuthFlow, TLC

CONSTANTS ann, bob

Handlers == {ann, bob, Remover}
AnnsHandlers == {ann, Remover}

Symmetry == Permutations(Admin) \union Permutations(Device)

==============================================================================
