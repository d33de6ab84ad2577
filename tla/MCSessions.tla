----------------------------- MODULE MCSessions ------------------------------
(* Small instances of Sessions: one client with a history long enough for    *)
(* write, logout and return, or two clients side by side.                    *)
EXTENDS Sessions, TLC

CONSTANTS alice, bob

MCOne == {alice}
MCTwo == {alice, bob}
MCSymmetry == Permutations(MCTwo)
==============================================================================
