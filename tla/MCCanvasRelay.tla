--------------------------- MODULE MCCanvasRelay ---------------------------
(* Instances of CanvasRelay for TLC. *)
EXTENDS CanvasRelay

CONSTANTS gm, player, s1, s2

\* The GM with two tabs; the GM and a player with one tab each.
MCTwoTabs == (s1 :> gm) @@ (s2 :> gm)
MCTwoMembers == (s1 :> gm) @@ (s2 :> player)

\* The sockets are alike when both are the GM's.
MCSymmetry == Permutations(Sockets) \union Permutations(Scenes) \union Permutations(Slots)
              \union Permutations(Requests) \union Permutations(Commands)

=============================================================================
