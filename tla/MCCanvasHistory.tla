-------------------------- MODULE MCCanvasHistory --------------------------
(***************************************************************************)
(* Small instances of CanvasHistory: one token and one drawing that one    *)
(* player may edit, the GM, two handlers at a time.                        *)
(***************************************************************************)
EXTENDS CanvasHistory

CONSTANTS t1, d1, p1, i1, c1, f1

\* The player controls the token; in the run about drawings, has drawn d1 too.
MCOwn == [p \in Players |-> {t1}]
MCOwnDrawing == [p \in Players |-> {t1, d1}]
\* One definition, and a stamp that shows the image tokens may have.
MCDefinitionOf == [t \in Tokens |-> f1]
MCWorn == [t \in Placed |-> [image |-> i1, character |-> c1]]
MCPicture == [d \in Drawings |-> i1]
Symmetry == Permutations(Requests) \union Permutations(Actions)
              \union Permutations(Grids) \union Permutations(Values)

=============================================================================
