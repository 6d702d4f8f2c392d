----------------------------- MODULE PlayLedger -----------------------------
(***************************************************************************)
(* What the players are promised about their abilities: one atomic ledger  *)
(* of applications and of their undos, as the comments of                  *)
(* ability-area-apply.ts and undo-application.ts put it.  AbilityPlay      *)
(* implements it with rows that are read early and written late.           *)
(***************************************************************************)
EXTENDS Integers

CONSTANTS Characters, Entries, Counted, Actions

VARIABLES
    pool,               \* the resources of the characters
    uses,               \* the counters of the entries
    fate,               \* "open", "applied", "undone", "cancelled" or "undo"
    effect              \* what an application changed of each pool

ledger == <<pool, uses, fate, effect>>

Init ==
    /\ pool \in [Characters -> Nat]
    /\ uses \in [Entries -> Nat]
    /\ fate = [a \in Actions |-> "open"]
    /\ effect = [a \in Actions |-> [c \in Characters |-> 0]]

\* One use less and the price and the gains of the application, all at once.
Apply(a, e) ==
    /\ fate[a] = "open"
    /\ e \in Counted => uses[e] > 0
    /\ fate' = [fate EXCEPT ![a] = "applied"]
    /\ effect' = [effect EXCEPT ![a] = effect'[a]]
    /\ pool' = [c \in Characters |-> pool[c] + effect'[a][c]]
    /\ \A c \in Characters : pool'[c] >= 0
    /\ uses' = IF e \in Counted THEN [uses EXCEPT ![e] = @ - 1] ELSE uses

\* The undo takes back what the application did, once.
Undo(u, a, e) ==
    /\ fate[a] = "applied" /\ fate[u] = "open"
    /\ fate' = [fate EXCEPT ![a] = "undone", ![u] = "undo"]
    /\ pool' = [c \in Characters |-> pool[c] - effect[a][c]]
    /\ uses' = IF e \in Counted THEN [uses EXCEPT ![e] = @ + 1] ELSE uses
    /\ UNCHANGED effect

Cancel(a) ==
    /\ fate[a] = "open"
    /\ fate' = [fate EXCEPT ![a] = "cancelled"]
    /\ UNCHANGED <<pool, uses, effect>>

\* Rests, recharges and counters set by hand.
Tune == UNCHANGED <<fate, effect>>

Next ==
    \/ \E a \in Actions : Cancel(a) \/ \E e \in Entries : Apply(a, e)
    \/ \E u, a \in Actions, e \in Entries : Undo(u, a, e)
    \/ Tune

Spec == Init /\ [][Next]_ledger
=============================================================================
