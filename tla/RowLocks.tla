------------------------------ MODULE RowLocks ------------------------------
(***************************************************************************)
(* The rows that a command on a character sheet locks, and in which order. *)
(* A handler is one transaction; the rows it locks are known once it has   *)
(* chosen its path, so a transaction is the sequence of locks it still     *)
(* needs and the set of those it holds until it ends.  PostgreSQL grants   *)
(* a lock by its table of conflicting modes and aborts a transaction it    *)
(* finds waiting for itself (40P01).  A row with a foreign key locks the   *)
(* row it refers to KEY SHARE: every message and event does so with the    *)
(* campaign.  Rows that only one of these handlers locks, or that are      *)
(* reached under an exclusive lock only (memberships, scenes, quotes), are *)
(* left out.                                                               *)
(***************************************************************************)
EXTENDS Sequences, SequencesExt, Relation

CONSTANTS
    Transactions,
    Campaign,        \* the row of the campaign
    Graph,           \* the advisory lock of its inventory graph
    Characters, Entries,
    OwnerOf,         \* the character of an entry, in [Entries -> Characters]
    ById             \* the characters in the order of their ids, in SetToSeqs(Characters)

VARIABLES
    handler,  \* what each transaction runs
    next,     \* the locks it still needs, in order
    held      \* the locks it holds

vars == <<handler, next, held>>

(* The modes of a row lock and those each of them excludes.                 *)
Conflicts ==
    [keyShare    |-> {"update"},
     share       |-> {"noKeyUpdate", "update"},
     noKeyUpdate |-> {"share", "noKeyUpdate", "update"},
     update      |-> {"keyShare", "share", "noKeyUpdate", "update"}]

Lock(m, r) == [row |-> r, mode |-> m]
Scan(m, rows) == [i \in DOMAIN rows |-> Lock(m, rows[i])]
Unordered(rows) == SetToAllKPermutations(rows)

(* The message and the event a command ends with.                           *)
Journal == <<Lock("keyShare", Campaign)>>

(* POST entry roll: the character, then the entry; an entry of a created    *)
(* object first takes the graph and the campaign.  POST dice: no entry.     *)
Roll(e) == <<Lock("update", OwnerOf[e]), Lock("update", e)>> \o Journal
Dice(c) == <<Lock("update", c)>> \o Journal
Creation == <<Lock("update", Graph), Lock("share", Campaign)>>

(* PATCH counters with a rest: the sheet, then those of its entries that    *)
(* are due.                                                                 *)
Rest(c, due) == <<Lock("noKeyUpdate", c)>> \o Scan("noKeyUpdate", due) \o Journal

(* POST campaign clock: the campaign, the entries that are due in the order *)
(* of an unsorted query, and after a long rest the tired characters.        *)
Clock(due, tired) ==
    <<Lock("noKeyUpdate", Campaign)>> \o Scan("noKeyUpdate", due \o tired) \o Journal

(* POST area: campaign first, all characters by id, the entry.              *)
Area(e) ==
    <<Lock("update", Campaign)>> \o Scan("update", ById) \o <<Lock("update", e)>> \o Journal

(* POST token of a character: the canvas guard, then the character.         *)
Place(c) == <<Lock("update", Campaign), Lock("update", c)>>

(* POST application-undo: the characters of the receipt by id, the caster,  *)
(* and the entry in a query that joins the caster.                          *)
Undo(e, paid) ==
    Scan("update", paid) \o
    <<Lock("share", OwnerOf[e]), Lock("update", e), Lock("update", OwnerOf[e])>> \o Journal

Paths == [
    roll  |-> {Roll(e) : e \in Entries} \cup {Creation \o Roll(e) : e \in Entries},
    dice  |-> {Dice(c) : c \in Characters},
    rest  |-> UNION {{Rest(c, due) : due \in Unordered({e \in Entries : OwnerOf[e] = c})}
                        : c \in Characters},
    clock |-> {Clock(due, tired) : due \in Unordered(Entries), tired \in Unordered(Characters)},
    area  |-> {Area(e) : e \in Entries} \cup {Creation \o Area(e) : e \in Entries},
    place |-> {Place(c) : c \in Characters},
    undo  |-> {Undo(e, SelectSeq(ById, LAMBDA c : c \in paid))
                        : e \in Entries, paid \in SUBSET Characters}]

-----------------------------------------------------------------------------
Running(t) == handler[t] \in DOMAIN Paths

(* The others whose locks exclude the next one of t.                        *)
Blockers(t) ==
    IF next[t] = <<>> THEN {}
    ELSE {u \in Transactions \ {t} :
            \E l \in held[u] : l.row = Head(next[t]).row
                            /\ l.mode \in Conflicts[Head(next[t]).mode]}

WaitsFor == [t, u \in Transactions |-> u \in Blockers(t)]
Deadlocked == {t \in Transactions : TransitiveClosure(WaitsFor, Transactions)[t, t]}

Init ==
    /\ handler = [t \in Transactions |-> "idle"]
    /\ next = [t \in Transactions |-> <<>>]
    /\ held = [t \in Transactions |-> {}]

Begin(t) ==
    /\ handler[t] = "idle"
    /\ \E h \in DOMAIN Paths : \E path \in Paths[h] :
        /\ handler' = [handler EXCEPT ![t] = h]
        /\ next' = [next EXCEPT ![t] = path]
    /\ UNCHANGED held

Acquire(t) ==
    /\ Running(t) /\ next[t] # <<>>
    /\ Blockers(t) = {}
    /\ held' = [held EXCEPT ![t] = @ \cup {Head(next[t])}]
    /\ next' = [next EXCEPT ![t] = Tail(@)]
    /\ UNCHANGED handler

End(t, how) ==
    /\ handler' = [handler EXCEPT ![t] = how]
    /\ next' = [next EXCEPT ![t] = <<>>]
    /\ held' = [held EXCEPT ![t] = {}]

Commit(t) == Running(t) /\ next[t] = <<>> /\ End(t, "committed")

(* A revision, an access or a resource that no longer fits: rollback.       *)
Refuse(t) == Running(t) /\ Blockers(t) = {} /\ End(t, "refused")

(* 40P01: the database breaks the circle.                                   *)
Abort(t) == t \in Deadlocked /\ End(t, "aborted")

Next == \E t \in Transactions : Begin(t) \/ Acquire(t) \/ Commit(t) \/ Refuse(t) \/ Abort(t)

Spec == Init /\ [][Next]_vars

-----------------------------------------------------------------------------
(* ability-area-apply.ts:92: locking all characters in the order of their   *)
(* ids is "compatible with single-character locking", so an area            *)
(* application never waits in a circle with a command on one character.     *)
AreaJoinsNoCircle == \A t \in Deadlocked : handler[t] # "area"
=============================================================================
