---------------------------- MODULE AbilityPlay ----------------------------
(***************************************************************************)
(* Abilities and items that spend a character's resources, and the undo of *)
(* such an application: character-play-routes.ts, ability-area-apply.ts,   *)
(* ability-area-state.ts, undo-application.ts, creation-consumption.ts,    *)
(* character-extras-routes.ts and campaign-clock.ts.                       *)
(*                                                                         *)
(* A roll reads its rows first and writes them back later, guarded by      *)
(* revisions (READ COMMITTED); an area application and an undo are         *)
(* serializable transactions whose snapshot is taken by the statement that *)
(* waits for the advisory lock, so they may see less than the lock seems   *)
(* to promise.  Either kind may find its rows changed and give up.         *)
(***************************************************************************)
EXTENDS Integers, FiniteSets

CONSTANTS
    Characters,
    Entries,            \* abilities on the character sheets
    Holder,             \* entry -> character
    Cost,               \* entry -> points of the pool an application costs
    Counted,            \* the entries with a counter of uses
    Area,               \* the entries applied to everybody in a radius
    Reach,              \* area entry -> the characters in its radius
    Crafted,            \* the entries of created items consumed on application
    Actions,            \* action ids made by the clients
    Requests,           \* requests the server works on at once
    Dice,               \* results of the shared die of an area
    MaxPool, MaxUses,
    MaxEdits,           \* bound: writes by rests, recharges and edits
    None

ASSUME PlayAssumption ==
    /\ Holder \in [Entries -> Characters]
    /\ Cost \in [Entries -> Nat]
    /\ Counted \subseteq Entries /\ Area \subseteq Entries /\ Crafted \subseteq Entries
    /\ Reach \in [Area -> SUBSET Characters]
    /\ Dice \subseteq Nat /\ {MaxPool, MaxUses, MaxEdits} \subseteq Nat
    /\ None \notin Actions /\ IsFiniteSet(Actions)

VARIABLES
    char,               \* character rows: the resources and the revision
    entry,              \* entry rows; a consumed item's entry is deleted, its
                        \* instance row stays with a revision of its own
    event,              \* game_events, unique per campaign and action id
    req,                \* requests under way, with the rows they have read
    \* for the properties only: the applications charged to an entry since its
    \* counter was last set, and what it was set to
    charged, base,
    edits               \* writes by others, up to MaxEdits

vars == <<char, entry, event, req, charged, base, edits>>

Row == [pool : 0..MaxPool, rev : Nat]
Sheet == [uses : 0..MaxUses, rev : Nat, live : BOOLEAN, item : Nat]
Kept == [row : Row, after : Nat]

\* What an event keeps for the undo: the rows as they were before it.
Receipt == [entry : [uses : 0..MaxUses, after : Nat] \cup {None},
            consumed : [uses : 0..MaxUses, rev : Nat, item : Nat] \cup {None},
            chars : [Characters -> Kept \cup {None}]]
Application == [type : {"entry.roll", "ability.area.applied"}, on : Entries,
                receipt : Receipt, effect : [Characters -> Int]]
Cancellation == [type : {"ability.area.cancelled"}, on : Entries]
Reversal == [type : {"entry.undo"}, on : Actions]

Request == [kind : {"roll", "area", "undo", "rest", "recharge"}, act : Actions \cup {None},
            on : Entries \cup Actions \cup Characters,
            seen : [char : [Characters -> Row \cup {None}],
                    entry : [Entries -> Sheet \cup {None}]]]

ASSUME NoneAssumption ==
    None \notin Row \cup Sheet \cup Kept \cup Application \cup Cancellation \cup Reversal \cup Request
                \cup [uses : 0..MaxUses, after : Nat]
                \cup [uses : 0..MaxUses, rev : Nat, item : Nat]

TypeOK ==
    /\ char \in [Characters -> Row]
    /\ entry \in [Entries -> Sheet]
    /\ event \in [Actions -> Application \cup Cancellation \cup Reversal \cup {None}]
    /\ req \in [Requests -> Request \cup {None}]
    /\ charged \in [Entries -> SUBSET Actions]
    /\ base \in [Entries -> 0..MaxUses]
    /\ edits \in Nat

Init ==
    /\ char = [c \in Characters |-> [pool |-> MaxPool, rev |-> 0]]
    /\ entry = [e \in Entries |-> [uses |-> MaxUses, rev |-> 0, live |-> TRUE, item |-> 0]]
    /\ event = [a \in Actions |-> None]
    /\ req = [r \in Requests |-> None]
    /\ charged = [e \in Entries |-> {}]
    /\ base = [e \in Entries |-> MaxUses]
    /\ edits = 0

-----------------------------------------------------------------------------
(* The journal of actions.                                                 *)

Recorded == {a \in Actions : event[a] # None}
Applied == {a \in Recorded : event[a].type \in {"entry.roll", "ability.area.applied"}}
Undoing(a) == {u \in Recorded : event[u].type = "entry.undo" /\ event[u].on = a}
Undone == {a \in Applied : Undoing(a) # {}}

\* The unique index on campaign and action id.
IdIsFree(a) == event[a] = None

Start(r, kind, a, target, cs, es) ==
    /\ req[r] = None
    /\ req' = [req EXCEPT ![r] =
           [kind |-> kind, act |-> a, on |-> target,
            seen |-> [char  |-> [c \in Characters |-> IF c \in cs THEN char[c] ELSE None],
                     entry |-> [e \in Entries |-> IF e \in es THEN entry[e] ELSE None]]]]
    /\ UNCHANGED <<char, entry, event, charged, base, edits>>

Doing(r, kind) == req[r] # None /\ req[r].kind = kind
Finish(r) == req' = [req EXCEPT ![r] = None]

\* A refusal, a conflict or a lost connection before the commit.
GiveUp(r) ==
    /\ req[r] # None
    /\ Finish(r)
    /\ UNCHANGED <<char, entry, event, charged, base, edits>>

-----------------------------------------------------------------------------
(* What an application writes.                                             *)

\* The row of the entry: a use is spent, and the entry of a consumed item is
\* deleted while its instance is set to quantity zero.
Spend(e, row, bumps) ==
    [uses |-> IF e \in Counted THEN row.uses - 1 ELSE row.uses,
     rev  |-> IF bumps THEN row.rev + 1 ELSE row.rev,
     live |-> e \notin Crafted,
     item |-> IF e \in Crafted THEN row.item + 1 ELSE row.item]

ReceiptOf(e, row, bumps, before, paid) ==
    [entry    |-> IF e \notin Crafted /\ bumps
                  THEN [uses |-> row.uses, after |-> row.rev + 1] ELSE None,
     consumed |-> IF e \in Crafted
                  THEN [uses |-> row.uses, rev |-> row.rev, item |-> row.item + 1] ELSE None,
     chars    |-> [c \in Characters |->
                      IF c \in paid THEN [row |-> before[c], after |-> before[c].rev + 1] ELSE None]]

Paid(receipt) == {c \in Characters : receipt.chars[c] # None}

Charge(e, a) ==
    charged' = IF e \in Counted THEN [charged EXCEPT ![e] = @ \cup {a}] ELSE charged

CanPay(e, rows, sheet) ==
    /\ sheet.live
    /\ e \in Counted => sheet.uses >= 1
    /\ rows[Holder[e]].pool >= Cost[e]

-----------------------------------------------------------------------------
(* A roll: looked up, read and checked first, written under revisions.     *)

BeginRoll(r, a, e) ==
    /\ IdIsFree(a)
    /\ e \notin Area
    /\ CanPay(e, char, entry[e])
    /\ Start(r, "roll", a, e, {Holder[e]}, {e})

RollWrites(e) == e \in Counted \/ Cost[e] > 0

\* Mutant: the entry is compared by its presence, not by its revision.
RollFitsAnyRevision(e, seen) ==
    /\ Cost[e] > 0 => char[Holder[e]].rev = seen.char[Holder[e]].rev
    /\ RollWrites(e) \/ e \in Crafted => entry[e].live

\* Mutant: only an entry whose row is rewritten is compared again.
RollFitsIfRewritten(e, seen) ==
    /\ Cost[e] > 0 => char[Holder[e]].rev = seen.char[Holder[e]].rev
    /\ RollWrites(e) => entry[e].live /\ entry[e].rev = seen.entry[e].rev

\* The compare-and-set of both rows, and the bound entry compared under its
\* lock; the instance of a created item is read under its own.
RollFits(e, seen) ==
    /\ Cost[e] > 0 => char[Holder[e]].rev = seen.char[Holder[e]].rev
    /\ RollWrites(e) \/ e \in Crafted =>
           entry[e].live /\ entry[e].rev = seen.entry[e].rev

CommitRoll(r) ==
    LET q == req[r]  e == q.on  c == Holder[e]
        old == [q.seen.entry[e] EXCEPT !.item = entry[e].item]
        own == q.seen.char[c]  paid == IF Cost[e] > 0 THEN {c} ELSE {} IN
    /\ Doing(r, "roll")
    /\ RollFits(e, q.seen)
    /\ IdIsFree(q.act)
    /\ char' = IF paid = {} THEN char
               ELSE [char EXCEPT ![c] = [own EXCEPT !.pool = @ - Cost[e], !.rev = @ + 1]]
    /\ entry' = IF RollWrites(e) \/ e \in Crafted
                THEN [entry EXCEPT ![e] = Spend(e, old, RollWrites(e))] ELSE entry
    /\ event' = [event EXCEPT ![q.act] =
           [type |-> "entry.roll", on |-> e, receipt |-> ReceiptOf(e, old, RollWrites(e), q.seen.char, paid),
            effect |-> [d \in Characters |-> IF d \in paid THEN 0 - Cost[e] ELSE 0]]]
    /\ Charge(e, q.act)
    /\ Finish(r)
    /\ UNCHANGED <<base, edits>>

-----------------------------------------------------------------------------
(* An area application: one serializable transaction.                      *)

BeginArea(r, a, e) ==
    /\ IdIsFree(a)
    /\ e \in Area
    /\ Start(r, "area", a, e, Characters, {e})

Least(a, b) == IF a <= b THEN a ELSE b

\* The caster pays first; then everybody in reach regains up to the maximum.
PoolAfter(e, die, c) ==
    LET paid == char[c].pool - (IF c = Holder[e] THEN Cost[e] ELSE 0) IN
    IF c \in Reach[e] THEN paid + Least(die, MaxPool - paid) ELSE paid

Touched(e) == Reach[e] \cup (IF Cost[e] > 0 THEN {Holder[e]} ELSE {})

AreaRows(e, die) ==
    [c \in Characters |-> IF c \in Touched(e)
                          THEN [char[c] EXCEPT !.pool = PoolAfter(e, die, c), !.rev = @ + 1] ELSE char[c]]

AreaEffect(e, die) == [c \in Characters |-> PoolAfter(e, die, c) - char[c].pool]

\* All character rows are locked, so one that was written since the snapshot
\* aborts the transaction, as does the entry row.
CommitArea(r) ==
    LET q == req[r]  e == q.on  old == entry[e] IN
    /\ Doing(r, "area")
    /\ \A c \in Characters : char[c].rev = q.seen.char[c].rev
    /\ old = q.seen.entry[e]
    /\ CanPay(e, char, old)
    /\ Reach[e] # {}
    /\ IdIsFree(q.act)
    /\ \E die \in Dice :
        /\ char' = AreaRows(e, die)
        /\ event' = [event EXCEPT ![q.act] =
               [type |-> "ability.area.applied", on |-> e,
                receipt |-> ReceiptOf(e, old, TRUE, char, Touched(e)), effect |-> AreaEffect(e, die)]]
    /\ entry' = [entry EXCEPT ![e] = Spend(e, old, TRUE)]
    /\ Charge(e, q.act)
    /\ Finish(r)
    /\ UNCHANGED <<base, edits>>

\* A player who does not know whether an area was applied gives its action up:
\* READ COMMITTED, so what it reads under the lock is current.
CancelArea(a, e) ==
    /\ e \in Area
    /\ IdIsFree(a)
    /\ event' = [event EXCEPT ![a] = [type |-> "ability.area.cancelled", on |-> e]]
    /\ UNCHANGED <<char, entry, req, charged, base, edits>>

-----------------------------------------------------------------------------
(* The undo of an application: one serializable transaction.               *)

BeginUndo(r, u, a) ==
    /\ IdIsFree(u)
    /\ a \in Applied \ Undone
    /\ Start(r, "undo", u, a, Paid(event[a].receipt), {event[a].on})

Restored(e, row, receipt) ==
    IF receipt.consumed # None
    THEN [uses |-> receipt.consumed.uses, rev |-> receipt.consumed.rev + 2,
          live |-> TRUE, item |-> row.item + 1]
    ELSE [row EXCEPT !.uses = receipt.entry.uses, !.rev = receipt.entry.after + 1]

\* Mutant: the characters are restored at whatever revision they are.
UndoFitsEntryOnly(receipt, e, seen) ==
    /\ receipt.entry # None => entry[e].live /\ entry[e].rev = receipt.entry.after
    /\ receipt.consumed # None => ~entry[e].live /\ entry[e].item = receipt.consumed.item

\* Rows named by the receipt are locked: unchanged since the snapshot and at
\* the revision the application left them in.
UndoFits(receipt, e, seen) ==
    /\ \A c \in Paid(receipt) :
           char[c].rev = seen.char[c].rev /\ char[c].rev = receipt.chars[c].after
    /\ receipt.entry # None =>
           /\ entry[e] = seen.entry[e] /\ entry[e].live
           /\ entry[e].rev = receipt.entry.after
    /\ receipt.consumed # None =>
           /\ entry[e] = seen.entry[e] /\ ~entry[e].live
           /\ entry[e].item = receipt.consumed.item

CommitUndo(r) ==
    LET q == req[r]  a == q.on  e == event[a].on  receipt == event[a].receipt IN
    /\ Doing(r, "undo")
    /\ a \notin Undone                  \* the message was not written since the snapshot
    /\ UndoFits(receipt, e, q.seen)
    /\ IdIsFree(q.act)
    /\ char' = [c \in Characters |->
           IF c \in Paid(receipt)
           THEN [receipt.chars[c].row EXCEPT !.rev = receipt.chars[c].after + 1] ELSE char[c]]
    /\ entry' = IF receipt.entry # None \/ receipt.consumed # None
                THEN [entry EXCEPT ![e] = Restored(e, @, receipt)] ELSE entry
    /\ event' = [event EXCEPT ![q.act] = [type |-> "entry.undo", on |-> a]]
    /\ charged' = [charged EXCEPT ![e] = @ \ {a}]
    /\ Finish(r)
    /\ UNCHANGED <<base, edits>>

-----------------------------------------------------------------------------
(* Everything else that writes the same rows.                              *)

Edit == edits < MaxEdits /\ edits' = edits + 1

Recharged(es) ==
    /\ entry' = [e \in Entries |-> IF e \in es THEN [entry[e] EXCEPT !.uses = MaxUses, !.rev = @ + 1] ELSE entry[e]]
    /\ charged' = [e \in Entries |-> IF e \in es THEN {} ELSE charged[e]]
    /\ base' = [e \in Entries |-> IF e \in es THEN MaxUses ELSE base[e]]

Due(c) == {e \in Counted : entry[e].live /\ Holder[e] = c}

\* A rest from the character sheet: a stale row under compare-and-set, and the
\* counters of the character's entries, read and set in the same transaction.
BeginRest(r, c) == Start(r, "rest", None, c, {c}, {})

CommitRest(r) ==
    LET q == req[r]  c == q.on  own == q.seen.char[c] IN
    /\ Doing(r, "rest")
    /\ char[c].rev = own.rev
    /\ own.pool < MaxPool \/ Due(c) # {}
    /\ char' = [char EXCEPT ![c] = [own EXCEPT !.pool = Least(MaxPool, @ + 1), !.rev = @ + 1]]
    /\ Recharged(Due(c))
    /\ Edit
    /\ Finish(r)
    /\ UNCHANGED event

\* The GM ends the day: every entry that is due, every character that gains.
LongRest ==
    LET gains == {c \in Characters : char[c].pool < MaxPool} IN
    /\ char' = [c \in Characters |->
           IF c \in gains THEN [char[c] EXCEPT !.pool = @ + 1, !.rev = @ + 1] ELSE char[c]]
    /\ Recharged(UNION {Due(c) : c \in Characters})
    /\ Edit
    /\ UNCHANGED <<event, req>>

\* One entry recharged by hand.
BeginRecharge(r, e) == e \in Counted /\ entry[e].live /\ Start(r, "recharge", None, e, {}, {e})

CommitRecharge(r) ==
    LET e == req[r].on
        old == [req[r].seen.entry[e] EXCEPT !.item = entry[e].item] IN
    /\ Doing(r, "recharge")
    /\ entry[e].live /\ entry[e].rev = old.rev
    /\ entry' = [entry EXCEPT ![e] = [old EXCEPT !.uses = MaxUses, !.rev = @ + 1]]
    /\ charged' = [charged EXCEPT ![e] = {}]
    /\ base' = [base EXCEPT ![e] = MaxUses]
    /\ Edit
    /\ Finish(r)
    /\ UNCHANGED <<char, event>>

\* The entry is edited or deleted, which a created item's entry can not be.
EditEntry(e, n) ==
    /\ e \notin Crafted /\ entry[e].live
    /\ entry' = [entry EXCEPT ![e].uses = n, ![e].rev = @ + 1]
    /\ charged' = [charged EXCEPT ![e] = {}]
    /\ base' = [base EXCEPT ![e] = n]
    /\ Edit
    /\ UNCHANGED <<char, event, req>>

DeleteEntry(e) ==
    /\ e \notin Crafted /\ entry[e].live
    /\ entry' = [entry EXCEPT ![e].live = FALSE]
    /\ charged' = [charged EXCEPT ![e] = {}]
    /\ base' = [base EXCEPT ![e] = entry[e].uses]
    /\ Edit
    /\ UNCHANGED <<char, event, req>>

\* The GM may edit the note or the condition of a bound instance, consumed or not.
EditItem(e) ==
    /\ e \in Crafted
    /\ entry' = [entry EXCEPT ![e].item = @ + 1]
    /\ Edit
    /\ UNCHANGED <<char, event, req, charged, base>>

\* Counters set by hand, the inspiration granted or spent on a reroll: each
\* writes another value of the same resources.
SetCounters(c, n) ==
    /\ char[c].pool # n
    /\ char' = [char EXCEPT ![c].pool = n, ![c].rev = @ + 1]
    /\ Edit
    /\ UNCHANGED <<entry, event, req, charged, base>>

Next ==
    \/ \E r \in Requests, a \in Actions, e \in Entries :
           BeginRoll(r, a, e) \/ BeginArea(r, a, e)
    \/ \E r \in Requests, u, a \in Actions : BeginUndo(r, u, a)
    \/ \E r \in Requests, c \in Characters : BeginRest(r, c)
    \/ \E r \in Requests, e \in Entries : BeginRecharge(r, e)
    \/ \E r \in Requests :
           CommitRoll(r) \/ CommitArea(r) \/ CommitUndo(r) \/ CommitRest(r) \/ CommitRecharge(r) \/ GiveUp(r)
    \/ \E a \in Actions, e \in Entries : CancelArea(a, e)
    \/ \E e \in Entries : DeleteEntry(e) \/ EditItem(e) \/ \E n \in 0..MaxUses : EditEntry(e, n)
    \/ \E c \in Characters, n \in 0..MaxPool : SetCounters(c, n)
    \/ LongRest

Spec == Init /\ [][Next]_vars

-----------------------------------------------------------------------------
(* Properties.                                                             *)

\* A counter of uses shows what it was last set to less the applications that
\* were charged to it since and are not undone: neither a stale roll, nor an
\* undo after a recharge, nor a retry makes it drift.
UsesAreAccounted ==
    \A e \in Counted : entry[e].live \/ e \in Crafted =>
        entry[e].uses = base[e] - Cardinality(charged[e])

\* An item that is consumed on application is gone exactly while one
\* application of it stands: it is not consumed twice, an undo gives it back,
\* and no two undos give it back twice.
ItemIsSpentOnce ==
    \A e \in Crafted :
        LET standing == {a \in Applied \ Undone : event[a].on = e} IN
        /\ Cardinality(standing) <= 1
        /\ entry[e].live <=> standing = {}

\* What an action id has come to.
Fate(a) ==
    IF event[a] = None THEN "open"
    ELSE IF event[a].type = "entry.undo" THEN "undo"
    ELSE IF event[a].type = "ability.area.cancelled" THEN "cancelled"
    ELSE IF a \in Undone THEN "undone" ELSE "applied"

Ledger == INSTANCE PlayLedger WITH
    pool   <- [c \in Characters |-> char[c].pool],
    uses   <- [e \in Entries |-> entry[e].uses],
    fate   <- [a \in Actions |-> Fate(a)],
    effect <- [a \in Actions |-> IF a \in Applied THEN event[a].effect ELSE [c \in Characters |-> 0]]

\* Rolls, areas, cancellations and undos are the entries of a ledger that is
\* written atomically: each action id comes to one thing, an application takes
\* its price from the rows as they are when it commits, and an undo takes back
\* exactly that, whatever was read when and whatever else was written between.
KeepsLedger == Ledger!Spec

-----------------------------------------------------------------------------
(* The strengthening the proofs rest on.                                   *)

Standing(e) == {a \in Applied \ Undone : event[a].on = e}
Price(e) == IF e \in Counted THEN 1 ELSE 0

\* As long as a row is at the revision an application left it in, it is what
\* the application made of the row in the receipt.
ReceiptAgrees(a) ==
    LET x == event[a].receipt  e == event[a].on IN
    /\ \A c \in Characters \ Paid(x) : event[a].effect[c] = 0
    /\ \A c \in Paid(x) :
           /\ x.chars[c].after <= char[c].rev
           /\ x.chars[c].after = char[c].rev => char[c].pool = x.chars[c].row.pool + event[a].effect[c]
    /\ x.consumed # None <=> e \in Crafted
    /\ x.entry = None /\ e \notin Crafted => e \notin Counted
    /\ x.entry # None =>
           /\ e \notin Crafted /\ x.entry.after <= entry[e].rev
           /\ x.entry.after = entry[e].rev /\ entry[e].live =>
                  entry[e].uses = x.entry.uses - Price(e) /\ (e \in Counted => a \in charged[e])
    /\ e \in Crafted /\ a \notin Undone =>
           /\ ~entry[e].live
           /\ entry[e].rev <= x.consumed.rev + 1
           /\ entry[e].uses = x.consumed.uses - Price(e)
           /\ e \in Counted => a \in charged[e]

\* As long as a row is at the revision a request has read, and is there, it is
\* the row the request has read.
SeenAgrees(r) ==
    LET q == req[r] IN
    /\ \A c \in Characters : q.seen.char[c] # None =>
           /\ q.seen.char[c].rev <= char[c].rev
           /\ q.seen.char[c].rev = char[c].rev => q.seen.char[c] = char[c]
    /\ \A e \in Entries : q.seen.entry[e] # None =>
           /\ q.seen.entry[e].rev <= entry[e].rev
           /\ q.seen.entry[e].rev = entry[e].rev /\ entry[e].live =>
                  q.seen.entry[e].live /\ q.seen.entry[e].uses = entry[e].uses
    /\ q.kind = "roll" =>
           /\ q.act \in Actions /\ q.on \in Entries
           /\ q.seen.char[Holder[q.on]] # None /\ q.seen.entry[q.on] # None
           /\ CanPay(q.on, q.seen.char, q.seen.entry[q.on])
    /\ q.kind = "area" => q.act \in Actions /\ q.on \in Area
    /\ q.kind = "undo" => q.act \in Actions /\ q.on \in Applied
    /\ q.kind = "rest" => q.on \in Characters /\ q.seen.char[q.on] # None
    /\ q.kind = "recharge" => q.on \in Counted /\ q.seen.entry[q.on] # None

IInv ==
    /\ TypeOK
    /\ \A u \in Recorded : event[u].type = "entry.undo" => event[u].on \in Applied
    /\ \A a \in Applied : ReceiptAgrees(a)
    /\ \A r \in Requests : req[r] # None => SeenAgrees(r)
    /\ \A e \in Crafted :
           /\ entry[e].live <=> Standing(e) = {}
           /\ \A a, b \in Standing(e) : a = b
    /\ \A e \in Entries : charged[e] \subseteq Recorded
    /\ UsesAreAccounted
=============================================================================
