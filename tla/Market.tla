------------------------------- MODULE Market -------------------------------
(***************************************************************************)
(* The writers of wallets and of item stacks: shop quotes and purchases    *)
(* (economy-purchase.ts, economy-state.ts, economy-admin.ts), crafting     *)
(* (creation-operations.ts, creation-operation-state.ts, creation-state.ts,*)
(* creation-consumption.ts), the SP ledger (progression-routes.ts), the    *)
(* wallet command of a sheet (character-play-routes.ts) and the item rows  *)
(* (world-content-instances.ts).                                           *)
(*                                                                         *)
(* Purchases, crafting and SP writes hold row locks from their first read  *)
(* to the commit, so each is one step.  The wallet command and the edits   *)
(* of an item read the row outside their transaction and write it back if  *)
(* its revision has not moved: those are two steps.  An action id is looked *)
(* up at both; the second look decides.                                    *)
(***************************************************************************)
EXTENDS Integers, FiniteSets, FiniteSetsExt

CONSTANTS
    Characters,
    Items,              \* ids of item rows
    Actions,            \* action ids made by the clients
    Quotes,
    Upgrades,           \* progression requests
    Edits,              \* requests that have read a row and not yet written it
    Stock,              \* item -> its quantity at the start, None for a later row
    Owner,              \* item -> the inventory it is in at the start
    Listed,             \* the item on offer at the start
    Quantities, Prices, \* of an order and of the offer
    Coins,              \* what the wallet command sets
    StartCoins, StartSP, StartPrice,
    Fee,                \* coins the recipe costs, with one SP and one item
    None

ASSUME MarketAssumption ==
    /\ Stock \in [Items -> Nat \cup {None}] /\ Owner \in [Items -> Characters \cup {None}]
    /\ Listed \in Items /\ Stock[Listed] # None /\ Owner[Listed] = None
    /\ Coins \subseteq Nat /\ Prices \subseteq Nat /\ Quantities \subseteq Nat \ {0}
    /\ StartPrice \in Prices /\ {StartCoins, StartSP, Fee} \subseteq Nat
    /\ IsFiniteSet(Actions)

VARIABLES
    sheet,              \* character rows: wallet and revision
    item,               \* item rows: quantity, inventory and revision
    object,             \* created objects, by the item row bound to them
    offer,              \* the stack on offer and everything its price is made of
    quote, upgrade,
    event,              \* game_events: what an action id did to a wallet
    audit,              \* what an action id did to the item rows
    edit

vars == <<sheet, item, object, offer, quote, upgrade, event, audit, edit>>

Purse == [coins : Nat, sp : Nat, rev : Nat]
Stack == [qty : Nat, holder : Characters \cup {None}, rev : Nat]
Object == [maker : Characters, active : BOOLEAN]
Offer == [item : Items \cup {None}, price : Prices, rev : Nat]
Quote == [kind : {"BUY"}, char : Characters, item : Items, n : Quantities, total : Nat,
          seen : [sheet : Purse, n : Quantities, price : Prices, offer : Nat, stack : Nat \X Nat]]
    \cup [kind : {"CRAFT"}, char : Characters, item : Items, n : {1}, total : {Fee},
          seen : [sheet : Purse, stack : Nat \X Nat]]
Upgrade == [char : Characters, sp : Nat, proposed : Nat \cup {None},
            state : {"PENDING", "APPLIED", "REVERSED", "CLOSED"}, at : Nat]
Event == [type : {"economy.purchase", "economy.offer", "creation.operation",
                  "creation.action.cancelled", "entry.roll", "entry.undo",
                  "CHARACTER_PROGRESSION", "character.counters"},
          key : Quotes \cup Upgrades \cup Actions \cup (Items \X Nat) \cup {None},
          char : Characters \cup {None}, coins : Int, sp : Int]
Change == [item : Items, by : Int]
Edit == [op : {"WALLET"}, row : Characters, was : Purse, to : Nat]
    \cup [op : {"PATCH"}, row : Items, was : Stack, to : Nat \X (Characters \cup {None})]
    \cup [op : {"DELETE"}, row : Items, was : Stack, to : {None}]

ASSUME NoneAssumption ==
    /\ None \notin Int \cup Items \cup Characters
    /\ None \notin Stack /\ None \notin Object /\ None \notin Quote /\ None \notin Upgrade
    /\ None \notin Event /\ None \notin Edit

TypeOK ==
    /\ sheet \in [Characters -> Purse]
    /\ item \in [Items -> Stack \cup {None}]
    /\ object \in [Items -> Object \cup {None}]
    /\ offer \in Offer
    /\ offer.item # None => item[offer.item] # None
    /\ quote \in [Quotes -> Quote \cup {None}]
    /\ upgrade \in [Upgrades -> Upgrade \cup {None}]
    /\ event \in [Actions -> Event \cup {None}]
    /\ audit \in [Actions -> SUBSET Change]
    /\ edit \in [Edits -> Edit \cup {None}]

Init ==
    /\ sheet = [c \in Characters |-> [coins |-> StartCoins, sp |-> StartSP, rev |-> 0]]
    /\ item = [i \in Items |-> IF Stock[i] = None THEN None
                               ELSE [qty |-> Stock[i], holder |-> Owner[i], rev |-> 0]]
    /\ object = [i \in Items |-> None]
    /\ offer = [item |-> Listed, price |-> StartPrice, rev |-> 0]
    /\ quote = [q \in Quotes |-> None]
    /\ upgrade = [u \in Upgrades |-> None]
    /\ event = [a \in Actions |-> None]
    /\ audit = [a \in Actions |-> {}]
    /\ edit = [e \in Edits |-> None]

-----------------------------------------------------------------------------
\* An action id the shop, the workshop or the item commands may still take.
\* The wallet command and the SP ledger look at the events alone.
Unused(a) == event[a] = None /\ audit[a] = {}

Record(a, type, key, c, coins, sp) ==
    event' = [event EXCEPT ![a] =
        [type |-> type, key |-> key, char |-> c, coins |-> coins, sp |-> sp]]

Audit(a, changes) == audit' = [audit EXCEPT ![a] = changes]

\* The row's revision moves with every write of the wallet.
Pay(c, coins, sp) ==
    /\ sheet[c].coins + coins >= 0 /\ sheet[c].sp + sp >= 0
    /\ sheet' = [sheet EXCEPT ![c] =
           [coins |-> @.coins + coins, sp |-> @.sp + sp, rev |-> @.rev + 1]]

\* New rows have new ids.
Fresh == {i \in Items : item[i] = None /\ Stock[i] = None
                        /\ \A a \in Actions : \A d \in audit[a] : d.item # i}

Row(n, c, r) == [qty |-> n, holder |-> c, rev |-> r]

\* requireStock: the stack is nobody's and large enough.
Sellable(i, n) ==
    /\ i # None /\ item[i] # None
    /\ item[i].qty >= n /\ item[i].holder = None

\* A material: in the inventory of the maker, not on offer, not itself created.
Material(c, i) ==
    /\ item[i] # None /\ item[i].holder = c /\ item[i].qty >= 1
    /\ offer.item # i
    /\ object[i] = None

Used(q) == \E a \in Actions : event[a] # None /\ event[a].key = q
                              /\ event[a].type \in {"economy.purchase", "creation.operation"}

-----------------------------------------------------------------------------
(* The shop.                                                               *)

\* What the hash of a quote covers; the id of the stack is not part of it.
\* Mutant: it covers the rows of the buyer and of the stack alone.
InputsNoOffer(c, n) ==
    [sheet |-> sheet[c], n |-> n, stack |-> <<item[offer.item].qty, item[offer.item].rev>>]
Inputs(c, n) ==
    [sheet |-> sheet[c], n |-> n, price |-> offer.price, offer |-> offer.rev,
     stack |-> <<item[offer.item].qty, item[offer.item].rev>>]

QuoteEconomy(q, c, n) ==
    /\ quote[q] = None
    /\ Sellable(offer.item, n)
    /\ quote' = [quote EXCEPT ![q] =
           [kind |-> "BUY", char |-> c, item |-> offer.item, n |-> n,
            total |-> n * offer.price, seen |-> Inputs(c, n)]]
    /\ UNCHANGED <<sheet, item, object, offer, upgrade, event, audit, edit>>

\* The same action answers with its old receipt, the same quote under another
\* action is refused: neither changes a row.
Purchase(a, q, new) ==
    /\ Unused(a) /\ quote[q] # None /\ quote[q].kind = "BUY" /\ ~Used(q)
    /\ new \in Fresh
    /\ LET k == quote[q] IN
        /\ Sellable(offer.item, k.n)
        /\ Inputs(k.char, k.n) = k.seen
        /\ LET i == offer.item  total == k.n * offer.price IN
            /\ Pay(k.char, -total, 0)
            /\ item' = [item EXCEPT ![i].qty = @ - k.n, ![i].rev = @ + 1,
                                    ![new] = Row(k.n, k.char, 0)]
            /\ Record(a, "economy.purchase", q, k.char, -total, 0)
            /\ Audit(a, {[item |-> i, by |-> -k.n], [item |-> new, by |-> k.n]})
    /\ UNCHANGED <<object, offer, quote, upgrade, edit>>

\* saveEconomyConfig, saveMerchant, saveShopOffer and a new base price: all
\* take an action id and move a revision the quote has seen.  An offer made
\* after the first is gone has another id, here a higher revision.
SaveOffer(a, i, p) ==
    /\ Unused(a)
    /\ Sellable(i, 0)
    /\ offer' = [item |-> i, price |-> p, rev |-> offer.rev + 1]
    /\ Record(a, "economy.offer", None, None, 0, 0)
    /\ UNCHANGED <<sheet, item, object, quote, upgrade, audit, edit>>

-----------------------------------------------------------------------------
(* The workshop: a recipe that turns coins, one SP and one item of the     *)
(* inventory into a created object bound to a new item row.                *)

Materials(c, i) == [sheet |-> sheet[c], stack |-> <<item[i].qty, item[i].rev>>]

QuoteCraft(q, c, i) ==
    /\ quote[q] = None
    /\ Material(c, i)
    /\ quote' = [quote EXCEPT ![q] =
           [kind |-> "CRAFT", char |-> c, item |-> i, n |-> 1,
            total |-> Fee, seen |-> Materials(c, i)]]
    /\ UNCHANGED <<sheet, item, object, offer, upgrade, event, audit, edit>>

Craft(a, q, new) ==
    /\ Unused(a) /\ quote[q] # None /\ quote[q].kind = "CRAFT" /\ ~Used(q)
    /\ new \in Fresh
    /\ LET k == quote[q]  i == k.item  left == item[i].qty - 1 IN
        /\ Material(k.char, i)
        /\ Materials(k.char, i) = k.seen
        /\ Pay(k.char, -Fee, -1)
        /\ item' = [item EXCEPT
               ![i] = Row(left, IF left > 0 THEN k.char ELSE None, @.rev + 1),
               ![new] = Row(1, k.char, 0)]
        /\ object' = [object EXCEPT ![new] = [maker |-> k.char, active |-> TRUE]]
        /\ Record(a, "creation.operation", q, k.char, -Fee, -1)
        /\ Audit(a, {[item |-> i, by |-> -1], [item |-> new, by |-> 1]})
    /\ UNCHANGED <<offer, quote, upgrade, edit>>

\* A maker who does not know whether the operation ran takes its action id.
CancelCraft(a, q) ==
    /\ Unused(a) /\ quote[q] # None /\ quote[q].kind = "CRAFT"
    /\ Record(a, "creation.action.cancelled", q, None, 0, 0)
    /\ UNCHANGED <<sheet, item, object, offer, quote, upgrade, audit, edit>>

\* An ability that consumes the created item, and its undo.
UseUp(a, i) ==
    /\ event[a] = None
    /\ object[i] # None /\ object[i].active
    /\ item[i] # None /\ item[i].qty = 1 /\ item[i].holder = object[i].maker
    /\ object' = [object EXCEPT ![i].active = FALSE]
    /\ item' = [item EXCEPT ![i] = Row(0, None, @.rev + 1)]
    /\ Record(a, "entry.roll", <<i, item[i].rev + 1>>, None, 0, 0)
    /\ UNCHANGED <<sheet, offer, quote, upgrade, audit, edit>>

UndoUse(a, b) ==
    /\ event[a] = None
    /\ event[b] # None /\ event[b].type = "entry.roll"
    /\ ~\E d \in Actions : event[d] # None /\ event[d].type = "entry.undo" /\ event[d].key = b
    /\ LET i == event[b].key[1] IN
        /\ object[i] # None /\ ~object[i].active
        /\ item[i] = Row(0, None, event[b].key[2])
        /\ object' = [object EXCEPT ![i].active = TRUE]
        /\ item' = [item EXCEPT ![i] = Row(1, object[i].maker, @.rev + 1)]
    /\ Record(a, "entry.undo", b, None, 0, 0)
    /\ UNCHANGED <<sheet, offer, quote, upgrade, audit, edit>>

-----------------------------------------------------------------------------
(* The SP ledger: requests of the players for an improvement.              *)

Ledger(a, u, c, sp) == event[a] = None /\ Record(a, "CHARACTER_PROGRESSION", u, c, 0, sp)
Pending(u) == upgrade[u] # None /\ upgrade[u].state = "PENDING"

GrantSP(a, c, n) ==
    /\ Ledger(a, None, c, n)
    /\ Pay(c, 0, n)
    /\ UNCHANGED <<item, object, offer, quote, upgrade, audit, edit>>

Submit(a, u, c, n) ==
    /\ upgrade[u] = None
    /\ Ledger(a, u, None, 0)
    /\ upgrade' = [upgrade EXCEPT ![u] =
           [char |-> c, sp |-> n, proposed |-> None, state |-> "PENDING", at |-> 0]]
    /\ UNCHANGED <<sheet, item, object, offer, quote, audit, edit>>

Counter(a, u, n) ==
    /\ Pending(u) /\ upgrade[u].sp # n
    /\ Ledger(a, u, None, 0)
    /\ upgrade' = [upgrade EXCEPT ![u].proposed = n]
    /\ UNCHANGED <<sheet, item, object, offer, quote, audit, edit>>

Consent(a, u) ==
    /\ Pending(u) /\ upgrade[u].proposed # None
    /\ Ledger(a, u, None, 0)
    /\ upgrade' = [upgrade EXCEPT ![u].sp = upgrade[u].proposed, ![u].proposed = None]
    /\ UNCHANGED <<sheet, item, object, offer, quote, audit, edit>>

Close(a, u) ==
    /\ Pending(u)
    /\ Ledger(a, u, None, 0)
    /\ upgrade' = [upgrade EXCEPT ![u].state = "CLOSED"]
    /\ UNCHANGED <<sheet, item, object, offer, quote, audit, edit>>

Sequence == Cardinality({a \in Actions : event[a] # None}) + 1

Apply(a, u) ==
    /\ Pending(u) /\ upgrade[u].proposed = None
    /\ Pay(upgrade[u].char, 0, -upgrade[u].sp)
    /\ Ledger(a, u, upgrade[u].char, -upgrade[u].sp)
    /\ upgrade' = [upgrade EXCEPT ![u].state = "APPLIED", ![u].at = Sequence]
    /\ UNCHANGED <<item, object, offer, quote, audit, edit>>

\* The latest improvement of the same characteristic is reversed first.
Reverse(a, u) ==
    /\ upgrade[u] # None /\ upgrade[u].state = "APPLIED"
    /\ \A v \in Upgrades : upgrade[v] # None /\ upgrade[v].state = "APPLIED"
           /\ upgrade[v].char = upgrade[u].char => upgrade[v].at <= upgrade[u].at
    /\ Pay(upgrade[u].char, 0, upgrade[u].sp)
    /\ Ledger(a, u, upgrade[u].char, upgrade[u].sp)
    /\ upgrade' = [upgrade EXCEPT ![u].state = "REVERSED"]
    /\ UNCHANGED <<item, object, offer, quote, audit, edit>>

-----------------------------------------------------------------------------
(* The wallet command and the commands on items: the row is read, then     *)
(* written back by a transaction that finds it at the same revision.       *)

ReadWallet(e, c, coins) ==
    /\ edit[e] = None
    /\ coins # sheet[c].coins
    /\ edit' = [edit EXCEPT ![e] = [op |-> "WALLET", row |-> c, was |-> sheet[c], to |-> coins]]
    /\ UNCHANGED <<sheet, item, object, offer, quote, upgrade, event, audit>>

ReadItem(e, i, n, c) ==
    /\ edit[e] = None /\ item[i] # None
    /\ edit' = [edit EXCEPT ![e] = [op |-> "PATCH", row |-> i, was |-> item[i], to |-> <<n, c>>]]
    /\ UNCHANGED <<sheet, item, object, offer, quote, upgrade, event, audit>>

ReadDelete(e, i) ==
    /\ edit[e] = None /\ item[i] # None
    /\ item[i].holder = None
    /\ edit' = [edit EXCEPT ![e] = [op |-> "DELETE", row |-> i, was |-> item[i], to |-> None]]
    /\ UNCHANGED <<sheet, item, object, offer, quote, upgrade, event, audit>>

\* Mutant: the wallet is written whatever the revision of the row is now.
SheetUnmovedAlways(c, was) == TRUE
SheetUnmoved(c, was) == sheet[c].rev = was.rev
ItemUnmoved(i, was) == item[i] # None /\ item[i].rev = was.rev

WriteWallet(e, a) ==
    /\ edit[e] # None /\ edit[e].op = "WALLET"
    /\ event[a] = None
    /\ LET c == edit[e].row IN
        /\ SheetUnmoved(c, edit[e].was)
        /\ sheet' = [sheet EXCEPT ![c] = [coins |-> edit[e].to, sp |-> edit[e].was.sp,
                                          rev |-> edit[e].was.rev + 1]]
        /\ Record(a, "character.counters", None, c,
                  edit[e].to - edit[e].was.coins, 0)
    /\ edit' = [edit EXCEPT ![e] = None]
    /\ UNCHANGED <<item, object, offer, quote, upgrade, audit>>

\* A stack bound to a created object keeps its quantity and its inventory.
\* Mutant: it may be given away.
KeepsBindingNot(i, was, to) == TRUE
KeepsBinding(i, was, to) == object[i] # None => to = <<was.qty, was.holder>>

WriteItem(e, a) ==
    /\ edit[e] # None /\ edit[e].op = "PATCH" /\ Unused(a)
    /\ LET i == edit[e].row  was == edit[e].was IN
        /\ KeepsBinding(i, was, edit[e].to)
        /\ ItemUnmoved(i, was)
        /\ item' = [item EXCEPT ![i] = Row(edit[e].to[1], edit[e].to[2], was.rev + 1)]
        /\ Audit(a, {[item |-> i, by |-> edit[e].to[1] - was.qty]})
    /\ edit' = [edit EXCEPT ![e] = None]
    /\ UNCHANGED <<sheet, object, offer, quote, upgrade, event>>

\* An offer goes with its stack.
\* Mutant: it stays.
OfferKept(i) == offer
OfferWithout(i) == IF offer.item = i THEN [offer EXCEPT !.item = None] ELSE offer

DeleteItem(e, a) ==
    /\ edit[e] # None /\ edit[e].op = "DELETE" /\ Unused(a)
    /\ LET i == edit[e].row  was == edit[e].was IN
        /\ object[i] = None
        /\ ItemUnmoved(i, was)
        /\ item' = [item EXCEPT ![i] = None]
        /\ offer' = OfferWithout(i)
        /\ Audit(a, {[item |-> i, by |-> -was.qty]})
    /\ edit' = [edit EXCEPT ![e] = None]
    /\ UNCHANGED <<sheet, object, quote, upgrade, event>>

\* The row has moved, or the process dies with the request.
GiveUp(e) ==
    /\ edit[e] # None
    /\ edit' = [edit EXCEPT ![e] = None]
    /\ UNCHANGED <<sheet, item, object, offer, quote, upgrade, event, audit>>

-----------------------------------------------------------------------------
Next ==
    \/ \E q \in Quotes, c \in Characters :
           \/ \E n \in Quantities : QuoteEconomy(q, c, n)
           \/ \E i \in Items : QuoteCraft(q, c, i)
    \/ \E a \in Actions :
           \/ \E q \in Quotes :
                  \/ \E n \in Items : Purchase(a, q, n) \/ Craft(a, q, n)
                  \/ CancelCraft(a, q)
           \/ \E i \in Items : UseUp(a, i) \/ \E p \in Prices : SaveOffer(a, i, p)
           \/ \E b \in Actions : UndoUse(a, b)
           \/ \E c \in Characters : GrantSP(a, c, 1)
           \/ \E u \in Upgrades :
                  \/ \E c \in Characters : Submit(a, u, c, 1)
                  \/ Counter(a, u, 2) \/ Consent(a, u) \/ Close(a, u)
                  \/ Apply(a, u) \/ Reverse(a, u)
           \/ \E e \in Edits : WriteWallet(e, a) \/ WriteItem(e, a) \/ DeleteItem(e, a)
    \/ \E e \in Edits :
           \/ \E c \in Characters, n \in Coins : ReadWallet(e, c, n)
           \/ \E i \in Items : \/ ReadDelete(e, i)
                              \/ \E n \in Quantities, c \in Characters \cup {None} :
                                     ReadItem(e, i, n, c)
           \/ GiveUp(e)

Spec == Init /\ [][Next]_vars

-----------------------------------------------------------------------------
(* Properties.                                                             *)

Sum(f, S) == MapThenSumSet(LAMBDA x : f[x], S)

\* What the journal books on a character, and the audit on an item.
Acts(c) == {a \in Actions : event[a] # None /\ event[a].char = c}
Booked(c) == Sum([a \in Actions |-> IF a \in Acts(c) THEN event[a].coins ELSE 0], Actions)
BookedSP(c) == Sum([a \in Actions |-> IF a \in Acts(c) THEN event[a].sp ELSE 0], Actions)
By(changes, i) == Sum([d \in changes |-> IF d.item = i THEN d.by ELSE 0], changes)
Moved(i) == Sum([a \in Actions |-> By(audit[a], i)], Actions)
Consumed(i) == object[i] # None /\ ~object[i].active

\* Every wallet is what the journal makes of it: the purchases, operations, SP
\* records and wallet commands of a character add up to its coins and SP, and
\* the audited changes of a stack to its quantity.  A write made over one it
\* had not seen, or half of a purchase, would leave a difference.
JournalAddsUp ==
    /\ \A c \in Characters : /\ sheet[c].coins = StartCoins + Booked(c)
                             /\ sheet[c].sp = StartSP + BookedSP(c)
    /\ \A i \in Items :
           (IF item[i] = None THEN 0 ELSE item[i].qty) + (IF Consumed(i) THEN 1 ELSE 0)
               = (IF Stock[i] = None THEN 0 ELSE Stock[i]) + Moved(i)

\* What a purchase takes is what its buyer was shown, at the price of the
\* moment: the sum, the stack and the quantity of the quote are those of the
\* offer when the coins change hands, and the goods were in no inventory.
SoldAsShown ==
    [][\A a \in Actions : event[a] = None /\ event'[a] # None
                          /\ event'[a].type = "economy.purchase" =>
           LET k == quote[event'[a].key] IN
               /\ event'[a].coins = -k.total
               /\ offer.item = k.item /\ k.total = k.n * offer.price
               /\ item[k.item].holder = None
               /\ item'[k.item].qty = item[k.item].qty - k.n]_vars

\* A created object that is in use has its item, whole and in the inventory of
\* its maker, whatever the shop, the GM's edits and the undo do to items.
ObjectKeepsItsItem ==
    \A i \in Items : object[i] # None /\ object[i].active =>
        item[i] # None /\ item[i].qty = 1 /\ item[i].holder = object[i].maker

-----------------------------------------------------------------------------
(* The strengthening the proofs rest on.                                   *)

\* As long as the offer is at the revision a quote has seen, it is the one
\* the quote was made from, unless its stack is gone.
QuoteAgrees(q) ==
    LET k == quote[q] IN
    /\ k.total = k.n * k.seen.price
    /\ k.seen.offer <= offer.rev
    /\ k.seen.offer = offer.rev => offer.price = k.seen.price /\ offer.item \in {k.item, None}

\* As long as an item is at the revision an edit has read, it is the row the
\* edit has read: revisions only grow and a row that is gone never returns.
EditAgrees(e) ==
    LET i == edit[e].row IN
    IF item[i] = None THEN i \notin Fresh
    ELSE /\ edit[e].was.rev <= item[i].rev
         /\ edit[e].was.rev = item[i].rev => edit[e].was = item[i]

IInv ==
    /\ TypeOK /\ ObjectKeepsItsItem
    /\ \A q \in Quotes : quote[q] # None /\ quote[q].kind = "BUY" => QuoteAgrees(q)
    /\ \A e \in Edits : edit[e] # None /\ edit[e].op \in {"PATCH", "DELETE"} => EditAgrees(e)
    /\ \A a \in Actions : event[a] # None /\ event[a].type = "entry.roll" =>
           event[a].key \in Items \X Nat

\* The same for the wallet command, which writes back what it has read.
WalletAgrees(e) ==
    LET c == edit[e].row IN
    /\ edit[e].was.rev <= sheet[c].rev
    /\ edit[e].was.rev = sheet[c].rev => edit[e].was = sheet[c]

JournalAgrees ==
    /\ JournalAddsUp
    /\ \A a \in Actions : IsFiniteSet(audit[a])
    /\ \A e \in Edits : edit[e] # None /\ edit[e].op = "WALLET" => WalletAgrees(e)
=============================================================================
