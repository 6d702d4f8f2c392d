---------------------------- MODULE MarketProofs ----------------------------
(***************************************************************************)
(* The safety of Market for any number of characters, items, quotes and    *)
(* commands.  Two facts carry it: an item or an offer that is still at a   *)
(* revision is what somebody saw at that revision, and an item row that is *)
(* gone never returns, because whatever removed it is in the audit.  The   *)
(* journal adds up because the wallet and the row a command overwrites are *)
(* the ones it has read; what a sum over the actions makes of one more of  *)
(* them is proved first, by induction over the subsets of a finite set.    *)
(***************************************************************************)
EXTENDS Market, FiniteSetTheorems, WellFoundedInduction, TLAPS

-----------------------------------------------------------------------------
(* What the commands write, row by row.                                    *)

LEMMA Constants ==
    /\ None \notin Items /\ None \notin Characters /\ None \notin Nat /\ None \notin Int
    /\ None \notin Stack /\ None \notin Object /\ None \notin Quote /\ None \notin Upgrade
    /\ None \notin Event /\ None \notin Edit
    /\ Quantities \subseteq Nat /\ Prices \subseteq Nat /\ Coins \subseteq Nat
    /\ StartCoins \in Nat /\ StartSP \in Nat /\ Fee \in Nat /\ StartPrice \in Prices
    /\ Owner \in [Items -> Characters \cup {None}]
    /\ Stock \in [Items -> Nat \cup {None}]
    /\ Listed \in Items /\ Stock[Listed] # None
  BY MarketAssumption, NoneAssumption

LEMMA RowFields ==
    ASSUME NEW n \in Nat, NEW c \in Characters \cup {None}, NEW r \in Nat
    PROVE  /\ Row(n, c, r) \in Stack
           /\ Row(n, c, r).qty = n /\ Row(n, c, r).holder = c /\ Row(n, c, r).rev = r
  BY DEF Row, Stack

LEMMA PayKeepsType ==
    ASSUME sheet \in [Characters -> Purse], NEW c \in Characters,
           NEW coins \in Int, NEW sp \in Int, Pay(c, coins, sp)
    PROVE  sheet' \in [Characters -> Purse]
<1> DEFINE new == [coins |-> sheet[c].coins + coins, sp |-> sheet[c].sp + sp,
                   rev |-> sheet[c].rev + 1]
<1>1. sheet[c] \in Purse
  OBVIOUS
<1>2. new \in Purse
  BY <1>1 DEF Pay, Purse
<1>3. sheet' = [sheet EXCEPT ![c] = new]
  BY DEF Pay
<1> QED
  BY <1>2, <1>3

LEMMA RecordFields ==
    ASSUME event \in [Actions -> Event \cup {None}], NEW a \in Actions, NEW type, NEW key,
           NEW c \in Characters \cup {None}, NEW coins \in Int, NEW sp \in Int,
           type \in {"economy.purchase", "economy.offer", "creation.operation",
                     "creation.action.cancelled", "entry.roll", "entry.undo",
                     "CHARACTER_PROGRESSION", "character.counters"},
           key \in Quotes \cup Upgrades \cup Actions \cup (Items \X Nat) \cup {None},
           Record(a, type, key, c, coins, sp)
    PROVE  /\ event' \in [Actions -> Event \cup {None}]
           /\ event'[a].type = type /\ event'[a].key = key /\ event'[a].coins = coins
           /\ \A b \in Actions \ {a} : event'[b] = event[b]
  BY DEF Record, Event

(* The kinds of an edit and of a quote.                                    *)
LEMMA EditKinds ==
    ASSUME TypeOK, NEW e \in Edits, edit[e] # None
    PROVE  /\ edit[e] \in Edit
           /\ edit[e].op \in {"WALLET", "PATCH", "DELETE"}
           /\ edit[e].op = "WALLET" => edit[e].row \in Characters /\ edit[e].was \in Purse
                                       /\ edit[e].to \in Nat
           /\ edit[e].op \in {"PATCH", "DELETE"} => edit[e].row \in Items /\ edit[e].was \in Stack
           /\ edit[e].op = "PATCH" => edit[e].to \in Nat \X (Characters \cup {None})
<1>1. edit[e] \in Edit
  BY DEF TypeOK
<1> QED
  BY <1>1 DEF Edit

LEMMA QuoteKinds ==
    ASSUME TypeOK, NEW q \in Quotes, quote[q] # None
    PROVE  /\ quote[q].char \in Characters /\ quote[q].item \in Items
           /\ quote[q].kind = "BUY" => /\ quote[q].n \in Quantities /\ quote[q].total \in Nat
                                       /\ quote[q].seen.price \in Prices
                                       /\ quote[q].seen.offer \in Nat
           /\ quote[q].kind = "CRAFT" => quote[q].n = 1 /\ quote[q].total = Fee
<1>1. quote[q] \in Quote
  BY DEF TypeOK
<1> QED
  BY <1>1 DEF Quote

LEMMA FreshItem ==
    ASSUME NEW i \in Fresh
    PROVE  i \in Items /\ item[i] = None /\ Stock[i] = None
           /\ \A a \in Actions : \A d \in audit[a] : d.item # i
  BY DEF Fresh

(* The audit forgets nothing.                                              *)
LEMMA AuditFields ==
    ASSUME audit \in [Actions -> SUBSET Change], NEW a \in Actions, NEW changes \in SUBSET Change,
           Unused(a), Audit(a, changes)
    PROVE  /\ audit' \in [Actions -> SUBSET Change]
           /\ audit'[a] = changes
           /\ \A b \in Actions : audit[b] \subseteq audit'[b]
  BY DEF Unused, Audit

-----------------------------------------------------------------------------
(* Steps that leave items, objects, the offer and the audit alone.         *)

ItemsAlone == UNCHANGED <<item, object, offer, audit>>

LEMMA QuietKeepsIInv ==
    ASSUME IInv, TypeOK', ItemsAlone,
           \A q \in Quotes :
               \/ quote'[q] = quote[q]
               \/ quote'[q] # None /\ (quote'[q].kind = "BUY" => QuoteAgrees(q)'),
           \A e \in Edits :
               \/ edit'[e] \in {edit[e], None}
               \/ edit'[e] # None /\ (edit'[e].op \in {"PATCH", "DELETE"} => EditAgrees(e)'),
           \A a \in Actions : event'[a] = event[a] \/ event'[a].type # "entry.roll"
    PROVE  IInv'
<1>1. ObjectKeepsItsItem'
  BY DEF IInv, ObjectKeepsItsItem, ItemsAlone
<1>2. Fresh' = Fresh
  BY DEF ItemsAlone, Fresh
<1>3. \A q \in Quotes : quote'[q] # None /\ quote'[q].kind = "BUY" => QuoteAgrees(q)'
  BY DEF IInv, QuoteAgrees, ItemsAlone
<1>4. \A e \in Edits : edit'[e] # None /\ edit'[e].op \in {"PATCH", "DELETE"} => EditAgrees(e)'
  BY <1>2 DEF IInv, EditAgrees, ItemsAlone
<1>5. \A a \in Actions : event'[a] # None /\ event'[a].type = "entry.roll" =>
          event'[a].key \in Items \X Nat
  BY DEF IInv
<1> QED
  BY <1>1, <1>3, <1>4, <1>5 DEF IInv

LEMMA QuoteKeepsIInv ==
    ASSUME IInv, ItemsAlone, UNCHANGED <<sheet, upgrade, event, edit>>,
           NEW q \in Quotes, NEW k \in Quote, quote' = [quote EXCEPT ![q] = k],
           k.kind = "BUY" => /\ k.total = k.n * k.seen.price
                             /\ k.seen.offer = offer.rev /\ k.seen.price = offer.price
                             /\ k.item = offer.item
    PROVE  IInv'
<1>1. quote \in [Quotes -> Quote \cup {None}]
  BY DEF IInv, TypeOK
<1>2. quote' \in [Quotes -> Quote \cup {None}] /\ quote'[q] = k
      /\ \A p \in Quotes \ {q} : quote'[p] = quote[p]
  BY <1>1
<1>3. TypeOK'
  BY <1>2 DEF IInv, TypeOK, ItemsAlone
<1>4. k # None
  BY Constants
<1>5. offer.rev \in Nat
  BY DEF IInv, TypeOK, Offer
<1>6. k.kind = "BUY" => QuoteAgrees(q)'
  BY <1>2, <1>5 DEF QuoteAgrees, ItemsAlone
<1>7. ASSUME NEW p \in Quotes
      PROVE  \/ quote'[p] = quote[p]
             \/ quote'[p] # None /\ (quote'[p].kind = "BUY" => QuoteAgrees(p)')
  <2>1. CASE p = q
    BY <1>2, <1>4, <1>6, <2>1
  <2>2. CASE p # q
    BY <1>2, <2>2
  <2> QED
    BY <2>1, <2>2
<1>8. event' = event /\ edit' = edit
  OBVIOUS
<1> QED
  BY <1>3, <1>7, <1>8, QuietKeepsIInv

LEMMA QuoteEconomyKeepsIInv ==
    ASSUME IInv, NEW q \in Quotes, NEW c \in Characters, NEW n \in Quantities, QuoteEconomy(q, c, n)
    PROVE  IInv'
<1> DEFINE k == [kind |-> "BUY", char |-> c, item |-> offer.item, n |-> n,
                 total |-> n * offer.price, seen |-> Inputs(c, n)]
<1>1. /\ offer.item \in Items /\ offer.price \in Prices /\ offer.rev \in Nat
      /\ item[offer.item] \in Stack /\ sheet[c] \in Purse
  BY Constants DEF QuoteEconomy, Sellable, IInv, TypeOK, Offer
<1>2. item[offer.item].qty \in Nat /\ item[offer.item].rev \in Nat
  BY <1>1 DEF Stack
<1>3. Inputs(c, n) \in [sheet : Purse, n : Quantities, price : Prices, offer : Nat, stack : Nat \X Nat]
  BY <1>1, <1>2 DEF Inputs
<1>4. n * offer.price \in Nat
  <2>1. \A x, y \in Nat : x * y \in Nat
    OBVIOUS
  <2> QED
    BY <1>1, <2>1, Constants
<1>5. k \in Quote
  BY <1>1, <1>3, <1>4 DEF Quote
<1>6. /\ k.total = k.n * k.seen.price /\ k.seen.offer = offer.rev
      /\ k.seen.price = offer.price /\ k.item = offer.item
  BY DEF Inputs
<1>7. quote' = [quote EXCEPT ![q] = k] /\ UNCHANGED <<sheet, upgrade, event, edit>> /\ ItemsAlone
  BY DEF QuoteEconomy, ItemsAlone
<1> HIDE DEF k
<1> QED
  BY <1>5, <1>6, <1>7, QuoteKeepsIInv

LEMMA QuoteCraftKeepsIInv ==
    ASSUME IInv, NEW q \in Quotes, NEW c \in Characters, NEW i \in Items, QuoteCraft(q, c, i)
    PROVE  IInv'
<1> DEFINE k == [kind |-> "CRAFT", char |-> c, item |-> i, n |-> 1,
                 total |-> Fee, seen |-> Materials(c, i)]
<1>1. item[i] \in Stack /\ sheet[c] \in Purse
  BY DEF QuoteCraft, Material, IInv, TypeOK
<1>2. item[i].qty \in Nat /\ item[i].rev \in Nat
  BY <1>1 DEF Stack
<1>3. k \in Quote /\ k.kind # "BUY"
  BY <1>1, <1>2 DEF Quote, Materials
<1>4. quote' = [quote EXCEPT ![q] = k] /\ UNCHANGED <<sheet, upgrade, event, edit>> /\ ItemsAlone
  BY DEF QuoteCraft, ItemsAlone
<1> HIDE DEF k
<1> QED
  BY <1>3, <1>4, QuoteKeepsIInv

(* A record about the wallet of a character, or about an improvement.      *)
LEMMA RecordKeepsIInv ==
    ASSUME IInv, ItemsAlone, UNCHANGED quote,
           sheet' \in [Characters -> Purse], upgrade' \in [Upgrades -> Upgrade \cup {None}],
           edit' \in [Edits -> Edit \cup {None}], \A e \in Edits : edit'[e] \in {edit[e], None},
           NEW a \in Actions, NEW type, NEW key, NEW c \in Characters \cup {None},
           NEW coins \in Int, NEW sp \in Int,
           type \in {"creation.action.cancelled", "CHARACTER_PROGRESSION", "character.counters"},
           key \in Quotes \cup Upgrades \cup {None},
           Record(a, type, key, c, coins, sp)
    PROVE  IInv'
<1>1. /\ event' \in [Actions -> Event \cup {None}] /\ event'[a].type = type
      /\ \A b \in Actions \ {a} : event'[b] = event[b]
  BY RecordFields DEF IInv, TypeOK
<1>2. TypeOK'
  BY <1>1 DEF IInv, TypeOK, ItemsAlone
<1>3. \A b \in Actions : event'[b] = event[b] \/ event'[b].type # "entry.roll"
  BY <1>1
<1> QED
  BY <1>2, <1>3, QuietKeepsIInv

LEMMA SequenceType == Sequence \in Nat
<1>1. IsFiniteSet({a \in Actions : event[a] # None})
  BY FS_Subset, MarketAssumption
<1> QED
  BY <1>1, FS_CardinalityType DEF Sequence

(* The writes of one improvement.                                          *)
LEMMA UpgradeFields ==
    ASSUME upgrade \in [Upgrades -> Upgrade \cup {None}], NEW u \in Upgrades, upgrade[u] # None
    PROVE  /\ upgrade[u].char \in Characters /\ upgrade[u].sp \in Nat
           /\ upgrade[u].proposed \in Nat \cup {None}
           /\ \A n \in Nat \cup {None} : [upgrade[u] EXCEPT !.proposed = n] \in Upgrade
           /\ \A n \in Nat : [upgrade[u] EXCEPT !.sp = n, !.proposed = None] \in Upgrade
           /\ \A s \in {"PENDING", "APPLIED", "REVERSED", "CLOSED"}, n \in Nat :
                  [upgrade[u] EXCEPT !.state = s, !.at = n] \in Upgrade
           /\ \A s \in {"PENDING", "APPLIED", "REVERSED", "CLOSED"} :
                  [upgrade[u] EXCEPT !.state = s] \in Upgrade
  BY DEF Upgrade

LEMMA GrantKeepsIInv ==
    ASSUME IInv, NEW a \in Actions, NEW c \in Characters, GrantSP(a, c, 1) PROVE IInv'
<1>1. /\ sheet \in [Characters -> Purse] /\ upgrade \in [Upgrades -> Upgrade \cup {None}]
      /\ edit \in [Edits -> Edit \cup {None}]
  BY DEF IInv, TypeOK
<1>2. sheet' \in [Characters -> Purse]
  BY <1>1, PayKeepsType DEF GrantSP
<1> QED
  BY <1>1, <1>2, RecordKeepsIInv DEF GrantSP, Ledger, ItemsAlone

LEMMA ProgressionKeepsIInv ==
    ASSUME IInv, NEW a \in Actions, NEW u \in Upgrades,
           \/ \E c \in Characters : Submit(a, u, c, 1)
           \/ Counter(a, u, 2) \/ Consent(a, u) \/ Close(a, u) \/ Apply(a, u) \/ Reverse(a, u)
    PROVE  IInv'
<1>1. /\ sheet \in [Characters -> Purse] /\ upgrade \in [Upgrades -> Upgrade \cup {None}]
      /\ edit \in [Edits -> Edit \cup {None}]
  BY DEF IInv, TypeOK
<1>2. ASSUME NEW x \in Upgrade, upgrade' = [upgrade EXCEPT ![u] = x]
      PROVE  upgrade' \in [Upgrades -> Upgrade \cup {None}]
  BY <1>1, <1>2
<1>3. ASSUME NEW c \in Characters, Submit(a, u, c, 1) PROVE IInv'
  <2> DEFINE x == [char |-> c, sp |-> 1, proposed |-> None, state |-> "PENDING", at |-> 0]
  <2>1. x \in Upgrade
    BY DEF Upgrade
  <2>2. upgrade' \in [Upgrades -> Upgrade \cup {None}]
    BY <1>2, <1>3, <2>1 DEF Submit
  <2> QED
    BY <1>1, <1>3, <2>2, RecordKeepsIInv DEF Submit, Ledger, ItemsAlone
<1>4. CASE Counter(a, u, 2)
  <2>1. upgrade' = [upgrade EXCEPT ![u] = [upgrade[u] EXCEPT !.proposed = 2]]
    BY <1>1, <1>4 DEF Counter
  <2>2. [upgrade[u] EXCEPT !.proposed = 2] \in Upgrade
    BY <1>1, <1>4, UpgradeFields DEF Counter, Pending
  <2>3. upgrade' \in [Upgrades -> Upgrade \cup {None}]
    BY <1>2, <2>1, <2>2
  <2> QED
    BY <1>1, <1>4, <2>3, RecordKeepsIInv DEF Counter, Ledger, ItemsAlone
<1>5. CASE Consent(a, u)
  <2> DEFINE x == [upgrade[u] EXCEPT !.sp = upgrade[u].proposed, !.proposed = None]
  <2>1. upgrade' = [upgrade EXCEPT ![u] = x]
    BY <1>1, <1>5 DEF Consent
  <2>2. x \in Upgrade
    BY <1>1, <1>5, UpgradeFields DEF Consent, Pending
  <2>3. upgrade' \in [Upgrades -> Upgrade \cup {None}]
    BY <1>2, <2>1, <2>2
  <2> QED
    BY <1>1, <1>5, <2>3, RecordKeepsIInv DEF Consent, Ledger, ItemsAlone
<1>6. CASE Close(a, u)
  <2>1. upgrade' = [upgrade EXCEPT ![u] = [upgrade[u] EXCEPT !.state = "CLOSED"]]
    BY <1>1, <1>6 DEF Close
  <2>2. [upgrade[u] EXCEPT !.state = "CLOSED"] \in Upgrade
    BY <1>1, <1>6, UpgradeFields DEF Close, Pending
  <2>3. upgrade' \in [Upgrades -> Upgrade \cup {None}]
    BY <1>2, <2>1, <2>2
  <2> QED
    BY <1>1, <1>6, <2>3, RecordKeepsIInv DEF Close, Ledger, ItemsAlone
<1>7. CASE Apply(a, u)
  <2> DEFINE n == Sequence
             x == [upgrade[u] EXCEPT !.state = "APPLIED", !.at = n]
  <2>1. upgrade' = [upgrade EXCEPT ![u] = x]
    BY <1>1, <1>7 DEF Apply
  <2>2. x \in Upgrade
    <3>1. n \in Nat
      BY SequenceType
    <3> HIDE DEF n
    <3> QED
      BY <1>1, <1>7, <3>1, UpgradeFields DEF Apply, Pending
  <2>3. upgrade' \in [Upgrades -> Upgrade \cup {None}]
    BY <1>2, <2>1, <2>2
  <2>4. PICK c \in Characters, s \in Nat : c = upgrade[u].char /\ s = upgrade[u].sp
    BY <1>1, <1>7, UpgradeFields, Zenon DEF Apply, Pending
  <2>5. Pay(c, 0, -s) /\ 0 \in Int /\ -s \in Int
    BY <1>7, <2>4 DEF Apply
  <2>6. sheet' \in [Characters -> Purse]
    BY <1>1, <2>5, PayKeepsType
  <2> QED
    BY <1>1, <1>7, <2>3, <2>4, <2>5, <2>6, RecordKeepsIInv DEF Apply, Ledger, ItemsAlone
<1>8. CASE Reverse(a, u)
  <2>1. upgrade' = [upgrade EXCEPT ![u] = [upgrade[u] EXCEPT !.state = "REVERSED"]]
    BY <1>1, <1>8 DEF Reverse
  <2>2. [upgrade[u] EXCEPT !.state = "REVERSED"] \in Upgrade
    BY <1>1, <1>8, UpgradeFields DEF Reverse
  <2>3. upgrade' \in [Upgrades -> Upgrade \cup {None}]
    BY <1>2, <2>1, <2>2
  <2>4. PICK c \in Characters, s \in Nat : c = upgrade[u].char /\ s = upgrade[u].sp
    BY <1>1, <1>8, UpgradeFields, Zenon DEF Reverse
  <2>5. Pay(c, 0, s) /\ 0 \in Int /\ s \in Int
    BY <1>8, <2>4 DEF Reverse
  <2>6. sheet' \in [Characters -> Purse]
    BY <1>1, <2>5, PayKeepsType
  <2> QED
    BY <1>1, <1>8, <2>3, <2>4, <2>5, <2>6, RecordKeepsIInv DEF Reverse, Ledger, ItemsAlone
<1> QED
  BY <1>3, <1>4, <1>5, <1>6, <1>7, <1>8

LEMMA CancelCraftKeepsIInv ==
    ASSUME IInv, NEW a \in Actions, NEW q \in Quotes, CancelCraft(a, q) PROVE IInv'
<1>1. /\ sheet \in [Characters -> Purse] /\ upgrade \in [Upgrades -> Upgrade \cup {None}]
      /\ edit \in [Edits -> Edit \cup {None}]
  BY DEF IInv, TypeOK
<1> QED
  BY <1>1, RecordKeepsIInv DEF CancelCraft, ItemsAlone

-----------------------------------------------------------------------------
(* Edits: a row is read, and written back or not.                          *)

LEMMA ReadKeepsIInv ==
    ASSUME IInv, ItemsAlone, UNCHANGED <<sheet, quote, upgrade, event>>,
           NEW e \in Edits, NEW x \in Edit \cup {None}, edit' = [edit EXCEPT ![e] = x],
           x # None /\ x.op \in {"PATCH", "DELETE"} => item[x.row] # None /\ x.was = item[x.row]
    PROVE  IInv'
<1>1. /\ edit' \in [Edits -> Edit \cup {None}] /\ edit'[e] = x
      /\ \A f \in Edits \ {e} : edit'[f] = edit[f]
  BY DEF IInv, TypeOK
<1>2. TypeOK'
  BY <1>1 DEF IInv, TypeOK, ItemsAlone
<1>3. x # None /\ x.op \in {"PATCH", "DELETE"} => EditAgrees(e)'
  <2> SUFFICES ASSUME x # None, x.op \in {"PATCH", "DELETE"} PROVE EditAgrees(e)'
    OBVIOUS
  <2>1. x.row \in Items
    BY DEF Edit
  <2>2. item[x.row] \in Stack
    BY <2>1 DEF IInv, TypeOK
  <2>3. item[x.row].rev \in Nat
    BY <2>2 DEF Stack
  <2> QED
    BY <1>1, <2>3 DEF EditAgrees, ItemsAlone
<1>4. ASSUME NEW f \in Edits
      PROVE  \/ edit'[f] \in {edit[f], None}
             \/ edit'[f] # None /\ (edit'[f].op \in {"PATCH", "DELETE"} => EditAgrees(f)')
  <2>1. CASE f = e
    BY <1>1, <1>3, <2>1
  <2>2. CASE f # e
    BY <1>1, <2>2
  <2> QED
    BY <2>1, <2>2
<1>5. quote' = quote /\ event' = event
  OBVIOUS
<1> QED
  BY <1>2, <1>4, <1>5, QuietKeepsIInv

LEMMA ReadsKeepIInv ==
    ASSUME IInv, NEW e \in Edits,
           \/ \E c \in Characters, n \in Coins : ReadWallet(e, c, n)
           \/ \E i \in Items : ReadDelete(e, i)
           \/ \E i \in Items, n \in Quantities, c \in Characters \cup {None} : ReadItem(e, i, n, c)
           \/ GiveUp(e)
    PROVE  IInv'
<1>1. ASSUME NEW c \in Characters, NEW n \in Coins, ReadWallet(e, c, n) PROVE IInv'
  <2> DEFINE x == [op |-> "WALLET", row |-> c, was |-> sheet[c], to |-> n]
  <2>1. sheet[c] \in Purse
    BY DEF IInv, TypeOK
  <2>2. x \in Edit /\ x.op = "WALLET"
    BY <2>1, Constants DEF Edit
  <2>3. edit' = [edit EXCEPT ![e] = x]
    BY <1>1 DEF ReadWallet
  <2> HIDE DEF x
  <2> QED
    BY <1>1, <2>2, <2>3, ReadKeepsIInv DEF ReadWallet, ItemsAlone
<1>2. ASSUME NEW i \in Items, ReadDelete(e, i) PROVE IInv'
  <2> DEFINE x == [op |-> "DELETE", row |-> i, was |-> item[i], to |-> None]
  <2>1. item[i] \in Stack
    BY <1>2 DEF ReadDelete, IInv, TypeOK
  <2>2. x \in Edit /\ x.row = i /\ x.was = item[i]
    BY <2>1 DEF Edit
  <2>3. edit' = [edit EXCEPT ![e] = x]
    BY <1>2 DEF ReadDelete
  <2> HIDE DEF x
  <2> QED
    BY <1>2, <2>2, <2>3, ReadKeepsIInv DEF ReadDelete, ItemsAlone
<1>3. ASSUME NEW i \in Items, NEW n \in Quantities, NEW c \in Characters \cup {None},
             ReadItem(e, i, n, c)
      PROVE  IInv'
  <2> DEFINE x == [op |-> "PATCH", row |-> i, was |-> item[i], to |-> <<n, c>>]
  <2>1. item[i] \in Stack /\ n \in Nat
    BY <1>3, Constants DEF ReadItem, IInv, TypeOK
  <2>2. x \in Edit /\ x.row = i /\ x.was = item[i]
    BY <2>1 DEF Edit
  <2>3. edit' = [edit EXCEPT ![e] = x]
    BY <1>3 DEF ReadItem
  <2> HIDE DEF x
  <2> QED
    BY <1>3, <2>2, <2>3, ReadKeepsIInv DEF ReadItem, ItemsAlone
<1>4. CASE GiveUp(e)
  BY <1>4, ReadKeepsIInv DEF GiveUp, ItemsAlone
<1> QED
  BY <1>1, <1>2, <1>3, <1>4

LEMMA WriteWalletKeepsIInv ==
    ASSUME IInv, NEW e \in Edits, NEW a \in Actions, WriteWallet(e, a) PROVE IInv'
<1> DEFINE c == edit[e].row
           new == [coins |-> edit[e].to, sp |-> edit[e].was.sp, rev |-> edit[e].was.rev + 1]
<1>1. c \in Characters /\ edit[e].was \in Purse /\ edit[e].to \in Nat
  BY EditKinds DEF WriteWallet, IInv
<1>2. new \in Purse /\ edit[e].to - edit[e].was.coins \in Int
  BY <1>1 DEF Purse
<1>3. sheet' = [sheet EXCEPT ![c] = new]
  BY DEF WriteWallet
<1>4. sheet' \in [Characters -> Purse]
  BY <1>2, <1>3 DEF IInv, TypeOK
<1>5. /\ edit' \in [Edits -> Edit \cup {None}] /\ \A f \in Edits : edit'[f] \in {edit[f], None}
      /\ upgrade' \in [Upgrades -> Upgrade \cup {None}]
  BY DEF WriteWallet, IInv, TypeOK
<1> QED
  BY <1>1, <1>2, <1>4, <1>5, RecordKeepsIInv DEF WriteWallet, ItemsAlone

-----------------------------------------------------------------------------
(* Steps that write item rows, or the offer.                               *)

LEMMA ItemsKeepIInv ==
    ASSUME IInv, TypeOK', ObjectKeepsItsItem', UNCHANGED quote,
           \A i \in Items : item[i] # None /\ item'[i] # None =>
               item'[i] = item[i] \/ item'[i].rev > item[i].rev,
           \A i \in Items : item[i] = None /\ item'[i] # None => i \in Fresh,
           \A i \in Items : item'[i] = None /\ i \in Fresh' => item[i] = None /\ i \in Fresh,
           \A e \in Edits : edit'[e] \in {edit[e], None},
           \/ offer' = offer
           \/ offer'.rev > offer.rev
           \/ offer'.rev = offer.rev /\ offer'.price = offer.price /\ offer'.item = None,
           \A a \in Actions : event'[a] # None /\ event'[a].type = "entry.roll" =>
               event'[a] = event[a] \/ event'[a].key \in Items \X Nat
    PROVE  IInv'
<1>1. ASSUME NEW q \in Quotes, quote'[q] # None, quote'[q].kind = "BUY" PROVE QuoteAgrees(q)'
  <2>1. QuoteAgrees(q) /\ quote'[q] = quote[q]
    BY <1>1 DEF IInv
  <2>2. quote[q].seen.offer \in Nat /\ offer.rev \in Nat /\ offer'.rev \in Nat
    BY <1>1, <2>1, QuoteKinds DEF IInv, TypeOK, Offer
  <2> QED
    BY <2>1, <2>2 DEF QuoteAgrees
<1>2. ASSUME NEW e \in Edits, edit'[e] # None, edit'[e].op \in {"PATCH", "DELETE"}
      PROVE  EditAgrees(e)'
  <2>1. EditAgrees(e) /\ edit'[e] = edit[e]
    BY <1>2 DEF IInv
  <2>2. PICK i \in Items : i = edit[e].row
    BY <1>2, <2>1, EditKinds DEF IInv
  <2>3. edit[e].was.rev \in Nat
    <3>1. edit[e].was \in Stack
      BY <1>2, <2>1, EditKinds DEF IInv
    <3> QED
      BY <3>1 DEF Stack
  <2>4. CASE item'[i] = None
    BY <2>1, <2>2, <2>4 DEF EditAgrees
  <2>5. CASE item'[i] # None
    <3>1. item[i] # None
      BY <2>1, <2>2, <2>5 DEF EditAgrees
    <3>2. item[i] \in Stack /\ item'[i] \in Stack
      BY <2>5, <3>1 DEF IInv, TypeOK
    <3>3. item[i].rev \in Nat /\ item'[i].rev \in Nat
      BY <3>2 DEF Stack
    <3> QED
      BY <2>1, <2>2, <2>3, <2>5, <3>1, <3>3 DEF EditAgrees
  <2> QED
    BY <2>4, <2>5
<1>3. \A a \in Actions : event'[a] # None /\ event'[a].type = "entry.roll" =>
          event'[a].key \in Items \X Nat
  BY DEF IInv
<1> QED
  BY <1>1, <1>2, <1>3 DEF IInv

(* A purchase: the stack on offer shrinks, a new row appears.              *)
LEMMA PurchaseRows ==
    ASSUME IInv, NEW a \in Actions, NEW q \in Quotes, NEW new \in Items, Purchase(a, q, new),
           NEW i \in Items, i = offer.item
    PROVE  /\ i # new /\ new \in Fresh /\ item[i] \in Stack /\ item[i].holder = None
           /\ item'[new] = Row(quote[q].n, quote[q].char, 0) /\ item'[new] \in Stack
           /\ item'[i] \in Stack
           /\ item'[i].qty = item[i].qty - quote[q].n /\ item'[i].holder = item[i].holder
           /\ item'[i].rev = item[i].rev + 1
           /\ \A j \in Items \ {i, new} : item'[j] = item[j]
<1> DEFINE n == quote[q].n  c == quote[q].char
<1>1. /\ item \in [Items -> Stack \cup {None}]
      /\ item' = [item EXCEPT ![i].qty = @ - n, ![i].rev = @ + 1, ![new] = Row(n, c, 0)]
      /\ new \in Fresh /\ item[i] # None /\ item[i].qty >= n /\ item[i].holder = None
  BY DEF Purchase, Sellable, IInv, TypeOK
<1>2. quote[q].n \in Nat /\ c \in Characters
  BY QuoteKinds, Constants DEF Purchase, IInv
<1> HIDE DEF n, c
<1>3. item[i] \in Stack /\ i # new /\ item[i].qty \in Nat /\ item[i].rev \in Nat
  BY <1>1, FreshItem DEF Stack
<1>4. Row(n, c, 0) \in Stack
  BY <1>2, RowFields DEF n
<1>5. [item[i] EXCEPT !.qty = @ - n, !.rev = @ + 1] \in Stack
  BY <1>1, <1>2, <1>3 DEF Stack, n
<1>6. item'[i] = [item[i] EXCEPT !.qty = @ - n, !.rev = @ + 1] /\ item'[new] = Row(n, c, 0)
      /\ \A j \in Items \ {i, new} : item'[j] = item[j]
  BY <1>1, <1>3
<1> QED
  BY <1>1, <1>3, <1>4, <1>5, <1>6 DEF Stack, n, c

LEMMA PurchaseKeepsIInv ==
    ASSUME IInv, NEW a \in Actions, NEW q \in Quotes, NEW new \in Items, Purchase(a, q, new)
    PROVE  IInv'
<1>1. PICK i \in Items : i = offer.item
  BY DEF Purchase, Sellable, IInv, TypeOK, Offer
<1>2. /\ i # new /\ new \in Fresh /\ item[i] \in Stack /\ item[i].holder = None
      /\ item'[new] = Row(quote[q].n, quote[q].char, 0) /\ item'[new] \in Stack
      /\ item'[i] \in Stack /\ item'[i].holder = item[i].holder
      /\ item'[i].rev = item[i].rev + 1
      /\ \A j \in Items \ {i, new} : item'[j] = item[j]
  BY <1>1, PurchaseRows
<1>3. item' \in [Items -> Stack \cup {None}]
  <2>1. DOMAIN item' = Items
    BY DEF Purchase, IInv, TypeOK
  <2>2. \A j \in Items : item'[j] \in Stack \cup {None}
    BY <1>2 DEF IInv, TypeOK
  <2>3. item' = [j \in Items |-> item'[j]]
    BY <2>1 DEF Purchase
  <2> QED
    BY <2>2, <2>3
<1>4. quote[q].char \in Characters /\ quote[q].n \in Nat /\ offer.price \in Nat
  BY QuoteKinds, Constants DEF Purchase, IInv, TypeOK, Offer
<1>5. PICK total \in Int : total = -(quote[q].n * offer.price)
  <2>1. \A x, y \in Nat : -(x * y) \in Int
    OBVIOUS
  <2> QED
    BY <1>4, <2>1
<1>6. sheet' \in [Characters -> Purse]
  <2>1. Pay(quote[q].char, total, 0)
    BY <1>5 DEF Purchase
  <2> QED
    BY <1>4, <2>1, PayKeepsType DEF IInv, TypeOK
<1>7. /\ event' \in [Actions -> Event \cup {None}] /\ event'[a].type = "economy.purchase"
      /\ \A b \in Actions \ {a} : event'[b] = event[b]
  <2>1. PICK c \in Characters : c = quote[q].char
    BY <1>4
  <2>2. Record(a, "economy.purchase", q, c, total, 0)
    BY <1>5, <2>1 DEF Purchase
  <2>3. event \in [Actions -> Event \cup {None}]
    BY DEF IInv, TypeOK
  <2> QED
    BY <2>2, <2>3, RecordFields
<1>8. /\ audit' \in [Actions -> SUBSET Change]
      /\ \A b \in Actions : audit[b] \subseteq audit'[b]
  <2> DEFINE changes == {[item |-> i, by |-> -quote[q].n], [item |-> new, by |-> quote[q].n]}
  <2>1. changes \in SUBSET Change
    BY <1>4 DEF Change
  <2>2. Audit(a, changes) /\ Unused(a)
    BY <1>1 DEF Purchase
  <2> QED
    BY <2>1, <2>2, AuditFields DEF IInv, TypeOK
<1>9. TypeOK'
  <2>1. UNCHANGED <<object, offer, quote, upgrade, edit>>
    BY DEF Purchase
  <2>2. offer.item # None => item'[offer.item] # None
    BY <1>1, <1>2, Constants
  <2> QED
    BY <1>3, <1>6, <1>7, <1>8, <2>1, <2>2 DEF IInv, TypeOK
<1>10. ObjectKeepsItsItem'
  <2>1. object' = object
    BY DEF Purchase
  <2>2. \A j \in Items : object[j] # None => object[j].maker \in Characters
    BY DEF IInv, TypeOK, Object
  <2>3. item[new] = None
    BY <1>2, FreshItem
  <2> QED
    BY <1>2, <2>1, <2>2, <2>3, Constants DEF IInv, ObjectKeepsItsItem
<1>11. \A j \in Items : item[j] # None /\ item'[j] # None =>
           item'[j] = item[j] \/ item'[j].rev > item[j].rev
  <2>1. item[i].rev \in Nat /\ item[new] = None
    BY <1>2, FreshItem DEF Stack
  <2> QED
    BY <1>2, <2>1
<1>12. \A j \in Items : item[j] = None /\ item'[j] # None => j \in Fresh
  BY <1>2, Constants
<1>13. \A j \in Items : item'[j] = None /\ j \in Fresh' => item[j] = None /\ j \in Fresh
  BY <1>2, <1>8, Constants DEF Fresh
<1>14. quote' = quote /\ offer' = offer /\ edit' = edit
  BY DEF Purchase
<1>15. \A b \in Actions : event'[b] # None /\ event'[b].type = "entry.roll" =>
           event'[b] = event[b] \/ event'[b].key \in Items \X Nat
  BY <1>7
<1> QED
  BY <1>9, <1>10, <1>11, <1>12, <1>13, <1>14, <1>15, ItemsKeepIInv

LEMMA SaveOfferKeepsIInv ==
    ASSUME IInv, NEW a \in Actions, NEW i \in Items, NEW p \in Prices, SaveOffer(a, i, p)
    PROVE  IInv'
<1>1. offer.rev \in Nat
  BY DEF IInv, TypeOK, Offer
<1>2. offer' = [item |-> i, price |-> p, rev |-> offer.rev + 1] /\ item[i] # None
      /\ UNCHANGED <<sheet, item, object, quote, upgrade, audit, edit>>
  BY DEF SaveOffer, Sellable
<1>3. offer' \in Offer /\ offer'.item = i /\ offer'.rev > offer.rev
  BY <1>1, <1>2 DEF Offer
<1>4. /\ event' \in [Actions -> Event \cup {None}] /\ event'[a].type = "economy.offer"
      /\ \A b \in Actions \ {a} : event'[b] = event[b]
  <2>1. Record(a, "economy.offer", None, None, 0, 0) /\ event \in [Actions -> Event \cup {None}]
    BY DEF SaveOffer, IInv, TypeOK
  <2> QED
    BY <2>1, RecordFields
<1>5. TypeOK'
  BY <1>2, <1>3, <1>4 DEF IInv, TypeOK
<1>6. ObjectKeepsItsItem' /\ Fresh' = Fresh
  BY <1>2 DEF IInv, ObjectKeepsItsItem, Fresh
<1>7. \A b \in Actions : event'[b] # None /\ event'[b].type = "entry.roll" =>
          event'[b] = event[b] \/ event'[b].key \in Items \X Nat
  BY <1>4
<1>8. item' = item /\ quote' = quote /\ edit' = edit
  BY <1>2
<1> QED
  BY <1>3, <1>5, <1>6, <1>7, <1>8, ItemsKeepIInv

(* A write of one existing row, under a higher revision.                   *)
LEMMA OneRowKeepsIInv ==
    ASSUME IInv, UNCHANGED <<quote, offer>>, NEW i \in Items, NEW x \in Stack,
           item[i] # None, x.rev > item[i].rev, item' = [item EXCEPT ![i] = x],
           sheet' \in [Characters -> Purse], object' \in [Items -> Object \cup {None}],
           ObjectKeepsItsItem', upgrade' \in [Upgrades -> Upgrade \cup {None}],
           audit' \in [Actions -> SUBSET Change], \A b \in Actions : audit[b] \subseteq audit'[b],
           edit' \in [Edits -> Edit \cup {None}], \A e \in Edits : edit'[e] \in {edit[e], None},
           event' \in [Actions -> Event \cup {None}],
           \A b \in Actions : event'[b] # None /\ event'[b].type = "entry.roll" =>
               event'[b] = event[b] \/ event'[b].key \in Items \X Nat
    PROVE  IInv'
<1>1. /\ item' \in [Items -> Stack \cup {None}] /\ item'[i] = x
      /\ \A j \in Items \ {i} : item'[j] = item[j]
  BY DEF IInv, TypeOK
<1>2. x # None
  BY Constants
<1>3. TypeOK'
  BY <1>1, <1>2 DEF IInv, TypeOK
<1>4. \A j \in Items : item[j] # None /\ item'[j] # None =>
          item'[j] = item[j] \/ item'[j].rev > item[j].rev
  BY <1>1
<1>5. \A j \in Items : item[j] = None /\ item'[j] # None => j \in Fresh
  BY <1>1
<1>6. \A j \in Items : item'[j] = None /\ j \in Fresh' => item[j] = None /\ j \in Fresh
  BY <1>1, <1>2 DEF Fresh
<1> QED
  BY <1>3, <1>4, <1>5, <1>6, ItemsKeepIInv

LEMMA UseUpKeepsIInv ==
    ASSUME IInv, NEW a \in Actions, NEW i \in Items, UseUp(a, i) PROVE IInv'
<1>1. /\ item \in [Items -> Stack \cup {None}] /\ object \in [Items -> Object \cup {None}]
      /\ event \in [Actions -> Event \cup {None}] /\ ObjectKeepsItsItem
      /\ sheet \in [Characters -> Purse] /\ upgrade \in [Upgrades -> Upgrade \cup {None}]
      /\ audit \in [Actions -> SUBSET Change] /\ edit \in [Edits -> Edit \cup {None}]
  BY DEF IInv, TypeOK
<1>2. item[i] # None /\ object[i] # None /\ item[i] \in Stack /\ object[i] \in Object
  BY <1>1 DEF UseUp
<1>3. PICK r \in Nat : r = item[i].rev + 1 /\ r > item[i].rev
  BY <1>2 DEF Stack
<1>4. item' = [item EXCEPT ![i] = Row(0, None, r)] /\ Record(a, "entry.roll", <<i, r>>, None, 0, 0)
      /\ UNCHANGED <<sheet, offer, quote, upgrade, audit, edit>>
  BY <1>1, <1>3 DEF UseUp
<1>5. Row(0, None, r) \in Stack /\ Row(0, None, r).rev = r
  BY <1>3 DEF Row, Stack
<1>6. /\ object' \in [Items -> Object \cup {None}] /\ ~object'[i].active
      /\ \A j \in Items \ {i} : object'[j] = object[j]
  <2>1. [object[i] EXCEPT !.active = FALSE] \in Object
    BY <1>2 DEF Object
  <2>2. object' = [object EXCEPT ![i] = [object[i] EXCEPT !.active = FALSE]]
    BY <1>1 DEF UseUp
  <2>3. ~[object[i] EXCEPT !.active = FALSE].active
    BY <1>2 DEF Object
  <2> QED
    BY <1>1, <2>1, <2>2, <2>3
<1>7. ObjectKeepsItsItem'
  <2>1. \A j \in Items \ {i} : item'[j] = item[j]
    BY <1>1, <1>4
  <2> QED
    BY <1>1, <1>6, <2>1 DEF ObjectKeepsItsItem
<1>8. /\ event' \in [Actions -> Event \cup {None}] /\ event'[a].key = <<i, r>>
      /\ \A b \in Actions \ {a} : event'[b] = event[b]
  <2>1. PICK key \in Items \X Nat : key = <<i, r>>
    BY <1>3
  <2> QED
    BY <1>1, <1>4, <2>1, RecordFields
<1>9. \A b \in Actions : event'[b] # None /\ event'[b].type = "entry.roll" =>
          event'[b] = event[b] \/ event'[b].key \in Items \X Nat
  <2>1. <<i, r>> \in Items \X Nat
    BY <1>3
  <2> QED
    BY <1>8, <2>1
<1> QED
  BY <1>1, <1>2, <1>3, <1>4, <1>5, <1>6, <1>7, <1>8, <1>9, OneRowKeepsIInv

LEMMA UndoUseKeepsIInv ==
    ASSUME IInv, NEW a \in Actions, NEW b \in Actions, UndoUse(a, b) PROVE IInv'
<1>1. /\ item \in [Items -> Stack \cup {None}] /\ object \in [Items -> Object \cup {None}]
      /\ event \in [Actions -> Event \cup {None}] /\ ObjectKeepsItsItem
      /\ sheet \in [Characters -> Purse] /\ upgrade \in [Upgrades -> Upgrade \cup {None}]
      /\ audit \in [Actions -> SUBSET Change] /\ edit \in [Edits -> Edit \cup {None}]
  BY DEF IInv, TypeOK
<1>2. event[b].key \in Items \X Nat
  BY DEF UndoUse, IInv
<1>3. PICK i \in Items, s \in Nat : i = event[b].key[1] /\ s = event[b].key[2]
  BY <1>2
<1>4. /\ object[i] # None /\ item[i] = Row(0, None, s)
      /\ object' = [object EXCEPT ![i].active = TRUE]
      /\ item' = [item EXCEPT ![i] = Row(1, object[i].maker, @.rev + 1)]
      /\ Record(a, "entry.undo", b, None, 0, 0)
      /\ UNCHANGED <<sheet, offer, quote, upgrade, audit, edit>>
  BY <1>3 DEF UndoUse
<1>5. item[i] \in Stack /\ item[i].rev = s
  BY <1>3, <1>4 DEF Row, Stack
<1>6. object[i] \in Object /\ item[i] # None
  BY <1>1, <1>4, <1>5, Constants
<1>7. PICK c \in Characters : c = object[i].maker
  BY <1>6 DEF Object
<1>8. PICK x : x = Row(1, c, s + 1)
  OBVIOUS
<1>9. x \in Stack /\ x.rev > item[i].rev /\ x.qty = 1 /\ x.holder = c
  BY <1>5, <1>8 DEF Row, Stack
<1>10. /\ object' \in [Items -> Object \cup {None}] /\ object'[i].maker = c
       /\ \A j \in Items \ {i} : object'[j] = object[j]
  <2>1. [object[i] EXCEPT !.active = TRUE] \in Object /\ [object[i] EXCEPT !.active = TRUE].maker = c
    BY <1>6, <1>7 DEF Object
  <2>2. object' = [object EXCEPT ![i] = [object[i] EXCEPT !.active = TRUE]]
    BY <1>1, <1>4
  <2> QED
    BY <1>1, <2>1, <2>2
<1>11. item' = [item EXCEPT ![i] = x]
  <2>1. item' = [item EXCEPT ![i] = Row(1, object[i].maker, item[i].rev + 1)]
    BY <1>1, <1>4
  <2> QED
    BY <1>5, <1>7, <1>8, <2>1
<1>12. ObjectKeepsItsItem'
  <2>1. item'[i] = x /\ \A j \in Items \ {i} : item'[j] = item[j]
    BY <1>1, <1>11
  <2>2. item'[i] # None
    BY <1>9, <2>1, Constants
  <2> QED
    BY <1>1, <1>9, <1>10, <2>1, <2>2 DEF ObjectKeepsItsItem
<1>13. /\ event' \in [Actions -> Event \cup {None}] /\ event'[a].type = "entry.undo"
       /\ \A d \in Actions \ {a} : event'[d] = event[d]
  <2> DEFINE undo == [type |-> "entry.undo", key |-> b, char |-> None, coins |-> 0, sp |-> 0]
  <2>1. undo \in Event /\ undo.type = "entry.undo"
    BY DEF Event
  <2>2. event' = [event EXCEPT ![a] = undo]
    BY <1>4 DEF Record
  <2> HIDE DEF undo
  <2> QED
    BY <1>1, <2>1, <2>2
<1>14. \A d \in Actions : event'[d] # None /\ event'[d].type = "entry.roll" =>
           event'[d] = event[d] \/ event'[d].key \in Items \X Nat
  BY <1>13
<1> QED
  BY <1>1, <1>4, <1>6, <1>9, <1>10, <1>12, <1>13, <1>14, <1>11, OneRowKeepsIInv

(* The GM's edit of an item: the row is still the one that was read.       *)
LEMMA WriteItemKeepsIInv ==
    ASSUME IInv, NEW e \in Edits, NEW a \in Actions, WriteItem(e, a) PROVE IInv'
<1>1. /\ item \in [Items -> Stack \cup {None}] /\ object \in [Items -> Object \cup {None}]
      /\ event \in [Actions -> Event \cup {None}] /\ ObjectKeepsItsItem
      /\ sheet \in [Characters -> Purse] /\ upgrade \in [Upgrades -> Upgrade \cup {None}]
      /\ audit \in [Actions -> SUBSET Change] /\ edit \in [Edits -> Edit \cup {None}]
  BY DEF IInv, TypeOK
<1>2. /\ edit[e].row \in Items /\ edit[e].was \in Stack
      /\ edit[e].to \in Nat \X (Characters \cup {None})
  BY EditKinds DEF WriteItem, IInv
<1>3. PICK i \in Items, n \in Nat, c \in Characters \cup {None}, w \in Stack :
          i = edit[e].row /\ <<n, c>> = edit[e].to /\ w = edit[e].was
  BY <1>2
<1>4. /\ Unused(a) /\ KeepsBinding(i, w, <<n, c>>) /\ item[i] # None /\ item[i].rev = w.rev
      /\ item' = [item EXCEPT ![i] = Row(n, c, w.rev + 1)]
      /\ Audit(a, {[item |-> i, by |-> n - w.qty]})
      /\ edit' = [edit EXCEPT ![e] = None]
      /\ UNCHANGED <<sheet, object, offer, quote, upgrade, event>>
  <2>1. edit[e].to[1] = n /\ edit[e].to[2] = c
    BY <1>3
  <2>2. /\ Unused(a) /\ KeepsBinding(i, w, edit[e].to) /\ ItemUnmoved(i, w)
        /\ item' = [item EXCEPT ![i] = Row(edit[e].to[1], edit[e].to[2], w.rev + 1)]
        /\ Audit(a, {[item |-> i, by |-> edit[e].to[1] - w.qty]})
        /\ edit' = [edit EXCEPT ![e] = None]
        /\ UNCHANGED <<sheet, object, offer, quote, upgrade, event>>
    BY <1>3 DEF WriteItem
  <2> QED
    BY <1>3, <2>1, <2>2 DEF ItemUnmoved
<1>5. item[i] = w
  <2>1. EditAgrees(e)
    BY DEF WriteItem, IInv
  <2> QED
    BY <1>3, <1>4, <2>1 DEF EditAgrees
<1>6. w.rev + 1 \in Nat /\ w.rev + 1 > item[i].rev /\ n - w.qty \in Int
  BY <1>5 DEF Stack
<1>7. /\ Row(n, c, w.rev + 1) \in Stack /\ Row(n, c, w.rev + 1).rev = w.rev + 1
      /\ Row(n, c, w.rev + 1).qty = n /\ Row(n, c, w.rev + 1).holder = c
  BY <1>6, RowFields
<1>8. ObjectKeepsItsItem'
  <2>1. item'[i] = Row(n, c, w.rev + 1) /\ \A j \in Items \ {i} : item'[j] = item[j]
    BY <1>1, <1>4
  <2>2. object[i] # None => n = w.qty /\ c = w.holder
    BY <1>4 DEF KeepsBinding
  <2>3. item'[i] # None
    BY <1>7, <2>1, Constants
  <2> QED
    BY <1>1, <1>4, <1>5, <1>7, <2>1, <2>2, <2>3 DEF ObjectKeepsItsItem
<1>9. /\ audit' \in [Actions -> SUBSET Change]
      /\ \A b \in Actions : audit[b] \subseteq audit'[b]
  <2>1. {[item |-> i, by |-> n - w.qty]} \in SUBSET Change
    BY <1>6 DEF Change
  <2> QED
    BY <1>1, <1>4, <2>1, AuditFields
<1>10. edit' \in [Edits -> Edit \cup {None}] /\ \A f \in Edits : edit'[f] \in {edit[f], None}
  BY <1>1, <1>4
<1> QED
  BY <1>1, <1>4, <1>6, <1>7, <1>8, <1>9, <1>10, OneRowKeepsIInv

(* The deletion of an item: its number stays in the audit, so that no later *)
(* row is taken for it, and an offer of it goes with it.                   *)
LEMMA DeleteItemKeepsIInv ==
    ASSUME IInv, NEW e \in Edits, NEW a \in Actions, DeleteItem(e, a) PROVE IInv'
<1>1. /\ item \in [Items -> Stack \cup {None}] /\ object \in [Items -> Object \cup {None}]
      /\ ObjectKeepsItsItem /\ offer \in Offer /\ (offer.item # None => item[offer.item] # None)
      /\ audit \in [Actions -> SUBSET Change] /\ edit \in [Edits -> Edit \cup {None}]
  BY DEF IInv, TypeOK
<1>2. edit[e].row \in Items /\ edit[e].was \in Stack
  BY EditKinds DEF DeleteItem, IInv
<1>3. PICK i \in Items, w \in Stack : i = edit[e].row /\ w = edit[e].was
  BY <1>2
<1>4. /\ Unused(a) /\ object[i] = None /\ item[i] # None
      /\ item' = [item EXCEPT ![i] = None]
      /\ offer' = OfferWithout(i)
      /\ Audit(a, {[item |-> i, by |-> -w.qty]})
      /\ edit' = [edit EXCEPT ![e] = None]
      /\ UNCHANGED <<sheet, object, quote, upgrade, event>>
  BY <1>3 DEF DeleteItem, ItemUnmoved
<1>5. /\ item' \in [Items -> Stack \cup {None}] /\ item'[i] = None
      /\ \A j \in Items \ {i} : item'[j] = item[j]
  BY <1>1, <1>4
<1>6. -w.qty \in Int
  BY DEF Stack
<1>7. /\ audit' \in [Actions -> SUBSET Change] /\ audit'[a] = {[item |-> i, by |-> -w.qty]}
      /\ \A b \in Actions : audit[b] \subseteq audit'[b]
  <2>1. {[item |-> i, by |-> -w.qty]} \in SUBSET Change
    BY <1>6 DEF Change
  <2> QED
    BY <1>1, <1>4, <2>1, AuditFields
<1>8. /\ offer' \in Offer /\ (offer'.item # None => item'[offer'.item] # None)
      /\ \/ offer' = offer
         \/ offer'.rev = offer.rev /\ offer'.price = offer.price /\ offer'.item = None
  <2>1. CASE offer.item = i
    <3>1. offer' = [offer EXCEPT !.item = None]
      BY <1>4, <2>1 DEF OfferWithout
    <3> QED
      BY <1>1, <3>1 DEF Offer
  <2>2. CASE offer.item # i
    <3>1. offer' = offer /\ offer.item \in Items \cup {None}
      BY <1>1, <1>4, <2>2 DEF OfferWithout, Offer
    <3> QED
      BY <1>1, <1>5, <2>2, <3>1
  <2> QED
    BY <2>1, <2>2
<1>9. edit' \in [Edits -> Edit \cup {None}] /\ \A f \in Edits : edit'[f] \in {edit[f], None}
  BY <1>1, <1>4
<1>10. TypeOK'
  BY <1>4, <1>5, <1>7, <1>8, <1>9 DEF IInv, TypeOK
<1>11. ObjectKeepsItsItem'
  BY <1>1, <1>4, <1>5 DEF ObjectKeepsItsItem
<1>12. \A j \in Items : item'[j] = None /\ j \in Fresh' => item[j] = None /\ j \in Fresh
  <2>1. i \notin Fresh'
    <3>1. [item |-> i, by |-> -w.qty] \in audit'[a]
      BY <1>7
    <3>2. [item |-> i, by |-> -w.qty].item = i
      OBVIOUS
    <3> QED
      BY <3>1, <3>2 DEF Fresh
  <2> QED
    BY <1>5, <1>7, <2>1 DEF Fresh
<1>13. \A j \in Items : item'[j] # None => item'[j] = item[j]
  BY <1>5
<1>14. \A b \in Actions : event'[b] # None /\ event'[b].type = "entry.roll" =>
           event'[b] = event[b] \/ event'[b].key \in Items \X Nat
  BY <1>4
<1> QED
  BY <1>4, <1>8, <1>9, <1>10, <1>11, <1>12, <1>13, <1>14, ItemsKeepIInv

(* Crafting: one piece of a material goes, a new row and its object appear. *)
LEMMA CraftKeepsIInv ==
    ASSUME IInv, NEW a \in Actions, NEW q \in Quotes, NEW new \in Items, Craft(a, q, new)
    PROVE  IInv'
<1>1. /\ item \in [Items -> Stack \cup {None}] /\ object \in [Items -> Object \cup {None}]
      /\ event \in [Actions -> Event \cup {None}] /\ ObjectKeepsItsItem
      /\ sheet \in [Characters -> Purse] /\ upgrade \in [Upgrades -> Upgrade \cup {None}]
      /\ audit \in [Actions -> SUBSET Change] /\ edit \in [Edits -> Edit \cup {None}]
      /\ offer \in Offer /\ (offer.item # None => item[offer.item] # None)
  BY DEF IInv, TypeOK
<1>2. quote[q].char \in Characters /\ quote[q].item \in Items
  BY QuoteKinds DEF Craft, IInv
<1>3. PICK i \in Items, c \in Characters : i = quote[q].item /\ c = quote[q].char
  BY <1>2
<1>4. /\ Unused(a) /\ new \in Fresh /\ Material(c, i) /\ Pay(c, -Fee, -1)
      /\ item' = [item EXCEPT
             ![i] = Row(item[i].qty - 1, IF item[i].qty - 1 > 0 THEN c ELSE None, @.rev + 1),
             ![new] = Row(1, c, 0)]
      /\ object' = [object EXCEPT ![new] = [maker |-> c, active |-> TRUE]]
      /\ Record(a, "creation.operation", q, c, -Fee, -1)
      /\ Audit(a, {[item |-> i, by |-> -1], [item |-> new, by |-> 1]})
      /\ UNCHANGED <<offer, quote, upgrade, edit>>
  BY <1>3 DEF Craft
<1>5. /\ item[i] \in Stack /\ item[i] # None /\ item[i].qty \in Nat /\ item[i].qty >= 1
      /\ item[i].rev \in Nat /\ object[i] = None /\ item[new] = None /\ i # new
  BY <1>1, <1>4, FreshItem DEF Material, Stack
<1>6. PICK left \in Nat, h \in Characters \cup {None}, r \in Nat :
          /\ left = item[i].qty - 1 /\ r = item[i].rev + 1 /\ r > item[i].rev
          /\ h = IF left > 0 THEN c ELSE None
  BY <1>5
<1>7. PICK x, y : x = Row(left, h, r) /\ y = Row(1, c, 0)
  OBVIOUS
<1>8. x \in Stack /\ x.rev = r /\ y \in Stack /\ y.qty = 1 /\ y.holder = c
  BY <1>7 DEF Row, Stack
<1>9. item' = [item EXCEPT ![i] = x, ![new] = y]
  <2>1. item' = [item EXCEPT ![i] = Row(left, IF left > 0 THEN c ELSE None, item[i].rev + 1),
                             ![new] = Row(1, c, 0)]
    BY <1>1, <1>4, <1>6
  <2> QED
    BY <1>6, <1>7, <2>1
<1>10. /\ item' \in [Items -> Stack \cup {None}] /\ item'[i] = x /\ item'[new] = y
       /\ \A j \in Items \ {i, new} : item'[j] = item[j]
  BY <1>1, <1>5, <1>8, <1>9
<1>11. x # None /\ y # None
  BY <1>8, Constants
<1>12. /\ object' \in [Items -> Object \cup {None}] /\ object'[new].maker = c
       /\ \A j \in Items \ {new} : object'[j] = object[j]
  BY <1>1, <1>4 DEF Object
<1>13. ObjectKeepsItsItem'
  BY <1>1, <1>5, <1>8, <1>10, <1>11, <1>12 DEF ObjectKeepsItsItem
<1>14. sheet' \in [Characters -> Purse]
  <2>1. -Fee \in Int /\ -1 \in Int
    BY Constants
  <2> QED
    BY <1>1, <1>4, <2>1, PayKeepsType
<1>15. /\ event' \in [Actions -> Event \cup {None}] /\ event'[a].type = "creation.operation"
       /\ \A b \in Actions \ {a} : event'[b] = event[b]
  <2>1. PICK f \in Int, s \in Int : f = -Fee /\ s = -1
    BY Constants
  <2>2. Record(a, "creation.operation", q, c, f, s)
    BY <1>4, <2>1
  <2> QED
    BY <1>1, <2>2, RecordFields
<1>16. /\ audit' \in [Actions -> SUBSET Change]
       /\ \A b \in Actions : audit[b] \subseteq audit'[b]
  <2>1. {[item |-> i, by |-> -1], [item |-> new, by |-> 1]} \in SUBSET Change
    BY DEF Change
  <2> QED
    BY <1>1, <1>4, <2>1, AuditFields
<1>17. TypeOK'
  <2>1. offer.item # None => item'[offer.item] # None
    BY <1>1, <1>10, <1>11 DEF Offer
  <2> QED
    BY <1>1, <1>4, <1>10, <1>12, <1>14, <1>15, <1>16, <2>1 DEF IInv, TypeOK
<1>18. \A j \in Items : item[j] # None /\ item'[j] # None =>
           item'[j] = item[j] \/ item'[j].rev > item[j].rev
  BY <1>5, <1>6, <1>8, <1>10
<1>19. \A j \in Items : item[j] = None /\ item'[j] # None => j \in Fresh
  BY <1>4, <1>5, <1>10
<1>20. \A j \in Items : item'[j] = None /\ j \in Fresh' => item[j] = None /\ j \in Fresh
  BY <1>10, <1>11, <1>16 DEF Fresh
<1>21. \A b \in Actions : event'[b] # None /\ event'[b].type = "entry.roll" =>
           event'[b] = event[b] \/ event'[b].key \in Items \X Nat
  BY <1>15
<1>22. quote' = quote /\ offer' = offer /\ edit' = edit
  BY <1>4
<1> QED
  BY <1>13, <1>17, <1>18, <1>19, <1>20, <1>21, <1>22, ItemsKeepIInv

-----------------------------------------------------------------------------
(* The theorems.                                                           *)

LEMMA InitIInv == Init => IInv
<1> SUFFICES ASSUME Init PROVE IInv
  OBVIOUS
<1>1. sheet \in [Characters -> Purse]
  BY Constants DEF Init, Purse
<1>2. \A i \in Items : item[i] = IF Stock[i] = None THEN None ELSE Row(Stock[i], Owner[i], 0)
  BY DEF Init, Row
<1>3. item \in [Items -> Stack \cup {None}] /\ item[Listed] # None
  <2>1. ASSUME NEW i \in Items, Stock[i] # None PROVE item[i] \in Stack
    <3>1. Stock[i] \in Nat /\ Owner[i] \in Characters \cup {None}
      BY <2>1, Constants
    <3>2. item[i] = Row(Stock[i], Owner[i], 0)
      BY <1>2, <2>1
    <3> QED
      BY <3>1, <3>2 DEF Row, Stack
  <2>2. ASSUME NEW i \in Items, Stock[i] = None PROVE item[i] = None
    BY <1>2, <2>2
  <2>3. \A i \in Items : item[i] \in Stack \cup {None}
    BY <2>1, <2>2
  <2>4. item = [i \in Items |-> item[i]]
    BY DEF Init
  <2> QED
    BY <2>1, <2>3, <2>4, Constants
<1>4. offer \in Offer /\ offer.item = Listed
  BY Constants DEF Init, Offer
<1>5. TypeOK
  BY <1>1, <1>3, <1>4 DEF Init, TypeOK
<1> QED
  BY <1>5 DEF Init, IInv, ObjectKeepsItsItem

LEMMA NextIInv == IInv /\ [Next]_vars => IInv'
<1> SUFFICES ASSUME IInv, [Next]_vars PROVE IInv'
  OBVIOUS
<1>1. ASSUME NEW q \in Quotes, NEW c \in Characters,
             \/ \E n \in Quantities : QuoteEconomy(q, c, n)
             \/ \E i \in Items : QuoteCraft(q, c, i)
      PROVE  IInv'
  BY <1>1, QuoteEconomyKeepsIInv, QuoteCraftKeepsIInv
<1>2. ASSUME NEW a \in Actions, NEW q \in Quotes,
             \/ \E n \in Items : Purchase(a, q, n) \/ Craft(a, q, n)
             \/ CancelCraft(a, q)
      PROVE  IInv'
  BY <1>2, PurchaseKeepsIInv, CraftKeepsIInv, CancelCraftKeepsIInv
<1>3. ASSUME NEW a \in Actions, NEW i \in Items,
             UseUp(a, i) \/ \E p \in Prices : SaveOffer(a, i, p)
      PROVE  IInv'
  BY <1>3, UseUpKeepsIInv, SaveOfferKeepsIInv
<1>4. ASSUME NEW a \in Actions, NEW b \in Actions, UndoUse(a, b) PROVE IInv'
  BY <1>4, UndoUseKeepsIInv
<1>5. ASSUME NEW a \in Actions, NEW c \in Characters, GrantSP(a, c, 1) PROVE IInv'
  BY <1>5, GrantKeepsIInv
<1>6. ASSUME NEW a \in Actions, NEW u \in Upgrades,
             \/ \E c \in Characters : Submit(a, u, c, 1)
             \/ Counter(a, u, 2) \/ Consent(a, u) \/ Close(a, u) \/ Apply(a, u) \/ Reverse(a, u)
      PROVE  IInv'
  BY <1>6, ProgressionKeepsIInv
<1>7. ASSUME NEW e \in Edits, NEW a \in Actions,
             WriteWallet(e, a) \/ WriteItem(e, a) \/ DeleteItem(e, a)
      PROVE  IInv'
  BY <1>7, WriteWalletKeepsIInv, WriteItemKeepsIInv, DeleteItemKeepsIInv
<1>8. ASSUME NEW e \in Edits,
             \/ \E c \in Characters, n \in Coins : ReadWallet(e, c, n)
             \/ \E i \in Items : \/ ReadDelete(e, i)
                                \/ \E n \in Quantities, c \in Characters \cup {None} :
                                       ReadItem(e, i, n, c)
             \/ GiveUp(e)
      PROVE  IInv'
  BY <1>8, ReadsKeepIInv
<1>9. CASE UNCHANGED vars
  <2>1. TypeOK' /\ ObjectKeepsItsItem'
    BY <1>9 DEF vars, IInv, TypeOK, ObjectKeepsItsItem
  <2> QED
    BY <1>9, <2>1, QuietKeepsIInv DEF vars, ItemsAlone
<1>10. CASE Next
  BY <1>1, <1>2, <1>3, <1>4, <1>5, <1>6, <1>7, <1>8, <1>10 DEF Next
<1> QED
  BY <1>9, <1>10

\* Every reachable state has the inductive invariant: what quotes and edits
\* have seen is what their rows hold for as long as the revision agrees
\* (economy-state.ts, world-content-instances.ts).
THEOREM Invariance == Spec => []IInv
  BY InitIInv, NextIInv, PTL DEF Spec

\* Wallets and stacks never go below zero, the offer is of a stack that is
\* there, and every row keeps its form (the checks of schema.ts).
THEOREM TypeCorrect == Spec => []TypeOK
<1>1. IInv => TypeOK
  BY DEF IInv
<1> QED
  BY <1>1, Invariance, PTL

\* A created object in use keeps its item, whole and with its maker, whatever
\* shops, edits, deletions and undo do (creation-consumption.ts).
THEOREM ObjectKeepsItem == Spec => []ObjectKeepsItsItem
<1>1. IInv => ObjectKeepsItsItem
  BY DEF IInv
<1> QED
  BY <1>1, Invariance, PTL

Shown(a) ==
    event[a] = None /\ event'[a] # None /\ event'[a].type = "economy.purchase" =>
        LET k == quote[event'[a].key] IN
            /\ event'[a].coins = -k.total
            /\ offer.item = k.item /\ k.total = k.n * offer.price
            /\ item[k.item].holder = None
            /\ item'[k.item].qty = item[k.item].qty - k.n

LEMMA PurchaseIsShown ==
    ASSUME IInv, NEW b \in Actions, NEW q \in Quotes, NEW new \in Items, Purchase(b, q, new),
           NEW a \in Actions
    PROVE  Shown(a)
<1>1. event \in [Actions -> Event \cup {None}]
  BY DEF IInv, TypeOK
<1>2. PICK total : total = -(quote[q].n * offer.price)
  OBVIOUS
<1>3. Record(b, "economy.purchase", q, quote[q].char, total, 0)
  BY <1>2 DEF Purchase
<1>4. event'[b].key = q /\ event'[b].coins = total /\ (a # b => event'[a] = event[a])
  BY <1>1, <1>3 DEF Record
<1>5. PICK i \in Items : i = offer.item
  BY DEF Purchase, Sellable, IInv, TypeOK, Offer
<1>6. quote[q] # None /\ quote[q].kind = "BUY" /\ Inputs(quote[q].char, quote[q].n) = quote[q].seen
  BY DEF Purchase
<1>7. QuoteAgrees(q)
  BY <1>6 DEF IInv
<1>8. quote[q].seen.price = offer.price /\ quote[q].seen.offer = offer.rev
  BY <1>6 DEF Inputs
<1>9. quote[q].item = i /\ quote[q].total = quote[q].n * offer.price
  BY <1>5, <1>7, <1>8, Constants DEF QuoteAgrees
<1>10. item[i].holder = None /\ item'[i].qty = item[i].qty - quote[q].n
  BY <1>5, PurchaseRows
<1> QED
  BY <1>2, <1>4, <1>5, <1>9, <1>10 DEF Shown

LEMMA OthersBuyNothing ==
    ASSUME IInv, NEW a \in Actions, NEW b \in Actions, NEW type, NEW key, NEW c, NEW coins, NEW sp,
           type # "economy.purchase", Record(b, type, key, c, coins, sp)
    PROVE  Shown(a)
<1>1. event \in [Actions -> Event \cup {None}]
  BY DEF IInv, TypeOK
<1> QED
  BY <1>1 DEF Record, Shown

LEMMA NextIsShown ==
    ASSUME IInv, [Next]_vars, NEW a \in Actions
    PROVE  Shown(a)
<1>1. CASE event' = event
  BY <1>1 DEF Shown
<1>2. ASSUME NEW b \in Actions, NEW q \in Quotes,
             \/ \E n \in Items : Purchase(b, q, n) \/ Craft(b, q, n)
             \/ CancelCraft(b, q)
      PROVE  Shown(a)
  <2>1. ASSUME NEW n \in Items, Craft(b, q, n) PROVE Shown(a)
    BY <2>1, OthersBuyNothing DEF Craft
  <2>2. CASE CancelCraft(b, q)
    BY <2>2, OthersBuyNothing DEF CancelCraft
  <2> QED
    BY <1>2, <2>1, <2>2, PurchaseIsShown
<1>3. ASSUME NEW b \in Actions, NEW i \in Items,
             UseUp(b, i) \/ \E p \in Prices : SaveOffer(b, i, p)
      PROVE  Shown(a)
  <2>1. CASE UseUp(b, i)
    BY <2>1, OthersBuyNothing DEF UseUp
  <2>2. ASSUME NEW p \in Prices, SaveOffer(b, i, p) PROVE Shown(a)
    BY <2>2, OthersBuyNothing DEF SaveOffer
  <2> QED
    BY <1>3, <2>1, <2>2
<1>4. ASSUME NEW b \in Actions, NEW d \in Actions, UndoUse(b, d) PROVE Shown(a)
  BY <1>4, OthersBuyNothing DEF UndoUse
<1>5. ASSUME NEW b \in Actions, NEW c \in Characters, GrantSP(b, c, 1) PROVE Shown(a)
  BY <1>5, OthersBuyNothing DEF GrantSP, Ledger
<1>6. ASSUME NEW b \in Actions, NEW u \in Upgrades,
             \/ \E c \in Characters : Submit(b, u, c, 1)
             \/ Counter(b, u, 2) \/ Consent(b, u) \/ Close(b, u) \/ Apply(b, u) \/ Reverse(b, u)
      PROVE  Shown(a)
  <2>1. ASSUME NEW key, NEW c, NEW sp, Ledger(b, key, c, sp) PROVE Shown(a)
    BY <2>1, OthersBuyNothing DEF Ledger
  <2>2. \E key, c, sp : Ledger(b, key, c, sp)
    BY <1>6 DEF Submit, Counter, Consent, Close, Apply, Reverse
  <2> QED
    BY <2>1, <2>2
<1>7. ASSUME NEW e \in Edits, NEW b \in Actions,
             WriteWallet(e, b) \/ WriteItem(e, b) \/ DeleteItem(e, b)
      PROVE  Shown(a)
  <2>1. CASE WriteWallet(e, b)
    BY <2>1, OthersBuyNothing DEF WriteWallet
  <2>2. CASE WriteItem(e, b) \/ DeleteItem(e, b)
    BY <1>1, <2>2 DEF WriteItem, DeleteItem
  <2> QED
    BY <1>7, <2>1, <2>2
<1>8. ASSUME NEW e \in Edits,
             \/ \E c \in Characters, n \in Coins : ReadWallet(e, c, n)
             \/ \E i \in Items : \/ ReadDelete(e, i)
                                \/ \E n \in Quantities, c \in Characters \cup {None} :
                                       ReadItem(e, i, n, c)
             \/ GiveUp(e)
      PROVE  event' = event
  BY <1>8 DEF ReadWallet, ReadDelete, ReadItem, GiveUp
<1>9. ASSUME NEW q \in Quotes, NEW c \in Characters,
             \/ \E n \in Quantities : QuoteEconomy(q, c, n)
             \/ \E i \in Items : QuoteCraft(q, c, i)
      PROVE  event' = event
  BY <1>9 DEF QuoteEconomy, QuoteCraft
<1>10. CASE UNCHANGED vars
  BY <1>1, <1>10 DEF vars
<1>11. CASE Next
  BY <1>1, <1>2, <1>3, <1>4, <1>5, <1>6, <1>7, <1>8, <1>9, <1>11 DEF Next
<1> QED
  BY <1>10, <1>11

\* A buyer pays what his quote said for the stack it was made from, at the
\* price of the moment (purchaseEconomy in economy-purchase.ts).
THEOREM PurchaseAsShown == Spec => SoldAsShown
<1>1. IInv /\ [Next]_vars =>
          [\A a \in Actions : event[a] = None /\ event'[a] # None
                              /\ event'[a].type = "economy.purchase" =>
               LET k == quote[event'[a].key] IN
                   /\ event'[a].coins = -k.total
                   /\ offer.item = k.item /\ k.total = k.n * offer.price
                   /\ item[k.item].holder = None
                   /\ item'[k.item].qty = item[k.item].qty - k.n]_vars
  BY NextIsShown DEF Shown
<1> QED
  BY <1>1, Invariance, PTL DEF Spec, SoldAsShown

-----------------------------------------------------------------------------
(* Sums over finite sets.                                                  *)

(* The equation of the recursive function inside a sum.                     *)
Picked(s) == CHOOSE x \in s : TRUE
Others(s) == s \ {Picked(s)}
Adds(f, S, g) == g = [s \in SUBSET S |-> IF s = {} THEN 0 ELSE f[Picked(s)] + g[Others(s)]]

(* A sum is the value of a function that satisfies the equation.            *)
LEMMA SumIsChosen ==
    ASSUME NEW f, NEW S
    PROVE  Sum(f, S) = (CHOOSE g : Adds(f, S, g))[S]
  BY DEF Sum, MapThenSumSet, MapThenFoldSet, Adds, Picked, Others

(* Induction over the subsets of a finite set.                              *)
LEMMA SmallestSet ==
    ASSUME NEW S, IsFiniteSet(S), NEW B, B \subseteq SUBSET S, B # {}
    PROVE  \E T \in B : \A U \in SUBSET T : U # T => U \notin B
<1>1. IsWellFoundedOn(StrictSubsetOrdering(S), SUBSET S)
  BY FS_StrictSubsetOrderingWellFounded, FS_FiniteSubsetsOfFinite, Zenon
<1>2. PICK T \in B : \A U \in B : <<U, T>> \notin StrictSubsetOrdering(S)
  BY <1>1, WFMin, Zenon
<1>3. ASSUME NEW U \in SUBSET T, U # T, U \in B
      PROVE  FALSE
  <2>1. <<U, T>> \in StrictSubsetOrdering(S)
    BY <1>3 DEF StrictSubsetOrdering
  <2> QED BY <2>1, <1>2, <1>3
<1> QED BY <1>3

LEMMA PickedIsMember ==
    ASSUME NEW s, s # {}
    PROVE  Picked(s) \in s /\ Others(s) \in SUBSET s /\ Others(s) # s
  BY DEF Picked, Others

(* Two functions that satisfy the equation agree where both are defined.    *)
LEMMA SumIsUnique ==
    ASSUME NEW f, NEW A, NEW g, Adds(f, A, g), NEW C, NEW h, Adds(f, C, h),
           NEW S, IsFiniteSet(S), S \in SUBSET A, S \in SUBSET C
    PROVE  g[S] = h[S]
<1> DEFINE B == {T \in SUBSET S : g[T] # h[T]}
<1>1. SUFFICES ASSUME B # {} PROVE FALSE
  OBVIOUS
<1>0. B \subseteq SUBSET S
  OBVIOUS
<1> HIDE DEF B
<1>2. PICK T \in B : \A U \in SUBSET T : U # T => U \notin B
  BY <1>1, <1>0, SmallestSet
<1> USE DEF B
<1>3. /\ g[T] = IF T = {} THEN 0 ELSE f[Picked(T)] + g[Others(T)]
      /\ h[T] = IF T = {} THEN 0 ELSE f[Picked(T)] + h[Others(T)]
  BY DEF Adds
<1>4. T # {} => g[Others(T)] = h[Others(T)]
  BY <1>2, PickedIsMember
<1> QED BY <1>2, <1>3, <1>4

(* Over a finite set there is one, and so a sum satisfies the equation.     *)
LEMMA SumExists ==
    ASSUME NEW f, NEW S, IsFiniteSet(S)
    PROVE  \E g : Adds(f, S, g)
<1> DEFINE B == {T \in SUBSET S : ~\E g : Adds(f, T, g)}
<1>1. SUFFICES ASSUME B # {} PROVE FALSE
  OBVIOUS
<1>0. B \subseteq SUBSET S
  OBVIOUS
<1> HIDE DEF B
<1>2. PICK T \in B : \A U \in SUBSET T : U # T => U \notin B
  BY <1>1, <1>0, SmallestSet
<1> USE DEF B
<1> DEFINE Body(s) == IF s = {} THEN 0 ELSE f[Picked(s)] + Sum(f, Others(s))
           G == [s \in SUBSET T |-> Body(s)]
<1>3. ASSUME NEW U \in SUBSET T, U # T
      PROVE  Sum(f, U) = Body(U)
  <2>1. \A V \in SUBSET U : Adds(f, V, CHOOSE g : Adds(f, V, g)) /\ IsFiniteSet(V)
    <3>1. TAKE V \in SUBSET U
    <3>2. V \in SUBSET T /\ V # T
      BY <1>3
    <3>3. \E g : Adds(f, V, g)
      BY <3>2, <1>2
    <3>4. IsFiniteSet(V)
      BY <3>2, FS_Subset
    <3> QED BY <3>3, <3>4
  <2> DEFINE h == CHOOSE g : Adds(f, U, g)
  <2>2. Adds(f, U, h)
    BY <2>1
  <2> HIDE DEF h
  <2>3. h[U] = IF U = {} THEN 0 ELSE f[Picked(U)] + h[Others(U)]
    BY <2>2 DEF Adds
  <2>4. U # {} => h[Others(U)] = Sum(f, Others(U))
    <3>1. HAVE U # {}
    <3>2. Others(U) \in SUBSET U
      BY <3>1, PickedIsMember
    <3> DEFINE k == CHOOSE g : Adds(f, Others(U), g)
    <3>3. Adds(f, Others(U), k) /\ IsFiniteSet(Others(U))
      BY <2>1, <3>2
    <3>4. Sum(f, Others(U)) = k[Others(U)]
      BY SumIsChosen
    <3> HIDE DEF k
    <3>5. k[Others(U)] = h[Others(U)]
      BY <3>2, <3>3, <2>2, SumIsUnique
    <3> QED BY <3>4, <3>5
  <2>5. Sum(f, U) = h[U]
    BY SumIsChosen DEF h
  <2> QED BY <2>3, <2>4, <2>5
<1>4. ASSUME NEW s \in SUBSET T, s # {}
      PROVE  G[Others(s)] = Sum(f, Others(s))
  <2>1. Others(s) \in SUBSET T /\ Others(s) # T
    BY <1>4, PickedIsMember
  <2> QED BY <2>1, <1>3
<1>5. Adds(f, T, G)
  BY <1>4 DEF Adds
<1> QED BY <1>2, <1>5

LEMMA SumDef ==
    ASSUME NEW f, NEW S, IsFiniteSet(S)
    PROVE  Sum(f, S) = IF S = {} THEN 0 ELSE f[Picked(S)] + Sum(f, Others(S))
<1> DEFINE h(V) == CHOOSE g : Adds(f, V, g)
<1>1. \A V \in SUBSET S : Adds(f, V, h(V)) /\ IsFiniteSet(V)
  BY SumExists, FS_Subset
<1>2. \A V : Sum(f, V) = h(V)[V]
  BY SumIsChosen
<1> HIDE DEF h
<1>3. h(S)[S] = IF S = {} THEN 0 ELSE f[Picked(S)] + h(S)[Others(S)]
  BY <1>1 DEF Adds
<1>4. S # {} => h(S)[Others(S)] = h(Others(S))[Others(S)]
  BY <1>1, PickedIsMember, SumIsUnique
<1> QED BY <1>2, <1>3, <1>4

LEMMA SumOfNone == ASSUME NEW f PROVE Sum(f, {}) = 0
  BY SumDef, FS_EmptySet

LEMMA SumIsInt ==
    ASSUME NEW f, NEW S, IsFiniteSet(S), \A x \in S : f[x] \in Int
    PROVE  Sum(f, S) \in Int
<1> DEFINE B == {T \in SUBSET S : Sum(f, T) \notin Int}
<1>1. SUFFICES ASSUME B # {} PROVE FALSE
  OBVIOUS
<1>2. B \subseteq SUBSET S
  OBVIOUS
<1> HIDE DEF B
<1>3. PICK T \in B : \A U \in SUBSET T : U # T => U \notin B
  BY <1>1, <1>2, SmallestSet
<1> USE DEF B
<1>4. Sum(f, T) = IF T = {} THEN 0 ELSE f[Picked(T)] + Sum(f, Others(T))
  BY SumDef, FS_Subset
<1>5. T # {} => Sum(f, Others(T)) \in Int /\ f[Picked(T)] \in Int
  BY <1>3, PickedIsMember
<1> QED BY <1>3, <1>4, <1>5

(* The order of the elements does not matter.                               *)
LEMMA SumWithout ==
    ASSUME NEW f, NEW S, IsFiniteSet(S), \A x \in S : f[x] \in Int, NEW y \in S
    PROVE  Sum(f, S) = f[y] + Sum(f, S \ {y})
<1> DEFINE B == {T \in SUBSET S : \E x \in T : Sum(f, T) # f[x] + Sum(f, T \ {x})}
<1>1. SUFFICES ASSUME B # {} PROVE FALSE
  OBVIOUS
<1>2. B \subseteq SUBSET S
  OBVIOUS
<1> HIDE DEF B
<1>3. PICK T \in B : \A U \in SUBSET T : U # T => U \notin B
  BY <1>1, <1>2, SmallestSet
<1> USE DEF B
<1>4. PICK x \in T : Sum(f, T) # f[x] + Sum(f, T \ {x})
  BY <1>3
<1> DEFINE z == Picked(T)
<1>5. z \in T /\ Others(T) = T \ {z} /\ Sum(f, T) = f[z] + Sum(f, T \ {z})
  BY SumDef, FS_Subset, PickedIsMember DEF Others
<1> HIDE DEF z
<1>6. z # x
  BY <1>4, <1>5
<1>7. Sum(f, T \ {z}) = f[x] + Sum(f, (T \ {z}) \ {x})
  <2>1. T \ {z} \in SUBSET T /\ T \ {z} # T /\ x \in T \ {z}
    BY <1>5, <1>6
  <2> QED BY <2>1, <1>3
<1>8. Sum(f, T \ {x}) = f[z] + Sum(f, (T \ {x}) \ {z})
  <2>1. T \ {x} \in SUBSET T /\ T \ {x} # T /\ z \in T \ {x}
    BY <1>5, <1>6
  <2> QED BY <2>1, <1>3
<1>9. (T \ {z}) \ {x} = (T \ {x}) \ {z}
  OBVIOUS
<1>10. f[x] \in Int /\ f[z] \in Int /\ Sum(f, (T \ {x}) \ {z}) \in Int
  <2> DEFINE R == (T \ {x}) \ {z}
  <2>1. IsFiniteSet(R) /\ \A w \in R : f[w] \in Int
    <3>1. R \in SUBSET S
      OBVIOUS
    <3> QED BY <3>1, FS_Subset
  <2> HIDE DEF R
  <2>2. Sum(f, R) \in Int
    BY <2>1, SumIsInt
  <2> QED BY <2>2, <1>5 DEF R
<1>11. Sum(f, T \ {z}) = f[x] + Sum(f, (T \ {x}) \ {z})
  BY <1>7, <1>9, Zenon
<1> HIDE DEF B
<1> QED BY <1>4, <1>5, <1>8, <1>10, <1>11

(* A sum depends on the values at its elements.                             *)
LEMMA SumOfEqual ==
    ASSUME NEW f, NEW g, NEW S, IsFiniteSet(S), \A x \in S : f[x] = g[x]
    PROVE  Sum(f, S) = Sum(g, S)
<1> DEFINE B == {T \in SUBSET S : Sum(f, T) # Sum(g, T)}
<1>1. SUFFICES ASSUME B # {} PROVE FALSE
  OBVIOUS
<1>2. B \subseteq SUBSET S
  OBVIOUS
<1> HIDE DEF B
<1>3. PICK T \in B : \A U \in SUBSET T : U # T => U \notin B
  BY <1>1, <1>2, SmallestSet
<1> USE DEF B
<1>4. /\ Sum(f, T) = IF T = {} THEN 0 ELSE f[Picked(T)] + Sum(f, Others(T))
      /\ Sum(g, T) = IF T = {} THEN 0 ELSE g[Picked(T)] + Sum(g, Others(T))
  BY SumDef, FS_Subset
<1>5. T # {} => Sum(f, Others(T)) = Sum(g, Others(T)) /\ f[Picked(T)] = g[Picked(T)]
  BY <1>3, PickedIsMember
<1> QED BY <1>3, <1>4, <1>5

(* One value of many changes.                                              *)
LEMMA SumOfChanged ==
    ASSUME NEW f, NEW g, NEW S, IsFiniteSet(S), NEW a \in S,
           \A x \in S : f[x] \in Int /\ g[x] \in Int, \A x \in S \ {a} : g[x] = f[x]
    PROVE  Sum(g, S) = Sum(f, S) - f[a] + g[a] /\ Sum(f, S) \in Int
<1>1. IsFiniteSet(S \ {a})
  BY FS_RemoveElement
<1>2. Sum(g, S \ {a}) = Sum(f, S \ {a})
  BY <1>1, SumOfEqual
<1>3. Sum(f, S) = f[a] + Sum(f, S \ {a}) /\ Sum(g, S) = g[a] + Sum(g, S \ {a})
  BY SumWithout
<1>4. Sum(f, S \ {a}) \in Int /\ f[a] \in Int /\ g[a] \in Int
  BY <1>1, SumIsInt
<1> QED BY <1>2, <1>3, <1>4

LEMMA SumOfZeros ==
    ASSUME NEW f, NEW S, IsFiniteSet(S), \A x \in S : f[x] = 0
    PROVE  Sum(f, S) = 0
<1> DEFINE B == {T \in SUBSET S : Sum(f, T) # 0}
<1>1. SUFFICES ASSUME B # {} PROVE FALSE
  OBVIOUS
<1>2. B \subseteq SUBSET S
  OBVIOUS
<1> HIDE DEF B
<1>3. PICK T \in B : \A U \in SUBSET T : U # T => U \notin B
  BY <1>1, <1>2, SmallestSet
<1> USE DEF B
<1>4. Sum(f, T) = IF T = {} THEN 0 ELSE f[Picked(T)] + Sum(f, Others(T))
  BY SumDef, FS_Subset
<1>5. T # {} => Sum(f, Others(T)) = 0 /\ f[Picked(T)] = 0
  BY <1>3, PickedIsMember
<1> QED BY <1>3, <1>4, <1>5

-----------------------------------------------------------------------------
(* What the journal books on a wallet.                                     *)

CoinsOf(c) == [a \in Actions |-> IF a \in Acts(c) THEN event[a].coins ELSE 0]
PointsOf(c) == [a \in Actions |-> IF a \in Acts(c) THEN event[a].sp ELSE 0]

LEMMA EventFields ==
    ASSUME event \in [Actions -> Event \cup {None}], NEW c \in Characters, NEW a \in Actions
    PROVE  /\ CoinsOf(c)[a] \in Int /\ PointsOf(c)[a] \in Int
           /\ event[a] = None => CoinsOf(c)[a] = 0 /\ PointsOf(c)[a] = 0
           /\ event[a] # None =>
                  /\ CoinsOf(c)[a] = IF event[a].char = c THEN event[a].coins ELSE 0
                  /\ PointsOf(c)[a] = IF event[a].char = c THEN event[a].sp ELSE 0
<1>1. event[a] # None => event[a].coins \in Int /\ event[a].sp \in Int
  BY DEF Event
<1>2. a \in Acts(c) <=> event[a] # None /\ event[a].char = c
  BY DEF Acts
<1> QED
  BY <1>1, <1>2 DEF CoinsOf, PointsOf

LEMMA BookedOnce ==
    ASSUME event \in [Actions -> Event \cup {None}], event' \in [Actions -> Event \cup {None}],
           NEW a \in Actions, event[a] = None, event'[a] # None,
           \A b \in Actions \ {a} : event'[b] = event[b], NEW c \in Characters
    PROVE  /\ Booked(c) \in Int /\ BookedSP(c) \in Int
           /\ event'[a].char = c => /\ Booked(c)' = Booked(c) + event'[a].coins
                                    /\ BookedSP(c)' = BookedSP(c) + event'[a].sp
           /\ event'[a].char # c => Booked(c)' = Booked(c) /\ BookedSP(c)' = BookedSP(c)
<1>1. \A b \in Actions : /\ CoinsOf(c)[b] \in Int /\ CoinsOf(c)'[b] \in Int
                         /\ PointsOf(c)[b] \in Int /\ PointsOf(c)'[b] \in Int
  <2>1. \A b \in Actions : CoinsOf(c)[b] \in Int /\ PointsOf(c)[b] \in Int
    BY EventFields
  <2>2. \A b \in Actions : event'[b] # None =>
            event'[b].coins \in Int /\ event'[b].sp \in Int
    BY DEF Event
  <2>3. \A b \in Actions : b \in Acts(c)' <=> event'[b] # None /\ event'[b].char = c
    BY DEF Acts
  <2>4. \A b \in Actions : CoinsOf(c)'[b] \in Int /\ PointsOf(c)'[b] \in Int
    BY <2>2, <2>3 DEF CoinsOf, PointsOf
  <2> QED
    BY <2>1, <2>4
<1>2. \A b \in Actions \ {a} : CoinsOf(c)'[b] = CoinsOf(c)[b] /\ PointsOf(c)'[b] = PointsOf(c)[b]
  BY DEF CoinsOf, PointsOf, Acts
<1>3. CoinsOf(c)[a] = 0 /\ PointsOf(c)[a] = 0
  BY EventFields
<1>4. /\ CoinsOf(c)'[a] = IF event'[a].char = c THEN event'[a].coins ELSE 0
      /\ PointsOf(c)'[a] = IF event'[a].char = c THEN event'[a].sp ELSE 0
  BY DEF CoinsOf, PointsOf, Acts
<1>5. IsFiniteSet(Actions)
  BY MarketAssumption
<1>6. /\ Booked(c) = Sum(CoinsOf(c), Actions) /\ Booked(c)' = Sum(CoinsOf(c)', Actions)
      /\ BookedSP(c) = Sum(PointsOf(c), Actions) /\ BookedSP(c)' = Sum(PointsOf(c)', Actions)
  BY DEF Booked, BookedSP, CoinsOf, PointsOf
<1> DEFINE f == CoinsOf(c)  g == CoinsOf(c)'  u == PointsOf(c)  v == PointsOf(c)'
<1>7. /\ \A b \in Actions : f[b] \in Int /\ g[b] \in Int /\ u[b] \in Int /\ v[b] \in Int
      /\ \A b \in Actions \ {a} : g[b] = f[b] /\ v[b] = u[b]
      /\ Booked(c) = Sum(f, Actions) /\ Booked(c)' = Sum(g, Actions)
      /\ BookedSP(c) = Sum(u, Actions) /\ BookedSP(c)' = Sum(v, Actions)
      /\ f[a] = 0 /\ u[a] = 0
      /\ g[a] = IF event'[a].char = c THEN event'[a].coins ELSE 0
      /\ v[a] = IF event'[a].char = c THEN event'[a].sp ELSE 0
  BY <1>1, <1>2, <1>3, <1>4, <1>6
<1> HIDE DEF f, g, u, v
<1>8. Sum(g, Actions) = Sum(f, Actions) - f[a] + g[a] /\ Sum(f, Actions) \in Int
  BY <1>5, <1>7, SumOfChanged
<1>9. Sum(v, Actions) = Sum(u, Actions) - u[a] + v[a] /\ Sum(u, Actions) \in Int
  BY <1>5, <1>7, SumOfChanged
<1>10. g[a] \in Int /\ v[a] \in Int
  BY <1>7
<1> QED
  BY <1>7, <1>8, <1>9, <1>10

(* The wallets and the stacks of the journal, and what an edit has read.   *)
WalletsAddUp ==
    \A c \in Characters : /\ sheet[c].coins = StartCoins + Booked(c)
                          /\ sheet[c].sp = StartSP + BookedSP(c)
StackAddsUp(i) ==
    (IF item[i] = None THEN 0 ELSE item[i].qty) + (IF Consumed(i) THEN 1 ELSE 0)
        = (IF Stock[i] = None THEN 0 ELSE Stock[i]) + Moved(i)
StacksAddUp == \A i \in Items : StackAddsUp(i)
AuditsAreFinite == \A a \in Actions : IsFiniteSet(audit[a])
WalletEditsAgree == \A e \in Edits : edit[e] # None /\ edit[e].op = "WALLET" => WalletAgrees(e)

LEMMA JournalParts ==
    JournalAgrees <=> WalletsAddUp /\ StacksAddUp /\ AuditsAreFinite /\ WalletEditsAgree
BY DEF JournalAgrees, JournalAddsUp, WalletsAddUp, StacksAddUp, StackAddsUp, AuditsAreFinite,
       WalletEditsAgree

LEMMA WalletsLeftAlone ==
    ASSUME WalletsAddUp, UNCHANGED <<sheet, event>> PROVE WalletsAddUp'
<1>1. \A c \in Characters : Booked(c)' = Booked(c) /\ BookedSP(c)' = BookedSP(c)
  BY DEF Booked, BookedSP, Acts
<1> QED
  BY <1>1 DEF WalletsAddUp

(* A record and the write it speaks of.                                    *)
LEMMA RecordKeepsWallets ==
    ASSUME WalletsAddUp, TypeOK, TypeOK', NEW a \in Actions, event[a] = None, NEW type, NEW key,
           type \in {"economy.purchase", "economy.offer", "creation.operation",
                     "creation.action.cancelled", "entry.roll", "entry.undo",
                     "CHARACTER_PROGRESSION", "character.counters"},
           key \in Quotes \cup Upgrades \cup Actions \cup (Items \X Nat) \cup {None},
           NEW c \in Characters \cup {None}, NEW coins \in Int, NEW sp \in Int,
           Record(a, type, key, c, coins, sp),
           c # None => sheet'[c].coins = sheet[c].coins + coins /\ sheet'[c].sp = sheet[c].sp + sp,
           \A d \in Characters \ {c} : sheet'[d].coins = sheet[d].coins /\ sheet'[d].sp = sheet[d].sp
    PROVE  WalletsAddUp'
<1> DEFINE new == [type |-> type, key |-> key, char |-> c, coins |-> coins, sp |-> sp]
<1>1. event \in [Actions -> Event \cup {None}] /\ event' \in [Actions -> Event \cup {None}]
  BY DEF TypeOK
<1>2. event' = [event EXCEPT ![a] = new]
  BY DEF Record
<1>3. new.char = c /\ new.coins = coins /\ new.sp = sp /\ new \in Event
  BY DEF Event
<1> HIDE DEF new
<1>4. event'[a] = new /\ \A b \in Actions \ {a} : event'[b] = event[b]
  BY <1>1, <1>2
<1>5. event'[a] # None
  BY <1>3, <1>4, Constants
<1>6. ASSUME NEW d \in Characters
      PROVE  /\ Booked(d) \in Int /\ BookedSP(d) \in Int
             /\ c = d => Booked(d)' = Booked(d) + coins /\ BookedSP(d)' = BookedSP(d) + sp
             /\ c # d => Booked(d)' = Booked(d) /\ BookedSP(d)' = BookedSP(d)
  BY <1>1, <1>3, <1>4, <1>5, BookedOnce
<1>7. ASSUME NEW d \in Characters
      PROVE  /\ sheet'[d].coins = StartCoins + Booked(d)'
             /\ sheet'[d].sp = StartSP + BookedSP(d)'
  <2>1. sheet[d].coins = StartCoins + Booked(d) /\ sheet[d].sp = StartSP + BookedSP(d)
    BY DEF WalletsAddUp
  <2>2. StartCoins \in Int /\ StartSP \in Int /\ d # None
    BY Constants
  <2>3. PICK x \in Int, y \in Int : x = Booked(d) /\ y = BookedSP(d)
    BY <1>6
  <2>4. CASE c = d
    <3>1. Booked(d)' = x + coins /\ BookedSP(d)' = y + sp
      BY <1>6, <2>3, <2>4
    <3> QED
      BY <2>1, <2>2, <2>3, <2>4, <3>1
  <2>5. CASE c # d
    <3>1. Booked(d)' = x /\ BookedSP(d)' = y
      BY <1>6, <2>3, <2>5
    <3> QED
      BY <2>1, <2>3, <2>5, <3>1
  <2> QED
    BY <2>4, <2>5
<1> QED
  BY <1>7 DEF WalletsAddUp

(* The payments of a wallet move its revision.                             *)
LEMMA PayFields ==
    ASSUME TypeOK, NEW c \in Characters, NEW coins \in Int, NEW sp \in Int, Pay(c, coins, sp)
    PROVE  /\ sheet'[c].coins = sheet[c].coins + coins /\ sheet'[c].sp = sheet[c].sp + sp
           /\ sheet'[c].rev > sheet[c].rev
           /\ \A d \in Characters \ {c} : sheet'[d] = sheet[d]
<1> DEFINE new == [coins |-> sheet[c].coins + coins, sp |-> sheet[c].sp + sp,
                   rev |-> sheet[c].rev + 1]
<1>1. sheet \in [Characters -> Purse] /\ sheet[c].rev \in Nat
  BY DEF TypeOK, Purse
<1>2. sheet' = [sheet EXCEPT ![c] = new]
  BY <1>1 DEF Pay
<1>3. /\ new.coins = sheet[c].coins + coins /\ new.sp = sheet[c].sp + sp
      /\ new.rev > sheet[c].rev
  BY <1>1
<1> HIDE DEF new
<1> QED
  BY <1>1, <1>2, <1>3

(* Edits that have read a wallet, and writes that move its revision.       *)
LEMMA WalletEditsStayTrue ==
    ASSUME TypeOK, TypeOK', WalletEditsAgree, \A e \in Edits : edit'[e] \in {edit[e], None},
           \A c \in Characters : sheet'[c] = sheet[c] \/ sheet'[c].rev > sheet[c].rev
    PROVE  WalletEditsAgree'
<1> SUFFICES ASSUME NEW e \in Edits, edit'[e] # None, edit'[e].op = "WALLET"
             PROVE  WalletAgrees(e)'
  BY DEF WalletEditsAgree
<1>1. edit'[e] = edit[e] /\ WalletAgrees(e)
  BY DEF WalletEditsAgree
<1>2. edit[e].row \in Characters /\ edit[e].was \in Purse
  BY <1>1, EditKinds
<1>3. PICK c \in Characters, w \in Purse : c = edit[e].row /\ w = edit[e].was
  BY <1>2
<1>4. w.rev \in Nat /\ sheet[c].rev \in Nat /\ sheet'[c].rev \in Nat
  BY DEF TypeOK, Purse
<1>5. w.rev <= sheet[c].rev /\ (w.rev = sheet[c].rev => w = sheet[c])
  BY <1>1, <1>3 DEF WalletAgrees
<1>6. w.rev <= sheet'[c].rev /\ (w.rev = sheet'[c].rev => w = sheet'[c])
  BY <1>4, <1>5
<1> QED
  BY <1>1, <1>3, <1>6 DEF WalletAgrees

-----------------------------------------------------------------------------
(* What the audit says of a stack.                                         *)

ByItem(changes, i) == [d \in changes |-> IF d.item = i THEN d.by ELSE 0]
ByAction(i) == [a \in Actions |-> By(audit[a], i)]

LEMMA ByIsInt ==
    ASSUME NEW changes \in SUBSET Change, IsFiniteSet(changes), NEW i
    PROVE  By(changes, i) \in Int
<1>1. \A d \in changes : ByItem(changes, i)[d] \in Int
  BY DEF ByItem, Change
<1>2. By(changes, i) = Sum(ByItem(changes, i), changes)
  BY DEF By, ByItem
<1> QED
  BY <1>1, <1>2, SumIsInt

LEMMA ByOthers ==
    ASSUME NEW changes, IsFiniteSet(changes), NEW i, \A d \in changes : d.item # i
    PROVE  By(changes, i) = 0
<1>1. \A d \in changes : ByItem(changes, i)[d] = 0
  BY DEF ByItem
<1>2. By(changes, i) = Sum(ByItem(changes, i), changes)
  BY DEF By, ByItem
<1> QED
  BY <1>1, <1>2, SumOfZeros

LEMMA ByOne ==
    ASSUME NEW n \in Int, NEW i, NEW j
    PROVE  LET changes == {[item |-> i, by |-> n]} IN
           IsFiniteSet(changes) /\ By(changes, j) = IF j = i THEN n ELSE 0
<1> DEFINE d == [item |-> i, by |-> n]  f == ByItem({d}, j)
<1>1. d.item = i /\ d.by = n
  OBVIOUS
<1>2. By({d}, j) = Sum(f, {d})
  BY DEF By, ByItem
<1>3. f[d] = (IF j = i THEN n ELSE 0) /\ f[d] \in Int
  BY <1>1 DEF ByItem
<1>4. IsFiniteSet({d})
  BY FS_Singleton
<1> HIDE DEF f, d
<1>5. Sum(f, {d}) = f[d] + Sum(f, {d} \ {d}) /\ {d} \ {d} = {}
  BY <1>3, <1>4, SumWithout
<1>6. Sum(f, {d}) = f[d]
  BY <1>3, <1>5, SumOfNone
<1>7. By({d}, j) = IF j = i THEN n ELSE 0
  BY <1>2, <1>3, <1>6
<1> QED
  BY <1>4, <1>7 DEF d

Transfer(i, k, n) == {[item |-> i, by |-> -n], [item |-> k, by |-> n]}

LEMMA ByTwo ==
    ASSUME NEW n \in Int, NEW i, NEW k, i # k, NEW j
    PROVE  /\ IsFiniteSet(Transfer(i, k, n))
           /\ By(Transfer(i, k, n), j) = IF j = i THEN -n ELSE IF j = k THEN n ELSE 0
<1> DEFINE d == [item |-> i, by |-> -n]  e == [item |-> k, by |-> n]  f == ByItem({d, e}, j)
<1>1. d.item = i /\ d.by = -n /\ e.item = k /\ e.by = n
  OBVIOUS
<1>2. By({d, e}, j) = Sum(f, {d, e})
  BY DEF By, ByItem
<1>3. /\ f[d] = (IF j = i THEN -n ELSE 0) /\ f[d] \in Int
      /\ f[e] = (IF j = k THEN n ELSE 0) /\ f[e] \in Int
  BY <1>1 DEF ByItem
<1>4. IsFiniteSet({d, e}) /\ IsFiniteSet({e})
  <2> HIDE DEF d, e
  <2>1. IsFiniteSet({e})
    BY FS_Singleton
  <2>2. IsFiniteSet({e} \cup {d})
    BY <2>1, FS_AddElement
  <2>3. {e} \cup {d} = {d, e}
    OBVIOUS
  <2> QED
    BY <2>1, <2>2, <2>3, Zenon
<1>5. d # e
  BY <1>1
<1> HIDE DEF f, d, e
<1>6. Sum(f, {d, e}) = f[d] + Sum(f, {d, e} \ {d}) /\ {d, e} \ {d} = {e}
  BY <1>3, <1>4, <1>5, SumWithout
<1>7. Sum(f, {e}) = f[e] + Sum(f, {e} \ {e}) /\ {e} \ {e} = {}
  BY <1>3, <1>4, SumWithout
<1>8. Sum(f, {d, e}) = f[d] + f[e]
  BY <1>3, <1>6, <1>7, SumOfNone
<1>9. By({d, e}, j) = IF j = i THEN -n ELSE IF j = k THEN n ELSE 0
  BY <1>2, <1>3, <1>8
<1> QED
  BY <1>4, <1>9 DEF d, e, Transfer

LEMMA MovedLeftAlone ==
    ASSUME audit' = audit, NEW i PROVE Moved(i)' = Moved(i)
  BY DEF Moved

LEMMA MovedIsInt ==
    ASSUME audit \in [Actions -> SUBSET Change], AuditsAreFinite, NEW i
    PROVE  Moved(i) \in Int
<1>1. \A a \in Actions : ByAction(i)[a] \in Int
  BY ByIsInt DEF ByAction, AuditsAreFinite
<1>2. Moved(i) = Sum(ByAction(i), Actions)
  BY DEF Moved, ByAction
<1> QED
  BY <1>1, <1>2, SumIsInt, MarketAssumption

(* One more action in the audit.                                           *)
LEMMA MovedOnce ==
    ASSUME audit \in [Actions -> SUBSET Change], AuditsAreFinite, NEW a \in Actions, audit[a] = {},
           NEW changes \in SUBSET Change, IsFiniteSet(changes), Audit(a, changes), NEW i
    PROVE  AuditsAreFinite' /\ Moved(i)' = Moved(i) + By(changes, i)
<1>1. audit'[a] = changes /\ \A b \in Actions \ {a} : audit'[b] = audit[b]
  BY DEF Audit
<1>2. AuditsAreFinite'
  BY <1>1 DEF AuditsAreFinite
<1> DEFINE f == [b \in Actions |-> By(audit[b], i)]  g == [b \in Actions |-> By(audit'[b], i)]
<1>3. Moved(i) = Sum(f, Actions) /\ Moved(i)' = Sum(g, Actions)
  BY DEF Moved
<1>4. \A b \in Actions : f[b] \in Int /\ g[b] \in Int
  <2>1. TAKE b \in Actions
  <2>2. IsFiniteSet(audit[b]) /\ IsFiniteSet(audit'[b]) /\ audit[b] \in SUBSET Change
        /\ audit'[b] \in SUBSET Change
    BY <1>1, <1>2 DEF AuditsAreFinite
  <2> QED
    BY <2>2, ByIsInt
<1>5. f[a] = 0 /\ g[a] = By(changes, i)
  BY <1>1, ByOthers, FS_EmptySet
<1>6. \A b \in Actions \ {a} : g[b] = f[b]
  BY <1>1
<1> HIDE DEF f, g
<1>7. Sum(g, Actions) = Sum(f, Actions) - f[a] + g[a] /\ Sum(f, Actions) \in Int
  BY <1>4, <1>6, SumOfChanged, MarketAssumption
<1>8. g[a] \in Int
  BY <1>4
<1> QED
  BY <1>2, <1>3, <1>5, <1>7, <1>8

-----------------------------------------------------------------------------
(* Every step keeps the journal.                                           *)

Held(i) == (IF item[i] = None THEN 0 ELSE item[i].qty) + (IF Consumed(i) THEN 1 ELSE 0)

LEMMA HeldIsInt ==
    ASSUME TypeOK, NEW i \in Items PROVE Held(i) \in Int
<1>1. item[i] # None => item[i].qty \in Nat
  BY DEF TypeOK, Stack
<1> QED
  BY <1>1 DEF Held

LEMMA StackAddsUpAgain ==
    ASSUME TypeOK, StacksAddUp, AuditsAreFinite, NEW i \in Items, NEW n \in Int,
           Moved(i)' = Moved(i) + n, Held(i)' = Held(i) + n
    PROVE  StackAddsUp(i)'
<1>1. Held(i) = (IF Stock[i] = None THEN 0 ELSE Stock[i]) + Moved(i)
  BY DEF StacksAddUp, StackAddsUp, Held
<1>2. PICK s \in Int : s = IF Stock[i] = None THEN 0 ELSE Stock[i]
  <2>1. Stock[i] \in Nat \cup {None}
    BY Constants
  <2> QED
    BY <2>1
<1>3. Moved(i) \in Int
  BY MovedIsInt DEF TypeOK
<1>4. Held(i)' = s + (Moved(i) + n)
  BY <1>1, <1>2, <1>3
<1>5. Held(i)' = s + Moved(i)'
  BY <1>4
<1> QED
  BY <1>2, <1>5 DEF StackAddsUp, Held

LEMMA StacksLeftAlone ==
    ASSUME StacksAddUp, AuditsAreFinite, UNCHANGED <<item, object, audit>>
    PROVE  StacksAddUp' /\ AuditsAreFinite'
  BY MovedLeftAlone DEF StacksAddUp, StackAddsUp, AuditsAreFinite, Consumed

(* Steps that write neither a wallet nor an item.                          *)
LEMMA RecordKeepsJournal ==
    ASSUME IInv, IInv', JournalAgrees, UNCHANGED <<sheet, item, object, audit, edit>>,
           NEW a \in Actions, event[a] = None, NEW type, NEW key,
           type \in {"economy.offer", "creation.action.cancelled", "CHARACTER_PROGRESSION"},
           key \in Quotes \cup Upgrades \cup {None},
           Record(a, type, key, None, 0, 0)
    PROVE  JournalAgrees'
<1>1. /\ TypeOK /\ TypeOK' /\ WalletsAddUp /\ StacksAddUp /\ AuditsAreFinite /\ WalletEditsAgree
  BY JournalParts DEF IInv
<1>2. WalletsAddUp'
  BY <1>1, RecordKeepsWallets
<1>3. StacksAddUp' /\ AuditsAreFinite'
  BY <1>1, StacksLeftAlone
<1>4. WalletEditsAgree'
  BY <1>1, WalletEditsStayTrue
<1> QED
  BY <1>2, <1>3, <1>4, JournalParts, PTL

LEMMA UnwrittenKeepsJournal ==
    ASSUME IInv, IInv', JournalAgrees, UNCHANGED <<sheet, item, object, event, audit, edit>>
    PROVE  JournalAgrees'
<1>1. /\ TypeOK /\ TypeOK' /\ WalletsAddUp /\ StacksAddUp /\ AuditsAreFinite /\ WalletEditsAgree
  BY JournalParts DEF IInv
<1>2. WalletsAddUp' /\ StacksAddUp' /\ AuditsAreFinite' /\ WalletEditsAgree'
  BY <1>1, WalletsLeftAlone, StacksLeftAlone, WalletEditsStayTrue
<1> QED
  BY <1>2, JournalParts, PTL

LEMMA ReadsKeepJournal ==
    ASSUME IInv, IInv', JournalAgrees, NEW e \in Edits,
           \/ \E c \in Characters, n \in Coins : ReadWallet(e, c, n)
           \/ \E i \in Items : ReadDelete(e, i)
           \/ \E i \in Items, n \in Quantities, c \in Characters \cup {None} : ReadItem(e, i, n, c)
           \/ GiveUp(e)
    PROVE  JournalAgrees'
<1>1. /\ TypeOK /\ TypeOK' /\ WalletsAddUp /\ StacksAddUp /\ AuditsAreFinite /\ WalletEditsAgree
      /\ edit \in [Edits -> Edit \cup {None}]
  BY JournalParts DEF IInv, TypeOK
<1>2. UNCHANGED <<sheet, item, object, event, audit>>
  BY DEF ReadWallet, ReadDelete, ReadItem, GiveUp
<1>3. WalletsAddUp' /\ StacksAddUp' /\ AuditsAreFinite'
  BY <1>1, <1>2, WalletsLeftAlone, StacksLeftAlone
<1>4. PICK x : /\ edit' = [edit EXCEPT ![e] = x]
               /\ x # None /\ x.op = "WALLET" => x.row \in Characters /\ x.was = sheet[x.row]
  <2>1. ASSUME NEW c \in Characters, NEW n \in Coins, ReadWallet(e, c, n)
        PROVE  \E x : /\ edit' = [edit EXCEPT ![e] = x]
                      /\ x # None /\ x.op = "WALLET" => x.row \in Characters /\ x.was = sheet[x.row]
    <3> DEFINE x == [op |-> "WALLET", row |-> c, was |-> sheet[c], to |-> n]
    <3>1. edit' = [edit EXCEPT ![e] = x]
      BY <2>1 DEF ReadWallet
    <3>2. x.row = c /\ x.was = sheet[c]
      OBVIOUS
    <3> HIDE DEF x
    <3> QED
      BY <3>1, <3>2
  <2>2. ASSUME NEW i \in Items, ReadDelete(e, i)
        PROVE  \E x : edit' = [edit EXCEPT ![e] = x] /\ x.op # "WALLET"
    <3> DEFINE x == [op |-> "DELETE", row |-> i, was |-> item[i], to |-> None]
    <3>1. edit' = [edit EXCEPT ![e] = x] /\ x.op # "WALLET"
      BY <2>2 DEF ReadDelete
    <3> HIDE DEF x
    <3> QED
      BY <3>1
  <2>3. ASSUME NEW i \in Items, NEW n \in Quantities, NEW c \in Characters \cup {None},
               ReadItem(e, i, n, c)
        PROVE  \E x : edit' = [edit EXCEPT ![e] = x] /\ x.op # "WALLET"
    <3> DEFINE x == [op |-> "PATCH", row |-> i, was |-> item[i], to |-> <<n, c>>]
    <3>1. edit' = [edit EXCEPT ![e] = x] /\ x.op # "WALLET"
      BY <2>3 DEF ReadItem
    <3> HIDE DEF x
    <3> QED
      BY <3>1
  <2>4. CASE GiveUp(e)
    BY <2>4 DEF GiveUp
  <2> QED
    BY <2>1, <2>2, <2>3, <2>4
<1>5. ASSUME NEW d \in Edits, edit'[d] # None, edit'[d].op = "WALLET" PROVE WalletAgrees(d)'
  <2>1. CASE d = e
    <3>1. edit'[d] = x
      BY <1>1, <1>4, <2>1
    <3>2. x.row \in Characters /\ x.was = sheet[x.row]
      BY <1>4, <1>5, <3>1
    <3>3. sheet[x.row].rev \in Nat
      BY <1>1, <3>2 DEF TypeOK, Purse
    <3>4. sheet' = sheet
      BY <1>2
    <3> QED
      BY <3>1, <3>2, <3>3, <3>4 DEF WalletAgrees
  <2>2. CASE d # e
    <3>1. edit'[d] = edit[d]
      BY <1>1, <1>4, <2>2
    <3> QED
      BY <1>1, <1>2, <1>5, <3>1 DEF WalletEditsAgree, WalletAgrees
  <2> QED
    BY <2>1, <2>2
<1>6. WalletEditsAgree'
  BY <1>5 DEF WalletEditsAgree
<1> QED
  BY <1>3, <1>6, JournalParts, PTL

(* The SP ledger.                                                          *)
LEMMA PayKeepsJournal ==
    ASSUME IInv, IInv', JournalAgrees, UNCHANGED <<item, object, audit, edit>>,
           NEW a \in Actions, event[a] = None, NEW key, key \in Upgrades \cup {None},
           NEW c \in Characters, NEW sp \in Int, Pay(c, 0, sp),
           Record(a, "CHARACTER_PROGRESSION", key, c, 0, sp)
    PROVE  JournalAgrees'
<1>1. /\ TypeOK /\ TypeOK' /\ WalletsAddUp /\ StacksAddUp /\ AuditsAreFinite /\ WalletEditsAgree
  BY JournalParts DEF IInv
<1>2. /\ sheet'[c].coins = sheet[c].coins + 0 /\ sheet'[c].sp = sheet[c].sp + sp
      /\ sheet'[c].rev > sheet[c].rev /\ \A d \in Characters \ {c} : sheet'[d] = sheet[d]
  <2>1. PICK z \in Int : z = 0
    OBVIOUS
  <2>2. Pay(c, z, sp)
    BY <2>1
  <2> QED
    BY <1>1, <2>1, <2>2, PayFields
<1>3. WalletsAddUp'
  BY <1>1, <1>2, RecordKeepsWallets
<1>4. StacksAddUp' /\ AuditsAreFinite'
  BY <1>1, StacksLeftAlone
<1>5. WalletEditsAgree'
  BY <1>1, <1>2, WalletEditsStayTrue
<1> QED
  BY <1>3, <1>4, <1>5, JournalParts, PTL

LEMMA ProgressionKeepsJournal ==
    ASSUME IInv, IInv', JournalAgrees, NEW a \in Actions,
           \/ \E c \in Characters : GrantSP(a, c, 1)
           \/ \E u \in Upgrades :
                  \/ \E c \in Characters : Submit(a, u, c, 1)
                  \/ Counter(a, u, 2) \/ Consent(a, u) \/ Close(a, u)
                  \/ Apply(a, u) \/ Reverse(a, u)
    PROVE  JournalAgrees'
<1>1. ASSUME NEW c \in Characters, GrantSP(a, c, 1) PROVE JournalAgrees'
  BY <1>1, PayKeepsJournal DEF GrantSP, Ledger
<1>2. ASSUME NEW u \in Upgrades,
             \/ \E c \in Characters : Submit(a, u, c, 1)
             \/ Counter(a, u, 2) \/ Consent(a, u) \/ Close(a, u)
      PROVE  JournalAgrees'
  <2>1. /\ Ledger(a, u, None, 0) /\ UNCHANGED <<sheet, item, object, audit, edit>>
    BY <1>2 DEF Submit, Counter, Consent, Close
  <2> QED
    BY <2>1, RecordKeepsJournal DEF Ledger
<1>3. ASSUME NEW u \in Upgrades, Apply(a, u) PROVE JournalAgrees'
  <2>1. PICK c \in Characters, n \in Int : c = upgrade[u].char /\ n = -upgrade[u].sp
    <3>1. upgrade[u].char \in Characters /\ upgrade[u].sp \in Nat
      BY <1>3, UpgradeFields DEF Apply, Pending, IInv, TypeOK
    <3> QED
      BY <3>1
  <2>2. Pay(c, 0, n) /\ Ledger(a, u, c, n) /\ UNCHANGED <<item, object, audit, edit>>
    BY <1>3, <2>1 DEF Apply
  <2> QED
    BY <2>2, PayKeepsJournal DEF Ledger
<1>4. ASSUME NEW u \in Upgrades, Reverse(a, u) PROVE JournalAgrees'
  <2>1. PICK c \in Characters, n \in Int : c = upgrade[u].char /\ n = upgrade[u].sp
    <3>1. upgrade[u].char \in Characters /\ upgrade[u].sp \in Nat
      BY <1>4, UpgradeFields DEF Reverse, IInv, TypeOK
    <3> QED
      BY <3>1
  <2>2. Pay(c, 0, n) /\ Ledger(a, u, c, n) /\ UNCHANGED <<item, object, audit, edit>>
    BY <1>4, <2>1 DEF Reverse
  <2> QED
    BY <2>2, PayKeepsJournal DEF Ledger
<1> QED
  BY <1>1, <1>2, <1>3, <1>4

LEMMA CancelsAndOffersKeepJournal ==
    ASSUME IInv, IInv', JournalAgrees, NEW a \in Actions,
           \/ \E q \in Quotes : CancelCraft(a, q)
           \/ \E i \in Items, p \in Prices : SaveOffer(a, i, p)
    PROVE  JournalAgrees'
<1>1. ASSUME NEW q \in Quotes, CancelCraft(a, q) PROVE JournalAgrees'
  BY <1>1, RecordKeepsJournal DEF CancelCraft, Unused
<1>2. ASSUME NEW i \in Items, NEW p \in Prices, SaveOffer(a, i, p) PROVE JournalAgrees'
  BY <1>2, RecordKeepsJournal DEF SaveOffer, Unused
<1> QED
  BY <1>1, <1>2

(* The wallet command books the difference to what it has read, and what it *)
(* has read is what the row still holds.                                    *)
LEMMA WriteWalletKeepsJournal ==
    ASSUME IInv, IInv', JournalAgrees, NEW e \in Edits, NEW a \in Actions, WriteWallet(e, a)
    PROVE  JournalAgrees'
<1>1. /\ TypeOK /\ TypeOK' /\ WalletsAddUp /\ StacksAddUp /\ AuditsAreFinite /\ WalletEditsAgree
  BY JournalParts DEF IInv
<1>2. /\ edit[e].row \in Characters /\ edit[e].was \in Purse /\ edit[e].to \in Nat
      /\ WalletAgrees(e)
  BY <1>1, EditKinds DEF WriteWallet, WalletEditsAgree
<1>3. PICK c \in Characters, w \in Purse, n \in Nat :
          c = edit[e].row /\ w = edit[e].was /\ n = edit[e].to
  BY <1>2
<1>4. /\ event[a] = None /\ sheet[c].rev = w.rev
      /\ sheet' = [sheet EXCEPT ![c] = [coins |-> n, sp |-> w.sp, rev |-> w.rev + 1]]
      /\ Record(a, "character.counters", None, c, n - w.coins, 0)
      /\ edit' = [edit EXCEPT ![e] = None]
      /\ UNCHANGED <<item, object, audit>>
  BY <1>3 DEF WriteWallet, SheetUnmoved
<1>5. sheet[c] = w
  BY <1>2, <1>3, <1>4 DEF WalletAgrees
<1>6. w.coins \in Nat /\ w.sp \in Nat /\ w.rev \in Nat
  BY DEF Purse
<1>7. /\ sheet'[c].coins = sheet[c].coins + (n - w.coins) /\ sheet'[c].sp = sheet[c].sp + 0
      /\ sheet'[c].rev > sheet[c].rev /\ \A d \in Characters \ {c} : sheet'[d] = sheet[d]
  BY <1>1, <1>4, <1>5, <1>6 DEF TypeOK
<1>8. PICK m \in Int : m = n - w.coins
  BY <1>6
<1>9. WalletsAddUp'
  BY <1>1, <1>4, <1>7, <1>8, RecordKeepsWallets
<1>10. StacksAddUp' /\ AuditsAreFinite'
  BY <1>1, <1>4, StacksLeftAlone
<1>11. WalletEditsAgree'
  <2>1. \A d \in Edits : edit'[d] \in {edit[d], None}
    BY <1>1, <1>4 DEF TypeOK
  <2> QED
    BY <1>1, <1>7, <2>1, WalletEditsStayTrue
<1> QED
  BY <1>9, <1>10, <1>11, JournalParts, PTL

(* A new row holds nothing yet, and nothing of it was consumed.            *)
LEMMA FreshIsEmpty ==
    ASSUME IInv, StacksAddUp, AuditsAreFinite, NEW i \in Fresh
    PROVE  object[i] = None /\ Held(i) = 0 /\ ~Consumed(i)
<1>1. /\ i \in Items /\ item[i] = None /\ Stock[i] = None
      /\ \A a \in Actions : By(audit[a], i) = 0
  BY FreshItem, ByOthers DEF AuditsAreFinite
<1>2. Moved(i) = 0
  <2> DEFINE f == [a \in Actions |-> By(audit[a], i)]
  <2>1. Moved(i) = Sum(f, Actions)
    BY DEF Moved
  <2>2. \A a \in Actions : f[a] = 0
    BY <1>1
  <2> HIDE DEF f
  <2> QED
    BY <2>1, <2>2, SumOfZeros, MarketAssumption
<1>3. ~Consumed(i)
  BY <1>1, <1>2 DEF StacksAddUp, StackAddsUp
<1>4. object[i] = None
  <2>1. SUFFICES ASSUME object[i] # None, object[i].active PROVE FALSE
    BY <1>3 DEF Consumed
  <2> QED
    BY <1>1, <2>1 DEF IInv, ObjectKeepsItsItem
<1> QED
  BY <1>1, <1>3, <1>4 DEF Held

(* A payment, the record of it, and a stack that loses what another gains. *)
LEMMA TradeKeepsJournal ==
    ASSUME IInv, IInv', JournalAgrees, UNCHANGED edit,
           NEW a \in Actions, Unused(a), NEW type \in {"economy.purchase", "creation.operation"},
           NEW key \in Quotes, NEW c \in Characters, NEW coins \in Int, NEW sp \in Int,
           Pay(c, coins, sp), Record(a, type, key, c, coins, sp),
           NEW i \in Items, NEW new \in Fresh, NEW n \in Int,
           Audit(a, {[item |-> i, by |-> -n], [item |-> new, by |-> n]}),
           Held(i)' = Held(i) - n, Held(new)' = n,
           \A j \in Items \ {i, new} : item'[j] = item[j] /\ object'[j] = object[j],
           item[i] # None
    PROVE  JournalAgrees'
<1>1. /\ TypeOK /\ TypeOK' /\ WalletsAddUp /\ StacksAddUp /\ AuditsAreFinite /\ WalletEditsAgree
  BY JournalParts DEF IInv
<1>2. WalletsAddUp'
  BY <1>1, PayFields, RecordKeepsWallets DEF Unused
<1>3. WalletEditsAgree'
  BY <1>1, PayFields, WalletEditsStayTrue
<1> DEFINE changes == Transfer(i, new, n)
<1>4. i # new /\ new \in Items
  BY FreshItem
<1>5. -n \in Int
  OBVIOUS
<1>6. changes \in SUBSET Change
  BY <1>4, <1>5 DEF Change, Transfer
<1>7. /\ IsFiniteSet(changes)
      /\ By(changes, i) = -n /\ By(changes, new) = n
      /\ \A j \in Items \ {i, new} : By(changes, j) = 0
  BY <1>4, ByTwo
<1>8. Audit(a, changes)
  BY DEF Transfer
<1> HIDE DEF changes
<1>9. audit[a] = {} /\ audit \in [Actions -> SUBSET Change]
  BY <1>1 DEF Unused, TypeOK
<1>10. AuditsAreFinite' /\ \A j : Moved(j)' = Moved(j) + By(changes, j)
  BY <1>1, <1>6, <1>7, <1>8, <1>9, MovedOnce
<1>11. StackAddsUp(i)'
  <2>1. Moved(i)' = Moved(i) + (-n)
    BY <1>7, <1>10
  <2>2. Held(i)' = Held(i) + (-n)
    BY <1>1, <1>5, HeldIsInt
  <2> QED
    BY <1>1, <2>1, <2>2, StackAddsUpAgain
<1>12. StackAddsUp(new)'
  <2>1. Moved(new)' = Moved(new) + n
    BY <1>4, <1>7, <1>10
  <2>2. Held(new)' = Held(new) + n
    BY <1>1, FreshIsEmpty
  <2> QED
    BY <1>1, <1>4, <2>1, <2>2, StackAddsUpAgain
<1>13. ASSUME NEW j \in Items \ {i, new} PROVE StackAddsUp(j)'
  <2>1. Moved(j)' = Moved(j) + 0
    BY <1>7, <1>10
  <2>2. Held(j)' = Held(j) + 0
    <3>1. Held(j)' = Held(j)
      BY <1>13 DEF Held, Consumed
    <3> QED
      BY <1>1, <3>1, HeldIsInt
  <2> QED
    BY <1>1, <2>1, <2>2, StackAddsUpAgain
<1>14. StacksAddUp'
  <2>1. \A j \in Items : StackAddsUp(j)'
    BY <1>11, <1>12, <1>13
  <2> QED
    BY <2>1 DEF StacksAddUp
<1> QED
  BY <1>2, <1>3, <1>10, <1>14, JournalParts, PTL

LEMMA PurchaseKeepsJournal ==
    ASSUME IInv, IInv', JournalAgrees, NEW a \in Actions, NEW q \in Quotes, NEW new \in Items,
           Purchase(a, q, new)
    PROVE  JournalAgrees'
<1>1. PICK i \in Items : i = offer.item
  BY DEF Purchase, Sellable, IInv, TypeOK, Offer
<1>2. /\ i # new /\ new \in Fresh /\ item[i] \in Stack
      /\ item'[new] = Row(quote[q].n, quote[q].char, 0) /\ item'[new] \in Stack
      /\ item'[i] \in Stack /\ item'[i].qty = item[i].qty - quote[q].n
      /\ \A j \in Items \ {i, new} : item'[j] = item[j]
  BY <1>1, PurchaseRows
<1>3. quote[q].char \in Characters /\ quote[q].n \in Nat /\ offer.price \in Nat
  BY QuoteKinds, Constants DEF Purchase, IInv, TypeOK, Offer
<1>4. PICK total \in Int : total = -(quote[q].n * offer.price)
  <2>1. \A x, y \in Nat : -(x * y) \in Int
    OBVIOUS
  <2> QED
    BY <1>3, <2>1
<1>5. PICK n \in Nat, c \in Characters : n = quote[q].n /\ c = quote[q].char
  BY <1>3
<1>6. /\ Unused(a) /\ Pay(c, total, 0) /\ Record(a, "economy.purchase", q, c, total, 0)
      /\ Audit(a, {[item |-> i, by |-> -n], [item |-> new, by |-> n]})
      /\ object' = object /\ edit' = edit
  BY <1>1, <1>4, <1>5 DEF Purchase
<1>7. object[new] = None
  BY <1>2, FreshIsEmpty, JournalParts
<1>8. Held(new)' = n
  <2>1. item'[new].qty = n /\ item'[new] # None
    BY <1>2, <1>5, Constants DEF Row
  <2>2. ~Consumed(new)'
    BY <1>6, <1>7 DEF Consumed
  <2> QED
    BY <2>1, <2>2 DEF Held
<1>9. Held(i)' = Held(i) - n
  <2>1. item[i].qty \in Nat /\ item[i] # None /\ item'[i] # None /\ item'[i].qty = item[i].qty - n
    BY <1>2, <1>5, Constants DEF Stack
  <2>2. Consumed(i)' <=> Consumed(i)
    BY <1>6 DEF Consumed
  <2> QED
    BY <2>1, <2>2 DEF Held
<1>10. \A j \in Items \ {i, new} : item'[j] = item[j] /\ object'[j] = object[j]
  BY <1>2, <1>6
<1>11. item[i] # None /\ 0 \in Int /\ n \in Int
  BY <1>2, Constants
<1> QED
  BY <1>2, <1>6, <1>8, <1>9, <1>10, <1>11, TradeKeepsJournal

LEMMA CraftKeepsJournal ==
    ASSUME IInv, IInv', JournalAgrees, NEW a \in Actions, NEW q \in Quotes, NEW new \in Items,
           Craft(a, q, new)
    PROVE  JournalAgrees'
<1>1. /\ item \in [Items -> Stack \cup {None}] /\ object \in [Items -> Object \cup {None}]
  BY DEF IInv, TypeOK
<1>2. quote[q].char \in Characters /\ quote[q].item \in Items
  BY QuoteKinds DEF Craft, IInv
<1>3. PICK i \in Items, c \in Characters : i = quote[q].item /\ c = quote[q].char
  BY <1>2
<1>4. /\ Unused(a) /\ new \in Fresh /\ Material(c, i) /\ Pay(c, -Fee, -1)
      /\ item' = [item EXCEPT
             ![i] = Row(item[i].qty - 1, IF item[i].qty - 1 > 0 THEN c ELSE None, @.rev + 1),
             ![new] = Row(1, c, 0)]
      /\ object' = [object EXCEPT ![new] = [maker |-> c, active |-> TRUE]]
      /\ Record(a, "creation.operation", q, c, -Fee, -1)
      /\ Audit(a, {[item |-> i, by |-> -1], [item |-> new, by |-> 1]})
      /\ edit' = edit
  BY <1>3 DEF Craft
<1>5. /\ item[i] \in Stack /\ item[i] # None /\ item[i].qty \in Nat
      /\ object[i] = None /\ item[new] = None /\ i # new
  BY <1>1, <1>4, FreshItem DEF Material, Stack
<1>6. /\ \A j \in Items \ {i, new} : item'[j] = item[j] /\ object'[j] = object[j]
      /\ item'[i].qty = item[i].qty - 1 /\ item'[new].qty = 1
      /\ object'[i] = None /\ object'[new].active
      /\ item'[i] # None /\ item'[new] # None
  <2>1. /\ \A j \in Items \ {i, new} : item'[j] = item[j] /\ object'[j] = object[j]
        /\ item'[i] = Row(item[i].qty - 1, IF item[i].qty - 1 > 0 THEN c ELSE None, item[i].rev + 1)
        /\ item'[new] = Row(1, c, 0) /\ object'[i] = None
        /\ object'[new] = [maker |-> c, active |-> TRUE]
    BY <1>1, <1>4, <1>5
  <2>2. item'[i].qty = item[i].qty - 1 /\ item'[new].qty = 1 /\ object'[new].active
    BY <2>1 DEF Row
  <2>3. item'[new] # None
    <3>1. Row(1, c, 0) \in Stack
      BY DEF Row, Stack
    <3> QED
      BY <2>1, <3>1, Constants
  <2>4. item'[i] # None
    <3>1. item[i].qty - 1 \in Nat /\ item[i].rev + 1 \in Nat
      BY <1>4, <1>5 DEF Stack, Material
    <3>2. PICK h \in Characters \cup {None} : h = IF item[i].qty - 1 > 0 THEN c ELSE None
      OBVIOUS
    <3> QED
      BY <2>1, <3>1, <3>2, RowFields, Constants
  <2> QED
    BY <2>1, <2>2, <2>3, <2>4
<1>7. Held(new)' = 1 /\ Held(i)' = Held(i) - 1
  BY <1>5, <1>6 DEF Held, Consumed
<1>8. PICK f \in Int, s \in Int : f = -Fee /\ s = -1
  BY Constants
<1>9. Pay(c, f, s) /\ Record(a, "creation.operation", q, c, f, s)
  BY <1>4, <1>8
<1>10. PICK n \in Int : n = 1
  OBVIOUS
<1>11. /\ Audit(a, {[item |-> i, by |-> -n], [item |-> new, by |-> n]})
       /\ Held(new)' = n /\ Held(i)' = Held(i) - n
  BY <1>4, <1>7, <1>10
<1>12. Unused(a) /\ new \in Fresh /\ edit' = edit /\ item[i] # None
  BY <1>4, <1>5
<1> QED
  BY <1>6, <1>9, <1>11, <1>12, TradeKeepsJournal

(* An object that is used up, or given back: the stack loses what counts as *)
(* consumed, and gains it again.                                            *)
LEMMA UseKeepsJournal ==
    ASSUME IInv, IInv', JournalAgrees, UNCHANGED <<sheet, audit, edit>>,
           NEW a \in Actions, event[a] = None, NEW type \in {"entry.roll", "entry.undo"},
           NEW key \in Actions \cup (Items \X Nat), Record(a, type, key, None, 0, 0),
           NEW i \in Items, Held(i)' = Held(i),
           \A j \in Items \ {i} : item'[j] = item[j] /\ object'[j] = object[j]
    PROVE  JournalAgrees'
<1>1. /\ TypeOK /\ TypeOK' /\ WalletsAddUp /\ StacksAddUp /\ AuditsAreFinite /\ WalletEditsAgree
  BY JournalParts DEF IInv
<1>2. WalletsAddUp'
  BY <1>1, RecordKeepsWallets
<1>3. WalletEditsAgree' /\ AuditsAreFinite'
  BY <1>1, WalletEditsStayTrue DEF AuditsAreFinite
<1>4. ASSUME NEW j \in Items PROVE StackAddsUp(j)'
  <2>1. Moved(j)' = Moved(j) + 0
    <3>1. Moved(j)' = Moved(j) /\ Moved(j) \in Int
      BY <1>1, MovedLeftAlone, MovedIsInt DEF TypeOK
    <3> QED
      BY <3>1
  <2>2. Held(j)' = Held(j)
    BY <1>4 DEF Held, Consumed
  <2>3. Held(j)' = Held(j) + 0
    BY <1>1, <2>2, HeldIsInt
  <2> QED
    BY <1>1, <2>1, <2>3, StackAddsUpAgain
<1>5. StacksAddUp'
  BY <1>4 DEF StacksAddUp
<1> QED
  BY <1>2, <1>3, <1>5, JournalParts, PTL

LEMMA UseUpKeepsJournal ==
    ASSUME IInv, IInv', JournalAgrees, NEW a \in Actions, NEW i \in Items, UseUp(a, i)
    PROVE  JournalAgrees'
<1>1. item \in [Items -> Stack \cup {None}] /\ object \in [Items -> Object \cup {None}]
  BY DEF IInv, TypeOK
<1>2. item[i] # None /\ object[i] # None /\ item[i] \in Stack /\ object[i] \in Object
      /\ object[i].active /\ item[i].qty = 1
  BY <1>1 DEF UseUp
<1>3. PICK r \in Nat : r = item[i].rev + 1
  BY <1>2 DEF Stack
<1>4. item' = [item EXCEPT ![i] = Row(0, None, r)] /\ Record(a, "entry.roll", <<i, r>>, None, 0, 0)
      /\ UNCHANGED <<sheet, audit, edit>> /\ event[a] = None
  BY <1>1, <1>3 DEF UseUp
<1>5. /\ item'[i] = Row(0, None, r) /\ \A j \in Items \ {i} : item'[j] = item[j]
  BY <1>1, <1>4
<1>6. object' = [object EXCEPT ![i] = [object[i] EXCEPT !.active = FALSE]]
  BY <1>1 DEF UseUp
<1>7. /\ object'[i] = [object[i] EXCEPT !.active = FALSE]
      /\ \A j \in Items \ {i} : object'[j] = object[j]
  BY <1>1, <1>6
<1>8. [object[i] EXCEPT !.active = FALSE] \in Object /\ ~[object[i] EXCEPT !.active = FALSE].active
  BY <1>2 DEF Object
<1>9. Held(i)' = 1
  <2>1. item'[i].qty = 0 /\ item'[i] # None
    <3>1. Row(0, None, r) \in Stack /\ Row(0, None, r).qty = 0
      BY DEF Row, Stack
    <3> QED
      BY <1>5, <3>1, Constants
  <2>2. Consumed(i)'
    BY <1>7, <1>8, Constants DEF Consumed
  <2> QED
    BY <2>1, <2>2 DEF Held
<1>10. Held(i) = 1
  BY <1>2 DEF Held, Consumed
<1>11. <<i, r>> \in Actions \cup (Items \X Nat)
  OBVIOUS
<1> QED
  BY <1>4, <1>5, <1>7, <1>9, <1>10, <1>11, UseKeepsJournal

LEMMA UndoUseKeepsJournal ==
    ASSUME IInv, IInv', JournalAgrees, NEW a \in Actions, NEW b \in Actions, UndoUse(a, b)
    PROVE  JournalAgrees'
<1>1. item \in [Items -> Stack \cup {None}] /\ object \in [Items -> Object \cup {None}]
  BY DEF IInv, TypeOK
<1>2. event[b].key \in Items \X Nat
  BY DEF UndoUse, IInv
<1>3. PICK i \in Items, s \in Nat : i = event[b].key[1] /\ s = event[b].key[2]
  BY <1>2
<1>4. /\ object[i] # None /\ item[i] = Row(0, None, s) /\ ~object[i].active
      /\ object' = [object EXCEPT ![i].active = TRUE]
      /\ item' = [item EXCEPT ![i] = Row(1, object[i].maker, @.rev + 1)]
      /\ Record(a, "entry.undo", b, None, 0, 0) /\ event[a] = None
      /\ UNCHANGED <<sheet, audit, edit>>
  BY <1>3 DEF UndoUse
<1>5. item[i].qty = 0 /\ item[i].rev \in Nat /\ item[i] # None
  <2>1. Row(0, None, s) \in Stack /\ Row(0, None, s).qty = 0 /\ Row(0, None, s).rev = s
    BY DEF Row, Stack
  <2> QED
    BY <1>4, <2>1, Constants
<1>6. object[i] \in Object /\ object[i].maker \in Characters
  BY <1>1, <1>4 DEF Object
<1>7. /\ item'[i] = Row(1, object[i].maker, item[i].rev + 1)
      /\ \A j \in Items \ {i} : item'[j] = item[j]
      /\ object'[i] = [object[i] EXCEPT !.active = TRUE]
      /\ \A j \in Items \ {i} : object'[j] = object[j]
  BY <1>1, <1>4
<1>8. Held(i) = 1
  BY <1>4, <1>5 DEF Held, Consumed
<1>9. Held(i)' = 1
  <2>1. item'[i].qty = 1 /\ item'[i] # None
    <3>1. PICK r \in Nat, m \in Characters : r = item[i].rev + 1 /\ m = object[i].maker
      BY <1>5, <1>6
    <3>2. Row(1, m, r) \in Stack /\ Row(1, m, r).qty = 1
      BY DEF Row, Stack
    <3> QED
      BY <1>7, <3>1, <3>2, Constants
  <2>2. ~Consumed(i)'
    BY <1>6, <1>7 DEF Consumed, Object
  <2> QED
    BY <2>1, <2>2 DEF Held
<1> QED
  BY <1>4, <1>7, <1>8, <1>9, UseKeepsJournal

(* The GM's edits: the difference that is audited is to the row that was   *)
(* read, and that is the row that is overwritten.                          *)
LEMMA EditKeepsJournal ==
    ASSUME IInv, IInv', JournalAgrees, UNCHANGED <<sheet, object, event>>,
           NEW e \in Edits, edit' = [edit EXCEPT ![e] = None],
           NEW a \in Actions, Unused(a), NEW i \in Items, NEW n \in Int,
           Audit(a, {[item |-> i, by |-> n]}), Held(i)' = Held(i) + n,
           \A j \in Items \ {i} : item'[j] = item[j]
    PROVE  JournalAgrees'
<1>1. /\ TypeOK /\ TypeOK' /\ WalletsAddUp /\ StacksAddUp /\ AuditsAreFinite /\ WalletEditsAgree
  BY JournalParts DEF IInv
<1>2. WalletsAddUp'
  BY <1>1, WalletsLeftAlone
<1>3. WalletEditsAgree'
  <2>1. \A d \in Edits : edit'[d] \in {edit[d], None}
    BY <1>1 DEF TypeOK
  <2> QED
    BY <1>1, <2>1, WalletEditsStayTrue
<1> DEFINE changes == {[item |-> i, by |-> n]}
<1>4. changes \in SUBSET Change
  BY DEF Change
<1>5. IsFiniteSet(changes) /\ \A j : By(changes, j) = IF j = i THEN n ELSE 0
  BY ByOne
<1>6. Audit(a, changes)
  OBVIOUS
<1> HIDE DEF changes
<1>7. audit[a] = {} /\ audit \in [Actions -> SUBSET Change]
  BY <1>1 DEF Unused, TypeOK
<1>8. AuditsAreFinite' /\ \A j : Moved(j)' = Moved(j) + By(changes, j)
  BY <1>1, <1>4, <1>5, <1>6, <1>7, MovedOnce
<1>9. StackAddsUp(i)'
  <2>1. Moved(i)' = Moved(i) + n
    BY <1>5, <1>8
  <2> QED
    BY <1>1, <2>1, StackAddsUpAgain
<1>10. ASSUME NEW j \in Items \ {i} PROVE StackAddsUp(j)'
  <2>1. Moved(j)' = Moved(j) + 0
    BY <1>5, <1>8
  <2>2. Held(j)' = Held(j)
    BY <1>10 DEF Held, Consumed
  <2>3. Held(j)' = Held(j) + 0
    BY <1>1, <2>2, HeldIsInt
  <2> QED
    BY <1>1, <2>1, <2>3, StackAddsUpAgain
<1>11. StacksAddUp'
  <2>1. \A j \in Items : StackAddsUp(j)'
    BY <1>9, <1>10
  <2> QED
    BY <2>1 DEF StacksAddUp
<1> QED
  BY <1>2, <1>3, <1>8, <1>11, JournalParts, PTL

LEMMA WriteItemKeepsJournal ==
    ASSUME IInv, IInv', JournalAgrees, NEW e \in Edits, NEW a \in Actions, WriteItem(e, a)
    PROVE  JournalAgrees'
<1>1. item \in [Items -> Stack \cup {None}]
  BY DEF IInv, TypeOK
<1>2. /\ edit[e].row \in Items /\ edit[e].was \in Stack
      /\ edit[e].to \in Nat \X (Characters \cup {None})
  BY EditKinds DEF WriteItem, IInv
<1>3. PICK i \in Items, n \in Nat, c \in Characters \cup {None}, w \in Stack :
          i = edit[e].row /\ <<n, c>> = edit[e].to /\ w = edit[e].was
  <2>1. PICK n \in Nat, c \in Characters \cup {None} : <<n, c>> = edit[e].to
    BY <1>2
  <2> QED
    BY <1>2, <2>1
<1>4. /\ Unused(a) /\ item[i] # None /\ item[i].rev = w.rev
      /\ item' = [item EXCEPT ![i] = Row(n, c, w.rev + 1)]
      /\ Audit(a, {[item |-> i, by |-> n - w.qty]})
      /\ edit' = [edit EXCEPT ![e] = None]
      /\ UNCHANGED <<sheet, object, event>>
  <2>1. edit[e].to[1] = n /\ edit[e].to[2] = c
    BY <1>3
  <2>2. /\ Unused(a) /\ ItemUnmoved(i, w)
        /\ item' = [item EXCEPT ![i] = Row(edit[e].to[1], edit[e].to[2], w.rev + 1)]
        /\ Audit(a, {[item |-> i, by |-> edit[e].to[1] - w.qty]})
        /\ edit' = [edit EXCEPT ![e] = None]
        /\ UNCHANGED <<sheet, object, event>>
    BY <1>3 DEF WriteItem
  <2> QED
    BY <1>3, <2>1, <2>2 DEF ItemUnmoved
<1>5. item[i] = w
  <2>1. EditAgrees(e)
    BY DEF WriteItem, IInv
  <2> QED
    BY <1>3, <1>4, <2>1 DEF EditAgrees
<1>6. w.rev + 1 \in Nat /\ w.qty \in Nat /\ n - w.qty \in Int
  BY DEF Stack
<1>7. /\ item'[i] = Row(n, c, w.rev + 1) /\ \A j \in Items \ {i} : item'[j] = item[j]
  BY <1>1, <1>4
<1>8. item'[i].qty = n /\ item'[i] # None
  BY <1>6, <1>7, RowFields, Constants
<1>9. PICK m \in Int : m = n - w.qty
  BY <1>6
<1>10. Held(i)' = Held(i) + m
  <2>1. Consumed(i)' <=> Consumed(i)
    BY <1>4 DEF Consumed
  <2> QED
    BY <1>4, <1>5, <1>6, <1>8, <1>9, <2>1 DEF Held
<1>11. Audit(a, {[item |-> i, by |-> m]})
  BY <1>4, <1>9
<1> QED
  BY <1>4, <1>7, <1>10, <1>11, EditKeepsJournal

LEMMA DeleteItemKeepsJournal ==
    ASSUME IInv, IInv', JournalAgrees, NEW e \in Edits, NEW a \in Actions, DeleteItem(e, a)
    PROVE  JournalAgrees'
<1>1. item \in [Items -> Stack \cup {None}]
  BY DEF IInv, TypeOK
<1>2. edit[e].row \in Items /\ edit[e].was \in Stack
  BY EditKinds DEF DeleteItem, IInv
<1>3. PICK i \in Items, w \in Stack : i = edit[e].row /\ w = edit[e].was
  BY <1>2
<1>4. /\ Unused(a) /\ object[i] = None /\ item[i] # None /\ item[i].rev = w.rev
      /\ item' = [item EXCEPT ![i] = None]
      /\ Audit(a, {[item |-> i, by |-> -w.qty]})
      /\ edit' = [edit EXCEPT ![e] = None]
      /\ UNCHANGED <<sheet, object, event>>
  BY <1>3 DEF DeleteItem, ItemUnmoved
<1>5. item[i] = w
  <2>1. EditAgrees(e)
    BY DEF DeleteItem, IInv
  <2> QED
    BY <1>3, <1>4, <2>1 DEF EditAgrees
<1>6. w.qty \in Nat /\ item'[i] = None /\ \A j \in Items \ {i} : item'[j] = item[j]
  BY <1>1, <1>4 DEF Stack
<1>7. PICK m \in Int : m = -w.qty
  BY <1>6
<1>8. Held(i)' = Held(i) + m
  BY <1>4, <1>5, <1>6, <1>7 DEF Held, Consumed
<1>9. Audit(a, {[item |-> i, by |-> m]})
  BY <1>4, <1>7
<1> QED
  BY <1>4, <1>6, <1>8, <1>9, EditKeepsJournal

LEMMA InitJournal == Init => JournalAgrees
<1> SUFFICES ASSUME Init PROVE JournalAgrees
  OBVIOUS
<1>1. WalletsAddUp
  <2> SUFFICES ASSUME NEW c \in Characters
               PROVE  /\ sheet[c].coins = StartCoins + Booked(c)
                      /\ sheet[c].sp = StartSP + BookedSP(c)
    BY DEF WalletsAddUp
  <2>1. Booked(c) = Sum(CoinsOf(c), Actions) /\ BookedSP(c) = Sum(PointsOf(c), Actions)
    BY DEF Booked, BookedSP, CoinsOf, PointsOf
  <2>2. \A a \in Actions : CoinsOf(c)[a] = 0 /\ PointsOf(c)[a] = 0
    BY DEF Init, CoinsOf, PointsOf, Acts
  <2>3. Booked(c) = 0 /\ BookedSP(c) = 0
    BY <2>1, <2>2, SumOfZeros, MarketAssumption
  <2>4. sheet[c].coins = StartCoins /\ sheet[c].sp = StartSP
    BY DEF Init
  <2> QED
    BY <2>3, <2>4, Constants
<1>2. AuditsAreFinite
  BY FS_EmptySet DEF Init, AuditsAreFinite
<1>3. StacksAddUp
  <2> SUFFICES ASSUME NEW i \in Items PROVE StackAddsUp(i)
    BY DEF StacksAddUp
  <2>1. \A a \in Actions : ByAction(i)[a] = 0
    BY ByOthers, FS_EmptySet DEF Init, ByAction
  <2>2. Moved(i) = Sum(ByAction(i), Actions)
    BY DEF Moved, ByAction
  <2>3. Moved(i) = 0
    BY <2>1, <2>2, SumOfZeros, MarketAssumption
  <2>4. ~Consumed(i)
    BY DEF Init, Consumed
  <2>5. CASE Stock[i] = None
    <3>1. item[i] = None
      BY <2>5 DEF Init
    <3> QED
      BY <2>3, <2>4, <2>5, <3>1 DEF StackAddsUp
  <2>6. CASE Stock[i] # None
    <3>1. Stock[i] \in Nat /\ Owner[i] \in Characters \cup {None}
      BY <2>6, Constants
    <3>2. item[i] = Row(Stock[i], Owner[i], 0)
      BY <2>6 DEF Init, Row
    <3>3. item[i].qty = Stock[i] /\ item[i] # None
      <4>1. Row(Stock[i], Owner[i], 0) \in Stack /\ Row(Stock[i], Owner[i], 0).qty = Stock[i]
        BY <3>1 DEF Row, Stack
      <4> QED
        BY <3>2, <4>1, Constants
    <3> QED
      BY <2>3, <2>4, <2>6, <3>1, <3>3 DEF StackAddsUp
  <2> QED
    BY <2>5, <2>6
<1>4. WalletEditsAgree
  BY DEF Init, WalletEditsAgree
<1> QED
  BY <1>1, <1>2, <1>3, <1>4, JournalParts

LEMMA NextJournal == IInv /\ IInv' /\ JournalAgrees /\ [Next]_vars => JournalAgrees'
<1> SUFFICES ASSUME IInv, IInv', JournalAgrees, [Next]_vars PROVE JournalAgrees'
  OBVIOUS
<1>1. ASSUME NEW q \in Quotes, NEW c \in Characters,
             \/ \E n \in Quantities : QuoteEconomy(q, c, n)
             \/ \E i \in Items : QuoteCraft(q, c, i)
      PROVE  JournalAgrees'
  <2>1. UNCHANGED <<sheet, item, object, event, audit, edit>>
    BY <1>1 DEF QuoteEconomy, QuoteCraft
  <2> QED
    BY <2>1, UnwrittenKeepsJournal
<1>2. ASSUME NEW a \in Actions, NEW q \in Quotes,
             \/ \E n \in Items : Purchase(a, q, n) \/ Craft(a, q, n)
             \/ CancelCraft(a, q)
      PROVE  JournalAgrees'
  BY <1>2, PurchaseKeepsJournal, CraftKeepsJournal, CancelsAndOffersKeepJournal
<1>3. ASSUME NEW a \in Actions, NEW i \in Items,
             UseUp(a, i) \/ \E p \in Prices : SaveOffer(a, i, p)
      PROVE  JournalAgrees'
  BY <1>3, UseUpKeepsJournal, CancelsAndOffersKeepJournal
<1>4. ASSUME NEW a \in Actions, NEW b \in Actions, UndoUse(a, b) PROVE JournalAgrees'
  BY <1>4, UndoUseKeepsJournal
<1>5. ASSUME NEW a \in Actions, NEW c \in Characters, GrantSP(a, c, 1) PROVE JournalAgrees'
  BY <1>5, ProgressionKeepsJournal
<1>6. ASSUME NEW a \in Actions, NEW u \in Upgrades,
             \/ \E c \in Characters : Submit(a, u, c, 1)
             \/ Counter(a, u, 2) \/ Consent(a, u) \/ Close(a, u) \/ Apply(a, u) \/ Reverse(a, u)
      PROVE  JournalAgrees'
  BY <1>6, ProgressionKeepsJournal
<1>7. ASSUME NEW e \in Edits, NEW a \in Actions,
             WriteWallet(e, a) \/ WriteItem(e, a) \/ DeleteItem(e, a)
      PROVE  JournalAgrees'
  BY <1>7, WriteWalletKeepsJournal, WriteItemKeepsJournal, DeleteItemKeepsJournal
<1>8. ASSUME NEW e \in Edits,
             \/ \E c \in Characters, n \in Coins : ReadWallet(e, c, n)
             \/ \E i \in Items : \/ ReadDelete(e, i)
                                \/ \E n \in Quantities, c \in Characters \cup {None} :
                                       ReadItem(e, i, n, c)
             \/ GiveUp(e)
      PROVE  JournalAgrees'
  BY <1>8, ReadsKeepJournal
<1>9. CASE UNCHANGED vars
  BY <1>9, UnwrittenKeepsJournal DEF vars
<1>10. CASE Next
  BY <1>1, <1>2, <1>3, <1>4, <1>5, <1>6, <1>7, <1>8, <1>10 DEF Next
<1> QED
  BY <1>9, <1>10

\* The journal adds up: the purchases, operations, SP records and wallet
\* commands booked on a character explain its coins and its SP, and the
\* audited changes of an item its quantity, for any number of characters,
\* items and commands (economy-purchase.ts, creation-operations.ts,
\* character-play-routes.ts, world-content-instances.ts).
THEOREM JournalIsComplete == Spec => []JournalAddsUp
<1>1. JournalAgrees => JournalAddsUp
  BY DEF JournalAgrees
<1> QED
  BY <1>1, InitIInv, NextIInv, InitJournal, NextJournal, PTL DEF Spec
=============================================================================
