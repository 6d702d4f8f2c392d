-------------------------- MODULE AbilityPlayProofs --------------------------
(***************************************************************************)
(* The safety of AbilityPlay for any number of characters, abilities and   *)
(* requests, and the proof that it keeps the ledger of PlayLedger.  What   *)
(* carries it: a row that is still at the revision a request has read, or  *)
(* an application has left, is the row that was read or left.              *)
(***************************************************************************)
EXTENDS AbilityPlay, FiniteSetTheorems, TLAPS

-----------------------------------------------------------------------------
(* The forms of events, requests and receipts.                             *)

LEMMA Constants ==
    /\ Holder \in [Entries -> Characters] /\ Cost \in [Entries -> Nat]
    /\ Counted \subseteq Entries /\ Area \subseteq Entries /\ Crafted \subseteq Entries
    /\ Reach \in [Area -> SUBSET Characters]
    /\ Dice \subseteq Nat /\ MaxPool \in Nat /\ MaxUses \in Nat
    /\ None \notin Actions /\ IsFiniteSet(Actions)
    /\ None \notin Row /\ None \notin Sheet /\ None \notin Kept
    /\ None \notin Application /\ None \notin Cancellation /\ None \notin Reversal
    /\ None \notin Request
    /\ None \notin [uses : 0..MaxUses, after : Nat]
    /\ None \notin [uses : 0..MaxUses, rev : Nat, item : Nat]
  BY PlayAssumption, NoneAssumption

LEMMA Rows ==
    ASSUME TypeOK
    PROVE  /\ \A c \in Characters : char[c] \in Row /\ char[c].rev \in Nat /\ char[c].pool \in 0..MaxPool
           /\ \A e \in Entries : /\ entry[e] \in Sheet /\ entry[e].rev \in Nat
                                 /\ entry[e].uses \in 0..MaxUses
                                 /\ entry[e].live \in BOOLEAN /\ entry[e].item \in Nat
  BY DEF TypeOK, Row, Sheet

LEMMA EventKinds ==
    ASSUME TypeOK, NEW a \in Actions, event[a] # None
    PROVE  /\ event[a] \in Application <=> a \in Applied
           /\ event[a].type = "entry.undo" <=> event[a] \in Reversal
           /\ event[a].type = "ability.area.cancelled" <=> event[a] \in Cancellation
<1>1. event[a] \in Application \cup Cancellation \cup Reversal
  BY DEF TypeOK
<1>2. event[a] \in Application => event[a].type \in {"entry.roll", "ability.area.applied"}
  BY DEF Application
<1>3. event[a] \in Cancellation => event[a].type = "ability.area.cancelled"
  BY DEF Cancellation
<1>4. event[a] \in Reversal => event[a].type = "entry.undo"
  BY DEF Reversal
<1> QED
  BY <1>1, <1>2, <1>3, <1>4 DEF Applied, Recorded

LEMMA ApplicationFields ==
    ASSUME NEW x \in Application
    PROVE  /\ x.on \in Entries /\ x.effect \in [Characters -> Int]
           /\ x.type \in {"entry.roll", "ability.area.applied"}
           /\ x.receipt.entry # None => /\ x.receipt.entry.uses \in 0..MaxUses
                                        /\ x.receipt.entry.after \in Nat
           /\ x.receipt.consumed # None => /\ x.receipt.consumed.uses \in 0..MaxUses
                                           /\ x.receipt.consumed.rev \in Nat
           /\ \A c \in Paid(x.receipt) : /\ c \in Characters /\ x.receipt.chars[c].row \in Row
                                         /\ x.receipt.chars[c].after \in Nat
<1>1. x.receipt \in Receipt /\ x.on \in Entries /\ x.effect \in [Characters -> Int]
      /\ x.type \in {"entry.roll", "ability.area.applied"}
  BY DEF Application
<1>2. \A c \in Paid(x.receipt) : x.receipt.chars[c] \in Kept
  BY <1>1 DEF Receipt, Paid
<1>3. \A c \in Paid(x.receipt) : c \in Characters
  BY DEF Paid
<1> QED
  BY <1>1, <1>2, <1>3 DEF Receipt, Kept

LEMMA AppliedFields ==
    ASSUME TypeOK, NEW a \in Applied
    PROVE  a \in Actions /\ event[a] \in Application /\ event[a].on \in Entries
  BY EventKinds, ApplicationFields DEF Applied, Recorded

LEMMA RequestFields ==
    ASSUME TypeOK, NEW r \in Requests, req[r] # None
    PROVE  /\ req[r] \in Request
           /\ \A c \in Characters : req[r].seen.char[c] # None =>
                  /\ req[r].seen.char[c] \in Row /\ req[r].seen.char[c].rev \in Nat
                  /\ req[r].seen.char[c].pool \in 0..MaxPool
           /\ \A e \in Entries : req[r].seen.entry[e] # None =>
                  /\ req[r].seen.entry[e] \in Sheet /\ req[r].seen.entry[e].rev \in Nat
                  /\ req[r].seen.entry[e].uses \in 0..MaxUses
<1>1. req[r] \in Request
  BY DEF TypeOK
<1> QED
  BY <1>1 DEF Request, Row, Sheet

-----------------------------------------------------------------------------
(* How rows and the journal move.                                          *)

JournalGrows == \A b \in Recorded : event'[b] = event[b]
CharsMove == \A c \in Characters : char'[c] = char[c] \/ char'[c].rev > char[c].rev

EntryMoves(e) ==
    \/ entry'[e].rev > entry[e].rev
    \/ /\ entry'[e].rev = entry[e].rev
       /\ entry'[e].live => entry[e].live /\ entry'[e].uses = entry[e].uses

LEMMA AppliedGrows ==
    ASSUME TypeOK', JournalGrows, NEW a \in Applied
    PROVE  a \in Applied' /\ event'[a] = event[a] /\ (a \in Undone => a \in Undone')
<1>1. event'[a] = event[a] /\ a \in Recorded
  BY DEF JournalGrows, Applied
<1>2. a \in Applied'
  BY <1>1 DEF Applied, Recorded
<1>3. Undoing(a) \subseteq Undoing(a)'
  BY DEF Undoing, JournalGrows, Recorded
<1> QED
  BY <1>1, <1>2, <1>3 DEF Undone

LEMMA SeenKept ==
    ASSUME IInv, TypeOK', JournalGrows, CharsMove, \A e \in Entries : EntryMoves(e),
           NEW r \in Requests, req[r] # None, req'[r] = req[r]
    PROVE  SeenAgrees(r)'
<1>1. PICK q : q = req[r] /\ q = req'[r]
  OBVIOUS
<1>2. SeenAgrees(r) /\ TypeOK
  BY DEF IInv
<1>3. ASSUME NEW c \in Characters, q.seen.char[c] # None
      PROVE  /\ q.seen.char[c].rev <= char'[c].rev
             /\ q.seen.char[c].rev = char'[c].rev => q.seen.char[c] = char'[c]
  <2>1. /\ q.seen.char[c].rev \in Nat /\ char[c].rev \in Nat /\ char'[c].rev \in Nat
        /\ q.seen.char[c].rev <= char[c].rev
        /\ q.seen.char[c].rev = char[c].rev => q.seen.char[c] = char[c]
    <3>1. char'[c].rev \in Nat
      BY DEF TypeOK, Row
    <3> QED
      BY <1>1, <1>2, <1>3, <3>1, Rows, RequestFields DEF SeenAgrees
  <2> QED
    BY <2>1 DEF CharsMove
<1>4. ASSUME NEW e \in Entries, q.seen.entry[e] # None
      PROVE  /\ q.seen.entry[e].rev <= entry'[e].rev
             /\ q.seen.entry[e].rev = entry'[e].rev /\ entry'[e].live =>
                    q.seen.entry[e].live /\ q.seen.entry[e].uses = entry'[e].uses
  <2>1. /\ q.seen.entry[e].rev \in Nat /\ entry[e].rev \in Nat /\ entry'[e].rev \in Nat
        /\ q.seen.entry[e].rev <= entry[e].rev
        /\ q.seen.entry[e].rev = entry[e].rev /\ entry[e].live =>
               q.seen.entry[e].live /\ q.seen.entry[e].uses = entry[e].uses
    <3>1. entry'[e].rev \in Nat
      BY DEF TypeOK, Sheet
    <3> QED
      BY <1>1, <1>2, <1>4, <3>1, Rows, RequestFields DEF SeenAgrees
  <2>2. EntryMoves(e)
    OBVIOUS
  <2> QED
    BY <2>1, <2>2 DEF EntryMoves
<1>5. q.kind = "undo" => q.act \in Actions /\ q.on \in Applied'
  BY <1>1, <1>2, AppliedGrows DEF SeenAgrees
<1> QED
  BY <1>1, <1>2, <1>3, <1>4, <1>5 DEF SeenAgrees

LEMMA ReceiptKept ==
    ASSUME IInv, TypeOK', JournalGrows, CharsMove, NEW a \in Applied, NEW e, e = event[a].on,
           e \notin Crafted =>
               \/ entry'[e].rev > entry[e].rev
               \/ /\ entry'[e].rev = entry[e].rev
                  /\ entry'[e].live => /\ entry[e].live /\ entry'[e].uses = entry[e].uses
                                       /\ e \in Counted /\ a \in charged[e] => a \in charged'[e],
           e \in Crafted /\ a \notin Undone' =>
               /\ entry'[e].live = entry[e].live /\ entry'[e].rev = entry[e].rev
               /\ entry'[e].uses = entry[e].uses /\ (a \in charged[e] => a \in charged'[e])
    PROVE  ReceiptAgrees(a)'
<1>1. TypeOK /\ ReceiptAgrees(a)
  BY DEF IInv
<1>2. /\ a \in Actions /\ event[a] \in Application /\ e \in Entries
      /\ event'[a] = event[a] /\ (a \in Undone => a \in Undone')
  BY <1>1, AppliedFields, AppliedGrows
<1>3. PICK x : x = event[a] /\ x = event'[a] /\ x \in Application /\ x.on = e
  BY <1>2
<1>4. ASSUME NEW c \in Paid(x.receipt)
      PROVE  /\ x.receipt.chars[c].after <= char'[c].rev
             /\ x.receipt.chars[c].after = char'[c].rev =>
                    char'[c].pool = x.receipt.chars[c].row.pool + x.effect[c]
  <2>1. /\ c \in Characters /\ x.receipt.chars[c].after \in Nat /\ char[c].rev \in Nat
        /\ char'[c].rev \in Nat /\ x.receipt.chars[c].after <= char[c].rev
        /\ x.receipt.chars[c].after = char[c].rev =>
               char[c].pool = x.receipt.chars[c].row.pool + x.effect[c]
    <3>1. c \in Characters /\ x.receipt.chars[c].after \in Nat
      BY <1>3, <1>4, ApplicationFields
    <3>2. char'[c].rev \in Nat
      BY <3>1 DEF TypeOK, Row
    <3> QED
      BY <1>1, <1>3, <1>4, <3>1, <3>2, Rows DEF ReceiptAgrees
  <2> QED
    BY <2>1 DEF CharsMove
<1>5. x.receipt.entry # None =>
          /\ e \notin Crafted /\ x.receipt.entry.after <= entry'[e].rev
          /\ x.receipt.entry.after = entry'[e].rev /\ entry'[e].live =>
                 /\ entry'[e].uses = x.receipt.entry.uses - Price(e)
                 /\ e \in Counted => a \in charged'[e]
  <2> SUFFICES ASSUME x.receipt.entry # None
               PROVE  /\ e \notin Crafted /\ x.receipt.entry.after <= entry'[e].rev
                      /\ x.receipt.entry.after = entry'[e].rev /\ entry'[e].live =>
                             /\ entry'[e].uses = x.receipt.entry.uses - Price(e)
                             /\ e \in Counted => a \in charged'[e]
    OBVIOUS
  <2>1. /\ e \notin Crafted /\ x.receipt.entry.after <= entry[e].rev
        /\ x.receipt.entry.after = entry[e].rev /\ entry[e].live =>
               /\ entry[e].uses = x.receipt.entry.uses - Price(e)
               /\ e \in Counted => a \in charged[e]
    BY <1>1, <1>3 DEF ReceiptAgrees
  <2>2. x.receipt.entry.after \in Nat /\ entry[e].rev \in Nat
    BY <1>1, <1>2, <1>3, ApplicationFields, Rows
  <2>3. entry'[e].rev \in Nat
    BY <1>2 DEF TypeOK, Sheet
  <2> QED
    BY <2>1, <2>2, <2>3
<1>6. e \in Crafted /\ a \notin Undone' =>
          /\ ~entry'[e].live
          /\ entry'[e].rev <= x.receipt.consumed.rev + 1
          /\ entry'[e].uses = x.receipt.consumed.uses - Price(e)
          /\ e \in Counted => a \in charged'[e]
  BY <1>1, <1>2, <1>3 DEF ReceiptAgrees
<1>7. /\ \A c \in Characters \ Paid(x.receipt) : x.effect[c] = 0
      /\ x.receipt.consumed # None <=> e \in Crafted
      /\ x.receipt.entry = None /\ e \notin Crafted => e \notin Counted
  BY <1>1, <1>3 DEF ReceiptAgrees
<1> QED
  BY <1>3, <1>4, <1>5, <1>6, <1>7 DEF ReceiptAgrees

-----------------------------------------------------------------------------
(* Steps that apply and undo nothing: reads, rests, recharges and edits.   *)

Tuned(e) ==
    \/ /\ entry'[e].rev > entry[e].rev
       /\ e \in Crafted => entry[e].live /\ entry'[e].live
    \/ /\ entry'[e].rev = entry[e].rev
       /\ entry'[e].live => entry[e].live
       /\ e \in Crafted \/ entry'[e].live =>
              /\ entry'[e].live = entry[e].live /\ entry'[e].uses = entry[e].uses
              /\ charged'[e] = charged[e]

\* The counter is untouched, or set anew.
Recounted(e) ==
    \/ /\ entry'[e].uses = entry[e].uses /\ (entry'[e].live => entry[e].live)
       /\ charged'[e] = charged[e] /\ base'[e] = base[e]
    \/ charged'[e] = {} /\ base'[e] = entry'[e].uses

LEMMA RecountKeepsUses ==
    ASSUME UsesAreAccounted, TypeOK', \A e \in Counted : Recounted(e)
    PROVE  UsesAreAccounted'
<1> SUFFICES ASSUME NEW e \in Counted, entry'[e].live \/ e \in Crafted
             PROVE  entry'[e].uses = base'[e] - Cardinality(charged'[e])
  BY DEF UsesAreAccounted
<1>1. entry'[e].uses \in Nat
  BY Constants DEF TypeOK, Sheet
<1>2. CASE charged'[e] = {} /\ base'[e] = entry'[e].uses
  BY <1>1, <1>2, FS_EmptySet
<1>3. CASE /\ entry'[e].uses = entry[e].uses /\ (entry'[e].live => entry[e].live)
           /\ charged'[e] = charged[e] /\ base'[e] = base[e]
  BY <1>3 DEF UsesAreAccounted
<1> QED
  BY <1>2, <1>3 DEF Recounted

LEMMA TuneKeepsIInv ==
    ASSUME IInv, TypeOK', CharsMove,
           \A a \in Actions : event'[a] = event[a] \/ (event[a] = None /\ event'[a] \in Cancellation),
           \A e \in Entries : Tuned(e) /\ charged'[e] \subseteq charged[e],
           \A e \in Counted : Recounted(e),
           \A r \in Requests : req'[r] # None => req'[r] = req[r] \/ SeenAgrees(r)'
    PROVE  IInv'
<1>1. TypeOK
  BY DEF IInv
<1>2. \A a \in Actions : event'[a] \in Cancellation =>
          event'[a] # None /\ event'[a].type = "ability.area.cancelled"
  BY Constants DEF Cancellation
<1>3. JournalGrows /\ Recorded \subseteq Recorded'
  BY <1>2 DEF JournalGrows, Recorded
<1>4. Applied' = Applied
  BY <1>2 DEF Applied, Recorded
<1>5. \A a \in Applied : Undoing(a)' = Undoing(a)
  BY <1>2 DEF Undoing, Recorded
<1>6. Undone' = Undone
  BY <1>4, <1>5 DEF Undone
<1>7. \A a \in Applied : event'[a] = event[a]
  BY <1>3 DEF JournalGrows, Applied
<1>8. \A u \in Recorded' : event'[u].type = "entry.undo" => event'[u].on \in Applied'
  BY <1>2, <1>4 DEF IInv, Recorded
<1>9. ASSUME NEW a \in Applied PROVE ReceiptAgrees(a)'
  <2>1. PICK e \in Entries : e = event[a].on
    BY <1>1, AppliedFields
  <2>2. Tuned(e)
    OBVIOUS
  <2>3. e \in Crafted /\ a \notin Undone => ~entry[e].live
    BY <2>1 DEF IInv, ReceiptAgrees
  <2> QED
    BY <1>3, <1>6, <2>1, <2>2, <2>3, ReceiptKept DEF Tuned
<1>10. ASSUME NEW r \in Requests, req'[r] # None PROVE SeenAgrees(r)'
  <2>1. CASE req'[r] = req[r]
    <3>1. \A e \in Entries : EntryMoves(e)
      BY DEF Tuned, EntryMoves
    <3> QED
      BY <1>3, <1>10, <2>1, <3>1, SeenKept
  <2> QED
    BY <1>10, <2>1
<1>11. ASSUME NEW e \in Crafted
       PROVE  /\ entry'[e].live <=> Standing(e)' = {}
              /\ \A a, b \in Standing(e)' : a = b
  <2>1. Standing(e)' = Standing(e)
    BY <1>4, <1>6, <1>7 DEF Standing
  <2>2. e \in Entries
    BY Constants
  <2>3. Tuned(e)
    BY <2>2
  <2>4. entry'[e].live = entry[e].live
    <3>1. entry[e].live \in BOOLEAN /\ entry'[e].live \in BOOLEAN
      BY <2>2 DEF IInv, TypeOK, Sheet
    <3> QED
      BY <2>3, <3>1 DEF Tuned
  <2> QED
    BY <2>1, <2>4 DEF IInv
<1>12. \A e \in Entries : charged'[e] \subseteq Recorded'
  BY <1>3 DEF IInv
<1>13. UsesAreAccounted'
  BY RecountKeepsUses DEF IInv
<1> QED
  BY <1>4, <1>8, <1>9, <1>10, <1>11, <1>12, <1>13 DEF IInv

(* A request is taken up, or dropped.                                      *)
LEMMA RequestKeepsIInv ==
    ASSUME IInv, NEW r \in Requests, NEW q \in Request \cup {None}, req' = [req EXCEPT ![r] = q],
           UNCHANGED <<char, entry, event, charged, base, edits>>,
           q # None => SeenAgrees(r)'
    PROVE  IInv'
<1>1. TypeOK'
  BY DEF IInv, TypeOK
<1>2. req'[r] = q /\ \A s \in Requests \ {r} : req'[s] = req[s]
  BY DEF IInv, TypeOK
<1>3. CharsMove /\ \A e \in Entries : Tuned(e) /\ charged'[e] \subseteq charged[e]
  BY DEF CharsMove, Tuned
<1>4. \A e \in Counted : Recounted(e)
  BY DEF Recounted
<1>5. \A s \in Requests : req'[s] # None => req'[s] = req[s] \/ SeenAgrees(s)'
  <2> TAKE s \in Requests
  <2>1. CASE s = r
    BY <1>2, <2>1
  <2>2. CASE s # r
    BY <1>2, <2>2
  <2> QED
    BY <2>1, <2>2
<1>6. event' = event
  OBVIOUS
<1> QED
  BY <1>1, <1>3, <1>4, <1>5, <1>6, TuneKeepsIInv

LEMMA StartKeepsIInv ==
    ASSUME IInv, NEW r \in Requests, NEW kind \in {"roll", "area", "undo", "rest", "recharge"},
           NEW a \in Actions \cup {None}, NEW target \in Entries \cup Actions \cup Characters,
           NEW cs \in SUBSET Characters, NEW es \in SUBSET Entries,
           Start(r, kind, a, target, cs, es),
           kind # "rest" /\ kind # "recharge" => a \in Actions,
           kind = "roll" => /\ target \in Entries /\ Holder[target] \in cs /\ target \in es
                            /\ CanPay(target, char, entry[target]),
           kind = "area" => target \in Area,
           kind = "undo" => target \in Applied,
           kind = "rest" => target \in Characters /\ target \in cs,
           kind = "recharge" => target \in Counted /\ target \in es
    PROVE  IInv'
<1> DEFINE seen == [char  |-> [c \in Characters |-> IF c \in cs THEN char[c] ELSE None],
                    entry |-> [e \in Entries |-> IF e \in es THEN entry[e] ELSE None]]
           new == [kind |-> kind, act |-> a, on |-> target, seen |-> seen]
<1>1. PICK q \in Request :
          /\ req' = [req EXCEPT ![r] = q] /\ q = req'[r]
          /\ q.kind = kind /\ q.act = a /\ q.on = target
          /\ \A c \in Characters : q.seen.char[c] = IF c \in cs THEN char[c] ELSE None
          /\ \A e \in Entries : q.seen.entry[e] = IF e \in es THEN entry[e] ELSE None
  <2>1. seen \in [char : [Characters -> Row \cup {None}], entry : [Entries -> Sheet \cup {None}]]
    BY DEF IInv, TypeOK
  <2>2. /\ \A c \in Characters : seen.char[c] = IF c \in cs THEN char[c] ELSE None
        /\ \A e \in Entries : seen.entry[e] = IF e \in es THEN entry[e] ELSE None
    OBVIOUS
  <2>3. req' = [req EXCEPT ![r] = new]
    BY DEF Start
  <2> HIDE DEF seen
  <2>4. new \in Request /\ new.kind = kind /\ new.act = a /\ new.on = target /\ new.seen = seen
    BY <2>1 DEF Request
  <2> HIDE DEF new
  <2>5. req'[r] = new
    BY <2>3 DEF IInv, TypeOK
  <2> QED
    BY <2>2, <2>3, <2>4, <2>5
<1> HIDE DEF seen, new
<1>2. q # None
  BY Constants
<1>3. UNCHANGED <<char, entry, event, charged, base, edits>>
  BY DEF Start
<1>4. /\ \A c \in Characters : char[c] \in Row /\ char[c].rev \in Nat /\ char[c] # None
      /\ \A e \in Entries : entry[e] \in Sheet /\ entry[e].rev \in Nat /\ entry[e] # None
  BY Rows, Constants DEF IInv
<1>5. Applied' = Applied
  BY <1>3 DEF Applied, Recorded
<1>6. kind = "roll" => CanPay(target, q.seen.char, q.seen.entry[target])
  BY <1>1, Constants DEF CanPay
<1>7. \A c \in cs : c \in Characters /\ q.seen.char[c] # None
  BY <1>1, <1>4
<1>8. \A e \in es : e \in Entries /\ q.seen.entry[e] # None
  BY <1>1, <1>4
<1>9. SeenAgrees(r)'
  <2>1. /\ \A c \in Characters : q.seen.char[c] # None =>
               /\ q.seen.char[c].rev <= char'[c].rev
               /\ q.seen.char[c].rev = char'[c].rev => q.seen.char[c] = char'[c]
        /\ \A e \in Entries : q.seen.entry[e] # None =>
               /\ q.seen.entry[e].rev <= entry'[e].rev
               /\ q.seen.entry[e].rev = entry'[e].rev /\ entry'[e].live =>
                      q.seen.entry[e].live /\ q.seen.entry[e].uses = entry'[e].uses
    BY <1>1, <1>3, <1>4
  <2> QED
    BY <1>1, <1>5, <1>6, <1>7, <1>8, <2>1 DEF SeenAgrees
<1> QED
  BY <1>1, <1>2, <1>3, <1>9, RequestKeepsIInv

LEMMA BeginKeepsIInv ==
    ASSUME IInv, NEW r \in Requests,
           \/ \E a \in Actions, e \in Entries : BeginRoll(r, a, e) \/ BeginArea(r, a, e)
           \/ \E u, a \in Actions : BeginUndo(r, u, a)
           \/ \E c \in Characters : BeginRest(r, c)
           \/ \E e \in Entries : BeginRecharge(r, e)
    PROVE  IInv'
<1>1. ASSUME NEW a \in Actions, NEW e \in Entries, BeginRoll(r, a, e) PROVE IInv'
  BY <1>1, StartKeepsIInv, Constants DEF BeginRoll
<1>2. ASSUME NEW a \in Actions, NEW e \in Entries, BeginArea(r, a, e) PROVE IInv'
  BY <1>2, StartKeepsIInv, Constants DEF BeginArea
<1>3. ASSUME NEW u \in Actions, NEW a \in Actions, BeginUndo(r, u, a) PROVE IInv'
  <2>1. PICK cs \in SUBSET Characters, e \in Entries :
            Start(r, "undo", u, a, cs, {e}) /\ a \in Applied
    <3>1. Paid(event[a].receipt) \in SUBSET Characters
      BY DEF Paid
    <3>2. event[a].on \in Entries
      BY <1>3, AppliedFields DEF BeginUndo, IInv
    <3> QED
      BY <1>3, <3>1, <3>2 DEF BeginUndo
  <2> QED
    BY <2>1, StartKeepsIInv
<1>4. ASSUME NEW c \in Characters, BeginRest(r, c) PROVE IInv'
  BY <1>4, StartKeepsIInv DEF BeginRest
<1>5. ASSUME NEW e \in Entries, BeginRecharge(r, e) PROVE IInv'
  BY <1>5, StartKeepsIInv DEF BeginRecharge
<1> QED
  BY <1>1, <1>2, <1>3, <1>4, <1>5

LEMMA GiveUpKeepsIInv ==
    ASSUME IInv, NEW r \in Requests, GiveUp(r) PROVE IInv'
  BY RequestKeepsIInv DEF GiveUp, Finish

-----------------------------------------------------------------------------
(* The writes of one row.                                                  *)

Refill(x, n) == [x EXCEPT !.uses = n, !.rev = @ + 1]

LEMMA Refilled ==
    ASSUME NEW x \in Sheet, NEW n \in 0..MaxUses
    PROVE  /\ Refill(x, n) \in Sheet
           /\ Refill(x, n).uses = n /\ Refill(x, n).rev = x.rev + 1 /\ Refill(x, n).rev > x.rev
           /\ Refill(x, n).live = x.live /\ Refill(x, n).item = x.item
<1>1. PICK y : y = Refill(x, n)
  OBVIOUS
<1>2. x.rev \in Nat
  BY DEF Sheet
<1>3. y.uses = n /\ y.rev = x.rev + 1 /\ y.live = x.live /\ y.item = x.item
  BY <1>1 DEF Sheet, Refill
<1>4. y \in Sheet
  <2>1. y.uses \in 0..MaxUses /\ y.rev \in Nat /\ y.live \in BOOLEAN /\ y.item \in Nat
    BY <1>2, <1>3 DEF Sheet
  <2>2. y = [uses |-> y.uses, rev |-> y.rev, live |-> y.live, item |-> y.item]
    BY <1>1 DEF Sheet, Refill
  <2> QED
    BY <2>1, <2>2 DEF Sheet
<1> QED
  BY <1>1, <1>2, <1>3, <1>4

LEMMA Gone ==
    ASSUME NEW x \in Sheet, NEW y, y = [x EXCEPT !.live = FALSE]
    PROVE  y \in Sheet /\ y.uses = x.uses /\ y.rev = x.rev /\ ~y.live
  BY DEF Sheet

LEMMA CharWritten ==
    ASSUME TypeOK, NEW c \in Characters, NEW n \in 0..MaxPool, NEW x,
           x = [char[c] EXCEPT !.pool = n, !.rev = @ + 1], char' = [char EXCEPT ![c] = x]
    PROVE  char' \in [Characters -> Row] /\ CharsMove
<1>1. char[c] \in Row /\ char[c].rev \in Nat
  BY Rows
<1>2. x \in Row /\ x.rev > char[c].rev
  <2>1. x.pool = n /\ x.rev = char[c].rev + 1
    BY <1>1 DEF Row
  <2>2. x = [pool |-> x.pool, rev |-> x.rev]
    BY <1>1 DEF Row
  <2> QED
    BY <1>1, <2>1, <2>2 DEF Row
<1> QED
  BY <1>2 DEF TypeOK, CharsMove

LEMMA EntryWritten ==
    ASSUME TypeOK, NEW e \in Entries, NEW x \in Sheet, entry' = [entry EXCEPT ![e] = x],
           NEW n \in 0..MaxUses, NEW old \in SUBSET Actions,
           charged' = [charged EXCEPT ![e] = old], base' = [base EXCEPT ![e] = n]
    PROVE  /\ entry' \in [Entries -> Sheet] /\ entry'[e] = x
           /\ charged' \in [Entries -> SUBSET Actions] /\ charged'[e] = old
           /\ base' \in [Entries -> 0..MaxUses] /\ base'[e] = n
           /\ \A d \in Entries \ {e} : /\ entry'[d] = entry[d] /\ charged'[d] = charged[d]
                                       /\ base'[d] = base[d] /\ Tuned(d) /\ Recounted(d)
<1>1. /\ entry' \in [Entries -> Sheet] /\ entry'[e] = x
      /\ charged' \in [Entries -> SUBSET Actions] /\ charged'[e] = old
      /\ base' \in [Entries -> 0..MaxUses] /\ base'[e] = n
      /\ \A d \in Entries \ {e} : /\ entry'[d] = entry[d] /\ charged'[d] = charged[d]
                                  /\ base'[d] = base[d]
  BY DEF TypeOK
<1> QED
  BY <1>1 DEF Tuned, Recounted

LEMMA RechargeTunes ==
    ASSUME TypeOK, NEW es \in SUBSET {e \in Counted : entry[e].live}, Recharged(es)
    PROVE  /\ entry' \in [Entries -> Sheet] /\ charged' \in [Entries -> SUBSET Actions]
           /\ base' \in [Entries -> 0..MaxUses]
           /\ \A e \in Entries : Tuned(e) /\ Recounted(e) /\ charged'[e] \subseteq charged[e]
<1> DEFINE new(e) == Refill(entry[e], MaxUses)
<1>1. \A e \in Entries : /\ new(e) \in Sheet /\ new(e).rev = entry[e].rev + 1
                         /\ new(e).live = entry[e].live /\ new(e).uses = MaxUses
  <2> TAKE e \in Entries
  <2>1. entry[e] \in Sheet /\ MaxUses \in 0..MaxUses
    BY Rows, Constants
  <2> QED
    BY <2>1, Refilled
<1>2. /\ entry' = [e \in Entries |-> IF e \in es THEN new(e) ELSE entry[e]]
      /\ charged' = [e \in Entries |-> IF e \in es THEN {} ELSE charged[e]]
      /\ base' = [e \in Entries |-> IF e \in es THEN MaxUses ELSE base[e]]
  BY DEF Recharged, Refill
<1> HIDE DEF new
<1>3. MaxUses \in 0..MaxUses
  BY Constants
<1>4. /\ entry' \in [Entries -> Sheet] /\ charged' \in [Entries -> SUBSET Actions]
      /\ base' \in [Entries -> 0..MaxUses]
  BY <1>1, <1>2, <1>3 DEF TypeOK
<1>5. ASSUME NEW e \in es
      PROVE  Tuned(e) /\ Recounted(e) /\ charged'[e] \subseteq charged[e]
  <2>1. e \in Entries /\ entry[e].live /\ entry[e].rev \in Nat
    BY Constants, Rows
  <2>2. entry'[e] = new(e) /\ charged'[e] = {} /\ base'[e] = MaxUses
    BY <1>2, <2>1
  <2>3. entry'[e].rev > entry[e].rev /\ entry'[e].live
    BY <1>1, <2>1, <2>2
  <2>5. Tuned(e)
    BY <2>1, <2>3, Zenon DEF Tuned
  <2>4. Recounted(e)
    BY <1>1, <2>1, <2>2 DEF Recounted
  <2> QED
    BY <2>2, <2>4, <2>5
<1>6. ASSUME NEW e \in Entries \ es
      PROVE  Tuned(e) /\ Recounted(e) /\ charged'[e] \subseteq charged[e]
  BY <1>2 DEF Tuned, Recounted
<1> QED
  BY <1>4, <1>5, <1>6

(* The requests that end with a write.                                     *)
LEMMA Finished ==
    ASSUME TypeOK, NEW r \in Requests, Finish(r)
    PROVE  /\ req' \in [Requests -> Request \cup {None}] /\ req'[r] = None
           /\ \A s \in Requests : req'[s] # None => req'[s] = req[s] /\ req[s] # None
  BY DEF Finish, TypeOK

LEMMA EntriesAlone ==
    ASSUME UNCHANGED <<entry, charged, base>>
    PROVE  \A e \in Entries : Tuned(e) /\ Recounted(e) /\ charged'[e] \subseteq charged[e]
  BY DEF Tuned, Recounted

LEMMA CommitRestKeepsIInv ==
    ASSUME IInv, NEW r \in Requests, CommitRest(r) PROVE IInv'
<1>1. PICK c \in Characters : c = req[r].on /\ req[r].seen.char[c] # None
  BY DEF CommitRest, Doing, IInv, SeenAgrees
<1>2. TypeOK /\ req[r] # None
  BY DEF IInv, CommitRest, Doing
<1>3. PICK own \in Row : own = req[r].seen.char[c] /\ own = char[c]
  <2>1. req[r].seen.char[c] \in Row
    BY <1>1, <1>2, RequestFields
  <2>2. char[c].rev = req[r].seen.char[c].rev
    BY <1>1 DEF CommitRest
  <2> QED
    BY <1>1, <1>2, <2>1, <2>2 DEF IInv, SeenAgrees
<1>4. PICK n \in 0..MaxPool : n = Least(MaxPool, own.pool + 1)
  BY Constants DEF Row, Least
<1>5. char' = [char EXCEPT ![c] = [own EXCEPT !.pool = n, !.rev = @ + 1]]
  <2>1. char' = [char EXCEPT ![c] = [own EXCEPT !.pool = Least(MaxPool, own.pool + 1), !.rev = @ + 1]]
    BY <1>1, <1>3 DEF CommitRest, Row
  <2> QED
    BY <1>4, <2>1
<1>6. char' \in [Characters -> Row] /\ CharsMove
  BY <1>2, <1>3, <1>5, CharWritten
<1>7. /\ entry' \in [Entries -> Sheet] /\ charged' \in [Entries -> SUBSET Actions]
      /\ base' \in [Entries -> 0..MaxUses]
      /\ \A e \in Entries : Tuned(e) /\ Recounted(e) /\ charged'[e] \subseteq charged[e]
  <2>1. Due(c) \in SUBSET {e \in Counted : entry[e].live}
    BY DEF Due
  <2>2. Recharged(Due(c))
    BY <1>1 DEF CommitRest
  <2> QED
    BY <1>2, <2>1, <2>2, RechargeTunes
<1>8. /\ event' = event /\ edits' = edits + 1
      /\ req' \in [Requests -> Request \cup {None}]
      /\ \A s \in Requests : req'[s] # None => req'[s] = req[s]
  BY <1>2, Finished DEF CommitRest, Edit
<1>9. TypeOK'
  BY <1>2, <1>6, <1>7, <1>8 DEF TypeOK
<1> QED
  BY <1>6, <1>7, <1>8, <1>9, TuneKeepsIInv, Constants

LEMMA LongRestKeepsIInv == ASSUME IInv, LongRest PROVE IInv'
<1>1. TypeOK
  BY DEF IInv
<1> DEFINE gains == {c \in Characters : char[c].pool < MaxPool}
           new(c) == [char[c] EXCEPT !.pool = @ + 1, !.rev = @ + 1]
<1>2. \A c \in gains : /\ c \in Characters /\ new(c) \in Row
                       /\ new(c).rev > char[c].rev
  <2> TAKE c \in gains
  <2>1. char[c] \in Row /\ char[c].pool < MaxPool
    BY <1>1, Rows
  <2>2. char[c].pool + 1 \in 0..MaxPool /\ char[c].rev \in Nat
    BY <1>1, <2>1, Rows, Constants
  <2>3. PICK x : x = new(c)
    OBVIOUS
  <2>4. x.pool = char[c].pool + 1 /\ x.rev = char[c].rev + 1 /\ x = [pool |-> x.pool, rev |-> x.rev]
    BY <2>1, <2>3 DEF Row
  <2> HIDE DEF new
  <2> QED
    BY <2>2, <2>3, <2>4 DEF Row
<1>3. char' = [c \in Characters |-> IF c \in gains THEN new(c) ELSE char[c]]
  BY DEF LongRest
<1> HIDE DEF new, gains
<1>4. char' \in [Characters -> Row] /\ CharsMove
  BY <1>1, <1>2, <1>3 DEF TypeOK, CharsMove
<1>5. /\ entry' \in [Entries -> Sheet] /\ charged' \in [Entries -> SUBSET Actions]
      /\ base' \in [Entries -> 0..MaxUses]
      /\ \A e \in Entries : Tuned(e) /\ Recounted(e) /\ charged'[e] \subseteq charged[e]
  <2>1. UNION {Due(c) : c \in Characters} \in SUBSET {e \in Counted : entry[e].live}
    BY DEF Due
  <2>2. Recharged(UNION {Due(c) : c \in Characters})
    BY DEF LongRest
  <2> QED
    BY <1>1, <2>1, <2>2, RechargeTunes
<1>6. event' = event /\ req' = req /\ edits' = edits + 1
  BY DEF LongRest, Edit
<1>7. TypeOK'
  BY <1>1, <1>4, <1>5, <1>6 DEF TypeOK
<1> QED
  BY <1>4, <1>5, <1>6, <1>7, TuneKeepsIInv, Constants

(* One entry is set anew.                                                  *)
LEMMA ResetKeepsIInv ==
    ASSUME IInv, NEW e \in Entries, NEW x \in Sheet, entry' = [entry EXCEPT ![e] = x],
           x.rev >= entry[e].rev, x.live => x.rev > entry[e].rev,
           e \in Crafted => x.live, entry[e].live,
           charged' = [charged EXCEPT ![e] = {}], base' = [base EXCEPT ![e] = x.uses],
           UNCHANGED <<char, event>>, Edit,
           req' \in [Requests -> Request \cup {None}],
           \A s \in Requests : req'[s] # None => req'[s] = req[s]
    PROVE  IInv'
<1>1. TypeOK
  BY DEF IInv
<1>2. x.uses \in 0..MaxUses /\ x.rev \in Nat /\ entry[e].rev \in Nat
  BY <1>1, Rows DEF Sheet
<1>3. /\ entry' \in [Entries -> Sheet] /\ entry'[e] = x
      /\ charged' \in [Entries -> SUBSET Actions] /\ charged'[e] = {}
      /\ base' \in [Entries -> 0..MaxUses] /\ base'[e] = x.uses
      /\ \A d \in Entries \ {e} : charged'[d] = charged[d] /\ Tuned(d) /\ Recounted(d)
  <2>1. {} \in SUBSET Actions
    OBVIOUS
  <2> QED
    BY <1>1, <1>2, <2>1, EntryWritten
<1>4. Tuned(e) /\ Recounted(e)
  <2>1. Tuned(e)
    <3>1. CASE x.live
      BY <1>3, <3>1, Zenon DEF Tuned
    <3>2. CASE ~x.live
      <4>1. CASE x.rev > entry[e].rev
        BY <1>3, <3>2, <4>1, Zenon DEF Tuned
      <4>2. CASE x.rev = entry[e].rev
        BY <1>3, <3>2, <4>2, Zenon DEF Tuned
      <4> QED
        BY <1>2, <4>1, <4>2
    <3> QED
      BY <3>1, <3>2
  <2>2. Recounted(e)
    BY <1>3 DEF Recounted
  <2> QED
    BY <2>1, <2>2
<1>5. \A d \in Entries : Tuned(d) /\ Recounted(d) /\ charged'[d] \subseteq charged[d]
  BY <1>3, <1>4
<1>6. TypeOK' /\ CharsMove
  BY <1>1, <1>3 DEF TypeOK, CharsMove, Edit
<1>7. event' = event
  OBVIOUS
<1> QED
  BY <1>5, <1>6, <1>7, TuneKeepsIInv, Constants

LEMMA CommitRechargeKeepsIInv ==
    ASSUME IInv, NEW r \in Requests, CommitRecharge(r) PROVE IInv'
<1>1. TypeOK /\ req[r] # None
  BY DEF IInv, CommitRecharge, Doing
<1>2. PICK e \in Entries : e = req[r].on /\ e \in Counted /\ req[r].seen.entry[e] # None
  BY Constants DEF CommitRecharge, Doing, IInv, SeenAgrees
<1>3. PICK seen \in Sheet : seen = req[r].seen.entry[e] /\ seen.live /\ seen.rev = entry[e].rev
                            /\ entry[e].live
  <2>1. req[r].seen.entry[e] \in Sheet
    BY <1>1, <1>2, RequestFields
  <2>2. entry[e].live /\ entry[e].rev = req[r].seen.entry[e].rev
    BY <1>2 DEF CommitRecharge, Sheet
  <2> QED
    BY <1>1, <1>2, <2>1, <2>2 DEF IInv, SeenAgrees
<1> DEFINE y == [seen EXCEPT !.item = entry[e].item]
           x == Refill(y, MaxUses)
<1>4. /\ entry' = [entry EXCEPT ![e] = x] /\ charged' = [charged EXCEPT ![e] = {}]
      /\ base' = [base EXCEPT ![e] = MaxUses] /\ UNCHANGED <<char, event>> /\ Edit /\ Finish(r)
  BY <1>2, <1>3 DEF CommitRecharge, Refill
<1>5. x \in Sheet /\ x.uses = MaxUses /\ x.live /\ x.rev > entry[e].rev /\ x.rev >= entry[e].rev
  <2>1. y \in Sheet /\ y.rev = entry[e].rev /\ y.live
    <3>1. entry[e].item \in Nat
      BY <1>1, Rows
    <3> QED
      BY <1>3, <3>1 DEF Sheet
  <2>2. MaxUses \in 0..MaxUses
    BY Constants
  <2>3. entry[e].rev \in Nat
    BY <1>1, Rows
  <2> HIDE DEF y
  <2> QED
    BY <2>1, <2>2, <2>3, Refilled
<1> HIDE DEF x, y
<1>6. /\ req' \in [Requests -> Request \cup {None}]
      /\ \A s \in Requests : req'[s] # None => req'[s] = req[s]
  BY <1>1, <1>4, Finished
<1> QED
  BY <1>3, <1>4, <1>5, <1>6, ResetKeepsIInv

LEMMA EditEntryKeepsIInv ==
    ASSUME IInv, NEW e \in Entries, NEW n \in 0..MaxUses, EditEntry(e, n) PROVE IInv'
<1> DEFINE x == Refill(entry[e], n)
<1>1. x \in Sheet /\ x.uses = n /\ x.rev > entry[e].rev /\ x.rev >= entry[e].rev
      /\ x.live = entry[e].live
  <2>1. entry[e] \in Sheet /\ entry[e].rev \in Nat
    BY Rows DEF IInv
  <2> QED
    BY <2>1, Refilled
<1>2. entry' = [entry EXCEPT ![e] = x] /\ charged' = [charged EXCEPT ![e] = {}]
      /\ base' = [base EXCEPT ![e] = n] /\ UNCHANGED <<char, event, req>> /\ Edit
      /\ entry[e].live /\ e \notin Crafted
  BY DEF EditEntry, IInv, TypeOK, Refill
<1> HIDE DEF x
<1>3. req' \in [Requests -> Request \cup {None}] /\ \A s \in Requests : req'[s] = req[s]
  BY <1>2 DEF IInv, TypeOK
<1> QED
  BY <1>1, <1>2, <1>3, ResetKeepsIInv

LEMMA DeleteEntryKeepsIInv ==
    ASSUME IInv, NEW e \in Entries, DeleteEntry(e) PROVE IInv'
<1> DEFINE x == [entry[e] EXCEPT !.live = FALSE]
<1>1. x \in Sheet /\ x.uses = entry[e].uses /\ ~x.live /\ x.rev >= entry[e].rev
  <2>1. entry[e] \in Sheet /\ entry[e].rev \in Nat
    BY Rows DEF IInv
  <2> QED
    BY <2>1, Gone
<1>2. entry' = [entry EXCEPT ![e] = x] /\ charged' = [charged EXCEPT ![e] = {}]
      /\ base' = [base EXCEPT ![e] = entry[e].uses] /\ UNCHANGED <<char, event, req>> /\ Edit
      /\ entry[e].live /\ e \notin Crafted
  BY DEF DeleteEntry, IInv, TypeOK
<1> HIDE DEF x
<1>3. req' \in [Requests -> Request \cup {None}] /\ \A s \in Requests : req'[s] = req[s]
  BY <1>2 DEF IInv, TypeOK
<1> QED
  BY <1>1, <1>2, <1>3, ResetKeepsIInv

LEMMA EditItemKeepsIInv ==
    ASSUME IInv, NEW e \in Entries, EditItem(e) PROVE IInv'
<1> DEFINE x == [entry[e] EXCEPT !.item = @ + 1]
<1>1. x \in Sheet /\ x.uses = entry[e].uses /\ x.live = entry[e].live /\ x.rev = entry[e].rev
  BY Rows DEF IInv, Sheet
<1>2. entry' = [entry EXCEPT ![e] = x] /\ UNCHANGED <<char, event, req, charged, base>> /\ Edit
  BY DEF EditItem, IInv, TypeOK
<1> HIDE DEF x
<1>3. entry' \in [Entries -> Sheet] /\ entry'[e] = x /\ \A d \in Entries \ {e} : entry'[d] = entry[d]
  BY <1>1, <1>2 DEF IInv, TypeOK
<1>4. TypeOK' /\ CharsMove
  BY <1>2, <1>3 DEF IInv, TypeOK, CharsMove, Edit
<1>5. \A d \in Entries : Tuned(d) /\ Recounted(d) /\ charged'[d] \subseteq charged[d]
  BY <1>1, <1>2, <1>3 DEF Tuned, Recounted
<1>6. event' = event /\ req' = req
  BY <1>2
<1> QED
  BY <1>4, <1>5, <1>6, TuneKeepsIInv, Constants

LEMMA SetCountersKeepsIInv ==
    ASSUME IInv, NEW c \in Characters, NEW n \in 0..MaxPool, SetCounters(c, n) PROVE IInv'
<1>1. char' = [char EXCEPT ![c] = [char[c] EXCEPT !.pool = n, !.rev = @ + 1]]
  BY DEF SetCounters, IInv, TypeOK, Row
<1>2. char' \in [Characters -> Row] /\ CharsMove
  BY <1>1, CharWritten DEF IInv
<1>3. UNCHANGED <<entry, event, req, charged, base>> /\ Edit
  BY DEF SetCounters
<1>4. TypeOK'
  BY <1>2, <1>3 DEF IInv, TypeOK, Edit
<1>5. \A d \in Entries : Tuned(d) /\ Recounted(d) /\ charged'[d] \subseteq charged[d]
  BY <1>3, EntriesAlone
<1>6. event' = event /\ req' = req
  BY <1>3
<1> QED
  BY <1>2, <1>4, <1>5, <1>6, TuneKeepsIInv, Constants

LEMMA CancelAreaKeepsIInv ==
    ASSUME IInv, NEW a \in Actions, NEW e \in Entries, CancelArea(a, e) PROVE IInv'
<1> DEFINE x == [type |-> "ability.area.cancelled", on |-> e]
<1>1. x \in Cancellation
  BY DEF Cancellation
<1>2. event' = [event EXCEPT ![a] = x] /\ event[a] = None
      /\ UNCHANGED <<char, entry, req, charged, base, edits>>
  BY DEF CancelArea, IdIsFree
<1> HIDE DEF x
<1>3. TypeOK' /\ CharsMove
  BY <1>1, <1>2 DEF IInv, TypeOK, CharsMove
<1>4. \A d \in Entries : Tuned(d) /\ Recounted(d) /\ charged'[d] \subseteq charged[d]
  BY <1>2, EntriesAlone
<1>5. \A b \in Actions : event'[b] = event[b] \/ (event[b] = None /\ event'[b] \in Cancellation)
  BY <1>1, <1>2 DEF IInv, TypeOK
<1>6. req' = req
  BY <1>2
<1> QED
  BY <1>3, <1>4, <1>5, <1>6, TuneKeepsIInv, Constants

-----------------------------------------------------------------------------
(* An application: a new record in the journal, and one use less.          *)

LEMMA NewApplication ==
    ASSUME IInv, NEW a \in Actions, event[a] = None, NEW x \in Application,
           event' = [event EXCEPT ![a] = x]
    PROVE  /\ event' \in [Actions -> Application \cup Cancellation \cup Reversal \cup {None}]
           /\ JournalGrows /\ event'[a] = x /\ \A b \in Actions \ {a} : event'[b] = event[b]
           /\ Recorded' = Recorded \cup {a} /\ Applied' = Applied \cup {a} /\ Undone' = Undone
           /\ a \notin Recorded /\ a \notin Applied /\ a \notin Undone
<1>1. /\ event' \in [Actions -> Application \cup Cancellation \cup Reversal \cup {None}]
      /\ event'[a] = x /\ \A b \in Actions \ {a} : event'[b] = event[b]
  BY DEF IInv, TypeOK
<1>2. x # None /\ x.type \in {"entry.roll", "ability.area.applied"}
  BY Constants, ApplicationFields
<1>3. Recorded' = Recorded \cup {a} /\ a \notin Recorded /\ a \notin Applied /\ a \notin Undone
  BY <1>1, <1>2 DEF Recorded, Applied, Undone
<1>4. Applied' = Applied \cup {a}
  BY <1>1, <1>2, <1>3 DEF Applied
<1>5. \A b \in Actions : Undoing(b)' = Undoing(b)
  BY <1>1, <1>2, <1>3 DEF Undoing
<1>6. Undoing(a) = {}
  BY <1>3 DEF Undoing, IInv
<1>7. \A b \in Applied : b \in Actions
  BY DEF Applied, Recorded
<1>8. Undone' = Undone
  BY <1>3, <1>4, <1>5, <1>6, <1>7 DEF Undone
<1> QED
  BY <1>1, <1>3, <1>4, <1>8 DEF JournalGrows, Recorded

LEMMA ApplyKeepsIInv ==
    ASSUME IInv, NEW a \in Actions, event[a] = None, NEW x \in Application,
           event' = [event EXCEPT ![a] = x], NEW e \in Entries, x.on = e,
           char' \in [Characters -> Row], CharsMove,
           entry' \in [Entries -> Sheet], EntryMoves(e),
           \A d \in Entries \ {e} : entry'[d] = entry[d],
           e \in Crafted => entry[e].live /\ ~entry'[e].live,
           e \in Counted => entry'[e].uses = entry[e].uses - 1 /\ entry[e].live,
           Charge(e, a), UNCHANGED <<base, edits>>,
           req' \in [Requests -> Request \cup {None}],
           \A r \in Requests : req'[r] # None => req'[r] = req[r],
           ReceiptAgrees(a)'
    PROVE  IInv'
<1>1. TypeOK
  BY DEF IInv
<1>2. /\ event' \in [Actions -> Application \cup Cancellation \cup Reversal \cup {None}]
      /\ JournalGrows /\ event'[a] = x /\ \A b \in Actions \ {a} : event'[b] = event[b]
      /\ Recorded' = Recorded \cup {a} /\ Applied' = Applied \cup {a} /\ Undone' = Undone
      /\ a \notin Recorded /\ a \notin Applied /\ a \notin Undone
  BY NewApplication
<1>3. /\ charged' \in [Entries -> SUBSET Actions]
      /\ charged'[e] = IF e \in Counted THEN charged[e] \cup {a} ELSE charged[e]
      /\ \A d \in Entries \ {e} : charged'[d] = charged[d]
  BY <1>1 DEF Charge, TypeOK
<1>4. TypeOK'
  BY <1>1, <1>2, <1>3 DEF TypeOK
<1>5. \A u \in Recorded' : event'[u].type = "entry.undo" => event'[u].on \in Applied'
  <2>1. x.type # "entry.undo"
    BY ApplicationFields
  <2> QED
    BY <1>2, <2>1 DEF IInv, Recorded
<1>6. ASSUME NEW b \in Applied PROVE ReceiptAgrees(b)'
  <2>1. PICK d \in Entries : d = event[b].on
    BY <1>1, AppliedFields
  <2>2. d \in Crafted /\ b \notin Undone => d # e
    BY <2>1 DEF IInv, ReceiptAgrees
  <2>3. CASE d = e
    <3>1. b \in charged[d] => b \in charged'[d]
      BY <1>3, <2>3
    <3>2. \/ entry'[d].rev > entry[d].rev
          \/ /\ entry'[d].rev = entry[d].rev
             /\ entry'[d].live => entry[d].live /\ entry'[d].uses = entry[d].uses
      BY <2>3 DEF EntryMoves
    <3>3. ~(d \in Crafted /\ b \notin Undone')
      BY <1>2, <2>2, <2>3
    <3> QED
      BY <1>2, <1>4, <2>1, <3>1, <3>2, <3>3, ReceiptKept
  <2>4. CASE d # e
    BY <1>2, <1>3, <1>4, <2>1, <2>4, ReceiptKept
  <2> QED
    BY <2>3, <2>4
<1>7. ASSUME NEW r \in Requests, req'[r] # None PROVE SeenAgrees(r)'
  <2>1. \A d \in Entries : EntryMoves(d)
    BY DEF EntryMoves
  <2> QED
    BY <1>2, <1>4, <1>7, <2>1, SeenKept
<1>8. ASSUME NEW d \in Crafted
      PROVE  /\ entry'[d].live <=> Standing(d)' = {}
             /\ \A b, c \in Standing(d)' : b = c
  <2>1. d \in Entries
    BY Constants
  <2>2. /\ entry[d].live <=> Standing(d) = {}
        /\ \A b, c \in Standing(d) : b = c
    BY DEF IInv
  <2>3. CASE d = e
    <3>1. Standing(d) = {}
      BY <2>2, <2>3
    <3>2. Standing(d)' = {a}
      BY <1>2, <2>3, <3>1 DEF Standing
    <3> QED
      BY <2>3, <3>2
  <2>4. CASE d # e
    <3>1. Standing(d)' = Standing(d)
      BY <1>2, <2>4 DEF Standing
    <3> QED
      BY <2>1, <2>2, <2>4, <3>1
  <2> QED
    BY <2>3, <2>4
<1>9. \A d \in Entries : charged'[d] \subseteq Recorded'
  BY <1>2, <1>3 DEF IInv
<1>10. UsesAreAccounted'
  <2> SUFFICES ASSUME NEW d \in Counted, entry'[d].live \/ d \in Crafted
               PROVE  entry'[d].uses = base'[d] - Cardinality(charged'[d])
    BY DEF UsesAreAccounted
  <2>1. CASE d = e
    <3>1. entry'[e].uses = entry[e].uses - 1 /\ entry[e].uses = base[e] - Cardinality(charged[e])
      BY <2>1 DEF IInv, UsesAreAccounted
    <3>2. IsFiniteSet(charged[e]) /\ a \notin charged[e]
      BY <1>1, <1>2, Constants, FS_Subset DEF TypeOK, IInv
    <3>3. Cardinality(charged'[e]) = Cardinality(charged[e]) + 1 /\ Cardinality(charged[e]) \in Nat
      BY <1>3, <2>1, <3>2, FS_AddElement, FS_CardinalityType
    <3>4. base'[e] = base[e] /\ base[e] \in Nat
      BY <1>1 DEF TypeOK
    <3> QED
      BY <2>1, <3>1, <3>3, <3>4
  <2>2. CASE d # e
    <3>1. d \in Entries
      BY Constants
    <3> QED
      BY <1>3, <2>2, <3>1 DEF IInv, UsesAreAccounted
  <2> QED
    BY <2>1, <2>2
<1> QED
  BY <1>2, <1>4, <1>5, <1>6, <1>7, <1>8, <1>9, <1>10 DEF IInv

(* What an application writes, and what it keeps for the undo.             *)
LEMMA SpendFields ==
    ASSUME NEW e \in Entries, NEW row \in Sheet, NEW bumps \in BOOLEAN,
           e \in Counted => row.uses >= 1
    PROVE  /\ Spend(e, row, bumps) \in Sheet
           /\ Spend(e, row, bumps).uses = row.uses - Price(e)
           /\ Spend(e, row, bumps).rev = IF bumps THEN row.rev + 1 ELSE row.rev
           /\ Spend(e, row, bumps).live <=> e \notin Crafted
<1>1. row.uses \in 0..MaxUses /\ row.rev \in Nat /\ row.item \in Nat
  BY DEF Sheet
<1>2. PICK u, v, l, i : /\ u = (IF e \in Counted THEN row.uses - 1 ELSE row.uses)
                        /\ v = (IF bumps THEN row.rev + 1 ELSE row.rev)
                        /\ l = (e \notin Crafted)
                        /\ i = (IF e \in Crafted THEN row.item + 1 ELSE row.item)
  OBVIOUS
<1>3. u = row.uses - Price(e) /\ u \in 0..MaxUses /\ v \in Nat /\ i \in Nat
  BY <1>1, <1>2, Constants DEF Price
<1>4. l \in BOOLEAN
  BY <1>2
<1>5. PICK y : y = Spend(e, row, bumps)
  OBVIOUS
<1>6. y = [uses |-> u, rev |-> v, live |-> l, item |-> i]
  BY <1>2, <1>5 DEF Spend
<1>7. y \in Sheet
  BY <1>3, <1>4, <1>6 DEF Sheet
<1>8. y.uses = u /\ y.rev = v /\ y.live = l
  BY <1>6
<1>9. y.live <=> e \notin Crafted
  BY <1>2, <1>8, Zenon
<1> QED
  BY <1>2, <1>3, <1>5, <1>7, <1>8, <1>9

LEMMA ReceiptForm ==
    ASSUME NEW e \in Entries, NEW row \in Sheet, NEW bumps \in BOOLEAN, NEW before,
           NEW paid \in SUBSET Characters, \A c \in paid : before[c] \in Row
    PROVE  LET x == ReceiptOf(e, row, bumps, before, paid) IN
           /\ x \in Receipt /\ Paid(x) = paid
           /\ \A c \in paid : x.chars[c].row = before[c] /\ x.chars[c].after = before[c].rev + 1
           /\ e \notin Crafted /\ bumps =>
                  x.entry # None /\ x.entry.uses = row.uses /\ x.entry.after = row.rev + 1
           /\ e \in Crafted \/ ~bumps => x.entry = None
           /\ e \in Crafted => /\ x.consumed # None /\ x.consumed.uses = row.uses
                               /\ x.consumed.rev = row.rev
           /\ e \notin Crafted => x.consumed = None
<1> DEFINE en == IF e \notin Crafted /\ bumps THEN [uses |-> row.uses, after |-> row.rev + 1] ELSE None
           co == IF e \in Crafted
                 THEN [uses |-> row.uses, rev |-> row.rev, item |-> row.item + 1] ELSE None
           ch == [c \in Characters |->
                      IF c \in paid THEN [row |-> before[c], after |-> before[c].rev + 1] ELSE None]
<1>1. row.uses \in 0..MaxUses /\ row.rev \in Nat /\ row.item \in Nat
  BY DEF Sheet
<1>2. /\ en \in [uses : 0..MaxUses, after : Nat] \cup {None}
      /\ e \notin Crafted /\ bumps => en # None /\ en.uses = row.uses /\ en.after = row.rev + 1
      /\ e \in Crafted \/ ~bumps => en = None
  BY <1>1, Constants
<1>3. /\ co \in [uses : 0..MaxUses, rev : Nat, item : Nat] \cup {None}
      /\ e \in Crafted => co # None /\ co.uses = row.uses /\ co.rev = row.rev
      /\ e \notin Crafted => co = None
  BY <1>1, Constants
<1>4. \A c \in paid : before[c].rev + 1 \in Nat
  BY DEF Row
<1>5. \A c \in paid : [row |-> before[c], after |-> before[c].rev + 1] \in Kept
  BY <1>4 DEF Kept
<1>6. /\ ch \in [Characters -> Kept \cup {None}]
      /\ \A c \in paid : ch[c] # None /\ ch[c].row = before[c] /\ ch[c].after = before[c].rev + 1
      /\ \A c \in Characters \ paid : ch[c] = None
  BY <1>5, Constants
<1>7. ReceiptOf(e, row, bumps, before, paid) = [entry |-> en, consumed |-> co, chars |-> ch]
  BY DEF ReceiptOf
<1> HIDE DEF en, co, ch
<1>8. PICK x : x = ReceiptOf(e, row, bumps, before, paid)
  OBVIOUS
<1>9. x \in Receipt /\ x.entry = en /\ x.consumed = co /\ x.chars = ch
  BY <1>2, <1>3, <1>6, <1>7, <1>8 DEF Receipt
<1>10. Paid(x) = paid
  BY <1>6, <1>9 DEF Paid
<1> QED
  BY <1>2, <1>3, <1>6, <1>8, <1>9, <1>10

Entered(a, type, e, receipt, effect) ==
    event' = [event EXCEPT ![a] =
                 [type |-> type, on |-> e, receipt |-> receipt, effect |-> effect]]

LEMMA ApplicationKeepsIInv ==
    ASSUME IInv, NEW a \in Actions, event[a] = None, NEW e \in Entries, NEW row \in Sheet,
           NEW bumps \in BOOLEAN, NEW before, NEW paid \in SUBSET Characters,
           NEW effect \in [Characters -> Int], NEW type \in {"entry.roll", "ability.area.applied"},
           Entered(a, type, e, ReceiptOf(e, row, bumps, before, paid), effect),
           char' \in [Characters -> Row],
           \A c \in paid : /\ before[c] = char[c] /\ char'[c].rev = char[c].rev + 1
                           /\ char'[c].pool = char[c].pool + effect[c],
           \A c \in Characters \ paid : char'[c] = char[c] /\ effect[c] = 0,
           e \in Counted => bumps /\ row.uses >= 1,
           bumps \/ e \in Crafted =>
               /\ entry[e].live /\ row.uses = entry[e].uses /\ row.rev = entry[e].rev
               /\ entry' = [entry EXCEPT ![e] = Spend(e, row, bumps)],
           ~bumps /\ e \notin Crafted => entry' = entry,
           Charge(e, a), UNCHANGED <<base, edits>>,
           req' \in [Requests -> Request \cup {None}],
           \A r \in Requests : req'[r] # None => req'[r] = req[r]
    PROVE  IInv' /\ Ledger!Apply(a, e)
<1>1. TypeOK
  BY DEF IInv
<1>2. PICK rec, new : rec = ReceiptOf(e, row, bumps, before, paid) /\ new = Spend(e, row, bumps)
  OBVIOUS
<1>3. PICK x : x = [type |-> type, on |-> e, receipt |-> rec, effect |-> effect]
  OBVIOUS
<1>4. \A c \in paid : before[c] \in Row /\ char[c].rev \in Nat
  BY <1>1, Rows
<1>5. /\ rec \in Receipt /\ Paid(rec) = paid
      /\ \A c \in paid : rec.chars[c].row = before[c] /\ rec.chars[c].after = before[c].rev + 1
      /\ e \notin Crafted /\ bumps =>
             rec.entry # None /\ rec.entry.uses = row.uses /\ rec.entry.after = row.rev + 1
      /\ e \in Crafted \/ ~bumps => rec.entry = None
      /\ e \in Crafted => /\ rec.consumed # None /\ rec.consumed.uses = row.uses
                          /\ rec.consumed.rev = row.rev
      /\ e \notin Crafted => rec.consumed = None
  BY <1>2, <1>4, ReceiptForm
<1>6. /\ x \in Application /\ x.type = type /\ x.on = e /\ x.receipt = rec /\ x.effect = effect
      /\ event' = [event EXCEPT ![a] = x]
  BY <1>2, <1>3, <1>5 DEF Application, Entered
<1>7. /\ new \in Sheet /\ new.uses = row.uses - Price(e)
      /\ new.rev = IF bumps THEN row.rev + 1 ELSE row.rev
      /\ new.live <=> e \notin Crafted
  BY <1>2, SpendFields
<1>8. /\ entry[e] \in Sheet /\ entry[e].rev \in Nat /\ row.rev \in Nat
      /\ row.uses \in 0..MaxUses
  BY <1>1, Rows DEF Sheet
<1>9. /\ entry' \in [Entries -> Sheet] /\ \A d \in Entries \ {e} : entry'[d] = entry[d]
      /\ bumps \/ e \in Crafted => entry'[e] = new
      /\ ~bumps /\ e \notin Crafted => entry'[e] = entry[e]
  BY <1>1, <1>2, <1>7 DEF TypeOK
<1>10. EntryMoves(e)
  <2>1. CASE bumps
    <3>1. entry'[e] = new /\ new.rev = row.rev + 1 /\ row.rev = entry[e].rev
      BY <1>7, <1>9, <2>1
    <3>2. entry'[e].rev > entry[e].rev
      BY <1>8, <3>1
    <3> QED
      BY <3>2 DEF EntryMoves
  <2>2. CASE ~bumps /\ e \in Crafted
    <3>1. entry'[e].rev = entry[e].rev /\ ~entry'[e].live
      BY <1>7, <1>8, <1>9, <2>2
    <3> QED
      BY <3>1 DEF EntryMoves
  <2>3. CASE ~bumps /\ e \notin Crafted
    BY <1>9, <2>3 DEF EntryMoves
  <2> QED
    BY <2>1, <2>2, <2>3
<1>11. e \in Crafted => entry[e].live /\ ~entry'[e].live
  BY <1>7, <1>9
<1>12. e \in Counted => entry'[e].uses = entry[e].uses - 1 /\ entry[e].live
  BY <1>7, <1>9 DEF Price
<1>13. CharsMove
  <2> SUFFICES ASSUME NEW c \in Characters PROVE char'[c] = char[c] \/ char'[c].rev > char[c].rev
    BY DEF CharsMove
  <2>1. CASE c \in paid
    BY <1>4, <2>1
  <2> QED
    BY <2>1
<1>14. event'[a] = x /\ (e \in Counted => a \in charged'[e])
  BY <1>1, <1>6 DEF TypeOK, Charge
<1>15. ReceiptAgrees(a)'
  <2>1. \A c \in Paid(rec) :
            /\ rec.chars[c].after <= char'[c].rev
            /\ rec.chars[c].after = char'[c].rev =>
                   char'[c].pool = rec.chars[c].row.pool + effect[c]
    BY <1>4, <1>5
  <2>2. rec.entry # None =>
            /\ e \notin Crafted /\ rec.entry.after <= entry'[e].rev
            /\ rec.entry.after = entry'[e].rev /\ entry'[e].live =>
                   /\ entry'[e].uses = rec.entry.uses - Price(e)
                   /\ e \in Counted => a \in charged'[e]
    BY <1>5, <1>7, <1>8, <1>9, <1>14
  <2>3. e \in Crafted =>
            /\ ~entry'[e].live /\ entry'[e].rev <= rec.consumed.rev + 1
            /\ entry'[e].uses = rec.consumed.uses - Price(e)
            /\ e \in Counted => a \in charged'[e]
    BY <1>5, <1>7, <1>8, <1>9, <1>14
  <2>4. /\ \A c \in Characters \ Paid(rec) : effect[c] = 0
        /\ rec.consumed # None <=> e \in Crafted
        /\ rec.entry = None /\ e \notin Crafted => e \notin Counted
    BY <1>5
  <2>5. PICK y : y = event'[a] /\ y.receipt = rec /\ y.on = e /\ y.effect = effect
    BY <1>6, <1>14
  <2> QED
    BY <2>1, <2>2, <2>3, <2>4, <2>5 DEF ReceiptAgrees
<1>16. IInv'
  BY <1>6, <1>9, <1>10, <1>11, <1>12, <1>13, <1>15, ApplyKeepsIInv
<1>17. Ledger!Apply(a, e)
  <2>1. /\ \A b \in Actions \ {a} : event'[b] = event[b]
        /\ Applied' = Applied \cup {a} /\ Undone' = Undone /\ a \notin Applied /\ a \notin Undone
    BY <1>6, NewApplication
  <2>2. Fate(a) = "open" /\ Fate(a)' = "applied" /\ \A b \in Actions \ {a} : Fate(b)' = Fate(b)
    <3>1. event'[a] # None /\ event'[a].type # "entry.undo" /\ event'[a].type # "ability.area.cancelled"
      BY <1>6, <1>14, Constants, ApplicationFields
    <3>2. a \notin Undone'
      BY <2>1
    <3> QED
      BY <2>1, <3>1, <3>2 DEF Fate
  <2>3. \A c \in Characters : /\ char'[c].pool = char[c].pool + effect[c]
                              /\ char'[c].pool >= 0
    <3> TAKE c \in Characters
    <3>1. char'[c].pool >= 0 /\ char[c].pool \in Nat
      BY <1>1, Constants DEF Row, TypeOK
    <3> QED
      BY <3>1
  <2>4. /\ entry'[e].uses = entry[e].uses - Price(e)
        /\ e \in Counted => entry[e].uses > 0
        /\ \A d \in Entries \ {e} : entry'[d].uses = entry[d].uses
    <3>1. entry[e].uses \in Nat
      BY <1>1, Rows
    <3> QED
      BY <1>7, <1>9, <3>1 DEF Price
  <2> DEFINE uses == [d \in Entries |-> entry[d].uses]
  <2>5. uses' = IF e \in Counted THEN [uses EXCEPT ![e] = @ - 1] ELSE uses
    <3>1. entry[e].uses \in Nat
      BY <1>1, Rows
    <3>2. uses' = [d \in Entries |-> entry'[d].uses]
      OBVIOUS
    <3> QED
      BY <2>4, <3>1, <3>2 DEF Price
  <2> DEFINE eff == [b \in Actions |-> IF b \in Applied THEN event[b].effect ELSE [c \in Characters |-> 0]]
             fate == [b \in Actions |-> Fate(b)]
  <2>6. fate' = [fate EXCEPT ![a] = "applied"] /\ fate[a] = "open"
    BY <2>2
  <2>7. eff' = [eff EXCEPT ![a] = eff'[a]] /\ eff'[a] = effect
    <3>1. a \in Applied' /\ event'[a].effect = effect
      BY <1>6, <1>14, <2>1
    <3>2. eff' = [b \in Actions |-> IF b \in Applied' THEN event'[b].effect
                                    ELSE [c \in Characters |-> 0]]
      OBVIOUS
    <3>3. \A b \in Actions \ {a} : eff'[b] = eff[b]
      BY <2>1, <3>2
    <3>4. eff'[a] = effect
      BY <3>1, <3>2
    <3>5. PICK f, g : f = eff /\ g = eff'
      OBVIOUS
    <3>6. f \in [Actions -> {f[b] : b \in Actions}] /\ g \in [Actions -> {g[b] : b \in Actions}]
      BY <3>2, <3>5
    <3>7. g = [f EXCEPT ![a] = g[a]]
      BY <3>3, <3>5, <3>6
    <3> QED
      BY <3>4, <3>5, <3>7
  <2> DEFINE pool == [c \in Characters |-> char[c].pool]
  <2>8. /\ pool' = [c \in Characters |-> pool[c] + eff'[a][c]]
        /\ \A c \in Characters : pool'[c] >= 0
    BY <2>3, <2>7
  <2>9. e \in Counted => uses[e] > 0
    BY <2>4
  <2> QED
    BY <2>5, <2>6, <2>7, <2>8, <2>9 DEF Ledger!Apply
<1> QED
  BY <1>16, <1>17

LEMMA CommitRollKeepsIInv ==
    ASSUME IInv, NEW r \in Requests, CommitRoll(r)
    PROVE  IInv' /\ \E a \in Actions, e \in Entries : Ledger!Apply(a, e)
<1>1. TypeOK /\ req[r] # None /\ SeenAgrees(r)
  BY DEF IInv, CommitRoll, Doing
<1>2. PICK q \in Request : q = req[r] /\ q.kind = "roll"
  BY <1>1, RequestFields DEF CommitRoll, Doing
<1>3. PICK a \in Actions, e \in Entries : a = q.act /\ e = q.on
  BY <1>1, <1>2 DEF SeenAgrees
<1>4. PICK c \in Characters : c = Holder[e]
  BY Constants
<1>5. PICK own \in Row, s \in Sheet : own = q.seen.char[c] /\ s = q.seen.entry[e]
  BY <1>1, <1>2, <1>3, <1>4, RequestFields DEF SeenAgrees
<1>6. /\ s.live /\ (e \in Counted => s.uses >= 1) /\ own.pool >= Cost[e]
      /\ own.rev = char[c].rev => own = char[c]
      /\ s.rev = entry[e].rev /\ entry[e].live => s.uses = entry[e].uses
  BY <1>1, <1>2, <1>3, <1>4, <1>5, Constants DEF SeenAgrees, CanPay
<1>7. PICK old : old = [s EXCEPT !.item = entry[e].item]
  OBVIOUS
<1>8. old \in Sheet /\ old.uses = s.uses /\ old.rev = s.rev /\ old.live = s.live
  <2>1. entry[e].item \in Nat
    BY <1>1, Rows
  <2> QED
    BY <1>7, <2>1 DEF Sheet
<1> DEFINE paid == IF Cost[e] > 0 THEN {c} ELSE {}
           effect == [d \in Characters |-> IF d \in paid THEN 0 - Cost[e] ELSE 0]
<1>9. /\ RollFits(e, q.seen) /\ event[a] = None /\ Charge(e, a) /\ Finish(r)
      /\ char' = IF paid = {} THEN char
                 ELSE [char EXCEPT ![c] = [own EXCEPT !.pool = @ - Cost[e], !.rev = @ + 1]]
      /\ entry' = IF RollWrites(e) \/ e \in Crafted
                  THEN [entry EXCEPT ![e] = Spend(e, old, RollWrites(e))] ELSE entry
      /\ event' = [event EXCEPT ![a] =
             [type |-> "entry.roll", on |-> e,
              receipt |-> ReceiptOf(e, old, RollWrites(e), q.seen.char, paid), effect |-> effect]]
      /\ UNCHANGED <<base, edits>>
  BY <1>2, <1>3, <1>4, <1>5, <1>7 DEF CommitRoll, IdIsFree
<1>10. Cost[e] \in Nat /\ paid \in SUBSET Characters /\ effect \in [Characters -> Int]
  BY Constants
<1>11. /\ char' \in [Characters -> Row]
       /\ \A d \in paid : /\ q.seen.char[d] = char[d] /\ char'[d].rev = char[d].rev + 1
                          /\ char'[d].pool = char[d].pool + effect[d]
       /\ \A d \in Characters \ paid : char'[d] = char[d] /\ effect[d] = 0
  <2>1. CASE Cost[e] > 0
    <3>1. own = char[c]
      BY <1>4, <1>5, <1>6, <1>9, <2>1 DEF RollFits
    <3>2. PICK x : x = [own EXCEPT !.pool = @ - Cost[e], !.rev = @ + 1]
      OBVIOUS
    <3>3. own.pool \in 0..MaxPool /\ own.rev \in Nat
      BY DEF Row
    <3>4. x \in Row /\ x.pool = own.pool - Cost[e] /\ x.rev = own.rev + 1
      <4>1. x.pool = own.pool - Cost[e] /\ x.rev = own.rev + 1 /\ x = [pool |-> x.pool, rev |-> x.rev]
        BY <3>2 DEF Row
      <4>2. own.pool - Cost[e] \in 0..MaxPool
        BY <1>6, <1>10, <3>3, Constants
      <4> QED
        BY <3>3, <4>1, <4>2 DEF Row
    <3>5. char' = [char EXCEPT ![c] = x] /\ paid = {c}
      BY <1>9, <2>1, <3>2
    <3>6. effect[c] = 0 - Cost[e] /\ \A d \in Characters \ {c} : effect[d] = 0
      BY <3>5
    <3>7. char' \in [Characters -> Row] /\ char'[c] = x /\ \A d \in Characters \ {c} : char'[d] = char[d]
      BY <1>1, <3>4, <3>5 DEF TypeOK
    <3>8. char'[c].rev = char[c].rev + 1 /\ char'[c].pool = char[c].pool + effect[c]
      BY <1>10, <3>1, <3>3, <3>4, <3>6, <3>7
    <3>9. q.seen.char[c] = char[c]
      BY <1>5, <3>1
    <3> HIDE DEF effect, paid
    <3> QED
      BY <3>5, <3>6, <3>7, <3>8, <3>9
  <2>2. CASE ~(Cost[e] > 0)
    BY <1>1, <1>9, <2>2 DEF TypeOK
  <2> QED
    BY <2>1, <2>2
<1>12. e \in Counted => RollWrites(e) /\ old.uses >= 1
  BY <1>6, <1>8 DEF RollWrites
<1>13. RollWrites(e) \/ e \in Crafted =>
           entry[e].live /\ old.uses = entry[e].uses /\ old.rev = entry[e].rev
  BY <1>5, <1>6, <1>8, <1>9 DEF RollFits
<1>14. RollWrites(e) \in BOOLEAN
  BY DEF RollWrites
<1>15. /\ req' \in [Requests -> Request \cup {None}]
       /\ \A t \in Requests : req'[t] # None => req'[t] = req[t]
  BY <1>1, <1>9, Finished
<1> HIDE DEF paid, effect
<1>16. PICK before, pay, eff, bumps, type :
           /\ before = q.seen.char /\ pay = paid /\ eff = effect /\ bumps = RollWrites(e)
           /\ type = "entry.roll"
  OBVIOUS
<1>17. /\ bumps \in BOOLEAN /\ pay \in SUBSET Characters /\ eff \in [Characters -> Int]
       /\ type \in {"entry.roll", "ability.area.applied"}
       /\ Entered(a, type, e, ReceiptOf(e, old, bumps, before, pay), eff)
       /\ \A d \in pay : /\ before[d] = char[d] /\ char'[d].rev = char[d].rev + 1
                          /\ char'[d].pool = char[d].pool + eff[d]
       /\ \A d \in Characters \ pay : char'[d] = char[d] /\ eff[d] = 0
       /\ e \in Counted => bumps /\ old.uses >= 1
       /\ bumps \/ e \in Crafted =>
              /\ entry[e].live /\ old.uses = entry[e].uses /\ old.rev = entry[e].rev
              /\ entry' = [entry EXCEPT ![e] = Spend(e, old, bumps)]
       /\ ~bumps /\ e \notin Crafted => entry' = entry
  BY <1>9, <1>10, <1>11, <1>12, <1>13, <1>14, <1>16 DEF Entered
<1>18. old \in Sheet /\ event[a] = None /\ Charge(e, a) /\ UNCHANGED <<base, edits>>
  BY <1>8, <1>9
<1>19. char' \in [Characters -> Row]
  BY <1>11
<1> QED
  BY <1>15, <1>17, <1>18, <1>19, ApplicationKeepsIInv

LEMMA AreaPool ==
    ASSUME TypeOK, NEW e \in Area, NEW die \in Dice, char[Holder[e]].pool >= Cost[e],
           NEW c \in Characters
    PROVE  /\ PoolAfter(e, die, c) \in 0..MaxPool /\ char[c].pool \in 0..MaxPool
           /\ c \notin Touched(e) => PoolAfter(e, die, c) = char[c].pool
<1>1. char[c].pool \in 0..MaxPool /\ Cost[e] \in Nat /\ die \in Nat /\ MaxPool \in Nat
  BY Rows, Constants
<1>2. PICK p : p = char[c].pool - (IF c = Holder[e] THEN Cost[e] ELSE 0)
  OBVIOUS
<1>3. p \in 0..MaxPool /\ (c \notin Touched(e) => p = char[c].pool)
  BY <1>1, <1>2 DEF Touched
<1>4. PoolAfter(e, die, c) = IF c \in Reach[e] THEN p + Least(die, MaxPool - p) ELSE p
  BY <1>2 DEF PoolAfter
<1>5. p + Least(die, MaxPool - p) \in 0..MaxPool
  BY <1>1, <1>3 DEF Least
<1>6. c \notin Touched(e) => c \notin Reach[e]
  BY DEF Touched
<1> QED
  BY <1>1, <1>3, <1>4, <1>5, <1>6

LEMMA CommitAreaKeepsIInv ==
    ASSUME IInv, NEW r \in Requests, CommitArea(r)
    PROVE  IInv' /\ \E a \in Actions, e \in Entries : Ledger!Apply(a, e)
<1>1. TypeOK /\ req[r] # None /\ SeenAgrees(r)
  BY DEF IInv, CommitArea, Doing
<1>2. PICK a \in Actions, e \in Entries : a = req[r].act /\ e = req[r].on /\ e \in Area
  BY <1>1, Constants DEF SeenAgrees, CommitArea, Doing
<1>3. Reach[e] \subseteq Characters /\ Holder[e] \in Characters
      /\ Touched(e) \in SUBSET Characters /\ entry[e] \in Sheet
  BY <1>1, <1>2, Constants, Rows DEF Touched
<1>4. CanPay(e, char, entry[e]) /\ event[a] = None /\ Charge(e, a) /\ Finish(r)
      /\ entry' = [entry EXCEPT ![e] = Spend(e, entry[e], TRUE)] /\ UNCHANGED <<base, edits>>
  BY <1>2 DEF CommitArea, IdIsFree
<1>5. PICK die \in Dice :
          /\ char' = AreaRows(e, die)
          /\ event' = [event EXCEPT ![a] =
                 [type |-> "ability.area.applied", on |-> e,
                  receipt |-> ReceiptOf(e, entry[e], TRUE, char, Touched(e)),
                  effect |-> AreaEffect(e, die)]]
  BY <1>2 DEF CommitArea
<1>6. char[Holder[e]].pool >= Cost[e]
  BY <1>4 DEF CanPay
<1>7. \A c \in Characters :
          /\ PoolAfter(e, die, c) \in 0..MaxPool /\ char[c].pool \in 0..MaxPool
          /\ c \notin Touched(e) => PoolAfter(e, die, c) = char[c].pool
  BY <1>1, <1>2, <1>6, AreaPool
<1>8. PICK eff : eff = AreaEffect(e, die)
  OBVIOUS
<1>9. /\ eff \in [Characters -> Int]
      /\ \A c \in Characters : PoolAfter(e, die, c) = char[c].pool + eff[c]
      /\ \A c \in Characters \ Touched(e) : eff[c] = 0
  <2>1. \A c \in Characters : eff[c] = PoolAfter(e, die, c) - char[c].pool
    BY <1>8 DEF AreaEffect
  <2>2. \A c \in Characters : eff[c] \in Int
    BY <1>7, <2>1
  <2> QED
    BY <1>7, <1>8, <2>1, <2>2 DEF AreaEffect
<1>10. ASSUME NEW c \in Touched(e)
       PROVE  /\ char'[c] \in Row /\ char'[c].rev = char[c].rev + 1
              /\ char'[c].pool = char[c].pool + eff[c]
  <2>1. c \in Characters /\ char[c] \in Row /\ char[c].rev \in Nat
    BY <1>1, <1>3, Rows
  <2>2. PICK x, n : x = [char[c] EXCEPT !.pool = n, !.rev = @ + 1] /\ n = PoolAfter(e, die, c)
                    /\ x = char'[c]
    BY <1>5, <2>1 DEF AreaRows
  <2>3. x.pool = n /\ x.rev = char[c].rev + 1 /\ x = [pool |-> x.pool, rev |-> x.rev]
    BY <2>1, <2>2 DEF Row
  <2>4. n \in 0..MaxPool /\ n = char[c].pool + eff[c]
    BY <1>7, <1>9, <2>1, <2>2
  <2> QED
    BY <2>1, <2>2, <2>3, <2>4 DEF Row
<1>11. \A c \in Characters \ Touched(e) : char'[c] = char[c]
  BY <1>5 DEF AreaRows
<1>12. char' \in [Characters -> Row]
  <2>1. \A c \in Characters : char'[c] \in Row
    BY <1>1, <1>10, <1>11, Rows
  <2> QED
    BY <1>5, <2>1 DEF AreaRows
<1>13. /\ req' \in [Requests -> Request \cup {None}]
       /\ \A t \in Requests : req'[t] # None => req'[t] = req[t]
  BY <1>1, <1>4, Finished
<1>14. PICK before, pay, bumps, type, row :
           /\ before = char /\ pay = Touched(e) /\ bumps = TRUE
           /\ type = "ability.area.applied" /\ row = entry[e]
  OBVIOUS
<1>15. /\ bumps \in BOOLEAN /\ pay \in SUBSET Characters /\ row \in Sheet
       /\ eff \in [Characters -> Int] /\ type \in {"entry.roll", "ability.area.applied"}
  BY <1>3, <1>9, <1>14
<1>16. Entered(a, type, e, ReceiptOf(e, row, bumps, before, pay), eff)
  BY <1>5, <1>8, <1>14 DEF Entered
<1>17. /\ \A d \in pay : /\ before[d] = char[d] /\ char'[d].rev = char[d].rev + 1
                          /\ char'[d].pool = char[d].pool + eff[d]
       /\ \A d \in Characters \ pay : char'[d] = char[d] /\ eff[d] = 0
  BY <1>9, <1>10, <1>11, <1>14
<1>18. /\ e \in Counted => bumps /\ row.uses >= 1
       /\ bumps \/ e \in Crafted =>
              /\ entry[e].live /\ row.uses = entry[e].uses /\ row.rev = entry[e].rev
              /\ entry' = [entry EXCEPT ![e] = Spend(e, row, bumps)]
       /\ ~bumps /\ e \notin Crafted => entry' = entry
  BY <1>4, <1>14 DEF CanPay
<1>19. event[a] = None /\ Charge(e, a) /\ UNCHANGED <<base, edits>>
  BY <1>4
<1> QED
  BY <1>12, <1>13, <1>15, <1>16, <1>17, <1>18, <1>19, ApplicationKeepsIInv

-----------------------------------------------------------------------------
(* An undo: the rows of the receipt, each at the revision it was left in.  *)

LEMMA NewReversal ==
    ASSUME IInv, NEW u \in Actions, event[u] = None, NEW a \in Applied, NEW x \in Reversal,
           x.on = a, event' = [event EXCEPT ![u] = x]
    PROVE  /\ event' \in [Actions -> Application \cup Cancellation \cup Reversal \cup {None}]
           /\ JournalGrows /\ event'[u] = x /\ \A b \in Actions \ {u} : event'[b] = event[b]
           /\ Recorded' = Recorded \cup {u} /\ Applied' = Applied /\ Undone' = Undone \cup {a}
           /\ u \notin Applied /\ u # a /\ x # None /\ x.type = "entry.undo"
<1>1. /\ event' \in [Actions -> Application \cup Cancellation \cup Reversal \cup {None}]
      /\ event'[u] = x /\ \A b \in Actions \ {u} : event'[b] = event[b]
  BY DEF IInv, TypeOK
<1>2. x # None /\ x.type = "entry.undo"
  BY Constants DEF Reversal
<1>3. Recorded' = Recorded \cup {u} /\ u \notin Recorded /\ u \notin Applied /\ u # a
  BY <1>1, <1>2 DEF Recorded, Applied
<1>4. Applied' = Applied
  BY <1>1, <1>2, <1>3 DEF Applied
<1>5. \A b \in Actions : Undoing(b)' = IF b = a THEN Undoing(b) \cup {u} ELSE Undoing(b)
  BY <1>1, <1>2, <1>3 DEF Undoing
<1>6. a \in Actions /\ \A b \in Applied : b \in Actions
  BY DEF Applied, Recorded
<1>7. Undone' = Undone \cup {a}
  BY <1>4, <1>5, <1>6 DEF Undone
<1> QED
  BY <1>1, <1>2, <1>3, <1>4, <1>7 DEF JournalGrows, Recorded

(* What the row of the entry becomes, and what it was.                     *)
LEMMA RestoredRow ==
    ASSUME IInv, NEW a \in Applied \ Undone, NEW e \in Entries, e = event[a].on,
           NEW x, x = event[a].receipt, NEW seen, UndoFits(x, e, seen),
           entry' = IF x.entry # None \/ x.consumed # None
                    THEN [entry EXCEPT ![e] = Restored(e, @, x)] ELSE entry
    PROVE  /\ entry' \in [Entries -> Sheet] /\ \A d \in Entries \ {e} : entry'[d] = entry[d]
           /\ \/ entry'[e].rev > entry[e].rev
              \/ entry'[e] = entry[e] /\ e \notin Counted
           /\ e \in Crafted => entry'[e].live
           /\ entry'[e].uses = entry[e].uses + Price(e)
           /\ e \in Counted => a \in charged[e] /\ (entry[e].live \/ e \in Crafted)
<1>1. TypeOK /\ ReceiptAgrees(a) /\ event[a] \in Application
  BY AppliedFields DEF IInv
<1>2. /\ x.entry # None => x.entry.uses \in 0..MaxUses /\ x.entry.after \in Nat
      /\ x.consumed # None => x.consumed.uses \in 0..MaxUses /\ x.consumed.rev \in Nat
  BY <1>1, ApplicationFields
<1>3. /\ entry[e] \in Sheet /\ entry[e].rev \in Nat /\ entry[e].uses \in 0..MaxUses
      /\ entry[e].item \in Nat /\ entry[e].live \in BOOLEAN
  BY <1>1, Rows
<1>4. CASE e \in Crafted
  <2>1. /\ x.consumed # None /\ entry[e].rev <= x.consumed.rev + 1
        /\ entry[e].uses = x.consumed.uses - Price(e) /\ (e \in Counted => a \in charged[e])
    BY <1>1, <1>4 DEF ReceiptAgrees
  <2>2. PICK y : y = Restored(e, entry[e], x)
    OBVIOUS
  <2>3. y = [uses |-> x.consumed.uses, rev |-> x.consumed.rev + 2, live |-> TRUE,
             item |-> entry[e].item + 1]
    BY <2>1, <2>2 DEF Restored
  <2>4. y \in Sheet /\ y.uses = x.consumed.uses /\ y.rev = x.consumed.rev + 2 /\ y.live
    BY <1>2, <1>3, <2>1, <2>3 DEF Sheet
  <2>5. entry' = [entry EXCEPT ![e] = y]
    BY <2>1, <2>2
  <2>6. entry' \in [Entries -> Sheet] /\ entry'[e] = y /\ \A d \in Entries \ {e} : entry'[d] = entry[d]
    BY <1>1, <2>4, <2>5 DEF TypeOK
  <2>7. y.rev > entry[e].rev /\ y.uses = entry[e].uses + Price(e)
    BY <1>2, <1>3, <2>1, <2>4 DEF Price
  <2> QED
    BY <1>4, <2>1, <2>4, <2>6, <2>7
<1>5. CASE e \notin Crafted /\ x.entry # None
  <2>1. /\ x.consumed = None /\ entry[e].live /\ entry[e].rev = x.entry.after
        /\ entry[e].uses = x.entry.uses - Price(e) /\ (e \in Counted => a \in charged[e])
    BY <1>1, <1>5 DEF ReceiptAgrees, UndoFits
  <2>2. PICK y, n, m : y = [entry[e] EXCEPT !.uses = n, !.rev = m]
                       /\ n = x.entry.uses /\ m = x.entry.after + 1
    OBVIOUS
  <2>3. entry' = [entry EXCEPT ![e] = y]
    BY <1>5, <2>1, <2>2 DEF Restored
  <2>4. y.uses = n /\ y.rev = m /\ y.live = entry[e].live /\ y.item = entry[e].item
    BY <1>3, <2>2 DEF Sheet
  <2>5. y = [uses |-> n, rev |-> m, live |-> entry[e].live, item |-> entry[e].item]
    BY <1>3, <2>2 DEF Sheet
  <2>6. n \in 0..MaxUses /\ m \in Nat /\ m > entry[e].rev /\ n = entry[e].uses + Price(e)
    BY <1>2, <1>3, <1>5, <2>1, <2>2 DEF Price
  <2>7. y \in Sheet
    BY <1>3, <2>5, <2>6 DEF Sheet
  <2>8. entry' \in [Entries -> Sheet] /\ entry'[e] = y /\ \A d \in Entries \ {e} : entry'[d] = entry[d]
    BY <1>1, <2>3, <2>7 DEF TypeOK
  <2> QED
    BY <1>5, <2>1, <2>4, <2>6, <2>8
<1>6. CASE e \notin Crafted /\ x.entry = None
  <2>1. x.consumed = None /\ e \notin Counted
    BY <1>1, <1>6 DEF ReceiptAgrees
  <2>2. entry' = entry
    BY <1>6, <2>1
  <2> QED
    BY <1>1, <1>3, <1>6, <2>1, <2>2 DEF TypeOK, Price
<1> QED
  BY <1>4, <1>5, <1>6

(* What the rows of the characters become.                                 *)
LEMMA RestoredChars ==
    ASSUME IInv, NEW a \in Applied, NEW e, NEW x, x = event[a].receipt, NEW seen,
           UndoFits(x, e, seen),
           char' = [c \in Characters |->
                       IF c \in Paid(x)
                       THEN [x.chars[c].row EXCEPT !.rev = x.chars[c].after + 1] ELSE char[c]]
    PROVE  /\ char' \in [Characters -> Row] /\ CharsMove
           /\ \A c \in Characters : char'[c].pool = char[c].pool - event[a].effect[c]
<1>1. TypeOK /\ ReceiptAgrees(a) /\ event[a] \in Application
  BY AppliedFields DEF IInv
<1>2. PICK eff : eff = event[a].effect /\ eff \in [Characters -> Int]
  BY <1>1, ApplicationFields
<1>3. ASSUME NEW c \in Paid(x)
      PROVE  /\ c \in Characters /\ char'[c] \in Row /\ char'[c].rev > char[c].rev
             /\ char'[c].pool = char[c].pool - eff[c]
  <2>1. c \in Characters /\ x.chars[c].row \in Row /\ x.chars[c].after \in Nat
    BY <1>1, <1>3, ApplicationFields
  <2>2. char[c].rev = x.chars[c].after /\ char[c].pool = x.chars[c].row.pool + eff[c]
    BY <1>1, <1>2, <1>3 DEF UndoFits, ReceiptAgrees
  <2>3. PICK row, m, n : row = x.chars[c].row /\ n = x.chars[c].after /\ m = n + 1
    OBVIOUS
  <2>4. row \in Row /\ n \in Nat
    BY <2>1, <2>3
  <2>5. row.pool \in 0..MaxPool /\ m \in Nat
    BY <2>4, <2>3 DEF Row
  <2>6. PICK y : y = [row EXCEPT !.rev = m] /\ y = char'[c]
    BY <1>3, <2>1, <2>3
  <2>7. y.pool = row.pool /\ y.rev = m /\ y = [pool |-> row.pool, rev |-> m]
    BY <2>6, <2>4 DEF Row
  <2>8. y \in Row
    BY <2>5, <2>7 DEF Row
  <2>9. m > char[c].rev
    BY <2>2, <2>4, <2>3
  <2>10. row.pool = char[c].pool - eff[c]
    <3>1. eff[c] \in Int /\ char[c].pool \in Int /\ row.pool \in Int
      BY <1>1, <1>2, <2>1, <2>5, Rows, Constants
    <3>2. char[c].pool = row.pool + eff[c]
      BY <2>2, <2>3
    <3> QED
      BY <3>1, <3>2
  <2> QED
    BY <2>1, <2>6, <2>7, <2>8, <2>9, <2>10
<1>4. ASSUME NEW c \in Characters \ Paid(x)
      PROVE  char'[c] = char[c] /\ char[c] \in Row /\ char'[c].pool = char[c].pool - eff[c]
  <2>1. eff[c] = 0 /\ char[c].pool \in Int /\ char'[c] = char[c]
    BY <1>1, <1>2, <1>4, Rows, Constants DEF ReceiptAgrees
  <2> QED
    BY <1>1, <2>1, Rows
<1>5. char' \in [Characters -> Row]
  <2>1. \A c \in Characters : char'[c] \in Row
    BY <1>3, <1>4
  <2> QED
    BY <2>1
<1> QED
  BY <1>2, <1>3, <1>4, <1>5 DEF CharsMove

(* All of an undo.                                                         *)
LEMMA CommitUndoKeepsIInv ==
    ASSUME IInv, NEW r \in Requests, CommitUndo(r)
    PROVE  IInv' /\ \E u, a \in Actions, e \in Entries : Ledger!Undo(u, a, e)
<1>1. TypeOK /\ req[r] # None /\ SeenAgrees(r)
  BY DEF IInv, CommitUndo, Doing
<1>2. PICK u \in Actions, a \in Applied : u = req[r].act /\ a = req[r].on /\ a \notin Undone
  BY <1>1 DEF SeenAgrees, CommitUndo, Doing
<1>3. a \in Actions /\ event[a] \in Application /\ event[a].on \in Entries /\ ReceiptAgrees(a)
  BY <1>1, AppliedFields DEF IInv
<1>4. PICK e \in Entries : e = event[a].on
  BY <1>3
<1>5. PICK x, eff, seen : x = event[a].receipt /\ eff = event[a].effect /\ seen = req[r].seen
  OBVIOUS
<1>6. /\ UndoFits(x, e, seen) /\ event[u] = None /\ Finish(r) /\ UNCHANGED <<base, edits>>
      /\ char' = [c \in Characters |->
                     IF c \in Paid(x)
                     THEN [x.chars[c].row EXCEPT !.rev = x.chars[c].after + 1] ELSE char[c]]
      /\ entry' = IF x.entry # None \/ x.consumed # None
                  THEN [entry EXCEPT ![e] = Restored(e, @, x)] ELSE entry
      /\ event' = [event EXCEPT ![u] = [type |-> "entry.undo", on |-> a]]
      /\ charged' = [charged EXCEPT ![e] = @ \ {a}]
  BY <1>2, <1>4, <1>5 DEF CommitUndo, IdIsFree
<1>7. PICK rec \in Reversal : rec.on = a /\ event' = [event EXCEPT ![u] = rec]
  <2>1. PICK rec : rec = [type |-> "entry.undo", on |-> a]
    OBVIOUS
  <2>2. rec \in Reversal /\ rec.on = a
    BY <1>3, <2>1 DEF Reversal
  <2> QED
    BY <1>6, <2>1, <2>2
<1>8. /\ event' \in [Actions -> Application \cup Cancellation \cup Reversal \cup {None}]
      /\ JournalGrows /\ event'[u] = rec /\ \A b \in Actions \ {u} : event'[b] = event[b]
      /\ Recorded' = Recorded \cup {u} /\ Applied' = Applied /\ Undone' = Undone \cup {a}
      /\ u \notin Applied /\ u # a /\ rec # None /\ rec.type = "entry.undo"
  <2>1. event[u] = None
    BY <1>6
  <2>2. rec.on = a /\ event' = [event EXCEPT ![u] = rec]
    BY <1>7
  <2> QED
    BY <2>1, <2>2, NewReversal
<1>9. /\ char' \in [Characters -> Row] /\ CharsMove
      /\ \A c \in Characters : char'[c].pool = char[c].pool - eff[c]
  BY <1>4, <1>5, <1>6, RestoredChars
<1>10. /\ entry' \in [Entries -> Sheet] /\ \A d \in Entries \ {e} : entry'[d] = entry[d]
       /\ \/ entry'[e].rev > entry[e].rev
          \/ entry'[e] = entry[e] /\ e \notin Counted
       /\ e \in Crafted => entry'[e].live
       /\ entry'[e].uses = entry[e].uses + Price(e)
       /\ e \in Counted => a \in charged[e] /\ (entry[e].live \/ e \in Crafted)
  BY <1>2, <1>4, <1>5, <1>6, RestoredRow
<1>11. /\ charged' \in [Entries -> SUBSET Actions] /\ charged'[e] = charged[e] \ {a}
       /\ \A d \in Entries \ {e} : charged'[d] = charged[d]
  BY <1>1, <1>6 DEF TypeOK
<1>12. /\ req' \in [Requests -> Request \cup {None}]
       /\ \A t \in Requests : req'[t] # None => req'[t] = req[t] /\ req[t] # None
  BY <1>1, <1>6, Finished
<1>13. TypeOK'
  BY <1>1, <1>6, <1>8, <1>9, <1>10, <1>11, <1>12 DEF TypeOK
<1>14. ASSUME NEW v \in Recorded', event'[v].type = "entry.undo" PROVE event'[v].on \in Applied'
  BY <1>7, <1>8, <1>14 DEF IInv, Recorded
<1>15. ASSUME NEW b \in Applied PROVE ReceiptAgrees(b)'
  <2>1. PICK d \in Entries : d = event[b].on
    BY <1>1, AppliedFields
  <2>2. CASE d # e
    BY <1>8, <1>9, <1>10, <1>11, <1>13, <2>1, <2>2, ReceiptKept
  <2>3. CASE d = e
    <3>1. \/ entry'[d].rev > entry[d].rev
          \/ /\ entry'[d].rev = entry[d].rev
             /\ entry'[d].live => /\ entry[d].live /\ entry'[d].uses = entry[d].uses
                                  /\ d \in Counted /\ b \in charged[d] => b \in charged'[d]
      BY <1>10, <2>3
    <3>2. ~(d \in Crafted /\ b \notin Undone')
      <4> SUFFICES ASSUME d \in Crafted, b \notin Undone' PROVE FALSE
        OBVIOUS
      <4>1. b \in Standing(e) /\ a \in Standing(e) /\ b # a
        BY <1>2, <1>4, <1>5, <1>8, <2>1, <2>3 DEF Standing
      <4> QED
        BY <2>3, <4>1 DEF IInv
    <3> QED
      BY <1>8, <1>9, <1>13, <2>1, <3>1, <3>2, ReceiptKept
  <2> QED
    BY <2>2, <2>3
<1>16. ASSUME NEW t \in Requests, req'[t] # None PROVE SeenAgrees(t)'
  <2>1. \A d \in Entries : EntryMoves(d)
    BY <1>10 DEF EntryMoves
  <2> QED
    BY <1>8, <1>9, <1>12, <1>13, <1>16, <2>1, SeenKept
<1>17. ASSUME NEW d \in Crafted
       PROVE  /\ entry'[d].live <=> Standing(d)' = {}
              /\ \A b, c \in Standing(d)' : b = c
  <2>1. d \in Entries
    BY Constants
  <2>2. /\ entry[d].live <=> Standing(d) = {}
        /\ \A b, c \in Standing(d) : b = c
    BY DEF IInv
  <2>3. \A b \in Applied : event'[b] = event[b]
    BY <1>8 DEF Applied, Recorded
  <2>4. CASE d = e
    <3>1. a \in Standing(e)
      BY <1>2, <1>4 DEF Standing
    <3>2. Standing(d)' = Standing(d) \ {a}
      BY <1>8, <2>3, <2>4 DEF Standing
    <3>3. Standing(d)' = {}
      BY <2>2, <2>4, <3>1, <3>2
    <3> QED
      BY <1>10, <2>4, <3>3
  <2>5. CASE d # e
    <3>1. Standing(d)' = Standing(d)
      BY <1>4, <1>5, <1>8, <2>3, <2>5 DEF Standing
    <3> QED
      BY <1>10, <2>1, <2>2, <2>5, <3>1
  <2> QED
    BY <2>4, <2>5
<1>18. \A d \in Entries : charged'[d] \subseteq Recorded'
  BY <1>8, <1>11 DEF IInv
<1>19. UsesAreAccounted'
  <2> SUFFICES ASSUME NEW d \in Counted, entry'[d].live \/ d \in Crafted
               PROVE  entry'[d].uses = base'[d] - Cardinality(charged'[d])
    BY DEF UsesAreAccounted
  <2>1. d \in Entries
    BY Constants
  <2>2. CASE d = e
    <3>1. /\ entry[e].uses = base[e] - Cardinality(charged[e]) /\ a \in charged[e]
          /\ entry'[e].uses = entry[e].uses + 1
      BY <1>10, <2>2 DEF IInv, UsesAreAccounted, Price
    <3>2. IsFiniteSet(charged[e])
      BY <1>1, Constants, FS_Subset DEF TypeOK
    <3>3. Cardinality(charged'[e]) = Cardinality(charged[e]) - 1 /\ Cardinality(charged[e]) \in Nat
      BY <1>11, <3>1, <3>2, FS_RemoveElement, FS_CardinalityType
    <3>4. base'[e] = base[e] /\ base[e] \in Nat
      BY <1>1, <1>6 DEF TypeOK
    <3> QED
      BY <2>2, <3>1, <3>3, <3>4
  <2>3. CASE d # e
    BY <1>6, <1>10, <1>11, <2>1, <2>3 DEF IInv, UsesAreAccounted
  <2> QED
    BY <2>2, <2>3
<1>20. IInv'
  BY <1>8, <1>13, <1>14, <1>15, <1>16, <1>17, <1>18, <1>19 DEF IInv
<1>21. Ledger!Undo(u, a, e)
  <2>1. Fate(a) = "applied" /\ Fate(u) = "open"
    <3>1. event[a] # None /\ event[a].type # "entry.undo" /\ event[a].type # "ability.area.cancelled"
      BY <1>3, Constants, ApplicationFields
    <3> QED
      BY <1>2, <1>6, <3>1 DEF Fate
  <2>2. Fate(a)' = "undone" /\ Fate(u)' = "undo"
    <3>1. event'[a] # None /\ event'[a].type # "entry.undo" /\ event'[a].type # "ability.area.cancelled"
      BY <1>3, <1>8, Constants, ApplicationFields
    <3> QED
      BY <1>8, <3>1 DEF Fate
  <2>3. \A b \in Actions \ {a, u} : Fate(b)' = Fate(b)
    BY <1>8 DEF Fate
  <2> DEFINE fate == [b \in Actions |-> Fate(b)]
             pool == [c \in Characters |-> char[c].pool]
             uses == [d \in Entries |-> entry[d].uses]
             effect == [b \in Actions |-> IF b \in Applied THEN event[b].effect
                                          ELSE [c \in Characters |-> 0]]
  <2>4. fate[a] = "applied" /\ fate[u] = "open"
        /\ fate' = [fate EXCEPT ![a] = "undone", ![u] = "undo"]
    BY <1>3, <1>8, <2>1, <2>2, <2>3
  <2>5. effect' = effect
    BY <1>8 DEF Applied, Recorded
  <2>6. effect[a] = eff
    BY <1>3, <1>5
  <2>7. pool' = [c \in Characters |-> pool[c] - effect[a][c]]
    BY <1>9, <2>6
  <2>8. uses' = IF e \in Counted THEN [uses EXCEPT ![e] = @ + 1] ELSE uses
    <3>1. entry[e].uses \in Nat
      BY <1>1, Rows
    <3>2. uses' = [d \in Entries |-> entry'[d].uses]
      OBVIOUS
    <3> QED
      BY <1>10, <3>1, <3>2 DEF Price
  <2> QED
    BY <2>4, <2>5, <2>7, <2>8 DEF Ledger!Undo
<1> QED
  BY <1>3, <1>20, <1>21

-----------------------------------------------------------------------------
(* All steps together.                                                     *)

LEMMA InitIInv == Init => IInv /\ Ledger!Init
<1> SUFFICES ASSUME Init PROVE IInv /\ Ledger!Init
  OBVIOUS
<1>1. Recorded = {} /\ Applied = {} /\ Undone = {} /\ \A e \in Entries : Standing(e) = {}
  BY DEF Init, Recorded, Applied, Undone, Standing
<1>2. MaxPool \in 0..MaxPool /\ MaxUses \in 0..MaxUses /\ 0 \in Nat
  BY Constants
<1>3. TypeOK
  <2>1. char \in [Characters -> Row] /\ entry \in [Entries -> Sheet]
    BY <1>2 DEF Init, Row, Sheet
  <2> QED
    BY <1>2, <2>1 DEF Init, TypeOK
<1>4. \A e \in Crafted : entry[e].live /\ Standing(e) = {}
  BY <1>1, Constants DEF Init
<1>5. UsesAreAccounted
  <2> SUFFICES ASSUME NEW e \in Counted PROVE entry[e].uses = base[e] - Cardinality(charged[e])
    BY DEF UsesAreAccounted
  <2>1. entry[e].uses = MaxUses /\ base[e] = MaxUses /\ charged[e] = {}
    BY Constants DEF Init
  <2> QED
    BY <2>1, FS_EmptySet, Constants
<1>6. IInv
  <2>1. /\ \A r \in Requests : req[r] = None
        /\ \A e \in Entries : charged[e] = {}
    BY DEF Init
  <2> QED
    BY <1>1, <1>3, <1>4, <1>5, <2>1 DEF IInv
<1>7. Ledger!Init
  <2>1. \A a \in Actions : Fate(a) = "open"
    BY DEF Init, Fate
  <2>2. /\ \A c \in Characters : char[c].pool \in Nat
        /\ \A e \in Entries : entry[e].uses \in Nat
    BY <1>2, Constants DEF Init
  <2> QED
    BY <1>1, <2>1, <2>2 DEF Ledger!Init
<1> QED
  BY <1>6, <1>7

LEMMA JournalAlone == ASSUME event' = event PROVE Ledger!Next
<1>1. Recorded' = Recorded /\ Applied' = Applied /\ Undone' = Undone
  BY DEF Recorded, Applied, Undone, Undoing
<1>2. \A a \in Actions : Fate(a)' = Fate(a)
  BY <1>1 DEF Fate
<1> QED
  BY <1>1, <1>2 DEF Ledger!Next, Ledger!Tune

LEMMA CancelAreaIsCancel ==
    ASSUME IInv, NEW a \in Actions, NEW e \in Entries, CancelArea(a, e) PROVE Ledger!Cancel(a)
<1>1. PICK x : x = [type |-> "ability.area.cancelled", on |-> e]
  OBVIOUS
<1>2. event' = [event EXCEPT ![a] = x] /\ event[a] = None /\ UNCHANGED <<char, entry>>
  BY <1>1 DEF CancelArea, IdIsFree
<1>3. x \in Cancellation /\ x.type = "ability.area.cancelled" /\ x # None
  BY <1>1, Constants DEF Cancellation
<1>4. event'[a] = x /\ \A b \in Actions \ {a} : event'[b] = event[b]
  BY <1>2 DEF IInv, TypeOK
<1>5. Recorded' = Recorded \cup {a} /\ a \notin Recorded
  BY <1>2, <1>3, <1>4 DEF Recorded
<1>6. Applied' = Applied /\ a \notin Applied
  BY <1>3, <1>4, <1>5 DEF Applied, Recorded
<1>7. \A b \in Actions : Undoing(b)' = Undoing(b)
  BY <1>3, <1>4, <1>5 DEF Undoing, Recorded
<1>8. Undone' = Undone
  BY <1>6, <1>7 DEF Undone, Applied, Recorded
<1>9. Fate(a) = "open" /\ Fate(a)' = "cancelled" /\ \A b \in Actions \ {a} : Fate(b)' = Fate(b)
  BY <1>2, <1>3, <1>4, <1>8 DEF Fate
<1>10. \A b \in Applied : event'[b] = event[b]
  BY <1>4, <1>6 DEF Applied, Recorded
<1> DEFINE fate == [b \in Actions |-> Fate(b)]
           effect == [b \in Actions |-> IF b \in Applied THEN event[b].effect
                                        ELSE [c \in Characters |-> 0]]
<1>11. fate[a] = "open" /\ fate' = [fate EXCEPT ![a] = "cancelled"]
  BY <1>9
<1>12. effect' = effect
  BY <1>6, <1>10
<1> QED
  BY <1>2, <1>11, <1>12 DEF Ledger!Cancel

LEMMA NextIInv == IInv /\ [Next]_vars => IInv' /\ Ledger!Next
<1> SUFFICES ASSUME IInv, [Next]_vars PROVE IInv' /\ Ledger!Next
  OBVIOUS
<1>1. ASSUME NEW r \in Requests,
             \/ \E a \in Actions, e \in Entries : BeginRoll(r, a, e) \/ BeginArea(r, a, e)
             \/ \E u, a \in Actions : BeginUndo(r, u, a)
             \/ \E c \in Characters : BeginRest(r, c)
             \/ \E e \in Entries : BeginRecharge(r, e)
      PROVE  IInv' /\ Ledger!Next
  <2>1. event' = event
    BY <1>1 DEF BeginRoll, BeginArea, BeginUndo, BeginRest, BeginRecharge, Start
  <2> QED
    BY <1>1, <2>1, BeginKeepsIInv, JournalAlone
<1>2. ASSUME NEW r \in Requests, CommitRoll(r) PROVE IInv' /\ Ledger!Next
  BY <1>2, CommitRollKeepsIInv DEF Ledger!Next
<1>3. ASSUME NEW r \in Requests, CommitArea(r) PROVE IInv' /\ Ledger!Next
  BY <1>3, CommitAreaKeepsIInv DEF Ledger!Next
<1>4. ASSUME NEW r \in Requests, CommitUndo(r) PROVE IInv' /\ Ledger!Next
  BY <1>4, CommitUndoKeepsIInv DEF Ledger!Next
<1>5. ASSUME NEW r \in Requests, CommitRest(r) \/ CommitRecharge(r) \/ GiveUp(r)
      PROVE  IInv' /\ Ledger!Next
  <2>1. event' = event
    BY <1>5 DEF CommitRest, CommitRecharge, GiveUp
  <2> QED
    BY <1>5, <2>1, CommitRestKeepsIInv, CommitRechargeKeepsIInv, GiveUpKeepsIInv, JournalAlone
<1>6. ASSUME NEW a \in Actions, NEW e \in Entries, CancelArea(a, e) PROVE IInv' /\ Ledger!Next
  BY <1>6, CancelAreaKeepsIInv, CancelAreaIsCancel DEF Ledger!Next
<1>7. ASSUME NEW e \in Entries,
             DeleteEntry(e) \/ EditItem(e) \/ \E n \in 0..MaxUses : EditEntry(e, n)
      PROVE  IInv' /\ Ledger!Next
  <2>1. event' = event
    BY <1>7 DEF DeleteEntry, EditItem, EditEntry
  <2> QED
    BY <1>7, <2>1, DeleteEntryKeepsIInv, EditItemKeepsIInv, EditEntryKeepsIInv, JournalAlone
<1>8. ASSUME NEW c \in Characters, NEW n \in 0..MaxPool, SetCounters(c, n) PROVE IInv' /\ Ledger!Next
  <2>1. event' = event
    BY <1>8 DEF SetCounters
  <2> QED
    BY <1>8, <2>1, SetCountersKeepsIInv, JournalAlone
<1>9. ASSUME LongRest PROVE IInv' /\ Ledger!Next
  <2>1. event' = event
    BY <1>9 DEF LongRest
  <2> QED
    BY <1>9, <2>1, LongRestKeepsIInv, JournalAlone
<1>10. ASSUME UNCHANGED vars PROVE IInv' /\ Ledger!Next
  <2>1. /\ char' = char /\ entry' = entry /\ event' = event /\ req' = req
        /\ charged' = charged /\ base' = base /\ edits' = edits
    BY <1>10 DEF vars
  <2>2. TypeOK' /\ CharsMove
    BY <2>1 DEF IInv, TypeOK, CharsMove
  <2>3. \A e \in Entries : Tuned(e) /\ Recounted(e) /\ charged'[e] \subseteq charged[e]
    BY <2>1, EntriesAlone
  <2>4. IInv'
    BY <2>1, <2>2, <2>3, TuneKeepsIInv, Constants
  <2> QED
    BY <2>1, <2>4, JournalAlone
<1> QED
  BY <1>1, <1>2, <1>3, <1>4, <1>5, <1>6, <1>7, <1>8, <1>9, <1>10 DEF Next

-----------------------------------------------------------------------------
(* The theorems.                                                           *)

\* The invariant every argument below rests on: a row at the revision a
\* request has read, or an application has left, is that row.
THEOREM Invariance == Spec => []IInv
<1>1. Init => IInv
  BY InitIInv
<1>2. IInv /\ [Next]_vars => IInv'
  BY NextIInv
<1> QED
  BY <1>1, <1>2, PTL DEF Spec

\* Whatever is rolled, applied, undone, recharged and edited in whatever
\* order, a counter shows what it was set to less the applications that stand
\* (applyEntryCosts and the undo of undo-application.ts).
THEOREM UsesAccounted == Spec => []UsesAreAccounted
<1>1. IInv => UsesAreAccounted
  BY DEF IInv
<1> QED
  BY <1>1, Invariance, PTL

\* An item consumed on application is gone exactly while one application of
\* it stands (creation-consumption.ts).
THEOREM ItemSpentOnce == Spec => []ItemIsSpentOnce
<1>1. IInv => ItemIsSpentOnce
  <2> SUFFICES ASSUME IInv, NEW e \in Crafted
               PROVE  /\ Cardinality(Standing(e)) <= 1
                      /\ entry[e].live <=> Standing(e) = {}
    BY DEF ItemIsSpentOnce, Standing
  <2>1. /\ entry[e].live <=> Standing(e) = {}
        /\ \A a, b \in Standing(e) : a = b
    BY DEF IInv
  <2>2. CASE Standing(e) = {}
    BY <2>1, <2>2, FS_EmptySet
  <2>3. CASE Standing(e) # {}
    <3>1. PICK a : a \in Standing(e)
      BY <2>3
    <3>2. Standing(e) = {a}
      BY <2>1, <3>1
    <3>3. Cardinality({a}) = 1
      BY FS_Singleton
    <3> QED
      BY <2>1, <3>2, <3>3
  <2> QED
    BY <2>2, <2>3
<1> QED
  BY <1>1, Invariance, PTL

\* Rows that are read early and written late keep the ledger that is written
\* atomically: each action id comes to one thing, an application takes its
\* price from the rows as they are, an undo takes back exactly that.
THEOREM LedgerKept == Spec => KeepsLedger
<1>1. Init => IInv /\ Ledger!Init
  BY InitIInv
<1>2. IInv /\ [Next]_vars => IInv' /\ Ledger!Next
  BY NextIInv
<1> QED
  BY <1>1, <1>2, PTL DEF Spec, KeepsLedger, Ledger!Spec
=============================================================================
