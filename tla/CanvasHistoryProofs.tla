------------------------- MODULE CanvasHistoryProofs -------------------------
(***************************************************************************)
(* Proofs about CanvasHistory, for every number of objects, players,       *)
(* actionIds and handlers, and every bound.                                *)
(***************************************************************************)
EXTENDS CanvasHistory, FiniteSetTheorems, SequenceTheorems, TLAPS

(***************************************************************************)
(* Rows and what the journal keeps of them.                                *)
(***************************************************************************)

LEMMA Constants ==
  /\ GM \in Members /\ Scene \in Objects \ Drawings /\ Scene \notin Tokens
  /\ \A o \in Objects : /\ ContentsOf(o) \subseteq Contents /\ Absent \notin ContentsOf(o)
                        /\ RowsOf(o) \subseteq Rows /\ Absent \notin RowsOf(o)
  /\ MaxRev \in Nat
<1>1. \A o \in Objects : ContentsOf(o) \subseteq Contents /\ RowsOf(o) \subseteq Rows
  BY DEF Contents, Rows
<1> QED
  BY <1>1, HistoryAssumption, AbsentIsNoRow DEF Members, Objects

LEMMA ContentOfRow ==
  ASSUME NEW o \in Objects, NEW row \in RowsOf(o)
  PROVE  /\ Content(row) \in ContentsOf(o) /\ row # Absent /\ row.rev \in 0 .. MaxRev
         /\ Content(row) # Absent /\ row.val \in Vals(o)
BY Constants DEF Content, ContentsOf, RowsOf

LEMMA RowOfContent ==
  ASSUME NEW o \in Objects, NEW c \in ContentsOf(o), NEW n \in 0 .. MaxRev
  PROVE  /\ RowOf(c, n) \in RowsOf(o) /\ RowOf(c, n).rev = n
         /\ RowOf(c, n) # Absent /\ Content(RowOf(c, n)) = c
<1>1. RowOf(c, n) \in RowsOf(o) /\ RowOf(c, n).rev = n
  BY DEF RowOf, ContentsOf, RowsOf
<1>2. RowOf(c, n) # Absent
  BY <1>1, Constants
<1>3. c = [val |-> c.val, sys |-> c.sys]
  BY DEF ContentsOf
<1>4. Content(RowOf(c, n)) = [val |-> c.val, sys |-> c.sys]
  BY <1>2 DEF Content, RowOf
<1> QED
  BY <1>1, <1>2, <1>3, <1>4

(***************************************************************************)
(* Sequences.                                                              *)
(***************************************************************************)

LEMMA AppendFacts ==
  ASSUME NEW S, NEW s \in Seq(S), NEW x \in S
  PROVE  /\ Append(s, x) \in Seq(S) /\ Len(Append(s, x)) = Len(s) + 1
         /\ DOMAIN Append(s, x) = 1 .. Len(s) + 1
         /\ \A i \in 1 .. Len(s) : Append(s, x)[i] = s[i]
         /\ Append(s, x)[Len(s) + 1] = x
OBVIOUS

LEMMA RemoveAtFacts ==
  ASSUME NEW S, NEW s \in Seq(S), NEW p \in 1 .. Len(s)
  PROVE  /\ RemoveAt(s, p) \in Seq(S) /\ Len(RemoveAt(s, p)) = Len(s) - 1
         /\ \A i \in 1 .. Len(s) - 1 : RemoveAt(s, p)[i] = IF i < p THEN s[i] ELSE s[i + 1]
<1>1. /\ SubSeq(s, 1, p - 1) \in Seq(S) /\ Len(SubSeq(s, 1, p - 1)) = p - 1
      /\ \A i \in 1 .. p - 1 : SubSeq(s, 1, p - 1)[i] = s[i]
  OBVIOUS
<1>2. /\ SubSeq(s, p + 1, Len(s)) \in Seq(S) /\ Len(SubSeq(s, p + 1, Len(s))) = Len(s) - p
      /\ \A i \in 1 .. Len(s) - p : SubSeq(s, p + 1, Len(s))[i] = s[p + i]
  OBVIOUS
<1> DEFINE a == SubSeq(s, 1, p - 1)
           b == SubSeq(s, p + 1, Len(s))
<1>3. /\ a \o b \in Seq(S) /\ Len(a \o b) = Len(a) + Len(b)
      /\ \A i \in 1 .. Len(a) + Len(b) : (a \o b)[i] = IF i <= Len(a) THEN a[i] ELSE b[i - Len(a)]
  BY <1>1, <1>2, ConcatProperties
<1>4. RemoveAt(s, p) = a \o b
  BY DEF RemoveAt
<1> HIDE DEF a, b
<1>5. /\ Len(a) = p - 1 /\ Len(b) = Len(s) - p
      /\ \A i \in 1 .. p - 1 : a[i] = s[i]
      /\ \A i \in 1 .. Len(s) - p : b[i] = s[p + i]
  BY <1>1, <1>2 DEF a, b
<1>6. Len(s) \in Nat
  OBVIOUS
<1>7. Len(RemoveAt(s, p)) = Len(s) - 1
  <2>1. Len(RemoveAt(s, p)) = Len(a) + Len(b)
    BY <1>3, <1>4
  <2>2. Len(a) + Len(b) = Len(s) - 1
    BY <1>5, <1>6
  <2> QED
    BY <2>1, <2>2
<1>8. ASSUME NEW i \in 1 .. Len(s) - 1
      PROVE RemoveAt(s, p)[i] = IF i < p THEN s[i] ELSE s[i + 1]
  <2>1. CASE i < p
    BY <2>1, <1>3, <1>4, <1>5, <1>6
  <2>2. CASE ~ (i < p)
    <3>1. i - (p - 1) \in 1 .. Len(s) - p /\ p + (i - (p - 1)) = i + 1 /\ ~ (i <= p - 1)
      BY <2>2, <1>6
    <3>2. (a \o b)[i] = b[i - (p - 1)]
      BY <3>1, <1>3, <1>5, <1>6
    <3> QED
      BY <2>2, <3>1, <3>2, <1>4, <1>5
  <2> QED
    BY <2>1, <2>2
<1> QED
  BY <1>3, <1>4, <1>7, <1>8

(***************************************************************************)
(* The journal.                                                            *)
(***************************************************************************)

JournalInv ==
  /\ journal \in Seq(Entries) /\ \A i \in DOMAIN journal : EntryOK(journal[i])
  /\ IdsAreUnique /\ RedoBranchIsCurrent

\* K is the journal with some entries retired.
Shrinks(K) ==
  /\ K \in Seq(Entries) /\ Len(K) = Len(journal)
  /\ \A i \in DOMAIN journal :
       \/ K[i] = journal[i]
       \/ journal[i].status # "INVALIDATED" /\ K[i] = Retire(journal[i])

\* The same, with m's redo branch among them.
Retires(K, m) ==
  /\ Shrinks(K)
  /\ \A i \in DOMAIN journal : K[i].status = "UNDONE" => m # GM /\ K[i].actor # m

\* No entry is lost and the invalidated ones stay as they are.
JournalGrows ==
  /\ \A i \in DOMAIN journal : \E j \in DOMAIN journal' : journal'[j].id = journal[i].id
  /\ \A e \in Range(journal) : e.status = "INVALIDATED" => e \in Range(journal')

\* No entry is undone or redone.
NobodyTurns ==
  \A e \in Range(journal), f \in Range(journal') :
    f.id = e.id => f.status = e.status \/ f.status = "INVALIDATED"

\* No entry but the one at p is.
OnlyTurns(p) ==
  \A e \in Range(journal), f \in Range(journal') :
    f.id = e.id => f.status = e.status \/ e = journal[p]

LEMMA RetireFacts ==
  ASSUME NEW e \in Entries
  PROVE  /\ Retire(e) \in Entries /\ Retire(e).id = e.id /\ Retire(e).actor = e.actor
         /\ Retire(e).status = "INVALIDATED" /\ Retire(e).mark = 0 /\ Retire(e).cur = e.cur
         /\ Retire(e).kind = e.kind /\ Retire(e).before = e.before /\ Retire(e).after = e.after
         /\ Retire(e).looks = e.looks
BY DEF Retire, Entries, Statuses

LEMMA RedoBranchIsRetired ==
  ASSUME journal \in Seq(Entries), NEW m
  PROVE  Retires(InvalidateRedoBranch(m), m)
<1> DEFINE K == InvalidateRedoBranch(m)
<1>1. DOMAIN journal = 1 .. Len(journal) /\ Len(journal) \in Nat
      /\ \A i \in DOMAIN journal : journal[i] \in Entries
  OBVIOUS
<1>2. \A i \in DOMAIN journal : Retire(journal[i]) \in Entries
  BY <1>1, RetireFacts
<1>3. K = [i \in 1 .. Len(journal) |->
             IF journal[i].status = "UNDONE" /\ (m = GM \/ journal[i].actor = m)
             THEN Retire(journal[i]) ELSE journal[i]]
  BY <1>1 DEF InvalidateRedoBranch
<1>4. K \in Seq(Entries) /\ Len(K) = Len(journal)
  <2>1. \A i \in 1 .. Len(journal) : (IF journal[i].status = "UNDONE" /\ (m = GM \/ journal[i].actor = m)
             THEN Retire(journal[i]) ELSE journal[i]) \in Entries
    BY <1>1, <1>2
  <2> QED
    BY <1>1, <1>3, <2>1
<1>5. ASSUME NEW i \in DOMAIN journal
      PROVE  /\ \/ K[i] = journal[i]
                \/ journal[i].status # "INVALIDATED" /\ K[i] = Retire(journal[i])
             /\ K[i].status = "UNDONE" => m # GM /\ K[i].actor # m
  <2>1. K[i] = IF journal[i].status = "UNDONE" /\ (m = GM \/ journal[i].actor = m)
               THEN Retire(journal[i]) ELSE journal[i]
    BY <1>1, <1>3
  <2>2. Retire(journal[i]).status = "INVALIDATED"
    BY <1>1, RetireFacts
  <2> HIDE DEF K
  <2> QED
    BY <2>1, <2>2
<1> QED
  BY <1>4, <1>5 DEF Retires, Shrinks

LEMMA RetiredKeepsJournal ==
  ASSUME JournalInv, NEW K, Shrinks(K), journal' = K
  PROVE  JournalInv' /\ JournalGrows /\ NobodyTurns
<1>1. DOMAIN journal = 1 .. Len(journal) /\ Len(journal) \in Nat
      /\ DOMAIN K = DOMAIN journal /\ Len(K) = Len(journal) /\ K \in Seq(Entries)
      /\ \A i \in DOMAIN journal : journal[i] \in Entries
  BY DEF JournalInv, Shrinks
<1>2. \A i \in DOMAIN K :
        /\ K[i].id = journal[i].id /\ K[i].actor = journal[i].actor
        /\ \/ K[i] = journal[i]
           \/ /\ K[i].mark = 0 /\ K[i].status = "INVALIDATED"
              /\ journal[i].status # "INVALIDATED"
        /\ K[i].cur = journal[i].cur /\ K[i].kind = journal[i].kind
        /\ K[i].before = journal[i].before /\ K[i].after = journal[i].after
        /\ K[i].looks = journal[i].looks
  BY <1>1, RetireFacts DEF Shrinks
<1>3. \A i \in DOMAIN K : EntryOK(journal[i])
  BY <1>1 DEF JournalInv
<1>4. \A i \in DOMAIN journal' : EntryOK(journal[i])'
  <2> SUFFICES ASSUME NEW i \in DOMAIN journal' PROVE EntryOK(journal[i])'
    OBVIOUS
  <2>1. i \in DOMAIN K /\ EntryOK(journal[i])
    BY <1>3
  <2>2. /\ journal'[i].id \in 1 .. Len(journal') /\ journal'[i].mark \in 0 .. Len(journal')
    BY <1>1, <1>2, <2>1 DEF EntryOK
  <2>3. Shaped(journal'[i])
    BY <1>1, <1>2, <2>1 DEF EntryOK, Shaped
  <2> QED
    BY <2>2, <2>3 DEF EntryOK
<1>5. IdsAreUnique'
  BY <1>1, <1>2 DEF JournalInv, IdsAreUnique
<1>6. RedoBranchIsCurrent'
  <2>1. \A i, j \in DOMAIN journal :
          journal[i].status = "UNDONE" /\ journal[j].id > journal[i].mark
            => journal[j].actor # GM /\ journal[j].actor # journal[i].actor
    BY DEF JournalInv, RedoBranchIsCurrent, Range
  <2>2. \A i, j \in DOMAIN K :
          K[i].status = "UNDONE" /\ K[j].id > K[i].mark
            => K[j].actor # GM /\ K[j].actor # K[i].actor
    BY <1>1, <1>2, <2>1
  <2> QED
    BY <2>2 DEF RedoBranchIsCurrent, Range
<1>7. JournalGrows
  BY <1>1, <1>2 DEF JournalGrows, Range
<1>8. NobodyTurns
  BY <1>1, <1>2 DEF NobodyTurns, Range, JournalInv, IdsAreUnique
<1> QED
  BY <1>1, <1>4, <1>5, <1>6, <1>7, <1>8 DEF JournalInv

\* A new command: its entry is the latest, and its author and the GM's command
\* leave nothing to redo behind it.
LEMMA CommandKeepsJournal ==
  ASSUME JournalInv, NEW m, NEW K, Retires(K, m),
         NEW n \in Entries, n.id = Len(journal) + 1, n.actor = m, n.status = "APPLIED",
         n.mark = 0, Shaped(n), journal' = Append(K, n)
  PROVE  JournalInv' /\ JournalGrows /\ NobodyTurns
<1>1. DOMAIN journal = 1 .. Len(journal) /\ Len(journal) \in Nat
      /\ DOMAIN K = DOMAIN journal /\ Len(K) = Len(journal) /\ K \in Seq(Entries)
      /\ \A i \in DOMAIN journal : journal[i] \in Entries
  BY DEF JournalInv, Retires, Shrinks
<1>2. \A i \in DOMAIN K :
        /\ K[i].id = journal[i].id /\ K[i].actor = journal[i].actor
        /\ \/ K[i] = journal[i]
           \/ /\ K[i].mark = 0 /\ K[i].status = "INVALIDATED"
              /\ journal[i].status # "INVALIDATED"
        /\ K[i].cur = journal[i].cur /\ K[i].kind = journal[i].kind
        /\ K[i].before = journal[i].before /\ K[i].after = journal[i].after
        /\ K[i].looks = journal[i].looks
        /\ K[i].status = "UNDONE" => m # GM /\ K[i].actor # m
  BY <1>1, RetireFacts DEF Retires, Shrinks
<1>3. /\ journal' \in Seq(Entries) /\ Len(journal') = Len(journal) + 1
      /\ DOMAIN journal' = 1 .. Len(journal) + 1
      /\ \A i \in DOMAIN K : i \in DOMAIN journal' /\ journal'[i] = K[i]
      /\ journal'[Len(journal) + 1] = n
  BY <1>1, AppendFacts
<1>4. \A i \in DOMAIN journal' : i \in DOMAIN K \/ i = Len(journal) + 1
  BY <1>1, <1>3
<1>5. \A i \in DOMAIN K : K[i].id \in 1 .. Len(journal) /\ K[i].mark \in 0 .. Len(journal) /\ Shaped(K[i])
  <2> SUFFICES ASSUME NEW i \in DOMAIN K
               PROVE  K[i].id \in 1 .. Len(journal) /\ K[i].mark \in 0 .. Len(journal) /\ Shaped(K[i])
    OBVIOUS
  <2>1. EntryOK(journal[i])
    BY <1>1 DEF JournalInv
  <2>2. K[i].id \in 1 .. Len(journal) /\ K[i].mark \in 0 .. Len(journal)
    BY <1>1, <1>2, <2>1 DEF EntryOK
  <2>3. Shaped(K[i])
    BY <1>1, <1>2, <2>1 DEF EntryOK, Shaped
  <2> QED
    BY <2>2, <2>3
<1>6. \A i \in DOMAIN journal' : EntryOK(journal[i])'
  <2> SUFFICES ASSUME NEW i \in DOMAIN journal' PROVE EntryOK(journal[i])'
    OBVIOUS
  <2>1. CASE i \in DOMAIN K
    BY <1>1, <1>3, <1>5, <2>1 DEF EntryOK
  <2>2. CASE i = Len(journal) + 1
    BY <1>1, <1>3, <2>2 DEF EntryOK
  <2> QED
    BY <1>4, <2>1, <2>2
<1>7. IdsAreUnique'
  <2>1. \A i, j \in DOMAIN K : K[i].id = K[j].id => i = j
    BY <1>1, <1>2 DEF JournalInv, IdsAreUnique
  <2> QED
    BY <1>1, <1>3, <1>4, <1>5, <2>1 DEF IdsAreUnique
<1>8. RedoBranchIsCurrent'
  <2>1. \A i, j \in DOMAIN journal :
          journal[i].status = "UNDONE" /\ journal[j].id > journal[i].mark
            => journal[j].actor # GM /\ journal[j].actor # journal[i].actor
    BY DEF JournalInv, RedoBranchIsCurrent, Range
  <2>2. \A i, j \in DOMAIN journal' :
          journal'[i].status = "UNDONE" /\ journal'[j].id > journal'[i].mark
            => journal'[j].actor # GM /\ journal'[j].actor # journal'[i].actor
    <3> SUFFICES ASSUME NEW i \in DOMAIN journal', NEW j \in DOMAIN journal',
                        journal'[i].status = "UNDONE", journal'[j].id > journal'[i].mark
                 PROVE  journal'[j].actor # GM /\ journal'[j].actor # journal'[i].actor
      OBVIOUS
    <3>1. i \in DOMAIN K /\ journal'[i] = K[i] /\ K[i] = journal[i]
      BY <1>2, <1>3, <1>4
    <3>2. CASE j \in DOMAIN K
      BY <1>1, <1>2, <1>3, <2>1, <3>1, <3>2
    <3>3. CASE j = Len(journal) + 1
      BY <1>2, <1>3, <3>1, <3>3
    <3> QED
      BY <1>4, <3>2, <3>3
  <2> QED
    BY <2>2 DEF RedoBranchIsCurrent, Range
<1>9. JournalGrows
  <2>1. \A i \in DOMAIN journal : i \in DOMAIN journal' /\ journal'[i].id = journal[i].id
    BY <1>1, <1>2, <1>3
  <2>2. \A i \in DOMAIN journal : journal[i].status = "INVALIDATED" => journal'[i] = journal[i]
    BY <1>1, <1>2, <1>3
  <2> QED
    BY <2>1, <2>2 DEF JournalGrows, Range
<1>10. NobodyTurns
  <2>1. \A i \in DOMAIN journal, j \in DOMAIN journal' :
          journal'[j].id = journal[i].id => j = i
    <3> SUFFICES ASSUME NEW i \in DOMAIN journal, NEW j \in DOMAIN journal', journal'[j].id = journal[i].id
                 PROVE  j = i
      OBVIOUS
    <3>1. journal[i].id \in 1 .. Len(journal)
      BY DEF JournalInv, EntryOK
    <3>2. CASE j \in DOMAIN K
      BY <1>1, <1>2, <1>3, <3>2 DEF JournalInv, IdsAreUnique
    <3>3. CASE j = Len(journal) + 1
      BY <1>1, <1>3, <3>1, <3>3
    <3> QED
      BY <1>4, <3>2, <3>3
  <2>2. \A i \in DOMAIN journal : journal'[i].status = journal[i].status \/ journal'[i].status = "INVALIDATED"
    BY <1>1, <1>2, <1>3
  <2> QED
    BY <2>1, <2>2 DEF NobodyTurns, Range
<1> QED
  BY <1>3, <1>6, <1>7, <1>8, <1>9, <1>10 DEF JournalInv

MovesToEnd(p, n) == journal' = Append(RemoveAt(journal, p), n)

\* Undo and redo: the entry moves to the end of the order; an entry that is
\* undone now outlives every command there is.
LEMMA ReplayKeepsJournal ==
  ASSUME JournalInv, NEW p \in DOMAIN journal, NEW n \in Entries,
         n.id = journal[p].id, n.actor = journal[p].actor, Shaped(n),
         journal[p].status # "INVALIDATED", n.mark \in {0, Len(journal)},
         n.status = "UNDONE" => n.mark = Len(journal),
         MovesToEnd(p, n)
  PROVE  /\ JournalInv' /\ JournalGrows /\ OnlyTurns(p)
         /\ \A i \in DOMAIN journal' :
              journal'[i] = n \/ \E k \in DOMAIN journal \ {p} : journal'[i] = journal[k]
<1> DEFINE old(i) == IF i < p THEN i ELSE i + 1
<1>1. DOMAIN journal = 1 .. Len(journal) /\ Len(journal) \in Nat /\ p \in 1 .. Len(journal)
      /\ journal \in Seq(Entries) /\ \A i \in DOMAIN journal : journal[i] \in Entries
  BY DEF JournalInv
<1>2. /\ RemoveAt(journal, p) \in Seq(Entries) /\ Len(RemoveAt(journal, p)) = Len(journal) - 1
      /\ \A i \in 1 .. Len(journal) - 1 : RemoveAt(journal, p)[i] = journal[old(i)]
  BY <1>1, RemoveAtFacts
<1>3. /\ journal' \in Seq(Entries) /\ Len(journal') = Len(journal)
      /\ DOMAIN journal' = 1 .. Len(journal)
      /\ \A i \in 1 .. Len(journal) - 1 : journal'[i] = journal[old(i)]
      /\ journal'[Len(journal)] = n
  <2>1. journal' \in Seq(Entries) /\ Len(journal') = Len(journal) - 1 + 1
        /\ DOMAIN journal' = 1 .. Len(journal) - 1 + 1
        /\ \A i \in 1 .. Len(journal) - 1 : journal'[i] = RemoveAt(journal, p)[i]
        /\ journal'[Len(journal) - 1 + 1] = n
    BY <1>2, AppendFacts DEF MovesToEnd
  <2>2. Len(journal) - 1 + 1 = Len(journal)
    BY <1>1
  <2>3. \A i \in 1 .. Len(journal) - 1 : journal'[i] = journal[old(i)]
    BY <2>1, <1>2
  <2>4. Len(journal') = Len(journal)
    BY <1>1, <2>1
  <2>5. journal'[Len(journal)] = n
    <3>1. Len(RemoveAt(journal, p)) + 1 = Len(journal)
      BY <1>1, <1>2
    <3>2. Append(RemoveAt(journal, p), n)[Len(RemoveAt(journal, p)) + 1] = n
      BY <1>2, AppendFacts
    <3> QED
      BY <3>1, <3>2, Zenon DEF MovesToEnd
  <2>6. DOMAIN journal' = 1 .. Len(journal)
    BY <2>1, <2>2
  <2> QED
    BY <2>1, <2>3, <2>4, <2>5, <2>6
<1>4. /\ \A i \in 1 .. Len(journal) - 1 : old(i) \in DOMAIN journal \ {p}
      /\ \A i, j \in 1 .. Len(journal) - 1 : old(i) = old(j) => i = j
      /\ \A k \in DOMAIN journal \ {p} : \E i \in 1 .. Len(journal) - 1 : old(i) = k
  <2>1. \A k \in DOMAIN journal \ {p} :
          (IF k < p THEN k ELSE k - 1) \in 1 .. Len(journal) - 1 /\ old(IF k < p THEN k ELSE k - 1) = k
    BY <1>1
  <2> QED
    BY <1>1, <2>1
<1>5. \A i \in DOMAIN journal' : i \in 1 .. Len(journal) - 1 \/ i = Len(journal)
  BY <1>1, <1>3
<1> HIDE DEF old
<1>6. \A i \in DOMAIN journal : EntryOK(journal[i])
  BY DEF JournalInv
<1>7. \A i \in DOMAIN journal' : EntryOK(journal[i])'
  <2> SUFFICES ASSUME NEW i \in DOMAIN journal' PROVE EntryOK(journal[i])'
    OBVIOUS
  <2>1. CASE i \in 1 .. Len(journal) - 1
    BY <1>3, <1>4, <1>6, <2>1 DEF EntryOK
  <2>2. CASE i = Len(journal)
    BY <1>1, <1>3, <1>6, <2>2 DEF EntryOK
  <2> QED
    BY <1>5, <2>1, <2>2
<1>8. IdsAreUnique'
  <2> SUFFICES ASSUME NEW i \in DOMAIN journal', NEW j \in DOMAIN journal', journal'[i].id = journal'[j].id
               PROVE  i = j
    BY DEF IdsAreUnique
  <2>1. \A k, l \in DOMAIN journal : journal[k].id = journal[l].id => k = l
    BY DEF JournalInv, IdsAreUnique
  <2>2. CASE i \in 1 .. Len(journal) - 1 /\ j \in 1 .. Len(journal) - 1
    <3>1. /\ journal'[i] = journal[old(i)] /\ journal'[j] = journal[old(j)]
          /\ old(i) \in DOMAIN journal /\ old(j) \in DOMAIN journal
      BY <1>3, <1>4, <2>2
    <3>2. old(i) = old(j)
      BY <2>1, <3>1
    <3> QED
      BY <1>4, <2>2, <3>2
  <2>3. CASE i \in 1 .. Len(journal) - 1 /\ j = Len(journal)
    BY <1>3, <1>4, <2>1, <2>3
  <2>4. CASE i = Len(journal) /\ j \in 1 .. Len(journal) - 1
    BY <1>3, <1>4, <2>1, <2>4
  <2> QED
    BY <1>5, <2>2, <2>3, <2>4
<1>9. RedoBranchIsCurrent'
  <2>1. \A i, j \in DOMAIN journal :
          journal[i].status = "UNDONE" /\ journal[j].id > journal[i].mark
            => journal[j].actor # GM /\ journal[j].actor # journal[i].actor
    BY DEF JournalInv, RedoBranchIsCurrent, Range
  <2>2. \A j \in DOMAIN journal' : \E k \in DOMAIN journal :
          journal'[j].id = journal[k].id /\ journal'[j].actor = journal[k].actor
    BY <1>3, <1>4, <1>5
  <2>3. \A i, j \in DOMAIN journal' :
          journal'[i].status = "UNDONE" /\ journal'[j].id > journal'[i].mark
            => journal'[j].actor # GM /\ journal'[j].actor # journal'[i].actor
    <3> SUFFICES ASSUME NEW i \in DOMAIN journal', NEW j \in DOMAIN journal',
                        journal'[i].status = "UNDONE", journal'[j].id > journal'[i].mark
                 PROVE  journal'[j].actor # GM /\ journal'[j].actor # journal'[i].actor
      OBVIOUS
    <3>1. PICK k \in DOMAIN journal : journal'[j].id = journal[k].id /\ journal'[j].actor = journal[k].actor
      BY <2>2
    <3>2. CASE i \in 1 .. Len(journal) - 1
      <4>1. old(i) \in DOMAIN journal /\ journal'[i] = journal[old(i)]
        BY <1>3, <1>4, <3>2
      <4> QED
        BY <2>1, <3>1, <4>1
    <3>3. CASE i = Len(journal)
      <4>1. journal[k].id \in 1 .. Len(journal)
        BY <1>6 DEF EntryOK
      <4>2. journal'[i].mark = Len(journal)
        BY <1>3, <3>3
      <4> QED
        BY <1>1, <3>1, <4>1, <4>2
    <3> QED
      BY <1>5, <3>2, <3>3
  <2> QED
    BY <2>3 DEF RedoBranchIsCurrent, Range
<1>10. JournalGrows
  <2>1. \A k \in DOMAIN journal \ {p} : \E i \in DOMAIN journal' : journal'[i] = journal[k]
    <3>1. \A i \in 1 .. Len(journal) - 1 : i \in DOMAIN journal'
      BY <1>1, <1>3
    <3> QED
      BY <1>3, <1>4, <3>1
  <2>2. Len(journal) \in DOMAIN journal' /\ journal'[Len(journal)].id = journal[p].id
    BY <1>1, <1>3
  <2>3. \A i \in DOMAIN journal : \E j \in DOMAIN journal' : journal'[j].id = journal[i].id
    BY <2>1, <2>2
  <2>4. \A e \in Range(journal) : e.status = "INVALIDATED" => e \in Range(journal')
    BY <2>1 DEF Range
  <2> QED
    BY <2>3, <2>4 DEF JournalGrows
<1>11. \A i \in DOMAIN journal' :
         journal'[i] = n \/ \E k \in DOMAIN journal \ {p} : journal'[i] = journal[k]
  BY <1>3, <1>4, <1>5
<1>12. OnlyTurns(p)
  <2>1. \A k, l \in DOMAIN journal : journal[k].id = journal[l].id => k = l
    BY DEF JournalInv, IdsAreUnique
  <2> QED
    BY <1>11, <2>1 DEF OnlyTurns, Range
<1> QED
  BY <1>3, <1>7, <1>8, <1>9, <1>10, <1>11, <1>12 DEF JournalInv

(***************************************************************************)
(* Revisions.  A step leaves an object alone, removes it, or gives it the  *)
(* revision after the highest it ever had.                                 *)
(***************************************************************************)

Moves(o) ==
  \/ rows'[o] = rows[o] /\ top'[o] = top[o]
  \/ Present(o) /\ rows'[o] = Absent /\ top'[o] = top[o]
  \/ rows'[o] # Absent /\ rows'[o].rev = top[o] + 1 /\ top'[o] = top[o] + 1

RowsStep ==
  /\ rows' \in [Objects -> Rows \union {Absent}] /\ rows'[Scene] # Absent
  /\ \A o \in Objects : rows'[o] # Absent => rows'[o] \in RowsOf(o)
  /\ top' \in [Objects -> -1 .. MaxRev]
  /\ \A o \in Objects \ Drawings : Moves(o)
  /\ RevisionsClimb'

LEMMA WriteIsRowsStep ==
  ASSUME TypeOK, RevisionsClimb, NEW nr \in [Objects -> Rows \union {Absent}],
         \A o \in Objects : nr[o] # Absent => nr[o] \in RowsOf(o), nr[Scene] # Absent,
         \A o \in Objects \ Drawings : \/ nr[o] = rows[o]
                                       \/ Present(o) /\ nr[o] = Absent
                                       \/ nr[o] # Absent /\ nr[o].rev = top[o] + 1,
         NEW nl, Write(nr, nl)
  PROVE  RowsStep
<1>1. /\ rows' = nr /\ top \in [Objects -> -1 .. MaxRev] /\ MaxRev \in Nat
      /\ \A o \in Objects : nr[o] # Absent => nr[o].rev \in 0 .. MaxRev
  BY Constants, ContentOfRow DEF Write, TypeOK
<1>2. top' \in [Objects -> -1 .. MaxRev]
      /\ \A o \in Objects : top'[o] = IF nr[o] = Absent \/ nr[o].rev <= top[o] THEN top[o] ELSE nr[o].rev
  <2>1. top' = [o \in Objects |-> IF nr[o] = Absent \/ nr[o].rev <= top[o] THEN top[o] ELSE nr[o].rev]
    BY DEF Write, Raise
  <2> QED
    BY <1>1, <2>1
<1>3. ASSUME NEW o \in Objects \ Drawings
      PROVE  Moves(o) /\ (rows'[o] # Absent => rows'[o].rev = top'[o])
  <2>1. CASE nr[o] = rows[o]
    BY <1>1, <1>2, <2>1 DEF RevisionsClimb, Moves, Present
  <2>2. CASE Present(o) /\ nr[o] = Absent
    BY <1>1, <1>2, <2>2 DEF Moves
  <2>3. CASE nr[o] # Absent /\ nr[o].rev = top[o] + 1
    <3>1. top[o] \in Int /\ ~ (nr[o].rev <= top[o])
      BY <1>1, <2>3
    <3> QED
      BY <1>1, <1>2, <2>3, <3>1 DEF Moves
  <2> QED
    BY <2>1, <2>2, <2>3
<1> QED
  BY <1>1, <1>2, <1>3 DEF RowsStep, RevisionsClimb, Present

\* An entry goes on agreeing with an object unless it could have brought it
\* back and somebody else did.
LEMMA EntryGoesOnAgreeing ==
  ASSUME NEW o \in Objects \ Drawings, NEW e \in Entries, o \in DOMAIN e.cur, Agrees(e, o), Moves(o),
         e.cur[o] \in Nat, top[o] \in Int, Left(e, o) = Absent => rows'[o] = Absent
  PROVE  Agrees(e, o)'
<1>1. CASE rows'[o] = rows[o] /\ top'[o] = top[o]
  BY <1>1 DEF Agrees, Present
<1>2. CASE Present(o) /\ rows'[o] = Absent /\ top'[o] = top[o]
  BY <1>2 DEF Agrees, Present
<1>3. CASE rows'[o] # Absent /\ rows'[o].rev = top[o] + 1 /\ top'[o] = top[o] + 1
  <2>1. e.cur[o] <= top[o] /\ Left(e, o) # Absent
    BY <1>3 DEF Agrees
  <2>2. e.cur[o] <= top'[o] /\ rows'[o].rev # e.cur[o]
    BY <1>3, <2>1
  <2> QED
    BY <2>1, <2>2 DEF Agrees
<1> QED
  BY <1>1, <1>2, <1>3 DEF Moves

\* What a step leaves of the objects its entry is about.
Fits(n) ==
  \A o \in (DOMAIN n.cur) \ Drawings :
    IF Left(n, o) = Absent
    THEN Present(o) /\ rows'[o] = Absent /\ n.cur[o] = top[o]
    ELSE rows'[o] # Absent /\ n.cur[o] = rows'[o].rev /\ Content(rows'[o]) = Left(n, o)

NotRevived(e) ==
  \A o \in Objects : Concerns(e, o) /\ Left(e, o) = Absent => rows'[o] = Absent

LEMMA CurTyped ==
  ASSUME NEW e \in Entries, NEW o \in DOMAIN e.cur
  PROVE  o \in Objects /\ e.cur[o] \in 0 .. MaxRev
<1>1. PICK D \in SUBSET Objects : e.cur \in [D -> 0 .. MaxRev]
  BY DEF Entries, Snapshots
<1> QED
  BY <1>1

LEMMA EntriesStep ==
  ASSUME TypeOK, EntriesAgree, OneRemoval, RowsStep, JournalInv', NEW n,
         \A i \in DOMAIN journal' :
            \/ journal'[i] = n /\ Fits(n)
            \/ journal'[i].status = "INVALIDATED"
            \/ \E k \in DOMAIN journal : journal'[i] = journal[k] /\ NotRevived(journal[k])
  PROVE  EntriesAgree' /\ OneRemoval'
<1>1. /\ \A i \in DOMAIN journal : journal[i] \in Entries
      /\ \A i \in DOMAIN journal' : journal'[i] \in Entries
      /\ \A o \in Objects : top[o] \in Int
      /\ \A e \in Entries : \A o \in DOMAIN e.cur : e.cur[o] \in Nat
  BY CurTyped, Constants DEF TypeOK, JournalInv
<1>2. EntriesAgree'
  <2> SUFFICES ASSUME NEW i \in DOMAIN journal', NEW e \in Entries, e = journal'[i],
                      NEW o \in Objects, Concerns(e, o)
               PROVE  Agrees(e, o)'
    BY <1>1 DEF EntriesAgree
  <2>1. o \in Objects \ Drawings /\ o \in DOMAIN e.cur /\ e.status # "INVALIDATED"
    BY DEF Concerns
  <2>2. CASE e = n /\ Fits(n)
    <3>1. CASE Left(n, o) = Absent
      <4>1. Present(o) /\ rows'[o] = Absent /\ n.cur[o] = top[o]
        BY <2>1, <2>2, <3>1 DEF Fits
      <4>2. top'[o] = top[o]
        BY <2>1, <4>1 DEF RowsStep, Moves, Present
      <4> QED
        BY <1>1, <2>1, <2>2, <3>1, <4>1, <4>2 DEF Agrees, Present
    <3>2. CASE Left(n, o) # Absent
      <4>1. rows'[o] # Absent /\ n.cur[o] = rows'[o].rev /\ Content(rows'[o]) = Left(n, o)
        BY <2>1, <2>2, <3>2 DEF Fits
      <4>2. rows'[o].rev = top'[o]
        BY <2>1, <4>1 DEF RowsStep, RevisionsClimb, Present
      <4> QED
        BY <1>1, <2>1, <2>2, <3>2, <4>1, <4>2 DEF Agrees
    <3> QED
      BY <3>1, <3>2
  <2>3. CASE \E k \in DOMAIN journal : e = journal[k] /\ NotRevived(journal[k])
    <3>1. PICK k \in DOMAIN journal : e = journal[k] /\ NotRevived(journal[k])
      BY <2>3
    <3>2. Agrees(e, o) /\ (Left(e, o) = Absent => rows'[o] = Absent)
      BY <3>1 DEF EntriesAgree, NotRevived
    <3>3. Moves(o)
      BY <2>1 DEF RowsStep
    <3> QED
      BY <1>1, <2>1, <3>2, <3>3, EntryGoesOnAgreeing
  <2> QED
    BY <2>1, <2>2, <2>3
<1>3. OneRemoval'
  <2> SUFFICES ASSUME NEW i \in DOMAIN journal', NEW j \in DOMAIN journal', NEW o \in Objects,
                      Concerns(journal'[i], o), Left(journal'[i], o) = Absent,
                      Concerns(journal'[j], o), Left(journal'[j], o) = Absent
               PROVE  journal'[i].id = journal'[j].id
    BY DEF OneRemoval, JournalInv, IdsAreUnique
  <2>1. /\ o \in Objects \ Drawings
        /\ o \in DOMAIN journal'[i].cur /\ journal'[i].status # "INVALIDATED"
        /\ o \in DOMAIN journal'[j].cur /\ journal'[j].status # "INVALIDATED"
    BY DEF Concerns
  <2>2. \A k \in DOMAIN journal : Concerns(journal[k], o) /\ Left(journal[k], o) = Absent => ~ Present(o)
    BY DEF EntriesAgree, Agrees
  <2>3. Fits(n) /\ o \in DOMAIN n.cur /\ Left(n, o) = Absent => Present(o)
    BY <2>1 DEF Fits
  <2>4. CASE journal'[i] = n /\ Fits(n)
    BY <2>1, <2>2, <2>3, <2>4
  <2>5. CASE journal'[j] = n /\ Fits(n)
    BY <2>1, <2>2, <2>3, <2>5
  <2>6. CASE /\ \E k \in DOMAIN journal : journal'[i] = journal[k]
             /\ \E k \in DOMAIN journal : journal'[j] = journal[k]
    BY <2>6 DEF OneRemoval
  <2> QED
    BY <2>1, <2>4, <2>5, <2>6
<1> QED
  BY <1>2, <1>3

(***************************************************************************)
(* Requests.                                                               *)
(***************************************************************************)

RequestsInv ==
  /\ events \in [Actions -> Nat] /\ OncePerAction
  /\ pend \in [Requests -> RequestType] /\ \A r \in Requests : RequestOK(pend[r])

LEMMA RequestGoesOn ==
  ASSUME NEW q, RequestOK(q), JournalGrows
  PROVE  RequestOK(q)'
<1>1. q.st = "picked" => \E i \in DOMAIN journal' : journal'[i].id = q.pick
  BY DEF RequestOK, JournalGrows
<1> QED
  BY <1>1 DEF RequestOK

LEMMA EndKeepsRequests ==
  ASSUME TypeOK, OncePerAction, JournalGrows, NEW r \in Requests, pend[r] # Idle,
         NEW n \in {0, 1}, End(r, n), n = 1 => Unrecorded(pend[r].act)
  PROVE  RequestsInv'
<1>1. pend[r].act \in Actions
  BY DEF TypeOK, RequestType, Idle
<1>2. events' \in [Actions -> Nat] /\ OncePerAction'
  <2> DEFINE a == pend[r].act
             shared == \E q \in Requests \ {r} : pend[q] # Idle /\ pend[q].act = a
  <2>1. events' = [events EXCEPT ![a] = IF shared \/ @ + n > 1 THEN @ + n ELSE 0]
    BY DEF End
  <2>2. events \in [Actions -> Nat] /\ events[a] \in Nat /\ events[a] + n <= 1
    BY <1>1 DEF TypeOK, OncePerAction, Unrecorded
  <2>3. (IF shared \/ events[a] + n > 1 THEN events[a] + n ELSE 0) \in 0 .. 1
    BY <2>2
  <2> HIDE DEF shared
  <2>4. \A b \in Actions : events'[b] = events[b] \/ events'[b] \in 0 .. 1
    BY <1>1, <2>1, <2>2, <2>3
  <2>5. events' \in [Actions -> Nat]
    BY <1>1, <2>1, <2>2, <2>3
  <2> QED
    BY <2>2, <2>4, <2>5 DEF OncePerAction
<1>3. pend' \in [Requests -> RequestType] /\ \A q \in Requests : pend'[q] = pend[q] \/ pend'[q] = Idle
  BY DEF TypeOK, End, RequestType
<1>4. ASSUME NEW q \in Requests
      PROVE  RequestOK(pend[q])'
  <2> PICK x : x = pend'[q]
    OBVIOUS
  <2>1. RequestOK(x)
    <3>1. CASE x = pend[q]
      BY <3>1 DEF TypeOK
    <3>2. CASE x = Idle
      BY <3>2 DEF RequestOK, Idle
    <3> QED
      BY <1>3, <3>1, <3>2
  <2>2. RequestOK(x)'
    BY <2>1, RequestGoesOn
  <2> QED
    BY <2>2
<1> QED
  BY <1>2, <1>3, <1>4 DEF RequestsInv

\* What revisions are about: the invariant without the looks, what exists and
\* the count of the other writers.
Tables ==
  /\ rows \in [Objects -> Rows \union {Absent}] /\ Present(Scene)
  /\ \A o \in Objects : Present(o) => rows[o] \in RowsOf(o)
  /\ top \in [Objects -> -1 .. MaxRev]
Core == Tables /\ JournalInv /\ RequestsInv /\ RevisionsClimb /\ EntriesAgree /\ OneRemoval

LookType ==
  /\ look \in [Tokens -> Looks] /\ live \subseteq Images \union Definitions
  /\ other \in 0 .. MaxOther

LEMMA WholeInvariant == IInv <=> Core /\ LookType
BY DEF IInv, Core, Tables, JournalInv, RequestsInv, TypeOK, LookType

LEMMA Assembled ==
  ASSUME RowsStep, JournalInv', EntriesAgree', OneRemoval', RequestsInv'
  PROVE  Core'
BY DEF Core, Tables, RowsStep, JournalInv, RequestsInv, Present

LEMMA SameRows ==
  ASSUME TypeOK, RevisionsClimb, rows' = rows, top' = top
  PROVE  RowsStep
BY DEF TypeOK, RowsStep, RevisionsClimb, Present, Moves

LEMMA SameJournal ==
  ASSUME JournalInv, journal' = journal
  PROVE  JournalInv' /\ JournalGrows /\ NobodyTurns
<1>1. \A i \in DOMAIN journal' : EntryOK(journal[i])'
  BY DEF JournalInv, EntryOK
<1>2. JournalGrows /\ NobodyTurns
  BY DEF JournalInv, IdsAreUnique, JournalGrows, NobodyTurns, Range
<1> QED
  BY <1>1, <1>2 DEF JournalInv, IdsAreUnique, RedoBranchIsCurrent, Range

\* A step that only admits, advances or refuses requests.
LEMMA RequestsOnly ==
  ASSUME IInv, UNCHANGED <<rows, top, journal>>, RequestsInv'
  PROVE  Core' /\ RowsStep /\ JournalGrows /\ NobodyTurns
<1>1. JournalInv' /\ JournalGrows /\ NobodyTurns
  BY SameJournal DEF IInv, TypeOK, JournalInv
<1>2. RowsStep
  BY SameRows DEF IInv
<1>3. EntriesAgree' /\ OneRemoval'
  <2>1. \A e \in Entries, o \in Objects : Concerns(e, o) /\ Agrees(e, o) => Agrees(e, o)'
    BY DEF Agrees, Present
  <2>2. journal' = journal /\ \A i \in DOMAIN journal : journal[i] \in Entries
    BY DEF IInv, TypeOK
  <2>3. EntriesAgree'
    <3> SUFFICES ASSUME NEW i \in DOMAIN journal, NEW e \in Entries, e = journal[i], NEW o \in Objects,
                        Concerns(e, o)
                 PROVE  Agrees(e, o)'
      BY <2>2 DEF EntriesAgree
    <3>1. Agrees(e, o)
      BY DEF IInv, EntriesAgree
    <3> QED
      BY <2>1, <3>1
  <2>4. OneRemoval'
    BY <2>2 DEF IInv, OneRemoval
  <2> QED
    BY <2>3, <2>4
<1> QED
  BY <1>1, <1>2, <1>3, Assembled

LEMMA SnapshotTyped ==
  ASSUME NEW S, NEW D \in SUBSET Objects, NEW f \in [D -> S]
  PROVE  f \in Snapshots(S)
BY DEF Snapshots

LEMMA SetOfRequests ==
  ASSUME TypeOK, OncePerAction, NEW r \in Requests, NEW q \in RequestType, RequestOK(q),
         pend' = [pend EXCEPT ![r] = q], UNCHANGED <<journal, events>>
  PROVE  RequestsInv'
<1>1. pend' \in [Requests -> RequestType] /\ \A s \in Requests : pend'[s] = pend[s] \/ pend'[s] = q
  BY DEF TypeOK
<1>2. JournalGrows
  BY DEF JournalGrows
<1>3. ASSUME NEW s \in Requests
      PROVE  RequestOK(pend[s])'
  <2> PICK x : x = pend'[s]
    OBVIOUS
  <2>1. RequestOK(x)
    BY <1>1 DEF TypeOK
  <2>2. RequestOK(x)'
    BY <1>2, <2>1, RequestGoesOn
  <2> QED
    BY <2>2
<1> QED
  BY <1>1, <1>3 DEF RequestsInv, TypeOK, OncePerAction

\* What is kept of looks.
LEMMA SketchesTyped ==
  ASSUME look \in [Tokens -> Looks]
  PROVE  NoSketch \in Sketches /\ \A S : LooksOf(S) \in Sketches
<1>1. \A D \in SUBSET Tokens : [D -> Looks] \subseteq Sketches
  BY DEF Sketches
<1>2. NoSketch \in [{} -> Looks]
  BY DEF NoSketch
<1>3. \A S : LooksOf(S) \in [S \intersect Tokens -> Looks]
  BY DEF LooksOf
<1>4. {} \in SUBSET Tokens /\ \A S : S \intersect Tokens \in SUBSET Tokens
  OBVIOUS
<1> QED
  BY <1>1, <1>2, <1>3, <1>4

LEMMA SketchedTyped ==
  ASSUME NEW b \in Sketches, NEW a \in Sketches
  PROVE  /\ Sketched(b, a) \in [Dirs -> Sketches]
         /\ Sketched(b, a)["undo"] = b /\ Sketched(b, a)["redo"] = a
BY DEF Sketched, Dirs

LEMMA NothingSketched ==
  ASSUME look \in [Tokens -> Looks]
  PROVE  /\ Sketched(NoSketch, NoSketch) \in [Dirs -> Sketches]
         /\ \A dir \in Dirs : DOMAIN Sketched(NoSketch, NoSketch)[dir] = {}
BY SketchesTyped DEF Sketched, Dirs, NoSketch

LEMMA AdmitKeepsIInv ==
  ASSUME IInv, NEW r \in Requests, NEW m \in Members, NEW op \in Kinds, NEW targets \in SUBSET Objects,
         NEW v \in Values \union Grids \union {Absent}, targets # {},
         op # "CREATE" => \A o \in targets : Present(o),
         IF op = "SCENE" THEN targets = {Scene} /\ v \in Grids ELSE Scene \notin targets,
         op \in {"CREATE", "UPDATE"} => v \in Values, op = "BULK" => v \in Values \union {Absent},
         Admit(r, m, op, targets, v)
  PROVE  Core' /\ RowsStep /\ JournalGrows /\ NobodyTurns
<1>1. TypeOK /\ OncePerAction
  BY DEF IInv
<1> DEFINE seen == [o \in targets |-> rows[o]]
           looks == IF op = "BULK" THEN LooksOf(targets) ELSE NoSketch
<1>2. PICK a \in Actions :
        pend' = [pend EXCEPT ![r] =
                   [st |-> "admitted", act |-> a, actor |-> m, op |-> op, val |-> v,
                    seen |-> seen, looks |-> looks]]
  BY DEF Admit, UnusedActions
<1> DEFINE q == [st |-> "admitted", act |-> a, actor |-> m, op |-> op, val |-> v,
                 seen |-> seen, looks |-> looks]
<1>10. looks \in Sketches
  BY <1>1, SketchesTyped DEF TypeOK
<1>3. seen \in Snapshots(Rows \union {Absent}) /\ DOMAIN seen = targets
  BY <1>1, SnapshotTyped DEF TypeOK
<1>4. q \in RequestType
  <2> HIDE DEF looks, seen
  <2> QED
    BY <1>3, <1>10 DEF RequestType
<1>5. q.st = "admitted" /\ q.op = op /\ q.val = v /\ q.seen = seen
  OBVIOUS
<1>6. \A o \in targets : Present(o) => seen[o] \in RowsOf(o)
  BY <1>1 DEF TypeOK
<1>7. pend' = [pend EXCEPT ![r] = q] /\ UNCHANGED <<rows, top, journal, events>>
  BY <1>2 DEF Admit
<1> HIDE DEF seen, looks, q
<1>8. RequestOK(q)
  BY <1>3, <1>5, <1>6 DEF RequestOK
<1>9. RequestsInv'
  BY <1>1, <1>4, <1>7, <1>8, SetOfRequests
<1> QED
  BY <1>7, <1>9, RequestsOnly

(***************************************************************************)
(* The transactions of commands.                                           *)
(***************************************************************************)

LEMMA CommandKeepsIInv ==
  ASSUME IInv, NEW r \in Requests, pend[r] # Idle, NEW m, NEW K, Retires(K, m),
         NEW n \in Entries, n.id = Len(journal) + 1, n.actor = m, n.status = "APPLIED", n.mark = 0,
         Shaped(n), journal' = Append(K, n), RowsStep, Fits(n),
         \A o \in Objects \ Drawings : rows[o] = Absent /\ rows'[o] # Absent => top[o] = -1,
         Unrecorded(pend[r].act), End(r, 1)
  PROVE  Core' /\ RowsStep /\ JournalGrows /\ NobodyTurns
<1>1. JournalInv' /\ JournalGrows /\ NobodyTurns
  BY CommandKeepsJournal DEF IInv, TypeOK, JournalInv
<1>2. RequestsInv'
  BY <1>1, EndKeepsRequests DEF IInv
<1>3. /\ DOMAIN journal = 1 .. Len(journal) /\ Len(journal) \in Nat /\ K \in Seq(Entries)
      /\ Len(K) = Len(journal) /\ \A i \in DOMAIN journal : journal[i] \in Entries
  BY DEF IInv, TypeOK, Retires, Shrinks
<1>4. \A i \in DOMAIN journal : NotRevived(journal[i])
  <2> SUFFICES ASSUME NEW i \in DOMAIN journal, NEW e \in Entries, e = journal[i], NEW o \in Objects,
                      Concerns(e, o), Left(e, o) = Absent
               PROVE  rows'[o] = Absent
    BY <1>3 DEF NotRevived
  <2>1. ~ Present(o) /\ e.cur[o] = top[o] /\ o \in Objects \ Drawings /\ o \in DOMAIN e.cur
    BY DEF IInv, EntriesAgree, Agrees, Concerns
  <2>2. e.cur[o] # -1
    BY <2>1, CurTyped
  <2> QED
    BY <2>1, <2>2 DEF Present
<1>5. \A i \in DOMAIN journal' :
        \/ journal'[i] = n /\ Fits(n)
        \/ journal'[i].status = "INVALIDATED"
        \/ \E k \in DOMAIN journal : journal'[i] = journal[k] /\ NotRevived(journal[k])
  <2> SUFFICES ASSUME NEW i \in DOMAIN journal'
               PROVE  \/ journal'[i] = n /\ Fits(n)
                      \/ journal'[i].status = "INVALIDATED"
                      \/ \E k \in DOMAIN journal : journal'[i] = journal[k] /\ NotRevived(journal[k])
    OBVIOUS
  <2>1. CASE i = Len(journal) + 1
    BY <1>3, <2>1, AppendFacts
  <2>2. CASE i \in DOMAIN journal
    <3>1. journal'[i] = K[i]
      BY <1>3, <2>2, AppendFacts
    <3>2. K[i] = journal[i] \/ K[i] = Retire(journal[i])
      BY <2>2 DEF Retires, Shrinks
    <3> QED
      BY <1>3, <1>4, <2>2, <3>1, <3>2, RetireFacts
  <2>3. i \in DOMAIN journal \/ i = Len(journal) + 1
    BY <1>3, AppendFacts
  <2> QED
    BY <2>1, <2>2, <2>3
<1>6. EntriesAgree' /\ OneRemoval'
  BY <1>1, <1>5, EntriesStep DEF IInv
<1> QED
  BY <1>1, <1>2, <1>6, Assembled

\* What a request carries when its transaction starts.
LEMMA AdmittedTyped ==
  ASSUME TypeOK, NEW r \in Requests, NEW op \in Kinds, Running(r, op)
  PROVE  /\ pend[r] # Idle /\ pend[r].act \in Actions /\ pend[r].actor \in Members /\ pend[r].op = op
         /\ RequestOK(pend[r]) /\ pend[r].st = "admitted"
         /\ DOMAIN pend[r].seen \subseteq Objects /\ DOMAIN pend[r].seen # {}
         /\ \A o \in DOMAIN pend[r].seen : pend[r].seen[o] \in Rows \union {Absent}
         /\ pend[r].looks \in Sketches
<1>1. /\ pend[r] # Idle /\ pend[r].st = "admitted" /\ pend[r].op = op /\ pend[r] \in RequestType
      /\ RequestOK(pend[r])
  BY DEF Running, TypeOK
<1>2. pend[r] \in [st : {"admitted"}, act : Actions, actor : Members, op : Kinds,
            val : Values \union Grids \union {Absent}, seen : Snapshots(Rows \union {Absent}),
            looks : Sketches]
  BY <1>1 DEF RequestType
<1>3. pend[r].looks \in Sketches /\ pend[r].seen \in Snapshots(Rows \union {Absent}) /\ pend[r].act \in Actions /\ pend[r].actor \in Members
  BY <1>2
<1>4. PICK D \in SUBSET Objects : pend[r].seen \in [D -> Rows \union {Absent}]
  BY <1>3 DEF Snapshots
<1> QED
  BY <1>1, <1>3, <1>4 DEF RequestOK

\* nr has the objects of the entry n as it says, each at the revision after the
\* one it had, and every other object as it was.
AsJournaled(n, nr) ==
  /\ \A o \in Objects \ DOMAIN n.cur : nr[o] = rows[o]
  /\ \A o \in DOMAIN n.cur :
       IF n.after[o] = Absent THEN Present(o) /\ nr[o] = Absent /\ n.cur[o] = rows[o].rev
       ELSE /\ nr[o] = RowOf(n.after[o], n.cur[o])
            /\ o \in Drawings \/ n.cur[o] = IF Present(o) THEN rows[o].rev + 1 ELSE 0
            /\ o \in Drawings \/ Present(o) \/ top[o] = -1

LEMMA WrittenAsJournaled ==
  ASSUME IInv, NEW r \in Requests, pend[r] # Idle, NEW m, NEW K, Retires(K, m),
         NEW n \in Entries, n.id = Len(journal) + 1, n.actor = m, n.status = "APPLIED", n.mark = 0,
         Shaped(n), journal' = Append(K, n), Unrecorded(pend[r].act), End(r, 1),
         NEW nr \in [Objects -> Rows \union {Absent}], NEW nl, Write(nr, nl),
         AsJournaled(n, nr)
  PROVE  Core' /\ RowsStep /\ JournalGrows /\ NobodyTurns
<1>1. TypeOK /\ RevisionsClimb /\ rows' = nr
  BY DEF IInv, Write
<1> USE DEF AsJournaled
<1>2. \A o \in DOMAIN n.cur : o \in Objects /\ n.cur[o] \in 0 .. MaxRev
  BY CurTyped
<1>3. \A o \in DOMAIN n.cur :
        n.after[o] # Absent => /\ nr[o] \in RowsOf(o) /\ nr[o].rev = n.cur[o]
                               /\ nr[o] # Absent /\ Content(nr[o]) = n.after[o]
  <2> SUFFICES ASSUME NEW o \in DOMAIN n.cur, n.after[o] # Absent
               PROVE  /\ nr[o] \in RowsOf(o) /\ nr[o].rev = n.cur[o]
                      /\ nr[o] # Absent /\ Content(nr[o]) = n.after[o]
    OBVIOUS
  <2>1. n.after[o] \in ContentsOf(o)
    BY DEF Shaped
  <2> QED
    BY <1>2, <2>1, RowOfContent
<1>4. \A o \in Objects : nr[o] # Absent => nr[o] \in RowsOf(o)
  BY <1>1, <1>3 DEF TypeOK, Present
<1>5. nr[Scene] # Absent
  <2>1. CASE Scene \in DOMAIN n.cur
    <3>1. n.after[Scene] # Absent
      BY <2>1, Constants DEF Shaped
    <3> QED
      BY <1>3, <2>1, <3>1
  <2>2. CASE Scene \notin DOMAIN n.cur
    BY <1>1, <2>2, Constants DEF TypeOK, Present
  <2> QED
    BY <2>1, <2>2
<1>6. \A o \in Objects \ Drawings :
        \/ nr[o] = rows[o]
        \/ Present(o) /\ nr[o] = Absent
        \/ nr[o] # Absent /\ nr[o].rev = top[o] + 1
  <2> SUFFICES ASSUME NEW o \in (DOMAIN n.cur) \ Drawings, n.after[o] # Absent
               PROVE  nr[o] # Absent /\ nr[o].rev = top[o] + 1
    OBVIOUS
  <2>1. CASE Present(o)
    BY <1>1, <1>2, <1>3, <2>1 DEF RevisionsClimb
  <2>2. CASE ~ Present(o)
    BY <1>3, <2>2
  <2> QED
    BY <2>1, <2>2
<1>7. RowsStep
  BY <1>1, <1>4, <1>5, <1>6, WriteIsRowsStep
<1>8. Fits(n)
  <2>1. \A o \in (DOMAIN n.cur) \ Drawings : Left(n, o) = n.after[o] /\ (Present(o) => rows[o].rev = top[o])
    BY <1>1, <1>2 DEF Left, RevisionsClimb
  <2> QED
    BY <1>1, <1>3, <2>1 DEF Fits
<1>9. \A o \in Objects \ Drawings : rows[o] = Absent /\ rows'[o] # Absent => top[o] = -1
  BY <1>1 DEF Present
<1> QED
  BY <1>7, <1>8, <1>9, CommandKeepsIInv

CommitsOne(r, nr, nl, o, b, w, v, looks) ==
  Commit(r, nr, nl, [x \in {o} |-> b], [x \in {o} |-> w], [x \in {o} |-> v], looks)

WithRow(o, w, v) == [rows EXCEPT ![o] = IF w = Absent THEN Absent ELSE RowOf(w, v)]

\* One object: it was b and becomes w, at revision v.
LEMMA OneObjectKeepsIInv ==
  ASSUME IInv, NEW r \in Requests, pend[r] # Idle, NEW kind \in Single,
         pend[r].actor \in Members, pend[r].op = kind, NEW o \in Objects \ {Scene},
         NEW b, NEW w, NEW v \in 0 .. MaxRev,
         IF kind = "CREATE" THEN b = Absent ELSE b \in ContentsOf(o),
         IF kind = "DELETE" THEN w = Absent ELSE w \in ContentsOf(o),
         NEW nr, nr = WithRow(o, w, v),
         CASE kind = "CREATE" -> v = 0 /\ top[o] = -1
           [] kind = "UPDATE" -> Present(o) /\ v = rows[o].rev + 1
           [] kind = "DELETE" -> Present(o) /\ v = rows[o].rev,
         NEW looks \in [Dirs -> Sketches],
         kind = "UPDATE" => \A dir \in Dirs : DOMAIN looks[dir] = {},
         NEW nl, CommitsOne(r, nr, nl, o, b, w, v, looks)
  PROVE  Core' /\ RowsStep /\ JournalGrows /\ NobodyTurns
<1>1. rows \in [Objects -> Rows \union {Absent}] /\ journal \in Seq(Entries) /\ kind \in Kinds
  BY DEF IInv, TypeOK, Kinds
<1> USE DEF Single
<1> DEFINE m == pend[r].actor
           D == {o}
           before == [x \in D |-> b]
           after == [x \in D |-> w]
           cur == [x \in D |-> v]
<1>2. Write(nr, nl) /\ Unrecorded(pend[r].act) /\ End(r, 1)
      /\ journal' = Append(InvalidateRedoBranch(m), NewEntry(m, kind, before, after, cur, looks))
  BY DEF CommitsOne, Commit
<1>3. PICK n : n = NewEntry(m, kind, before, after, cur, looks)
  OBVIOUS
<1>4. /\ before \in [D -> Contents \union {Absent}] /\ after \in [D -> Contents \union {Absent}]
      /\ cur \in [D -> 0 .. MaxRev] /\ D \in SUBSET Objects /\ m \in Members
  BY Constants
<1>5. /\ DOMAIN cur = {o} /\ DOMAIN before = {o} /\ DOMAIN after = {o}
      /\ before[o] = b /\ after[o] = w /\ cur[o] = v
  OBVIOUS
<1> HIDE DEF before, after, cur, D, m
<1>6. /\ n \in Entries /\ n.id = Len(journal) + 1 /\ n.actor = m /\ n.status = "APPLIED"
      /\ n.kind = kind /\ n.mark = 0 /\ n.before = before /\ n.after = after /\ n.cur = cur
      /\ n.looks = looks
  <2>1. before \in Snapshots(Contents \union {Absent}) /\ after \in Snapshots(Contents \union {Absent})
        /\ cur \in Snapshots(0 .. MaxRev)
    BY <1>4, SnapshotTyped
  <2>2. Len(journal) + 1 \in Nat
    BY <1>1
  <2> QED
    BY <1>1, <1>3, <1>4, <2>1, <2>2 DEF NewEntry, Entries, Statuses
<1>7. Shaped(n)
  BY <1>5, <1>6 DEF Shaped
<1>8. /\ nr \in [Objects -> Rows \union {Absent}]
      /\ \A x \in Objects \ {o} : nr[x] = rows[x]
      /\ nr[o] = IF w = Absent THEN Absent ELSE RowOf(w, v)
  <2>1. (IF w = Absent THEN Absent ELSE RowOf(w, v)) \in Rows \union {Absent}
    BY RowOfContent, Constants
  <2> QED
    BY <1>1, <2>1 DEF WithRow
<1>9. w = Absent <=> kind = "DELETE"
  BY Constants
<1>10. IF w = Absent THEN Present(o) /\ nr[o] = Absent /\ v = rows[o].rev
       ELSE /\ nr[o] = RowOf(w, v)
            /\ o \in Drawings \/ v = IF Present(o) THEN rows[o].rev + 1 ELSE 0
            /\ o \in Drawings \/ Present(o) \/ top[o] = -1
  <2>1. kind = "CREATE" => o \in Drawings \/ ~ Present(o)
    <3>1. o \notin Drawings /\ Present(o) => rows[o].rev = top[o] /\ rows[o].rev \in 0 .. MaxRev
      BY ContentOfRow DEF IInv, TypeOK, RevisionsClimb
    <3> QED
      BY <3>1
  <2> QED
    BY <1>8, <1>9, <2>1
<1>11. Retires(InvalidateRedoBranch(m), m) /\ journal' = Append(InvalidateRedoBranch(m), n)
  BY <1>1, <1>2, <1>3, RedoBranchIsRetired
<1> QED
  <2>1. AsJournaled(n, nr)
    BY <1>5, <1>6, <1>8, <1>10 DEF AsJournaled
  <2>2. Write(nr, nl) /\ Unrecorded(pend[r].act) /\ End(r, 1) /\ nr \in [Objects -> Rows \union {Absent}]
        /\ Retires(InvalidateRedoBranch(m), m) /\ journal' = Append(InvalidateRedoBranch(m), n)
    BY <1>2, <1>8, <1>11
  <2> QED
    BY <1>6, <1>7, <2>1, <2>2, WrittenAsJournaled

LEMMA CreateKeepsIInv ==
  ASSUME IInv, NEW r \in Requests, CreateTx(r)
  PROVE  Core' /\ RowsStep /\ JournalGrows /\ NobodyTurns
<1> DEFINE o == CHOOSE x \in DOMAIN pend[r].seen : TRUE
           w == [val |-> pend[r].val, sys |-> IF o \in Tokens THEN Grid ELSE NoGrid]
<1>1. TypeOK /\ Running(r, "CREATE") /\ "CREATE" \in Kinds
  BY DEF IInv, CreateTx, Kinds, Single
<1>2. PICK l \in Looks :
        /\ top[o] = -1
        /\ Commit(r, [rows EXCEPT ![o] = RowOf(w, 0)], [t \in Tokens |-> IF t = o THEN l ELSE look[t]],
                  [x \in {o} |-> Absent], [x \in {o} |-> w], [x \in {o} |-> 0],
                  Sketched(NoSketch, [t \in {o} \intersect Tokens |-> l]))
  BY DEF CreateTx
<1>7. PICK nl, looks :
        /\ nl = [t \in Tokens |-> IF t = o THEN l ELSE look[t]]
        /\ looks = Sketched(NoSketch, [t \in {o} \intersect Tokens |-> l])
  OBVIOUS
<1>8. looks \in [Dirs -> Sketches]
  <2>1. [t \in {o} \intersect Tokens |-> l] \in Sketches
    <3>1. [t \in {o} \intersect Tokens |-> l] \in [{o} \intersect Tokens -> Looks]
          /\ {o} \intersect Tokens \in SUBSET Tokens
      OBVIOUS
    <3> HIDE DEF o
    <3> QED
      BY <3>1 DEF Sketches
  <2> QED
    BY <1>1, <1>7, <2>1, SketchesTyped, SketchedTyped DEF TypeOK
<1>3. pend[r] # Idle /\ pend[r].actor \in Members /\ pend[r].op = "CREATE"
      /\ o \in Objects \ {Scene} /\ pend[r].val \in Values
  <2>1. o \in DOMAIN pend[r].seen
    BY <1>1, AdmittedTyped
  <2> HIDE DEF o
  <2> QED
    BY <1>1, <2>1, AdmittedTyped DEF RequestOK
<1>4. w \in ContentsOf(o) /\ w # Absent
  <2>1. Grid \in Grids
    BY <1>1, Constants DEF TypeOK, Grid, RowsOf, Vals
  <2>2. w \in ContentsOf(o)
    BY <1>3, <2>1 DEF ContentsOf, Vals, Systems
  <2> QED
    BY <1>3, <2>2, Constants
<1> HIDE DEF o, w
<1>5. PICK nr : nr = WithRow(o, w, 0)
  OBVIOUS
<1>6. CommitsOne(r, nr, nl, o, Absent, w, 0, looks) /\ 0 \in 0 .. MaxRev
  BY <1>2, <1>4, <1>5, <1>7, Constants DEF CommitsOne, WithRow
<1> QED
  BY <1>2, <1>3, <1>4, <1>5, <1>6, <1>8, OneObjectKeepsIInv DEF Single

LEMMA GridTyped ==
  ASSUME TypeOK
  PROVE  Grid \in Grids
BY Constants DEF TypeOK, Grid, RowsOf, Vals

LEMMA UpdateKeepsIInv ==
  ASSUME IInv, NEW r \in Requests, UpdateTx(r)
  PROVE  Core' /\ RowsStep /\ JournalGrows /\ NobodyTurns
<1> DEFINE seen == pend[r].seen
           o == CHOOSE x \in DOMAIN seen : TRUE
           b == Content(seen[o])
           w == [val |-> pend[r].val, sys |-> IF o \in Tokens THEN Grid ELSE NoGrid]
           v == seen[o].rev + 1
<1>1. TypeOK /\ Running(r, "UPDATE") /\ "UPDATE" \in Kinds
  BY DEF IInv, UpdateTx, Kinds, Single
<1>2. /\ StillAt(seen, o) /\ Room({o})
      /\ Commit(r, [rows EXCEPT ![o] = RowOf(w, v)], look,
                [x \in {o} |-> b], [x \in {o} |-> w], [x \in {o} |-> v], Sketched(NoSketch, NoSketch))
  BY DEF UpdateTx
<1>3. pend[r] # Idle /\ pend[r].actor \in Members /\ pend[r].op = "UPDATE"
      /\ o \in Objects \ {Scene} /\ pend[r].val \in Values /\ seen[o] \in RowsOf(o)
  <2>1. o \in DOMAIN seen
    BY <1>1, AdmittedTyped
  <2> HIDE DEF o
  <2> QED
    BY <1>1, <2>1, AdmittedTyped DEF RequestOK
<1> HIDE DEF seen, o
<1>4. w \in ContentsOf(o) /\ w # Absent
  <2>1. w \in ContentsOf(o)
    BY <1>1, <1>3, GridTyped DEF ContentsOf, Vals, Systems
  <2> QED
    BY <1>3, <2>1, Constants
<1>5. b \in ContentsOf(o)
  BY <1>3, ContentOfRow
<1>6. Present(o) /\ v = rows[o].rev + 1 /\ v \in 0 .. MaxRev
  <2>1. Present(o) /\ seen[o].rev = rows[o].rev /\ rows[o].rev < MaxRev
    BY <1>2 DEF StillAt, Room
  <2>2. seen[o].rev \in 0 .. MaxRev /\ MaxRev \in Nat
    BY <1>3, ContentOfRow, Constants
  <2> QED
    BY <2>1, <2>2
<1> HIDE DEF w, v, b
<1>7. PICK nr : nr = WithRow(o, w, v)
  OBVIOUS
<1>8. PICK looks : looks = Sketched(NoSketch, NoSketch)
  OBVIOUS
<1>9. looks \in [Dirs -> Sketches] /\ \A dir \in Dirs : DOMAIN looks[dir] = {}
  BY <1>1, <1>8, NothingSketched DEF TypeOK
<1>10. CommitsOne(r, nr, look, o, b, w, v, looks)
  BY <1>2, <1>4, <1>7, <1>8 DEF CommitsOne, WithRow
<1> QED
  BY <1>3, <1>4, <1>5, <1>6, <1>7, <1>9, <1>10, OneObjectKeepsIInv DEF Single

LEMMA DeleteKeepsIInv ==
  ASSUME IInv, NEW r \in Requests, DeleteTx(r)
  PROVE  Core' /\ RowsStep /\ JournalGrows /\ NobodyTurns
<1> DEFINE seen == pend[r].seen
           o == CHOOSE x \in DOMAIN seen : TRUE
           b == Content(seen[o])
           v == seen[o].rev
<1>1. TypeOK /\ Running(r, "DELETE") /\ "DELETE" \in Kinds
  BY DEF IInv, DeleteTx, Kinds, Single
<1>2. /\ StillAt(seen, o)
      /\ Commit(r, [rows EXCEPT ![o] = Absent], look,
                [x \in {o} |-> b], [x \in {o} |-> Absent], [x \in {o} |-> v],
                Sketched(LooksOf({o}), NoSketch))
  BY DEF DeleteTx
<1>3. pend[r] # Idle /\ pend[r].actor \in Members /\ pend[r].op = "DELETE"
      /\ o \in Objects \ {Scene} /\ seen[o] \in RowsOf(o)
  <2>1. o \in DOMAIN seen
    BY <1>1, AdmittedTyped
  <2> HIDE DEF o
  <2> QED
    BY <1>1, <2>1, AdmittedTyped DEF RequestOK
<1> HIDE DEF seen, o
<1>4. b \in ContentsOf(o)
  BY <1>3, ContentOfRow
<1>5. Present(o) /\ v = rows[o].rev /\ v \in 0 .. MaxRev
  BY <1>2, <1>3, ContentOfRow DEF StillAt
<1> HIDE DEF v, b
<1>6. PICK nr : nr = WithRow(o, Absent, v)
  OBVIOUS
<1>7. PICK looks : looks = Sketched(LooksOf({o}), NoSketch)
  OBVIOUS
<1>8. looks \in [Dirs -> Sketches]
  BY <1>1, <1>7, SketchesTyped, SketchedTyped DEF TypeOK
<1>9. CommitsOne(r, nr, look, o, b, Absent, v, looks)
  BY <1>2, <1>6, <1>7 DEF CommitsOne, WithRow
<1> QED
  BY <1>3, <1>4, <1>5, <1>6, <1>8, <1>9, OneObjectKeepsIInv DEF Single

\* A lost race: no row, no entry, only the redo branch.
LEMMA LoseRowKeepsIInv ==
  ASSUME IInv, NEW r \in Requests, LoseRow(r)
  PROVE  Core' /\ RowsStep /\ JournalGrows /\ NobodyTurns
<1>1. /\ TypeOK /\ RevisionsClimb /\ rows' = rows /\ top' = top /\ pend[r] # Idle
      /\ journal' = InvalidateRedoBranch(pend[r].actor) /\ End(r, 0) /\ journal \in Seq(Entries)
  BY DEF IInv, TypeOK, LoseRow
<1>2. Retires(journal', pend[r].actor)
  BY <1>1, RedoBranchIsRetired
<1>3. JournalInv' /\ JournalGrows /\ NobodyTurns
  BY <1>2, RetiredKeepsJournal DEF IInv, TypeOK, JournalInv, Retires
<1>4. RequestsInv'
  BY <1>1, <1>3, EndKeepsRequests DEF IInv
<1>5. RowsStep
  BY <1>1, SameRows
<1>6. \A i \in DOMAIN journal : NotRevived(journal[i])
  BY <1>1 DEF NotRevived, IInv, EntriesAgree, Agrees, Present
<1>7. \A i \in DOMAIN journal' :
        \/ journal'[i].status = "INVALIDATED"
        \/ \E k \in DOMAIN journal : journal'[i] = journal[k] /\ NotRevived(journal[k])
  <2> SUFFICES ASSUME NEW i \in DOMAIN journal'
               PROVE  \/ journal'[i].status = "INVALIDATED"
                      \/ \E k \in DOMAIN journal : journal'[i] = journal[k] /\ NotRevived(journal[k])
    OBVIOUS
  <2>1. i \in DOMAIN journal /\ journal[i] \in Entries
    BY <1>1, <1>2 DEF Retires, Shrinks
  <2>2. journal'[i] = journal[i] \/ journal'[i] = Retire(journal[i])
    BY <1>2, <2>1 DEF Retires, Shrinks
  <2> QED
    BY <1>6, <2>1, <2>2, RetireFacts
<1>8. EntriesAgree' /\ OneRemoval'
  BY <1>3, <1>5, <1>7, EntriesStep DEF IInv
<1> QED
  BY <1>3, <1>4, <1>5, <1>8, Assembled

(***************************************************************************)
(* The other writers: what stands may go or get the next revision, entries *)
(* may be retired.                                                         *)
(***************************************************************************)

LEMMA SameRequests ==
  ASSUME TypeOK, OncePerAction, JournalGrows, UNCHANGED <<events, pend>>
  PROVE  RequestsInv'
<1>1. ASSUME NEW r \in Requests
      PROVE  RequestOK(pend[r])'
  <2> PICK x : x = pend[r]
    OBVIOUS
  <2>1. RequestOK(x)'
    BY RequestGoesOn DEF TypeOK
  <2> QED
    BY <2>1
<1> QED
  BY <1>1 DEF RequestsInv, TypeOK, OncePerAction

LEMMA OtherWriteKeepsIInv ==
  ASSUME IInv, NEW nr \in [Objects -> Rows \union {Absent}], NEW nl, Write(nr, nl), nr[Scene] # Absent,
         \A o \in Objects : nr[o] # Absent => Present(o) /\ nr[o] \in RowsOf(o),
         \A o \in Objects \ Drawings : nr[o] # Absent => nr[o] = rows[o] \/ nr[o].rev = rows[o].rev + 1,
         Shrinks(journal'), UNCHANGED <<events, pend>>
  PROVE  Core' /\ RowsStep /\ JournalGrows /\ NobodyTurns
<1>1. TypeOK /\ OncePerAction /\ RevisionsClimb /\ rows' = nr
  BY DEF IInv, Write
<1>2. RowsStep
  <2>1. \A o \in Objects \ Drawings : \/ nr[o] = rows[o]
                                      \/ Present(o) /\ nr[o] = Absent
                                      \/ nr[o] # Absent /\ nr[o].rev = top[o] + 1
    BY <1>1 DEF RevisionsClimb, Present
  <2> QED
    BY <1>1, <2>1, WriteIsRowsStep
<1>3. JournalInv' /\ JournalGrows /\ NobodyTurns
  BY RetiredKeepsJournal DEF IInv, TypeOK, JournalInv
<1>4. RequestsInv'
  BY <1>1, <1>3, SameRequests
<1>5. \A i \in DOMAIN journal : NotRevived(journal[i])
  BY <1>1 DEF NotRevived, IInv, EntriesAgree, Agrees
<1>6. \A i \in DOMAIN journal' :
        \/ journal'[i].status = "INVALIDATED"
        \/ \E k \in DOMAIN journal : journal'[i] = journal[k] /\ NotRevived(journal[k])
  <2> SUFFICES ASSUME NEW i \in DOMAIN journal'
               PROVE  \/ journal'[i].status = "INVALIDATED"
                      \/ \E k \in DOMAIN journal : journal'[i] = journal[k] /\ NotRevived(journal[k])
    OBVIOUS
  <2>1. i \in DOMAIN journal /\ journal[i] \in Entries
    BY <1>1 DEF Shrinks, TypeOK
  <2>2. journal'[i] = journal[i] \/ journal'[i] = Retire(journal[i])
    BY <2>1 DEF Shrinks
  <2> QED
    BY <1>5, <2>1, <2>2, RetireFacts
<1>7. EntriesAgree' /\ OneRemoval'
  BY <1>2, <1>3, <1>6, EntriesStep DEF IInv
<1> QED
  BY <1>2, <1>3, <1>4, <1>7, Assembled

\* An asset goes: its tokens get a new revision, its stamps are removed.
LEMMA DeleteAssetKeepsIInv ==
  ASSUME IInv, NEW i \in Images, DeleteAsset(i)
  PROVE  Core' /\ RowsStep /\ JournalGrows /\ NobodyTurns
<1> DEFINE shows(t) == Present(t) /\ look[t].image = i
           nl == [t \in Tokens |-> IF shows(t) THEN [look[t] EXCEPT !.image = Nothing] ELSE look[t]]
<1>1. PICK nr : nr = [o \in Objects |->
                        IF o \in Tokens /\ shows(o) THEN [rows[o] EXCEPT !.rev = @ + 1]
                        ELSE IF o \in Drawings /\ Picture[o] = i THEN Absent
                        ELSE rows[o]]
  OBVIOUS
<1>2. /\ Write(nr, nl) /\ UNCHANGED <<journal, events, pend>>
      /\ \A t \in Tokens : shows(t) => rows[t].rev < MaxRev
  BY <1>1 DEF DeleteAsset
<1>3. /\ rows \in [Objects -> Rows \union {Absent}] /\ journal \in Seq(Entries) /\ Present(Scene)
      /\ \A o \in Objects : Present(o) => rows[o] \in RowsOf(o)
  BY DEF IInv, TypeOK
<1> HIDE DEF nl
<1>4. ASSUME NEW o \in Objects, nr[o] # Absent
      PROVE  /\ Present(o) /\ nr[o] \in RowsOf(o)
             /\ nr[o] = rows[o] \/ nr[o].rev = rows[o].rev + 1
  <2>1. CASE o \in Tokens /\ shows(o)
    <3>1. nr[o] = [rows[o] EXCEPT !.rev = rows[o].rev + 1] /\ rows[o] \in RowsOf(o) /\ Present(o)
      BY <1>1, <1>3, <2>1
    <3>2. rows[o].rev + 1 \in 0 .. MaxRev
      BY <1>2, <2>1, <3>1, ContentOfRow, Constants
    <3> QED
      BY <3>1, <3>2 DEF RowsOf
  <2>2. CASE ~ (o \in Tokens /\ shows(o))
    <3>1. nr[o] = rows[o]
      BY <1>1, <1>4, <2>2
    <3> QED
      BY <1>3, <1>4, <3>1 DEF Present
  <2> QED
    BY <2>1, <2>2
<1>5. nr \in [Objects -> Rows \union {Absent}]
  <2>1. \A o \in Objects : nr[o] \in Rows \union {Absent}
    BY <1>4, Constants
  <2> QED
    BY <1>1, <2>1
<1>6. nr[Scene] # Absent
  BY <1>1, <1>3, HistoryAssumption DEF Objects, Present
<1>7. Shrinks(journal')
  BY <1>2, <1>3 DEF Shrinks
<1> QED
  BY <1>2, <1>4, <1>5, <1>6, <1>7, OtherWriteKeepsIInv

\* A definition goes with its tokens and the entries that only concern them.
LEMMA DeleteDefinitionKeepsIInv ==
  ASSUME IInv, NEW d \in Definitions, DeleteDefinition(d)
  PROVE  Core' /\ RowsStep /\ JournalGrows /\ NobodyTurns
<1> DEFINE mine == {t \in Tokens : DefinitionOf[t] = d}
<1>1. PICK nr : nr = [o \in Objects |-> IF o \in mine THEN Absent ELSE rows[o]]
  OBVIOUS
<1>2. PICK S : /\ \A k \in DOMAIN journal : k \in S => journal[k].status # "INVALIDATED"
               /\ journal' = [k \in DOMAIN journal |-> IF k \in S THEN Retire(journal[k]) ELSE journal[k]]
               /\ Write(nr, look) /\ UNCHANGED <<events, pend>>
  <2> DEFINE affected == {t \in mine :
                            \/ Present(t)
                            \/ \E e \in Range(journal) :
                                 e.kind \in {"CREATE", "DELETE"} /\ t \in DOMAIN e.cur}
             retired(e) == /\ e.status # "INVALIDATED" /\ e.kind \in Single
                           /\ DOMAIN e.cur \subseteq affected
             S == {k \in DOMAIN journal : retired(journal[k])}
  <2>1. /\ journal' = [k \in DOMAIN journal |-> IF retired(journal[k]) THEN Retire(journal[k]) ELSE journal[k]]
        /\ Write(nr, look) /\ UNCHANGED <<events, pend>>
    BY <1>1 DEF DeleteDefinition
  <2>2. \A k \in DOMAIN journal : k \in S <=> retired(journal[k])
    OBVIOUS
  <2>3. \A k \in S : journal[k].status # "INVALIDATED"
    OBVIOUS
  <2> HIDE DEF retired, S
  <2>4. journal' = [k \in DOMAIN journal |-> IF k \in S THEN Retire(journal[k]) ELSE journal[k]]
    BY <2>1, <2>2
  <2> QED
    BY <2>1, <2>3, <2>4
<1>3. /\ rows \in [Objects -> Rows \union {Absent}] /\ journal \in Seq(Entries) /\ Present(Scene)
      /\ \A o \in Objects : Present(o) => rows[o] \in RowsOf(o)
  BY DEF IInv, TypeOK
<1>4. \A o \in Objects : nr[o] # Absent => nr[o] = rows[o] /\ Present(o) /\ nr[o] \in RowsOf(o)
  BY <1>1, <1>3 DEF Present
<1>5. nr \in [Objects -> Rows \union {Absent}] /\ nr[Scene] # Absent
  BY <1>1, <1>3, HistoryAssumption DEF Objects, Present
<1>6. Shrinks(journal')
  <2>1. /\ DOMAIN journal = 1 .. Len(journal) /\ Len(journal) \in Nat
        /\ \A k \in DOMAIN journal : journal[k] \in Entries /\ Retire(journal[k]) \in Entries
    BY <1>3, RetireFacts
  <2>2. \A k \in DOMAIN journal : journal'[k] = IF k \in S THEN Retire(journal[k]) ELSE journal[k]
    BY <1>2
  <2>3. journal' \in Seq(Entries) /\ Len(journal') = Len(journal)
    <3>1. journal' = [k \in 1 .. Len(journal) |-> journal'[k]]
      BY <1>2, <2>1
    <3>2. \A k \in 1 .. Len(journal) : journal'[k] \in Entries
      BY <2>1, <2>2
    <3> QED
      BY <2>1, <3>1, <3>2
  <2> QED
    BY <1>2, <2>2, <2>3 DEF Shrinks
<1> QED
  BY <1>2, <1>4, <1>5, <1>6, OtherWriteKeepsIInv

\* A new default image and an archived character touch no revision at all.
LEMMA LookOnlyKeepsIInv ==
  ASSUME IInv, UNCHANGED <<rows, top, journal, events, pend>>
  PROVE  Core' /\ RowsStep /\ JournalGrows /\ NobodyTurns
<1>1. JournalGrows
  BY SameJournal DEF IInv, TypeOK, JournalInv
<1>2. RequestsInv'
  BY <1>1, SameRequests DEF IInv
<1> QED
  BY <1>2, RequestsOnly

LEMMA RefuseKeepsIInv ==
  ASSUME IInv, NEW r \in Requests, Refuse(r)
  PROVE  Core' /\ RowsStep /\ JournalGrows /\ NobodyTurns
<1>1. JournalGrows
  BY DEF Refuse, JournalGrows
<1>2. RequestsInv'
  BY <1>1, EndKeepsRequests DEF IInv, Refuse
<1> QED
  BY <1>2, RequestsOnly DEF Refuse

LEMMA BulkKeepsIInv ==
  ASSUME IInv, NEW r \in Requests, BulkTx(r)
  PROVE  Core' /\ RowsStep /\ JournalGrows /\ NobodyTurns
<1> DEFINE seen == pend[r].seen
           D == DOMAIN seen
           m == pend[r].actor
           gone == pend[r].val = Absent
           new(o) == IF gone THEN Absent ELSE [Content(seen[o]) EXCEPT !.val = pend[r].val]
           rev(o) == IF gone THEN seen[o].rev ELSE seen[o].rev + 1
           before == [o \in D |-> Content(seen[o])]
           after == [o \in D |-> new(o)]
           cur == [o \in D |-> rev(o)]
<1>1. TypeOK /\ Running(r, "BULK") /\ "BULK" \in Kinds /\ rows \in [Objects -> Rows \union {Absent}]
      /\ journal \in Seq(Entries)
  BY DEF IInv, TypeOK, BulkTx, Kinds
<1>2. PICK nr : nr = [o \in Objects |-> IF o \notin D THEN rows[o]
                                        ELSE IF gone THEN Absent ELSE RowOf(new(o), rev(o))]
  OBVIOUS
<1>16. PICK looks : looks = Sketched(pend[r].looks, IF gone THEN NoSketch ELSE LooksOf(DOMAIN seen))
  OBVIOUS
<1>3. PICK n : n = NewEntry(m, "BULK", before, after, cur, looks)
  OBVIOUS
<1>17. looks \in [Dirs -> Sketches]
  <2>1. pend[r].looks \in Sketches
    BY <1>1, AdmittedTyped
  <2> HIDE DEF gone, seen
  <2> QED
    BY <1>1, <1>16, <2>1, SketchesTyped, SketchedTyped DEF TypeOK
<1>4. pend[r] # Idle /\ m \in Members /\ pend[r].op = "BULK" /\ D \in SUBSET (Objects \ {Scene})
      /\ pend[r].val \in Values \union {Absent} /\ \A o \in D : seen[o] \in RowsOf(o)
  BY <1>1, AdmittedTyped DEF RequestOK
<1>5. /\ \A o \in D : StillAt(seen, o)
      /\ gone \/ Room(D)
      /\ Commit(r, nr, look, before, after, cur, looks)
  BY <1>2, <1>16 DEF BulkTx
<1>6. Write(nr, look) /\ Unrecorded(pend[r].act) /\ End(r, 1) /\ journal' = Append(InvalidateRedoBranch(m), n)
  BY <1>3, <1>4, <1>5 DEF Commit
<1>7. \A o \in D : /\ Present(o) /\ rows[o].rev = seen[o].rev /\ seen[o].rev \in 0 .. MaxRev
                   /\ Content(seen[o]) \in ContentsOf(o) /\ rev(o) \in 0 .. MaxRev
                   /\ gone => new(o) = Absent /\ rev(o) = rows[o].rev
                   /\ ~ gone => new(o) \in ContentsOf(o) /\ new(o) # Absent /\ rev(o) = rows[o].rev + 1
  <2> SUFFICES ASSUME NEW o \in D
               PROVE  /\ Present(o) /\ rows[o].rev = seen[o].rev /\ seen[o].rev \in 0 .. MaxRev
                      /\ Content(seen[o]) \in ContentsOf(o) /\ rev(o) \in 0 .. MaxRev
                      /\ gone => new(o) = Absent /\ rev(o) = rows[o].rev
                      /\ ~ gone => new(o) \in ContentsOf(o) /\ new(o) # Absent /\ rev(o) = rows[o].rev + 1
    OBVIOUS
  <2>1. Present(o) /\ rows[o].rev = seen[o].rev /\ seen[o] \in RowsOf(o) /\ o \in Objects \ {Scene}
    BY <1>4, <1>5 DEF StillAt
  <2>2. seen[o].rev \in 0 .. MaxRev /\ Content(seen[o]) \in ContentsOf(o) /\ MaxRev \in Nat
    BY <2>1, ContentOfRow, Constants
  <2>3. CASE gone
    BY <2>1, <2>2, <2>3
  <2>4. CASE ~ gone
    <3>1. pend[r].val \in Values
      BY <1>4, <2>4
    <3>2. new(o) \in ContentsOf(o)
      BY <2>1, <2>2, <2>4, <3>1 DEF ContentsOf, Vals
    <3>3. rows[o].rev < MaxRev
      BY <1>5, <2>1, <2>4 DEF Room
    <3> QED
      BY <2>1, <2>2, <2>4, <3>2, <3>3, Constants
  <2> QED
    BY <2>3, <2>4
<1>8. \A o \in D : (new(o) = Absent <=> gone) /\ new(o) \in Contents \union {Absent}
  BY <1>4, <1>7, Constants
<1>9. /\ before \in Snapshots(Contents \union {Absent}) /\ after \in Snapshots(Contents \union {Absent})
      /\ cur \in Snapshots(0 .. MaxRev)
  <2>1. before \in [D -> Contents \union {Absent}] /\ after \in [D -> Contents \union {Absent}]
        /\ cur \in [D -> 0 .. MaxRev]
    BY <1>4, <1>7, <1>8, Constants
  <2>2. D \in SUBSET Objects
    BY <1>4
  <2> HIDE DEF before, after, cur, D
  <2> QED
    BY <2>1, <2>2, SnapshotTyped
<1>10. /\ DOMAIN before = D /\ DOMAIN after = D /\ DOMAIN cur = D
       /\ \A o \in D : before[o] = Content(seen[o]) /\ after[o] = new(o) /\ cur[o] = rev(o)
  OBVIOUS
<1>11. /\ \A o \in Objects \ D : nr[o] = rows[o]
       /\ \A o \in D : nr[o] = IF gone THEN Absent ELSE RowOf(new(o), rev(o))
       /\ nr \in [Objects -> Rows \union {Absent}]
  <2>1. \A o \in D : (IF gone THEN Absent ELSE RowOf(new(o), rev(o))) \in Rows \union {Absent}
    <3> HIDE DEF new, rev, gone, D
    <3>1. \A o \in D : ~ gone => RowOf(new(o), rev(o)) \in RowsOf(o)
      BY <1>4, <1>7, RowOfContent
    <3> QED
      BY <1>4, <3>1, Constants
  <2> QED
    BY <1>1, <1>2, <1>4, <2>1
<1> HIDE DEF before, after, cur, new, rev, gone, D, seen, m
<1>12. /\ n \in Entries /\ n.id = Len(journal) + 1 /\ n.actor = m /\ n.status = "APPLIED"
       /\ n.kind = "BULK" /\ n.mark = 0 /\ n.before = before /\ n.after = after /\ n.cur = cur
  <2>1. Len(journal) + 1 \in Nat
    BY <1>1
  <2> QED
    BY <1>1, <1>3, <1>4, <1>9, <1>17, <2>1 DEF NewEntry, Entries, Statuses
<1>13. Shaped(n)
  BY <1>4, <1>7, <1>10, <1>12 DEF Shaped
<1>14. AsJournaled(n, nr)
  BY <1>7, <1>8, <1>10, <1>11, <1>12 DEF AsJournaled
<1>15. Retires(InvalidateRedoBranch(m), m)
  BY <1>1, RedoBranchIsRetired
<1> QED
  BY <1>4, <1>6, <1>11, <1>12, <1>13, <1>14, <1>15, WrittenAsJournaled

\* The rescale ends every redo branch and retires single entries as well.
LEMMA RescaleRetires ==
  ASSUME journal \in Seq(Entries), NEW K, NEW S,
         K = [i \in DOMAIN journal |->
                IF i \in S /\ InvalidateRedoBranch(GM)[i].status = "APPLIED"
                THEN Retire(InvalidateRedoBranch(GM)[i]) ELSE InvalidateRedoBranch(GM)[i]]
  PROVE  Retires(K, GM)
<1>1. PICK J : J = InvalidateRedoBranch(GM)
  OBVIOUS
<1>2. Retires(J, GM)
  BY <1>1, RedoBranchIsRetired
<1>3. /\ DOMAIN journal = 1 .. Len(journal) /\ Len(journal) \in Nat
      /\ \A i \in DOMAIN journal : journal[i] \in Entries /\ J[i] \in Entries
  BY <1>2 DEF Retires, Shrinks
<1>4. \A i \in DOMAIN journal :
        K[i] = IF i \in S /\ J[i].status = "APPLIED" THEN Retire(J[i]) ELSE J[i]
  BY <1>1
<1>5. \A i \in DOMAIN journal : K[i] \in Entries
  BY <1>3, <1>4, RetireFacts
<1>6. K \in Seq(Entries) /\ Len(K) = Len(journal)
  <2>1. K = [i \in 1 .. Len(journal) |-> K[i]]
    BY <1>3
  <2> QED
    BY <1>3, <1>5, <2>1
<1>7. \A i \in DOMAIN journal :
        /\ \/ K[i] = journal[i]
           \/ journal[i].status # "INVALIDATED" /\ K[i] = Retire(journal[i])
        /\ K[i].status = "UNDONE" => GM # GM /\ K[i].actor # GM
  <2> SUFFICES ASSUME NEW i \in DOMAIN journal
               PROVE  /\ \/ K[i] = journal[i]
                         \/ journal[i].status # "INVALIDATED" /\ K[i] = Retire(journal[i])
                      /\ K[i].status # "UNDONE"
    OBVIOUS
  <2>1. /\ J[i].status # "UNDONE"
        /\ \/ J[i] = journal[i]
           \/ journal[i].status # "INVALIDATED" /\ J[i] = Retire(journal[i])
    BY <1>2 DEF Retires, Shrinks
  <2>2. J[i].status = "APPLIED" => J[i] = journal[i]
    BY <1>3, <2>1, RetireFacts
  <2> QED
    BY <1>3, <1>4, <2>1, <2>2, RetireFacts
<1> QED
  BY <1>6, <1>7 DEF Retires, Shrinks

LEMMA RescaleKeepsIInv ==
  ASSUME IInv, NEW r \in Requests, RescaleTx(r)
  PROVE  Core' /\ RowsStep /\ JournalGrows /\ NobodyTurns
<1> DEFINE g == pend[r].val
           placed == {t \in Tokens : Present(t)}
           targets == placed \union {Scene}
           new(o) == IF o = Scene THEN [val |-> g, sys |-> NoGrid]
                     ELSE [Content(rows[o]) EXCEPT !.sys = g]
           retired(e) == /\ e.status = "APPLIED"
                         /\ e.kind \in Single
                         /\ DOMAIN e.cur \subseteq placed
           before == [o \in targets |-> Content(rows[o])]
           after == [o \in targets |-> new(o)]
           cur == [o \in targets |-> rows[o].rev + 1]
<1>1. TypeOK /\ Running(r, "SCENE") /\ "SCENE" \in Kinds /\ rows \in [Objects -> Rows \union {Absent}]
      /\ journal \in Seq(Entries) /\ Present(Scene) /\ GM \in Members
  BY Constants DEF IInv, TypeOK, RescaleTx, Kinds
<1>2. PICK nr : nr = [o \in Objects |-> IF o \in targets THEN RowOf(new(o), rows[o].rev + 1) ELSE rows[o]]
  OBVIOUS
<1>16. PICK looks : looks = Sketched(NoSketch, NoSketch)
  OBVIOUS
<1>17. looks \in [Dirs -> Sketches] /\ \A dir \in Dirs : DOMAIN looks[dir] = {}
  BY <1>1, <1>16, NothingSketched DEF TypeOK
<1>3. PICK n : n = NewEntry(GM, "SCENE", before, after, cur, looks)
  OBVIOUS
<1>4. PICK K : K = [i \in DOMAIN journal |->
                      LET e == InvalidateRedoBranch(GM)[i] IN IF retired(e) THEN Retire(e) ELSE e]
  OBVIOUS
<1>5. /\ Room(targets) /\ Unrecorded(pend[r].act) /\ End(r, 1)
      /\ Write(nr, look) /\ journal' = Append(K, n)
  BY <1>2, <1>3, <1>4, <1>16 DEF RescaleTx
<1>6. pend[r] # Idle /\ g \in Grids
  BY <1>1, AdmittedTyped DEF RequestOK
<1>7. \A o \in targets :
        /\ o \in Objects /\ o \in Tokens \union {Scene} /\ Present(o) /\ rows[o].rev \in 0 .. MaxRev
        /\ rows[o].rev + 1 \in 0 .. MaxRev /\ Content(rows[o]) \in ContentsOf(o)
        /\ new(o) \in ContentsOf(o) /\ new(o) # Absent
  <2> SUFFICES ASSUME NEW o \in targets
               PROVE  /\ o \in Objects /\ o \in Tokens \union {Scene} /\ Present(o)
                      /\ rows[o].rev \in 0 .. MaxRev
                      /\ rows[o].rev + 1 \in 0 .. MaxRev /\ Content(rows[o]) \in ContentsOf(o)
                      /\ new(o) \in ContentsOf(o) /\ new(o) # Absent
    OBVIOUS
  <2>1. o \in Objects /\ o \in Tokens \union {Scene} /\ Present(o)
    BY <1>1, Constants DEF Objects
  <2>2. rows[o].rev \in 0 .. MaxRev /\ Content(rows[o]) \in ContentsOf(o) /\ MaxRev \in Nat
    BY <1>1, <2>1, ContentOfRow, Constants DEF TypeOK
  <2>3. rows[o].rev + 1 \in 0 .. MaxRev
    BY <1>5, <2>1, <2>2 DEF Room
  <2>4. new(o) \in ContentsOf(o)
    BY <1>6, <2>1, <2>2, Constants DEF ContentsOf, Vals, Systems
  <2> QED
    BY <2>1, <2>2, <2>3, <2>4, Constants
<1>8. targets \in SUBSET Objects
  BY <1>7
<1>9. /\ before \in Snapshots(Contents \union {Absent}) /\ after \in Snapshots(Contents \union {Absent})
      /\ cur \in Snapshots(0 .. MaxRev)
  <2>1. before \in [targets -> Contents \union {Absent}] /\ after \in [targets -> Contents \union {Absent}]
        /\ cur \in [targets -> 0 .. MaxRev]
    BY <1>7, Constants
  <2> HIDE DEF before, after, cur, targets
  <2> QED
    BY <1>8, <2>1, SnapshotTyped
<1>10. /\ DOMAIN before = targets /\ DOMAIN after = targets /\ DOMAIN cur = targets
       /\ \A o \in targets : before[o] = Content(rows[o]) /\ after[o] = new(o) /\ cur[o] = rows[o].rev + 1
  OBVIOUS
<1>11. /\ \A o \in Objects \ targets : nr[o] = rows[o]
       /\ \A o \in targets : nr[o] = RowOf(new(o), rows[o].rev + 1)
       /\ nr \in [Objects -> Rows \union {Absent}]
  <2>1. \A o \in targets : RowOf(new(o), rows[o].rev + 1) \in Rows
    <3> HIDE DEF new, targets
    <3>1. \A o \in targets : RowOf(new(o), rows[o].rev + 1) \in RowsOf(o)
      BY <1>7, RowOfContent
    <3> QED
      BY <1>7, <3>1, Constants
  <2> HIDE DEF targets, new
  <2> QED
    BY <1>1, <1>2, <1>8, <2>1
<1>12. Retires(K, GM)
  <2>1. PICK S : S = {i \in DOMAIN journal :
                        /\ InvalidateRedoBranch(GM)[i].kind \in Single
                        /\ DOMAIN InvalidateRedoBranch(GM)[i].cur \subseteq placed}
    OBVIOUS
  <2>2. K = [i \in DOMAIN journal |->
               IF i \in S /\ InvalidateRedoBranch(GM)[i].status = "APPLIED"
               THEN Retire(InvalidateRedoBranch(GM)[i]) ELSE InvalidateRedoBranch(GM)[i]]
    BY <1>4, <2>1
  <2> QED
    BY <1>1, <2>2, RescaleRetires
<1> HIDE DEF before, after, cur, new, targets, placed, g
<1>13. /\ n \in Entries /\ n.id = Len(journal) + 1 /\ n.actor = GM /\ n.status = "APPLIED"
       /\ n.kind = "SCENE" /\ n.mark = 0 /\ n.before = before /\ n.after = after /\ n.cur = cur
       /\ n.looks = looks
  <2>1. Len(journal) + 1 \in Nat
    BY <1>1
  <2> QED
    BY <1>1, <1>3, <1>9, <1>17, <2>1 DEF NewEntry, Entries, Statuses
<1>14. Shaped(n)
  BY <1>7, <1>10, <1>13, <1>17 DEF Shaped
<1>15. AsJournaled(n, nr)
  BY <1>7, <1>10, <1>11, <1>13 DEF AsJournaled
<1> QED
  BY <1>5, <1>6, <1>11, <1>12, <1>13, <1>14, <1>15, WrittenAsJournaled

(***************************************************************************)
(* Undo and redo.                                                          *)
(***************************************************************************)

\* The comparison of revisions is a comparison of contents: what a replay
\* accepts is what its entry left.
LEMMA AcceptedAsLeft ==
  ASSUME RevisionsClimb, NEW e \in Entries, Shaped(e), NEW dir \in Dirs, StillDesired(e, dir),
         NEW o \in (DOMAIN e.cur) \ Drawings, o \in Objects, Agrees(e, o), Accepts(e, dir, o)
  PROVE  /\ e.cur[o] = top[o]
         /\ IF Left(e, o) = Absent THEN ~ Present(o) /\ Want(e, dir)[o] # Absent
            ELSE Present(o) /\ rows[o].rev = e.cur[o] /\ Content(rows[o]) = Left(e, o)
         /\ Have(e, dir)[o] = Left(e, o)
<1>1. Have(e, dir)[o] = Left(e, o) /\ e.kind \in Kinds
  BY DEF Have, Left, StillDesired, Desired, Dirs, Entries
<1>2. ~ (e.before[o] = Absent /\ e.after[o] = Absent) /\ (e.kind = "CREATE" <=> e.before[o] = Absent)
      /\ (e.kind = "DELETE" => e.after[o] = Absent)
      /\ (e.kind \in {"UPDATE", "SCENE"} => e.before[o] # Absent /\ e.after[o] # Absent)
  BY <1>1, Constants DEF Shaped, Kinds, Single
<1>3. CASE Left(e, o) = Absent
  <2>1. Want(e, dir)[o] # Absent
    BY <1>1, <1>2, <1>3 DEF Want, Have
  <2> QED
    BY <1>1, <1>3, <2>1 DEF Agrees
<1>4. CASE Left(e, o) # Absent
  <2>1. AtRevision(e, o)
    BY <1>1, <1>2, <1>4 DEF Accepts, Want, Have, Kinds, Single
  <2>2. Present(o) /\ rows[o].rev = e.cur[o] /\ rows[o].rev = top[o]
    BY <2>1 DEF AtRevision, RevisionsClimb
  <2> QED
    BY <1>1, <1>4, <2>2 DEF Agrees
<1> QED
  BY <1>3, <1>4

\* What a replay undoes or redoes: the entry its request picked, still with the
\* status wanted.
Replays(r, p, dir) ==
  /\ p = Position(pend[r].pick) /\ dir = pend[r].dir
  /\ p \in DOMAIN journal /\ dir \in Dirs
  /\ StillDesired(journal[p], dir) /\ Replayable(journal[p], dir)

LEMMA ReplayPicks ==
  ASSUME IInv, NEW r \in Requests, ReplayTx(r)
  PROVE  \E p, dir : Replays(r, p, dir)
<1>1. TypeOK /\ pend[r] # Idle /\ pend[r].st = "picked" /\ RequestOK(pend[r]) /\ pend[r] \in RequestType
  BY DEF IInv, TypeOK, ReplayTx
<1>2. pend[r].dir \in Dirs
  BY <1>1 DEF RequestType, Idle
<1>3. \E i \in DOMAIN journal : journal[i].id = pend[r].pick
  BY <1>1 DEF RequestOK
<1>4. Position(pend[r].pick) \in DOMAIN journal
  BY <1>3 DEF Position
<1>5. StillDesired(journal[Position(pend[r].pick)], pend[r].dir)
      /\ Replayable(journal[Position(pend[r].pick)], pend[r].dir)
  BY DEF ReplayTx, Entry
<1> QED
  BY <1>2, <1>4, <1>5 DEF Replays

LEMMA ReplayKeepsIInv ==
  ASSUME IInv, NEW r \in Requests, ReplayTx(r), NEW p, NEW dir, Replays(r, p, dir)
  PROVE  Core' /\ RowsStep /\ JournalGrows /\ OnlyTurns(p)
<1>1. /\ TypeOK /\ RevisionsClimb /\ rows \in [Objects -> Rows \union {Absent}] /\ journal \in Seq(Entries)
      /\ p \in DOMAIN journal /\ dir \in Dirs /\ pend[r] # Idle /\ JournalInv
  BY DEF IInv, TypeOK, JournalInv, Replays, ReplayTx
<1>2. PICK e \in Entries : e = journal[p]
  BY <1>1
<1> DEFINE want == Want(e, dir)
<1>3. PICK nr : nr = [o \in Objects |->
                        IF o \notin DOMAIN e.cur THEN rows[o]
                        ELSE IF want[o] = Absent THEN Absent ELSE RowOf(want[o], NextRevision(e, o))]
  OBVIOUS
<1>4. PICK n : n = Toggled(e, dir)
  OBVIOUS
<1>20. PICK nl : nl = [t \in Tokens |-> IF t \in DOMAIN e.looks[dir] THEN e.looks[dir][t] ELSE look[t]]
  OBVIOUS
<1>5. /\ StillDesired(e, dir) /\ Replayable(e, dir) /\ Shaped(e) /\ e.id \in 1 .. Len(journal)
      /\ Unrecorded(pend[r].act) /\ End(r, 1) /\ Write(nr, nl) /\ MovesToEnd(p, n)
      /\ \A o \in DOMAIN e.cur : want[o] # Absent => e.cur[o] < MaxRev
  <2>1. Entry(pend[r].pick) = e /\ pend[r].dir = dir /\ Position(pend[r].pick) = p
    BY <1>2 DEF Entry, Replays
  <2>2. EntryOK(e)
    BY <1>1, <1>2 DEF TypeOK
  <2> QED
    BY <1>3, <1>4, <1>20, <2>1, <2>2 DEF ReplayTx, MovesToEnd, EntryOK
<1>6. \A o \in DOMAIN e.cur : o \in Objects /\ e.cur[o] \in 0 .. MaxRev
  BY CurTyped
<1>7. \A o \in DOMAIN e.cur : want[o] # Absent => want[o] \in ContentsOf(o) /\ e.cur[o] + 1 \in 0 .. MaxRev
  <2>1. \A o \in DOMAIN e.cur : want[o] # Absent => want[o] \in ContentsOf(o)
    BY <1>1, <1>5 DEF Shaped, Want, Dirs
  <2> QED
    BY <1>5, <1>6, <2>1, Constants
<1>8. /\ n \in Entries /\ n.id = e.id /\ n.actor = e.actor /\ n.kind = e.kind
      /\ n.before = e.before /\ n.after = e.after /\ DOMAIN n.cur = DOMAIN e.cur /\ n.looks = e.looks
      /\ n.status = (IF dir = "undo" THEN "UNDONE" ELSE "APPLIED")
      /\ n.mark = (IF dir = "undo" THEN Len(journal) ELSE 0)
      /\ \A o \in DOMAIN e.cur : n.cur[o] = IF want[o] = Absent THEN e.cur[o] ELSE e.cur[o] + 1
  <2> DEFINE D == DOMAIN e.cur
             cur == [o \in D |-> IF want[o] = Absent THEN e.cur[o] ELSE e.cur[o] + 1]
  <2>1. cur \in [D -> 0 .. MaxRev] /\ D \in SUBSET Objects
    BY <1>6, <1>7
  <2>2. cur \in Snapshots(0 .. MaxRev)
    <3> HIDE DEF cur, D
    <3> QED
      BY <2>1, SnapshotTyped
  <2>3. n = [e EXCEPT !.status = IF dir = "undo" THEN "UNDONE" ELSE "APPLIED",
                      !.cur = cur, !.mark = IF dir = "undo" THEN Len(journal) ELSE 0]
    BY <1>4 DEF Toggled, NextRevision
  <2>4. DOMAIN cur = D /\ \A o \in D : cur[o] = IF want[o] = Absent THEN e.cur[o] ELSE e.cur[o] + 1
    OBVIOUS
  <2>5. Len(journal) \in Nat
    BY <1>1
  <2> HIDE DEF cur, want
  <2>6. /\ n \in Entries /\ n.id = e.id /\ n.actor = e.actor /\ n.kind = e.kind
        /\ n.before = e.before /\ n.after = e.after /\ n.cur = cur /\ n.looks = e.looks
        /\ n.status = (IF dir = "undo" THEN "UNDONE" ELSE "APPLIED")
        /\ n.mark = (IF dir = "undo" THEN Len(journal) ELSE 0)
    BY <2>2, <2>3, <2>5 DEF Entries, Statuses
  <2> QED
    BY <2>4, <2>6
<1>9. Shaped(n)
  BY <1>5, <1>8 DEF Shaped
<1>10. \A o : Left(n, o) = want[o]
  BY <1>1, <1>8 DEF Left, Want, Dirs
<1>11. \A o \in (DOMAIN e.cur) \ Drawings :
         /\ e.cur[o] = top[o] /\ Concerns(e, o)
         /\ IF Left(e, o) = Absent THEN ~ Present(o) /\ want[o] # Absent
            ELSE Present(o)
  <2> SUFFICES ASSUME NEW o \in (DOMAIN e.cur) \ Drawings
               PROVE  /\ e.cur[o] = top[o] /\ Concerns(e, o)
                      /\ IF Left(e, o) = Absent THEN ~ Present(o) /\ want[o] # Absent
                         ELSE Present(o)
    OBVIOUS
  <2>1. Concerns(e, o) /\ o \in Objects
    BY <1>1, <1>5, <1>6 DEF Concerns, StillDesired, Desired, Dirs
  <2>2. Agrees(e, o)
    BY <1>1, <1>2, <2>1 DEF IInv, EntriesAgree
  <2>3. Accepts(e, dir, o)
    BY <1>5 DEF Replayable
  <2> QED
    BY <1>1, <1>5, <2>1, <2>2, <2>3, AcceptedAsLeft
<1>12. /\ nr \in [Objects -> Rows \union {Absent}] /\ rows' = nr
       /\ \A o \in Objects \ DOMAIN e.cur : nr[o] = rows[o]
       /\ \A o \in DOMAIN e.cur :
            IF want[o] = Absent THEN nr[o] = Absent
            ELSE nr[o] \in RowsOf(o) /\ nr[o] # Absent /\ nr[o].rev = e.cur[o] + 1 /\ Content(nr[o]) = want[o]
  <2>1. \A o \in DOMAIN e.cur : want[o] # Absent =>
          /\ RowOf(want[o], e.cur[o] + 1) \in RowsOf(o) /\ RowOf(want[o], e.cur[o] + 1) \in Rows
          /\ RowOf(want[o], e.cur[o] + 1) # Absent /\ RowOf(want[o], e.cur[o] + 1).rev = e.cur[o] + 1
          /\ Content(RowOf(want[o], e.cur[o] + 1)) = want[o]
    <3> HIDE DEF want
    <3> QED
      BY <1>6, <1>7, RowOfContent, Constants
  <2> HIDE DEF want
  <2> QED
    BY <1>1, <1>3, <1>5, <1>6, <2>1 DEF Write, NextRevision
<1>13. RowsStep
  <2>1. \A o \in Objects : nr[o] # Absent => nr[o] \in RowsOf(o)
    BY <1>1, <1>12 DEF TypeOK, Present
  <2>2. nr[Scene] # Absent
    <3>1. CASE Scene \in DOMAIN e.cur
      <4>1. want[Scene] # Absent
        BY <1>1, <1>5, <3>1, Constants DEF Shaped, Want, Dirs
      <4> QED
        BY <1>12, <3>1, <4>1
    <3>2. CASE Scene \notin DOMAIN e.cur
      BY <1>1, <1>12, <3>2, Constants DEF TypeOK, Present
    <3> QED
      BY <3>1, <3>2
  <2>3. \A o \in Objects \ Drawings : \/ nr[o] = rows[o]
                                      \/ Present(o) /\ nr[o] = Absent
                                      \/ nr[o] # Absent /\ nr[o].rev = top[o] + 1
    BY <1>11, <1>12
  <2> QED
    BY <1>1, <1>5, <1>12, <2>1, <2>2, <2>3, WriteIsRowsStep
<1>14. Fits(n)
  BY <1>8, <1>10, <1>11, <1>12 DEF Fits
<1>15. e.status # "INVALIDATED"
  BY <1>1, <1>5 DEF StillDesired, Desired, Dirs
<1>16. /\ JournalInv' /\ JournalGrows /\ OnlyTurns(p)
       /\ \A i \in DOMAIN journal' :
            journal'[i] = n \/ \E k \in DOMAIN journal \ {p} : journal'[i] = journal[k]
  <2>1. n.mark \in {0, Len(journal)} /\ (n.status = "UNDONE" => n.mark = Len(journal))
    BY <1>8
  <2> QED
    BY <1>1, <1>2, <1>5, <1>8, <1>9, <1>15, <2>1, ReplayKeepsJournal
<1>17. \A k \in DOMAIN journal \ {p} : NotRevived(journal[k])
  <2> SUFFICES ASSUME NEW k \in DOMAIN journal \ {p}, NEW o \in Objects,
                      Concerns(journal[k], o), Left(journal[k], o) = Absent, rows'[o] # Absent
               PROVE  FALSE
    BY DEF NotRevived
  <2>1. ~ Present(o) /\ o \notin Drawings
    BY DEF IInv, EntriesAgree, Agrees, Concerns
  <2>2. o \in DOMAIN e.cur /\ Left(e, o) = Absent /\ Concerns(e, o)
    BY <1>11, <1>12, <2>1 DEF Present
  <2> QED
    BY <1>1, <1>2, <2>2 DEF IInv, OneRemoval
<1>18. EntriesAgree' /\ OneRemoval'
  BY <1>1, <1>13, <1>14, <1>16, <1>17, EntriesStep DEF IInv
<1>19. RequestsInv'
  BY <1>1, <1>5, <1>16, EndKeepsRequests DEF IInv
<1> QED
  BY <1>13, <1>16, <1>18, <1>19, Assembled

(***************************************************************************)
(* Requests are admitted, repeated and advanced.                           *)
(***************************************************************************)

LEMMA SubmitKeepsIInv ==
  ASSUME IInv, NEW r \in Requests,
         SubmitCreate(r) \/ SubmitUpdate(r) \/ SubmitDelete(r) \/ SubmitBulk(r) \/ SubmitRescale(r)
  PROVE  Core' /\ RowsStep /\ JournalGrows /\ NobodyTurns
<1>1. \A m \in Members : Editable(m) \subseteq Objects \ {Scene}
  BY HistoryAssumption DEF Editable, Members, Objects
<1>2. {"CREATE", "UPDATE", "DELETE", "BULK", "SCENE"} \subseteq Kinds
  BY DEF Kinds, Single
<1>3. CASE SubmitCreate(r)
  <2>0. PICK m \in Members, v \in Values : \E o \in Editable(m) : Admit(r, m, "CREATE", {o}, v)
    BY <1>3 DEF SubmitCreate
  <2>1. PICK o \in Editable(m) : Admit(r, m, "CREATE", {o}, v)
    BY <2>0
  <2>2. {o} \in SUBSET Objects /\ Scene \notin {o} /\ {o} # {}
    BY <1>1
  <2> QED
    BY <1>2, <2>1, <2>2, AdmitKeepsIInv
<1>4. CASE SubmitUpdate(r)
  <2>0. PICK m \in Members, v \in Values :
          \E o \in Editable(m) : Present(o) /\ Admit(r, m, "UPDATE", {o}, v)
    BY <1>4 DEF SubmitUpdate
  <2>1. PICK o \in Editable(m) : Present(o) /\ Admit(r, m, "UPDATE", {o}, v)
    BY <2>0
  <2>2. {o} \in SUBSET Objects /\ Scene \notin {o} /\ {o} # {} /\ \A x \in {o} : Present(x)
    BY <1>1, <2>1
  <2> QED
    BY <1>2, <2>1, <2>2, AdmitKeepsIInv
<1>5. CASE SubmitDelete(r)
  <2>0. PICK m \in Members : \E o \in Editable(m) : Present(o) /\ Admit(r, m, "DELETE", {o}, Absent)
    BY <1>5 DEF SubmitDelete
  <2>1. PICK o \in Editable(m) : Present(o) /\ Admit(r, m, "DELETE", {o}, Absent)
    BY <2>0
  <2>2. {o} \in SUBSET Objects /\ Scene \notin {o} /\ {o} # {} /\ \A x \in {o} : Present(x)
    BY <1>1, <2>1
  <2>3. Absent \in Values \union Grids \union {Absent}
    OBVIOUS
  <2> QED
    BY <1>2, <2>1, <2>2, <2>3, AdmitKeepsIInv
<1>6. CASE SubmitBulk(r)
  <2>0. PICK m \in Members, v \in Values \union {Absent} :
          \E targets \in SUBSET Editable(m) :
            /\ Cardinality(targets) > 1 /\ \A o \in targets : Present(o)
            /\ Admit(r, m, "BULK", targets, v)
    BY <1>6 DEF SubmitBulk
  <2>1. PICK targets \in SUBSET Editable(m) :
          /\ Cardinality(targets) > 1 /\ \A o \in targets : Present(o)
          /\ Admit(r, m, "BULK", targets, v)
    BY <2>0
  <2>2. targets # {}
    <3> SUFFICES ASSUME targets = {} PROVE FALSE
      OBVIOUS
    <3>1. Cardinality(targets) = 0
      BY FS_EmptySet
    <3> QED
      BY <2>1, <3>1
  <2>3. targets \in SUBSET Objects /\ Scene \notin targets
    BY <1>1
  <2> QED
    BY <1>2, <2>1, <2>2, <2>3, AdmitKeepsIInv
<1>7. CASE SubmitRescale(r)
  <2>1. PICK g \in Grids : Admit(r, GM, "SCENE", {Scene}, g)
    BY <1>7 DEF SubmitRescale
  <2>2. {Scene} \in SUBSET Objects /\ {Scene} # {} /\ \A x \in {Scene} : Present(x)
    BY Constants DEF IInv, TypeOK
  <2> QED
    BY <1>2, <2>1, <2>2, Constants, AdmitKeepsIInv
<1> QED
  BY <1>3, <1>4, <1>5, <1>6, <1>7

LEMMA ResendKeepsIInv ==
  ASSUME IInv, NEW r \in Requests, Resend(r)
  PROVE  Core' /\ RowsStep /\ JournalGrows /\ NobodyTurns
<1>1. TypeOK /\ OncePerAction
  BY DEF IInv
<1>2. PICK q \in Requests :
        /\ pend[q] # Idle /\ UNCHANGED <<rows, top, journal, events>>
        /\ pend' = [pend EXCEPT ![r] =
                      IF pend[q].st = "admitted"
                      THEN [pend[q] EXCEPT !.looks =
                              IF pend[q].op = "BULK" THEN LooksOf(DOMAIN pend[q].seen) ELSE NoSketch]
                      ELSE [pend[q] EXCEPT !.st = "found", !.pick = 0]]
  BY DEF Resend
<1>3. PICK looks : looks = IF pend[q].op = "BULK" THEN LooksOf(DOMAIN pend[q].seen) ELSE NoSketch
  OBVIOUS
<1>4. PICK x : x = IF pend[q].st = "admitted" THEN [pend[q] EXCEPT !.looks = looks]
                   ELSE [pend[q] EXCEPT !.st = "found", !.pick = 0]
  OBVIOUS
<1>5. x \in RequestType /\ RequestOK(x)
  <2>1. pend[q] \in RequestType /\ RequestOK(pend[q]) /\ looks \in Sketches
    BY <1>1, <1>3, SketchesTyped DEF TypeOK
  <2>2. CASE pend[q].st = "admitted"
    <3> DEFINE T == [st : {"admitted"}, act : Actions, actor : Members, op : Kinds,
                     val : Values \union Grids \union {Absent},
                     seen : Snapshots(Rows \union {Absent}), looks : Sketches]
    <3>1. pend[q] \in T
      BY <1>2, <2>1, <2>2 DEF RequestType
    <3>2. x = [pend[q] EXCEPT !.looks = looks]
      BY <1>4, <2>2
    <3>3. x \in T /\ x.st = "admitted" /\ x.op = pend[q].op /\ x.val = pend[q].val /\ x.seen = pend[q].seen
      BY <2>1, <3>1, <3>2
    <3> QED
      BY <2>1, <2>2, <3>3 DEF RequestType, RequestOK
  <2>3. CASE pend[q].st # "admitted"
    <3>1. pend[q] \in [st : {"found", "picked"}, act : Actions, actor : Members, dir : Dirs, pick : Nat]
      BY <1>2, <2>1, <2>3 DEF RequestType
    <3>2. x = [pend[q] EXCEPT !.st = "found", !.pick = 0]
      BY <1>4, <2>3
    <3>3. x \in [st : {"found", "picked"}, act : Actions, actor : Members, dir : Dirs, pick : Nat]
          /\ x.st = "found"
      BY <3>1, <3>2
    <3> QED
      BY <3>3 DEF RequestType, RequestOK
  <2> QED
    BY <2>2, <2>3
<1>6. RequestsInv'
  BY <1>1, <1>2, <1>3, <1>4, <1>5, SetOfRequests
<1> QED
  BY <1>2, <1>6, RequestsOnly

LEMMA AskKeepsIInv ==
  ASSUME IInv, NEW r \in Requests, Ask(r)
  PROVE  Core' /\ RowsStep /\ JournalGrows /\ NobodyTurns
<1>1. PICK m \in Members, dir \in Dirs, a \in Actions :
        /\ UNCHANGED <<rows, top, journal, events>>
        /\ pend' = [pend EXCEPT ![r] =
                      [st |-> "found", act |-> a, actor |-> m, dir |-> dir, pick |-> 0]]
  BY DEF Ask, UnusedActions
<1>2. PICK x : x = [st |-> "found", act |-> a, actor |-> m, dir |-> dir, pick |-> 0]
  OBVIOUS
<1>3. x \in RequestType /\ RequestOK(x)
  BY <1>2 DEF RequestType, RequestOK
<1>4. RequestsInv'
  BY <1>1, <1>2, <1>3, SetOfRequests DEF IInv
<1> QED
  BY <1>1, <1>4, RequestsOnly

LEMMA PickKeepsIInv ==
  ASSUME IInv, NEW r \in Requests, Pick(r)
  PROVE  Core' /\ RowsStep /\ JournalGrows /\ NobodyTurns
<1>1. TypeOK /\ OncePerAction /\ pend[r] # Idle /\ pend[r].st = "found" /\ pend[r] \in RequestType
  BY DEF IInv, TypeOK, Pick
<1>2. PICK i \in DOMAIN journal :
        /\ pend' = [pend EXCEPT ![r].st = "picked", ![r].pick = journal[i].id]
        /\ UNCHANGED <<rows, top, journal, events>>
  BY DEF Pick, Candidates
<1>3. PICK x : x = [pend[r] EXCEPT !.st = "picked", !.pick = journal[i].id]
  OBVIOUS
<1>4. x \in RequestType /\ RequestOK(x)
  <2>1. /\ pend[r] \in [st : {"found", "picked"}, act : Actions, actor : Members, dir : Dirs, pick : Nat]
        /\ journal[i].id \in Nat
    BY <1>1 DEF RequestType, TypeOK, EntryOK
  <2>2. x \in [st : {"found", "picked"}, act : Actions, actor : Members, dir : Dirs, pick : Nat]
        /\ x.st = "picked" /\ x.pick = journal[i].id
    BY <1>1, <1>3, <2>1
  <2> QED
    BY <2>2 DEF RequestType, RequestOK
<1>5. pend' = [pend EXCEPT ![r] = x]
  BY <1>1, <1>2, <1>3 DEF TypeOK
<1>6. RequestsInv'
  BY <1>1, <1>2, <1>4, <1>5, SetOfRequests
<1> QED
  BY <1>2, <1>6, RequestsOnly

(***************************************************************************)
(* The looks of tokens.                                                    *)
(***************************************************************************)

LEMMA LooksTyped ==
  /\ Bare \in Looks
  /\ \A l \in Looks, x \in Images \union {Nothing} : [l EXCEPT !.image = x] \in Looks
  /\ \A l \in Looks : [l EXCEPT !.character = Nothing] \in Looks
BY DEF Bare, Looks

LEMMA WriteKeepsLooks ==
  ASSUME NEW nr, NEW nl, Write(nr, nl), \A t \in Tokens : nl[t] \in Looks
  PROVE  look' \in [Tokens -> Looks]
BY LooksTyped DEF Write

LEMMA SketchFacts ==
  ASSUME NEW e \in Entries, NEW dir \in Dirs, NEW t \in DOMAIN e.looks[dir]
  PROVE  t \in Tokens /\ e.looks[dir][t] \in Looks
<1>1. PICK k \in Sketches : k = e.looks[dir]
  BY DEF Entries
<1>2. PICK D \in SUBSET Tokens : k \in [D -> Looks]
  BY DEF Sketches
<1> QED
  BY <1>1, <1>2

LEMMA StepKeepsLooks ==
  ASSUME IInv, Next
  PROVE  LookType'
<1>1. TypeOK /\ LookType /\ MaxOther \in Nat
  BY HistoryAssumption DEF IInv, TypeOK, LookType
<1>2. ASSUME UNCHANGED <<look, live, other>> PROVE LookType'
  BY <1>1, <1>2 DEF LookType
<1>3. ASSUME NEW r \in Requests,
             SubmitCreate(r) \/ SubmitUpdate(r) \/ SubmitDelete(r) \/ SubmitBulk(r) \/ SubmitRescale(r)
      PROVE  LookType'
  BY <1>2, <1>3 DEF SubmitCreate, SubmitUpdate, SubmitDelete, SubmitBulk, SubmitRescale, Admit
<1>4. ASSUME NEW r \in Requests, Resend(r) \/ Ask(r) \/ Pick(r) \/ Refuse(r) \/ LoseRow(r)
      PROVE  LookType'
  BY <1>2, <1>4 DEF Resend, Ask, Pick, Refuse, LoseRow
<1>5. ASSUME NEW nr, NEW nl, Write(nr, nl), \A t \in Tokens : nl[t] \in Looks, UNCHANGED <<live, other>>
      PROVE  LookType'
  BY <1>1, <1>5, WriteKeepsLooks DEF LookType
<1>6. \A t \in Tokens : look[t] \in Looks
  BY <1>1 DEF LookType
<1>7. ASSUME NEW r \in Requests, CreateTx(r) PROVE LookType'
  <2> DEFINE o == CHOOSE x \in DOMAIN pend[r].seen : TRUE
  <2>1. PICK l \in Looks :
          /\ \E nr : Write(nr, [t \in Tokens |-> IF t = o THEN l ELSE look[t]])
          /\ UNCHANGED <<live, other>>
    BY <1>7 DEF CreateTx, Commit
  <2> DEFINE nl == [t \in Tokens |-> IF t = o THEN l ELSE look[t]]
  <2>2. \A t \in Tokens : nl[t] \in Looks
    BY <1>6
  <2> HIDE DEF nl
  <2> QED
    BY <1>5, <2>1, <2>2 DEF nl
<1>8. ASSUME NEW r \in Requests, UpdateTx(r) \/ DeleteTx(r) \/ BulkTx(r) \/ RescaleTx(r)
      PROVE  LookType'
  <2>1. \E nr : Write(nr, look) /\ UNCHANGED <<live, other>>
    BY <1>8 DEF UpdateTx, DeleteTx, BulkTx, RescaleTx, Commit
  <2> QED
    BY <1>5, <1>6, <2>1
<1>9. ASSUME NEW r \in Requests, ReplayTx(r) PROVE LookType'
  <2>1. PICK p, dir : Replays(r, p, dir)
    BY <1>9, ReplayPicks
  <2>2. PICK e \in Entries : e = journal[p] /\ dir \in Dirs /\ dir = pend[r].dir /\ e = Entry(pend[r].pick)
    BY <1>1, <2>1 DEF TypeOK, Replays, Entry
  <2> DEFINE nl == [t \in Tokens |-> IF t \in DOMAIN e.looks[dir] THEN e.looks[dir][t] ELSE look[t]]
  <2>3. ASSUME NEW t \in Tokens PROVE nl[t] \in Looks
    <3>1. CASE t \in DOMAIN e.looks[dir]
      BY <2>2, <3>1, SketchFacts
    <3>2. CASE t \notin DOMAIN e.looks[dir]
      BY <1>6, <3>2
    <3> QED
      BY <3>1, <3>2
  <2>4. \E nr : Write(nr, nl) /\ UNCHANGED <<live, other>>
    BY <1>9, <2>2 DEF ReplayTx
  <2> HIDE DEF nl
  <2> QED
    BY <1>5, <2>3, <2>4
<1>10. ASSUME NEW d \in Definitions, NEW x \in Images \union {Nothing}, ChangeImage(d, x) PROVE LookType'
  <2>1. look' \in [Tokens -> Looks]
    BY <1>6, <1>10, LooksTyped DEF ChangeImage
  <2> QED
    BY <1>1, <1>10, <2>1 DEF ChangeImage, CountOther, LookType
<1>11. ASSUME NEW c \in Characters, Archive(c) PROVE LookType'
  <2>1. look' \in [Tokens -> Looks]
    BY <1>6, <1>11, LooksTyped DEF Archive
  <2> QED
    BY <1>1, <1>11, <2>1 DEF Archive, CountOther, LookType
<1>12. ASSUME NEW x \in Images, DeleteAsset(x) PROVE LookType'
  <2> DEFINE nl == [t \in Tokens |-> IF Present(t) /\ look[t].image = x
                                      THEN [look[t] EXCEPT !.image = Nothing] ELSE look[t]]
  <2>1. \A t \in Tokens : nl[t] \in Looks
    BY <1>6, LooksTyped
  <2>2. \E nr : Write(nr, nl)
    BY <1>12 DEF DeleteAsset
  <2> HIDE DEF nl
  <2>3. look' \in [Tokens -> Looks]
    BY <2>1, <2>2, WriteKeepsLooks
  <2> QED
    BY <1>1, <1>12, <2>3 DEF DeleteAsset, CountOther, LookType
<1>13. ASSUME NEW d \in Definitions, DeleteDefinition(d) PROVE LookType'
  <2>1. look' \in [Tokens -> Looks]
    BY <1>6, <1>13, WriteKeepsLooks DEF DeleteDefinition
  <2> QED
    BY <1>1, <1>13, <2>1 DEF DeleteDefinition, CountOther, LookType
<1> QED
  BY <1>3, <1>4, <1>7, <1>8, <1>9, <1>10, <1>11, <1>12, <1>13 DEF Next

----------------------------------------------------------------------------
(***************************************************************************)
(* The theorems.                                                           *)
(***************************************************************************)

LEMMA InitIsIInv == Init => IInv
<1> SUFFICES ASSUME Init PROVE IInv
  OBVIOUS
<1>1. PICK g \in Grids, v \in [Placed -> Values] :
        rows = [o \in Objects |->
                 IF o = Scene THEN RowOf([val |-> g, sys |-> NoGrid], 0)
                 ELSE IF o \notin Placed THEN Absent
                 ELSE RowOf([val |-> v[o], sys |-> IF o \in Tokens THEN g ELSE NoGrid], 0)]
  BY DEF Init
<1>2. /\ Scene \in Objects /\ Scene \notin Tokens /\ 0 \in 0 .. MaxRev
      /\ \A o \in Objects : RowsOf(o) \subseteq Rows /\ Absent \notin RowsOf(o)
  BY Constants
<1>3. \A o \in Objects : rows[o] = Absent \/ (rows[o] \in RowsOf(o) /\ rows[o].rev = 0)
  <2> SUFFICES ASSUME NEW o \in Objects
               PROVE  rows[o] = Absent \/ (rows[o] \in RowsOf(o) /\ rows[o].rev = 0)
    OBVIOUS
  <2>1. CASE o = Scene
    BY <1>1, <1>2, <2>1 DEF RowOf, RowsOf, Vals, Systems
  <2>2. CASE o # Scene
    BY <1>1, <1>2, <2>2 DEF RowOf, RowsOf, Vals, Systems
  <2> QED
    BY <2>1, <2>2
<1>4. Present(Scene) /\ rows \in [Objects -> Rows \union {Absent}]
  <2>1. rows[Scene] = RowOf([val |-> g, sys |-> NoGrid], 0)
    BY <1>1, <1>2
  <2>2. rows[Scene] \in RowsOf(Scene)
    BY <1>2, <2>1 DEF RowOf, RowsOf, Vals, Systems
  <2> QED
    BY <1>1, <1>2, <1>3, <2>2 DEF Present
<1>5. top \in [Objects -> -1 .. MaxRev] /\ \A o \in Objects : Present(o) => top[o] = 0
  BY <1>2, Constants DEF Init
<1>6. journal = <<>> /\ journal \in Seq(Entries) /\ DOMAIN journal = {} /\ Range(journal) = {}
  BY DEF Init, Range
<1>7. events \in [Actions -> Nat] /\ OncePerAction
  BY DEF Init, OncePerAction
<1>8. pend \in [Requests -> RequestType] /\ \A r \in Requests : RequestOK(pend[r])
  BY DEF Init, RequestType, RequestOK, Idle
<1>11. LookType
  BY LooksTyped, WornAssumption, HistoryAssumption DEF Init, LookType
<1>9. TypeOK
  BY <1>3, <1>4, <1>5, <1>6, <1>7, <1>8, <1>11 DEF TypeOK, LookType, Present
<1>10. RevisionsClimb
  BY <1>3, <1>5 DEF RevisionsClimb, Present
<1> QED
  BY <1>6, <1>7, <1>9, <1>10 DEF IInv, IdsAreUnique, RedoBranchIsCurrent, EntriesAgree, OneRemoval

\* What one step does: it keeps the invariant, revisions climb, nothing is lost
\* from the journal, and only a replay turns an entry, and only its own.
LEMMA StepKeepsIInv ==
  ASSUME IInv, Next
  PROVE  /\ IInv' /\ RowsStep /\ JournalGrows
         /\ \/ NobodyTurns
            \/ \E r \in Requests : \E p, dir : ReplayTx(r) /\ Replays(r, p, dir) /\ OnlyTurns(p)
<1>1. ASSUME \/ \E d \in Definitions : DeleteDefinition(d) \/ \E x \in Images \union {Nothing} : ChangeImage(d, x)
             \/ \E x \in Images : DeleteAsset(x)
             \/ \E c \in Characters : Archive(c)
      PROVE  Core' /\ RowsStep /\ JournalGrows /\ NobodyTurns
  BY <1>1, DeleteAssetKeepsIInv, DeleteDefinitionKeepsIInv, LookOnlyKeepsIInv DEF ChangeImage, Archive
<1>2. ASSUME NEW r \in Requests,
             SubmitCreate(r) \/ SubmitUpdate(r) \/ SubmitDelete(r) \/ SubmitBulk(r) \/ SubmitRescale(r)
      PROVE  Core' /\ RowsStep /\ JournalGrows /\ NobodyTurns
  BY <1>2, SubmitKeepsIInv
<1>3. ASSUME NEW r \in Requests, Resend(r) \/ Ask(r) \/ Pick(r) \/ Refuse(r)
      PROVE  Core' /\ RowsStep /\ JournalGrows /\ NobodyTurns
  BY <1>3, ResendKeepsIInv, AskKeepsIInv, PickKeepsIInv, RefuseKeepsIInv
<1>4. ASSUME NEW r \in Requests, CreateTx(r) \/ UpdateTx(r) \/ DeleteTx(r)
      PROVE  Core' /\ RowsStep /\ JournalGrows /\ NobodyTurns
  BY <1>4, CreateKeepsIInv, UpdateKeepsIInv, DeleteKeepsIInv
<1>5. ASSUME NEW r \in Requests, BulkTx(r) \/ RescaleTx(r) \/ LoseRow(r)
      PROVE  Core' /\ RowsStep /\ JournalGrows /\ NobodyTurns
  BY <1>5, BulkKeepsIInv, RescaleKeepsIInv, LoseRowKeepsIInv
<1>6. ASSUME NEW r \in Requests, ReplayTx(r)
      PROVE  /\ Core' /\ RowsStep /\ JournalGrows
             /\ \E p, dir : Replays(r, p, dir) /\ OnlyTurns(p)
  <2>1. PICK p, dir : Replays(r, p, dir)
    BY <1>6, ReplayPicks
  <2> QED
    BY <1>6, <2>1, ReplayKeepsIInv
<1>7. /\ Core' /\ RowsStep /\ JournalGrows
      /\ \/ NobodyTurns
         \/ \E r \in Requests : \E p, dir : ReplayTx(r) /\ Replays(r, p, dir) /\ OnlyTurns(p)
  BY <1>1, <1>2, <1>3, <1>4, <1>5, <1>6 DEF Next
<1>8. LookType'
  BY StepKeepsLooks
<1>9. IInv'
  BY <1>7, <1>8, WholeInvariant, PTL
<1> QED
  BY <1>7, <1>9

\* The inductive invariant holds in every reachable state.
THEOREM Invariance == Spec => []IInv
<1>1. ASSUME IInv, [Next]_vars PROVE IInv'
  <2>1. CASE Next
    BY <1>1, <2>1, StepKeepsIInv
  <2>2. CASE UNCHANGED vars
    <3>1. \A r \in Requests : RequestOK(pend[r])'
      BY <1>1, <2>2 DEF vars, IInv, TypeOK, RequestOK
    <3>2. RequestsInv'
      BY <1>1, <2>2, <3>1 DEF vars, IInv, TypeOK, RequestsInv, OncePerAction
    <3>3. Core'
      BY <1>1, <2>2, <3>2, RequestsOnly DEF vars
    <3>4. LookType'
      BY <1>1, <2>2, WholeInvariant DEF vars, LookType
    <3> QED
      BY <3>3, <3>4, WholeInvariant, PTL
  <2> QED
    BY <1>1, <2>1, <2>2
<1> QED
  BY InitIsIInv, <1>1, PTL DEF Spec

\* The tables, the journal and the requests in flight keep their shape.
THEOREM TypeCorrect == Spec => []TypeOK
<1>1. IInv => TypeOK
  BY DEF IInv
<1> QED
  BY <1>1, Invariance, PTL

\* However often a command, an undo or a redo is sent again, one event at most is
\* recorded for its actionId.
THEOREM RecordedOnce == Spec => []OncePerAction
<1>1. IInv => OncePerAction
  BY DEF IInv
<1> QED
  BY <1>1, Invariance, PTL

\* Behind a new command nothing of its author's redo branch is left to redo, and
\* nothing of anybody's behind a command of the GM.
THEOREM NothingBehindTheBranch == Spec => []RedoBranchIsCurrent
<1>1. IInv => RedoBranchIsCurrent
  BY DEF IInv
<1> QED
  BY <1>1, Invariance, PTL

\* An invalidated entry stays in the journal as it is, for good.
THEOREM InvalidatedForGood == Spec => InvalidatedIsFinal
<1> DEFINE A == \A e \in Range(journal) : e.status = "INVALIDATED" => e \in Range(journal')
<1>1. ASSUME IInv, [Next]_vars PROVE A
  <2>1. CASE Next
    BY <1>1, <2>1, StepKeepsIInv DEF JournalGrows
  <2>2. CASE UNCHANGED vars
    BY <2>2 DEF vars
  <2> QED
    BY <1>1, <2>1, <2>2
<1> HIDE DEF A
<1>2. Spec => [][A]_vars
  BY <1>1, Invariance, PTL DEF Spec
<1> QED
  BY <1>2 DEF InvalidatedIsFinal, A

\* Whatever is done to what a revision guards of a token, undone, redone or
\* rescaled, the revision climbs above every revision the token ever had.
THEOREM NoRevisionTwice == Spec => TokenRevisionsAreFresh
<1> DEFINE A == \A t \in Tokens : rows'[t] # rows[t] /\ rows'[t] # Absent => rows'[t].rev > top[t]
<1>1. ASSUME IInv, [Next]_vars PROVE A
  <2>1. CASE Next
    <3> SUFFICES ASSUME NEW t \in Tokens, rows'[t] # rows[t], rows'[t] # Absent
                 PROVE  rows'[t].rev > top[t]
      BY DEF A
    <3>1. t \in Objects \ Drawings
      BY HistoryAssumption DEF Objects
    <3>2. Moves(t) /\ top[t] \in Int
      BY <1>1, <2>1, <3>1, StepKeepsIInv, Constants DEF RowsStep, IInv, TypeOK
    <3> QED
      BY <3>2 DEF Moves
  <2>2. CASE UNCHANGED vars
    BY <2>2 DEF vars
  <2> QED
    BY <1>1, <2>1, <2>2
<1> HIDE DEF A
<1>2. Spec => [][A]_vars
  BY <1>1, Invariance, PTL DEF Spec
<1> QED
  BY <1>2 DEF TokenRevisionsAreFresh, A

\* The image and the character of a token that a replay finds and leaves standing
\* are not written, unless its entry is a bulk's.
LEMMA LookIsSpared ==
  ASSUME IInv, NEW r \in Requests, ReplayTx(r), NEW p, NEW dir, Replays(r, p, dir),
         NEW e \in Entries, e = journal[p], e.kind # "BULK",
         NEW t \in Tokens, t \in DOMAIN e.cur, Present(t), Present(t)'
  PROVE  look'[t] = look[t]
<1>1. TypeOK /\ Shaped(e) /\ dir \in Dirs /\ Replayable(e, dir) /\ t \in Objects \ Drawings
  BY HistoryAssumption DEF IInv, TypeOK, EntryOK, Replays, Objects
<1>2. e = Entry(pend[r].pick) /\ dir = pend[r].dir
  BY DEF Entry, Replays
<1> DEFINE nr == [o \in Objects |-> IF o \notin DOMAIN e.cur THEN rows[o]
                                  ELSE IF Want(e, dir)[o] = Absent THEN Absent
                                  ELSE RowOf(Want(e, dir)[o], NextRevision(e, o))]
           nl == [x \in Tokens |-> IF x \in DOMAIN e.looks[dir] THEN e.looks[dir][x] ELSE look[x]]
<1>3. Write(nr, nl)
  BY <1>2 DEF ReplayTx
<1>4. look'[t] = IF rows'[t] = Absent THEN Bare ELSE nl[t]
  <2> HIDE DEF nr, nl
  <2> QED
    BY <1>3 DEF Write
<1>5. Want(e, dir)[t] # Absent
  <2>1. rows'[t] = nr[t]
    BY <1>3 DEF Write
  <2> QED
    BY <1>1, <2>1 DEF Present
<1>6. Accepts(e, dir, t) /\ e.kind \in Single \union {"SCENE"}
  BY <1>1 DEF Replayable, Entries, Kinds
<1>7. e.kind \in {"UPDATE", "SCENE"}
  BY <1>1, <1>5, <1>6 DEF Accepts, Single
<1>8. t \notin DOMAIN e.looks[dir]
  BY <1>1, <1>7 DEF Shaped
<1> QED
  BY <1>4, <1>8 DEF Present

\* An undo or redo finds every token, and the grid, as its entry left them in all
\* that changes with the revision: there equal revisions mean equal contents, and
\* what the entry removed nobody has brought back.  The image and the character
\* of a token that stands, which change without a revision, it does not write,
\* unless it replays a bulk.
THEOREM ReplayFindsWhatItLeft == Spec => TokenReplayIsExact
<1> DEFINE A == \A e \in Range(journal), dir \in Dirs :
                  TurnedBy(e, dir) =>
                    \A o \in DOMAIN e.cur \ Drawings :
                      /\ LeftAsRecorded(e, dir, o)
                      /\ o \in Tokens /\ Present(o) /\ Present(o)' /\ e.kind # "BULK"
                         => look'[o] = look[o]
<1>1. ASSUME IInv, [Next]_vars PROVE A
  <2> SUFFICES ASSUME NEW e \in Range(journal), NEW dir \in Dirs, TurnedBy(e, dir),
                      NEW o \in (DOMAIN e.cur) \ Drawings
               PROVE  /\ LeftAsRecorded(e, dir, o)
                      /\ o \in Tokens /\ Present(o) /\ Present(o)' /\ e.kind # "BULK"
                         => look'[o] = look[o]
    BY DEF A
  <2>1. PICK f \in Range(journal') :
          f.id = e.id /\ f.status = (IF dir = "undo" THEN "UNDONE" ELSE "APPLIED")
    BY DEF TurnedBy
  <2>2. e.status = Desired(dir) /\ f.status # e.status /\ f.status # "INVALIDATED"
    BY <2>1 DEF TurnedBy, Desired
  <2>3. CASE Next
    <3>1. ~ NobodyTurns
      BY <2>1, <2>2 DEF NobodyTurns
    <3>2. PICK r, p, d : r \in Requests /\ ReplayTx(r) /\ Replays(r, p, d) /\ OnlyTurns(p)
      BY <1>1, <2>3, <3>1, StepKeepsIInv
    <3>3. e = journal[p] /\ p \in DOMAIN journal
      BY <2>1, <2>2, <3>2 DEF OnlyTurns, Replays
    <3>4. d = dir
      BY <2>2, <3>2, <3>3 DEF Replays, StillDesired, Desired, Dirs
    <3>5. StillDesired(e, dir) /\ Replayable(e, dir)
      BY <3>2, <3>3, <3>4 DEF Replays
    <3>6. e \in Entries /\ Shaped(e) /\ o \in Objects
      BY <1>1, <3>3, CurTyped DEF IInv, TypeOK, EntryOK
    <3>7. Agrees(e, o)
      <4>1. Concerns(e, o)
        BY <2>2 DEF Concerns, Desired
      <4> QED
        BY <1>1, <3>3, <3>6, <4>1 DEF IInv, EntriesAgree
    <3>8. Accepts(e, dir, o)
      BY <3>5 DEF Replayable
    <3>9. /\ IF Left(e, o) = Absent THEN ~ Present(o)
             ELSE Present(o) /\ Content(rows[o]) = Left(e, o)
          /\ Have(e, dir)[o] = Left(e, o)
      BY <1>1, <3>5, <3>6, <3>7, <3>8, AcceptedAsLeft DEF IInv
    <3>10. o \in Tokens /\ Present(o) /\ Present(o)' /\ e.kind # "BULK" => look'[o] = look[o]
      BY <1>1, <3>2, <3>3, <3>4, <3>6, LookIsSpared
    <3> QED
      BY <3>9, <3>10 DEF LeftAsRecorded
  <2>4. CASE UNCHANGED vars
    <3>1. journal \in Seq(Entries) /\ IdsAreUnique /\ journal' = journal
      BY <1>1, <2>4 DEF vars, IInv, TypeOK
    <3>2. f = e
      BY <2>1, <3>1 DEF IdsAreUnique, Range
    <3> QED
      BY <2>2, <3>2
  <2> QED
    BY <1>1, <2>3, <2>4
<1> HIDE DEF A
<1>2. Spec => [][A]_vars
  BY <1>1, Invariance, PTL DEF Spec
<1> QED
  BY <1>2 DEF TokenReplayIsExact, A

=============================================================================
