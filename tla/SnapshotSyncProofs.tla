------------------------- MODULE SnapshotSyncProofs -------------------------
(***************************************************************************)
(* What SnapshotSync guarantees for any canvas, any number of sockets and  *)
(* any number of writes and failures: the coalescer serves its callers and *)
(* forgets none of them, the drawings follow their last events, a          *)
(* broadcast heals whatever was lost, and the tokens converge where every  *)
(* write is settled.                                                       *)
(***************************************************************************)
EXTENDS SnapshotSync, SequenceTheorems, TLAPS

----------------------------------------------------------------------------
(* Records.                                                                *)

LEMMA HandlerFields ==
    ASSUME NEW h \in Handlers
    PROVE  /\ h.kind \in Kinds /\ h.item \in Items /\ h.rev \in Nat
           /\ h.pc \in PCs /\ h.alone \in BOOLEAN
BY DEF Handlers

LEMMA DraftFields ==
    ASSUME NEW d \in Drafts
    PROVE  /\ d.job \in {"broadcast", "stray", "resync"} /\ d.to \subseteq Clients
           /\ d.version \in Nat \cup {Unread} /\ d.seen \in [Items -> Nat \cup {Unread}]
BY DEF Drafts

LEMMA NewDraft ==
    ASSUME NEW to \in SUBSET Clients, NEW cause \in Items \cup {"-"},
           NEW job \in {"broadcast", "stray", "resync"}
    PROVE  /\ Draft(job, to, cause) \in Drafts
           /\ Draft(job, to, cause).job = job
           /\ Draft(job, to, cause).to = to
           /\ Draft(job, to, cause).version = Unread
           /\ \A i \in Items : Draft(job, to, cause).seen[i] = Unread
BY DEF Draft, Drafts

LEMMA Revisions ==
    ASSUME TypeOK, NEW kind \in Kinds, NEW i \in Items, Allowed(kind, i)
    PROVE  RevisionAfter(kind, i) \in Nat
<1>1. CASE kind = "restore"
  <2> DEFINE last == CHOOSE n \in DOMAIN handler : LastRemoval(n, i)
  <2>1. last \in DOMAIN handler
    BY <1>1 DEF Allowed, Creating
  <2>2. handler[last] \in Handlers
    BY <2>1, ElementOfSeq, LenProperties DEF TypeOK
  <2>3. handler[last].rev \in Nat
    BY <2>2, HandlerFields
  <2>4. RevisionAfter(kind, i) = 1 + handler[last].rev
    BY <1>1 DEF RevisionAfter, Creating, Deleting
  <2> QED
    BY <2>3, <2>4
<1>2. CASE kind # "restore"
  BY <1>2 DEF RevisionAfter, TypeOK
<1> QED
  BY <1>1, <1>2

(* A write appends one request and leaves the others as they are.          *)
Written(kind, i) ==
    [kind |-> kind, item |-> i, pc |-> "committed", alone |-> Quiet,
     rev |-> IF kind = "remove" THEN rows[i] ELSE RevisionAfter(kind, i)]

LEMMA CommitEffect ==
    ASSUME TypeOK, NEW kind \in Kinds, NEW i \in Items, Commit(kind, i)
    PROVE  /\ handler' \in Seq(Handlers)
           /\ Len(handler) \in Nat
           /\ DOMAIN handler = 1 .. Len(handler)
           /\ DOMAIN handler' = 1 .. (Len(handler) + 1)
           /\ \A n \in DOMAIN handler : handler'[n] = handler[n]
           /\ handler'[Len(handler) + 1] = Written(kind, i)
           /\ rows' \in [Items -> Nat]
           /\ rows'[i] = RevisionAfter(kind, i)
           /\ \A j \in Items : j # i => rows'[j] = rows[j]
<1>1. RevisionAfter(kind, i) \in Nat
  BY Revisions DEF Commit
<1>2. Quiet \in BOOLEAN
  BY DEF Quiet, Idle
<1>3. Written(kind, i) \in Handlers
  BY <1>1, <1>2 DEF Written, Handlers, PCs, TypeOK
<1>4. handler' = Append(handler, Written(kind, i))
  BY DEF Commit, Written
<1>5. handler \in Seq(Handlers)
  BY DEF TypeOK
<1>6. /\ Append(handler, Written(kind, i)) \in Seq(Handlers)
      /\ Len(Append(handler, Written(kind, i))) = Len(handler) + 1
      /\ \A n \in 1 .. Len(handler) : Append(handler, Written(kind, i))[n] = handler[n]
      /\ Append(handler, Written(kind, i))[Len(handler) + 1] = Written(kind, i)
  BY <1>3, <1>5, AppendProperties
<1>7. /\ Len(handler) \in Nat /\ DOMAIN handler = 1 .. Len(handler)
      /\ DOMAIN handler' = 1 .. (Len(handler) + 1)
  BY <1>4, <1>5, <1>6, LenProperties
<1>8. /\ rows' \in [Items -> Nat]
      /\ rows'[i] = RevisionAfter(kind, i)
      /\ \A j \in Items : j # i => rows'[j] = rows[j]
  BY <1>1 DEF Commit, TypeOK
<1> QED
  BY <1>4, <1>6, <1>7, <1>8

(* What the other steps do to the requests.                                *)
Same(h, x) == /\ h.kind = x.kind /\ h.item = x.item /\ h.alone = x.alone
              /\ x.kind # "edit" => h.rev = x.rev

Kept ==
    /\ handler' \in Seq(Handlers)
    /\ DOMAIN handler' = DOMAIN handler
    /\ Len(handler') = Len(handler)
    /\ \A n \in DOMAIN handler : Same(handler'[n], handler[n])

LEMMA Unchanged ==
    ASSUME TypeOK, handler' = handler
    PROVE  Kept
BY DEF TypeOK, Kept, Same

LEMMA ExceptEffect ==
    ASSUME TypeOK, NEW n \in DOMAIN handler, NEW h \in Handlers,
           handler' = [handler EXCEPT ![n] = h], Same(h, handler[n])
    PROVE  /\ Kept
           /\ handler'[n] = h
           /\ \A m \in DOMAIN handler : m # n => handler'[m] = handler[m]
<1>1. handler \in Seq(Handlers) /\ DOMAIN handler = 1 .. Len(handler)
  BY LenProperties DEF TypeOK
<1>2. /\ handler' \in Seq(Handlers)
      /\ Len(handler') = Len(handler)
      /\ \A m \in DOMAIN handler : handler'[m] = IF m = n THEN h ELSE handler[m]
  BY <1>1, ExceptSeq
<1>3. DOMAIN handler' = DOMAIN handler
  BY <1>1, <1>2, LenProperties
<1> QED
  BY <1>2, <1>3 DEF Kept, Same

LEMMA ContinueEffect ==
    ASSUME TypeOK, NEW n \in DOMAIN handler, NEW pc \in PCs, Continue(n, pc)
    PROVE  /\ Kept
           /\ handler'[n] = [handler[n] EXCEPT !.pc = pc]
           /\ \A m \in DOMAIN handler : m # n => handler'[m] = handler[m]
<1>1. handler[n] \in Handlers
  BY ElementOfSeq, LenProperties DEF TypeOK
<1>2. [handler[n] EXCEPT !.pc = pc] \in Handlers
  BY <1>1 DEF Handlers
<1>3. Same([handler[n] EXCEPT !.pc = pc], handler[n])
  BY <1>1 DEF Same, Handlers
<1>4. handler' = [handler EXCEPT ![n] = [handler[n] EXCEPT !.pc = pc]]
  BY DEF Continue
<1> QED
  BY <1>2, <1>3, <1>4, ExceptEffect

LEMMA ProjectEffect ==
    ASSUME TypeOK, NEW n \in DOMAIN handler, Project(n)
    PROVE  /\ Kept
           /\ handler[n].kind \in {"move", "edit"}
           /\ handler[n].pc \in {"committed", "ready"}
           /\ handler'[n].pc \in {"emit", "done"}
           /\ \A m \in DOMAIN handler : m # n => handler'[m] = handler[m]
<1> DEFINE row == rows[handler[n].item]
           h == [handler[n] EXCEPT
                    !.pc  = IF row = 0 THEN "done" ELSE "emit",
                    !.rev = IF handler[n].kind = "edit" /\ row # 0 THEN row ELSE @]
<1>1. handler[n] \in Handlers
  BY ElementOfSeq, LenProperties DEF TypeOK
<1>2. row \in Nat
  BY <1>1, HandlerFields DEF TypeOK
<1>3. h \in Handlers
  BY <1>1, <1>2 DEF Handlers, PCs
<1>4. Same(h, handler[n])
  BY <1>1 DEF Same, Handlers
<1>5. handler' = [handler EXCEPT ![n] = h]
  BY DEF Project
<1>6. h.pc \in {"emit", "done"}
  BY <1>1 DEF Handlers
<1> HIDE DEF h
<1>7. /\ Kept
      /\ handler'[n] = h
      /\ \A m \in DOMAIN handler : m # n => handler'[m] = handler[m]
  BY <1>3, <1>4, <1>5, ExceptEffect
<1> QED
  BY <1>6, <1>7 DEF Project

LEMMA SettleEffect ==
    ASSUME TypeOK, NEW outcome \in PCs, NEW rest, Settle(outcome, rest)
    PROVE  /\ Kept
           /\ \A n \in DOMAIN handler :
                 handler'[n] = Released(handler[n], outcome, n \in slot.running)
<1>1. handler \in Seq(Handlers) /\ Len(handler) \in Nat /\ DOMAIN handler = 1 .. Len(handler)
  BY LenProperties DEF TypeOK
<1>2. \A n \in DOMAIN handler : /\ Released(handler[n], outcome, n \in slot.running) \in Handlers
                                /\ Same(Released(handler[n], outcome, n \in slot.running), handler[n])
  <2> SUFFICES ASSUME NEW n \in DOMAIN handler
               PROVE  /\ Released(handler[n], outcome, n \in slot.running) \in Handlers
                      /\ Same(Released(handler[n], outcome, n \in slot.running), handler[n])
    OBVIOUS
  <2>1. handler[n] \in Handlers
    BY <1>1, ElementOfSeq
  <2> QED
    BY <2>1 DEF Released, Handlers, PCs, Same
<1>3. handler' = [n \in 1 .. Len(handler) |-> Released(handler[n], outcome, n \in slot.running)]
  BY <1>1 DEF Settle
<1>4. handler' \in [1 .. Len(handler) -> Handlers]
  BY <1>1, <1>2, <1>3
<1>5. handler' \in Seq(Handlers)
  BY <1>1, <1>4, SeqDef
<1>6. DOMAIN handler' = 1 .. Len(handler) /\ Len(handler') = Len(handler)
  BY <1>1, <1>3, <1>5, LenProperties
<1> QED
  BY <1>1, <1>2, <1>3, <1>5, <1>6 DEF Kept

(* What one read adds to a draft.                                          *)
Successor(d, e) ==
    /\ e \in Drafts
    /\ e.job = d.job
    /\ d.to # {} => e.to # {}
    /\ e.version = d.version \/ (d.version = Unread /\ e.version = Len(handler))
    /\ \A i \in Items :
          \/ e.seen[i] = d.seen[i]
          \/ /\ e.seen[i] = rows[i]
             /\ i \in Drawings => d.version # Unread /\ e.version = d.version

Reads(d) == ReadTokens(d) \/ ReadSequence(d) \/ ReadCanvas(d, Drawings) \/ ReadCanvas(d, Fogs)

LEMMA PerSocketSplit ==
    ASSUME NEW d \in Drafts
    PROVE  /\ \A e \in PerSocket(d) : /\ e \in Drafts /\ e.job = d.job
                                      /\ e.version = d.version /\ e.seen = d.seen
                                      /\ d.to # {} => e.to # {}
           /\ d.to # {} => PerSocket(d) # {}
<1>1. ASSUME NEW c \in d.to
      PROVE  LET e == [d EXCEPT !.to = {c}]
             IN  /\ e \in Drafts /\ e.job = d.job /\ e.version = d.version
                 /\ e.seen = d.seen /\ e.to # {}
  BY DEF Drafts
<1>2. CASE ReadSetReady(d)
  <2>1. PerSocket(d) = {[d EXCEPT !.to = {c}] : c \in d.to}
    BY <1>2 DEF PerSocket
  <2>2. ASSUME NEW e \in PerSocket(d)
        PROVE  /\ e \in Drafts /\ e.job = d.job
               /\ e.version = d.version /\ e.seen = d.seen /\ e.to # {}
    <3>1. PICK c \in d.to : e = [d EXCEPT !.to = {c}]
      BY <2>1
    <3> QED
      BY <1>1, <3>1
  <2>3. d.to # {} => PerSocket(d) # {}
    BY <2>1
  <2> QED
    BY <2>2, <2>3
<1>3. CASE ~ ReadSetReady(d)
  BY <1>3 DEF PerSocket
<1> QED
  BY <1>2, <1>3

LEMMA SeeingMore ==
    ASSUME TypeOK, NEW d \in Drafts, NEW part \in SUBSET Items
    PROVE  /\ Seeing(d, part) \in Drafts
           /\ Seeing(d, part).job = d.job /\ Seeing(d, part).to = d.to
           /\ Seeing(d, part).version = d.version
           /\ \A i \in Items : Seeing(d, part).seen[i] = IF i \in part THEN rows[i] ELSE d.seen[i]
BY DEF Seeing, Drafts, TypeOK

LEMMA SocketsOfSplit ==
    ASSUME NEW d \in Drafts
    PROVE  /\ \A c \in d.to : \E e \in PerSocket(d) : c \in e.to
           /\ \A e \in PerSocket(d) : e.to \subseteq d.to
           /\ \A e, f \in PerSocket(d) : e # f => ReadSetReady(d)
<1>1. CASE ReadSetReady(d)
  <2>1. PerSocket(d) = {[d EXCEPT !.to = {c}] : c \in d.to}
    BY <1>1 DEF PerSocket
  <2>2. \A c \in d.to : [d EXCEPT !.to = {c}].to = {c}
    BY DEF Drafts
  <2>3. ASSUME NEW c \in d.to PROVE \E e \in PerSocket(d) : c \in e.to
    <3>1. [d EXCEPT !.to = {c}] \in PerSocket(d)
      BY <2>1
    <3> QED
      BY <2>2, <3>1
  <2>4. ASSUME NEW e \in PerSocket(d) PROVE e.to \subseteq d.to
    <3>1. PICK c \in d.to : e = [d EXCEPT !.to = {c}]
      BY <2>1
    <3> QED
      BY <2>2, <3>1
  <2> QED
    BY <1>1, <2>3, <2>4
<1>2. CASE ~ ReadSetReady(d)
  BY <1>2 DEF PerSocket
<1> QED
  BY <1>1, <1>2

(* The sockets of a draft keep one, and those made by one read agree on the *)
(* tokens and on the sequence.                                              *)
Split(d, S) ==
    /\ \A e \in S : Successor(d, e) /\ e.to \subseteq d.to
    /\ \A c \in d.to : \E e \in S : c \in e.to
    /\ \A e, f \in S : e # f =>
          /\ ReadSetReady(e) /\ e.version = f.version
          /\ \A t \in Tokens : e.seen[t] = f.seen[t]
    /\ ReadSetReady(d) => \A e \in S : /\ e.version = d.version
                                       /\ \A t \in Tokens : e.seen[t] = d.seen[t]

LEMMA SplitBySocket ==
    ASSUME NEW d \in Drafts, NEW s \in Drafts, s.to = d.to, ~ ReadSetReady(d),
           \A e \in Drafts : /\ e.version = s.version /\ e.seen = s.seen /\ e.job = s.job
                             /\ d.to # {} => e.to # {}
                             => Successor(d, e)
    PROVE  Split(d, PerSocket(s))
<1>1. \A e \in PerSocket(s) : /\ e \in Drafts /\ e.job = s.job
                              /\ e.version = s.version /\ e.seen = s.seen
                              /\ s.to # {} => e.to # {}
  BY PerSocketSplit
<1>2. \A e \in PerSocket(s) : Successor(d, e) /\ e.to \subseteq d.to
  BY <1>1, SocketsOfSplit
<1>3. \A c \in d.to : \E e \in PerSocket(s) : c \in e.to
  BY SocketsOfSplit
<1>4. ASSUME NEW e \in PerSocket(s), NEW f \in PerSocket(s), e # f
      PROVE  /\ ReadSetReady(e) /\ e.version = f.version
             /\ \A t \in Tokens : e.seen[t] = f.seen[t]
  <2>1. ReadSetReady(s)
    BY <1>4, SocketsOfSplit
  <2> QED
    BY <1>1, <2>1 DEF ReadSetReady, TokensRead
<1> QED
  BY <1>2, <1>3, <1>4 DEF Split

LEMMA ReadSplit ==
    ASSUME TypeOK, NEW d \in drafts, Reads(d)
    PROVE  \E S : drafts' = (drafts \ {d}) \cup S /\ Split(d, S)
<1>1. d \in Drafts
  BY DEF TypeOK
<1>2. Len(handler) \in Nat
  BY LenProperties DEF TypeOK
<1>3. CASE ReadTokens(d)
  <2> DEFINE s == Seeing(d, Tokens)
  <2>1. /\ s \in Drafts /\ s.job = d.job /\ s.to = d.to /\ s.version = d.version
        /\ \A i \in Items : s.seen[i] = IF i \in Tokens THEN rows[i] ELSE d.seen[i]
    BY <1>1, SeeingMore DEF Items
  <2>2. drafts' = (drafts \ {d}) \cup PerSocket(s) /\ ~ ReadSetReady(d)
    BY <1>3 DEF ReadTokens, ReadSetReady
  <2> HIDE DEF s
  <2>3. \A i \in Items : i \in Drawings => s.seen[i] = d.seen[i]
    BY <2>1, ItemsAssumption
  <2>4. \A e \in Drafts : /\ e.version = s.version /\ e.seen = s.seen /\ e.job = s.job
                          /\ d.to # {} => e.to # {}
                          => Successor(d, e)
    BY <2>1, <2>3 DEF Successor
  <2> QED
    BY <1>1, <2>1, <2>2, <2>4, SplitBySocket
<1>4. CASE ReadSequence(d)
  <2> DEFINE s == [d EXCEPT !.version = Len(handler)]
  <2>1. /\ s \in Drafts /\ s.job = d.job /\ s.to = d.to /\ s.version = Len(handler)
        /\ s.seen = d.seen
    BY <1>1, <1>2 DEF Drafts
  <2>2. drafts' = (drafts \ {d}) \cup PerSocket(s) /\ d.version = Unread /\ ~ ReadSetReady(d)
    BY <1>4 DEF ReadSequence, ReadSetReady
  <2> HIDE DEF s
  <2>4. \A e \in Drafts : /\ e.version = s.version /\ e.seen = s.seen /\ e.job = s.job
                          /\ d.to # {} => e.to # {}
                          => Successor(d, e)
    BY <2>1, <2>2 DEF Successor
  <2> QED
    BY <1>1, <2>1, <2>2, <2>4, SplitBySocket
<1>5. ASSUME NEW part \in {Drawings, Fogs}, ReadCanvas(d, part)
      PROVE  \E S : drafts' = (drafts \ {d}) \cup S /\ Split(d, S)
  <2> DEFINE s == Seeing(d, part)
  <2>1. /\ s \in Drafts /\ s.job = d.job /\ s.to = d.to /\ s.version = d.version
        /\ \A i \in Items : s.seen[i] = IF i \in part THEN rows[i] ELSE d.seen[i]
    BY <1>1, SeeingMore DEF Items
  <2>2. drafts' = (drafts \ {d}) \cup {s} /\ d.version # Unread
    BY <1>5 DEF ReadCanvas, ReadSetReady
  <2> HIDE DEF s
  <2>3. \A t \in Tokens : s.seen[t] = d.seen[t]
    BY <2>1, ItemsAssumption DEF Items
  <2>4. Split(d, {s})
    BY <2>1, <2>2, <2>3 DEF Split, Successor
  <2> QED
    BY <2>2, <2>4
<1> QED
  BY <1>3, <1>4, <1>5 DEF Reads

LEMMA ReadEffect ==
    ASSUME TypeOK, NEW d \in drafts, Reads(d)
    PROVE  \E S : /\ drafts' = (drafts \ {d}) \cup S
                  /\ \A e \in S : Successor(d, e)
                  /\ d.to # {} => S # {}
<1>1. PICK S : drafts' = (drafts \ {d}) \cup S /\ Split(d, S)
  BY ReadSplit
<1>2. d.to # {} => S # {}
  BY <1>1 DEF Split
<1> QED
  BY <1>1, <1>2 DEF Split

(* The client.                                                             *)
LEMMA ViewFields ==
    ASSUME NEW cl \in Views
    PROVE  cl.version \in Nat /\ cl.view \in [Items -> Nat] /\ cl.mark \in [Tokens -> Nat]
BY DEF Views

LEMMA PatchedEffect ==
    ASSUME NEW cl \in Views, NEW h \in Handlers, NEW n \in Nat
    PROVE  /\ Patched(cl, h, n) \in Views
           /\ Patched(cl, h, n).version >= n
           /\ Patched(cl, h, n).version >= cl.version
           /\ Patched(cl, h, n).view[h.item] = h.rev
           /\ \A i \in Items : i # h.item => Patched(cl, h, n).view[i] = cl.view[i]
<1>1. h.item \in Items /\ h.rev \in Nat
  BY HandlerFields
<1>2. Later(cl.version, n) \in Nat /\ Later(cl.version, n) >= n /\ Later(cl.version, n) >= cl.version
  BY ViewFields DEF Later
<1> DEFINE view == [cl.view EXCEPT ![h.item] = h.rev]
<1>3. Patched(cl, h, n) = [cl EXCEPT !.version = Later(cl.version, n), !.view = view]
  BY DEF Patched, Views
<1>4. /\ view \in [Items -> Nat] /\ view[h.item] = h.rev
      /\ \A i \in Items : i # h.item => view[i] = cl.view[i]
  BY <1>1, ViewFields
<1> HIDE DEF view
<1>5. /\ Patched(cl, h, n) \in Views
      /\ Patched(cl, h, n).version = Later(cl.version, n)
      /\ Patched(cl, h, n).view = view
  <2> DEFINE v == Later(cl.version, n)
  <2>1. v \in Nat
    BY <1>2
  <2>2. Patched(cl, h, n) = [cl EXCEPT !.version = v, !.view = view]
    BY <1>3
  <2>3. view \in [Items -> Nat]
    BY <1>4
  <2> HIDE DEF v
  <2>4. Patched(cl, h, n) \in Views
    BY <2>1, <2>2, <2>3 DEF Views
  <2>5. Patched(cl, h, n).version = v /\ Patched(cl, h, n).view = view
    BY <2>2 DEF Views
  <2> QED
    BY <2>4, <2>5 DEF v
<1> QED
  BY <1>2, <1>4, <1>5

LEMMA ReceivesEffect ==
    ASSUME NEW cl \in Views, NEW h \in Handlers, NEW n \in Nat
    PROVE  /\ Receives(cl, h, n) \in {cl, Patched(cl, h, n)}
           /\ h.kind \in DrawingKinds => Receives(cl, h, n) = Patched(cl, h, n)
<1>1. h.kind \in Kinds
  BY HandlerFields
<1> QED
  BY <1>1 DEF Receives, TokenEvent, DrawingEvent, FogEvent, Kinds, TokenKinds, DrawingKinds

LEMMA ReconcileEffect ==
    ASSUME NEW cl \in Views, NEW d \in Drafts, d.version # Unread,
           \A i \in Items : d.seen[i] # Unread
    PROVE  /\ Reconcile(cl, d) \in Views
           /\ \/ Reconcile(cl, d) = cl
              \/ /\ d.version >= cl.version
                 /\ Reconcile(cl, d).version = d.version
                 /\ Reconcile(cl, d).view = d.seen
<1>1. d.version \in Nat /\ d.seen \in [Items -> Nat]
  BY DraftFields DEF Unread
<1>2. CASE d.version < cl.version
  BY <1>2 DEF Reconcile
<1>3. CASE ~ (d.version < cl.version)
  <2> DEFINE mark == [t \in Tokens |-> IF cl.view[t] # 0 /\ d.seen[t] = 0
                                       THEN Later(cl.mark[t], d.version) ELSE cl.mark[t]]
  <2>1. mark \in [Tokens -> Nat]
    BY <1>1, ViewFields DEF Later
  <2>2. Reconcile(cl, d) = [version |-> d.version, view |-> d.seen, mark |-> mark]
    BY <1>3 DEF Reconcile
  <2> HIDE DEF mark
  <2>3. cl.version \in Nat
    BY ViewFields
  <2> QED
    BY <1>1, <1>3, <2>1, <2>2, <2>3 DEF Views
<1> QED
  BY <1>2, <1>3

----------------------------------------------------------------------------
(* Types.                                                                  *)

LEMMA SettleType ==
    ASSUME TypeOK, NEW outcome \in PCs, NEW rest, rest \subseteq Drafts, Settle(outcome, rest)
    PROVE  /\ handler' \in Seq(Handlers)
           /\ slot' \in [running : SUBSET DOMAIN handler', queued : SUBSET DOMAIN handler']
           /\ drafts' \subseteq Drafts
<1>1. Kept
  BY SettleEffect
<1>2. slot' = [running |-> slot.queued, queued |-> {}] /\ slot.queued \subseteq DOMAIN handler
  BY DEF Settle, TypeOK
<1>3. Draft("broadcast", Clients, "-") \in Drafts
  BY NewDraft
<1>4. drafts' \subseteq Drafts
  BY <1>3 DEF Settle
<1> QED
  BY <1>1, <1>2, <1>4 DEF Kept

LEMMA TypeInit == Init => TypeOK
<1> SUFFICES ASSUME Init PROVE TypeOK
  OBVIOUS
<1>1. handler \in Seq(Handlers) /\ DOMAIN handler = {}
  BY EmptySeq, LenProperties DEF Init
<1>2. rows \in [Items -> Nat]
  BY DEF Init
<1>3. client \in [Clients -> Views]
  BY <1>2 DEF Init, Views
<1> QED
  BY <1>1, <1>2, <1>3 DEF Init, TypeOK

LEMMA EmitType ==
    ASSUME TypeOK, NEW n \in DOMAIN handler, Emit(n)
    PROVE  /\ client' \in [Clients -> Views]
           /\ drafts' \subseteq Drafts
           /\ Kept
<1>1. handler[n] \in Handlers /\ n \in Nat
  BY ElementOfSeq, LenProperties DEF TypeOK
<1>2. \A c \in Clients : Receives(client[c], handler[n], n) \in Views
  <2> SUFFICES ASSUME NEW c \in Clients PROVE Receives(client[c], handler[n], n) \in Views
    OBVIOUS
  <2>1. client[c] \in Views
    BY DEF TypeOK
  <2>2. Patched(client[c], handler[n], n) \in Views
    BY <1>1, <2>1, PatchedEffect
  <2> QED
    BY <1>1, <2>1, <2>2, ReceivesEffect
<1>3. client' \in [Clients -> Views]
  BY <1>2 DEF Emit
<1>4. ASSUME NEW c \in Clients PROVE Draft("resync", {c}, handler[n].item) \in Drafts
  <2>1. {c} \in SUBSET Clients /\ handler[n].item \in Items \cup {"-"}
    BY <1>1, HandlerFields
  <2> QED
    BY <2>1, NewDraft
<1>5. drafts' \subseteq Drafts
  BY <1>4 DEF Emit, TypeOK
<1>6. Kept
  BY ContinueEffect DEF Emit, PCs
<1> QED
  BY <1>3, <1>5, <1>6

LEMMA SendType ==
    ASSUME TypeOK, NEW d \in drafts, Send(d)
    PROVE  client' \in [Clients -> Views]
<1>1. d \in Drafts /\ d.version # Unread /\ \A i \in Items : d.seen[i] # Unread
  BY DEF Send, TypeOK
<1>2. \A c \in Clients : client[c] \in Views /\ Reconcile(client[c], d) \in Views
  BY <1>1, ReconcileEffect DEF TypeOK
<1> QED
  BY <1>2 DEF Send

LEMMA StrayType ==
    ASSUME NEW e \in Drafts
    PROVE  [e EXCEPT !.job = "stray"] \in Drafts
BY DEF Drafts

LEMMA TypeStep == TypeOK /\ [Next]_vars => TypeOK'
<1> SUFFICES ASSUME TypeOK, [Next]_vars PROVE TypeOK'
  OBVIOUS
<1>a. ASSUME Kept
      PROVE  /\ handler' \in Seq(Handlers)
             /\ slot \in [running : SUBSET DOMAIN handler', queued : SUBSET DOMAIN handler']
  BY <1>a DEF Kept, TypeOK
<1>1. ASSUME NEW kind \in Kinds, NEW i \in Items, Commit(kind, i) PROVE TypeOK'
  <2>1. /\ handler' \in Seq(Handlers) /\ rows' \in [Items -> Nat]
        /\ DOMAIN handler \subseteq DOMAIN handler'
    BY <1>1, CommitEffect
  <2>2. slot' = slot /\ drafts' = drafts /\ client' = client /\ shown' = shown /\ failures' = failures
    BY <1>1 DEF Commit
  <2> QED
    BY <2>1, <2>2 DEF TypeOK
<1>2. ASSUME NEW n \in DOMAIN handler, CallBroadcast(n) PROVE TypeOK'
  <2>1. Kept
    BY <1>2, ContinueEffect DEF CallBroadcast, PCs
  <2>2. slot' \in [running : SUBSET DOMAIN handler, queued : SUBSET DOMAIN handler]
    BY <1>2 DEF CallBroadcast, TypeOK
  <2>4. Draft("broadcast", Clients, "-") \in Drafts
    BY NewDraft
  <2>5. drafts' \subseteq Drafts
    BY <1>2, <2>4 DEF CallBroadcast, TypeOK
  <2>3. rows' = rows /\ client' = client /\ shown' = shown /\ failures' = failures
    BY <1>2 DEF CallBroadcast
  <2> QED
    BY <2>1, <2>2, <2>3, <2>5 DEF TypeOK, Kept
<1>3. ASSUME NEW n \in DOMAIN handler, CallSettled(n) PROVE TypeOK'
  <2>1. Kept
    BY <1>3, ContinueEffect DEF CallSettled, PCs
  <2> QED
    BY <1>3, <1>a, <2>1 DEF TypeOK, CallSettled
<1>4. ASSUME NEW n \in DOMAIN handler, Project(n) PROVE TypeOK'
  <2>1. Kept
    BY <1>4, ProjectEffect
  <2> QED
    BY <1>4, <1>a, <2>1 DEF TypeOK, Project
<1>5. ASSUME NEW n \in DOMAIN handler, Emit(n) PROVE TypeOK'
  <2>1. client' \in [Clients -> Views] /\ drafts' \subseteq Drafts /\ Kept
    BY <1>5, EmitType
  <2>2. rows' = rows /\ slot' = slot /\ failures' = failures
    BY <1>5 DEF Emit
  <2>3. n \in Nat
    BY ElementOfSeq, LenProperties DEF TypeOK
  <2>4. shown' \in [Drawings -> Nat]
    BY <1>5, <2>3 DEF Emit, TypeOK
  <2> QED
    BY <1>a, <2>1, <2>2, <2>4 DEF TypeOK
<1>6. ASSUME NEW d \in drafts, Reads(d) PROVE TypeOK'
  <2>1. PICK S : drafts' = (drafts \ {d}) \cup S /\ \A e \in S : Successor(d, e)
    BY <1>6, ReadEffect
  <2>2. drafts' \subseteq Drafts
    BY <2>1 DEF Successor, TypeOK
  <2>3. UNCHANGED <<rows, handler, slot, client, shown, failures>>
    BY <1>6 DEF Reads, ReadTokens, ReadSequence, ReadCanvas
  <2> QED
    BY <2>2, <2>3 DEF TypeOK
<1>7. ASSUME NEW d \in drafts, Send(d) PROVE TypeOK'
  <2>1. client' \in [Clients -> Views]
    BY <1>7, SendType
  <2>2. rows' = rows /\ shown' = shown /\ failures' = failures
    BY <1>7 DEF Send
  <2>3. CASE d.job = "broadcast" /\ Siblings(d) = {}
    <3>1. Settle("done", drafts \ {d})
      BY <1>7, <2>3 DEF Send
    <3>2. drafts \ {d} \subseteq Drafts
      BY DEF TypeOK
    <3>3. /\ handler' \in Seq(Handlers)
          /\ slot' \in [running : SUBSET DOMAIN handler', queued : SUBSET DOMAIN handler']
          /\ drafts' \subseteq Drafts
      BY <3>1, <3>2, SettleType DEF PCs
    <3> QED
      BY <2>1, <2>2, <3>3 DEF TypeOK
  <2>4. CASE ~ (d.job = "broadcast" /\ Siblings(d) = {})
    BY <1>7, <2>1, <2>2, <2>4 DEF Send, TypeOK
  <2> QED
    BY <2>3, <2>4
<1>8. ASSUME NEW d \in drafts, Fail(d) PROVE TypeOK'
  <2>1. rows' = rows /\ client' = client /\ shown' = shown /\ failures' \in Nat
    BY <1>8 DEF Fail, TypeOK
  <2>3. CASE d.job = "broadcast"
    <3> DEFINE rest == (drafts \ (Siblings(d) \cup {d})) \cup {[e EXCEPT !.job = "stray"] : e \in Siblings(d)}
    <3>1. Settle("failed", rest)
      BY <1>8, <2>3 DEF Fail
    <3>2. rest \subseteq Drafts
      BY StrayType DEF TypeOK, Siblings
    <3> HIDE DEF rest
    <3>3. /\ handler' \in Seq(Handlers)
          /\ slot' \in [running : SUBSET DOMAIN handler', queued : SUBSET DOMAIN handler']
          /\ drafts' \subseteq Drafts
      BY <3>1, <3>2, SettleType DEF PCs
    <3> QED
      BY <2>1, <3>3 DEF TypeOK
  <2>4. CASE d.job # "broadcast"
    BY <1>8, <2>1, <2>4 DEF Fail, TypeOK
  <2> QED
    BY <2>3, <2>4
<1>9. CASE UNCHANGED vars
  BY <1>9 DEF TypeOK, vars
<1>10. ASSUME NEW n \in DOMAIN handler, LoseEvent(n) PROVE TypeOK'
  <2>1. Kept
    BY <1>10, ContinueEffect DEF LoseEvent, PCs
  <2> QED
    BY <1>10, <1>a, <2>1 DEF TypeOK, LoseEvent
<1> QED
  BY <1>1, <1>2, <1>3, <1>4, <1>5, <1>6, <1>7, <1>8, <1>9, <1>10
     DEF Next, HandlerStep, Serve, DraftStep, Reads

(* Every reachable state has values of the declared types.                 *)
THEOREM TypeCorrect == Spec => []TypeOK
<1>1. Init => TypeOK
  BY TypeInit
<1>2. TypeOK /\ [Next]_vars => TypeOK'
  BY TypeStep
<1> QED
  BY <1>1, <1>2, PTL DEF Spec

----------------------------------------------------------------------------
(* The coalescer.                                                          *)

LEMMA SlotFields ==
    ASSUME TypeOK
    PROVE  slot.running \subseteq DOMAIN handler /\ slot.queued \subseteq DOMAIN handler
BY DEF TypeOK

LEMMA SlotInit == Init => SlotInv
BY EmptySeq DEF Init, SlotInv, NobodyIsForgotten

(* A step that neither takes a place in the slot nor ends a broadcast.     *)
LEMMA SlotQuiet ==
    ASSUME TypeOK, SlotInv, Kept, slot' = slot,
           \A n \in DOMAIN handler :
              \/ handler'[n] = handler[n]
              \/ /\ handler[n].pc # "awaiting" /\ handler'[n].pc # "awaiting"
                 /\ handler'[n].pc = "settling" => slot.running # {},
           \A d \in drafts' : d.to # {} /\ (d.job = "broadcast" => \E e \in drafts : e.job = "broadcast"),
           \A d \in drafts : d.job = "broadcast" => \E e \in drafts' : e.job = "broadcast"
    PROVE  SlotInv'
<1>1. \A n \in DOMAIN handler : handler'[n].kind = handler[n].kind
  BY DEF Kept, Same
<1>2. DOMAIN handler' = DOMAIN handler
  BY DEF Kept
<1>3. \A n \in slot'.running \cup slot'.queued : handler'[n].pc = "awaiting"
  BY SlotFields DEF SlotInv
<1>4. \A n \in DOMAIN handler' : handler'[n].pc = "awaiting" => handler'[n].kind \in Broadcasting
  BY <1>1, <1>2 DEF SlotInv
<1>5. \A n \in DOMAIN handler' :
         /\ handler'[n].pc = "awaiting" => n \in slot'.running \cup slot'.queued
         /\ handler'[n].pc = "settling" => slot'.running # {}
  BY <1>2 DEF SlotInv, NobodyIsForgotten
<1>6. slot'.queued # {} => slot'.running # {}
  BY DEF SlotInv, NobodyIsForgotten
<1>7. slot'.running # {} => \E d \in drafts' : d.job = "broadcast"
  BY DEF SlotInv, NobodyIsForgotten
<1>8. \A d \in drafts' : d.to # {} /\ (d.job = "broadcast" => slot'.running # {})
  BY DEF SlotInv
<1>9. slot'.running \cap slot'.queued = {}
  BY DEF SlotInv
<1> QED
  BY <1>3, <1>4, <1>5, <1>6, <1>7, <1>8, <1>9 DEF SlotInv, NobodyIsForgotten

LEMMA SettleSlot ==
    ASSUME TypeOK, SlotInv, NEW outcome \in {"done", "failed"}, NEW rest,
           Settle(outcome, rest),
           \A e \in rest : e.to # {} /\ e.job # "broadcast"
    PROVE  SlotInv'
<1>1. /\ Kept
      /\ \A n \in DOMAIN handler :
            handler'[n] = Released(handler[n], outcome, n \in slot.running)
  BY SettleEffect DEF PCs
<1>2. \A n \in DOMAIN handler : handler[n] \in Handlers
  BY ElementOfSeq, LenProperties DEF TypeOK
<1>3. /\ slot'.running = slot.queued /\ slot'.queued = {}
      /\ slot.queued \subseteq DOMAIN handler /\ slot.running \subseteq DOMAIN handler
  BY SlotFields DEF Settle
<1>4. DOMAIN handler' = DOMAIN handler
  BY <1>1 DEF Kept
<1>5. \A n \in DOMAIN handler :
         /\ handler'[n].pc = IF n \in slot.running THEN outcome
                             ELSE IF handler[n].pc = "settling" THEN "ready" ELSE handler[n].pc
         /\ handler'[n].kind = handler[n].kind
  BY <1>1, <1>2 DEF Released, Handlers
<1>6. \A n \in slot'.running \cup slot'.queued : handler'[n].pc = "awaiting"
  BY <1>3, <1>5 DEF SlotInv
<1>7. \A n \in DOMAIN handler' :
         /\ handler'[n].pc = "awaiting" => n \in slot'.running
         /\ handler'[n].pc # "settling"
         /\ handler'[n].pc = "awaiting" => handler'[n].kind \in Broadcasting
  BY <1>3, <1>4, <1>5 DEF SlotInv, NobodyIsForgotten
<1>8. drafts' = IF slot.queued = {} THEN rest ELSE rest \cup {Draft("broadcast", Clients, "-")}
  BY DEF Settle
<1>9. Draft("broadcast", Clients, "-").job = "broadcast" /\ Draft("broadcast", Clients, "-").to # {}
  BY ClientsAssumption DEF Draft
<1>10. \A d \in drafts' : d.to # {} /\ (d.job = "broadcast" => slot'.running # {})
  BY <1>3, <1>8, <1>9
<1>11. slot'.running # {} => \E d \in drafts' : d.job = "broadcast"
  BY <1>3, <1>8, <1>9
<1> QED
  BY <1>3, <1>6, <1>7, <1>10, <1>11 DEF SlotInv, NobodyIsForgotten

LEMMA SlotStep == TypeOK /\ SlotInv /\ [Next]_vars => SlotInv'
<1> SUFFICES ASSUME TypeOK, SlotInv, [Next]_vars PROVE SlotInv'
  OBVIOUS
<1>a. \A n \in DOMAIN handler : handler[n] \in Handlers
  BY ElementOfSeq, LenProperties DEF TypeOK
<1>b. \A d \in drafts : d.to # {}
  BY DEF SlotInv
<1>1. ASSUME NEW kind \in Kinds, NEW i \in Items, Commit(kind, i) PROVE SlotInv'
  <2>1. /\ DOMAIN handler = 1 .. Len(handler) /\ Len(handler) \in Nat
        /\ DOMAIN handler' = 1 .. (Len(handler) + 1)
        /\ \A n \in DOMAIN handler : handler'[n] = handler[n]
        /\ handler'[Len(handler) + 1] = Written(kind, i)
    BY <1>1, CommitEffect
  <2>6. handler'[Len(handler) + 1].pc = "committed"
    BY <2>1 DEF Written
  <2>2. slot' = slot /\ drafts' = drafts
    BY <1>1 DEF Commit
  <2>3. \A n \in DOMAIN handler' : handler'[n].pc \in {"awaiting", "settling"} => n \in DOMAIN handler
    BY <2>1, <2>6
  <2>4. \A n \in slot.running \cup slot.queued : handler'[n].pc = "awaiting"
    BY <2>1, SlotFields DEF SlotInv
  <2>5. \A n \in DOMAIN handler' :
           /\ handler'[n].pc = "awaiting" => /\ handler'[n].kind \in Broadcasting
                                             /\ n \in slot.running \cup slot.queued
           /\ handler'[n].pc = "settling" => slot.running # {}
    BY <2>1, <2>3 DEF SlotInv, NobodyIsForgotten
  <2> QED
    BY <2>2, <2>4, <2>5 DEF SlotInv, NobodyIsForgotten
<1>2. ASSUME NEW n \in DOMAIN handler, CallBroadcast(n) PROVE SlotInv'
  <2>1. /\ Kept
        /\ handler'[n] = [handler[n] EXCEPT !.pc = "awaiting"]
        /\ \A m \in DOMAIN handler : m # n => handler'[m] = handler[m]
    BY <1>2, ContinueEffect DEF CallBroadcast, PCs
  <2>2. handler'[n].pc = "awaiting" /\ handler'[n].kind \in Broadcasting
    BY <1>2, <1>a, <2>1 DEF CallBroadcast, Handlers
  <2>3. DOMAIN handler' = DOMAIN handler
    BY <2>1 DEF Kept
  <2>4. handler[n].pc = "committed" /\ n \notin slot.running \cup slot.queued
    BY <1>2 DEF CallBroadcast, SlotInv
  <2>5. \A m \in DOMAIN handler' : handler'[m].pc = "awaiting" => handler'[m].kind \in Broadcasting
    BY <2>1, <2>2, <2>3 DEF SlotInv
  <2>6. CASE slot.running = {}
    <3>1. slot'.running = {n} /\ slot'.queued = {}
      BY <1>2, <2>6 DEF CallBroadcast, SlotInv, NobodyIsForgotten, TypeOK
    <3>2. drafts' = drafts \cup {Draft("broadcast", Clients, "-")}
      BY <1>2, <2>6 DEF CallBroadcast
    <3>3. Draft("broadcast", Clients, "-").job = "broadcast" /\ Draft("broadcast", Clients, "-").to # {}
      BY ClientsAssumption DEF Draft
    <3>4. \A m \in DOMAIN handler' : handler'[m].pc = "awaiting" => m \in slot'.running
      BY <2>1, <2>3, <2>6, <3>1 DEF SlotInv, NobodyIsForgotten
    <3> QED
      BY <1>b, <2>2, <2>5, <3>1, <3>2, <3>3, <3>4 DEF SlotInv, NobodyIsForgotten
  <2>7. CASE slot.running # {}
    <3>1. slot'.running = slot.running /\ slot'.queued = slot.queued \cup {n} /\ drafts' = drafts
      BY <1>2, <2>7 DEF CallBroadcast, TypeOK
    <3>2. \A m \in slot'.running \cup slot'.queued : handler'[m].pc = "awaiting"
      BY <2>1, <2>2, <3>1, SlotFields DEF SlotInv
    <3>3. \A m \in DOMAIN handler' : handler'[m].pc = "awaiting" => m \in slot'.running \cup slot'.queued
      BY <2>1, <2>3, <3>1 DEF SlotInv, NobodyIsForgotten
    <3> QED
      BY <2>4, <2>5, <2>7, <3>1, <3>2, <3>3 DEF SlotInv, NobodyIsForgotten
  <2> QED
    BY <2>6, <2>7
<1>3. ASSUME NEW n \in DOMAIN handler, CallSettled(n) PROVE SlotInv'
  <2> DEFINE pc == IF slot.running = {} THEN "ready" ELSE "settling"
  <2>1. /\ Kept
        /\ handler'[n] = [handler[n] EXCEPT !.pc = pc]
        /\ \A m \in DOMAIN handler : m # n => handler'[m] = handler[m]
    BY <1>3, ContinueEffect DEF CallSettled, PCs
  <2>2. handler'[n].pc = pc /\ handler[n].pc = "committed"
    BY <1>3, <1>a, <2>1 DEF CallSettled, Handlers
  <2>3. slot' = slot /\ drafts' = drafts
    BY <1>3 DEF CallSettled
  <2>4. \A d \in drafts' : d.to # {} /\ (d.job = "broadcast" => \E e \in drafts : e.job = "broadcast")
    BY <1>b, <2>3
  <2>5. \A m \in DOMAIN handler :
              \/ handler'[m] = handler[m]
              \/ /\ handler[m].pc # "awaiting" /\ handler'[m].pc # "awaiting"
                 /\ handler'[m].pc = "settling" => slot.running # {}
    BY <2>1, <2>2
  <2> HIDE DEF pc
  <2> QED
    BY <2>1, <2>3, <2>4, <2>5, SlotQuiet
<1>4. ASSUME NEW n \in DOMAIN handler, Project(n) PROVE SlotInv'
  <2>1. /\ Kept
        /\ handler[n].pc \in {"committed", "ready"} /\ handler'[n].pc \in {"emit", "done"}
        /\ \A m \in DOMAIN handler : m # n => handler'[m] = handler[m]
    BY <1>4, ProjectEffect
  <2>3. slot' = slot /\ drafts' = drafts
    BY <1>4 DEF Project
  <2>4. \A d \in drafts' : d.to # {} /\ (d.job = "broadcast" => \E e \in drafts : e.job = "broadcast")
    BY <1>b, <2>3
  <2> QED
    BY <2>1, <2>3, <2>4, SlotQuiet
<1>5. ASSUME NEW n \in DOMAIN handler, Emit(n) PROVE SlotInv'
  <2>1. /\ Kept
        /\ handler'[n] = [handler[n] EXCEPT !.pc = "done"]
        /\ \A m \in DOMAIN handler : m # n => handler'[m] = handler[m]
    BY <1>5, ContinueEffect DEF Emit, PCs
  <2>2. handler'[n].pc = "done" /\ handler[n].pc # "awaiting"
    BY <1>5, <1>a, <2>1 DEF Emit, MayEmit, Handlers
  <2>3. slot' = slot
    BY <1>5 DEF Emit
  <2>4. ASSUME NEW d \in drafts'
        PROVE  d \in drafts \/ (d.job = "resync" /\ d.to # {})
    BY <1>5 DEF Emit, Draft
  <2>5. \A d \in drafts' : d.to # {} /\ (d.job = "broadcast" => \E e \in drafts : e.job = "broadcast")
    BY <1>b, <2>4
  <2>6. drafts \subseteq drafts'
    BY <1>5 DEF Emit
  <2> QED
    BY <2>1, <2>2, <2>3, <2>5, <2>6, SlotQuiet
<1>6. ASSUME NEW d \in drafts, Reads(d) PROVE SlotInv'
  <2>1. PICK S : /\ drafts' = (drafts \ {d}) \cup S
                 /\ \A e \in S : Successor(d, e)
                 /\ d.to # {} => S # {}
    BY <1>6, ReadEffect
  <2>2. slot' = slot /\ handler' = handler
    BY <1>6 DEF Reads, ReadTokens, ReadSequence, ReadCanvas
  <2>3. \A e \in S : e.to # {} /\ e.job = d.job
    BY <1>b, <2>1 DEF Successor
  <2>4. \A e \in drafts' : e.to # {} /\ (e.job = "broadcast" => \E x \in drafts : x.job = "broadcast")
    BY <1>b, <2>1, <2>3
  <2>5. \A e \in drafts : e.job = "broadcast" => \E x \in drafts' : x.job = "broadcast"
    BY <1>b, <2>1, <2>3
  <2> QED
    BY <2>2, <2>4, <2>5, SlotQuiet, Unchanged
<1>7. ASSUME NEW d \in drafts, Send(d) PROVE SlotInv'
  <2>1. CASE d.job = "broadcast" /\ Siblings(d) = {}
    <3>1. Settle("done", drafts \ {d})
      BY <1>7, <2>1 DEF Send
    <3>2. \A e \in drafts \ {d} : e.to # {} /\ e.job # "broadcast"
      BY <1>b, <2>1 DEF Siblings
    <3> QED
      BY <3>1, <3>2, SettleSlot
  <2>2. CASE ~ (d.job = "broadcast" /\ Siblings(d) = {})
    <3>1. drafts' = drafts \ {d} /\ handler' = handler /\ slot' = slot
      BY <1>7, <2>2 DEF Send
    <3>2. \A e \in drafts : e.job = "broadcast" => \E x \in drafts' : x.job = "broadcast"
      BY <2>2, <3>1 DEF Siblings
    <3>3. \A e \in drafts' : e.to # {} /\ (e.job = "broadcast" => \E x \in drafts : x.job = "broadcast")
      BY <1>b, <3>1
    <3> QED
      BY <3>1, <3>2, <3>3, SlotQuiet, Unchanged
  <2> QED
    BY <2>1, <2>2
<1>8. ASSUME NEW d \in drafts, Fail(d) PROVE SlotInv'
  <2>1. CASE d.job = "broadcast"
    <3> DEFINE rest == (drafts \ (Siblings(d) \cup {d})) \cup {[e EXCEPT !.job = "stray"] : e \in Siblings(d)}
    <3>1. Settle("failed", rest)
      BY <1>8, <2>1 DEF Fail
    <3>2. ASSUME NEW e \in Drafts, e.to # {}
          PROVE  [e EXCEPT !.job = "stray"].to # {} /\ [e EXCEPT !.job = "stray"].job = "stray"
      BY <3>2 DEF Drafts
    <3>3. \A e \in rest : e.to # {} /\ e.job # "broadcast"
      <4> SUFFICES ASSUME NEW e \in rest PROVE e.to # {} /\ e.job # "broadcast"
        OBVIOUS
      <4>1. CASE e \in drafts \ (Siblings(d) \cup {d})
        BY <1>b, <4>1 DEF Siblings
      <4>2. CASE \E x \in Siblings(d) : e = [x EXCEPT !.job = "stray"]
        <5>1. PICK x \in Siblings(d) : e = [x EXCEPT !.job = "stray"]
          BY <4>2
        <5>2. x \in Drafts /\ x.to # {}
          BY <1>b DEF Siblings, TypeOK
        <5> QED
          BY <3>2, <5>1, <5>2
      <4> QED
        BY <4>1, <4>2
    <3> HIDE DEF rest
    <3> QED
      BY <3>1, <3>3, SettleSlot
  <2>2. CASE d.job # "broadcast"
    <3>1. drafts' = drafts \ {d} /\ handler' = handler /\ slot' = slot
      BY <1>8, <2>2 DEF Fail
    <3>2. \A e \in drafts : e.job = "broadcast" => \E x \in drafts' : x.job = "broadcast"
      BY <2>2, <3>1
    <3>3. \A e \in drafts' : e.to # {} /\ (e.job = "broadcast" => \E x \in drafts : x.job = "broadcast")
      BY <1>b, <3>1
    <3> QED
      BY <3>1, <3>2, <3>3, SlotQuiet, Unchanged
  <2> QED
    BY <2>1, <2>2
<1>9. CASE UNCHANGED vars
  BY <1>9 DEF SlotInv, NobodyIsForgotten, vars
<1>10. ASSUME NEW n \in DOMAIN handler, LoseEvent(n) PROVE SlotInv'
  <2>1. /\ Kept
        /\ handler'[n] = [handler[n] EXCEPT !.pc = "failed"]
        /\ \A m \in DOMAIN handler : m # n => handler'[m] = handler[m]
    BY <1>10, ContinueEffect DEF LoseEvent, PCs
  <2>2. handler'[n].pc = "failed" /\ handler[n].pc # "awaiting"
    BY <1>10, <1>a, <2>1 DEF LoseEvent, Handlers
  <2>3. slot' = slot /\ drafts' = drafts
    BY <1>10 DEF LoseEvent
  <2> QED
    BY <1>b, <2>1, <2>2, <2>3, SlotQuiet
<1> QED
  BY <1>1, <1>2, <1>3, <1>4, <1>5, <1>6, <1>7, <1>8, <1>9, <1>10
     DEF Next, HandlerStep, Serve, DraftStep, Reads

(* broadcast-coalescer.ts:22-48 forgets nobody: a caller is behind the      *)
(* running or the waiting broadcast, whatever has failed, and a broadcast   *)
(* somebody waits for is being built.                                       *)
THEOREM NobodyForgotten == Spec => []NobodyIsForgotten
<1>1. Init => TypeOK /\ SlotInv
  BY TypeInit, SlotInit
<1>2. TypeOK /\ SlotInv /\ [Next]_vars => TypeOK' /\ SlotInv'
  BY TypeStep, SlotStep
<1>3. SlotInv => NobodyIsForgotten
  BY DEF SlotInv
<1> QED
  BY <1>1, <1>2, <1>3, PTL DEF Spec

----------------------------------------------------------------------------
(* The callers of broadcast.                                               *)

LEMMA HandlerIn ==
    ASSUME TypeOK, NEW n \in DOMAIN handler
    PROVE  handler[n] \in Handlers /\ n \in Nat /\ n <= Len(handler) /\ Len(handler) \in Nat
BY ElementOfSeq, LenProperties DEF TypeOK

LEMMA FittingStep ==
    ASSUME TypeOK, Fitting,
           Kept \/ \E kind \in Kinds, i \in Items : Commit(kind, i)
    PROVE  Fitting'
<1>1. CASE Kept
  <2>1. \A n \in DOMAIN handler' : /\ n \in DOMAIN handler
                                   /\ handler'[n].kind = handler[n].kind
                                   /\ handler'[n].item = handler[n].item
    BY <1>1 DEF Kept, Same
  <2> QED
    BY <2>1 DEF Fitting, Fits
<1>2. ASSUME NEW kind \in Kinds, NEW i \in Items, Commit(kind, i) PROVE Fitting'
  <2>1. /\ Len(handler) \in Nat
        /\ DOMAIN handler = 1 .. Len(handler)
        /\ DOMAIN handler' = 1 .. (Len(handler) + 1)
        /\ \A n \in DOMAIN handler : handler'[n] = handler[n]
        /\ handler'[Len(handler) + 1] = Written(kind, i)
    BY <1>2, CommitEffect
  <2>2. Written(kind, i).kind = kind /\ Written(kind, i).item = i
    BY DEF Written
  <2>3. Fits(kind, i)
    BY <1>2 DEF Commit
  <2>4. ASSUME NEW n \in DOMAIN handler'
        PROVE  Fits(handler'[n].kind, handler'[n].item)
    <3>1. n \in DOMAIN handler \/ n = Len(handler) + 1
      BY <2>1
    <3> QED
      BY <2>1, <2>2, <2>3, <3>1 DEF Fitting
  <2> QED
    BY <2>4 DEF Fitting, Fits
<1> QED
  BY <1>1, <1>2

(* What a row or a snapshot includes, it still includes after a step that  *)
(* keeps the requests, and after a write.                                  *)
LEMMA IncludesKept ==
    ASSUME TypeOK, Kept, NEW n \in DOMAIN handler, handler[n].kind \in Broadcasting,
           NEW rev \in Nat, Includes(n, rev)
    PROVE  Includes(n, rev)'
<1>1. /\ DOMAIN handler' = DOMAIN handler
      /\ \A m \in DOMAIN handler : /\ handler'[m].kind = handler[m].kind
                                   /\ handler'[m].item = handler[m].item
      /\ handler'[n].rev = handler[n].rev
  BY DEF Kept, Same, Broadcasting
<1> QED
  BY <1>1 DEF Includes, Undone

LEMMA IncludesWritten ==
    ASSUME TypeOK, NEW kind \in Kinds, NEW i \in Items, Commit(kind, i),
           NEW n \in DOMAIN handler, NEW rev \in Nat, Includes(n, rev)
    PROVE  Includes(n, rev)'
<1>1. /\ DOMAIN handler \subseteq DOMAIN handler'
      /\ \A m \in DOMAIN handler : handler'[m] = handler[m]
  BY CommitEffect
<1> QED
  BY <1>1 DEF Includes, Undone

LEMMA RowWritten ==
    ASSUME TypeOK, Fitting, RowInv, NEW kind \in Kinds, NEW i \in Items, Commit(kind, i)
    PROVE  RowInv'
<1>1. /\ Len(handler) \in Nat
      /\ DOMAIN handler = 1 .. Len(handler)
      /\ DOMAIN handler' = 1 .. (Len(handler) + 1)
      /\ \A n \in DOMAIN handler : handler'[n] = handler[n]
      /\ handler'[Len(handler) + 1] = Written(kind, i)
      /\ rows' \in [Items -> Nat]
      /\ rows'[i] = RevisionAfter(kind, i)
      /\ \A j \in Items : j # i => rows'[j] = rows[j]
  BY CommitEffect
<1>0. PICK last \in Nat : last = Len(handler) + 1
  BY <1>1
<1>2. /\ Written(kind, i).kind = kind /\ Written(kind, i).item = i
      /\ kind # "remove" => Written(kind, i).rev = RevisionAfter(kind, i)
  BY DEF Written
<1>3. Fits(kind, i) /\ Allowed(kind, i) /\ rows[i] \in Nat /\ RevisionAfter(kind, i) \in Nat
  BY Revisions DEF Commit, TypeOK
<1>4. ASSUME NEW n \in DOMAIN handler, handler[n].kind \in Broadcasting
      PROVE  Includes(n, rows[handler[n].item])' /\ (handler'[n].kind # "remove" => handler'[n].rev > 0)
  <2>1. handler[n].item \in Items /\ handler[n].rev \in Nat /\ rows[handler[n].item] \in Nat
    BY HandlerIn, HandlerFields DEF TypeOK
  <2>2. Includes(n, rows[handler[n].item]) /\ (handler[n].kind # "remove" => handler[n].rev > 0)
    BY <1>4 DEF RowInv
  <2>3. /\ n \in DOMAIN handler' /\ last \in DOMAIN handler' /\ last > n
        /\ handler'[n] = handler[n] /\ handler'[last].item = i /\ handler'[last].kind = kind
    BY <1>0, <1>1, <1>2
  <2>4. CASE handler[n].item # i
    <3>1. rows'[handler'[n].item] = rows[handler[n].item]
      BY <1>0, <1>1, <2>1, <2>3, <2>4
    <3>2. ASSUME NEW kinds, Undone(n, kinds) PROVE Undone(n, kinds)'
      BY <1>0, <1>1, <3>2 DEF Undone
    <3> QED
      BY <2>2, <2>3, <3>1, <3>2 DEF Includes
  <2>5. CASE handler[n].item = i
    <3>1. kind \notin Creating
      BY <1>3, <2>5 DEF Allowed, Used, Creating
    <3>2. handler[n].kind \in TokenKinds /\ i \in Tokens
      BY <1>4, <2>5, ItemsAssumption
         DEF Fitting, Fits, Broadcasting, TokenKinds, DrawingKinds
    <3>3. kind \notin DrawingKinds
      BY <1>3, <3>2, ItemsAssumption DEF Fits, DrawingKinds, TokenKinds
    <3>4. CASE rows[i] = 0
      <4>1. kind = "restore"
        BY <1>3, <3>1, <3>4 DEF Allowed, Creating
      <4>2. handler[n].kind = "remove" \/ Undone(n, {"remove"})
        BY <2>1, <2>2, <2>5, <3>4 DEF Includes
      <4>3. handler[n].kind = "remove" => Undone(n, {"restore"})'
        BY <2>3, <2>5, <4>1 DEF Undone
      <4>4. Undone(n, {"remove"}) => Undone(n, {"remove"})'
        BY <1>0, <1>1 DEF Undone
      <4> QED
        BY <2>2, <2>3, <4>2, <4>3, <4>4 DEF Includes
    <3>5. CASE rows[i] # 0 /\ handler[n].kind = "remove"
      <4>1. Undone(n, {"restore"})
        BY <2>2, <2>5, <3>5 DEF Includes
      <4>2. Undone(n, {"restore"})'
        BY <1>0, <1>1, <4>1 DEF Undone
      <4> QED
        BY <2>3, <3>5, <4>2 DEF Includes
    <3>6. CASE rows[i] # 0 /\ handler[n].kind # "remove"
      <4>1. Undone(n, {"remove"}) => Undone(n, {"remove"})'
        BY <1>0, <1>1 DEF Undone
      <4>2. CASE kind = "remove"
        <5>1. Undone(n, {"remove"})'
          BY <2>3, <2>5, <4>2 DEF Undone
        <5> QED
          BY <2>2, <2>3, <3>6, <5>1 DEF Includes
      <4>3. CASE kind # "remove"
        <5>1. rows'[i] = rows[i] + 1
          BY <1>0, <1>1, <1>3, <3>1, <3>3, <3>6, <4>3
             DEF RevisionAfter, Allowed, Deleting, DrawingKinds
        <5>2. rows[i] >= handler[n].rev \/ Undone(n, {"remove"})
          BY <2>2, <2>5, <3>6 DEF Includes
        <5>3. rows'[i] >= handler'[n].rev \/ Undone(n, {"remove"})'
          BY <1>3, <2>1, <2>3, <4>1, <5>1, <5>2
        <5> QED
          BY <2>2, <2>3, <2>5, <3>6, <5>3 DEF Includes
      <4> QED
        BY <4>2, <4>3
    <3> QED
      BY <3>4, <3>5, <3>6
  <2> QED
    BY <2>4, <2>5
<1>5. ASSUME kind \in Broadcasting
      PROVE  Includes(last, rows[handler[last].item])' /\ (handler'[last].kind # "remove" => handler'[last].rev > 0)
  <2>1. handler'[last].kind = kind /\ handler'[last].item = i
        /\ (kind # "remove" => handler'[last].rev = RevisionAfter(kind, i))
    BY <1>0, <1>1, <1>2
  <2>2. kind = "remove" => rows'[i] = 0
    BY <1>0, <1>1 DEF RevisionAfter, Creating, Deleting
  <2>3. kind # "remove" => RevisionAfter(kind, i) > 0
    <3>1. CASE kind = "restore"
      <4> DEFINE was == CHOOSE n \in DOMAIN handler : LastRemoval(n, i)
      <4>1. was \in DOMAIN handler
        BY <1>3, <3>1 DEF Allowed, Creating
      <4>2. handler[was].rev \in Nat
        BY <4>1, HandlerIn, HandlerFields
      <4>3. RevisionAfter(kind, i) = 1 + handler[was].rev
        BY <3>1 DEF RevisionAfter, Creating, Deleting
      <4> QED
        BY <4>2, <4>3
    <3>2. CASE kind # "restore"
      BY <1>3, <1>5, <3>2 DEF RevisionAfter, Creating, Deleting, Broadcasting
    <3> QED
      BY <3>1, <3>2
  <2>4. rows'[handler'[last].item] = RevisionAfter(kind, i)
    BY <1>0, <1>1, <2>1
  <2>5. CASE kind = "remove"
    BY <1>0, <1>1, <2>1, <2>2, <2>4, <2>5 DEF Includes
  <2>6. CASE kind # "remove"
    <3>1. rows'[handler'[last].item] >= handler'[last].rev
      BY <1>3, <2>1, <2>4, <2>6
    <3> QED
      BY <2>1, <2>3, <2>6, <3>1 DEF Includes
  <2> QED
    BY <2>5, <2>6
<1>6. ASSUME NEW n \in DOMAIN handler', handler'[n].kind \in Broadcasting
      PROVE  Includes(n, rows[handler[n].item])' /\ (handler'[n].kind # "remove" => handler'[n].rev > 0)
  <2>1. n \in DOMAIN handler \/ n = last
    BY <1>0, <1>1
  <2>2. CASE n \in DOMAIN handler
    BY <1>0, <1>1, <1>4, <1>6, <2>2
  <2>3. CASE n = last
    <3>1. kind \in Broadcasting
      BY <1>0, <1>1, <1>2, <1>6, <2>3
    <3> QED
      BY <1>5, <2>3, <3>1
  <2> QED
    BY <2>1, <2>2, <2>3
<1> QED
  BY <1>6 DEF RowInv, Broadcasting

LEMMA RowKept ==
    ASSUME TypeOK, RowInv, Kept, rows' = rows
    PROVE  RowInv'
<1>1. ASSUME NEW n \in DOMAIN handler', handler'[n].kind \in Broadcasting
      PROVE  Includes(n, rows[handler[n].item])' /\ (handler'[n].kind # "remove" => handler'[n].rev > 0)
  <2>1. /\ n \in DOMAIN handler
        /\ handler'[n].kind = handler[n].kind /\ handler'[n].item = handler[n].item
        /\ handler'[n].rev = handler[n].rev
    BY <1>1 DEF Kept, Same, Broadcasting
  <2>2. Includes(n, rows[handler[n].item]) /\ (handler[n].kind # "remove" => handler[n].rev > 0)
    BY <1>1, <2>1 DEF RowInv
  <2>3. rows[handler[n].item] \in Nat
    BY <2>1, HandlerIn, HandlerFields DEF TypeOK
  <2>4. ASSUME NEW kinds, Undone(n, kinds) PROVE Undone(n, kinds)'
    BY <2>4 DEF Undone, Kept, Same
  <2> QED
    BY <2>1, <2>2, <2>4 DEF Includes
<1> QED
  BY <1>1 DEF RowInv, Broadcasting

(* A step other than a write keeps the requests and the rows.              *)
Unwritten ==
    \/ \E n \in DOMAIN handler : HandlerStep(n)
    \/ Serve
    \/ \E d \in drafts : Fail(d)
    \/ UNCHANGED vars

LEMMA UnwrittenKeeps ==
    ASSUME TypeOK, Unwritten
    PROVE  Kept /\ rows' = rows
<1>1. ASSUME NEW n \in DOMAIN handler, HandlerStep(n) PROVE Kept /\ rows' = rows
  <2>1. CASE CallBroadcast(n)
    BY <2>1, ContinueEffect DEF CallBroadcast, PCs
  <2>2. CASE CallSettled(n)
    BY <2>2, ContinueEffect DEF CallSettled, PCs
  <2>3. CASE Project(n)
    <3>1. Kept
      BY <2>3, ProjectEffect
    <3> QED
      BY <2>3, <3>1 DEF Project
  <2>4. CASE Emit(n)
    BY <2>4, ContinueEffect DEF Emit, PCs
  <2>5. CASE LoseEvent(n)
    BY <2>5, ContinueEffect DEF LoseEvent, PCs
  <2> QED
    BY <1>1, <2>1, <2>2, <2>3, <2>4, <2>5 DEF HandlerStep
<1>2. ASSUME NEW d \in drafts, Reads(d) PROVE Kept /\ rows' = rows
  BY <1>2, Unchanged DEF Reads, ReadTokens, ReadSequence, ReadCanvas
<1>3. ASSUME NEW d \in drafts, Send(d) PROVE Kept /\ rows' = rows
  <2>1. Kept
    BY <1>3, SettleEffect, Unchanged DEF Send, PCs
  <2> QED
    BY <1>3, <2>1 DEF Send
<1>4. ASSUME NEW d \in drafts, Fail(d) PROVE Kept /\ rows' = rows
  <2> DEFINE rest == (drafts \ (Siblings(d) \cup {d})) \cup {[e EXCEPT !.job = "stray"] : e \in Siblings(d)}
  <2>1. rows' = rows /\ (handler' = handler \/ Settle("failed", rest))
    BY <1>4 DEF Fail
  <2> HIDE DEF rest
  <2> QED
    BY <2>1, SettleEffect, Unchanged DEF PCs
<1>5. CASE UNCHANGED vars
  BY <1>5, Unchanged DEF vars
<1> QED
  BY <1>1, <1>2, <1>3, <1>4, <1>5 DEF Unwritten, Serve, DraftStep, Reads

LEMMA NextSplit ==
    ASSUME [Next]_vars
    PROVE  Unwritten \/ \E kind \in Kinds, i \in Items : Commit(kind, i)
BY DEF Next, Unwritten

LEMMA RowInit == Init => Fitting /\ RowInv
BY EmptySeq DEF Init, Fitting, RowInv

LEMMA RowStep ==
    ASSUME TypeOK, Fitting, RowInv, [Next]_vars
    PROVE  Fitting' /\ RowInv'
<1>1. CASE Unwritten
  BY <1>1, UnwrittenKeeps, FittingStep, RowKept
<1>2. CASE \E kind \in Kinds, i \in Items : Commit(kind, i)
  BY <1>2, FittingStep, RowWritten
<1> QED
  BY <1>1, <1>2, NextSplit

(* What one broadcast draft owes to one caller.                            *)
Serves(d, n) ==
    /\ d.version # Unread => n <= d.version
    /\ d.seen[handler[n].item] # Unread => Includes(n, d.seen[handler[n].item])

LEMMA ServesKept ==
    ASSUME TypeOK, Kept, NEW d \in Drafts, NEW n \in DOMAIN handler,
           handler[n].kind \in Broadcasting, Serves(d, n)
    PROVE  Serves(d, n)'
<1>1. handler'[n].item = handler[n].item /\ handler[n].item \in Items
  BY HandlerIn, HandlerFields DEF Kept, Same
<1> DEFINE rev == d.seen[handler[n].item]
<1>2. rev # Unread => rev \in Nat
  BY <1>1, DraftFields
<1>3. rev # Unread => Includes(n, rev)
  BY DEF Serves
<1>4. PICK r \in Nat \cup {Unread} : r = rev
  BY <1>1, DraftFields
<1>5. r # Unread => Includes(n, r)'
  BY <1>2, <1>3, <1>4, IncludesKept
<1>6. ASSUME r # Unread PROVE Includes(n, d.seen[handler[n].item])'
  BY <1>1, <1>4, <1>5, <1>6 DEF Includes
<1> QED
  BY <1>1, <1>4, <1>6 DEF Serves

LEMMA ServesWritten ==
    ASSUME TypeOK, NEW kind \in Kinds, NEW i \in Items, Commit(kind, i),
           NEW d \in Drafts, NEW n \in DOMAIN handler, Serves(d, n)
    PROVE  Serves(d, n)'
<1>1. handler'[n].item = handler[n].item /\ handler[n].item \in Items
  BY CommitEffect, HandlerIn, HandlerFields
<1>2. PICK r \in Nat \cup {Unread} : r = d.seen[handler[n].item]
  BY <1>1, DraftFields
<1>3. ASSUME r # Unread PROVE Includes(n, r)'
  <2>1. r \in Nat
    BY <1>3
  <2>2. Includes(n, r)
    BY <1>2, <1>3 DEF Serves
  <2> QED
    BY <2>1, <2>2, IncludesWritten
<1>4. ASSUME r # Unread PROVE Includes(n, d.seen[handler[n].item])'
  BY <1>1, <1>2, <1>3, <1>4 DEF Includes
<1> QED
  BY <1>1, <1>2, <1>4 DEF Serves

LEMMA ServesRead ==
    ASSUME TypeOK, RowInv, NEW d \in Drafts, NEW e, Successor(d, e),
           NEW n \in DOMAIN handler, handler[n].kind \in Broadcasting, Serves(d, n)
    PROVE  Serves(e, n)
<1>1. handler[n].item \in Items /\ n <= Len(handler)
  BY HandlerIn, HandlerFields
<1>2. Includes(n, rows[handler[n].item])
  BY DEF RowInv
<1>3. e.version # Unread => n <= e.version
  BY <1>1 DEF Successor, Serves
<1>4. \/ e.seen[handler[n].item] = d.seen[handler[n].item]
      \/ e.seen[handler[n].item] = rows[handler[n].item]
  BY <1>1 DEF Successor
<1> QED
  BY <1>2, <1>3, <1>4 DEF Serves

LEMMA ServedAlt ==
    CallersAreServed <=>
        \A d \in drafts : d.job = "broadcast" => \A n \in slot.running : Serves(d, n)
BY DEF CallersAreServed, Serves

LEMMA Caller ==
    ASSUME TypeOK, SlotInv, NEW n \in slot.running
    PROVE  n \in DOMAIN handler /\ handler[n].kind \in Broadcasting
BY SlotFields DEF SlotInv

(* A step that adds no broadcast draft and no caller of the running one.   *)
LEMMA ServedQuiet ==
    ASSUME TypeOK, SlotInv, CallersAreServed, Kept, slot'.running = slot.running,
           \A d \in drafts' : d.job = "broadcast" => d \in drafts
    PROVE  CallersAreServed'
<1>1. ASSUME NEW d \in drafts', d.job = "broadcast", NEW n \in slot'.running
      PROVE  Serves(d, n)'
  <2>1. d \in drafts /\ d \in Drafts /\ n \in DOMAIN handler /\ handler[n].kind \in Broadcasting
    BY <1>1, Caller DEF TypeOK
  <2>2. Serves(d, n)
    BY <1>1, <2>1, ServedAlt
  <2> QED
    BY <2>1, <2>2, ServesKept
<1> QED
  BY <1>1 DEF CallersAreServed, Serves

LEMMA SettleServes ==
    ASSUME TypeOK, NEW outcome \in {"done", "failed"}, NEW rest, Settle(outcome, rest),
           \A e \in rest : e.job # "broadcast"
    PROVE  CallersAreServed'
<1>1. Kept
  BY SettleEffect DEF PCs
<1>2. slot'.running \subseteq DOMAIN handler
  BY SlotFields DEF Settle
<1>3. \A n \in slot'.running : handler'[n].item \in Items
  BY <1>1, <1>2, HandlerIn, HandlerFields DEF Kept, Same
<1>4. \A d \in drafts' : d.job = "broadcast" => d = Draft("broadcast", Clients, "-")
  BY DEF Settle
<1>5. ASSUME NEW d \in drafts', d.job = "broadcast", NEW n \in slot'.running
      PROVE  /\ d.version = Unread
             /\ d.seen[handler'[n].item] = Unread
  BY <1>3, <1>4, <1>5 DEF Draft
<1> QED
  BY <1>5 DEF CallersAreServed

LEMMA ServedStep ==
    ASSUME TypeOK, SlotInv, RowInv, CallersAreServed, [Next]_vars
    PROVE  CallersAreServed'
<1>1. ASSUME NEW kind \in Kinds, NEW i \in Items, Commit(kind, i) PROVE CallersAreServed'
  <2>1. slot' = slot /\ drafts' = drafts
    BY <1>1 DEF Commit
  <2>2. ASSUME NEW d \in drafts, d.job = "broadcast", NEW n \in slot.running
        PROVE  Serves(d, n)'
    <3>1. n \in DOMAIN handler /\ d \in Drafts
      BY Caller DEF TypeOK
    <3>2. Serves(d, n)
      BY <2>2, ServedAlt
    <3> QED
      BY <1>1, <3>1, <3>2, ServesWritten
  <2> QED
    BY <2>1, <2>2 DEF CallersAreServed, Serves
<1>2. ASSUME NEW n \in DOMAIN handler, CallBroadcast(n) PROVE CallersAreServed'
  <2>1. Kept
    BY <1>2, ContinueEffect DEF CallBroadcast, PCs
  <2>2. CASE slot.running = {}
    <3>1. \A d \in drafts : d.job # "broadcast"
      BY <2>2 DEF SlotInv
    <3>2. drafts' = drafts \cup {Draft("broadcast", Clients, "-")} /\ slot'.running = {n}
      BY <1>2, <2>2 DEF CallBroadcast, TypeOK
    <3>3. handler'[n].item \in Items
      BY <2>1, HandlerIn, HandlerFields DEF Kept, Same
    <3>4. ASSUME NEW d \in drafts', d.job = "broadcast"
          PROVE  d.version = Unread /\ d.seen[handler'[n].item] = Unread
      BY <3>1, <3>2, <3>3, <3>4 DEF Draft
    <3> QED
      BY <3>2, <3>4 DEF CallersAreServed
  <2>3. CASE slot.running # {}
    BY <1>2, <2>1, <2>3, ServedQuiet DEF CallBroadcast, TypeOK
  <2> QED
    BY <2>2, <2>3
<1>3. ASSUME NEW n \in DOMAIN handler, CallSettled(n) PROVE CallersAreServed'
  <2>1. Kept
    BY <1>3, ContinueEffect DEF CallSettled, PCs
  <2> QED
    BY <1>3, <2>1, ServedQuiet DEF CallSettled
<1>4. ASSUME NEW n \in DOMAIN handler, Project(n) PROVE CallersAreServed'
  <2>1. Kept
    BY <1>4, ProjectEffect
  <2>2. slot' = slot /\ drafts' = drafts
    BY <1>4 DEF Project
  <2> QED
    BY <2>1, <2>2, ServedQuiet
<1>5. ASSUME NEW n \in DOMAIN handler, Emit(n) PROVE CallersAreServed'
  <2>1. Kept /\ slot' = slot
    BY <1>5, ContinueEffect DEF Emit, PCs
  <2>2. \A d \in drafts' : d.job = "broadcast" => d \in drafts
    BY <1>5 DEF Emit, Draft
  <2> QED
    BY <2>1, <2>2, ServedQuiet
<1>6. ASSUME NEW d \in drafts, Reads(d) PROVE CallersAreServed'
  <2>1. PICK S : drafts' = (drafts \ {d}) \cup S /\ \A e \in S : Successor(d, e)
    BY <1>6, ReadEffect
  <2>2. slot' = slot /\ handler' = handler
    BY <1>6 DEF Reads, ReadTokens, ReadSequence, ReadCanvas
  <2>3. ASSUME NEW e \in drafts', e.job = "broadcast", NEW n \in slot.running
        PROVE  Serves(e, n)
    <3>1. CASE e \in drafts
      BY <2>3, <3>1, ServedAlt
    <3>2. CASE e \in S
      <4>1. Successor(d, e) /\ d.job = "broadcast" /\ d \in Drafts
        BY <2>1, <2>3, <3>2 DEF Successor, TypeOK
      <4>2. Serves(d, n)
        BY <4>1, ServedAlt
      <4> QED
        BY <4>1, <4>2, Caller, ServesRead
    <3> QED
      BY <2>1, <3>1, <3>2
  <2> QED
    BY <2>2, <2>3 DEF CallersAreServed, Serves, Includes, Undone
<1>7. ASSUME NEW d \in drafts, Send(d) PROVE CallersAreServed'
  <2>1. CASE d.job = "broadcast" /\ Siblings(d) = {}
    <3>1. Settle("done", drafts \ {d})
      BY <1>7, <2>1 DEF Send
    <3>2. \A e \in drafts \ {d} : e.job # "broadcast"
      BY <2>1 DEF Siblings
    <3> QED
      BY <3>1, <3>2, SettleServes
  <2>2. CASE ~ (d.job = "broadcast" /\ Siblings(d) = {})
    <3>1. drafts' = drafts \ {d} /\ handler' = handler /\ slot' = slot
      BY <1>7, <2>2 DEF Send
    <3> QED
      BY <3>1, ServedQuiet, Unchanged
  <2> QED
    BY <2>1, <2>2
<1>8. ASSUME NEW d \in drafts, Fail(d) PROVE CallersAreServed'
  <2>1. CASE d.job = "broadcast"
    <3> DEFINE rest == (drafts \ (Siblings(d) \cup {d})) \cup {[e EXCEPT !.job = "stray"] : e \in Siblings(d)}
    <3>1. Settle("failed", rest)
      BY <1>8, <2>1 DEF Fail
    <3>2. ASSUME NEW e \in Drafts
          PROVE  [e EXCEPT !.job = "stray"].job = "stray"
      BY DEF Drafts
    <3>3. \A e \in rest : e.job # "broadcast"
      BY <3>2 DEF Siblings, TypeOK
    <3> HIDE DEF rest
    <3> QED
      BY <3>1, <3>3, SettleServes
  <2>2. CASE d.job # "broadcast"
    <3>1. drafts' = drafts \ {d} /\ handler' = handler /\ slot' = slot
      BY <1>8, <2>2 DEF Fail
    <3> QED
      BY <3>1, ServedQuiet, Unchanged
  <2> QED
    BY <2>1, <2>2
<1>9. CASE UNCHANGED vars
  BY <1>9, ServedQuiet, Unchanged DEF vars
<1>10. ASSUME NEW n \in DOMAIN handler, LoseEvent(n) PROVE CallersAreServed'
  <2>1. Kept
    BY <1>10, ContinueEffect DEF LoseEvent, PCs
  <2> QED
    BY <1>10, <2>1, ServedQuiet DEF LoseEvent
<1> QED
  BY <1>1, <1>2, <1>3, <1>4, <1>5, <1>6, <1>7, <1>8, <1>9, <1>10
     DEF Next, HandlerStep, Serve, DraftStep, Reads

(* broadcast-coalescer.ts:10-13 serves its callers: what the broadcast a    *)
(* caller awaits has read, it read after the change of the caller, however  *)
(* writes, broadcasts and failures are interleaved.                         *)
THEOREM CallersServed == Spec => []CallersAreServed
<1>1. Init => TypeOK /\ SlotInv /\ Fitting /\ RowInv /\ CallersAreServed
  BY TypeInit, SlotInit, RowInit DEF Init, CallersAreServed
<1>2. TypeOK /\ SlotInv /\ Fitting /\ RowInv /\ CallersAreServed /\ [Next]_vars
         => TypeOK' /\ SlotInv' /\ Fitting' /\ RowInv' /\ CallersAreServed'
  BY TypeStep, SlotStep, RowStep, ServedStep
<1> QED
  BY <1>1, <1>2, PTL DEF Spec

----------------------------------------------------------------------------
(* The drawings.                                                           *)

LEMMA LastInit == Init => LastInv
BY EmptySeq DEF Init, LastInv

(* A write is the last of its drawing and makes the row; what the others of *)
(* the drawing made of it is of no account any more.                        *)
LEMMA LastStep ==
    ASSUME TypeOK, Fitting, LastInv, [Next]_vars
    PROVE  LastInv'
<1>1. CASE Unwritten
  <2>1. /\ DOMAIN handler' = DOMAIN handler /\ rows' = rows
        /\ \A n \in DOMAIN handler : handler'[n].item = handler[n].item
    BY <1>1, UnwrittenKeeps DEF Kept, Same
  <2>2. ASSUME NEW n \in DOMAIN handler, handler[n].item \in Drawings
        PROVE  handler'[n].rev = handler[n].rev
    <3>1. handler[n].kind # "edit"
      BY <2>2, ItemsAssumption DEF Fitting, Fits, DrawingKinds, TokenKinds
    <3> QED
      BY <1>1, <3>1, UnwrittenKeeps DEF Kept, Same
  <2>3. ASSUME NEW n \in DOMAIN handler', handler'[n].item \in Drawings,
               \A m \in DOMAIN handler' : handler'[m].item = handler'[n].item => m <= n
        PROVE  handler'[n].rev = rows'[handler'[n].item]
    BY <2>1, <2>2, <2>3 DEF LastInv, Covers
  <2> QED
    BY <2>3 DEF LastInv, Covers
<1>2. ASSUME NEW kind \in Kinds, NEW i \in Items, Commit(kind, i) PROVE LastInv'
  <2>1. /\ Len(handler) \in Nat
        /\ DOMAIN handler = 1 .. Len(handler)
        /\ DOMAIN handler' = 1 .. (Len(handler) + 1)
        /\ \A n \in DOMAIN handler : handler'[n] = handler[n]
        /\ handler'[Len(handler) + 1] = Written(kind, i)
        /\ rows'[i] = RevisionAfter(kind, i)
        /\ \A j \in Items : j # i => rows'[j] = rows[j]
    BY <1>2, CommitEffect
  <2>2. /\ Written(kind, i).kind = kind /\ Written(kind, i).item = i
        /\ kind # "remove" => Written(kind, i).rev = RevisionAfter(kind, i)
    BY DEF Written
  <2>3. i \in Drawings => kind # "remove"
    BY <1>2, ItemsAssumption DEF Commit, Fits, DrawingKinds, TokenKinds
  <2>4. PICK last \in Nat : last = Len(handler) + 1
    BY <2>1
  <2>5. ASSUME NEW n \in DOMAIN handler', handler'[n].item \in Drawings,
               \A m \in DOMAIN handler' : handler'[m].item = handler'[n].item => m <= n
        PROVE  handler'[n].rev = rows'[handler'[n].item]
    <3>1. CASE n = last
      BY <2>1, <2>2, <2>3, <2>4, <2>5, <3>1
    <3>2. CASE n # last
      <4>1. n \in DOMAIN handler /\ handler'[n] = handler[n]
        BY <2>1, <2>4, <3>2
      <4>2. handler[n].item # i
        BY <2>1, <2>2, <2>4, <2>5, <4>1
      <4>3. \A m \in DOMAIN handler : handler[m].item = handler[n].item => m <= n
        BY <2>1, <2>5, <4>1
      <4>4. rows'[handler[n].item] = rows[handler[n].item]
        BY <2>1, <4>1, <4>2, HandlerIn, HandlerFields
      <4> QED
        BY <2>5, <4>1, <4>3, <4>4 DEF LastInv, Covers
    <3> QED
      BY <3>1, <3>2
  <2> QED
    BY <2>5 DEF LastInv, Covers
<1> QED
  BY <1>1, <1>2, NextSplit

(* The event of the last write of the drawing is the last that went out.   *)
Published(i) == Covers(shown[i], i)

(* DrawnInv, for one draft and for one drawing on one client.              *)
DraftDrawn(d) ==
    /\ \A i \in Drawings : d.seen[i] # Unread =>
          d.version # Unread /\ (Covers(d.version, i) => d.seen[i] = rows[i])
    /\ d.version # Unread => d.version <= Len(handler)

ClientDrawn(c, i) ==
    Published(i) => Covers(client[c].version, i) /\ client[c].view[i] = rows[i]

LEMMA DrawnAlt ==
    DrawnInv <=> /\ \A d \in drafts : DraftDrawn(d)
                 /\ \A c \in Clients, i \in Drawings : ClientDrawn(c, i)
                 /\ \A i \in Drawings : shown[i] <= Len(handler)
BY DEF DrawnInv, DraftDrawn, ClientDrawn, Published

(* Drafts.                                                                 *)
LEMMA DraftKept ==
    ASSUME TypeOK, Kept, rows' = rows, NEW d, DraftDrawn(d)
    PROVE  DraftDrawn(d)'
<1>1. /\ DOMAIN handler' = DOMAIN handler /\ Len(handler') = Len(handler)
      /\ \A n \in DOMAIN handler : handler'[n].item = handler[n].item
  BY DEF Kept, Same
<1> QED
  BY <1>1 DEF DraftDrawn, Covers

LEMMA NewDraftDrawn ==
    ASSUME NEW job, NEW to, NEW cause
    PROVE  \A d : d = Draft(job, to, cause) => DraftDrawn(d)'
BY DEF Draft, DraftDrawn, Items

LEMMA StrayDrawn ==
    ASSUME NEW d \in Drafts, DraftDrawn(d)
    PROVE  \A e : e = [d EXCEPT !.job = "stray"] => DraftDrawn(e)
BY DEF Drafts, DraftDrawn

LEMMA ReadDrawn ==
    ASSUME TypeOK, NEW d \in Drafts, DraftDrawn(d), NEW e, Successor(d, e)
    PROVE  DraftDrawn(e)
<1>1. Len(handler) \in Nat
  BY LenProperties DEF TypeOK
<1>2. e.version # Unread => e.version <= Len(handler)
  BY <1>1, DraftFields DEF Successor, DraftDrawn
<1>3. ASSUME NEW i \in Drawings, e.seen[i] # Unread
      PROVE  e.version # Unread /\ (Covers(e.version, i) => e.seen[i] = rows[i])
  <2>1. i \in Items
    BY DEF Items
  <2>2. CASE e.seen[i] = d.seen[i]
    <3>1. d.version # Unread /\ (Covers(d.version, i) => d.seen[i] = rows[i])
      BY <1>3, <2>2 DEF DraftDrawn
    <3>2. e.version = d.version
      BY <3>1 DEF Successor
    <3> QED
      BY <2>2, <3>1, <3>2
  <2>3. CASE e.seen[i] = rows[i] /\ d.version # Unread /\ e.version = d.version
    BY <2>3
  <2> QED
    BY <2>1, <2>2, <2>3 DEF Successor
<1> QED
  BY <1>2, <1>3 DEF DraftDrawn

LEMMA DraftsStep ==
    ASSUME TypeOK, Unwritten, \A d \in drafts : DraftDrawn(d)
    PROVE  \A d \in drafts' : DraftDrawn(d)'
<1>1. ASSUME NEW d \in drafts, DraftDrawn(d) PROVE DraftDrawn(d)'
  BY <1>1, UnwrittenKeeps, DraftKept
<1>2. ASSUME drafts' \subseteq drafts PROVE \A d \in drafts' : DraftDrawn(d)'
  BY <1>1, <1>2
<1>3. ASSUME NEW n \in DOMAIN handler, CallBroadcast(n) PROVE \A d \in drafts' : DraftDrawn(d)'
  <2>1. drafts' \subseteq drafts \cup {Draft("broadcast", Clients, "-")}
    BY <1>3 DEF CallBroadcast
  <2> QED
    BY <1>1, <2>1, NewDraftDrawn
<1>4. ASSUME NEW n \in DOMAIN handler, Emit(n) PROVE \A d \in drafts' : DraftDrawn(d)'
  <2>1. \A d \in drafts' : d \in drafts \/ \E c \in Clients : d = Draft("resync", {c}, handler[n].item)
    BY <1>4 DEF Emit
  <2>2. ASSUME NEW d \in drafts', NEW c \in Clients, d = Draft("resync", {c}, handler[n].item)
        PROVE  DraftDrawn(d)'
    BY <2>2, NewDraftDrawn
  <2> QED
    BY <1>1, <2>1, <2>2
<1>5. ASSUME NEW d \in drafts, Reads(d) PROVE \A e \in drafts' : DraftDrawn(e)'
  <2>1. PICK S : drafts' = (drafts \ {d}) \cup S /\ \A e \in S : Successor(d, e)
    BY <1>5, ReadEffect
  <2>2. handler' = handler /\ rows' = rows
    BY <1>5 DEF Reads, ReadTokens, ReadSequence, ReadCanvas
  <2>3. \A e \in S : DraftDrawn(e)
    BY <2>1, ReadDrawn DEF TypeOK
  <2>4. ASSUME NEW e \in S PROVE DraftDrawn(e)'
    BY <2>2, <2>3, Unchanged, DraftKept
  <2> QED
    BY <1>1, <2>1, <2>4
<1>6. ASSUME NEW outcome, NEW rest, Settle(outcome, rest), \A e \in rest : DraftDrawn(e)'
      PROVE  \A d \in drafts' : DraftDrawn(d)'
  <2>1. drafts' \subseteq rest \cup {Draft("broadcast", Clients, "-")}
    BY <1>6 DEF Settle
  <2> QED
    BY <1>6, <2>1, NewDraftDrawn
<1>7. ASSUME NEW d \in drafts, Send(d) PROVE \A e \in drafts' : DraftDrawn(e)'
  <2>1. drafts' = drafts \ {d} \/ Settle("done", drafts \ {d})
    BY <1>7 DEF Send
  <2> QED
    BY <1>1, <1>6, <2>1
<1>8. ASSUME NEW d \in drafts, Fail(d) PROVE \A e \in drafts' : DraftDrawn(e)'
  <2> DEFINE rest == (drafts \ (Siblings(d) \cup {d})) \cup {[e EXCEPT !.job = "stray"] : e \in Siblings(d)}
  <2>1. drafts' = drafts \ {d} \/ Settle("failed", rest)
    BY <1>8 DEF Fail
  <2>2. \A e \in rest : e \in drafts \/ \E x \in drafts : e = [x EXCEPT !.job = "stray"]
    BY DEF Siblings
  <2> HIDE DEF rest
  <2>3. ASSUME NEW e \in rest PROVE DraftDrawn(e)
    BY <2>2, StrayDrawn DEF TypeOK
  <2>4. Kept /\ rows' = rows
    BY UnwrittenKeeps
  <2>5. ASSUME NEW e \in rest PROVE DraftDrawn(e)'
    BY <2>3, <2>4, DraftKept
  <2> QED
    BY <1>1, <1>6, <2>1, <2>5
<1>9. ASSUME NEW n \in DOMAIN handler, CallSettled(n) \/ Project(n) \/ LoseEvent(n)
      PROVE  drafts' \subseteq drafts
  BY <1>9 DEF CallSettled, Project, LoseEvent
<1>10. CASE UNCHANGED vars
  BY <1>2, <1>10 DEF vars
<1> QED
  BY <1>2, <1>3, <1>4, <1>5, <1>7, <1>8, <1>9, <1>10
     DEF Unwritten, HandlerStep, Serve, DraftStep, Reads

(* Clients.                                                                *)
LEMMA CoversMore ==
    ASSUME TypeOK, NEW v \in Nat, NEW w \in Nat, v <= w, NEW i, Covers(v, i)
    PROVE  Covers(w, i)
BY HandlerIn DEF Covers

(* A client whose view does not change, while no write of i is published.  *)
LEMMA ClientKept ==
    ASSUME TypeOK, Unwritten, NEW c \in Clients, NEW i \in Drawings, ClientDrawn(c, i),
           client'[c] = client[c],
           Published(i)' => Published(i)
    PROVE  ClientDrawn(c, i)'
<1>1. /\ DOMAIN handler' = DOMAIN handler /\ rows' = rows
      /\ \A n \in DOMAIN handler : handler'[n].item = handler[n].item
  BY UnwrittenKeeps DEF Kept, Same
<1>2. ASSUME Published(i)'
      PROVE  Covers(client[c].version, i)' /\ client'[c].view[i] = rows'[i]
  <2>1. Covers(client[c].version, i) /\ client[c].view[i] = rows[i]
    BY <1>2 DEF ClientDrawn
  <2> QED
    BY <1>1, <2>1 DEF Covers
<1> QED
  BY <1>2 DEF ClientDrawn, Covers

(* Everything but an event of the drawing leaves what was shown of it.     *)
LEMMA PublishedStep ==
    ASSUME TypeOK, Unwritten, NEW i \in Drawings,
           \A n \in DOMAIN handler : handler[n].item = i => ~ Emit(n)
    PROVE  shown'[i] = shown[i] /\ (Published(i)' => Published(i))
<1>1. /\ DOMAIN handler' = DOMAIN handler
      /\ \A n \in DOMAIN handler : handler'[n].item = handler[n].item
  BY UnwrittenKeeps DEF Kept, Same
<1>2. shown'[i] = shown[i]
  <2>1. ASSUME NEW n \in DOMAIN handler, Emit(n) PROVE shown'[i] = shown[i]
    BY <2>1 DEF Emit
  <2>2. CASE \A n \in DOMAIN handler : ~ Emit(n)
    BY <2>2 DEF Unwritten, HandlerStep, Serve, DraftStep, CallBroadcast, CallSettled, Project,
                LoseEvent, ReadTokens, ReadSequence, ReadCanvas, Send, Fail, vars
  <2> QED
    BY <2>1, <2>2
<1> QED
  BY <1>1, <1>2 DEF Published, Covers

LEMMA EmitDrawn ==
    ASSUME TypeOK, Fitting, LastInv, NEW n \in DOMAIN handler, Emit(n),
           NEW c \in Clients, NEW i \in Drawings, ClientDrawn(c, i)
    PROVE  ClientDrawn(c, i)'
<1> DEFINE cl == Receives(client[c], handler[n], n)
<1>a. handler[n] \in Handlers /\ n \in Nat /\ client[c] \in Views /\ i \in Items
  BY HandlerIn DEF TypeOK, Items
<1>b. client'[c] = cl
  BY DEF Emit
<1>c. Unwritten
  BY DEF Unwritten, HandlerStep
<1>d. /\ DOMAIN handler' = DOMAIN handler /\ rows' = rows
      /\ \A m \in DOMAIN handler : handler'[m].item = handler[m].item
  BY <1>c, UnwrittenKeeps DEF Kept, Same
<1>e. /\ Patched(client[c], handler[n], n).version \in Nat
      /\ Patched(client[c], handler[n], n).version >= n
      /\ Patched(client[c], handler[n], n).version >= client[c].version
      /\ Patched(client[c], handler[n], n).view[handler[n].item] = handler[n].rev
      /\ handler[n].item # i => Patched(client[c], handler[n], n).view[i] = client[c].view[i]
  BY <1>a, PatchedEffect, ViewFields
<1>f. cl \in {client[c], Patched(client[c], handler[n], n)}
  BY <1>a, ReceivesEffect
<1>g. client[c].version \in Nat
  BY <1>a, ViewFields
<1>1. CASE handler[n].item # i
  <2>1. shown'[i] = shown[i]
    BY <1>1 DEF Emit
  <2>2. ASSUME Published(i)'
        PROVE  Covers(cl.version, i) /\ cl.view[i] = rows[i]
    <3>1. Published(i)
      BY <1>d, <2>1, <2>2 DEF Published, Covers
    <3>2. Covers(client[c].version, i) /\ client[c].view[i] = rows[i]
      BY <3>1 DEF ClientDrawn
    <3>3. CASE cl = client[c]
      BY <3>2, <3>3
    <3>4. CASE cl = Patched(client[c], handler[n], n)
      BY <1>e, <1>g, <1>1, <3>2, <3>4, CoversMore
    <3> QED
      BY <1>f, <3>3, <3>4
  <2> HIDE DEF cl
  <2>3. ASSUME Published(i)'
        PROVE  Covers(client[c].version, i)' /\ client'[c].view[i] = rows'[i]
    BY <1>b, <1>d, <2>2, <2>3 DEF Covers
  <2> QED
    BY <2>3 DEF ClientDrawn, Covers
<1>2. CASE handler[n].item = i
  <2>1. handler[n].kind \in DrawingKinds
    BY <1>a, <1>2, HandlerFields, ItemsAssumption DEF Fitting, Fits
  <2>2. cl = Patched(client[c], handler[n], n)
    BY <1>a, <2>1, ReceivesEffect
  <2>3. ASSUME Published(i)'
        PROVE  Covers(cl.version, i) /\ cl.view[i] = rows[i]
    <3>0. shown'[i] = n
      BY <1>2 DEF Emit
    <3>1. \A m \in DOMAIN handler : handler[m].item = i => m <= n
      BY <1>d, <2>3, <3>0 DEF Published, Covers
    <3>2. handler[n].rev = rows[i]
      BY <1>2, <3>1 DEF LastInv, Covers
    <3> QED
      BY <1>e, <1>2, <1>a, <2>2, <3>1, <3>2, HandlerIn DEF Covers
  <2> HIDE DEF cl
  <2>4. ASSUME Published(i)'
        PROVE  Covers(client[c].version, i)' /\ client'[c].view[i] = rows'[i]
    BY <1>b, <1>d, <2>3, <2>4 DEF Covers
  <2> QED
    BY <2>4 DEF ClientDrawn, Covers
<1> QED
  BY <1>1, <1>2

LEMMA SendDrawn ==
    ASSUME TypeOK, NEW d \in drafts, DraftDrawn(d), Send(d),
           NEW c \in Clients, NEW i \in Drawings, ClientDrawn(c, i)
    PROVE  ClientDrawn(c, i)'
<1> DEFINE cl == Reconcile(client[c], d)
<1>a. Unwritten
  BY DEF Unwritten, Serve, DraftStep
<1>b. d \in Drafts /\ client[c] \in Views /\ i \in Items
  BY DEF TypeOK, Items
<1>c. /\ d.version # Unread /\ d.version \in Nat
      /\ \A j \in Items : d.seen[j] # Unread
  BY <1>b, DraftFields DEF Send
<1>d. /\ DOMAIN handler' = DOMAIN handler /\ rows' = rows
      /\ \A m \in DOMAIN handler : handler'[m].item = handler[m].item
  BY <1>a, UnwrittenKeeps DEF Kept, Same
<1>f. Published(i)' => Published(i)
  BY <1>d DEF Published, Covers, Send
<1>1. CASE client'[c] = client[c]
  BY <1>a, <1>f, <1>1, ClientKept
<1>2. CASE client'[c] # client[c]
  <2>1. client'[c] = cl /\ cl # client[c]
    BY <1>2 DEF Send
  <2>2. d.version >= client[c].version /\ cl.version = d.version /\ cl.view = d.seen
    BY <1>b, <1>c, <2>1, ReconcileEffect
  <2>3. ASSUME Published(i) PROVE Covers(cl.version, i) /\ cl.view[i] = rows[i]
    <3>1. Covers(client[c].version, i) /\ client[c].version \in Nat
      BY <1>b, <2>3, ViewFields DEF ClientDrawn
    <3>2. Covers(d.version, i)
      BY <1>c, <2>2, <3>1, CoversMore
    <3>3. d.seen[i] = rows[i]
      BY <1>b, <1>c, <3>2 DEF DraftDrawn
    <3> QED
      BY <2>2, <3>2, <3>3
  <2> HIDE DEF cl
  <2>4. ASSUME Published(i)'
        PROVE  Covers(client[c].version, i)' /\ client'[c].view[i] = rows'[i]
    BY <1>d, <1>f, <2>1, <2>3, <2>4 DEF Covers
  <2> QED
    BY <2>4 DEF ClientDrawn, Covers
<1> QED
  BY <1>1, <1>2

LEMMA ClientWritten ==
    ASSUME TypeOK, NEW kind \in Kinds, NEW j \in Items, Commit(kind, j),
           NEW c \in Clients, NEW i \in Drawings, ClientDrawn(c, i), shown[i] <= Len(handler)
    PROVE  ClientDrawn(c, i)'
<1>1. /\ Len(handler) \in Nat
      /\ DOMAIN handler = 1 .. Len(handler)
      /\ DOMAIN handler' = 1 .. (Len(handler) + 1)
      /\ \A n \in DOMAIN handler : handler'[n] = handler[n]
      /\ handler'[Len(handler) + 1] = Written(kind, j)
      /\ \A k \in Items : k # j => rows'[k] = rows[k]
  BY CommitEffect
<1>2. Written(kind, j).item = j
  BY DEF Written
<1>3. i \in Items /\ client' = client /\ shown' = shown /\ shown[i] \in Nat
  BY DEF Commit, Items, TypeOK
<1>4. CASE i = j
  <2>1. ~ Published(i)'
    BY <1>1, <1>2, <1>3, <1>4 DEF Published, Covers
  <2> QED
    BY <2>1 DEF ClientDrawn
<1>5. CASE i # j
  <2>1. ASSUME Published(i)' PROVE Published(i)
    BY <1>1, <1>3, <2>1 DEF Published, Covers
  <2>2. ASSUME Published(i)'
        PROVE  Covers(client[c].version, i)' /\ client'[c].view[i] = rows'[i]
    <3>1. Covers(client[c].version, i) /\ client[c].view[i] = rows[i]
      BY <2>1, <2>2 DEF ClientDrawn
    <3>2. \A n \in DOMAIN handler' : handler'[n].item = i => n \in DOMAIN handler
      BY <1>1, <1>2, <1>5
    <3> QED
      BY <1>1, <1>3, <1>5, <3>1, <3>2 DEF Covers
  <2> QED
    BY <2>2 DEF ClientDrawn, Covers
<1> QED
  BY <1>4, <1>5

LEMMA DraftWritten ==
    ASSUME TypeOK, NEW kind \in Kinds, NEW j \in Items, Commit(kind, j),
           NEW d \in drafts, DraftDrawn(d)
    PROVE  DraftDrawn(d)'
<1>1. /\ Len(handler) \in Nat
      /\ DOMAIN handler = 1 .. Len(handler)
      /\ DOMAIN handler' = 1 .. (Len(handler) + 1)
      /\ \A n \in DOMAIN handler : handler'[n] = handler[n]
      /\ handler'[Len(handler) + 1] = Written(kind, j)
      /\ handler' \in Seq(Handlers)
      /\ \A k \in Items : k # j => rows'[k] = rows[k]
  BY CommitEffect
<1>2. Written(kind, j).item = j
  BY DEF Written
<1>3. Len(handler') = Len(handler) + 1
  BY <1>1, LenProperties
<1>4. d.version \in Nat \cup {Unread}
  BY DraftFields DEF TypeOK
<1>5. d.version # Unread => d.version <= Len(handler')
  BY <1>1, <1>3, <1>4 DEF DraftDrawn
<1>6. ASSUME NEW i \in Drawings, d.seen[i] # Unread
      PROVE  d.version # Unread /\ (Covers(d.version, i)' => d.seen[i] = rows'[i])
  <2>1. d.version # Unread /\ (Covers(d.version, i) => d.seen[i] = rows[i]) /\ i \in Items
    BY <1>6 DEF DraftDrawn, Items
  <2>2. d.version \in Nat /\ d.version <= Len(handler)
    BY <1>4, <2>1 DEF DraftDrawn
  <2>3. CASE i = j
    <3>1. ~ Covers(d.version, i)'
      BY <1>1, <1>2, <2>2, <2>3 DEF Covers
    <3> QED
      BY <2>1, <3>1
  <2>4. CASE i # j
    <3>1. Covers(d.version, i)' => Covers(d.version, i)
      BY <1>1 DEF Covers
    <3> QED
      BY <1>1, <2>1, <2>4, <3>1
  <2> QED
    BY <2>3, <2>4
<1> QED
  BY <1>5, <1>6 DEF DraftDrawn, Covers

LEMMA DrawnStep ==
    ASSUME TypeOK, Fitting, LastInv, DrawnInv, [Next]_vars
    PROVE  DrawnInv'
<1>1. /\ \A d \in drafts : DraftDrawn(d)
      /\ \A c \in Clients, i \in Drawings : ClientDrawn(c, i)
      /\ \A i \in Drawings : shown[i] <= Len(handler)
  BY DrawnAlt
<1>a. Len(handler) \in Nat /\ DOMAIN handler = 1 .. Len(handler)
  BY LenProperties DEF TypeOK
<1>2. CASE Unwritten
  <2>1. \A d \in drafts' : DraftDrawn(d)'
    BY <1>1, <1>2, DraftsStep
  <2>2. ASSUME NEW c \in Clients, NEW i \in Drawings PROVE ClientDrawn(c, i)'
    <3>1. ClientDrawn(c, i)
      BY <1>1
    <3>2. CASE \E n \in DOMAIN handler : Emit(n)
      BY <3>1, <3>2, EmitDrawn
    <3>3. CASE \E d \in drafts : Send(d)
      BY <1>1, <3>1, <3>3, SendDrawn
    <3>4. CASE ~ (\E n \in DOMAIN handler : Emit(n)) /\ ~ (\E d \in drafts : Send(d))
      <4>1. client' = client
        BY <1>2, <3>4
           DEF Unwritten, HandlerStep, Serve, DraftStep, CallBroadcast, CallSettled, Project,
               LoseEvent, ReadTokens, ReadSequence, ReadCanvas, Fail, vars
      <4>2. Published(i)' => Published(i)
        BY <1>2, <3>4, PublishedStep
      <4> QED
        BY <1>2, <3>1, <4>1, <4>2, ClientKept
    <3> QED
      BY <3>2, <3>3, <3>4
  <2>3. ASSUME NEW i \in Drawings PROVE shown'[i] <= Len(handler')
    <3>1. Len(handler') = Len(handler)
      BY <1>2, UnwrittenKeeps DEF Kept
    <3>2. ASSUME NEW n \in DOMAIN handler, Emit(n) PROVE shown'[i] \in {shown[i], n}
      BY <3>2 DEF Emit
    <3>3. CASE \A n \in DOMAIN handler : ~ Emit(n)
      BY <1>1, <1>2, <3>1, <3>3, PublishedStep
    <3> QED
      BY <1>1, <1>a, <3>1, <3>2, <3>3
  <2> QED
    BY <2>1, <2>2, <2>3 DEF DrawnInv, DraftDrawn, ClientDrawn, Published, Covers
<1>3. ASSUME NEW kind \in Kinds, NEW j \in Items, Commit(kind, j) PROVE DrawnInv'
  <2>1. drafts' = drafts /\ shown' = shown
    BY <1>3 DEF Commit
  <2>2. \A d \in drafts : DraftDrawn(d)'
    BY <1>1, <1>3, DraftWritten
  <2>3. \A c \in Clients, i \in Drawings : ClientDrawn(c, i)'
    BY <1>1, <1>3, ClientWritten
  <2>4. Len(handler') = Len(handler) + 1
    BY <1>3, CommitEffect, LenProperties
  <2>5. \A i \in Drawings : shown'[i] <= Len(handler')
    BY <1>1, <1>a, <2>1, <2>4 DEF TypeOK
  <2> QED
    BY <2>1, <2>2, <2>3, <2>5 DEF DrawnInv, DraftDrawn, ClientDrawn, Published, Covers
<1> QED
  BY <1>2, <1>3, NextSplit

LEMMA DrawnInit == Init => DrawnInv
<1> SUFFICES ASSUME Init PROVE DrawnInv
  OBVIOUS
<1>1. DOMAIN handler = {} /\ drafts = {} /\ Len(handler) = 0
  BY EmptySeq DEF Init
<1>2. \A i \in Drawings : shown[i] = 0 /\ i \in Items
  BY DEF Init, Items
<1>3. \A c \in Clients, i \in Drawings : client[c].view[i] = rows[i]
  BY DEF Init
<1> QED
  BY <1>1, <1>2, <1>3 DEF DrawnInv, Covers

(* drawing-point-events.ts:6-12, for any number of editors: from the moment *)
(* the event of the last write of a drawing is the last that went out for   *)
(* it, each client shows the drawing of the database, whatever snapshots    *)
(* are built, lost or delivered and whatever events were lost before.       *)
THEOREM DrawingsFollowTheLastEvent == Spec => []DrawingsConverge
<1> DEFINE IInv == TypeOK /\ Fitting /\ LastInv /\ DrawnInv
<1>1. Init => IInv
  BY TypeInit, RowInit, LastInit, DrawnInit
<1>2. IInv /\ [Next]_vars => IInv'
  <2> SUFFICES ASSUME IInv, [Next]_vars PROVE IInv'
    OBVIOUS
  <2>1. Fitting'
    BY FittingStep, UnwrittenKeeps, NextSplit
  <2> QED
    BY <2>1, TypeStep, LastStep, DrawnStep
<1>3. IInv => DrawingsConverge
  BY DEF DrawnInv, DrawingsConverge
<1> QED
  BY <1>1, <1>2, <1>3, PTL DEF Spec

----------------------------------------------------------------------------
(* Where the drafts and the views of the next state come from.             *)

Fresh(e) == e.version = Unread /\ \A i \in Items : e.seen[i] = Unread

Grows(d, e) ==
    /\ e.version = d.version \/ (d.version = Unread /\ e.version = Len(handler))
    /\ \A i \in Items : e.seen[i] \in {d.seen[i], rows[i]}

LEMMA DraftOrigin ==
    ASSUME TypeOK, Unwritten, NEW e \in drafts'
    PROVE  Fresh(e) \/ \E d \in drafts : Grows(d, e)
<1>1. ASSUME NEW x \in drafts PROVE Grows(x, x)
  BY DEF Grows
<1>2. ASSUME NEW job, NEW to, NEW cause PROVE Fresh(Draft(job, to, cause))
  BY DEF Fresh, Draft
<1>3. ASSUME NEW n \in DOMAIN handler, CallBroadcast(n) PROVE e \in drafts \/ Fresh(e)
  BY <1>2, <1>3 DEF CallBroadcast
<1>4. ASSUME NEW n \in DOMAIN handler, Emit(n) PROVE e \in drafts \/ Fresh(e)
  BY <1>2, <1>4 DEF Emit
<1>5. ASSUME NEW d \in drafts, Reads(d) PROVE e \in drafts \/ \E x \in drafts : Grows(x, e)
  <2>1. PICK S : drafts' = (drafts \ {d}) \cup S /\ \A x \in S : Successor(d, x)
    BY <1>5, ReadEffect
  <2>2. ASSUME Successor(d, e) PROVE Grows(d, e)
    BY <2>2 DEF Successor, Grows
  <2> QED
    BY <2>1, <2>2
<1>6. ASSUME NEW outcome, NEW rest, Settle(outcome, rest) PROVE e \in rest \/ Fresh(e)
  BY <1>2, <1>6 DEF Settle
<1>7. ASSUME NEW d \in drafts, Send(d) PROVE e \in drafts \/ Fresh(e)
  <2>1. drafts' = drafts \ {d} \/ Settle("done", drafts \ {d})
    BY <1>7 DEF Send
  <2> QED
    BY <1>6, <2>1
<1>8. ASSUME NEW d \in drafts, Fail(d)
      PROVE  e \in drafts \/ Fresh(e) \/ \E x \in drafts : Grows(x, e)
  <2> DEFINE rest == (drafts \ (Siblings(d) \cup {d})) \cup {[x EXCEPT !.job = "stray"] : x \in Siblings(d)}
  <2>1. drafts' = drafts \ {d} \/ Settle("failed", rest)
    BY <1>8 DEF Fail
  <2>2. \A y \in rest : y \in drafts \/ \E x \in drafts : y = [x EXCEPT !.job = "stray"]
    BY DEF Siblings
  <2> HIDE DEF rest
  <2>3. ASSUME NEW x \in drafts, e = [x EXCEPT !.job = "stray"] PROVE Grows(x, e)
    <3>1. x \in Drafts
      BY DEF TypeOK
    <3>2. e.version = x.version /\ e.seen = x.seen
      BY <2>3, <3>1 DEF Drafts
    <3> QED
      BY <3>2 DEF Grows
  <2> QED
    BY <1>6, <2>1, <2>2, <2>3
<1>9. ASSUME NEW n \in DOMAIN handler, CallSettled(n) \/ Project(n) \/ LoseEvent(n)
      PROVE  e \in drafts
  BY <1>9 DEF CallSettled, Project, LoseEvent
<1>10. CASE UNCHANGED vars
  BY <1>1, <1>10 DEF vars
<1> QED
  BY <1>1, <1>3, <1>4, <1>5, <1>7, <1>8, <1>9, <1>10
     DEF Unwritten, HandlerStep, Serve, DraftStep, Reads

LEMMA ClientOrigin ==
    ASSUME TypeOK, Unwritten, NEW c \in Clients
    PROVE  \/ client'[c] = client[c]
           \/ \E n \in DOMAIN handler : Emit(n) /\ client'[c] = Patched(client[c], handler[n], n)
           \/ \E d \in drafts : /\ Send(d) /\ c \in d.to
                                /\ client[c].version <= d.version
                                /\ client'[c] = Reconcile(client[c], d)
<1>0. client[c] \in Views
  BY DEF TypeOK
<1>1. ASSUME NEW n \in DOMAIN handler, Emit(n)
      PROVE  client'[c] \in {client[c], Patched(client[c], handler[n], n)}
  BY <1>0, <1>1, HandlerIn, ReceivesEffect DEF Emit
<1>2. ASSUME NEW d \in drafts, Send(d), client'[c] # client[c]
      PROVE  /\ c \in d.to /\ client[c].version <= d.version
             /\ client'[c] = Reconcile(client[c], d)
  <2>1. c \in d.to /\ client'[c] = Reconcile(client[c], d)
    BY <1>2 DEF Send
  <2>2. d \in Drafts /\ d.version # Unread /\ \A i \in Items : d.seen[i] # Unread
    BY <1>2 DEF Send, TypeOK
  <2>3. d.version \in Nat /\ client[c].version \in Nat
    BY <1>0, <2>2, DraftFields, ViewFields
  <2>4. d.version >= client[c].version
    BY <1>0, <1>2, <2>1, <2>2, ReconcileEffect
  <2> QED
    BY <2>1, <2>3, <2>4
<1>3. CASE ~ (\E n \in DOMAIN handler : Emit(n)) /\ ~ (\E d \in drafts : Send(d))
  BY <1>3
     DEF Unwritten, HandlerStep, Serve, DraftStep, CallBroadcast, CallSettled, Project,
         LoseEvent, ReadTokens, ReadSequence, ReadCanvas, Fail, vars
<1> QED
  BY <1>1, <1>2, <1>3

LEMMA Marks ==
    ASSUME NEW cl \in Views, NEW d \in Drafts, d.version # Unread,
           cl.version <= d.version
    PROVE  /\ Reconcile(cl, d).version = d.version
           /\ Reconcile(cl, d).view = d.seen
           /\ \A t \in Tokens : Reconcile(cl, d).mark[t] =
                 IF cl.view[t] # 0 /\ d.seen[t] = 0
                 THEN Later(cl.mark[t], d.version) ELSE cl.mark[t]
<1>1. d.version \in Nat /\ cl.version \in Nat
  BY DraftFields, ViewFields
<1>2. ~ (d.version < cl.version)
  BY <1>1
<1> QED
  BY <1>2 DEF Reconcile

LEMMA PatchedMarks ==
    ASSUME NEW cl \in Views, NEW h \in Handlers, NEW n \in Nat
    PROVE  /\ Patched(cl, h, n).mark = cl.mark
           /\ Patched(cl, h, n).version = Later(cl.version, n)
BY DEF Patched, Views

----------------------------------------------------------------------------
(* Versions.                                                               *)

LEMMA VersionInit == Init => VersionInv
<1> SUFFICES ASSUME Init PROVE VersionInv
  OBVIOUS
<1>1. Len(handler) = 0 /\ drafts = {}
  BY EmptySeq DEF Init
<1>2. \A c \in Clients : client[c].version = 0 /\ \A t \in Tokens : client[c].mark[t] = 0
  BY DEF Init
<1> QED
  BY <1>1, <1>2 DEF VersionInv

LEMMA VersionStep == TypeOK /\ VersionInv /\ [Next]_vars => VersionInv'
<1> SUFFICES ASSUME TypeOK, VersionInv, [Next]_vars PROVE VersionInv'
  OBVIOUS
<1>a. Len(handler) \in Nat
  BY LenProperties DEF TypeOK
<1>1. ASSUME NEW kind \in Kinds, NEW i \in Items, Commit(kind, i) PROVE VersionInv'
  <2>1. Len(handler') = Len(handler) + 1
    BY <1>1, CommitEffect, LenProperties
  <2>2. drafts' = drafts /\ client' = client
    BY <1>1 DEF Commit
  <2>3. \A d \in drafts : d.version \in Int
    BY DraftFields DEF TypeOK, Unread
  <2>4. \A c \in Clients : client[c].version \in Nat /\ \A t \in Tokens : client[c].mark[t] \in Nat
    BY ViewFields DEF TypeOK
  <2>5. ASSUME NEW x \in Int, x <= Len(handler) PROVE x <= Len(handler')
    BY <1>a, <2>1, <2>5
  <2> QED
    BY <2>2, <2>3, <2>4, <2>5 DEF VersionInv
<1>2. CASE Unwritten
  <2>1. Len(handler') = Len(handler)
    BY <1>2, UnwrittenKeeps DEF Kept
  <2>2. ASSUME NEW e \in drafts' PROVE e.version <= Len(handler)
    <3>1. CASE Fresh(e)
      BY <1>a, <3>1 DEF Fresh, Unread
    <3>2. CASE \E d \in drafts : Grows(d, e)
      BY <1>a, <3>2 DEF Grows, VersionInv
    <3> QED
      BY <1>2, <3>1, <3>2, DraftOrigin
  <2>3. ASSUME NEW c \in Clients
        PROVE  /\ client'[c].version <= Len(handler)
               /\ \A t \in Tokens : client'[c].mark[t] <= Len(handler)
    <3>0. /\ client[c].version <= Len(handler)
          /\ \A t \in Tokens : client[c].mark[t] <= Len(handler)
          /\ client[c] \in Views
      BY DEF VersionInv, TypeOK
    <3>1. CASE client'[c] = client[c]
      BY <3>0, <3>1
    <3>2. ASSUME NEW n \in DOMAIN handler, client'[c] = Patched(client[c], handler[n], n)
          PROVE  /\ client'[c].version <= Len(handler)
                 /\ \A t \in Tokens : client'[c].mark[t] <= Len(handler)
      <4>1. handler[n] \in Handlers /\ n \in Nat /\ n <= Len(handler)
        BY HandlerIn
      <4> QED
        BY <3>0, <3>2, <4>1, PatchedMarks DEF Later
    <3>3. ASSUME NEW d \in drafts, Send(d), client[c].version <= d.version,
                 client'[c] = Reconcile(client[c], d)
          PROVE  /\ client'[c].version <= Len(handler)
                 /\ \A t \in Tokens : client'[c].mark[t] <= Len(handler)
      <4>1. d \in Drafts /\ d.version # Unread /\ d.version <= Len(handler)
        BY <3>3 DEF TypeOK, Send, VersionInv
      <4> QED
        BY <3>0, <3>3, <4>1, Marks DEF Later
    <3> QED
      BY <1>2, <3>1, <3>2, <3>3, ClientOrigin
  <2> QED
    BY <2>1, <2>2, <2>3 DEF VersionInv
<1> QED
  BY <1>1, <1>2, NextSplit

----------------------------------------------------------------------------
(* Recovery by a broadcast.                                                *)

Waiting(c) == \E d \in drafts : d.job = "broadcast" /\ c \in d.to

LEMMA HealInit == Init => HealInv
BY DEF Init, HealInv, Alone

(* A write that commits alone.                                             *)
LEMMA HealWritten ==
    ASSUME TypeOK, NEW kind \in Kinds, NEW i \in Items, Commit(kind, i)
    PROVE  HealInv'
<1>1. /\ Len(handler) \in Nat
      /\ DOMAIN handler = 1 .. Len(handler)
      /\ DOMAIN handler' = 1 .. (Len(handler) + 1)
      /\ \A n \in DOMAIN handler : handler'[n] = handler[n]
      /\ handler'[Len(handler) + 1] = Written(kind, i)
      /\ Len(handler') = Len(handler) + 1
  BY CommitEffect, LenProperties
<1>2. Written(kind, i).alone = Quiet /\ Written(kind, i).pc = "committed"
  BY DEF Written
<1>3. drafts' = drafts
  BY DEF Commit
<1>4. SUFFICES ASSUME Alone' PROVE HealInv'
  BY DEF HealInv
<1>5. Quiet
  BY <1>1, <1>2, <1>4 DEF Alone
<1>6. \A n \in DOMAIN handler' : n # Len(handler') => Ended(handler'[n])
  BY <1>1, <1>5 DEF Quiet, Idle
<1>7. drafts' = {} /\ handler'[Len(handler')].pc = "committed"
  BY <1>1, <1>2, <1>3, <1>5 DEF Quiet
<1> QED
  BY <1>6, <1>7 DEF HealInv, Ended

(* What stays as it is while a write is alone.                             *)
LEMMA HealDrafts ==
    ASSUME TypeOK, HealInv, Alone, Unwritten
    PROVE  \A e \in drafts' : /\ e.version \in {Unread, Len(handler)}
                              /\ \A i \in Items : e.seen[i] \in {Unread, rows[i]}
<1> SUFFICES ASSUME NEW e \in drafts'
             PROVE  /\ e.version \in {Unread, Len(handler)}
                    /\ \A i \in Items : e.seen[i] \in {Unread, rows[i]}
  OBVIOUS
<1>1. CASE Fresh(e)
  BY <1>1 DEF Fresh
<1>2. ASSUME NEW d \in drafts, Grows(d, e)
      PROVE  /\ e.version \in {Unread, Len(handler)}
             /\ \A i \in Items : e.seen[i] \in {Unread, rows[i]}
  BY <1>2 DEF Grows, HealInv
<1> QED
  BY <1>1, <1>2, DraftOrigin

(* Only the write that is alone awaits a broadcast.                         *)
LEMMA HealSlot ==
    ASSUME TypeOK, SlotInv, HealInv, Alone
    PROVE  /\ Len(handler) \in DOMAIN handler
           /\ slot.running \cup slot.queued \subseteq {Len(handler)}
           /\ \A d \in drafts : d.job = "broadcast" => /\ slot.running = {Len(handler)}
                                                       /\ slot.queued = {}
                                                       /\ handler[Len(handler)].pc = "awaiting"
<1>1. Len(handler) \in DOMAIN handler
  BY EmptySeq, LenProperties DEF TypeOK, Alone
<1>2. ASSUME NEW n \in slot.running \cup slot.queued PROVE n = Len(handler)
  <2>1. n \in DOMAIN handler /\ handler[n].pc = "awaiting"
    BY SlotFields DEF SlotInv
  <2> QED
    BY <2>1 DEF HealInv, Ended
<1>3. ASSUME NEW d \in drafts, d.job = "broadcast"
      PROVE  /\ slot.running = {Len(handler)} /\ slot.queued = {}
             /\ handler[Len(handler)].pc = "awaiting"
  <2>1. slot.running # {}
    BY <1>3 DEF SlotInv
  <2>2. slot.running = {Len(handler)}
    BY <1>2, <2>1
  <2> QED
    BY <1>2, <2>2 DEF SlotInv
<1> QED
  BY <1>1, <1>2, <1>3

(* A snapshot that is sent in the meantime is the canvas.                   *)
LEMMA HealSend ==
    ASSUME TypeOK, VersionInv, HealInv, Alone, NEW d \in drafts, Send(d), NEW c \in Clients
    PROVE  client'[c].view = IF c \in d.to THEN rows ELSE client[c].view
<1>1. /\ d \in Drafts /\ client[c] \in Views /\ d.version # Unread
      /\ \A i \in Items : d.seen[i] # Unread
  BY DEF Send, TypeOK
<1>2. d.version = Len(handler) /\ \A i \in Items : d.seen[i] = rows[i]
  BY <1>1 DEF HealInv
<1>3. d.seen = rows
  BY <1>1, <1>2, DraftFields DEF TypeOK
<1>4. client[c].version <= d.version
  BY <1>2 DEF VersionInv
<1>5. Reconcile(client[c], d).view = rows
  BY <1>1, <1>3, <1>4, Marks
<1> QED
  BY <1>5 DEF Send

(* The end of the broadcast the write awaits.                               *)
LEMMA HealSettle ==
    ASSUME TypeOK, SlotInv, HealInv, Alone, NEW outcome \in {"done", "failed"}, NEW rest,
           Settle(outcome, rest), NEW d \in drafts, d.job = "broadcast"
    PROVE  /\ \A n \in DOMAIN handler : n # Len(handler) => handler'[n] = handler[n]
           /\ handler'[Len(handler)].pc = outcome
           /\ drafts' = rest
<1>1. /\ Len(handler) \in DOMAIN handler
      /\ slot.running = {Len(handler)} /\ slot.queued = {}
  BY HealSlot
<1>2. \A n \in DOMAIN handler :
          handler'[n] = Released(handler[n], outcome, n \in slot.running)
  BY SettleEffect DEF PCs
<1>3. ASSUME NEW n \in DOMAIN handler, n # Len(handler) PROVE handler'[n] = handler[n]
  <2>1. n \notin slot.running /\ handler[n].pc # "settling"
    BY <1>1, <1>3 DEF HealInv, Ended
  <2> QED
    BY <1>2, <2>1 DEF Released
<1>4. handler'[Len(handler)].pc = outcome
  BY <1>1, <1>2, HandlerIn DEF Released, Handlers
<1>5. drafts' = rest
  BY <1>1 DEF Settle
<1> QED
  BY <1>3, <1>4, <1>5

LEMMA HealStep == TypeOK /\ SlotInv /\ VersionInv /\ HealInv /\ [Next]_vars => HealInv'
<1> SUFFICES ASSUME TypeOK, SlotInv, VersionInv, HealInv, [Next]_vars PROVE HealInv'
  OBVIOUS
<1>1. CASE \E kind \in Kinds, i \in Items : Commit(kind, i)
  BY <1>1, HealWritten
<1>2. CASE Unwritten /\ ~ Alone'
  BY <1>2 DEF HealInv
<1>3. CASE Unwritten /\ Alone'
  <2> DEFINE last == Len(handler)
  <2>0. Kept /\ rows' = rows
    BY <1>3, UnwrittenKeeps
  <2>1. Len(handler') = last /\ DOMAIN handler' = DOMAIN handler /\ Alone
    <3>1. Len(handler') = last /\ DOMAIN handler' = DOMAIN handler /\ handler' \in Seq(Handlers)
      BY <2>0 DEF Kept
    <3>2. handler # <<>> /\ last \in DOMAIN handler
      BY <1>3, <3>1, EmptySeq, LenProperties DEF Alone, TypeOK
    <3>3. Same(handler'[last], handler[last])
      BY <2>0, <3>2 DEF Kept
    <3> QED
      BY <1>3, <3>1, <3>2, <3>3 DEF Alone, Same
  <2>2. /\ last \in DOMAIN handler
        /\ \A d \in drafts : d.job = "broadcast" => handler[last].pc = "awaiting"
    BY <2>1, HealSlot
  <2>3. \A e \in drafts' : /\ e.version \in {Unread, last}
                           /\ \A i \in Items : e.seen[i] \in {Unread, rows[i]}
    BY <1>3, <2>1, HealDrafts
  <2>a. /\ \A n \in DOMAIN handler : n # last => Ended(handler[n])
        /\ handler[last].pc \in {"committed", "awaiting", "done", "failed"}
        /\ handler[last].pc = "committed" => drafts = {}
        /\ handler[last].pc = "awaiting" => \A c \in Clients : client[c].view = rows \/ Waiting(c)
        /\ handler[last].pc = "done" => \A c \in Clients : client[c].view = rows
    BY <2>1 DEF HealInv, Waiting
  <2>b. handler[last].kind \in Broadcasting
    BY <2>1 DEF Alone
  <2> DEFINE Goal ==
          /\ \A n \in DOMAIN handler : n # last => Ended(handler'[n])
          /\ handler'[last].pc \in {"committed", "awaiting", "done", "failed"}
          /\ handler'[last].pc = "committed" => drafts' = {}
          /\ handler'[last].pc = "awaiting" =>
                \A c \in Clients : client'[c].view = rows \/ Waiting(c)'
          /\ handler'[last].pc = "done" => \A c \in Clients : client'[c].view = rows
  <2>4. ASSUME handler' = handler, drafts = {} => drafts' = {},
               \A c \in Clients : client[c].view = rows => client'[c].view = rows,
               \A c \in Clients : Waiting(c) => client'[c].view = rows \/ Waiting(c)'
        PROVE  Goal
    BY <2>a, <2>4
  <2>5. ASSUME NEW n \in DOMAIN handler, HandlerStep(n) PROVE Goal
    <3>1. n = last
      BY <2>a, <2>5
         DEF HandlerStep, CallBroadcast, CallSettled, Project, Emit, MayEmit, LoseEvent, Ended,
             Broadcasting
    <3>2. CallBroadcast(last)
      BY <2>a, <2>b, <2>5, <3>1
         DEF HandlerStep, CallSettled, Project, Emit, MayEmit, LoseEvent, Broadcasting, Settling,
             DrawingKinds
    <3>3. handler[last].pc = "committed" /\ drafts = {}
      BY <2>a, <3>2 DEF CallBroadcast
    <3>4. slot.running = {}
      BY <3>3 DEF SlotInv, NobodyIsForgotten
    <3>5. drafts' = {Draft("broadcast", Clients, "-")}
      BY <3>2, <3>3, <3>4 DEF CallBroadcast
    <3>6. \A c \in Clients : Waiting(c)'
      BY <3>5 DEF Waiting, Draft
    <3>7. /\ handler'[last] = [handler[last] EXCEPT !.pc = "awaiting"]
          /\ \A m \in DOMAIN handler : m # last => handler'[m] = handler[m]
      BY <2>2, <3>2, ContinueEffect DEF CallBroadcast, PCs
    <3>8. handler'[last].pc = "awaiting"
      BY <2>2, <3>7, HandlerIn DEF Handlers
    <3> QED
      BY <2>a, <3>6, <3>7, <3>8
  <2>6. ASSUME NEW d \in drafts, Reads(d) PROVE Goal
    <3>1. PICK S : drafts' = (drafts \ {d}) \cup S /\ Split(d, S)
      BY <2>6, ReadSplit
    <3>2. handler' = handler /\ client' = client
      BY <2>6 DEF Reads, ReadTokens, ReadSequence, ReadCanvas
    <3>3. ASSUME NEW c \in Clients, Waiting(c) PROVE Waiting(c)'
      <4>1. PICK e \in drafts : e.job = "broadcast" /\ c \in e.to
        BY <3>3 DEF Waiting
      <4>2. CASE e # d
        BY <3>1, <4>1, <4>2 DEF Waiting
      <4>3. CASE e = d
        <5>1. PICK f \in S : c \in f.to
          BY <3>1, <4>1, <4>3 DEF Split
        <5>2. f.job = "broadcast" /\ f \in drafts'
          BY <3>1, <4>1, <4>3, <5>1 DEF Split, Successor
        <5> QED
          BY <5>1, <5>2 DEF Waiting
      <4> QED
        BY <4>2, <4>3
    <3> QED
      BY <2>4, <3>2, <3>3
  <2>7. ASSUME NEW d \in drafts, Send(d) PROVE Goal
    <3>1. \A c \in Clients : client'[c].view = IF c \in d.to THEN rows ELSE client[c].view
      BY <2>1, <2>7, HealSend
    <3>2. CASE d.job = "broadcast" /\ Siblings(d) = {}
      <4>1. Settle("done", drafts \ {d})
        BY <2>7, <3>2 DEF Send
      <4>2. /\ \A n \in DOMAIN handler : n # last => handler'[n] = handler[n]
            /\ handler'[last].pc = "done"
        BY <2>1, <3>2, <4>1, HealSettle
      <4>3. \A c \in Clients : Waiting(c) => c \in d.to
        BY <3>2 DEF Waiting, Siblings
      <4>4. handler[last].pc = "awaiting"
        BY <2>2, <3>2
      <4>5. \A c \in Clients : client'[c].view = rows
        BY <2>a, <3>1, <4>3, <4>4
      <4> QED
        BY <2>a, <4>2, <4>5
    <3>3. CASE ~ (d.job = "broadcast" /\ Siblings(d) = {})
      <4>1. handler' = handler /\ drafts' = drafts \ {d}
        BY <2>7, <3>3 DEF Send
      <4>2. ASSUME NEW c \in Clients, Waiting(c) PROVE client'[c].view = rows \/ Waiting(c)'
        BY <3>1, <4>1, <4>2 DEF Waiting
      <4> QED
        BY <2>4, <3>1, <4>1, <4>2
    <3> QED
      BY <3>2, <3>3
  <2>8. ASSUME NEW d \in drafts, Fail(d) PROVE Goal
    <3>1. CASE d.job = "broadcast"
      <4> DEFINE rest == (drafts \ (Siblings(d) \cup {d})) \cup {[e EXCEPT !.job = "stray"] : e \in Siblings(d)}
      <4>1. Settle("failed", rest)
        BY <2>8, <3>1 DEF Fail
      <4> HIDE DEF rest
      <4>2. /\ \A n \in DOMAIN handler : n # last => handler'[n] = handler[n]
            /\ handler'[last].pc = "failed"
        BY <2>1, <3>1, <4>1, HealSettle
      <4> QED
        BY <2>a, <4>2
    <3>2. CASE d.job # "broadcast"
      <4>1. handler' = handler /\ drafts' = drafts \ {d} /\ client' = client
        BY <2>8, <3>2 DEF Fail
      <4>2. ASSUME NEW c \in Clients, Waiting(c) PROVE Waiting(c)'
        BY <3>2, <4>1, <4>2 DEF Waiting
      <4> QED
        BY <2>4, <4>1, <4>2
    <3> QED
      BY <3>1, <3>2
  <2>9. ASSUME UNCHANGED vars PROVE Goal
    <3>1. handler' = handler /\ drafts' = drafts /\ client' = client
      BY <2>9 DEF vars
    <3>2. \A c \in Clients : Waiting(c) => Waiting(c)'
      BY <3>1 DEF Waiting
    <3> QED
      BY <2>4, <3>1, <3>2
  <2>10. Goal
    <3> HIDE DEF Goal
    <3> QED
      BY <1>3, <2>5, <2>6, <2>7, <2>8, <2>9 DEF Unwritten, Serve, DraftStep, Reads
  <2> QED
    BY <2>0, <2>1, <2>3, <2>10 DEF HealInv, Waiting, Ended
<1> QED
  BY <1>1, <1>2, <1>3, NextSplit

(* The snapshot is the means of recovery (routes.ts:174-212): whatever was  *)
(* lost or failed before, a write that is broadcast while nothing else      *)
(* happens leaves every client with the canvas of the database.             *)
THEOREM BroadcastRecovers == Spec => []BroadcastHeals
<1> DEFINE IInv == TypeOK /\ SlotInv /\ VersionInv /\ HealInv
<1>1. Init => IInv
  BY TypeInit, SlotInit, VersionInit, HealInit
<1>2. IInv /\ [Next]_vars => IInv'
  BY TypeStep, SlotStep, VersionStep, HealStep
<1>3. IInv => BroadcastHeals
  BY DEF HealInv, BroadcastHeals, Alone
<1> QED
  BY <1>1, <1>2, <1>3, PTL DEF Spec

----------------------------------------------------------------------------
(* The drafts of one broadcast.                                            *)

LEMMA SiblingInit == Init => SiblingInv
BY DEF Init, SiblingInv

(* Two drafts of one broadcast differ in their socket and in what they have *)
(* read of the canvas.                                                      *)
Agree(d, e) ==
    d.job = "broadcast" /\ e.job = "broadcast" /\ d # e =>
        /\ ReadSetReady(d) /\ d.version = e.version
        /\ \A t \in Tokens : d.seen[t] = e.seen[t]

LEMMA SiblingAlt == SiblingInv <=> \A d, e \in drafts : Agree(d, e)
BY DEF SiblingInv, Agree

LEMMA SiblingSettle ==
    ASSUME NEW outcome, NEW rest, Settle(outcome, rest), \A e \in rest : e.job # "broadcast"
    PROVE  \A d, e \in drafts' : Agree(d, e)
<1>1. drafts' \subseteq rest \cup {Draft("broadcast", Clients, "-")}
  BY DEF Settle
<1> QED
  BY <1>1 DEF Agree

LEMMA SiblingRead ==
    ASSUME TypeOK, \A x, y \in drafts : Agree(x, y), NEW d \in drafts, Reads(d)
    PROVE  \A e, f \in drafts' : Agree(e, f)
<1>1. PICK S : drafts' = (drafts \ {d}) \cup S /\ Split(d, S)
  BY ReadSplit
<1>2. ASSUME NEW e \in S, NEW f \in S PROVE Agree(e, f)
  BY <1>1 DEF Split, Agree
<1>3. ASSUME NEW e \in drafts \ {d}, NEW f \in S, e.job = "broadcast", f.job = "broadcast"
      PROVE  /\ ReadSetReady(e) /\ ReadSetReady(f) /\ e.version = f.version
             /\ \A t \in Tokens : e.seen[t] = f.seen[t]
  <2>1. d.job = "broadcast" /\ e # d
    BY <1>1, <1>3 DEF Split, Successor
  <2>2. /\ ReadSetReady(d) /\ ReadSetReady(e) /\ e.version = d.version
        /\ \A t \in Tokens : e.seen[t] = d.seen[t]
    BY <1>3, <2>1 DEF Agree
  <2>3. f.version = d.version /\ \A t \in Tokens : f.seen[t] = d.seen[t]
    BY <1>1, <2>2 DEF Split
  <2>4. ReadSetReady(f)
    BY <2>2, <2>3 DEF ReadSetReady, TokensRead
  <2> QED
    BY <2>2, <2>3, <2>4
<1>4. ASSUME NEW e \in drafts \ {d}, NEW f \in S PROVE Agree(e, f) /\ Agree(f, e)
  BY <1>3 DEF Agree
<1>5. \A e, f \in drafts \ {d} : Agree(e, f)
  OBVIOUS
<1> QED
  BY <1>1, <1>2, <1>4, <1>5

LEMMA SiblingStep == TypeOK /\ SlotInv /\ SiblingInv /\ [Next]_vars => SiblingInv'
<1> SUFFICES ASSUME TypeOK, SlotInv, SiblingInv, [Next]_vars
             PROVE  \A d, e \in drafts' : Agree(d, e)
  BY DEF SiblingInv, Agree, ReadSetReady, TokensRead
<1>0. \A d, e \in drafts : Agree(d, e)
  BY SiblingAlt
<1>1. ASSUME drafts' \subseteq drafts PROVE \A d, e \in drafts' : Agree(d, e)
  BY <1>0, <1>1
<1>2. ASSUME NEW kind \in Kinds, NEW i \in Items, Commit(kind, i) PROVE drafts' \subseteq drafts
  BY <1>2 DEF Commit
<1>3. ASSUME NEW n \in DOMAIN handler, CallBroadcast(n) PROVE \A d, e \in drafts' : Agree(d, e)
  <2>1. CASE slot.running = {}
    <3>1. drafts' = drafts \cup {Draft("broadcast", Clients, "-")}
      BY <1>3, <2>1 DEF CallBroadcast
    <3>2. \A d \in drafts : d.job # "broadcast"
      BY <2>1 DEF SlotInv
    <3> QED
      BY <3>1, <3>2 DEF Agree
  <2>2. CASE slot.running # {}
    BY <1>1, <1>3, <2>2 DEF CallBroadcast
  <2> QED
    BY <2>1, <2>2
<1>4. ASSUME NEW n \in DOMAIN handler, CallSettled(n) \/ Project(n) \/ LoseEvent(n)
      PROVE  drafts' \subseteq drafts
  BY <1>4 DEF CallSettled, Project, LoseEvent
<1>5. ASSUME NEW n \in DOMAIN handler, Emit(n) PROVE \A d, e \in drafts' : Agree(d, e)
  <2>1. \A d \in drafts' : d \in drafts \/ d.job = "resync"
    BY <1>5 DEF Emit, Draft
  <2> QED
    BY <1>0, <2>1 DEF Agree
<1>6. ASSUME NEW d \in drafts, Reads(d) PROVE \A e, f \in drafts' : Agree(e, f)
  BY <1>0, <1>6, SiblingRead
<1>7. ASSUME NEW d \in drafts, Send(d) PROVE \A e, f \in drafts' : Agree(e, f)
  <2>1. CASE d.job = "broadcast" /\ Siblings(d) = {}
    <3>1. Settle("done", drafts \ {d})
      BY <1>7, <2>1 DEF Send
    <3>2. \A e \in drafts \ {d} : e.job # "broadcast"
      BY <2>1 DEF Siblings
    <3> QED
      BY <3>1, <3>2, SiblingSettle
  <2>2. CASE ~ (d.job = "broadcast" /\ Siblings(d) = {})
    BY <1>1, <1>7, <2>2 DEF Send
  <2> QED
    BY <2>1, <2>2
<1>8. ASSUME NEW d \in drafts, Fail(d) PROVE \A e, f \in drafts' : Agree(e, f)
  <2>1. CASE d.job = "broadcast"
    <3> DEFINE rest == (drafts \ (Siblings(d) \cup {d})) \cup {[e EXCEPT !.job = "stray"] : e \in Siblings(d)}
    <3>1. Settle("failed", rest)
      BY <1>8, <2>1 DEF Fail
    <3>2. ASSUME NEW e \in rest PROVE e.job # "broadcast"
      <4>1. CASE e \in drafts \ (Siblings(d) \cup {d})
        BY <4>1 DEF Siblings
      <4>2. CASE \E x \in Siblings(d) : e = [x EXCEPT !.job = "stray"]
        <5>1. PICK x \in Siblings(d) : e = [x EXCEPT !.job = "stray"]
          BY <4>2
        <5>2. x \in Drafts
          BY DEF Siblings, TypeOK
        <5> QED
          BY <5>1, <5>2 DEF Drafts
      <4> QED
        BY <4>1, <4>2
    <3> HIDE DEF rest
    <3> QED
      BY <3>1, <3>2, SiblingSettle
  <2>2. CASE d.job # "broadcast"
    BY <1>1, <1>8, <2>2 DEF Fail
  <2> QED
    BY <2>1, <2>2
<1>9. CASE UNCHANGED vars
  BY <1>1, <1>9 DEF vars
<1> QED
  BY <1>1, <1>2, <1>3, <1>4, <1>5, <1>6, <1>7, <1>8, <1>9
     DEF Next, HandlerStep, Serve, DraftStep, Reads

----------------------------------------------------------------------------
(* Revisions of the tokens that are about.                                 *)

(* A row that was never written is not there.                              *)
UnusedInv == \A i \in Items : ~ Used(i) => rows[i] = 0

LEMMA UnusedInit == Init => UnusedInv
BY DEF Init, UnusedInv, Used

LEMMA UnusedStep == TypeOK /\ UnusedInv /\ [Next]_vars => UnusedInv'
<1> SUFFICES ASSUME TypeOK, UnusedInv, [Next]_vars PROVE UnusedInv'
  OBVIOUS
<1>1. ASSUME NEW kind \in Kinds, NEW i \in Items, Commit(kind, i) PROVE UnusedInv'
  <2>1. /\ Len(handler) \in Nat
        /\ DOMAIN handler = 1 .. Len(handler)
        /\ DOMAIN handler' = 1 .. (Len(handler) + 1)
        /\ \A n \in DOMAIN handler : handler'[n] = handler[n]
        /\ handler'[Len(handler) + 1] = Written(kind, i)
        /\ \A j \in Items : j # i => rows'[j] = rows[j]
    BY <1>1, CommitEffect
  <2>2. Written(kind, i).item = i
    BY DEF Written
  <2>3. Used(i)'
    BY <2>1, <2>2 DEF Used
  <2>4. \A j \in Items : Used(j) => Used(j)'
    BY <2>1 DEF Used
  <2> QED
    BY <2>1, <2>3, <2>4 DEF UnusedInv
<1>2. CASE Unwritten
  <2>1. Kept /\ rows' = rows
    BY <1>2, UnwrittenKeeps
  <2>2. \A i \in Items : Used(i) => Used(i)'
    BY <2>1 DEF Used, Kept, Same
  <2> QED
    BY <2>1, <2>2 DEF UnusedInv
<1> QED
  BY <1>1, <1>2, NextSplit

LEMMA PastKept ==
    ASSUME TypeOK, Kept, rows' = rows, NEW t, NEW rev, Past(t, rev)
    PROVE  Past(t, rev)'
<1>1. /\ DOMAIN handler' = DOMAIN handler
      /\ \A n \in DOMAIN handler : /\ handler'[n].kind = handler[n].kind
                                   /\ handler'[n].item = handler[n].item
                                   /\ handler[n].kind # "edit" => handler'[n].rev = handler[n].rev
  BY DEF Kept, Same
<1>2. ASSUME NEW n \in DOMAIN handler, LastRemoval(n, t)
      PROVE  LastRemoval(n, t)' /\ handler'[n].rev = handler[n].rev
  BY <1>1, <1>2 DEF LastRemoval
<1> QED
  BY <1>1, <1>2 DEF Past

LEMMA PastWritten ==
    ASSUME TypeOK, UnusedInv, NEW kind \in Kinds, NEW i \in Items, Commit(kind, i),
           NEW t \in Tokens, NEW rev \in Int, Past(t, rev)
    PROVE  Past(t, rev)'
<1>1. /\ Len(handler) \in Nat
      /\ DOMAIN handler = 1 .. Len(handler)
      /\ DOMAIN handler' = 1 .. (Len(handler) + 1)
      /\ \A n \in DOMAIN handler : handler'[n] = handler[n]
      /\ handler'[Len(handler) + 1] = Written(kind, i)
      /\ rows'[i] = RevisionAfter(kind, i)
      /\ \A j \in Items : j # i => rows'[j] = rows[j]
  BY CommitEffect
<1>0. PICK last \in Nat : last = Len(handler) + 1
  BY <1>1
<1>2. /\ DOMAIN handler' = DOMAIN handler \cup {last}
      /\ \A n \in DOMAIN handler : n < last
      /\ handler'[last].kind = kind /\ handler'[last].item = i
      /\ kind = "remove" => handler'[last].rev = rows[i]
  BY <1>0, <1>1 DEF Written
<1>3. t \in Items /\ rows[t] \in Nat
  BY DEF Items, TypeOK
<1>4. Allowed(kind, i) /\ Fits(kind, i)
  BY DEF Commit
<1>5. CASE i # t
  <2>1. rows'[t] = rows[t]
    BY <1>1, <1>3, <1>5
  <2>2. \A n \in DOMAIN handler : LastRemoval(n, t) => LastRemoval(n, t)'
    BY <1>1, <1>2, <1>5 DEF LastRemoval
  <2> QED
    BY <1>1, <1>2, <2>1, <2>2 DEF Past
<1>6. CASE i = t
  <2>1. kind \in TokenKinds
    BY <1>4, <1>6, ItemsAssumption DEF Fits
  <2>2. CASE kind = "place"
    <3>1. ~ Used(t) /\ rows[t] = 0
      BY <1>3, <1>4, <1>6, <2>2 DEF Allowed, Creating, UnusedInv
    <3>2. rev <= 0
      BY <3>1 DEF Past, LastRemoval, Used
    <3>3. rows'[t] = 1
      <4>1. RevisionAfter(kind, i) = 1
        BY <2>2 DEF RevisionAfter, Creating, Deleting
      <4> QED
        BY <1>1, <1>6, <4>1
    <3> QED
      BY <3>2, <3>3 DEF Past
  <2>3. CASE kind = "remove"
    <3>1. rows[t] # 0 /\ rows'[t] = 0
      BY <1>1, <1>4, <1>6, <2>3 DEF Allowed, Creating, RevisionAfter, Deleting
    <3>2. LastRemoval(last, t)'
      BY <1>1, <1>2, <1>6, <2>3 DEF LastRemoval
    <3>3. rev <= rows[t]
      BY <3>1 DEF Past
    <3> QED
      BY <1>2, <1>6, <2>3, <3>1, <3>2, <3>3 DEF Past
  <2>4. CASE kind = "restore"
    <3> DEFINE was == CHOOSE n \in DOMAIN handler : LastRemoval(n, t)
    <3>1. rows[t] = 0 /\ was \in DOMAIN handler /\ LastRemoval(was, t)
      BY <1>4, <1>6, <2>4 DEF Allowed, Creating
    <3>2. rows'[t] = 1 + handler[was].rev
      BY <1>1, <1>6, <2>4 DEF RevisionAfter, Creating, Deleting
    <3>3. handler[was].rev \in Nat
      BY <3>1, HandlerIn, HandlerFields
    <3> HIDE DEF was
    <3>4. ASSUME NEW n \in DOMAIN handler, LastRemoval(n, t) PROVE n = was
      <4>1. n <= was /\ was <= n
        BY <3>1, <3>4 DEF LastRemoval
      <4>2. n \in Nat /\ was \in Nat
        BY <3>1, HandlerIn
      <4> QED
        BY <4>1, <4>2
    <3>5. rev <= rows'[t] /\ rows'[t] # 0
      BY <3>1, <3>2, <3>3, <3>4 DEF Past
    <3> QED
      BY <3>5 DEF Past
  <2>5. CASE kind \notin {"place", "remove", "restore"}
    <3>1. rows[t] # 0 /\ rows'[t] = rows[t] + 1
      BY <1>1, <1>4, <1>6, <2>1, <2>5
         DEF Allowed, Creating, RevisionAfter, Deleting, TokenKinds
    <3>2. rev <= rows[t]
      BY <3>1 DEF Past
    <3> QED
      BY <1>3, <3>1, <3>2 DEF Past
  <2> QED
    BY <2>2, <2>3, <2>4, <2>5
<1> QED
  BY <1>5, <1>6

LEMMA PastRow ==
    ASSUME TypeOK, NEW t \in Tokens
    PROVE  Past(t, rows[t]) /\ Past(t, Unread)
BY DEF Past, TypeOK, Items, Unread

LEMMA PastInit == Init => PastInv
<1> SUFFICES ASSUME Init PROVE PastInv
  OBVIOUS
<1>1. DOMAIN handler = {} /\ drafts = {}
  BY EmptySeq DEF Init
<1>2. \A c \in Clients, t \in Tokens : client[c].view[t] = rows[t]
  BY DEF Init
<1>3. \A t \in Tokens : Past(t, rows[t])
  BY TypeInit, PastRow
<1> QED
  BY <1>1, <1>2, <1>3 DEF PastInv

LEMMA PastStep == TypeOK /\ UnusedInv /\ PastInv /\ [Next]_vars => PastInv'
<1> SUFFICES ASSUME TypeOK, UnusedInv, PastInv, [Next]_vars PROVE PastInv'
  OBVIOUS
<1>1. ASSUME NEW kind \in Kinds, NEW i \in Items, Commit(kind, i) PROVE PastInv'
  <2>1. /\ Len(handler) \in Nat
        /\ DOMAIN handler = 1 .. Len(handler)
        /\ DOMAIN handler' = 1 .. (Len(handler) + 1)
        /\ \A n \in DOMAIN handler : handler'[n] = handler[n]
        /\ handler'[Len(handler) + 1] = Written(kind, i)
        /\ rows' \in [Items -> Nat]
        /\ rows'[i] = RevisionAfter(kind, i)
    BY <1>1, CommitEffect
  <2>0. PICK last \in Nat : last = Len(handler) + 1
    BY <2>1
  <2>2. drafts' = drafts /\ client' = client
    BY <1>1 DEF Commit
  <2>3. ASSUME NEW c \in Clients, NEW t \in Tokens PROVE Past(t, client[c].view[t])'
    <3>1. client[c].view[t] \in Int
      BY ViewFields DEF TypeOK, Items
    <3>2. PICK rev \in Int : rev = client[c].view[t]
      BY <3>1
    <3>3. Past(t, rev)
      BY <3>2 DEF PastInv
    <3>4. Past(t, rev)'
      BY <1>1, <3>3, PastWritten
    <3> QED
      BY <2>2, <3>2, <3>4
  <2>4. ASSUME NEW d \in drafts, NEW t \in Tokens PROVE Past(t, d.seen[t])'
    <3>1. d.seen[t] \in Int
      BY DraftFields DEF TypeOK, Items, Unread
    <3>2. Past(t, d.seen[t])
      BY DEF PastInv
    <3> QED
      BY <1>1, <3>1, <3>2, PastWritten
  <2>5. ASSUME NEW n \in DOMAIN handler, handler[n].item \in Tokens
        PROVE  Past(handler[n].item, handler[n].rev)'
    <3>1. handler[n].rev \in Int
      BY HandlerIn, HandlerFields
    <3>2. PICK t \in Tokens : t = handler[n].item
      BY <2>5
    <3>3. PICK rev \in Int : rev = handler[n].rev
      BY <3>1
    <3>4. Past(t, rev)
      BY <3>2, <3>3 DEF PastInv
    <3>5. Past(t, rev)'
      BY <1>1, <3>4, PastWritten
    <3> QED
      BY <2>1, <3>2, <3>3, <3>5
  <2>6. ASSUME i \in Tokens PROVE Past(i, handler[last].rev)'
    <3>1. CASE kind = "remove"
      <4>1. handler'[last].rev = rows[i] /\ rows[i] \in Nat
        BY <2>0, <2>1, <3>1 DEF Written, TypeOK
      <4>2. Past(i, rows[i])
        BY <2>6, PastRow
      <4>3. PICK rev \in Int : rev = rows[i]
        BY <4>1
      <4>4. Past(i, rev)'
        BY <1>1, <2>6, <4>2, <4>3, PastWritten
      <4> QED
        BY <4>1, <4>3, <4>4
    <3>2. CASE kind # "remove"
      <4>1. handler'[last].rev = rows'[i] /\ rows'[i] \in Nat
        BY <2>0, <2>1, <3>2 DEF Written
      <4> QED
        BY <4>1 DEF Past
    <3> QED
      BY <3>1, <3>2
  <2>7. ASSUME NEW n \in DOMAIN handler', handler'[n].item \in Tokens
        PROVE  /\ Past(handler[n].item, handler[n].rev)'
               /\ handler'[n].kind = "edit" /\ handler'[n].pc = "emit" => handler'[n].rev > 0
    <3>1. CASE n \in DOMAIN handler
      BY <2>1, <2>5, <2>7, <3>1 DEF PastInv
    <3>2. CASE n = last
      BY <2>0, <2>1, <2>6, <2>7, <3>2 DEF Written
    <3> QED
      BY <2>0, <2>1, <3>1, <3>2
  <2> QED
    BY <2>2, <2>3, <2>4, <2>7 DEF PastInv
<1>2. CASE Unwritten
  <2>1. Kept /\ rows' = rows
    BY <1>2, UnwrittenKeeps
  <2>2. ASSUME NEW t, NEW rev, Past(t, rev) PROVE Past(t, rev)'
    BY <2>1, <2>2, PastKept
  <2>3. ASSUME NEW e \in drafts', NEW t \in Tokens PROVE Past(t, e.seen[t])'
    <3>1. t \in Items
      BY DEF Items
    <3>2. e.seen[t] = Unread \/ e.seen[t] = rows[t] \/ \E d \in drafts : e.seen[t] = d.seen[t]
      BY <1>2, <3>1, DraftOrigin DEF Fresh, Grows
    <3>3. Past(t, e.seen[t])
      BY <3>2, PastRow DEF PastInv
    <3> QED
      BY <2>2, <3>3
  <2>4. ASSUME NEW c \in Clients, NEW t \in Tokens PROVE Past(t, client[c].view[t])'
    <3>0. Past(t, client[c].view[t]) /\ client[c] \in Views /\ t \in Items
      BY DEF PastInv, TypeOK, Items
    <3>1. Past(t, client'[c].view[t])
      <4>1. CASE client'[c] = client[c]
        BY <3>0, <4>1
      <4>2. ASSUME NEW n \in DOMAIN handler, client'[c] = Patched(client[c], handler[n], n)
            PROVE  Past(t, client'[c].view[t])
        <5>1. handler[n] \in Handlers /\ n \in Nat
          BY HandlerIn
        <5>2. CASE handler[n].item = t
          BY <3>0, <4>2, <5>1, <5>2, PatchedEffect DEF PastInv
        <5>3. CASE handler[n].item # t
          BY <3>0, <4>2, <5>1, <5>3, PatchedEffect
        <5> QED
          BY <5>2, <5>3
      <4>3. ASSUME NEW d \in drafts, Send(d), client[c].version <= d.version,
                   client'[c] = Reconcile(client[c], d)
            PROVE  Past(t, client'[c].view[t])
        <5>1. d \in Drafts /\ d.version # Unread
          BY <4>3 DEF TypeOK, Send
        <5>2. client'[c].view = d.seen
          BY <3>0, <4>3, <5>1, Marks
        <5> QED
          BY <5>2 DEF PastInv
      <4> QED
        BY <1>2, <4>1, <4>2, <4>3, ClientOrigin
    <3>2. PICK rev : rev = client'[c].view[t]
      OBVIOUS
    <3>3. Past(t, rev)'
      BY <2>2, <3>1, <3>2
    <3> QED
      BY <3>2, <3>3
  <2> DEFINE Fine(n) == handler'[n].item \in Tokens =>
          /\ Past(handler[n].item, handler'[n].rev)
          /\ handler'[n].kind = "edit" /\ handler'[n].pc = "emit" => handler'[n].rev > 0
  <2>5. ASSUME NEW n \in DOMAIN handler, handler'[n].rev = handler[n].rev,
               handler'[n].pc = "emit" => handler[n].pc = "emit" \/ handler[n].kind # "edit"
        PROVE  Fine(n)
    BY <2>1, <2>5 DEF PastInv, Kept, Same
  <2>6. ASSUME NEW n \in DOMAIN handler PROVE Fine(n)
    <3>0. handler[n] \in Handlers
      BY HandlerIn
    <3>1. CASE handler'[n] = handler[n]
      BY <2>5, <3>1
    <3>2. CASE CallBroadcast(n) \/ CallSettled(n) \/ Emit(n) \/ LoseEvent(n)
      <4>1. PICK pc \in PCs \ {"emit"} : Continue(n, pc)
        BY <3>2 DEF CallBroadcast, CallSettled, Emit, LoseEvent, PCs
      <4>2. handler'[n] = [handler[n] EXCEPT !.pc = pc]
        BY <4>1, ContinueEffect
      <4>3. handler'[n].rev = handler[n].rev /\ handler'[n].pc # "emit"
        BY <3>0, <4>1, <4>2 DEF Handlers
      <4> QED
        BY <2>5, <4>3
    <3>3. CASE Project(n)
      <4> DEFINE row == rows[handler[n].item]
      <4>1. handler'[n] = [handler[n] EXCEPT
                !.pc  = IF row = 0 THEN "done" ELSE "emit",
                !.rev = IF handler[n].kind = "edit" /\ row # 0 THEN row ELSE @]
        BY <3>3 DEF Project, TypeOK
      <4>2. row \in Nat
        BY <3>0, HandlerFields DEF TypeOK
      <4>3. CASE handler[n].kind = "edit" /\ row # 0
        <5>1. handler'[n].rev = row /\ handler'[n].item = handler[n].item
          BY <3>0, <4>1, <4>3 DEF Handlers
        <5> QED
          BY <4>2, <4>3, <5>1, PastRow
      <4>4. CASE ~ (handler[n].kind = "edit" /\ row # 0)
        <5>1. handler'[n].rev = handler[n].rev
          BY <3>0, <4>1, <4>4 DEF Handlers
        <5>2. handler'[n].pc = "emit" => handler[n].kind # "edit"
          BY <3>0, <4>1, <4>4 DEF Handlers
        <5> QED
          BY <2>5, <5>1, <5>2
      <4> QED
        BY <4>3, <4>4
    <3>4. ASSUME NEW outcome \in {"done", "failed"}, NEW rest, Settle(outcome, rest) PROVE Fine(n)
      <4>1. handler'[n] = Released(handler[n], outcome, n \in slot.running)
        BY <3>4, SettleEffect DEF PCs
      <4>2. handler'[n].rev = handler[n].rev /\ (handler'[n].pc = "emit" => handler[n].pc = "emit")
        BY <3>0, <4>1 DEF Released, Handlers
      <4> QED
        BY <2>5, <4>2
    <3>5. ASSUME NEW m \in DOMAIN handler, m # n, HandlerStep(m) PROVE handler'[n] = handler[n]
      BY <3>5, ProjectEffect, ContinueEffect
         DEF HandlerStep, CallBroadcast, CallSettled, Emit, LoseEvent, PCs
    <3>6. ASSUME NEW d \in drafts, Reads(d) PROVE handler' = handler
      BY <3>6 DEF Reads, ReadTokens, ReadSequence, ReadCanvas
    <3>7. ASSUME NEW d \in drafts, Send(d)
          PROVE  handler' = handler \/ Settle("done", drafts \ {d})
      BY <3>7 DEF Send
    <3>8. ASSUME NEW d \in drafts, Fail(d)
          PROVE  handler' = handler \/ \E rest : Settle("failed", rest)
      BY <3>8 DEF Fail
    <3>9. CASE UNCHANGED vars
      BY <3>1, <3>9 DEF vars
    <3> HIDE DEF Fine
    <3>10. CASE \E m \in DOMAIN handler : HandlerStep(m)
      BY <3>1, <3>2, <3>3, <3>5, <3>10 DEF HandlerStep
    <3>11. CASE Serve \/ \E d \in drafts : Fail(d)
      BY <3>1, <3>4, <3>6, <3>7, <3>8, <3>11 DEF Serve, DraftStep, Reads
    <3> QED
      BY <1>2, <3>9, <3>10, <3>11 DEF Unwritten
  <2>7. ASSUME NEW n \in DOMAIN handler', handler'[n].item \in Tokens
        PROVE  /\ Past(handler[n].item, handler[n].rev)'
               /\ handler'[n].kind = "edit" /\ handler'[n].pc = "emit" => handler'[n].rev > 0
    <3>1. n \in DOMAIN handler /\ handler'[n].item = handler[n].item
      BY <2>1 DEF Kept, Same
    <3>2. /\ Past(handler[n].item, handler'[n].rev)
          /\ handler'[n].kind = "edit" /\ handler'[n].pc = "emit" => handler'[n].rev > 0
      BY <2>6, <2>7, <3>1
    <3>3. PICK t : t = handler[n].item
      OBVIOUS
    <3>4. PICK rev : rev = handler'[n].rev
      OBVIOUS
    <3>5. Past(t, rev)'
      BY <2>2, <3>2, <3>3, <3>4
    <3> QED
      BY <3>1, <3>2, <3>3, <3>4, <3>5
  <2> QED
    BY <2>3, <2>4, <2>7 DEF PastInv
<1> QED
  BY <1>1, <1>2, NextSplit

----------------------------------------------------------------------------
(* Only a move or an edit is projected to an event of its own.             *)
PointInv == \A n \in DOMAIN handler : handler[n].pc = "emit" => handler[n].kind \in {"move", "edit"}

LEMMA PointInit == Init => PointInv
BY EmptySeq DEF Init, PointInv

LEMMA PointStep == TypeOK /\ PointInv /\ [Next]_vars => PointInv'
<1> SUFFICES ASSUME TypeOK, PointInv, [Next]_vars PROVE PointInv'
  OBVIOUS
<1>1. ASSUME NEW kind \in Kinds, NEW i \in Items, Commit(kind, i) PROVE PointInv'
  <2>1. /\ DOMAIN handler = 1 .. Len(handler) /\ Len(handler) \in Nat
        /\ DOMAIN handler' = 1 .. (Len(handler) + 1)
        /\ \A n \in DOMAIN handler : handler'[n] = handler[n]
        /\ handler'[Len(handler) + 1] = Written(kind, i)
    BY <1>1, CommitEffect
  <2>2. handler'[Len(handler) + 1].pc = "committed"
    BY <2>1 DEF Written
  <2>3. ASSUME NEW n \in DOMAIN handler', handler'[n].pc = "emit"
        PROVE  handler'[n].kind \in {"move", "edit"}
    <3>1. n \in DOMAIN handler
      BY <2>1, <2>2, <2>3
    <3> QED
      BY <2>1, <2>3, <3>1 DEF PointInv
  <2> QED
    BY <2>3 DEF PointInv
<1>2. ASSUME NEW outcome \in {"done", "failed"}, NEW rest, Settle(outcome, rest) PROVE PointInv'
  <2>1. Kept /\ \A n \in DOMAIN handler :
                    handler'[n] = Released(handler[n], outcome, n \in slot.running)
    BY <1>2, SettleEffect DEF PCs
  <2>2. \A n \in DOMAIN handler : handler'[n].pc = "emit" => handler[n].pc = "emit"
    BY <2>1, HandlerIn DEF Released, Handlers
  <2> QED
    BY <2>1, <2>2 DEF PointInv, Kept, Same
<1>3. ASSUME NEW n \in DOMAIN handler, NEW pc \in PCs, pc # "emit", Continue(n, pc) PROVE PointInv'
  <2>1. /\ Kept
        /\ handler'[n] = [handler[n] EXCEPT !.pc = pc]
        /\ \A m \in DOMAIN handler : m # n => handler'[m] = handler[m]
    BY <1>3, ContinueEffect
  <2>2. handler'[n].pc # "emit"
    BY <1>3, <2>1, HandlerIn DEF Handlers
  <2> QED
    BY <2>1, <2>2 DEF PointInv, Kept, Same
<1>4. ASSUME NEW n \in DOMAIN handler, Project(n) PROVE PointInv'
  BY <1>4, ProjectEffect DEF PointInv, Kept, Same
<1>5. ASSUME handler' = handler PROVE PointInv'
  BY <1>5 DEF PointInv
<1>6. ASSUME NEW n \in DOMAIN handler, HandlerStep(n) PROVE PointInv'
  <2>1. Project(n) \/ \E pc \in PCs : pc # "emit" /\ Continue(n, pc)
    BY <1>6 DEF HandlerStep, CallBroadcast, CallSettled, Emit, LoseEvent, PCs
  <2> QED
    BY <1>3, <1>4, <2>1
<1>7. ASSUME NEW d \in drafts, DraftStep(d)
      PROVE  handler' = handler \/ Settle("done", drafts \ {d})
  BY <1>7 DEF DraftStep, ReadTokens, ReadSequence, ReadCanvas, Send
<1>8. ASSUME NEW d \in drafts, Fail(d)
      PROVE  handler' = handler \/ \E rest : Settle("failed", rest)
  BY <1>8 DEF Fail
<1>9. CASE UNCHANGED vars
  BY <1>5, <1>9 DEF vars
<1> QED
  BY <1>1, <1>2, <1>5, <1>6, <1>7, <1>8, <1>9 DEF Next, Serve


----------------------------------------------------------------------------
(* Convergence of the tokens where every write is settled.                 *)

Reached(c) == \E d \in drafts : c \in d.to

Calm == /\ Settled
        /\ \A d \in drafts : SettledDraft(d)
        /\ \A c \in Clients, t \in Tokens : ClientSettles(c, t)

CalmOn ==
    /\ \A d \in drafts' : SettledDraft(d)'
    /\ \A c \in Clients, t \in Tokens : ClientSettles(c, t)'

Context == /\ TypeOK /\ SlotInv /\ Fitting /\ VersionInv /\ SiblingInv /\ PastInv
           /\ PointInv
           /\ Calm

LEMMA SettledBefore ==
    ASSUME TypeOK, [Next]_vars, Settled'
    PROVE  /\ Settled
           /\ \A d \in drafts : ~ Fail(d)
           /\ \A n \in DOMAIN handler : ~ LoseEvent(n)
<1>0. failures \in Nat /\ failures' = 0
  BY DEF TypeOK, Settled
<1>1. /\ \A d \in drafts : ~ Fail(d)
      /\ \A n \in DOMAIN handler : ~ LoseEvent(n)
  BY <1>0 DEF Fail, LoseEvent
<1>2. CASE Unwritten
  <2>1. failures' = failures
    BY <1>1, <1>2
       DEF Unwritten, HandlerStep, Serve, DraftStep, CallBroadcast, CallSettled, Project, Emit,
           ReadTokens, ReadSequence, ReadCanvas, Send, vars
  <2>2. Kept
    BY <1>2, UnwrittenKeeps
  <2>3. \A n \in DOMAIN handler : handler[n].kind \in Broadcasting \cup Settling
    BY <2>2 DEF Settled, Kept, Same
  <2> QED
    BY <1>0, <1>1, <2>1, <2>3 DEF Settled
<1>3. ASSUME NEW kind \in Kinds, NEW i \in Items, Commit(kind, i) PROVE Settled
  <2>1. /\ DOMAIN handler \subseteq DOMAIN handler'
        /\ \A n \in DOMAIN handler : handler'[n] = handler[n]
    BY <1>3, CommitEffect
  <2>2. failures' = failures
    BY <1>3 DEF Commit
  <2>3. \A n \in DOMAIN handler : handler[n].kind \in Broadcasting \cup Settling
    BY <2>1 DEF Settled
  <2> QED
    BY <1>0, <2>2, <2>3 DEF Settled
<1> QED
  BY <1>1, <1>2, <1>3, NextSplit

(* A draft that has not read anything yet.                                  *)
LEMMA NewDraftSettles ==
    ASSUME NEW d, d = Draft("broadcast", Clients, "-")
    PROVE  SettledDraft(d)'
<1>1. d.job = "broadcast" /\ d.version = Unread
  BY DEF Draft
<1>2. \A t \in Tokens : d.seen[t] = Unread
  BY DEF Draft, Items
<1> QED
  BY <1>1, <1>2 DEF SettledDraft, DraftSettles

(* A draft that a step leaves as it is.                                     *)
LEMMA DraftStays ==
    ASSUME Kept, rows' = rows, NEW d, SettledDraft(d),
           d.version # Unread =>
              /\ \A n \in DOMAIN handler : handler'[n].pc \in {"ready", "emit"} => n <= d.version
              /\ \A c \in Clients : client'[c].version <= d.version,
           \A t \in Tokens : Awaited(t) => Awaited(t)',
           \A n \in DOMAIN handler, t \in Tokens : Herald(n, t, Held) => Herald(n, t, Held)',
           \A c \in Clients, t \in Tokens : d.seen[t] # 0 => client'[c].mark[t] = client[c].mark[t]
    PROVE  SettledDraft(d)'
<1>1. DOMAIN handler' = DOMAIN handler
  BY DEF Kept
<1>2. ASSUME NEW t \in Tokens PROVE DraftSettles(d, t)'
  <2>1. DraftSettles(d, t)
    BY DEF SettledDraft
  <2>2. CASE d.seen[t] \in {Unread, rows[t]}
    BY <2>2 DEF DraftSettles
  <2>3. CASE Awaited(t)
    BY <2>3 DEF DraftSettles
  <2>4. ASSUME d.seen[t] # 0, NEW n \in DOMAIN handler, Herald(n, t, Held),
               \A c \in Clients : client[c].mark[t] < n
        PROVE  DraftSettles(d, t)'
    <3>1. Herald(n, t, Held)' /\ \A c \in Clients : client'[c].mark[t] < n
      BY <2>4
    <3> QED
      BY <1>1, <2>4, <3>1 DEF DraftSettles
  <2> QED
    BY <2>1, <2>2, <2>3, <2>4 DEF DraftSettles
<1>3. d.job = "broadcast"
  BY DEF SettledDraft
<1> QED
  BY <1>1, <1>2, <1>3 DEF SettledDraft

(* A client that a step leaves as it is.                                    *)
LEMMA ClientStays ==
    ASSUME Kept, rows' = rows, NEW c \in Clients, NEW t \in Tokens, ClientSettles(c, t),
           client'[c].view[t] = client[c].view[t], client'[c].mark[t] = client[c].mark[t],
           Awaited(t) => Awaited(t)' \/ Reached(c)',
           Reached(c) => Reached(c)',
           \A n \in DOMAIN handler : Herald(n, t, Unsent) => Herald(n, t, Unsent)'
    PROVE  ClientSettles(c, t)'
<1>1. DOMAIN handler' = DOMAIN handler
  BY DEF Kept
<1>2. CASE client[c].view[t] = rows[t]
  BY <1>2 DEF ClientSettles
<1>3. CASE Awaited(t) \/ Reached(c)
  BY <1>3 DEF ClientSettles, Reached
<1>4. ASSUME client[c].view[t] # 0, NEW n \in DOMAIN handler, Herald(n, t, Unsent),
             client[c].mark[t] < n
      PROVE  ClientSettles(c, t)'
  <2>1. Herald(n, t, Unsent)'
    BY <1>4
  <2> QED
    BY <1>1, <1>4, <2>1 DEF ClientSettles
<1> QED
  BY <1>2, <1>3, <1>4 DEF ClientSettles, Reached

LEMMA AwaitedStays ==
    ASSUME Kept, NEW t, Awaited(t), slot.queued \subseteq slot'.queued,
           \A n \in DOMAIN handler : handler[n].kind \in Broadcasting /\ handler[n].pc = "committed" =>
                 handler'[n].pc = "committed" \/ n \in slot'.queued
    PROVE  Awaited(t)'
BY DEF Awaited, Kept, Same

LEMMA HeraldStays ==
    ASSUME Kept, rows' = rows, NEW n \in DOMAIN handler, NEW t, NEW pcs, Herald(n, t, pcs),
           handler'[n].pc \in pcs,
           handler'[n].pc = "emit" => handler'[n].rev = rows[t]
    PROVE  Herald(n, t, pcs)'
BY DEF Herald, Kept, Same

(* A write: it is awaited or heralds itself if it changes a token.          *)
LEMMA CalmWritten ==
    ASSUME Context, Settled', NEW kind \in Kinds, NEW i \in Items, Commit(kind, i)
    PROVE  CalmOn
<1>0. TypeOK /\ SlotInv /\ VersionInv /\ Calm
  BY DEF Context
<1>1. /\ Len(handler) \in Nat
      /\ DOMAIN handler = 1 .. Len(handler)
      /\ DOMAIN handler' = 1 .. (Len(handler) + 1)
      /\ \A n \in DOMAIN handler : handler'[n] = handler[n]
      /\ handler'[Len(handler) + 1] = Written(kind, i)
      /\ rows'[i] = RevisionAfter(kind, i)
      /\ \A j \in Items : j # i => rows'[j] = rows[j]
  BY <1>0, CommitEffect
<1>2. PICK last \in Nat : last = Len(handler) + 1
  BY <1>1
<1>3. /\ DOMAIN handler' = DOMAIN handler \cup {last}
      /\ handler'[last].kind = kind /\ handler'[last].item = i /\ handler'[last].pc = "committed"
      /\ kind # "remove" => handler'[last].rev = rows'[i]
  BY <1>1, <1>2 DEF Written
<1>4. slot' = slot /\ drafts' = drafts /\ client' = client
  BY DEF Commit
<1>5. kind \in Broadcasting \cup Settling
  BY <1>3 DEF Settled
<1>6. \A c \in Clients, t \in Tokens : client[c].mark[t] \in Nat /\ client[c].mark[t] < last
  BY <1>0, <1>1, <1>2, ViewFields DEF VersionInv, TypeOK
<1>7. ASSUME NEW t \in Tokens PROVE Awaited(t) => Awaited(t)'
  BY <1>1, <1>3, <1>4 DEF Awaited
<1>8. ASSUME NEW t \in Tokens
      PROVE  \/ rows'[t] = rows[t] /\ \A n \in DOMAIN handler, pcs \in {Held, Unsent} :
                                          Herald(n, t, pcs) => Herald(n, t, pcs)'
             \/ Awaited(t)'
             \/ rows[t] # 0 /\ Herald(last, t, Held)' /\ Herald(last, t, Unsent)'
  <2>0. t \in Items /\ rows[t] \in Nat
    BY <1>0 DEF TypeOK, Items
  <2>1. CASE t # i
    <3>1. rows'[t] = rows[t]
      BY <1>1, <2>0, <2>1
    <3> QED
      BY <1>1, <3>1 DEF Herald
  <2>2. CASE t = i /\ kind \in Broadcasting
    BY <1>3, <2>2 DEF Awaited
  <2>3. CASE t = i /\ kind \notin Broadcasting
    <3>1. Fits(kind, i) /\ Allowed(kind, i)
      BY DEF Commit
    <3>2. kind = "edit"
      BY <1>5, <2>3, <3>1, ItemsAssumption DEF Fits, Settling, DrawingKinds, TokenKinds
    <3>3. rows[t] # 0 /\ RevisionAfter(kind, i) = rows[t] + 1
      BY <2>3, <3>1, <3>2 DEF Allowed, RevisionAfter, Creating, Deleting
    <3>4. rows'[t] # 0
      BY <1>1, <2>0, <2>3, <3>3
    <3> QED
      BY <1>3, <2>3, <3>2, <3>3, <3>4 DEF Herald, Held, Unsent
  <2> QED
    BY <2>1, <2>2, <2>3
<1>9. ASSUME NEW d \in drafts PROVE SettledDraft(d)'
  <2>1. SettledDraft(d)
    BY <1>0 DEF Calm
  <2>2. ASSUME NEW t \in Tokens PROVE DraftSettles(d, t)'
    <3>1. DraftSettles(d, t)
      BY <2>1 DEF SettledDraft
    <3>2. CASE Awaited(t)'
      BY <3>2 DEF DraftSettles
    <3>3. CASE d.seen[t] = Unread
      BY <3>3 DEF DraftSettles
    <3>4. CASE rows'[t] = rows[t] /\ \A n \in DOMAIN handler, pcs \in {Held, Unsent} :
                                          Herald(n, t, pcs) => Herald(n, t, pcs)'
      <4>1. CASE d.seen[t] = rows[t]
        BY <3>4, <4>1 DEF DraftSettles
      <4>2. ASSUME d.seen[t] # 0, NEW n \in DOMAIN handler, Herald(n, t, Held),
                   \A c \in Clients : client[c].mark[t] < n
            PROVE  DraftSettles(d, t)'
        <5>1. Herald(n, t, Held)' /\ n \in DOMAIN handler'
          BY <1>3, <3>4, <4>2
        <5> QED
          BY <1>4, <4>2, <5>1 DEF DraftSettles
      <4> QED
        BY <1>7, <3>1, <3>2, <3>3, <4>1, <4>2 DEF DraftSettles
    <3>5. CASE rows[t] # 0 /\ Herald(last, t, Held)'
      <4>1. CASE d.seen[t] # 0
        <5>1. \A c \in Clients : client'[c].mark[t] < last
          BY <1>4, <1>6
        <5> QED
          BY <1>3, <3>5, <4>1, <5>1 DEF DraftSettles
      <4>2. CASE d.seen[t] = 0
        BY <1>7, <3>1, <3>5, <4>2 DEF DraftSettles, Unread
      <4> QED
        BY <4>1, <4>2
    <3> QED
      BY <1>8, <3>2, <3>4, <3>5
  <2>3. d.version # Unread =>
          /\ \A n \in DOMAIN handler' : handler'[n].pc \in {"ready", "emit"} => n <= d.version
          /\ \A c \in Clients : client'[c].version <= d.version
    BY <1>1, <1>3, <1>4, <2>1 DEF SettledDraft
  <2>4. d.job = "broadcast"
    BY <2>1 DEF SettledDraft
  <2> QED
    BY <2>2, <2>3, <2>4 DEF SettledDraft
<1>10. ASSUME NEW c \in Clients, NEW t \in Tokens PROVE ClientSettles(c, t)'
  <2>1. ClientSettles(c, t)
    BY <1>0 DEF Calm
  <2>2. CASE Awaited(t)' \/ \E d \in drafts : c \in d.to
    BY <1>4, <2>2 DEF ClientSettles
  <2>3. CASE rows'[t] = rows[t] /\ \A n \in DOMAIN handler, pcs \in {Held, Unsent} :
                                        Herald(n, t, pcs) => Herald(n, t, pcs)'
    <3>1. CASE client[c].view[t] = rows[t]
      BY <1>4, <2>3, <3>1 DEF ClientSettles
    <3>2. ASSUME client[c].view[t] # 0, NEW n \in DOMAIN handler, Herald(n, t, Unsent),
                 client[c].mark[t] < n
          PROVE  ClientSettles(c, t)'
      <4>1. Herald(n, t, Unsent)' /\ n \in DOMAIN handler'
        BY <1>3, <2>3, <3>2
      <4> QED
        BY <1>4, <3>2, <4>1 DEF ClientSettles
    <3> QED
      BY <1>7, <2>1, <2>2, <3>1, <3>2 DEF ClientSettles
  <2>4. CASE rows[t] # 0 /\ Herald(last, t, Unsent)'
    <3>1. CASE client[c].view[t] # 0
      <4>1. client'[c].mark[t] < last
        BY <1>4, <1>6
      <4> QED
        BY <1>3, <1>4, <2>4, <3>1, <4>1 DEF ClientSettles
    <3>2. CASE client[c].view[t] = 0
      BY <1>7, <2>1, <2>2, <2>4, <3>2 DEF ClientSettles
    <3> QED
      BY <3>1, <3>2
  <2> QED
    BY <1>8, <2>2, <2>3, <2>4
<1> QED
  BY <1>4, <1>9, <1>10 DEF CalmOn

(* Without a broadcast there is no draft.                                   *)
LEMMA CalmEmpty ==
    ASSUME Context, slot.running = {}
    PROVE  drafts = {}
BY DEF Context, Calm, SettledDraft, SlotInv

LEMMA CalmCall ==
    ASSUME Context, NEW n \in DOMAIN handler, CallBroadcast(n)
    PROVE  CalmOn
<1>0. TypeOK /\ Calm
  BY DEF Context
<1>1. CASE slot.running = {}
  <2>1. drafts' = {Draft("broadcast", Clients, "-")}
    BY <1>1, CalmEmpty DEF CallBroadcast
  <2>2. \A c \in Clients : Reached(c)'
    BY <2>1 DEF Reached, Draft
  <2>3. \A d \in drafts' : SettledDraft(d)'
    BY <2>1, NewDraftSettles
  <2>4. \A c \in Clients, t \in Tokens : ClientSettles(c, t)'
    BY <2>2 DEF Reached, ClientSettles
  <2> QED
    BY <2>3, <2>4 DEF CalmOn
<1>2. CASE slot.running # {}
  <2>1. /\ Kept
        /\ handler'[n] = [handler[n] EXCEPT !.pc = "awaiting"]
        /\ \A m \in DOMAIN handler : m # n => handler'[m] = handler[m]
    BY <1>0, ContinueEffect DEF CallBroadcast, PCs
  <2>2. handler'[n].pc = "awaiting"
    BY <1>0, <2>1, HandlerIn DEF Handlers
  <2>3. /\ slot'.queued = slot.queued \cup {n} /\ drafts' = drafts
        /\ client' = client /\ rows' = rows
    BY <1>0, <1>2 DEF CallBroadcast, TypeOK
  <2>4. ASSUME NEW t \in Tokens PROVE Awaited(t) => Awaited(t)'
    BY <2>1, <2>3, AwaitedStays
  <2>5. ASSUME NEW m \in DOMAIN handler, NEW t \in Tokens, NEW pcs PROVE Herald(m, t, pcs) => Herald(m, t, pcs)'
    <3>1. handler[n].kind # "edit"
      BY DEF CallBroadcast, Broadcasting
    <3>2. Herald(m, t, pcs) => m # n
      BY <3>1 DEF Herald
    <3> QED
      BY <2>1, <2>3, <3>2 DEF Herald
  <2>6. ASSUME NEW d \in drafts PROVE SettledDraft(d)'
    <3>1. SettledDraft(d)
      BY <1>0 DEF Calm
    <3>2. d.version # Unread =>
              /\ \A m \in DOMAIN handler : handler'[m].pc \in {"ready", "emit"} => m <= d.version
              /\ \A c \in Clients : client'[c].version <= d.version
      BY <2>1, <2>2, <2>3, <3>1 DEF SettledDraft
    <3> QED
      BY <2>1, <2>3, <2>4, <2>5, <3>1, <3>2, DraftStays
  <2>7. ASSUME NEW c \in Clients, NEW t \in Tokens PROVE ClientSettles(c, t)'
    <3>1. ClientSettles(c, t)
      BY <1>0 DEF Calm
    <3>2. Reached(c) => Reached(c)'
      BY <2>3 DEF Reached
    <3> QED
      BY <2>1, <2>3, <2>4, <2>5, <3>1, <3>2, ClientStays
  <2> QED
    BY <2>3, <2>6, <2>7 DEF CalmOn
<1> QED
  BY <1>1, <1>2

(* An event is held back while a broadcast is running.                      *)
LEMMA CalmCallSettled ==
    ASSUME Context, NEW n \in DOMAIN handler, CallSettled(n)
    PROVE  CalmOn
<1> DEFINE pc == IF slot.running = {} THEN "ready" ELSE "settling"
<1>0. TypeOK /\ Calm
  BY DEF Context
<1>1. /\ Kept
      /\ handler'[n] = [handler[n] EXCEPT !.pc = pc]
      /\ \A m \in DOMAIN handler : m # n => handler'[m] = handler[m]
  BY <1>0, ContinueEffect DEF CallSettled, PCs
<1>2. handler'[n].pc = pc
  BY <1>0, <1>1, HandlerIn DEF Handlers
<1>3. slot' = slot /\ drafts' = drafts /\ client' = client /\ rows' = rows
  BY DEF CallSettled
<1>4. handler[n].pc = "committed" /\ handler[n].kind \notin Broadcasting
  BY DEF CallSettled, Settling, Broadcasting, DrawingKinds
<1>5. ASSUME NEW t \in Tokens PROVE Awaited(t) => Awaited(t)'
  BY <1>1, <1>3, <1>4, AwaitedStays
<1>6. ASSUME NEW m \in DOMAIN handler, NEW t \in Tokens
      PROVE  /\ Herald(m, t, Unsent) => Herald(m, t, Unsent)'
             /\ slot.running # {} => (Herald(m, t, Held) => Herald(m, t, Held)')
  <2>1. CASE m # n
    BY <1>1, <1>3, <2>1 DEF Herald
  <2>2. CASE m = n
    BY <1>1, <1>2, <1>3, <2>2, HeraldStays DEF Unsent, Held
  <2> QED
    BY <2>1, <2>2
<1>7. ASSUME NEW d \in drafts PROVE SettledDraft(d)'
  <2>1. SettledDraft(d)
    BY <1>0 DEF Calm
  <2>2. slot.running # {}
    BY CalmEmpty
  <2>3. d.version # Unread =>
            /\ \A m \in DOMAIN handler : handler'[m].pc \in {"ready", "emit"} => m <= d.version
            /\ \A c \in Clients : client'[c].version <= d.version
    BY <1>1, <1>2, <1>3, <2>1, <2>2 DEF SettledDraft
  <2> HIDE DEF pc
  <2> QED
    BY <1>1, <1>3, <1>5, <1>6, <2>1, <2>2, <2>3, DraftStays
<1>8. ASSUME NEW c \in Clients, NEW t \in Tokens PROVE ClientSettles(c, t)'
  <2>1. ClientSettles(c, t)
    BY <1>0 DEF Calm
  <2>2. Reached(c) => Reached(c)'
    BY <1>3 DEF Reached
  <2> QED
    BY <1>1, <1>3, <1>5, <1>6, <2>1, <2>2, ClientStays
<1> QED
  BY <1>3, <1>7, <1>8 DEF CalmOn

(* The event takes the row along.                                           *)
LEMMA CalmProject ==
    ASSUME Context, NEW n \in DOMAIN handler, Project(n)
    PROVE  CalmOn
<1> DEFINE row == rows[handler[n].item]
<1>0. TypeOK /\ Calm
  BY DEF Context
<1>1. /\ Kept
      /\ handler'[n].pc \in {"emit", "done"}
      /\ \A m \in DOMAIN handler : m # n => handler'[m] = handler[m]
  BY <1>0, ProjectEffect
<1>2. handler[n].kind = "edit" /\ handler[n].pc = "ready"
  BY <1>0 DEF Project, Calm, Settled, Settling, Broadcasting, DrawingKinds
<1>3. row # 0 => handler'[n].pc = "emit" /\ handler'[n].rev = row
  <2>1. handler'[n] = [handler[n] EXCEPT
            !.pc  = IF row = 0 THEN "done" ELSE "emit",
            !.rev = IF handler[n].kind = "edit" /\ row # 0 THEN row ELSE @]
    BY <1>0 DEF Project, TypeOK
  <2> QED
    BY <1>0, <1>2, <2>1, HandlerIn DEF Handlers
<1>4. slot' = slot /\ drafts' = drafts /\ client' = client /\ rows' = rows
  BY DEF Project
<1>5. ASSUME NEW t \in Tokens PROVE Awaited(t) => Awaited(t)'
  BY <1>1, <1>2, <1>4, AwaitedStays DEF Broadcasting
<1>6. ASSUME NEW m \in DOMAIN handler, NEW t \in Tokens
      PROVE  /\ Herald(m, t, Unsent) => Herald(m, t, Unsent)'
             /\ Herald(m, t, Held) => Herald(m, t, Held)'
  <2>1. CASE m # n
    BY <1>1, <1>4, <2>1 DEF Herald
  <2>2. CASE m = n
    <3>1. ~ Herald(m, t, Held)
      BY <1>2, <2>2 DEF Herald, Held
    <3>2. ASSUME Herald(m, t, Unsent) PROVE Herald(m, t, Unsent)'
      <4>1. row = rows[t] /\ rows[t] # 0
        BY <2>2, <3>2 DEF Herald
      <4>2. handler'[n].pc = "emit" /\ handler'[n].rev = rows[t]
        BY <1>3, <4>1
      <4> QED
        BY <1>1, <1>4, <2>2, <3>2, <4>2, HeraldStays DEF Unsent
    <3> QED
      BY <3>1, <3>2
  <2> QED
    BY <2>1, <2>2
<1>7. ASSUME NEW d \in drafts PROVE SettledDraft(d)'
  <2>1. SettledDraft(d)
    BY <1>0 DEF Calm
  <2>2. d.version # Unread =>
            /\ \A m \in DOMAIN handler : handler'[m].pc \in {"ready", "emit"} => m <= d.version
            /\ \A c \in Clients : client'[c].version <= d.version
    BY <1>1, <1>2, <1>4, <2>1 DEF SettledDraft
  <2> QED
    BY <1>1, <1>4, <1>5, <1>6, <2>1, <2>2, DraftStays
<1>8. ASSUME NEW c \in Clients, NEW t \in Tokens PROVE ClientSettles(c, t)'
  <2>1. ClientSettles(c, t)
    BY <1>0 DEF Calm
  <2>2. Reached(c) => Reached(c)'
    BY <1>4 DEF Reached
  <2> QED
    BY <1>1, <1>4, <1>5, <1>6, <2>1, <2>2, ClientStays
<1> QED
  BY <1>4, <1>7, <1>8 DEF CalmOn

(* An event goes out: a client lets it through unless it shows a later row, *)
(* and then another event is still to come.                                 *)
LEMMA CalmEmit ==
    ASSUME Context, NEW n \in DOMAIN handler, Emit(n)
    PROVE  CalmOn
<1>0. TypeOK /\ Calm /\ Fitting /\ PastInv
  BY DEF Context
<1>1. /\ Kept
      /\ handler'[n] = [handler[n] EXCEPT !.pc = "done"]
      /\ \A m \in DOMAIN handler : m # n => handler'[m] = handler[m]
  BY <1>0, ContinueEffect DEF Emit, PCs
<1>2. handler[n] \in Handlers /\ n \in Nat /\ handler'[n].pc = "done"
  BY <1>0, <1>1, HandlerIn DEF Handlers
<1>3. handler[n].kind \in Settling /\ handler[n].pc \in {"ready", "emit"}
  <2>1. handler[n].kind \in Broadcasting \cup Settling
    BY <1>0 DEF Calm, Settled
  <2>2. handler[n].pc \in {"ready", "emit"}
    BY <2>1 DEF Emit, MayEmit, Broadcasting, Settling, DrawingKinds
  <2>3. handler[n].kind \notin Broadcasting
    BY DEF Emit, MayEmit, Context, PointInv, Broadcasting, DrawingKinds
  <2> QED
    BY <2>1, <2>2, <2>3
<1>4. drafts' = drafts /\ slot' = slot /\ rows' = rows
  BY <1>3 DEF Emit, AsksResync, Settling, DrawingKinds
<1>5. ASSUME NEW t \in Tokens PROVE Awaited(t) => Awaited(t)'
  BY <1>1, <1>3, <1>4, AwaitedStays
<1>6. ASSUME NEW m \in DOMAIN handler, NEW t \in Tokens
      PROVE  /\ Herald(m, t, Unsent) /\ m # n => Herald(m, t, Unsent)'
             /\ Herald(m, t, Held) => Herald(m, t, Held)'
  <2>1. Herald(m, t, Held) => m # n
    BY <1>3 DEF Herald, Held
  <2> QED
    BY <1>1, <1>4, <2>1 DEF Herald
<1>7. ASSUME NEW c \in Clients
      PROVE  /\ client'[c] = Receives(client[c], handler[n], n)
             /\ client'[c] \in {client[c], Patched(client[c], handler[n], n)}
             /\ client'[c].mark = client[c].mark
             /\ client'[c].version \in {client[c].version, Later(client[c].version, n)}
  <2>1. client[c] \in Views
    BY <1>0 DEF TypeOK
  <2>2. client'[c] = Receives(client[c], handler[n], n)
    BY DEF Emit
  <2>3. client'[c] \in {client[c], Patched(client[c], handler[n], n)}
    BY <1>2, <2>1, <2>2, ReceivesEffect
  <2> QED
    BY <1>2, <2>1, <2>2, <2>3, PatchedMarks
<1>8. ASSUME NEW d \in drafts PROVE SettledDraft(d)'
  <2>1. SettledDraft(d)
    BY <1>0 DEF Calm
  <2>2. d.version # Unread =>
            /\ \A m \in DOMAIN handler : handler'[m].pc \in {"ready", "emit"} => m <= d.version
            /\ \A c \in Clients : client'[c].version <= d.version
    BY <1>1, <1>2, <1>3, <1>7, <2>1 DEF SettledDraft, Later
  <2> QED
    BY <1>1, <1>4, <1>5, <1>6, <1>7, <2>1, <2>2, DraftStays
<1>9. ASSUME NEW c \in Clients, NEW t \in Tokens PROVE ClientSettles(c, t)'
  <2>1. ClientSettles(c, t) /\ client[c] \in Views /\ t \in Items
    BY <1>0 DEF Calm, TypeOK, Items
  <2>2. Reached(c) => Reached(c)'
    BY <1>4 DEF Reached
  <2>3. CASE handler[n].item # t
    <3>1. client'[c].view[t] = client[c].view[t] /\ client'[c].mark[t] = client[c].mark[t]
      BY <1>2, <1>7, <2>1, <2>3, PatchedEffect
    <3>2. \A m \in DOMAIN handler : Herald(m, t, Unsent) => m # n
      BY <2>3 DEF Herald
    <3> QED
      BY <1>1, <1>4, <1>5, <1>6, <2>1, <2>2, <3>1, <3>2, ClientStays
  <2>4. CASE handler[n].item = t
    <3> DEFINE rev  == handler[n].rev
               view == client[c].view[t]
    <3>1. handler[n].kind = "edit"
      BY <1>0, <1>3, <2>4, ItemsAssumption DEF Fitting, Fits, Settling, TokenKinds, DrawingKinds
    <3>2. handler[n].pc = "emit"
      BY <3>1 DEF Emit, MayEmit, DrawingKinds
    <3>3. rev > 0 /\ Past(t, rev) /\ Past(t, view)
      BY <1>0, <2>4, <3>1, <3>2 DEF PastInv
    <3>4. view \in Nat /\ rev \in Nat /\ rows[t] \in Nat /\ client[c].mark[t] \in Nat
      BY <1>0, <1>2, <2>1, ViewFields, HandlerFields DEF TypeOK
    <3>5. client'[c] = TokenEvent(client[c], handler[n], n)
      BY <1>7, <3>1 DEF Receives, TokenKinds, DrawingKinds
    <3>6. CASE view = 0 \/ n <= client[c].mark[t] \/ rev < view
      <4>1. client'[c] = client[c]
        BY <2>4, <3>1, <3>5, <3>6 DEF TokenEvent
      <4>2. ASSUME Herald(n, t, Unsent), view # 0, client[c].mark[t] < n PROVE FALSE
        <5>1. rows[t] # 0 /\ rev = rows[t]
          BY <3>2, <4>2 DEF Herald
        <5>2. view <= rev
          BY <3>3, <5>1 DEF Past
        <5> QED
          BY <1>2, <3>4, <3>6, <4>2, <5>2
      <4>3. CASE view = rows[t]
        BY <1>4, <4>1, <4>3 DEF ClientSettles
      <4>4. CASE Awaited(t) \/ Reached(c)
        BY <1>5, <2>2, <4>4 DEF ClientSettles, Reached
      <4>5. ASSUME view # 0, NEW m \in DOMAIN handler, Herald(m, t, Unsent), client[c].mark[t] < m
            PROVE  ClientSettles(c, t)'
        <5>1. m # n
          BY <4>2, <4>5
        <5>2. Herald(m, t, Unsent)' /\ m \in DOMAIN handler'
          BY <1>1, <1>6, <4>5, <5>1 DEF Kept
        <5> QED
          BY <4>1, <4>5, <5>2 DEF ClientSettles
      <4> QED
        BY <2>1, <4>3, <4>4, <4>5 DEF ClientSettles, Reached
    <3>7. CASE ~ (view = 0 \/ n <= client[c].mark[t] \/ rev < view)
      <4>1. client'[c] = Patched(client[c], handler[n], n)
        BY <2>4, <3>1, <3>5, <3>7 DEF TokenEvent
      <4>2. client'[c].view[t] = rev /\ client'[c].mark[t] = client[c].mark[t]
        BY <1>2, <1>7, <2>1, <2>4, <4>1, PatchedEffect
      <4>3. CASE view = rows[t]
        <5>1. rev <= rows[t]
          BY <3>3, <3>7, <4>3 DEF Past
        <5>2. rev = rows[t]
          BY <3>4, <3>7, <4>3, <5>1
        <5> QED
          BY <1>4, <4>2, <5>2 DEF ClientSettles
      <4>4. CASE Awaited(t) \/ Reached(c)
        BY <1>5, <2>2, <4>4 DEF ClientSettles, Reached
      <4>5. ASSUME NEW m \in DOMAIN handler, Herald(m, t, Unsent), client[c].mark[t] < m
            PROVE  ClientSettles(c, t)'
        <5>1. CASE m = n
          <6>1. rev = rows[t]
            BY <3>2, <4>5, <5>1 DEF Herald
          <6> QED
            BY <1>4, <4>2, <6>1 DEF ClientSettles
        <5>2. CASE m # n
          <6>1. Herald(m, t, Unsent)' /\ m \in DOMAIN handler'
            BY <1>1, <1>6, <4>5, <5>2 DEF Kept
          <6>2. client'[c].view[t] # 0
            BY <3>3, <4>2
          <6> QED
            BY <4>2, <4>5, <6>1, <6>2 DEF ClientSettles
        <5> QED
          BY <5>1, <5>2
      <4> QED
        BY <2>1, <4>3, <4>4, <4>5 DEF ClientSettles, Reached
    <3> QED
      BY <3>6, <3>7
  <2> QED
    BY <2>3, <2>4
<1> QED
  BY <1>4, <1>8, <1>9 DEF CalmOn

(* A read adds the row as it is to a draft, and leaves every socket in one. *)
LEMMA CalmRead ==
    ASSUME Context, NEW d \in drafts, Reads(d)
    PROVE  CalmOn
<1>0. TypeOK /\ VersionInv /\ Calm
  BY DEF Context
<1>1. PICK S : drafts' = (drafts \ {d}) \cup S /\ Split(d, S)
  BY <1>0, ReadSplit
<1>2. UNCHANGED <<rows, handler, slot, client, shown, failures>>
  BY DEF Reads, ReadTokens, ReadSequence, ReadCanvas
<1>3. Kept
  BY <1>0, <1>2, Unchanged
<1>4. ASSUME NEW t \in Tokens PROVE Awaited(t) => Awaited(t)'
  BY <1>2 DEF Awaited
<1>5. ASSUME NEW n \in DOMAIN handler, NEW t \in Tokens, NEW pcs \in {Held, Unsent}
      PROVE  Herald(n, t, pcs) => Herald(n, t, pcs)'
  BY <1>2 DEF Herald
<1>6. ASSUME NEW e, SettledDraft(e) PROVE SettledDraft(e)'
  <2>1. e.version # Unread =>
            /\ \A n \in DOMAIN handler : handler'[n].pc \in {"ready", "emit"} => n <= e.version
            /\ \A c \in Clients : client'[c].version <= e.version
    BY <1>2, <1>6 DEF SettledDraft
  <2> QED
    BY <1>2, <1>3, <1>4, <1>5, <1>6, <2>1, DraftStays
<1>7. ASSUME NEW e \in S PROVE SettledDraft(e)
  <2>1. SettledDraft(d) /\ Successor(d, e)
    BY <1>0, <1>1 DEF Calm, Split
  <2>2. e.job = "broadcast"
    BY <2>1 DEF SettledDraft, Successor
  <2>3. ASSUME e.version # Unread
        PROVE  /\ \A n \in DOMAIN handler : handler[n].pc \in {"ready", "emit"} => n <= e.version
               /\ \A c \in Clients : client[c].version <= e.version
    <3>1. CASE e.version = d.version
      BY <2>1, <2>3, <3>1 DEF SettledDraft
    <3>2. CASE e.version = Len(handler)
      BY <1>0, <3>2, HandlerIn DEF VersionInv
    <3> QED
      BY <2>1, <3>1, <3>2 DEF Successor
  <2>4. ASSUME NEW t \in Tokens PROVE DraftSettles(e, t)
    <3>1. e.seen[t] = d.seen[t] \/ e.seen[t] = rows[t]
      BY <2>1 DEF Successor, Items
    <3>2. DraftSettles(d, t)
      BY <2>1 DEF SettledDraft
    <3> QED
      BY <3>1, <3>2 DEF DraftSettles
  <2> QED
    BY <2>2, <2>3, <2>4 DEF SettledDraft
<1>8. ASSUME NEW e \in drafts' PROVE SettledDraft(e)'
  <2>1. SettledDraft(e)
    BY <1>0, <1>1, <1>7 DEF Calm
  <2> QED
    BY <1>6, <2>1
<1>9. ASSUME NEW c \in Clients, Reached(c) PROVE Reached(c)'
  <2>1. PICK e \in drafts : c \in e.to
    BY <1>9 DEF Reached
  <2>2. CASE e # d
    BY <1>1, <2>1, <2>2 DEF Reached
  <2>3. CASE e = d
    <3>1. \E f \in S : c \in f.to
      BY <1>1, <2>1, <2>3 DEF Split
    <3> QED
      BY <1>1, <3>1 DEF Reached
  <2> QED
    BY <2>2, <2>3
<1>10. ASSUME NEW c \in Clients, NEW t \in Tokens PROVE ClientSettles(c, t)'
  <2>1. ClientSettles(c, t)
    BY <1>0 DEF Calm
  <2> QED
    BY <1>2, <1>3, <1>4, <1>5, <1>9, <2>1, ClientStays
<1> QED
  BY <1>8, <1>10 DEF CalmOn

(* A snapshot is applied, and the last one of a broadcast settles it.       *)
LEMMA CalmSend ==
    ASSUME Context, NEW d \in drafts, Send(d)
    PROVE  CalmOn
<1>0. /\ TypeOK /\ SlotInv /\ SiblingInv /\ Calm
      /\ \A e \in drafts : SettledDraft(e) /\ e.job = "broadcast"
  BY DEF Context, Calm, SettledDraft
<1>1. d \in Drafts /\ d.version # Unread /\ \A i \in Items : d.seen[i] # Unread
  BY <1>0 DEF Send, TypeOK
<1>2. rows' = rows
  BY DEF Send
<1>3. Kept
  BY <1>0, SettleEffect, Unchanged DEF Send, PCs
<1>4. ASSUME NEW c \in Clients
      PROVE  /\ c \notin d.to => client'[c] = client[c]
             /\ c \in d.to => client'[c].view = d.seen
             /\ client'[c].version \in {client[c].version, d.version}
             /\ \A t \in Tokens : d.seen[t] # 0 => client'[c].mark[t] = client[c].mark[t]
  <2>1. client[c] \in Views /\ client[c].version <= d.version
    BY <1>0, <1>1 DEF TypeOK, SettledDraft
  <2>2. client'[c] = IF c \in d.to THEN Reconcile(client[c], d) ELSE client[c]
    BY DEF Send
  <2> QED
    BY <1>1, <2>1, <2>2, Marks
<1>5. \/ /\ Siblings(d) = {}
         /\ Settle("done", drafts \ {d})
      \/ /\ handler' = handler /\ slot' = slot
         /\ drafts' = drafts \ {d}
  BY <1>0 DEF Send
<1>6. \A n \in DOMAIN handler : n \in slot.running \cup slot.queued => handler[n].pc = "awaiting"
  BY <1>0 DEF SlotInv
<1>7. ASSUME NEW n \in DOMAIN handler, handler[n].pc # "awaiting"
      PROVE  \/ handler'[n] = handler[n]
             \/ /\ handler[n].pc = "settling" /\ handler'[n].pc = "ready"
                /\ drafts \ {d} = {}
  <2>1. CASE handler' = handler
    BY <2>1
  <2>2. CASE Siblings(d) = {} /\ Settle("done", drafts \ {d})
    <3>1. handler'[n] = Released(handler[n], "done", n \in slot.running)
      BY <1>0, <2>2, SettleEffect DEF PCs
    <3>2. drafts \ {d} = {}
      BY <1>0, <2>2 DEF Siblings
    <3> QED
      BY <1>0, <1>6, <1>7, <3>1, <3>2, HandlerIn DEF Released, Handlers
  <2> QED
    BY <1>5, <2>1, <2>2
<1>8. \A n \in DOMAIN handler : handler[n].pc = "awaiting" => handler'[n].pc \in {"awaiting", "done"}
  <2>1. ASSUME NEW n \in DOMAIN handler, handler[n].pc = "awaiting",
               Settle("done", drafts \ {d})
        PROVE  handler'[n].pc \in {"awaiting", "done"}
    <3>1. handler'[n] = Released(handler[n], "done", n \in slot.running)
      BY <1>0, <2>1, SettleEffect DEF PCs
    <3> QED
      BY <1>0, <2>1, <3>1, HandlerIn DEF Released, Handlers
  <2> QED
    BY <1>5, <2>1
<1>9. ASSUME NEW t \in Tokens, Awaited(t)
      PROVE  Awaited(t)' \/ \A c \in Clients : Reached(c)'
  <2>1. PICK n \in DOMAIN handler :
              /\ handler[n].item = t /\ handler[n].kind \in Broadcasting
              /\ handler[n].pc = "committed" \/ n \in slot.queued
    BY <1>9 DEF Awaited
  <2>2. /\ n \in DOMAIN handler' /\ handler'[n].item = t /\ handler'[n].kind \in Broadcasting
    BY <1>3, <2>1 DEF Kept, Same
  <2>3. CASE handler[n].pc = "committed"
    <3>1. handler'[n].pc = "committed"
      BY <1>7, <2>3
    <3> QED
      BY <2>2, <3>1 DEF Awaited
  <2>4. CASE n \in slot.queued /\ slot' = slot
    BY <2>2, <2>4 DEF Awaited
  <2>5. CASE n \in slot.queued /\ Settle("done", drafts \ {d})
    <3>1. Draft("broadcast", Clients, "-") \in drafts'
      BY <2>5 DEF Settle
    <3> QED
      BY <3>1 DEF Reached, Draft
  <2> QED
    BY <1>5, <2>1, <2>3, <2>4, <2>5
<1>10. ASSUME NEW n \in DOMAIN handler, NEW t \in Tokens
       PROVE  /\ Herald(n, t, Unsent) => Herald(n, t, Unsent)'
              /\ Herald(n, t, Held) => Herald(n, t, Unsent)'
              /\ drafts \ {d} # {} => (Herald(n, t, Held) => Herald(n, t, Held)')
  <2>1. ASSUME NEW pcs \in {Held, Unsent}, Herald(n, t, pcs)
        PROVE  /\ Herald(n, t, Unsent)'
               /\ drafts \ {d} # {} => Herald(n, t, pcs)'
    <3>1. handler[n].pc # "awaiting" /\ handler[n].pc \in Unsent
      BY <2>1 DEF Herald, Held, Unsent
    <3>2. CASE handler'[n] = handler[n]
      BY <1>2, <2>1, <3>1, <3>2 DEF Herald
    <3>3. CASE /\ handler[n].pc = "settling" /\ handler'[n].pc = "ready"
               /\ drafts \ {d} = {}
      BY <1>2, <1>3, <2>1, <3>3 DEF Herald, Unsent, Kept, Same
    <3> QED
      BY <1>7, <3>1, <3>2, <3>3
  <2> QED
    BY <2>1
<1>11. ASSUME NEW e \in drafts' PROVE SettledDraft(e)'
  <2>1. e \in drafts \ {d} \/ e = Draft("broadcast", Clients, "-")
    BY <1>5 DEF Settle
  <2>2. CASE e \in drafts \ {d}
    <3>1. SettledDraft(e)
      BY <1>0, <2>2
    <3>2. /\ handler' = handler /\ slot' = slot
      BY <1>0, <1>5, <2>2 DEF Siblings
    <3>3. e.version = d.version /\ \A t \in Tokens : e.seen[t] = d.seen[t]
      BY <1>0, <2>2 DEF SiblingInv
    <3>4. e.version # Unread =>
              /\ \A n \in DOMAIN handler : handler'[n].pc \in {"ready", "emit"} => n <= e.version
              /\ \A c \in Clients : client'[c].version <= e.version
      <4>1. d.version \in Nat /\ \A c \in Clients : client[c].version <= d.version
        BY <1>0, <1>1, DraftFields DEF SettledDraft, Unread
      <4> QED
        BY <1>4, <3>1, <3>2, <3>3, <4>1 DEF SettledDraft
    <3>5. \A t \in Tokens : Awaited(t) => Awaited(t)'
      BY <3>2 DEF Awaited
    <3>6. \A n \in DOMAIN handler, t \in Tokens : Herald(n, t, Held) => Herald(n, t, Held)'
      BY <1>10, <2>2
    <3>7. \A c \in Clients, t \in Tokens : e.seen[t] # 0 => client'[c].mark[t] = client[c].mark[t]
      BY <1>4, <3>3
    <3> QED
      BY <1>2, <1>3, <3>1, <3>4, <3>5, <3>6, <3>7, DraftStays
  <2> QED
    BY <2>1, <2>2, NewDraftSettles
<1>12. ASSUME NEW c \in Clients, NEW t \in Tokens PROVE ClientSettles(c, t)'
  <2>1. CASE c \in d.to
    <3>1. client'[c].view[t] = d.seen[t] /\ d.seen[t] # Unread
      BY <1>1, <1>4, <2>1 DEF Items
    <3>2. DraftSettles(d, t)
      BY <1>0 DEF SettledDraft
    <3>3. CASE d.seen[t] = rows[t]
      BY <1>2, <3>1, <3>3 DEF ClientSettles
    <3>4. CASE Awaited(t)
      BY <1>9, <3>4 DEF ClientSettles, Reached
    <3>5. ASSUME d.seen[t] # 0, NEW n \in DOMAIN handler, Herald(n, t, Held),
                 \A x \in Clients : client[x].mark[t] < n
          PROVE  ClientSettles(c, t)'
      <4>1. Herald(n, t, Unsent)' /\ n \in DOMAIN handler'
        BY <1>3, <1>10, <3>5 DEF Kept
      <4>2. client'[c].mark[t] < n
        BY <1>4, <3>5
      <4> QED
        BY <3>1, <3>5, <4>1, <4>2 DEF ClientSettles
    <3> QED
      BY <3>1, <3>2, <3>3, <3>4, <3>5 DEF DraftSettles
  <2>2. CASE c \notin d.to
    <3>1. client'[c] = client[c] /\ ClientSettles(c, t)
      BY <1>0, <1>4, <2>2 DEF Calm
    <3>2. Awaited(t) => Awaited(t)' \/ Reached(c)'
      BY <1>9
    <3>3. Reached(c) => Reached(c)'
      <4>1. ASSUME NEW e \in drafts, c \in e.to PROVE e \in drafts'
        <5>1. e # d
          BY <2>2, <4>1
        <5> QED
          BY <1>0, <1>5, <5>1 DEF Siblings
      <4> QED
        BY <4>1 DEF Reached
    <3> QED
      BY <1>2, <1>3, <1>10, <3>1, <3>2, <3>3, ClientStays
  <2> QED
    BY <2>1, <2>2
<1> QED
  BY <1>11, <1>12 DEF CalmOn

LEMMA SettledInit == Init => SettledInv
<1> SUFFICES ASSUME Init PROVE SettledInv
  OBVIOUS
<1>1. drafts = {} /\ \A c \in Clients, t \in Tokens : client[c].view[t] = rows[t]
  BY DEF Init
<1> QED
  BY <1>1 DEF SettledInv, ClientSettles

LEMMA SettledStep ==
    ASSUME TypeOK, SlotInv, Fitting, VersionInv, SiblingInv, PastInv, PointInv, SettledInv,
           [Next]_vars
    PROVE  SettledInv'
<1> SUFFICES ASSUME Settled' PROVE CalmOn
  BY DEF SettledInv, CalmOn
<1>1. /\ Settled
      /\ \A d \in drafts : ~ Fail(d)
      /\ \A n \in DOMAIN handler : ~ LoseEvent(n)
  BY SettledBefore
<1>2. Context
  BY <1>1 DEF Context, Calm, SettledInv
<1>3. ASSUME NEW kind \in Kinds, NEW i \in Items, Commit(kind, i) PROVE CalmOn
  BY <1>2, <1>3, CalmWritten
<1>4. ASSUME NEW n \in DOMAIN handler, HandlerStep(n) PROVE CalmOn
  BY <1>1, <1>2, <1>4, CalmCall, CalmCallSettled, CalmProject, CalmEmit DEF HandlerStep
<1>5. ASSUME NEW d \in drafts, DraftStep(d) PROVE CalmOn
  BY <1>2, <1>5, CalmRead, CalmSend DEF DraftStep, Reads
<1>6. CASE UNCHANGED vars
  <2>1. UNCHANGED <<rows, handler, slot, drafts, client>>
    BY <1>6 DEF vars
  <2>2. \A d \in drafts' : SettledDraft(d)'
    BY <1>2, <2>1 DEF Context, Calm, SettledDraft, DraftSettles, Awaited, Herald
  <2>3. \A c \in Clients, t \in Tokens : ClientSettles(c, t)'
    BY <1>2, <2>1 DEF Context, Calm, ClientSettles, Awaited, Herald
  <2> QED
    BY <2>2, <2>3 DEF CalmOn
<1> QED
  BY <1>1, <1>3, <1>4, <1>5, <1>6 DEF Next, Serve

----------------------------------------------------------------------------
(* Point events alone.                                                     *)

Heard(c, t) ==
    /\ client[c].mark[t] = 0
    /\ \/ client[c].view[t] = rows[t]
       \/ client[c].view[t] # 0 /\ \E n \in DOMAIN handler : PointHerald(n, t)

LEMMA PointwiseInit == Init => PointwiseInv
<1> SUFFICES ASSUME Init PROVE PointwiseInv
  OBVIOUS
<1>1. drafts = {}
  BY DEF Init
<1>2. \A c \in Clients, t \in Tokens : client[c].view[t] = rows[t] /\ client[c].mark[t] = 0
  BY DEF Init
<1> QED
  BY <1>1, <1>2 DEF PointwiseInv

LEMMA PointwiseBefore ==
    ASSUME TypeOK, [Next]_vars, PointEventsOnly', failures' = 0
    PROVE  /\ PointEventsOnly /\ failures = 0
           /\ \A n \in DOMAIN handler : ~ LoseEvent(n)
<1>0. failures \in Nat
  BY DEF TypeOK
<1>1. /\ \A d \in drafts : ~ Fail(d)
      /\ \A n \in DOMAIN handler : ~ LoseEvent(n)
  BY <1>0 DEF Fail, LoseEvent
<1>2. CASE Unwritten
  <2>1. failures' = failures
    BY <1>1, <1>2
       DEF Unwritten, HandlerStep, Serve, DraftStep, CallBroadcast, CallSettled, Project, Emit,
           ReadTokens, ReadSequence, ReadCanvas, Send, vars
  <2>2. PointEventsOnly
    BY <1>2, UnwrittenKeeps DEF PointEventsOnly, Kept, Same
  <2> QED
    BY <1>1, <2>1, <2>2
<1>3. ASSUME NEW kind \in Kinds, NEW i \in Items, Commit(kind, i) PROVE PointEventsOnly /\ failures = 0
  <2>1. /\ DOMAIN handler \subseteq DOMAIN handler'
        /\ \A n \in DOMAIN handler : handler'[n] = handler[n]
    BY <1>3, CommitEffect
  <2> QED
    BY <1>3, <2>1 DEF PointEventsOnly, Commit
<1> QED
  BY <1>1, <1>2, <1>3, NextSplit

LEMMA HeardStays ==
    ASSUME DOMAIN handler' = DOMAIN handler, rows' = rows,
           NEW c \in Clients, NEW t \in Tokens, Heard(c, t),
           client'[c].view[t] = client[c].view[t], client'[c].mark[t] = client[c].mark[t],
           \A n \in DOMAIN handler : PointHerald(n, t) => PointHerald(n, t)'
    PROVE  Heard(c, t)'
BY DEF Heard

LEMMA HeardWritten ==
    ASSUME TypeOK, PointEventsOnly', NEW kind \in Kinds, NEW i \in Items, Commit(kind, i),
           NEW c \in Clients, NEW t \in Tokens, Heard(c, t)
    PROVE  Heard(c, t)'
<1>1. /\ Len(handler) \in Nat
      /\ DOMAIN handler = 1 .. Len(handler)
      /\ DOMAIN handler' = 1 .. (Len(handler) + 1)
      /\ \A n \in DOMAIN handler : handler'[n] = handler[n]
      /\ handler'[Len(handler) + 1] = Written(kind, i)
      /\ rows'[i] = RevisionAfter(kind, i)
      /\ \A j \in Items : j # i => rows'[j] = rows[j]
  BY CommitEffect
<1>2. PICK last \in Nat : last = Len(handler) + 1
  BY <1>1
<1>3. /\ DOMAIN handler' = DOMAIN handler \cup {last}
      /\ handler'[last].kind = kind /\ handler'[last].item = i /\ handler'[last].pc = "committed"
      /\ kind # "remove" => handler'[last].rev = rows'[i]
  BY <1>1, <1>2 DEF Written
<1>4. client' = client /\ Fits(kind, i) /\ Allowed(kind, i)
  BY DEF Commit
<1>5. kind \in {"move", "edit"} \cup DrawingKinds
  BY <1>3 DEF PointEventsOnly
<1>6. t \in Items /\ rows[t] \in Nat
  BY DEF TypeOK, Items
<1>7. CASE t # i
  <2>1. rows'[t] = rows[t]
    BY <1>1, <1>6, <1>7
  <2>2. \A n \in DOMAIN handler : PointHerald(n, t) => PointHerald(n, t)'
    BY <1>1, <2>1 DEF PointHerald
  <2> QED
    BY <1>3, <1>4, <2>1, <2>2 DEF Heard
<1>8. CASE t = i
  <2>1. kind \in {"move", "edit"}
    BY <1>4, <1>5, <1>8, ItemsAssumption DEF Fits, TokenKinds, DrawingKinds
  <2>2. rows[t] # 0 /\ RevisionAfter(kind, i) = rows[t] + 1
    BY <1>4, <1>8, <2>1 DEF Allowed, RevisionAfter, Creating, Deleting
  <2>3. rows'[t] # 0
    BY <1>1, <1>6, <1>8, <2>2
  <2>4. PointHerald(last, t)'
    BY <1>3, <1>8, <2>1, <2>3 DEF PointHerald, Unsent, Held
  <2>5. client[c].view[t] # 0 /\ client[c].mark[t] = 0
    BY <2>2 DEF Heard
  <2> QED
    BY <1>3, <1>4, <2>4, <2>5 DEF Heard
<1> QED
  BY <1>7, <1>8

(* The event that goes out is refused only by a client that shows its row,  *)
(* or a later one.                                                          *)
LEMMA HeardEmit ==
    ASSUME TypeOK, Fitting, PastInv, PointEventsOnly, NEW n \in DOMAIN handler, Emit(n),
           NEW c \in Clients, NEW t \in Tokens, Heard(c, t)
    PROVE  Heard(c, t)'
<1>1. /\ Kept
      /\ handler'[n] = [handler[n] EXCEPT !.pc = "done"]
      /\ \A m \in DOMAIN handler : m # n => handler'[m] = handler[m]
  BY ContinueEffect DEF Emit, PCs
<1>2. handler[n] \in Handlers /\ n \in Nat /\ n >= 1
  BY HandlerIn, LenProperties DEF TypeOK
<1>3. handler[n].kind \in {"move", "edit"} \cup DrawingKinds
  BY DEF PointEventsOnly
<1>4. rows' = rows /\ DOMAIN handler' = DOMAIN handler
  BY <1>1 DEF Emit, Kept
<1>5. \A m \in DOMAIN handler : PointHerald(m, t) /\ m # n => PointHerald(m, t)'
  BY <1>1, <1>4 DEF PointHerald
<1>6. /\ client[c] \in Views /\ t \in Items /\ client[c].mark[t] = 0
      /\ client'[c] = Receives(client[c], handler[n], n)
      /\ client'[c] \in {client[c], Patched(client[c], handler[n], n)}
      /\ client'[c].mark = client[c].mark
  <2>1. client[c] \in Views /\ t \in Items
    BY DEF TypeOK, Items
  <2>2. client'[c] = Receives(client[c], handler[n], n)
    BY DEF Emit
  <2>3. client'[c] \in {client[c], Patched(client[c], handler[n], n)}
    BY <1>2, <2>1, <2>2, ReceivesEffect
  <2> QED
    BY <1>2, <2>1, <2>2, <2>3, PatchedMarks DEF Heard
<1>7. CASE handler[n].item # t
  <2>1. client'[c].view[t] = client[c].view[t]
    BY <1>2, <1>6, <1>7, PatchedEffect
  <2>2. \A m \in DOMAIN handler : PointHerald(m, t) => PointHerald(m, t)'
    BY <1>5, <1>7 DEF PointHerald
  <2> QED
    BY <1>4, <1>6, <2>1, <2>2, HeardStays
<1>8. CASE handler[n].item = t
  <2> DEFINE rev  == handler[n].rev
             view == client[c].view[t]
  <2>1. handler[n].kind \in {"move", "edit"}
    BY <1>3, <1>8, ItemsAssumption DEF Fitting, Fits, TokenKinds, DrawingKinds
  <2>2. handler[n].pc = "emit"
    BY <2>1 DEF Emit, MayEmit, DrawingKinds
  <2>3. Past(t, rev) /\ Past(t, view)
    BY <1>8 DEF PastInv
  <2>4. view \in Nat /\ rev \in Nat /\ rows[t] \in Nat
    BY <1>2, <1>6, ViewFields, HandlerFields DEF TypeOK
  <2>5. client'[c] = TokenEvent(client[c], handler[n], n)
    BY <1>6, <2>1 DEF Receives, TokenKinds, DrawingKinds
  <2>6. PointHerald(n, t) => rev = rows[t]
    BY <2>2 DEF PointHerald
  <2>7. CASE client'[c] = client[c]
    <3>1. PointHerald(n, t) /\ view # 0 => view = rows[t]
      <4>1. SUFFICES ASSUME PointHerald(n, t), view # 0 PROVE view = rows[t]
        OBVIOUS
      <4>2. rows[t] # 0 /\ rev = rows[t] /\ view <= rows[t]
        BY <2>3, <2>6, <4>1 DEF PointHerald, Past
      <4>3. CASE rev <= view
        BY <2>4, <4>2, <4>3
      <4>4. CASE ~ (rev <= view)
        <5>1. client'[c] = Patched(client[c], handler[n], n)
          BY <1>2, <1>6, <1>8, <2>1, <2>4, <2>5, <4>1, <4>4 DEF TokenEvent
        <5> QED
          BY <1>2, <1>6, <1>8, <2>7, <4>2, <5>1, PatchedEffect
      <4> QED
        BY <4>3, <4>4
    <3>2. CASE view = rows[t]
      BY <1>4, <1>6, <2>7, <3>2 DEF Heard
    <3>3. ASSUME view # rows[t], view # 0, NEW m \in DOMAIN handler, PointHerald(m, t)
          PROVE  Heard(c, t)'
      <4>1. PointHerald(m, t)'
        BY <1>5, <3>1, <3>3
      <4> QED
        BY <1>4, <1>6, <2>7, <3>3, <4>1 DEF Heard
    <3> QED
      BY <3>2, <3>3 DEF Heard
  <2>8. CASE client'[c] # client[c]
    <3>1. view # 0 /\ rev >= view /\ client'[c] = Patched(client[c], handler[n], n)
      BY <1>6, <1>8, <2>1, <2>4, <2>5, <2>8 DEF TokenEvent
    <3>2. client'[c].view[t] = rev /\ rev # 0
      <4>1. Patched(client[c], handler[n], n).view[t] = handler[n].rev
        <5>1. Patched(client[c], handler[n], n).view[handler[n].item] = handler[n].rev
          BY <1>2, <1>6, PatchedEffect
        <5> QED
          BY <1>8, <5>1
      <4>2. rev # 0
        BY <2>4, <3>1
      <4> QED
        BY <3>1, <4>1, <4>2
    <3>3. CASE view = rows[t]
      <4>1. rev <= rows[t]
        BY <2>3, <3>1, <3>3 DEF Past
      <4>2. rev = rows[t]
        BY <2>4, <3>1, <3>3, <4>1
      <4> QED
        BY <1>4, <1>6, <3>2, <4>2 DEF Heard
    <3>4. ASSUME NEW m \in DOMAIN handler, PointHerald(m, t)
          PROVE  Heard(c, t)'
      <4>1. CASE m = n
        BY <1>4, <1>6, <2>6, <3>2, <3>4, <4>1 DEF Heard
      <4>2. CASE m # n
        <5>1. PointHerald(m, t)'
          BY <1>5, <3>4, <4>2
        <5> QED
          BY <1>4, <1>6, <3>2, <5>1 DEF Heard
      <4> QED
        BY <4>1, <4>2
    <3> QED
      BY <3>3, <3>4 DEF Heard
  <2> QED
    BY <2>7, <2>8
<1> QED
  BY <1>7, <1>8

LEMMA PointwiseStep ==
    ASSUME TypeOK, Fitting, SlotInv, PastInv, PointwiseInv, [Next]_vars
    PROVE  PointwiseInv'
<1> SUFFICES ASSUME PointEventsOnly', failures' = 0
             PROVE  drafts' = {} /\ \A c \in Clients, t \in Tokens : Heard(c, t)'
  BY DEF PointwiseInv, Heard
<1>1. /\ PointEventsOnly /\ drafts = {} /\ \A c \in Clients, t \in Tokens : Heard(c, t)
      /\ \A n \in DOMAIN handler : ~ LoseEvent(n)
  BY PointwiseBefore DEF PointwiseInv, Heard
<1>2. ASSUME drafts' = drafts, rows' = rows, client' = client, Kept,
             \A n \in DOMAIN handler, t \in Tokens : PointHerald(n, t) => PointHerald(n, t)'
      PROVE  drafts' = {} /\ \A c \in Clients, t \in Tokens : Heard(c, t)'
  BY <1>1, <1>2, HeardStays DEF Kept
<1>3. ASSUME NEW kind \in Kinds, NEW i \in Items, Commit(kind, i)
      PROVE  drafts' = {} /\ \A c \in Clients, t \in Tokens : Heard(c, t)'
  BY <1>1, <1>3, HeardWritten DEF Commit
<1>4. ASSUME NEW n \in DOMAIN handler PROVE ~ CallBroadcast(n)
  BY <1>1 DEF PointEventsOnly, CallBroadcast, Broadcasting, DrawingKinds
<1>5. ASSUME NEW n \in DOMAIN handler, CallSettled(n)
      PROVE  drafts' = {} /\ \A c \in Clients, t \in Tokens : Heard(c, t)'
  <2> DEFINE pc == IF slot.running = {} THEN "ready" ELSE "settling"
  <2>1. /\ Kept
        /\ handler'[n] = [handler[n] EXCEPT !.pc = pc]
        /\ \A m \in DOMAIN handler : m # n => handler'[m] = handler[m]
    BY <1>5, ContinueEffect DEF CallSettled, PCs
  <2>2. /\ handler'[n].pc = pc /\ handler'[n].item = handler[n].item
        /\ handler'[n].kind = handler[n].kind /\ handler[n].kind # "move"
    BY <1>5, <2>1, HandlerIn DEF Handlers, CallSettled, Settling, DrawingKinds
  <2>3. drafts' = drafts /\ rows' = rows /\ client' = client
    BY <1>5 DEF CallSettled
  <2>4. ASSUME NEW m \in DOMAIN handler, NEW t \in Tokens, PointHerald(m, t)
        PROVE  PointHerald(m, t)'
    <3>1. CASE m = n
      BY <2>2, <2>3, <2>4, <3>1 DEF PointHerald, Unsent, Held
    <3>2. CASE m # n
      BY <2>1, <2>3, <2>4, <3>2 DEF PointHerald
    <3> QED
      BY <3>1, <3>2
  <2> QED
    BY <1>2, <2>1, <2>3, <2>4
<1>6. ASSUME NEW n \in DOMAIN handler, Project(n)
      PROVE  drafts' = {} /\ \A c \in Clients, t \in Tokens : Heard(c, t)'
  <2>1. /\ Kept
        /\ \A m \in DOMAIN handler : m # n => handler'[m] = handler[m]
    BY <1>6, ProjectEffect
  <2>2. drafts' = drafts /\ rows' = rows /\ client' = client
    BY <1>6 DEF Project
  <2>3. ASSUME NEW m \in DOMAIN handler, NEW t \in Tokens, PointHerald(m, t)
        PROVE  PointHerald(m, t)'
    <3>1. CASE m = n
      <4> DEFINE row == rows[handler[n].item]
      <4>1. handler'[n] = [handler[n] EXCEPT
                !.pc  = IF row = 0 THEN "done" ELSE "emit",
                !.rev = IF handler[n].kind = "edit" /\ row # 0 THEN row ELSE @]
        BY <1>6 DEF Project, TypeOK
      <4>2. row = rows[t] /\ rows[t] # 0
        BY <2>3, <3>1 DEF PointHerald
      <4>3. /\ handler'[n].pc = "emit" /\ handler'[n].item = handler[n].item
            /\ handler'[n].kind = handler[n].kind
            /\ handler'[n].rev = IF handler[n].kind = "edit" THEN rows[t] ELSE handler[n].rev
        BY <4>1, <4>2, HandlerIn DEF Handlers
      <4> QED
        BY <2>2, <2>3, <3>1, <4>3 DEF PointHerald, Unsent
    <3>2. CASE m # n
      BY <2>1, <2>2, <2>3, <3>2 DEF PointHerald
    <3> QED
      BY <3>1, <3>2
  <2> QED
    BY <1>2, <2>1, <2>2, <2>3
<1>7. ASSUME NEW n \in DOMAIN handler, Emit(n)
      PROVE  drafts' = {} /\ \A c \in Clients, t \in Tokens : Heard(c, t)'
  <2>1. handler[n].kind # "fog"
    BY <1>1 DEF PointEventsOnly, DrawingKinds
  <2>2. drafts' = {}
    BY <1>1, <1>7, <2>1 DEF Emit, AsksResync
  <2> QED
    BY <1>1, <1>7, <2>2, HeardEmit
<1>8. CASE UNCHANGED vars
  <2>1. /\ drafts' = drafts /\ rows' = rows /\ client' = client /\ handler' = handler
    BY <1>8 DEF vars
  <2>2. \A n \in DOMAIN handler, t \in Tokens : PointHerald(n, t) => PointHerald(n, t)'
    BY <2>1 DEF PointHerald
  <2> QED
    BY <1>2, <2>1, <2>2, Unchanged
<1> QED
  BY <1>1, <1>3, <1>4, <1>5, <1>6, <1>7, <1>8 DEF Next, HandlerStep, Serve

LEMMA PointwiseAgree ==
    PointwiseInv =>
        (Quiet /\ failures = 0 /\ PointEventsOnly => \A c \in Clients, t \in Tokens : client[c].view[t] = rows[t])
<1> SUFFICES ASSUME PointwiseInv, Quiet, failures = 0, PointEventsOnly, NEW c \in Clients, NEW t \in Tokens
             PROVE  client[c].view[t] = rows[t]
  OBVIOUS
<1>1. \A n \in DOMAIN handler : handler[n].pc \in {"done", "failed"}
  BY DEF Quiet, Idle, Ended
<1>2. \A n \in DOMAIN handler : ~ PointHerald(n, t)
  BY <1>1 DEF PointHerald, Unsent, Held
<1> QED
  BY <1>2 DEF PointwiseInv

LEMMA SettledAgree ==
    SlotInv /\ SettledInv =>
        (Quiet /\ Settled => \A c \in Clients, t \in Tokens : client[c].view[t] = rows[t])
<1> SUFFICES ASSUME SlotInv, SettledInv, Quiet, Settled, NEW c \in Clients, NEW t \in Tokens
             PROVE  client[c].view[t] = rows[t]
  OBVIOUS
<1>1. /\ \A n \in DOMAIN handler : handler[n].pc \in {"done", "failed"}
      /\ drafts = {}
  BY DEF Quiet, Idle, Ended
<1>2. ~ Awaited(t)
  BY <1>1 DEF Awaited, SlotInv
<1>3. \A n \in DOMAIN handler : ~ Herald(n, t, Unsent)
  BY <1>1 DEF Herald, Unsent, Held
<1> QED
  BY <1>1, <1>2, <1>3 DEF SettledInv, ClientSettles

(* routes.ts:174-212: where every write either broadcasts or holds its      *)
(* event back until the running broadcast is sent, and no query fails, the  *)
(* tokens converge, however the reads, snapshots and events interleave; and *)
(* so they do where there are point events only, in any order.              *)
THEOREM SettledTokensAgree == Spec => []SettledTokensConverge
<1> DEFINE IInv == /\ TypeOK /\ SlotInv /\ Fitting /\ UnusedInv
                   /\ VersionInv /\ SiblingInv /\ PastInv /\ PointInv /\ SettledInv
                   /\ PointwiseInv
<1>1. Init => IInv
  BY TypeInit, SlotInit, RowInit, UnusedInit, VersionInit, SiblingInit, PastInit, PointInit,
     SettledInit, PointwiseInit
<1>2. IInv /\ [Next]_vars => IInv'
  <2> SUFFICES ASSUME IInv, [Next]_vars PROVE IInv'
    OBVIOUS
  <2>1. Fitting'
    BY FittingStep, UnwrittenKeeps, NextSplit
  <2> QED
    BY <2>1, TypeStep, SlotStep, UnusedStep, VersionStep, SiblingStep, PastStep, PointStep,
       SettledStep, PointwiseStep
<1>3. IInv => SettledTokensConverge
  BY SettledAgree, PointwiseAgree DEF SettledTokensConverge
<1> QED
  BY <1>1, <1>2, <1>3, PTL DEF Spec
=============================================================================
