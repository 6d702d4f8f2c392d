-------------------------- MODULE BugReportsProofs --------------------------
(***************************************************************************)
(* The safety properties of BugReports for any number of texts, updates,   *)
(* files, revisions and senders.                                           *)
(*                                                                         *)
(* The inductive invariant IInv says, besides what it is to prove, that one *)
(* delivery at most is open, that an attempt which may still send holds a   *)
(* claim nobody has posted under, and that every post was claimed and is in *)
(* one issue.  Steps are grouped by what they leave alone: most keep it     *)
(* through QuietKeepsIInv or ReviewKeepsIInv.                               *)
(***************************************************************************)
EXTENDS BugReports, TLAPS

-----------------------------------------------------------------------------
(* Two kinds of steps that do not touch deliveries and posts.              *)

(* The report stays as it is; a form may be filled in for it.              *)
LEMMA QuietKeepsIInv ==
    ASSUME IInv, TypeOK', NewestSourceWins',
           UNCHANGED <<source, rev, state, approval, linear, delivery, worker, posts>>,
           \/ draft' = draft
           \/ source # None /\ draft' # None /\ draft'.rev = rev /\ draft'.copy.of = source
    PROVE  IInv'
<1>1. rev \in Nat
  BY BugAssumption DEF IInv, TypeOK, Revs
<1>2. ReportAgrees'
  BY <1>1 DEF IInv, ReportAgrees
<1> QED
  BY <1>2 DEF IInv, DeliveriesAgree, AttemptsAgree, AttemptAgrees, PostsAgree, LinkedIsDelivered, In, PostsOf

(* The report gets a new revision while no delivery is under way.          *)
LEMMA ReviewKeepsIInv ==
    ASSUME IInv, TypeOK', NewestSourceWins', ~DeliveryInFlight,
           UNCHANGED <<linear, delivery, worker, posts>>,
           source' # None, rev' = rev + 1, draft' \in {draft, None},
           state' # "LINKED",
           state' = "APPROVED" =>
               approval' # None /\ approval'.rev = rev' /\ approval'.copy.of = source'
    PROVE  IInv'
<1>1. rev \in Nat /\ rev' \in Revs /\ \A r \in Revs : r \in Nat
  BY BugAssumption DEF IInv, TypeOK, Revs
<1>2. delivery[rev'] = None
  BY <1>1 DEF IInv, DeliveriesAgree
<1>3. ReportAgrees'
  <2>1. draft # None => draft.rev \in Nat
    BY <1>1 DEF IInv, TypeOK, Reviewed
  <2> QED
    BY <1>1, <2>1 DEF IInv, ReportAgrees
<1>4. DeliveriesAgree'
  BY <1>1, <1>2 DEF IInv, DeliveriesAgree, In, DeliveryInFlight
<1>5. AttemptsAgree' /\ PostsAgree' /\ LinkedIsDelivered'
  BY DEF IInv, AttemptsAgree, AttemptAgrees, PostsAgree, LinkedIsDelivered, In, PostsOf
<1> QED
  BY <1>3, <1>4, <1>5 DEF IInv

-----------------------------------------------------------------------------
(* Steps of the inbox.                                                     *)

LEMMA PersistKeepsIInv ==
    ASSUME IInv, NEW u \in Updates, NEW p \in Arrives[u], Persist(u, p)
    PROVE  IInv'
<1>1. p \in Payloads
  BY BugAssumption
<1>2. /\ inbox' \in [Updates -> Row \cup {None}]
      /\ \A v \in Updates : inbox'[v] # None /\ inbox'[v].state = "PROCESSED" => inbox'[v] = inbox[v]
  <2>1. CASE inbox[u] = None
    <3>1. inbox' = [inbox EXCEPT ![u] = [payload |-> p, variants |-> {}, state |-> "PENDING"]]
      BY <2>1 DEF Persist
    <3>2. [payload |-> p, variants |-> {}, state |-> "PENDING"] \in Row
      BY <1>1 DEF Row
    <3> QED
      BY <3>1, <3>2 DEF IInv, TypeOK
  <2>2. CASE inbox[u] # None
    <3> DEFINE row == [inbox[u] EXCEPT !.state = "QUARANTINED", !.variants = @ \cup {p}]
    <3>1. inbox' = [inbox EXCEPT ![u] = row]
      BY <2>2 DEF Persist, IInv, TypeOK
    <3>2. row \in Row /\ row.state = "QUARANTINED"
      BY <1>1, <2>2 DEF Row, IInv, TypeOK
    <3> QED
      BY <3>1, <3>2 DEF IInv, TypeOK
  <2> QED
    BY <2>1, <2>2
<1>3. TypeOK' /\ NewestSourceWins'
  BY <1>2 DEF Persist, message, IInv, TypeOK, NewestSourceWins
<1> QED
  BY <1>3, QuietKeepsIInv DEF Persist, message

LEMMA InboxRowKeepsIInv ==
    ASSUME IInv, NEW u \in Updates, inbox[u] # None, NEW s \in {"PENDING", "QUARANTINED", "KEPT"},
           inbox' = [inbox EXCEPT ![u].state = s],
           UNCHANGED <<message, file, delivery, worker, fetch, draft, uploaded, posts>>
    PROVE  IInv'
<1>1. inbox[u] \in Row
  BY DEF IInv, TypeOK
<1>2. [inbox[u] EXCEPT !.state = s] \in Row
  BY <1>1 DEF Row
<1>3. inbox' \in [Updates -> Row \cup {None}]
  BY <1>2 DEF IInv, TypeOK
<1>4. \A v \in Updates : inbox'[v] # None /\ inbox'[v].state = "PROCESSED" => inbox'[v] = inbox[v]
  BY <1>1 DEF IInv, TypeOK, Row
<1>5. TypeOK' /\ NewestSourceWins'
  BY <1>3, <1>4 DEF message, IInv, TypeOK, NewestSourceWins
<1> QED
  BY <1>5, QuietKeepsIInv DEF message

(* An edit that is not deferred is newer than every text that was          *)
(* processed, so it replaces them all.                                     *)
LEMMA ProcessKeepsIInv ==
    ASSUME IInv, NEW u \in Updates, Process(u)
    PROVE  IInv'
<1> DEFINE p == inbox[u].payload
           ingests == Decision(p) \in {"CREATE", "EDIT"} /\ ~DeliveryInFlight
<1>1. inbox[u] \in Row /\ p \in Payloads /\ SourceRev[p] \in Nat
  BY BugAssumption DEF Process, IInv, TypeOK, Row
<1>2. Disposition(p) \in {"PENDING", "QUARANTINED", "PROCESSED"}
  BY DEF Disposition
<1>3. /\ inbox' \in [Updates -> Row \cup {None}]
      /\ inbox' = [inbox EXCEPT ![u].state = Disposition(p)]
      /\ inbox'[u].payload = p /\ inbox'[u].state = Disposition(p)
      /\ \A v \in Updates : v # u => inbox'[v] = inbox[v]
  <2>1. [inbox[u] EXCEPT !.state = Disposition(p)] \in Row
    BY <1>1, <1>2 DEF Row
  <2>2. inbox' = [inbox EXCEPT ![u].state = Disposition(p)]
    BY DEF Process
  <2>3. inbox'[u] = [inbox[u] EXCEPT !.state = Disposition(p)]
    BY <2>2 DEF IInv, TypeOK
  <2>4. inbox'[u].payload = p /\ inbox'[u].state = Disposition(p)
    BY <2>3, <1>1 DEF Row
  <2> QED
    BY <2>1, <2>2, <2>4 DEF IInv, TypeOK
<1>4. source # None => source \in Payloads /\ SourceRev[source] \in Nat
  BY BugAssumption DEF IInv, TypeOK
<1>5. CASE ~ingests
  <2>1. UNCHANGED <<message, file>>
    BY <1>5 DEF Process
  <2>2. Disposition(p) = "PROCESSED" =>
           /\ source # None
           /\ SourceRev[p] <= SourceRev[source]
           /\ SourceRev[p] = SourceRev[source] => p = source
    <3>1. source = None => ~DeliveryInFlight
      BY DEF IInv, ReportAgrees, DeliveryInFlight, In
    <3> QED
      BY <1>1, <1>4, <1>5, <3>1 DEF Disposition, Decision
  <2>3. NewestSourceWins'
    BY <1>3, <2>1, <2>2 DEF message, IInv, NewestSourceWins
  <2>4. TypeOK'
    BY <1>3, <2>1 DEF Process, message, IInv, TypeOK
  <2> QED
    BY <2>1, <2>3, <2>4, QuietKeepsIInv DEF Process, message
<1>6. CASE ingests
  <2>1. Ingest(p) /\ UNCHANGED <<delivery, worker, fetch, draft, uploaded, posts>>
    BY <1>6 DEF Process
  <2>2. source' = p /\ source' # None /\ UNCHANGED linear
    BY <2>1, <1>1, NoneAssumption DEF Ingest
  <2>3. source # None => SourceRev[p] > SourceRev[source]
    BY <1>1, <1>4, <1>6 DEF Decision
  <2>4. NewestSourceWins'
    <3> SUFFICES ASSUME NEW v \in Updates, inbox'[v] # None, inbox'[v].state = "PROCESSED"
                 PROVE  /\ source' # None
                        /\ SourceRev[inbox'[v].payload] <= SourceRev[source']
                        /\ SourceRev[inbox'[v].payload] = SourceRev[source'] => inbox'[v].payload = source'
      BY DEF NewestSourceWins
    <3>1. CASE v = u
      BY <3>1, <1>1, <1>3, <2>2
    <3>2. CASE v # u
      <4>1. inbox'[v] = inbox[v] /\ inbox[v] \in Row
        BY <3>2, <1>3 DEF IInv, TypeOK
      <4>2. SourceRev[inbox[v].payload] \in Nat
        BY <4>1, BugAssumption DEF Row
      <4>3. source # None /\ SourceRev[inbox[v].payload] <= SourceRev[source]
        BY <4>1 DEF IInv, NewestSourceWins
      <4> QED
        BY <4>1, <4>2, <4>3, <2>2, <2>3, <1>1, <1>4
    <3> QED
      BY <3>1, <3>2
  <2>5. file' \in [Files -> {"ABSENT", "MISSING", "STORED", "FAILED", "EXCLUDED"}]
    BY <2>1 DEF Ingest, IInv, TypeOK
  <2>6. CASE source = None
    <3>1. UNCHANGED <<rev, state, approval>>
      BY <2>1, <2>6 DEF Ingest
    <3>2. TypeOK'
      BY <1>1, <1>3, <2>1, <2>2, <2>5, <3>1 DEF IInv, TypeOK
    <3> QED
      BY <2>1, <2>2, <2>4, <2>6, <3>1, <3>2
         DEF IInv, ReportAgrees, DeliveriesAgree, AttemptsAgree, AttemptAgrees, PostsAgree, LinkedIsDelivered, In, PostsOf
  <2>7. CASE source # None
    <3>1. Touch("REVIEW", None)
      BY <2>1, <2>7 DEF Ingest, AfterEdit
    <3>2. TypeOK'
      BY <1>1, <1>3, <2>1, <2>2, <2>5, <3>1, BugAssumption DEF Touch, Revs, IInv, TypeOK
    <3> QED
      BY <1>6, <2>1, <2>2, <2>4, <3>1, <3>2, ReviewKeepsIInv DEF Touch
  <2> QED
    BY <2>6, <2>7
<1> QED
  BY <1>5, <1>6

-----------------------------------------------------------------------------
(* Files and the commands of the operator.                                 *)

FileStep ==
    \/ \E f \in Files : BeginFetch(f) \/ RetryFile(f) \/ ExcludeFile(f)
    \/ \E result \in {"STORED", "FAILED"} : EndFetch(result)
    \/ AbandonFetch \/ Reopen(file)

OperatorStep == Look \/ Approve \/ Dismiss

LEMMA ReopenKeepsIInv ==
    ASSUME IInv, NEW files \in [Files -> {"ABSENT", "MISSING", "STORED", "FAILED", "EXCLUDED"}], Reopen(files)
    PROVE  IInv'
<1>1. TypeOK' /\ NewestSourceWins'
  BY BugAssumption DEF Reopen, Touch, Revs, IInv, TypeOK, NewestSourceWins
<1> QED
  BY <1>1, ReviewKeepsIInv DEF Reopen, Touch

LEMMA FileStepKeepsIInv == IInv /\ FileStep => IInv'
<1> SUFFICES ASSUME IInv, FileStep PROVE IInv'
  OBVIOUS
<1> DEFINE states == {"ABSENT", "MISSING", "STORED", "FAILED", "EXCLUDED"}
<1>1. file \in [Files -> states]
  BY DEF IInv, TypeOK
<1>2. ASSUME NEW f \in Files, BeginFetch(f) PROVE IInv'
  <2>1. [file |-> f, rev |-> rev] \in Download
    BY DEF Download, IInv, TypeOK
  <2>2. TypeOK' /\ NewestSourceWins'
    BY <1>2, <2>1 DEF BeginFetch, message, IInv, TypeOK, NewestSourceWins
  <2> QED
    BY <1>2, <2>2, QuietKeepsIInv DEF BeginFetch, message
<1>3. ASSUME NEW f \in Files, RetryFile(f) PROVE IInv'
  BY <1>1, <1>3, ReopenKeepsIInv DEF RetryFile
<1>4. ASSUME NEW f \in Files, ExcludeFile(f) PROVE IInv'
  BY <1>1, <1>4, ReopenKeepsIInv DEF ExcludeFile
<1>5. ASSUME NEW result \in {"STORED", "FAILED"}, EndFetch(result) PROVE IInv'
  <2>1. CASE UNCHANGED <<file, rev, state, approval>>
    <3>1. TypeOK' /\ NewestSourceWins'
      BY <1>5, <2>1 DEF EndFetch, IInv, TypeOK, NewestSourceWins
    <3> QED
      BY <1>5, <2>1, <3>1, QuietKeepsIInv DEF EndFetch
  <2>2. CASE /\ fetch.file \in Current /\ state = "REVIEW"
             /\ file' = [file EXCEPT ![fetch.file] = result]
             /\ Touch("REVIEW", None)
    <3>1. rev' \in Revs
      BY <2>2, BugAssumption DEF Touch, Revs, IInv, TypeOK
    <3>2. file' \in [Files -> states]
      BY <1>1, <2>2
    <3>3. TypeOK' /\ NewestSourceWins'
      BY <1>5, <2>2, <3>1, <3>2 DEF EndFetch, Touch, IInv, TypeOK, NewestSourceWins
    <3>4. source # None
      BY <2>2 DEF Current
    <3>5. ~DeliveryInFlight
      BY <2>2 DEF IInv, DeliveriesAgree, DeliveryInFlight
    <3> QED
      BY <1>5, <2>2, <3>3, <3>4, <3>5, ReviewKeepsIInv DEF EndFetch, Touch
  <2> QED
    BY <1>5, <2>1, <2>2 DEF EndFetch
<1>6. CASE AbandonFetch
  <2>1. TypeOK' /\ NewestSourceWins'
    BY <1>6 DEF AbandonFetch, message, IInv, TypeOK, NewestSourceWins
  <2> QED
    BY <1>6, <2>1, QuietKeepsIInv DEF AbandonFetch, message
<1>7. CASE Reopen(file)
  BY <1>1, <1>7, ReopenKeepsIInv
<1> QED
  BY <1>2, <1>3, <1>4, <1>5, <1>6, <1>7 DEF FileStep

LEMMA OperatorStepKeepsIInv == IInv /\ OperatorStep => IInv'
<1> SUFFICES ASSUME IInv, OperatorStep PROVE IInv'
  OBVIOUS
<1>1. CASE Look
  <2> DEFINE form == [rev |-> rev, copy |-> [of |-> source, files |-> Stored]]
  <2>1. Stored \subseteq Files /\ source \in Payloads
    BY <1>1, BugAssumption DEF Look, Stored, Current, IInv, TypeOK
  <2>2. form \in Reviewed
    BY <2>1 DEF Reviewed, Copy, IInv, TypeOK
  <2>3. TypeOK' /\ NewestSourceWins'
    BY <1>1, <2>2 DEF Look, message, IInv, TypeOK, NewestSourceWins
  <2> QED
    BY <1>1, <2>2, <2>3, QuietKeepsIInv, NoneAssumption DEF Look, message
<1>2. CASE Approve
  <2> DEFINE given == [rev |-> rev + 1, copy |-> draft.copy]
  <2>1. given \in Reviewed /\ rev + 1 \in Revs
    BY <1>2, BugAssumption DEF Approve, Touch, Reviewed, Revs, IInv, TypeOK
  <2>2. TypeOK' /\ NewestSourceWins'
    BY <1>2, <2>1 DEF Approve, Touch, IInv, TypeOK, NewestSourceWins
  <2>3. given # None /\ draft.copy.of = source
    BY <1>2, <2>1, NoneAssumption DEF Approve, IInv, ReportAgrees
  <2> QED
    BY <1>2, <2>2, <2>3, ReviewKeepsIInv DEF Approve, Touch
<1>3. CASE Dismiss
  <2>1. TypeOK' /\ NewestSourceWins'
    BY <1>3, BugAssumption DEF Dismiss, Touch, Revs, IInv, TypeOK, NewestSourceWins
  <2> QED
    BY <1>3, <2>1, ReviewKeepsIInv DEF Dismiss, Touch
<1> QED
  BY <1>1, <1>2, <1>3 DEF OperatorStep

-----------------------------------------------------------------------------
(* Deliveries.                                                             *)

(* Two delivery rows that differ in their state at most.                   *)
Alike(d, e) ==
    /\ d.copy = e.copy /\ d.existing = e.existing
    /\ d.receipts = e.receipts /\ d.issue = e.issue

LEMMA SetFields ==
    ASSUME IInv, NEW r \in Revs, delivery[r] # None,
           NEW s \in {"QUEUED", "CLAIMED", "SENT", "UNKNOWN", "CANCELLED"}, Set(r, s)
    PROVE  /\ delivery' \in [Revs -> Delivery \cup {None}]
           /\ delivery'[r] # None /\ delivery'[r].state = s /\ Alike(delivery'[r], delivery[r])
           /\ \A q \in Revs : q # r => delivery'[q] = delivery[q]
<1>1. delivery[r] \in Delivery
  BY DEF IInv, TypeOK
<1>2. /\ [delivery[r] EXCEPT !.state = s] \in Delivery
      /\ [delivery[r] EXCEPT !.state = s].state = s
      /\ Alike([delivery[r] EXCEPT !.state = s], delivery[r])
  BY <1>1 DEF Delivery, Alike
<1>3. delivery' = [delivery EXCEPT ![r] = [delivery[r] EXCEPT !.state = s]]
  BY DEF Set
<1> QED
  BY <1>2, <1>3, NoneAssumption DEF IInv, TypeOK

LEMMA EnqueueKeepsIInv ==
    ASSUME IInv, Enqueue
    PROVE  IInv'
<1> DEFINE new == [state |-> "QUEUED", copy |-> approval.copy, existing |-> linear,
                   receipts |-> {}, issue |-> None]
<1>1. rev \in Revs /\ source # None /\ approval \in Reviewed /\ \A r \in Revs : r \in Nat
  BY BugAssumption DEF Enqueue, HasConsent, IInv, TypeOK, ReportAgrees, Revs
<1>2. new \in Delivery
  BY <1>1 DEF Delivery, Reviewed, IInv, TypeOK
<1>3. delivery'[rev] = new /\ delivery'[rev] # None
  BY <1>1, <1>2, NoneAssumption DEF Enqueue
<1>4. ASSUME NEW r \in Revs, r # rev
      PROVE  /\ delivery'[r] \in Delivery \cup {None}
             /\ delivery'[r] = None <=> delivery[r] = None
             /\ delivery[r] # None =>
                  /\ Alike(delivery'[r], delivery[r])
                  /\ \/ delivery'[r].state = delivery[r].state
                     \/ delivery[r].state = "QUEUED" /\ delivery'[r].state = "CANCELLED"
  <2>1. CASE r \in In({"QUEUED"})
    <3>1. delivery[r] \in Delivery /\ delivery[r].state = "QUEUED" /\ delivery[r] # None
      BY <2>1 DEF In, IInv, TypeOK
    <3>2. delivery'[r] = [delivery[r] EXCEPT !.state = "CANCELLED"]
      BY <1>4, <2>1 DEF Enqueue
    <3>3. delivery'[r] \in Delivery /\ delivery'[r].state = "CANCELLED" /\ Alike(delivery'[r], delivery[r])
      BY <3>1, <3>2 DEF Delivery, Alike
    <3> QED
      BY <3>1, <3>3, NoneAssumption
  <2>2. CASE r \notin In({"QUEUED"})
    BY <1>4, <2>2 DEF Enqueue, IInv, TypeOK, Alike
  <2> QED
    BY <2>1, <2>2
<1>5. TypeOK'
  <2>1. delivery' \in [Revs -> Delivery \cup {None}]
    BY <1>2, <1>3, <1>4 DEF Enqueue
  <2> QED
    BY <2>1 DEF Enqueue, message, IInv, TypeOK
<1>6. \A r \in Revs : delivery[r] = None \/ delivery[r].state \notin {"CLAIMED", "UNKNOWN"}
  BY DEF Enqueue, In
<1>7. DeliveriesAgree'
  BY <1>1, <1>3, <1>4, <1>6 DEF Enqueue, message, IInv, DeliveriesAgree, In, Alike
<1>8. AttemptsAgree'
  <2>1. \A w \in Workers : worker[w] # None =>
          worker[w].rev \in Revs /\ worker[w].rev # rev
    BY DEF Enqueue, IInv, TypeOK, Attempt, AttemptsAgree, AttemptAgrees
  <2> QED
    BY <1>4, <1>6, <2>1 DEF Enqueue, IInv, AttemptsAgree, AttemptAgrees, In, Alike, PostsOf
<1>9. PostsAgree'
  <2>1. \A i \in DOMAIN posts : posts[i].rev \in Revs /\ posts[i].rev # rev
    BY DEF Enqueue, IInv, PostsAgree, In
  <2> QED
    BY <1>3, <1>4, <1>6, <2>1 DEF Enqueue, message, IInv, PostsAgree, In, Alike, PostsOf
<1> QED
  BY <1>1, <1>5, <1>7, <1>8, <1>9
     DEF Enqueue, message, IInv, ReportAgrees, NewestSourceWins, LinkedIsDelivered

(* A worker that ends without an answer, or whose answer is ignored.       *)
LEMMA ForgetKeepsIInv ==
    ASSUME IInv, NEW w \in Workers, worker' = [worker EXCEPT ![w] = None],
           UNCHANGED <<inbox, message, file, delivery, fetch, draft, uploaded, posts>>
    PROVE  IInv'
<1>1. TypeOK' /\ NewestSourceWins'
  BY DEF message, IInv, TypeOK, NewestSourceWins
<1>2. worker'[w] = None /\ \A v \in Workers : v # w => worker'[v] = worker[v]
  BY DEF IInv, TypeOK
<1>3. AttemptsAgree'
  BY <1>2 DEF IInv, AttemptsAgree, AttemptAgrees, In, PostsOf
<1> QED
  BY <1>1, <1>3 DEF message, IInv, ReportAgrees, DeliveriesAgree, PostsAgree, LinkedIsDelivered, In, PostsOf

LEMMA ClaimKeepsIInv ==
    ASSUME IInv, NEW w \in Workers, NEW r \in Revs, Claim(w, r)
    PROVE  IInv'
<1>1. delivery[r] # None /\ delivery[r] \in Delivery /\ delivery[r].state = "QUEUED"
  BY DEF Claim, In, IInv, TypeOK
<1>2. \A q \in Revs : delivery[q] = None \/ delivery[q].state \notin {"CLAIMED", "UNKNOWN"}
  BY DEF Claim, In
<1>3. PostsOf(r) = {} /\ \A v \in Workers : worker[v] # None => worker[v].rev # r
  BY <1>1 DEF IInv, PostsAgree, AttemptsAgree, AttemptAgrees, PostsOf, In
<1>4. source # None
  BY <1>1 DEF IInv, ReportAgrees
<1>5. CASE Set(r, "CLAIMED") /\ MayClaim(r)
             /\ worker' = [worker EXCEPT ![w] = [rev |-> r, todo |-> delivery[r].copy.files, outcome |-> None]]
  <2> DEFINE new == [rev |-> r, todo |-> delivery[r].copy.files, outcome |-> None]
  <2>1. new \in Attempt /\ new # None
    BY <1>1, NoneAssumption DEF Attempt, Delivery, Copy
  <2>2. /\ delivery' \in [Revs -> Delivery \cup {None}]
        /\ delivery'[r] # None /\ delivery'[r].state = "CLAIMED" /\ Alike(delivery'[r], delivery[r])
        /\ \A q \in Revs : q # r => delivery'[q] = delivery[q]
    BY <1>1, <1>5, SetFields
  <2>3. worker'[w] = new /\ \A v \in Workers : v # w => worker'[v] = worker[v]
    BY <1>5 DEF IInv, TypeOK
  <2>4. TypeOK'
    BY <1>5, <2>1, <2>2 DEF Claim, message, IInv, TypeOK
  <2>5. state = "APPROVED" /\ rev = r /\ delivery[r].existing = linear
    BY <1>5 DEF MayClaim, HasConsent
  <2>6. DeliveriesAgree'
    BY <1>2, <2>2, <2>5 DEF Claim, message, IInv, DeliveriesAgree, In, Alike
  <2>7. AttemptsAgree'
    <3>1. \A v \in Workers : worker[v] # None => worker[v].rev \in Revs
      BY DEF IInv, TypeOK, Attempt
    <3> QED
      BY <1>3, <2>1, <2>2, <2>3, <3>1 DEF Claim, IInv, AttemptsAgree, AttemptAgrees, In, Alike, PostsOf
  <2>8. PostsAgree'
    <3>1. \A i \in DOMAIN posts : posts[i].rev \in Revs /\ posts[i].rev # r
      BY <1>3 DEF IInv, PostsAgree, In, PostsOf
    <3> QED
      BY <1>2, <2>2, <3>1 DEF Claim, message, IInv, PostsAgree, In, Alike, PostsOf
  <2> QED
    BY <1>4, <2>4, <2>6, <2>7, <2>8
       DEF Claim, message, IInv, ReportAgrees, NewestSourceWins, LinkedIsDelivered
<1>6. CASE Set(r, "CANCELLED") /\ UNCHANGED worker /\ ~(state = "APPROVED" /\ rev = r)
  <2>2. /\ delivery' \in [Revs -> Delivery \cup {None}]
        /\ delivery'[r] # None /\ delivery'[r].state = "CANCELLED" /\ Alike(delivery'[r], delivery[r])
        /\ \A q \in Revs : q # r => delivery'[q] = delivery[q]
    BY <1>1, <1>6, SetFields
  <2>4. TypeOK'
    BY <1>6, <2>2 DEF Claim, message, IInv, TypeOK
  <2>6. DeliveriesAgree'
    BY <1>2, <1>6, <2>2 DEF Claim, message, IInv, TypeOK, DeliveriesAgree, In, Alike
  <2>7. AttemptsAgree'
    <3>1. \A v \in Workers : worker[v] # None => worker[v].rev \in Revs
      BY DEF IInv, TypeOK, Attempt
    <3> QED
      BY <1>3, <1>6, <2>2, <3>1 DEF Claim, IInv, AttemptsAgree, AttemptAgrees, In, Alike, PostsOf
  <2>8. PostsAgree'
    <3>1. \A i \in DOMAIN posts : posts[i].rev \in Revs /\ posts[i].rev # r
      BY <1>3 DEF IInv, PostsAgree, In, PostsOf
    <3> QED
      BY <1>2, <2>2, <3>1 DEF Claim, message, IInv, PostsAgree, In, Alike, PostsOf
  <2> QED
    BY <1>4, <2>4, <2>6, <2>7, <2>8
       DEF Claim, message, IInv, ReportAgrees, NewestSourceWins, LinkedIsDelivered
<1> QED
  BY <1>5, <1>6 DEF Claim

LEMMA ReceiptFields ==
    ASSUME IInv, NEW r \in Revs, delivery[r] # None, NEW f \in Files,
           delivery' = [delivery EXCEPT ![r].receipts = @ \cup {f}]
    PROVE  /\ delivery' \in [Revs -> Delivery \cup {None}]
           /\ delivery'[r] # None /\ delivery'[r].receipts = delivery[r].receipts \cup {f}
           /\ delivery'[r].state = delivery[r].state /\ delivery'[r].copy = delivery[r].copy
           /\ delivery'[r].existing = delivery[r].existing /\ delivery'[r].issue = delivery[r].issue
           /\ \A q \in Revs : q # r => delivery'[q] = delivery[q]
<1> DEFINE new == [delivery[r] EXCEPT !.receipts = @ \cup {f}]
<1>1. delivery[r] \in Delivery
  BY DEF IInv, TypeOK
<1>2. /\ new \in Delivery /\ new.receipts = delivery[r].receipts \cup {f}
      /\ new.state = delivery[r].state /\ new.copy = delivery[r].copy
      /\ new.existing = delivery[r].existing /\ new.issue = delivery[r].issue
  BY <1>1 DEF Delivery
<1>3. delivery' = [delivery EXCEPT ![r] = new]
  OBVIOUS
<1> QED
  BY <1>2, <1>3, NoneAssumption DEF IInv, TypeOK

LEMMA AnswerFields ==
    ASSUME IInv, NEW w \in Workers, worker[w] # None,
           NEW s \in {"SENT", "UNKNOWN"}, NEW i \in Revs \cup {None}, Answer(w, s, i)
    PROVE  /\ worker' \in [Workers -> Attempt \cup {None}]
           /\ worker'[w] # None /\ worker'[w].rev = worker[w].rev
           /\ worker'[w].outcome # None
           /\ worker'[w].outcome.state = s /\ worker'[w].outcome.issue = i
           /\ \A v \in Workers : v # w => worker'[v] = worker[v]
<1> DEFINE out == [state |-> s, issue |-> i]  new == [worker[w] EXCEPT !.outcome = out]
<1>1. worker[w] \in Attempt
  BY DEF IInv, TypeOK
<1>2. out \in Outcome /\ out # None /\ out.state = s /\ out.issue = i
  BY NoneAssumption DEF Outcome
<1>3. new \in Attempt /\ new.rev = worker[w].rev /\ new.outcome = out
  BY <1>1, <1>2 DEF Attempt
<1>4. worker' = [worker EXCEPT ![w] = new]
  BY DEF Answer
<1> QED
  BY <1>2, <1>3, <1>4, NoneAssumption DEF IInv, TypeOK

LEMMA UploadKeepsIInv ==
    ASSUME IInv, NEW w \in Workers, NEW f \in Files, NEW taken \in BOOLEAN, NEW receipt \in BOOLEAN,
           UploadFile(w, f, taken, receipt)
    PROVE  IInv'
<1> DEFINE r == worker[w].rev
<1>1. /\ worker[w] # None /\ worker[w] \in Attempt /\ r \in Revs
      /\ worker[w].outcome = None /\ f \in worker[w].todo
  BY DEF UploadFile, Sending, IInv, TypeOK, Attempt
<1>2. /\ delivery[r] # None /\ delivery[r] \in Delivery /\ delivery[r].state = "CLAIMED"
      /\ worker[w].todo \subseteq delivery[r].copy.files /\ PostsOf(r) = {}
  BY <1>1 DEF IInv, TypeOK, AttemptsAgree, AttemptAgrees
<1>3. uploaded' \subseteq Revs \X Files
  BY <1>1 DEF UploadFile, IInv, TypeOK
<1>4. \A v \in Workers : worker[v] # None => worker[v].rev \in Revs /\ (worker[v].rev = r => v = w)
  BY <1>1 DEF IInv, TypeOK, Attempt, AttemptsAgree, AttemptAgrees
<1>5. CASE taken /\ receipt
  <2> DEFINE new == [worker[w] EXCEPT !.todo = @ \ {f}]
  <2>1. delivery' = [delivery EXCEPT ![r].receipts = @ \cup {f}] /\ worker' = [worker EXCEPT ![w] = new]
    BY <1>5 DEF UploadFile
  <2>2. /\ delivery' \in [Revs -> Delivery \cup {None}]
        /\ delivery'[r] # None /\ delivery'[r].receipts = delivery[r].receipts \cup {f}
        /\ delivery'[r].state = delivery[r].state /\ delivery'[r].copy = delivery[r].copy
        /\ delivery'[r].existing = delivery[r].existing /\ delivery'[r].issue = delivery[r].issue
        /\ \A q \in Revs : q # r => delivery'[q] = delivery[q]
    BY <1>1, <1>2, <2>1, ReceiptFields
  <2>3. new \in Attempt /\ new # None /\ new.rev = r /\ new.outcome = None /\ new.todo = worker[w].todo \ {f}
    BY <1>1, NoneAssumption DEF Attempt
  <2>4. worker'[w] = new /\ \A v \in Workers : v # w => worker'[v] = worker[v]
    BY <2>1 DEF IInv, TypeOK
  <2>5. TypeOK'
    <3>1. worker' \in [Workers -> Attempt \cup {None}]
      BY <2>1, <2>3 DEF IInv, TypeOK
    <3> QED
      BY <1>3, <2>2, <3>1 DEF UploadFile, message, IInv, TypeOK
  <2>6. DeliveriesAgree'
    BY <1>1, <1>2, <2>2 DEF UploadFile, message, IInv, TypeOK, DeliveriesAgree, In
  <2>7. AttemptsAgree'
    <3>1. AttemptAgrees(w)'
      BY <1>1, <1>2, <2>2, <2>3, <2>4 DEF UploadFile, IInv, AttemptsAgree, AttemptAgrees, In, PostsOf
    <3>2. ASSUME NEW v \in Workers, v # w, worker'[v] # None PROVE AttemptAgrees(v)'
      BY <1>4, <2>2, <2>4, <3>2 DEF UploadFile, IInv, AttemptsAgree, AttemptAgrees, In, PostsOf
    <3> QED
      <4>1. worker'[w] # None /\ worker'[w].rev = r
        BY <2>3, <2>4
      <4>2. \A v \in Workers : v # w => worker'[v] = worker[v]
        BY <2>4
      <4> QED
        BY <1>4, <3>1, <3>2, <4>1, <4>2 DEF IInv, AttemptsAgree
  <2>8. PostsAgree'
    <3>1. \A i \in DOMAIN posts : posts[i].rev \in Revs /\ posts[i].rev # r
      BY <1>2 DEF IInv, PostsAgree, In, PostsOf
    <3> QED
      BY <1>2, <2>2, <3>1 DEF UploadFile, message, IInv, PostsAgree, In, PostsOf
  <2>9. ReportAgrees'
    BY <1>1, <1>2, <2>2 DEF UploadFile, message, IInv, ReportAgrees
  <2> QED
    BY <2>5, <2>6, <2>7, <2>8, <2>9 DEF UploadFile, message, IInv, NewestSourceWins, LinkedIsDelivered
<1>6. CASE ~(taken /\ receipt)
  <2>1. Answer(w, "UNKNOWN", delivery[r].existing) /\ UNCHANGED delivery
    BY <1>6 DEF UploadFile
  <2>2. delivery[r].existing \in Revs \cup {None}
    BY <1>2 DEF Delivery
  <2>3. /\ worker' \in [Workers -> Attempt \cup {None}]
        /\ worker'[w] # None /\ worker'[w].rev = r
        /\ worker'[w].outcome # None
        /\ worker'[w].outcome.state = "UNKNOWN" /\ worker'[w].outcome.issue = delivery[r].existing
        /\ \A v \in Workers : v # w => worker'[v] = worker[v]
    BY <1>1, <2>1, <2>2, AnswerFields
  <2>4. TypeOK'
    BY <1>3, <2>1, <2>3 DEF UploadFile, message, IInv, TypeOK
  <2>5. AttemptsAgree'
    BY <1>1, <1>2, <1>4, <2>1, <2>3 DEF UploadFile, IInv, AttemptsAgree, AttemptAgrees, In, PostsOf
  <2> QED
    BY <2>1, <2>4, <2>5
       DEF UploadFile, message, IInv, ReportAgrees, DeliveriesAgree, PostsAgree, NewestSourceWins,
           LinkedIsDelivered, In, PostsOf
<1> QED
  BY <1>5, <1>6

(* A post goes into the issue of the earlier ones: the sender's copy of    *)
(* the link is the link, because nothing else is open while it sends.      *)
LEMMA PostKeepsIInv ==
    ASSUME IInv, NEW w \in Workers, NEW taken \in BOOLEAN,
           NEW answered \in {"success", "issue", "nothing"}, Post(w, taken, answered)
    PROVE  IInv'
<1> DEFINE r == worker[w].rev
           d == delivery[r]
           i == IF d.existing = None THEN r ELSE d.existing
           post == [rev |-> r, copy |-> d.copy, issue |-> i]
           said == IF answered = "nothing" THEN d.existing ELSE i
           s == IF answered = "success" THEN "SENT" ELSE "UNKNOWN"
<1>1. /\ worker[w] # None /\ worker[w] \in Attempt /\ r \in Revs
      /\ worker[w].outcome = None /\ worker[w].todo = {}
  BY DEF Post, Sending, IInv, TypeOK, Attempt
<1>2. /\ d # None /\ d \in Delivery /\ d.state = "CLAIMED" /\ r \in In({"CLAIMED"})
      /\ d.receipts = d.copy.files /\ PostsOf(r) = {}
  <2>1. d # None /\ d.state = "CLAIMED" /\ d.copy.files \subseteq d.receipts /\ PostsOf(r) = {}
    BY <1>1 DEF IInv, AttemptsAgree, AttemptAgrees
  <2> QED
    BY <1>1, <2>1 DEF IInv, TypeOK, DeliveriesAgree, In
<1>3. i \in Revs /\ said \in Revs \cup {None} /\ d.existing = linear
  BY <1>1, <1>2 DEF Delivery, IInv, DeliveriesAgree
<1>4. \A v \in Workers : worker[v] # None => worker[v].rev \in Revs /\ (worker[v].rev = r => v = w)
  BY <1>1 DEF IInv, TypeOK, Attempt, AttemptsAgree, AttemptAgrees
<1>5. /\ worker' \in [Workers -> Attempt \cup {None}]
      /\ worker'[w] # None /\ worker'[w].rev = r
      /\ worker'[w].outcome # None
      /\ worker'[w].outcome.state = s /\ worker'[w].outcome.issue = said
      /\ \A v \in Workers : v # w => worker'[v] = worker[v]
  <2>1. Answer(w, s, said)
    BY DEF Post
  <2> QED
    BY <1>1, <1>3, <2>1, AnswerFields
<1>6. posts \in Seq([rev : Revs, copy : Copy, issue : Revs])
  BY DEF IInv, TypeOK
<1>7. post \in [rev : Revs, copy : Copy, issue : Revs]
  BY <1>1, <1>2, <1>3 DEF Delivery
<1>8. CASE taken
  <2>1. posts' = Append(posts, post)
    BY <1>8 DEF Post
  <2>2. /\ posts' \in Seq([rev : Revs, copy : Copy, issue : Revs])
        /\ DOMAIN posts = 1..Len(posts) /\ DOMAIN posts' = 1..(Len(posts) + 1) /\ Len(posts) \in Nat
        /\ \A n \in DOMAIN posts : posts'[n] = posts[n]
        /\ posts'[Len(posts) + 1] = post
        /\ Len(posts) + 1 \in DOMAIN posts' /\ Len(posts) + 1 \notin DOMAIN posts
        /\ posts # <<>> => 1 \in DOMAIN posts
        /\ posts = <<>> => Len(posts) = 0
        /\ posts' # <<>>
    BY <1>6, <1>7, <2>1
  <2>3. \A n \in DOMAIN posts' : n \in DOMAIN posts \/ n = Len(posts) + 1
    BY <2>2
  <2>4. posts # <<>> => posts'[1] = posts[1] /\ i = posts[1].issue
    <3>1. CASE posts # <<>>
      <4>1. linear # None /\ linear = posts[1].issue
        <5>1. ~\E n \in DOMAIN posts : posts[n].rev \in In({"CLAIMED", "UNKNOWN"})
          <6>1. \A q \in In({"CLAIMED", "UNKNOWN"}) : q = r
            BY <1>2 DEF IInv, DeliveriesAgree, In
          <6> QED
            BY <1>2, <6>1 DEF PostsOf
        <5> QED
          BY <3>1, <5>1 DEF IInv, PostsAgree
      <4> QED
        BY <1>3, <2>2, <3>1, <4>1
    <3> QED
      BY <3>1
  <2>5. posts = <<>> => posts'[1] = post
    BY <2>2
  <2>6. TypeOK'
    BY <1>5, <2>2 DEF Post, message, IInv, TypeOK
  <2>7. AttemptsAgree'
    <3>1. AttemptAgrees(w)'
      <4>1. \E n \in DOMAIN posts' : posts'[n].rev = r /\ posts'[n].issue = i
        BY <2>2
      <4>2. said = i \/ said = d.existing
        OBVIOUS
      <4> QED
        BY <1>1, <1>2, <1>5, <4>1, <4>2 DEF Post, AttemptAgrees, PostsOf, In
    <3>2. ASSUME NEW v \in Workers, v # w, worker'[v] # None PROVE AttemptAgrees(v)'
      <4> DEFINE q == worker[v].rev
      <4>1. q \in Revs /\ q # r /\ worker'[v] = worker[v] /\ AttemptAgrees(v)
        BY <1>4, <1>5, <3>2 DEF IInv, AttemptsAgree
      <4>2. \A n : n \in DOMAIN posts' /\ posts'[n].rev = q <=> n \in DOMAIN posts /\ posts[n].rev = q
        BY <2>2, <2>3, <4>1
      <4>3. \A n \in PostsOf(q) : posts'[n] = posts[n]
        BY <2>2 DEF PostsOf
      <4> QED
        BY <4>1, <4>2, <4>3 DEF Post, AttemptAgrees, PostsOf, In
    <3> QED
      BY <1>4, <1>5, <3>1, <3>2 DEF IInv, AttemptsAgree
  <2>8. PostsAgree'
    <3>1. \A n \in DOMAIN posts' :
             LET q == posts'[n].rev IN
             /\ q \in In({"CLAIMED", "UNKNOWN", "SENT"})
             /\ posts'[n].copy = delivery[q].copy
             /\ delivery[q].receipts = delivery[q].copy.files
             /\ posts'[n].issue = posts'[1].issue
      <4>1. ASSUME NEW n \in DOMAIN posts
            PROVE LET q == posts'[n].rev IN
                  /\ q \in In({"CLAIMED", "UNKNOWN", "SENT"})
                  /\ posts'[n].copy = delivery[q].copy
                  /\ delivery[q].receipts = delivery[q].copy.files
                  /\ posts'[n].issue = posts'[1].issue
        <5>1. posts # <<>>
          BY <2>2, <4>1
        <5> QED
          BY <2>2, <2>4, <4>1, <5>1 DEF IInv, PostsAgree
      <4>2. LET q == post.rev IN
            /\ q \in In({"CLAIMED", "UNKNOWN", "SENT"})
            /\ post.copy = delivery[q].copy
            /\ delivery[q].receipts = delivery[q].copy.files
            /\ post.issue = posts'[1].issue
        <5>1. post.issue = posts'[1].issue
          BY <2>4, <2>5, <2>2
        <5> QED
          BY <1>1, <1>2, <5>1 DEF In
      <4> QED
        BY <2>2, <2>3, <4>1, <4>2
    <3>2. linear # None => linear = posts'[1].issue
      BY <2>4 DEF IInv, PostsAgree
    <3>3. \A q \in Revs : delivery[q] # None /\ delivery[q].existing # None =>
             delivery[q].existing = posts'[1].issue
      BY <2>4 DEF IInv, PostsAgree
    <3>4. \A q \in Revs : \A n \in PostsOf(q) : n \in PostsOf(q)' /\ posts'[n] = posts[n]
      BY <2>2 DEF PostsOf
    <3>5. \E n \in DOMAIN posts' : posts'[n].rev \in In({"CLAIMED", "UNKNOWN"})
      BY <1>2, <2>2 DEF In
    <3>6. \A q \in Revs : delivery[q] # None =>
             \/ delivery[q].issue \in {None, delivery[q].existing}
             \/ \E n \in PostsOf(q)' : delivery[q].issue = posts'[n].issue
      BY <3>4 DEF IInv, PostsAgree
    <3> QED
      <4>1. UNCHANGED <<linear, delivery>>
        BY DEF Post, message
      <4>2. posts' # <<>>
        BY <2>2
      <4>3. \A n \in DOMAIN posts' :
               LET q == posts'[n].rev IN
               /\ q \in In({"CLAIMED", "UNKNOWN", "SENT"})'
               /\ posts'[n].copy = delivery'[q].copy
               /\ delivery'[q].receipts = delivery'[q].copy.files
               /\ posts'[n].issue = posts'[1].issue
        BY <3>1, <4>1 DEF In
      <4>4. \E n \in DOMAIN posts' : posts'[n].rev \in In({"CLAIMED", "UNKNOWN"})'
        BY <3>5, <4>1 DEF In
      <4> QED
        BY <3>2, <3>3, <3>6, <4>1, <4>2, <4>3, <4>4 DEF PostsAgree
  <2>9. LinkedIsDelivered'
    BY <2>2 DEF Post, message, IInv, LinkedIsDelivered
  <2> QED
    BY <2>6, <2>7, <2>8, <2>9 DEF Post, message, IInv, ReportAgrees, DeliveriesAgree, NewestSourceWins, In
<1>9. CASE ~taken
  <2>1. /\ UNCHANGED <<inbox, message, file, delivery, fetch, draft, uploaded, posts>>
        /\ s = "UNKNOWN" /\ said = d.existing
    BY <1>9 DEF Post
  <2>2. TypeOK'
    BY <1>5, <2>1 DEF message, IInv, TypeOK
  <2>3. AttemptsAgree'
    <3>1. AttemptAgrees(w)'
      BY <1>1, <1>2, <1>5, <2>1 DEF AttemptAgrees, In
    <3>2. ASSUME NEW v \in Workers, v # w, worker'[v] # None PROVE AttemptAgrees(v)'
      BY <1>5, <2>1, <3>2 DEF IInv, AttemptsAgree, AttemptAgrees, In, PostsOf
    <3> QED
      BY <1>4, <1>5, <3>1, <3>2 DEF IInv, AttemptsAgree
  <2> QED
    BY <2>1, <2>2, <2>3
       DEF message, IInv, ReportAgrees, DeliveriesAgree, PostsAgree, NewestSourceWins,
           LinkedIsDelivered, In, PostsOf
<1> QED
  BY <1>8, <1>9

(* A delivery that is settled or goes unknown, with its issue.             *)
SettleTo(r, s, i) == delivery' = [delivery EXCEPT ![r].state = s, ![r].issue = i]

LEMMA SettleFields ==
    ASSUME IInv, NEW r \in Revs, delivery[r] # None,
           NEW s \in {"SENT", "UNKNOWN", "CANCELLED"}, NEW i \in Revs \cup {None},
           SettleTo(r, s, i)
    PROVE  /\ delivery' \in [Revs -> Delivery \cup {None}]
           /\ delivery'[r] # None /\ delivery'[r].state = s /\ delivery'[r].issue = i
           /\ delivery'[r].copy = delivery[r].copy /\ delivery'[r].existing = delivery[r].existing
           /\ delivery'[r].receipts = delivery[r].receipts
           /\ \A q \in Revs : q # r => delivery'[q] = delivery[q]
<1> DEFINE new == [[delivery[r] EXCEPT !.state = s] EXCEPT !.issue = i]
<1>1. delivery[r] \in Delivery
  BY DEF IInv, TypeOK
<1>2. /\ new \in Delivery /\ new.state = s /\ new.issue = i
      /\ new.copy = delivery[r].copy /\ new.existing = delivery[r].existing
      /\ new.receipts = delivery[r].receipts
  BY <1>1 DEF Delivery
<1>3. delivery' = [delivery EXCEPT ![r] = new]
  BY <1>1 DEF SettleTo, IInv, TypeOK
<1> QED
  BY <1>2, <1>3, NoneAssumption DEF IInv, TypeOK

LEMMA PostFields ==
    ASSUME IInv, NEW n \in DOMAIN posts
    PROVE  /\ posts[n] \in [rev : Revs, copy : Copy, issue : Revs]
           /\ posts[n].rev \in Revs /\ posts[n].issue \in Revs
           /\ posts[n].issue = posts[1].issue /\ posts # <<>>
<1>1. ASSUME NEW S, posts \in Seq(S) PROVE posts[n] \in S /\ posts # <<>>
  BY <1>1
<1>2. posts[n] \in [rev : Revs, copy : Copy, issue : Revs] /\ posts # <<>>
  BY <1>1 DEF IInv, TypeOK
<1> QED
  BY <1>2 DEF IInv, PostsAgree

(* An open delivery is settled: no attempt may send any more, and the      *)
(* report is linked to the one issue there is, or nothing was posted.      *)
LEMMA SettleKeepsIInv ==
    ASSUME IInv, NEW r \in In({"CLAIMED", "UNKNOWN"}), NEW s \in {"SENT", "UNKNOWN", "CANCELLED"},
           NEW i \in Revs \cup {None},
           SettleTo(r, s, i),
           UNCHANGED <<inbox, source, file, fetch, draft, uploaded, posts>>,
           worker' \in [Workers -> Attempt \cup {None}],
           \A w \in Workers : worker'[w] \in {worker[w], None},
           \A w \in Workers : worker'[w] # None /\ worker'[w].rev = r => worker'[w].outcome # None,
           i \in {None, delivery[r].existing, delivery[r].issue} \/ \E n \in PostsOf(r) : i = posts[n].issue,
           linear' = linear \/ \E n \in DOMAIN posts : linear' = posts[n].issue,
           linear # None => linear' # None,
           s = "SENT" => linear' # None,
           s = "CANCELLED" => PostsOf(r) = {},
           \/ rev' = rev /\ state' = state /\ approval' = approval
           \/ rev' = rev + 1 /\ rev' \in Revs /\ approval' = None
                 /\ state' \in {"REVIEW", "DISMISSED", "LINKED"},
           state' = "LINKED" =>
               \E n \in DOMAIN posts : posts[n].copy.of = source /\ posts[n].issue = linear'
    PROVE  IInv'
<1>1. r \in Revs /\ delivery[r] # None /\ delivery[r] \in Delivery
      /\ delivery[r].state \in {"CLAIMED", "UNKNOWN"}
  BY DEF In, IInv, TypeOK
<1>2. /\ delivery' \in [Revs -> Delivery \cup {None}]
      /\ delivery'[r] # None /\ delivery'[r].state = s /\ delivery'[r].issue = i
      /\ delivery'[r].copy = delivery[r].copy /\ delivery'[r].existing = delivery[r].existing
      /\ delivery'[r].receipts = delivery[r].receipts
      /\ \A q \in Revs : q # r => delivery'[q] = delivery[q]
  BY <1>1, SettleFields
<1>3. \A q \in Revs : q # r => q \notin In({"CLAIMED", "UNKNOWN"}) /\ q \notin In({"CLAIMED"})
  BY DEF IInv, DeliveriesAgree, In
<1>4. posts \in Seq([rev : Revs, copy : Copy, issue : Revs]) /\ posts' = posts
  BY DEF IInv, TypeOK
<1>5. \A n \in DOMAIN posts : posts[n].rev \in Revs /\ posts[n].issue \in Revs /\ posts[n].issue = posts[1].issue
  BY PostFields
<1>6. linear' \in Revs \cup {None}
  BY <1>5 DEF IInv, TypeOK
<1>7. TypeOK'
  BY <1>2, <1>6 DEF IInv, TypeOK
<1>8. source # None /\ rev \in Nat /\ rev' \in Nat /\ rev' >= rev /\ \A q \in Revs : q \in Nat
  <2>1. rev \in Nat /\ \A q \in Revs : q \in Nat
    BY BugAssumption DEF IInv, TypeOK, Revs
  <2> QED
    BY <1>1, <2>1 DEF IInv, ReportAgrees
<1>9. ReportAgrees'
  <2>1. draft # None => draft.rev \in Nat
    BY <1>8 DEF IInv, TypeOK, Reviewed
  <2> QED
    BY <1>8, <2>1 DEF IInv, ReportAgrees
<1>10. DeliveriesAgree'
  <2>1. \A q \in Revs : delivery'[q] # None => q <= rev' /\ delivery'[q].receipts \subseteq delivery'[q].copy.files
    BY <1>1, <1>2, <1>8 DEF IInv, DeliveriesAgree
  <2>2. \A q \in Revs : delivery'[q] = None \/ delivery'[q].state # "CLAIMED"
    BY <1>2, <1>3 DEF In
  <2>3. \A q \in Revs : delivery'[q] # None /\ delivery'[q].state = "UNKNOWN" => q = r
    BY <1>2, <1>3 DEF In
  <2>4. state' = "APPROVED" /\ delivery'[rev'] # None => delivery'[rev'].copy = approval'.copy
    <3>1. rev \in Revs
      BY DEF IInv, TypeOK
    <3> QED
      BY <1>1, <1>2, <3>1 DEF IInv, DeliveriesAgree
  <2> QED
    BY <2>1, <2>2, <2>3, <2>4 DEF DeliveriesAgree, In
<1>11. AttemptsAgree'
  <2>1. ASSUME NEW w \in Workers, worker'[w] # None PROVE AttemptAgrees(w)'
    <3>1. /\ worker'[w] = worker[w] /\ AttemptAgrees(w) /\ worker[w].rev \in Revs
          /\ worker[w].rev = r => worker[w].outcome # None
      BY <2>1 DEF IInv, AttemptsAgree, TypeOK, Attempt
    <3> DEFINE q == worker[w].rev
    <3>2. /\ delivery'[q] # None /\ delivery'[q].state # "QUEUED"
          /\ delivery'[q].existing = delivery[q].existing
          /\ q # r => delivery'[q] = delivery[q]
      BY <1>1, <1>2, <3>1 DEF AttemptAgrees, In
    <3> QED
      BY <1>4, <3>1, <3>2 DEF AttemptAgrees, In, PostsOf
  <2> QED
    BY <2>1 DEF IInv, AttemptsAgree
<1>12. PostsAgree'
  <2>1. \A n \in DOMAIN posts :
           LET q == posts[n].rev IN
           /\ q \in Revs /\ delivery'[q] # None /\ delivery'[q].state \in {"CLAIMED", "UNKNOWN", "SENT"}
           /\ posts[n].copy = delivery'[q].copy
           /\ delivery'[q].receipts = delivery'[q].copy.files
    <3>1. ASSUME NEW n \in DOMAIN posts, posts[n].rev = r PROVE s # "CANCELLED"
      BY <3>1 DEF PostsOf
    <3> QED
      BY <1>1, <1>2, <1>5, <3>1 DEF IInv, PostsAgree, In
  <2>2. linear' # None => posts # <<>> /\ linear' = posts[1].issue
    BY <1>4, <1>5 DEF IInv, PostsAgree
  <2>3. ASSUME posts # <<>>, linear' = None
        PROVE  \E n \in DOMAIN posts : posts[n].rev \in Revs /\ delivery'[posts[n].rev] # None
                     /\ delivery'[posts[n].rev].state \in {"CLAIMED", "UNKNOWN"}
    <3>1. PICK n \in DOMAIN posts : posts[n].rev \in In({"CLAIMED", "UNKNOWN"})
      BY <2>3 DEF IInv, PostsAgree
    <3>2. posts[n].rev = r
      BY <1>3, <1>5, <3>1
    <3> QED
      BY <1>1, <1>2, <2>3, <3>2 DEF PostsOf
  <2>4. ASSUME NEW q \in Revs, delivery'[q] # None
        PROVE  /\ delivery'[q].existing # None => posts # <<>> /\ delivery'[q].existing = posts[1].issue
               /\ \/ delivery'[q].issue \in {None, delivery'[q].existing}
                  \/ \E n \in PostsOf(q) : delivery'[q].issue = posts[n].issue
    BY <1>1, <1>2, <2>4 DEF IInv, PostsAgree
  <2>5. \A n \in DOMAIN posts : posts[n].rev \in In({"CLAIMED", "UNKNOWN", "SENT"})'
    BY <2>1 DEF In
  <2>6. posts # <<>> /\ linear' = None =>
           \E n \in DOMAIN posts : posts[n].rev \in In({"CLAIMED", "UNKNOWN"})'
    BY <2>3 DEF In
  <2> QED
    <3>1. \A q \in Revs : PostsOf(q)' = PostsOf(q)
      BY <1>4 DEF PostsOf
    <3>2. posts[1]' = posts[1]
      BY <1>4
    <3> QED
      BY <1>4, <1>5, <2>1, <2>2, <2>4, <2>5, <2>6, <3>1, <3>2 DEF PostsAgree
<1> QED
  BY <1>7, <1>9, <1>10, <1>11, <1>12 DEF IInv, NewestSourceWins, LinkedIsDelivered

LEMMA SetSettles ==
    ASSUME IInv, NEW r \in Revs, delivery[r] # None, NEW s, Set(r, s)
    PROVE  SettleTo(r, s, delivery[r].issue) /\ delivery[r].issue \in Revs \cup {None}
<1>1. delivery[r] \in Delivery
  BY DEF IInv, TypeOK
<1>2. [[delivery[r] EXCEPT !.state = s] EXCEPT !.issue = delivery[r].issue] = [delivery[r] EXCEPT !.state = s]
  BY <1>1 DEF Delivery
<1>3. delivery' = [delivery EXCEPT ![r] = [delivery[r] EXCEPT !.state = s]]
  BY DEF Set
<1>4. [delivery EXCEPT ![r].state = s, ![r].issue = delivery[r].issue]
        = [delivery EXCEPT ![r] = [[delivery[r] EXCEPT !.state = s] EXCEPT !.issue = delivery[r].issue]]
  BY DEF IInv, TypeOK
<1> QED
  BY <1>1, <1>2, <1>3, <1>4 DEF SettleTo, Delivery

(* What is settled as sent under its own approval is the report as it is. *)
LEMMA PostsShowTheReport ==
    ASSUME IInv, NEW r \in Revs, delivery[r] # None, state = "APPROVED", rev = r, NEW n \in PostsOf(r)
    PROVE  posts[n].copy.of = source
BY DEF IInv, PostsAgree, DeliveriesAgree, ReportAgrees, PostsOf

LEMMA RecordKeepsIInv ==
    ASSUME IInv, NEW w \in Workers, Record(w)
    PROVE  IInv'
<1> DEFINE r == worker[w].rev  out == worker[w].outcome
<1>1. /\ worker[w] # None /\ worker[w] \in Attempt /\ r \in Revs /\ out # None
      /\ out \in Outcome /\ worker' = [worker EXCEPT ![w] = None]
      /\ UNCHANGED <<inbox, source, file, fetch, draft, uploaded, posts>>
  BY DEF Record, IInv, TypeOK, Attempt
<1>2. CASE UNCHANGED <<delivery, rev, state, approval, linear>>
  BY <1>1, <1>2, ForgetKeepsIInv DEF message
<1>3. CASE /\ delivery[r].state = "CLAIMED"
           /\ SettleTo(r, out.state, out.issue)
           /\ IF out.state = "SENT"
              THEN Touch("LINKED", None) /\ linear' = out.issue
              ELSE UNCHANGED <<rev, state, approval, linear>>
  <2>1. AttemptAgrees(w) /\ r \in In({"CLAIMED", "UNKNOWN"}) /\ r \in In({"CLAIMED"})
    BY <1>1, <1>3 DEF IInv, AttemptsAgree, AttemptAgrees, In
  <2>2. out.state \in {"SENT", "UNKNOWN", "CANCELLED"} /\ out.issue \in Revs \cup {None}
    BY <1>1 DEF Outcome
  <2>3. /\ worker' \in [Workers -> Attempt \cup {None}]
        /\ \A v \in Workers : worker'[v] \in {worker[v], None}
        /\ \A v \in Workers : worker'[v] # None /\ worker'[v].rev = r => worker'[v].outcome # None
    BY <1>1 DEF IInv, TypeOK, AttemptsAgree
  <2>4. \/ out.issue \in {None, delivery[r].existing, delivery[r].issue}
        \/ \E n \in PostsOf(r) : out.issue = posts[n].issue
    BY <1>1, <2>1 DEF AttemptAgrees
  <2>5. CASE out.state = "SENT"
    <3>1. PICK n \in PostsOf(r) : out.issue = posts[n].issue
      BY <1>1, <2>1, <2>5 DEF AttemptAgrees
    <3>2. n \in DOMAIN posts /\ posts[n].issue \in Revs /\ posts[n].issue # None
      BY <3>1, PostFields, NoneAssumption DEF PostsOf, Revs
    <3>3. posts[n].copy.of = source
      BY <1>1, <2>1, PostsShowTheReport DEF IInv, DeliveriesAgree, In
    <3>4. rev' = rev + 1 /\ rev' \in Revs /\ approval' = None /\ state' = "LINKED"
      BY <1>3, <2>5, BugAssumption DEF Touch, Revs, IInv, TypeOK
    <3>5. linear' = posts[n].issue /\ linear' # None
      BY <1>3, <2>5, <3>1, <3>2
    <3> QED
      BY <1>1, <1>3, <2>1, <2>2, <2>3, <2>4, <2>5, <3>2, <3>3, <3>4, <3>5, SettleKeepsIInv
  <2>6. CASE out.state # "SENT"
    <3>1. UNCHANGED <<rev, state, approval, linear>> /\ out.state = "UNKNOWN"
      BY <1>1, <1>3, <2>6 DEF Outcome
    <3>2. state' = "LINKED" =>
             \E n \in DOMAIN posts : posts[n].copy.of = source /\ posts[n].issue = linear'
      BY <3>1 DEF IInv, LinkedIsDelivered
    <3> QED
      BY <1>1, <1>3, <2>1, <2>2, <2>3, <2>4, <3>1, <3>2, SettleKeepsIInv
  <2> QED
    BY <2>5, <2>6
<1> QED
  BY <1>2, <1>3 DEF Record, SettleTo

LEMMA TerminatedAnswers ==
    ASSUME NEW r, Terminated(r)
    PROVE  \A w \in Workers : worker[w] # None /\ worker[w].rev = r => worker[w].outcome # None
BY DEF Terminated, Sending

ReconcileStep(r) ==
    MarkInterrupted(r) \/ ConfirmSent(r) \/ ConfirmNotSent(r) \/ \E f \in Files : RecoverReceipt(r, f)

LEMMA ReconcileKeepsIInv ==
    ASSUME IInv, NEW r \in Revs, ReconcileStep(r)
    PROVE  IInv'
<1>1. \A w \in Workers : worker[w] # None /\ worker[w].rev = r => worker[w].outcome # None
  BY TerminatedAnswers DEF ReconcileStep, MarkInterrupted, ConfirmSent, ConfirmNotSent, RecoverReceipt
<1>2. r \in In({"CLAIMED", "UNKNOWN"}) /\ delivery[r] # None /\ delivery[r] \in Delivery
  BY DEF ReconcileStep, MarkInterrupted, ConfirmSent, ConfirmNotSent, RecoverReceipt, In, IInv, TypeOK
<1>3. worker \in [Workers -> Attempt \cup {None}]
  BY DEF IInv, TypeOK
<1>4. state = "LINKED" => \E n \in DOMAIN posts : posts[n].copy.of = source /\ posts[n].issue = linear
  BY DEF IInv, LinkedIsDelivered
<1>5. CASE MarkInterrupted(r)
  <2>1. SettleTo(r, "UNKNOWN", delivery[r].issue) /\ delivery[r].issue \in Revs \cup {None}
    BY <1>2, <1>5, SetSettles DEF MarkInterrupted
  <2>2. UNCHANGED <<inbox, source, rev, state, approval, linear, file, worker, fetch, draft, uploaded, posts>>
    BY <1>5 DEF MarkInterrupted, message
  <2> QED
    BY <1>1, <1>2, <1>3, <1>4, <2>1, <2>2, SettleKeepsIInv
<1>6. CASE ConfirmNotSent(r)
  <2>1. SettleTo(r, "CANCELLED", delivery[r].issue) /\ delivery[r].issue \in Revs \cup {None}
    BY <1>2, <1>6, SetSettles DEF ConfirmNotSent
  <2>2. /\ UNCHANGED <<inbox, source, linear, file, worker, fetch, draft, uploaded, posts>>
        /\ rev' = rev + 1 /\ rev' \in Revs /\ approval' = None /\ state' = "REVIEW" /\ PostsOf(r) = {}
    BY <1>6, BugAssumption DEF ConfirmNotSent, Touch, Revs, IInv, TypeOK
  <2> QED
    BY <1>1, <1>2, <1>3, <2>1, <2>2, SettleKeepsIInv
<1>7. CASE ConfirmSent(r)
  <2>1. PICK n \in PostsOf(r) : /\ SettleTo(r, "SENT", posts[n].issue)
                                /\ linear' = posts[n].issue
    BY <1>7 DEF ConfirmSent, SettleTo
  <2>2. n \in DOMAIN posts /\ posts[n].issue \in Revs /\ posts[n].issue # None
    BY <2>1, PostFields, NoneAssumption DEF PostsOf, Revs
  <2>3. /\ UNCHANGED <<inbox, source, file, worker, fetch, draft, uploaded, posts>>
        /\ rev' = rev + 1 /\ rev' \in Revs /\ approval' = None /\ state' = AfterConfirm(r)
    BY <1>7, BugAssumption DEF ConfirmSent, Touch, Revs, IInv, TypeOK
  <2>4. state' \in {"REVIEW", "DISMISSED", "LINKED"}
    BY <2>3 DEF AfterConfirm, IInv, TypeOK
  <2>5. state' = "LINKED" =>
           \E k \in DOMAIN posts : posts[k].copy.of = source /\ posts[k].issue = linear'
    <3>1. CASE state = "APPROVED" /\ rev = r
      BY <1>2, <2>1, <2>2, <3>1, PostsShowTheReport
    <3>2. CASE state = "LINKED"
      BY <1>4, <2>1, <2>2, <3>2, PostFields
    <3> QED
      BY <2>3, <3>1, <3>2 DEF AfterConfirm
  <2> QED
    BY <1>1, <1>2, <1>3, <2>1, <2>2, <2>3, <2>4, <2>5, SettleKeepsIInv
<1>8. ASSUME NEW f \in Files, RecoverReceipt(r, f) PROVE IInv'
  <2>1. /\ delivery' = [delivery EXCEPT ![r].receipts = @ \cup {f}]
        /\ f \in delivery[r].copy.files /\ f \notin delivery[r].receipts
        /\ UNCHANGED <<inbox, message, file, worker, fetch, draft, uploaded, posts>>
    BY <1>8 DEF RecoverReceipt
  <2>2. /\ delivery' \in [Revs -> Delivery \cup {None}]
        /\ delivery'[r] # None /\ delivery'[r].receipts = delivery[r].receipts \cup {f}
        /\ delivery'[r].state = delivery[r].state /\ delivery'[r].copy = delivery[r].copy
        /\ delivery'[r].existing = delivery[r].existing /\ delivery'[r].issue = delivery[r].issue
        /\ \A q \in Revs : q # r => delivery'[q] = delivery[q]
    BY <1>2, <2>1, ReceiptFields
  <2>3. PostsOf(r) = {}
    BY <2>1 DEF IInv, PostsAgree, PostsOf
  <2>4. TypeOK'
    BY <2>1, <2>2 DEF message, IInv, TypeOK
  <2>5. DeliveriesAgree'
    BY <1>2, <2>1, <2>2 DEF message, IInv, TypeOK, DeliveriesAgree, In
  <2>6. AttemptsAgree'
    <3>1. ASSUME NEW w \in Workers, worker[w] # None PROVE AttemptAgrees(w)'
      <4>1. worker[w].rev \in Revs /\ AttemptAgrees(w)
        BY <3>1 DEF IInv, AttemptsAgree, TypeOK, Attempt
      <4> QED
        BY <1>1, <2>1, <2>2, <3>1, <4>1 DEF AttemptAgrees, In, PostsOf
    <3> QED
      BY <2>1, <3>1 DEF IInv, AttemptsAgree
  <2>7. PostsAgree'
    <3>1. \A i \in DOMAIN posts : posts[i].rev \in Revs /\ posts[i].rev # r
      BY <2>3, PostFields DEF PostsOf
    <3>2. \A i \in DOMAIN posts :
             LET q == posts[i].rev IN
             /\ q \in In({"CLAIMED", "UNKNOWN", "SENT"})'
             /\ posts[i].copy = delivery'[q].copy
             /\ delivery'[q].receipts = delivery'[q].copy.files
             /\ posts[i].issue = posts[1].issue
      BY <2>1, <2>2, <3>1 DEF IInv, PostsAgree, In
    <3>3. posts # <<>> /\ linear = None =>
             \E i \in DOMAIN posts : posts[i].rev \in In({"CLAIMED", "UNKNOWN"})'
      BY <2>1, <2>2, <3>1 DEF IInv, PostsAgree, In
    <3>4. ASSUME NEW q \in Revs, delivery'[q] # None
          PROVE  /\ delivery'[q].existing # None => posts # <<>> /\ delivery'[q].existing = posts[1].issue
                 /\ \/ delivery'[q].issue \in {None, delivery'[q].existing}
                    \/ \E i \in PostsOf(q) : delivery'[q].issue = posts[i].issue
      BY <1>2, <2>2, <3>4 DEF IInv, PostsAgree
    <3> QED
      BY <2>1, <3>2, <3>3, <3>4 DEF message, IInv, PostsAgree, PostsOf
  <2>8. ReportAgrees'
    BY <1>2, <2>1, <2>2 DEF message, IInv, ReportAgrees
  <2> QED
    BY <2>1, <2>4, <2>5, <2>6, <2>7, <2>8 DEF message, IInv, NewestSourceWins, LinkedIsDelivered
<1> QED
  BY <1>5, <1>6, <1>7, <1>8 DEF ReconcileStep

-----------------------------------------------------------------------------
(* The invariant and what follows from it.                                 *)

LEMMA InitIInv == Init => IInv
<1> SUFFICES ASSUME Init PROVE IInv
  OBVIOUS
<1>1. TypeOK
  BY BugAssumption DEF Init, TypeOK, Revs
<1>2. \A r \in Revs : delivery[r] = None
  BY DEF Init
<1> QED
  BY <1>1, <1>2 DEF Init, IInv, ReportAgrees, DeliveriesAgree, AttemptsAgree, PostsAgree,
         NewestSourceWins, LinkedIsDelivered, In

LEMMA NextIInv == IInv /\ [Next]_vars => IInv'
<1> SUFFICES ASSUME IInv, [Next]_vars PROVE IInv'
  OBVIOUS
<1>1. ASSUME NEW u \in Updates, NEW p \in Arrives[u], Persist(u, p) PROVE IInv'
  BY <1>1, PersistKeepsIInv
<1>2. ASSUME NEW u \in Updates, Process(u) PROVE IInv'
  BY <1>2, ProcessKeepsIInv
<1>3. ASSUME NEW u \in Updates, KeepCurrent(u) \/ RetryNormalization(u) PROVE IInv'
  BY <1>3, InboxRowKeepsIInv DEF KeepCurrent, RetryNormalization
<1>4. CASE FileStep
  BY <1>4, FileStepKeepsIInv
<1>5. CASE OperatorStep
  BY <1>5, OperatorStepKeepsIInv
<1>6. CASE Enqueue
  BY <1>6, EnqueueKeepsIInv
<1>7. ASSUME NEW w \in Workers, NEW r \in Revs, Claim(w, r) PROVE IInv'
  BY <1>7, ClaimKeepsIInv
<1>8. ASSUME NEW w \in Workers, NEW f \in Files, NEW taken \in BOOLEAN, NEW receipt \in BOOLEAN,
             UploadFile(w, f, taken, receipt) PROVE IInv'
  BY <1>8, UploadKeepsIInv
<1>9. ASSUME NEW w \in Workers, NEW taken \in BOOLEAN, NEW answered \in {"success", "issue", "nothing"},
             Post(w, taken, answered) PROVE IInv'
  BY <1>9, PostKeepsIInv
<1>10. ASSUME NEW w \in Workers, Record(w) PROVE IInv'
  BY <1>10, RecordKeepsIInv
<1>11. ASSUME NEW w \in Workers, Die(w) PROVE IInv'
  BY <1>11, ForgetKeepsIInv DEF Die
<1>12. ASSUME NEW r \in Revs, ReconcileStep(r) PROVE IInv'
  BY <1>12, ReconcileKeepsIInv
<1>13. CASE UNCHANGED vars
  BY <1>13, QuietKeepsIInv DEF vars, message, IInv, TypeOK, NewestSourceWins
<1> QED
  BY <1>1, <1>2, <1>3, <1>4, <1>5, <1>6, <1>7, <1>8, <1>9, <1>10, <1>11, <1>12, <1>13
     DEF Next, FileStep, OperatorStep, ReconcileStep

(* The inductive invariant.                                                *)
THEOREM Invariance == Spec => []IInv
BY InitIInv, NextIInv, PTL DEF Spec

(* Every variable keeps its type.                                          *)
THEOREM TypeCorrect == Spec => []TypeOK
<1>1. IInv => TypeOK
  BY DEF IInv
<1> QED
  BY <1>1, Invariance, PTL

(* Whatever the order in which updates arrive, collide or are deferred, a  *)
(* report shows the newest text that was processed.                        *)
THEOREM NewestTextIsShown == Spec => []NewestSourceWins
<1>1. IInv => NewestSourceWins
  BY DEF IInv
<1> QED
  BY <1>1, Invariance, PTL

(* What is called linked was delivered as it now reads.                    *)
THEOREM LinkedWasDelivered == Spec => []LinkedIsDelivered
<1>1. IInv => LinkedIsDelivered
  BY DEF IInv
<1> QED
  BY <1>1, Invariance, PTL

(* A delivery of unknown outcome can always be reconciled: no sender is    *)
(* left on it, and the confirmation that is true is not refused.           *)
THEOREM UnknownIsResolvable == Spec => []UnknownCanBeResolved
<1>1. ASSUME IInv PROVE UnknownCanBeResolved
  <2> SUFFICES ASSUME NEW r \in In({"UNKNOWN"})
               PROVE  /\ Terminated(r)
                      /\ PostsOf(r) = {} => NotSentFits(r)
                      /\ \A i \in PostsOf(r) : SentFits(r, posts[i].issue)
    BY DEF UnknownCanBeResolved
  <2>1. r \in Revs /\ delivery[r] # None /\ delivery[r].state = "UNKNOWN"
    BY DEF In
  <2>2. ~DeliveryInFlight
    BY <1>1, <2>1 DEF IInv, DeliveriesAgree, DeliveryInFlight, In
  <2>3. Terminated(r)
    BY <1>1, <2>1 DEF IInv, AttemptsAgree, AttemptAgrees, Terminated, Sending
  <2>4. PostsOf(r) = {} => NotSentFits(r)
    BY <1>1, <2>1, <2>2 DEF IInv, PostsAgree, NotSentFits
  <2>5. ASSUME NEW i \in PostsOf(r) PROVE SentFits(r, posts[i].issue)
    <3>1. i \in DOMAIN posts /\ posts[i].rev = r
      BY DEF PostsOf
    <3>2. \A n \in DOMAIN posts : posts[n].issue = posts[1].issue
      BY <1>1 DEF IInv, PostsAgree
    <3>3. linear = None \/ linear = posts[i].issue
      BY <1>1, <3>1, <3>2 DEF IInv, PostsAgree
    <3>4. delivery[r].issue = None \/ delivery[r].issue = posts[i].issue
      BY <1>1, <2>1, <3>1, <3>2 DEF IInv, PostsAgree, PostsOf
    <3>5. delivery[r].receipts = delivery[r].copy.files
      BY <1>1, <3>1 DEF IInv, PostsAgree
    <3> QED
      BY <2>2, <3>3, <3>4, <3>5 DEF SentFits, MapsTo, UploadsComplete
  <2> QED
    BY <2>3, <2>4, <2>5
<1> QED
  BY <1>1, Invariance, PTL

-----------------------------------------------------------------------------
(* The intake implements ConsentedPosts.                                   *)

Standing == IF state = "APPROVED" THEN approval ELSE None

(* What a step may do to the promise; the last case is Tracker!Confirm.    *)
LEMMA StutterStep ==
    ASSUME source' = source, Standing' = Standing, posts' = posts, In({"SENT"})' = In({"SENT"})
    PROVE  UNCHANGED Tracker!vars
BY DEF Tracker!vars, Standing

LEMMA WithdrawStep ==
    ASSUME source' = source, state' # "APPROVED", posts' = posts, In({"SENT"})' = In({"SENT"})
    PROVE  Tracker!Withdraw
BY DEF Tracker!Withdraw

LEMMA ConfirmStep ==
    ASSUME IInv, NEW r \in In({"CLAIMED", "UNKNOWN"}), NEW i \in Revs \cup {None},
           SettleTo(r, "SENT", i), PostsOf(r) # {},
           source' = source, state' # "APPROVED", posts' = posts
    PROVE  Tracker!Confirm
<1>1. r \in Revs /\ delivery[r] # None /\ delivery[r].state \in {"CLAIMED", "UNKNOWN"}
  BY DEF In
<1>2. /\ delivery'[r] # None /\ delivery'[r].state = "SENT"
      /\ \A q \in Revs : q # r => delivery'[q] = delivery[q]
  BY <1>1, SettleFields
<1>3. In({"SENT"})' = In({"SENT"}) \cup {r} /\ r \notin In({"SENT"})
  BY <1>1, <1>2 DEF In
<1>4. r \in Tracker!Posted
  BY DEF Tracker!Posted, PostsOf
<1> QED
  BY <1>3, <1>4 DEF Tracker!Confirm

(* Only the state of a delivery that is not sent changes, and not to sent. *)
LEMMA SentUnmoved ==
    ASSUME NEW r \in Revs, delivery[r] # None, delivery'[r] # None,
           delivery[r].state # "SENT", delivery'[r].state # "SENT",
           \A q \in Revs : q # r => delivery'[q] = delivery[q]
    PROVE  In({"SENT"})' = In({"SENT"})
BY DEF In

LEMMA InboxStepConsents ==
    ASSUME IInv, NEW u \in Updates,
           (\E p \in Arrives[u] : Persist(u, p)) \/ Process(u) \/ KeepCurrent(u) \/ RetryNormalization(u)
    PROVE  [Tracker!Next]_(Tracker!vars)
<1>1. CASE UNCHANGED <<message, delivery, posts>>
  BY <1>1, StutterStep DEF message, Standing, In
<1>2. CASE Process(u) /\ Ingest(inbox[u].payload) /\ UNCHANGED <<delivery, posts>>
  <2>1. inbox[u] \in Row /\ source' = inbox[u].payload /\ source' \in Payloads
    BY <1>2 DEF Process, Ingest, IInv, TypeOK, Row
  <2>2. state' # "APPROVED"
    BY <1>2 DEF Ingest, Touch, AfterEdit, IInv, ReportAgrees
  <2>3. In({"SENT"})' = In({"SENT"})
    BY <1>2 DEF In
  <2> QED
    BY <1>2, <2>1, <2>2, <2>3 DEF Tracker!Next, Tracker!Edit
<1> QED
  BY <1>1, <1>2 DEF Persist, Process, KeepCurrent, RetryNormalization

LEMMA FileStepConsents ==
    ASSUME IInv, FileStep
    PROVE  [Tracker!Next]_(Tracker!vars)
<1>1. source' = source /\ posts' = posts /\ In({"SENT"})' = In({"SENT"})
  BY DEF FileStep, BeginFetch, RetryFile, ExcludeFile, Reopen, EndFetch, AbandonFetch, message, In
<1>2. state' # "APPROVED" \/ UNCHANGED <<state, approval>>
  BY DEF FileStep, BeginFetch, RetryFile, ExcludeFile, Reopen, EndFetch, AbandonFetch, message, Touch
<1> QED
  BY <1>1, <1>2, StutterStep, WithdrawStep DEF Standing, Tracker!Next

LEMMA OperatorStepConsents ==
    ASSUME IInv, OperatorStep
    PROVE  [Tracker!Next]_(Tracker!vars)
<1>1. source' = source /\ posts' = posts /\ In({"SENT"})' = In({"SENT"})
  BY DEF OperatorStep, Look, Approve, Dismiss, message, In
<1>2. CASE Look
  BY <1>1, <1>2, StutterStep DEF Look, message, Standing
<1>3. CASE Dismiss
  BY <1>1, <1>3, WithdrawStep DEF Dismiss, Touch, Tracker!Next
<1>4. CASE Approve
  <2> DEFINE given == [rev |-> rev + 1, copy |-> draft.copy]
  <2>1. state = "REVIEW" /\ state' = "APPROVED" /\ approval' = given
    BY <1>4 DEF Approve, Touch
  <2>2. draft \in Reviewed /\ draft.copy \in Copy /\ draft.copy.of = source
    BY <1>4 DEF Approve, IInv, TypeOK, ReportAgrees, Reviewed
  <2>3. given \in [rev : Nat, copy : [of : {source}, files : SUBSET Files]]
    BY <2>2, BugAssumption DEF Copy, IInv, TypeOK, Revs
  <2>4. given.rev \notin Tracker!Posted
    <3>1. \A n \in DOMAIN posts : posts[n].rev <= rev /\ posts[n].rev \in Nat
      <4>1. \A n \in DOMAIN posts : posts[n].rev \in Revs /\ delivery[posts[n].rev] # None
        BY PostFields DEF IInv, PostsAgree, In
      <4> QED
        BY <4>1, BugAssumption DEF IInv, DeliveriesAgree, Revs
    <3> QED
      BY <3>1, BugAssumption DEF Tracker!Posted, IInv, TypeOK, Revs
  <2> QED
    BY <1>1, <2>1, <2>3, <2>4 DEF Tracker!Next, Tracker!Approve
<1> QED
  BY <1>2, <1>3, <1>4 DEF OperatorStep

LEMMA DeliveryStepConsents ==
    ASSUME IInv, Enqueue \/ \E w \in Workers : \/ \E r \in Revs : Claim(w, r)
                                              \/ Die(w)
                                              \/ \E f \in Files, taken, receipt \in BOOLEAN :
                                                     UploadFile(w, f, taken, receipt)
    PROVE  [Tracker!Next]_(Tracker!vars)
<1>1. source' = source /\ posts' = posts /\ Standing' = Standing
  BY DEF Enqueue, Claim, Die, UploadFile, message, Standing
<1>2. CASE Enqueue
  <2>1. \A r \in Revs : r \in In({"SENT"})' <=> r \in In({"SENT"})
    <3> TAKE r \in Revs
    <3>1. CASE r = rev
      BY <1>2, <3>1 DEF Enqueue, In
    <3>2. CASE r # rev /\ r \in In({"QUEUED"})
      <4>1. delivery'[r] = [delivery[r] EXCEPT !.state = "CANCELLED"] /\ delivery[r] \in Delivery
        BY <1>2, <3>2 DEF Enqueue, IInv, TypeOK, In
      <4>2. delivery'[r].state = "CANCELLED"
        BY <4>1 DEF Delivery
      <4> QED
        BY <3>2, <4>2 DEF In
    <3>3. CASE r # rev /\ r \notin In({"QUEUED"})
      BY <1>2, <3>3 DEF Enqueue, In
    <3> QED
      BY <3>1, <3>2, <3>3
  <2> QED
    BY <1>1, <2>1, StutterStep DEF In
<1>3. ASSUME NEW w \in Workers, NEW r \in Revs, Claim(w, r) PROVE [Tracker!Next]_(Tracker!vars)
  <2>1. delivery[r] # None /\ delivery[r].state = "QUEUED"
    BY <1>3 DEF Claim, In
  <2>2. /\ delivery'[r] # None /\ delivery'[r].state \in {"CLAIMED", "CANCELLED"}
        /\ \A q \in Revs : q # r => delivery'[q] = delivery[q]
    BY <1>3, <2>1, SetFields DEF Claim
  <2>3. In({"SENT"})' = In({"SENT"})
    BY <2>1, <2>2, SentUnmoved
  <2> QED
    BY <1>1, <2>3, StutterStep
<1>4. ASSUME NEW w \in Workers, Die(w) PROVE [Tracker!Next]_(Tracker!vars)
  BY <1>1, <1>4, StutterStep DEF Die, In
<1>5. ASSUME NEW w \in Workers, NEW f \in Files, NEW taken \in BOOLEAN, NEW receipt \in BOOLEAN,
             UploadFile(w, f, taken, receipt)
      PROVE  [Tracker!Next]_(Tracker!vars)
  <2> DEFINE r == worker[w].rev
  <2>1. CASE UNCHANGED delivery
    BY <1>1, <2>1, StutterStep DEF In
  <2>2. CASE delivery' = [delivery EXCEPT ![r].receipts = @ \cup {f}]
    <3>1. r \in Revs /\ delivery[r] # None /\ delivery[r].state = "CLAIMED"
      BY <1>5 DEF UploadFile, Sending, IInv, TypeOK, Attempt, AttemptsAgree, AttemptAgrees
    <3>2. /\ delivery'[r] # None /\ delivery'[r].state = "CLAIMED"
          /\ \A q \in Revs : q # r => delivery'[q] = delivery[q]
      BY <2>2, <3>1, ReceiptFields
    <3>3. In({"SENT"})' = In({"SENT"})
      BY <3>1, <3>2, SentUnmoved
    <3> QED
      BY <1>1, <3>3, StutterStep
  <2> QED
    BY <1>5, <2>1, <2>2 DEF UploadFile
<1> QED
  BY <1>2, <1>3, <1>4, <1>5

(* A post is made under the approval that stands, once, in the one issue.  *)
LEMMA PostConsents ==
    ASSUME IInv, NEW w \in Workers, NEW taken \in BOOLEAN,
           NEW answered \in {"success", "issue", "nothing"}, Post(w, taken, answered)
    PROVE  [Tracker!Next]_(Tracker!vars)
<1> DEFINE r == worker[w].rev  d == delivery[r]
<1>1. source' = source /\ Standing' = Standing /\ In({"SENT"})' = In({"SENT"})
  BY DEF Post, message, Standing, In
<1>2. CASE ~taken
  BY <1>1, <1>2, StutterStep DEF Post
<1>3. CASE taken
  <2>1. r \in Revs /\ d # None /\ d.state = "CLAIMED" /\ PostsOf(r) = {} /\ r \in In({"CLAIMED"})
    BY DEF Post, Sending, IInv, TypeOK, Attempt, AttemptsAgree, AttemptAgrees, In
  <2>2. /\ state = "APPROVED" /\ rev = r /\ d.existing = linear /\ d.copy = approval.copy
        /\ approval # None /\ approval.rev = r
    BY <2>1 DEF IInv, DeliveriesAgree, ReportAgrees
  <2>3. linear = None => posts = <<>>
    <3>1. \A n \in DOMAIN posts : posts[n].rev \notin In({"CLAIMED", "UNKNOWN"})
      BY <2>1 DEF IInv, DeliveriesAgree, In, PostsOf
    <3> QED
      BY <3>1 DEF IInv, PostsAgree
  <2>4. (IF d.existing = None THEN r ELSE d.existing) = (IF posts = <<>> THEN r ELSE posts[1].issue)
    BY <2>2, <2>3 DEF IInv, PostsAgree
  <2>5. posts' = Append(posts, [rev |-> r, copy |-> approval.copy,
                                issue |-> IF posts = <<>> THEN r ELSE posts[1].issue])
    BY <1>3, <2>2, <2>4 DEF Post
  <2>6. r \notin Tracker!Posted
    BY <2>1 DEF Tracker!Posted, PostsOf
  <2>7. Standing = approval
    BY <2>2 DEF Standing
  <2> QED
    BY <1>1, <2>2, <2>5, <2>6, <2>7 DEF Tracker!Next, Tracker!Post, Standing
<1> QED
  BY <1>2, <1>3

LEMMA RecordConsents ==
    ASSUME IInv, NEW w \in Workers, Record(w)
    PROVE  [Tracker!Next]_(Tracker!vars)
<1> DEFINE r == worker[w].rev  out == worker[w].outcome
<1>1. /\ worker[w] # None /\ r \in Revs /\ out # None /\ out \in Outcome
      /\ source' = source /\ posts' = posts
  BY DEF Record, IInv, TypeOK, Attempt
<1>2. CASE UNCHANGED <<delivery, rev, state, approval, linear>>
  BY <1>1, <1>2, StutterStep DEF Standing, In
<1>3. CASE /\ delivery[r].state = "CLAIMED" /\ out.state = "SENT"
           /\ SettleTo(r, "SENT", out.issue) /\ Touch("LINKED", None)
  <2>1. r \in In({"CLAIMED", "UNKNOWN"}) /\ PostsOf(r) # {} /\ out.issue \in Revs \cup {None}
    BY <1>1, <1>3 DEF IInv, AttemptsAgree, AttemptAgrees, In, Outcome
  <2> QED
    BY <1>1, <1>3, <2>1, ConfirmStep DEF Touch, Tracker!Next
<1>4. CASE /\ delivery[r].state = "CLAIMED" /\ out.state = "UNKNOWN"
           /\ SettleTo(r, "UNKNOWN", out.issue) /\ UNCHANGED <<rev, state, approval, linear>>
  <2>1. delivery[r] # None /\ out.issue \in Revs \cup {None}
    BY <1>1, <1>4 DEF IInv, AttemptsAgree, AttemptAgrees, Outcome
  <2>2. /\ delivery'[r] # None /\ delivery'[r].state = "UNKNOWN"
        /\ \A q \in Revs : q # r => delivery'[q] = delivery[q]
    BY <1>1, <1>4, <2>1, SettleFields
  <2>3. In({"SENT"})' = In({"SENT"})
    BY <1>1, <1>4, <2>1, <2>2, SentUnmoved
  <2> QED
    BY <1>1, <1>4, <2>3, StutterStep DEF Standing
<1>5. out.state \in {"SENT", "UNKNOWN"}
  BY <1>1 DEF Outcome
<1> QED
  BY <1>2, <1>3, <1>4, <1>5 DEF Record, SettleTo

LEMMA ReconcileConsents ==
    ASSUME IInv, NEW r \in Revs, ReconcileStep(r)
    PROVE  [Tracker!Next]_(Tracker!vars)
<1>1. /\ source' = source /\ posts' = posts
      /\ r \in In({"CLAIMED", "UNKNOWN"}) /\ delivery[r] # None /\ delivery[r].state # "SENT"
  BY DEF ReconcileStep, MarkInterrupted, ConfirmSent, ConfirmNotSent, RecoverReceipt, message, In
<1>2. CASE MarkInterrupted(r) \/ ConfirmNotSent(r)
  <2>1. /\ delivery'[r] # None /\ delivery'[r].state \in {"UNKNOWN", "CANCELLED"}
        /\ \A q \in Revs : q # r => delivery'[q] = delivery[q]
    BY <1>1, <1>2, SetFields DEF MarkInterrupted, ConfirmNotSent
  <2>2. In({"SENT"})' = In({"SENT"})
    BY <1>1, <2>1, SentUnmoved
  <2>3. state' # "APPROVED" \/ UNCHANGED <<state, approval>>
    BY <1>2 DEF MarkInterrupted, ConfirmNotSent, message, Touch
  <2> QED
    BY <1>1, <2>2, <2>3, StutterStep, WithdrawStep DEF Standing, Tracker!Next
<1>3. CASE ConfirmSent(r)
  <2>1. PICK n \in PostsOf(r) : SettleTo(r, "SENT", posts[n].issue)
    BY <1>3 DEF ConfirmSent, SettleTo
  <2>2. posts[n].issue \in Revs
    BY PostFields DEF PostsOf
  <2>3. state' # "APPROVED"
    BY <1>3 DEF ConfirmSent, Touch, AfterConfirm
  <2> QED
    BY <1>1, <2>1, <2>2, <2>3, ConfirmStep DEF Tracker!Next
<1>4. ASSUME NEW f \in Files, RecoverReceipt(r, f) PROVE [Tracker!Next]_(Tracker!vars)
  <2>1. /\ delivery'[r] # None /\ delivery'[r].state = delivery[r].state
        /\ \A q \in Revs : q # r => delivery'[q] = delivery[q]
    BY <1>1, <1>4, ReceiptFields DEF RecoverReceipt
  <2>2. In({"SENT"})' = In({"SENT"})
    BY <1>1, <2>1, SentUnmoved
  <2> QED
    BY <1>1, <1>4, <2>2, StutterStep DEF RecoverReceipt, message, Standing
<1> QED
  BY <1>2, <1>3, <1>4 DEF ReconcileStep

LEMMA NextConsents == IInv /\ [Next]_vars => [Tracker!Next]_(Tracker!vars)
<1> SUFFICES ASSUME IInv, [Next]_vars PROVE [Tracker!Next]_(Tracker!vars)
  OBVIOUS
<1>1. CASE UNCHANGED vars
  BY <1>1, StutterStep DEF vars, message, Standing, In
<1> QED
  BY <1>1, InboxStepConsents, FileStepConsents, OperatorStepConsents, DeliveryStepConsents, PostConsents,
     RecordConsents, ReconcileConsents
     DEF Next, FileStep, OperatorStep, ReconcileStep

(* The intake keeps its promise about the tracker: only what is approved,  *)
(* while the approval stands, once for each and in one issue, and called   *)
(* sent only if it was, for any number of texts, files, revisions, senders,*)
(* lost answers and crashes.                                               *)
THEOREM ConsentIsKept == Spec => KeepsConsent
<1>1. Init => Tracker!Init
  BY DEF Init, Tracker!Init, In
<1> QED
  BY <1>1, NextConsents, Invariance, PTL DEF Spec, KeepsConsent, Tracker!Spec

=============================================================================
