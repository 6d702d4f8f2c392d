----------------------------- MODULE BugReports -----------------------------
(***************************************************************************)
(* One report of the bug intake: bug-intake-inbox.ts, -store.ts, -files.ts, *)
(* -commands.ts, -resolution.ts, -outbox.ts, -send.ts, -linear-sender.ts    *)
(* and their helpers.  Updates of a chat message arrive in an inbox and     *)
(* are ingested as versions of the report; an operator approves a copy at   *)
(* a revision; a worker claims the approved copy, uploads its files and     *)
(* posts it to the tracker, and may die at any point or lose the answer.    *)
(*                                                                         *)
(* Every writer locks the message row first, so each transaction is one    *)
(* step; what is read, downloaded or sent between transactions is not.     *)
(***************************************************************************)
EXTENDS Integers, Sequences, FiniteSets

CONSTANTS
    Payloads,           \* texts of the chat message
    SourceRev,          \* payload -> its date in the source
    Attached,           \* payload -> its files, none shared
    Files,
    Updates,            \* update ids of the receiver
    Arrives,            \* update id -> the payloads that arrive under it
    Workers,
    MaxRev,             \* bound on the revisions of the message
    MaxVariants,        \* conflicting payloads kept for one update id
    None

ASSUME BugAssumption ==
    /\ SourceRev \in [Payloads -> Nat]
    /\ Attached \in [Payloads -> SUBSET Files]
    /\ \A p, q \in Payloads : p # q => Attached[p] \cap Attached[q] = {}
    /\ Arrives \in [Updates -> SUBSET Payloads]
    /\ MaxRev \in Nat /\ MaxVariants \in Nat

VARIABLES
    inbox,              \* update id -> its row: payload, state, conflicting payloads
    source, rev, state, approval, linear,       \* the message row
    file,               \* rows of the files, of every version
    delivery,           \* approved revision -> its delivery row
    worker,             \* attempts under way, lost when their process dies
    fetch,              \* the file being downloaded and the revision it was read at
    draft,              \* the copy the operator is writing and the revision it was read at
    uploaded, posts     \* what the tracker has taken

message == <<source, rev, state, approval, linear>>
vars == <<inbox, source, rev, state, approval, linear, file, delivery, worker, fetch, draft, uploaded, posts>>

Revs == 0..MaxRev
Row == [payload : Payloads, variants : SUBSET Payloads,
        state : {"PENDING", "PROCESSED", "QUARANTINED", "KEPT"}]
Copy == [of : Payloads, files : SUBSET Files]
Reviewed == [rev : Revs, copy : Copy]   \* of an approval, and of a form
Delivery == [state : {"QUEUED", "CLAIMED", "SENT", "UNKNOWN", "CANCELLED"},
             copy : Copy, existing : Revs \cup {None},
             receipts : SUBSET Files, issue : Revs \cup {None}]
Outcome == [state : {"SENT", "UNKNOWN"}, issue : Revs \cup {None}]
Attempt == [rev : Revs, todo : SUBSET Files, outcome : Outcome \cup {None}]
Download == [file : Files, rev : Revs]

ASSUME NoneAssumption ==
    /\ None \notin Payloads /\ None \notin Nat /\ None \notin Row /\ None \notin Reviewed
    /\ None \notin Delivery /\ None \notin Outcome /\ None \notin Attempt /\ None \notin Download

TypeOK ==
    /\ inbox \in [Updates -> Row \cup {None}]
    /\ source \in Payloads \cup {None}
    /\ rev \in Revs
    /\ state \in {"REVIEW", "APPROVED", "LINKED", "DISMISSED"}
    /\ approval \in Reviewed \cup {None}
    /\ linear \in Revs \cup {None}
    /\ file \in [Files -> {"ABSENT", "MISSING", "STORED", "FAILED", "EXCLUDED"}]
    /\ delivery \in [Revs -> Delivery \cup {None}]
    /\ worker \in [Workers -> Attempt \cup {None}]
    /\ fetch \in Download \cup {None}
    /\ draft \in Reviewed \cup {None}
    /\ uploaded \subseteq Revs \X Files
    /\ posts \in Seq([rev : Revs, copy : Copy, issue : Revs])

Init ==
    /\ inbox = [u \in Updates |-> None]
    /\ source = None /\ rev = 0 /\ state = "REVIEW" /\ approval = None /\ linear = None
    /\ file = [f \in Files |-> "ABSENT"]
    /\ delivery = [r \in Revs |-> None]
    /\ worker = [w \in Workers |-> None]
    /\ fetch = None /\ draft = None
    /\ uploaded = {} /\ posts = <<>>

-----------------------------------------------------------------------------
In(states) == {r \in Revs : delivery[r] # None /\ delivery[r].state \in states}
DeliveryInFlight == In({"CLAIMED"}) # {}

Touch(s, a) == rev < MaxRev /\ rev' = rev + 1 /\ state' = s /\ approval' = a
Set(r, s) == delivery' = [delivery EXCEPT ![r].state = s]

-----------------------------------------------------------------------------
(* The inbox.                                                              *)

Persist(u, p) ==
    /\ IF inbox[u] = None
       THEN inbox' = [inbox EXCEPT ![u] = [payload |-> p, variants |-> {}, state |-> "PENDING"]]
       ELSE /\ inbox[u].payload # p
            /\ Cardinality(inbox[u].variants \cup {p}) <= MaxVariants
            /\ inbox' = [inbox EXCEPT ![u].state = "QUARANTINED", ![u].variants = @ \cup {p}]
    /\ UNCHANGED <<message, file, delivery, worker, fetch, draft, uploaded, posts>>

Decision(p) ==
    IF source = None THEN "CREATE"
    ELSE IF SourceRev[p] < SourceRev[source] THEN "STALE"
    ELSE IF SourceRev[p] > SourceRev[source] THEN "EDIT"
    ELSE IF p = source THEN "DUPLICATE" ELSE "REVISION_COLLISION"

\* Mutant: an edit that arrives while the report is sent is done with.
DispositionNotDeferred(p) ==
    CASE Decision(p) = "EDIT" /\ DeliveryInFlight -> "PROCESSED"
      [] Decision(p) = "REVISION_COLLISION" -> "QUARANTINED"
      [] OTHER -> "PROCESSED"

Disposition(p) ==
    CASE Decision(p) = "EDIT" /\ DeliveryInFlight -> "PENDING"
      [] Decision(p) = "REVISION_COLLISION" -> "QUARANTINED"
      [] OTHER -> "PROCESSED"

AfterEdit == "REVIEW"

Ingest(p) ==
    /\ source' = p
    /\ file' = [f \in Files |-> IF f \in Attached[p] THEN "MISSING" ELSE file[f]]
    /\ IF source = None THEN UNCHANGED <<rev, state, approval>>
       ELSE Touch(AfterEdit, None)
    /\ UNCHANGED linear

\* The inbox row and the new version of the report commit together.
Process(u) ==
    /\ inbox[u] # None /\ inbox[u].state = "PENDING"
    /\ LET p == inbox[u].payload IN
        /\ inbox' = [inbox EXCEPT ![u].state = Disposition(p)]
        /\ IF Decision(p) \in {"CREATE", "EDIT"} /\ ~DeliveryInFlight
           THEN Ingest(p) ELSE UNCHANGED <<message, file>>
    /\ UNCHANGED <<delivery, worker, fetch, draft, uploaded, posts>>

KeepCurrent(u) ==
    /\ inbox[u] # None /\ inbox[u].state = "QUARANTINED"
    /\ inbox' = [inbox EXCEPT ![u].state = "KEPT"]
    /\ UNCHANGED <<message, file, delivery, worker, fetch, draft, uploaded, posts>>

RetryNormalization(u) ==
    /\ inbox[u] # None /\ inbox[u].state = "QUARANTINED" /\ inbox[u].variants = {}
    /\ inbox' = [inbox EXCEPT ![u].state = "PENDING"]
    /\ UNCHANGED <<message, file, delivery, worker, fetch, draft, uploaded, posts>>

-----------------------------------------------------------------------------
(* The files of the current version.                                       *)

Current == IF source = None THEN {} ELSE Attached[source]
Stored == {f \in Current : file[f] = "STORED"}
Resolved == \A f \in Current : file[f] \in {"STORED", "EXCLUDED"}

\* bugCopyAttachmentError: each file is either chosen and stored, or excluded.
Covers(copy) == Resolved /\ copy.files = Stored

\* The drain works on one file at a time.
BeginFetch(f) ==
    /\ fetch = None
    /\ f \in Current /\ file[f] = "MISSING" /\ state = "REVIEW"
    /\ fetch' = [file |-> f, rev |-> rev]
    /\ UNCHANGED <<inbox, message, file, delivery, worker, draft, uploaded, posts>>

EndFetch(result) ==
    /\ fetch # None
    /\ fetch' = None
    /\ IF /\ fetch.file \in Current /\ rev = fetch.rev
          /\ file[fetch.file] \in {"MISSING", "FAILED"} /\ state = "REVIEW"
       THEN /\ file' = [file EXCEPT ![fetch.file] = result]
            /\ Touch("REVIEW", None)
       ELSE UNCHANGED <<file, rev, state, approval>>
    /\ UNCHANGED <<inbox, source, linear, delivery, worker, draft, uploaded, posts>>

\* The storage is busy, or the process is gone.
AbandonFetch ==
    /\ fetch # None
    /\ fetch' = None
    /\ UNCHANGED <<inbox, message, file, delivery, worker, draft, uploaded, posts>>

-----------------------------------------------------------------------------
(* The commands of the operator, none while a delivery is under way.       *)

\* A form can only be filled in for a report that may be approved as it is.
Look ==
    /\ source # None /\ state = "REVIEW" /\ Resolved
    /\ draft' = [rev |-> rev, copy |-> [of |-> source, files |-> Stored]]
    /\ UNCHANGED <<inbox, message, file, delivery, worker, fetch, uploaded, posts>>

Approve ==
    /\ source # None /\ draft # None /\ ~DeliveryInFlight
    /\ draft.rev = rev /\ state = "REVIEW"
    /\ Covers(draft.copy)
    /\ Touch("APPROVED", [rev |-> rev + 1, copy |-> draft.copy])
    /\ draft' = None
    /\ UNCHANGED <<inbox, source, linear, file, delivery, worker, fetch, uploaded, posts>>

Dismiss ==
    /\ source # None /\ ~DeliveryInFlight
    /\ Touch("DISMISSED", None)
    /\ UNCHANGED <<inbox, source, linear, file, delivery, worker, fetch, draft, uploaded, posts>>

\* REOPEN, or RETRY_FILE and EXCLUDE_FILE, which also write a file of the version.
Reopen(files) ==
    /\ source # None /\ ~DeliveryInFlight
    /\ Touch("REVIEW", None)
    /\ file' = files
    /\ UNCHANGED <<inbox, source, linear, delivery, worker, fetch, draft, uploaded, posts>>

RetryFile(f) ==
    /\ state = "REVIEW" /\ f \in Current /\ file[f] = "FAILED"
    /\ Reopen([file EXCEPT ![f] = "MISSING"])

ExcludeFile(f) == f \in Current /\ Reopen([file EXCEPT ![f] = "EXCLUDED"])

-----------------------------------------------------------------------------
(* Deliveries.                                                             *)

HasConsent(r) == state = "APPROVED" /\ rev = r /\ approval # None /\ approval.rev = rev

\* The revision is queued once; an unknown delivery must be reconciled first.
Enqueue ==
    /\ delivery[rev] = None
    /\ In({"CLAIMED", "UNKNOWN"}) = {}
    /\ HasConsent(rev) /\ Covers(approval.copy)
    /\ delivery' = [r \in Revs |->
           IF r = rev
           THEN [state |-> "QUEUED", copy |-> approval.copy, existing |-> linear,
                 receipts |-> {}, issue |-> None]
           ELSE IF r \in In({"QUEUED"}) THEN [delivery[r] EXCEPT !.state = "CANCELLED"]
           ELSE delivery[r]]
    /\ UNCHANGED <<inbox, message, file, worker, fetch, draft, uploaded, posts>>

\* Mutant: a queued copy is sent though its approval was withdrawn.
MayClaimQueued(r) == delivery[r].existing = linear

MayClaim(r) ==
    /\ HasConsent(r) /\ Covers(approval.copy)
    /\ delivery[r].copy = approval.copy /\ delivery[r].existing = linear

Claim(w, r) ==
    /\ worker[w] = None
    /\ r \in In({"QUEUED"})
    /\ In({"CLAIMED", "UNKNOWN"}) = {}
    /\ IF MayClaim(r)
       THEN /\ Set(r, "CLAIMED")
            /\ worker' = [worker EXCEPT ![w] =
                   [rev |-> r, todo |-> delivery[r].copy.files, outcome |-> None]]
       ELSE /\ ~(state = "APPROVED" /\ rev = r)
            /\ Set(r, "CANCELLED")
            /\ UNCHANGED worker
    /\ UNCHANGED <<inbox, message, file, fetch, draft, uploaded, posts>>

Sending(w) == worker[w] # None /\ worker[w].outcome = None
Answer(w, s, i) == worker' = [worker EXCEPT ![w].outcome = [state |-> s, issue |-> i]]

\* One file: taken or not, its receipt written or not; without a receipt the
\* attempt ends as unknown.
UploadFile(w, f, taken, receipt) ==
    LET r == worker[w].rev IN
    /\ Sending(w)
    /\ f \in worker[w].todo
    /\ taken => delivery[r].state = "CLAIMED" /\ file[f] = "STORED"
    /\ uploaded' = IF taken THEN uploaded \cup {<<r, f>>} ELSE uploaded
    /\ IF taken /\ receipt
       THEN /\ delivery' = [delivery EXCEPT ![r].receipts = @ \cup {f}]
            /\ worker' = [worker EXCEPT ![w].todo = @ \ {f}]
       ELSE /\ Answer(w, "UNKNOWN", delivery[r].existing)
            /\ UNCHANGED delivery
    /\ UNCHANGED <<inbox, message, file, fetch, draft, posts>>

\* The report itself: a new issue, or a comment on the one it is linked to.
Post(w, taken, answered) ==
    LET r == worker[w].rev
        d == delivery[r]
        i == IF d.existing = None THEN r ELSE d.existing IN
    /\ Sending(w) /\ worker[w].todo = {}
    /\ answered # "nothing" => taken
    /\ posts' = IF taken THEN Append(posts, [rev |-> r, copy |-> d.copy, issue |-> i]) ELSE posts
    /\ Answer(w, IF answered = "success" THEN "SENT" ELSE "UNKNOWN",
              IF answered = "nothing" THEN d.existing ELSE i)
    /\ UNCHANGED <<inbox, message, file, delivery, fetch, draft, uploaded>>

UploadsComplete(r) == delivery[r].receipts = delivery[r].copy.files
MapsTo(i) == linear = None \/ linear = i

\* The outcome is written under the claim, also by a recovery that kept it.
Record(w) ==
    LET r == worker[w].rev  out == worker[w].outcome IN
    /\ worker[w] # None /\ out # None
    /\ worker' = [worker EXCEPT ![w] = None]
    /\ IF /\ delivery[r].state = "CLAIMED"
          /\ out.state = "SENT" => UploadsComplete(r) /\ MapsTo(out.issue) /\ state = "APPROVED" /\ rev = r
       THEN /\ delivery' = [delivery EXCEPT ![r].state = out.state, ![r].issue = out.issue]
            /\ IF out.state = "SENT"
               THEN Touch("LINKED", None) /\ linear' = out.issue
               ELSE UNCHANGED <<rev, state, approval, linear>>
       ELSE UNCHANGED <<delivery, rev, state, approval, linear>>
    /\ UNCHANGED <<inbox, source, file, fetch, draft, uploaded, posts>>

Die(w) ==
    /\ worker[w] # None
    /\ worker' = [worker EXCEPT ![w] = None]
    /\ UNCHANGED <<inbox, message, file, delivery, fetch, draft, uploaded, posts>>

-----------------------------------------------------------------------------
(* Reconciliation.  The operator has verified what each command attests.   *)

Terminated(r) == \A w \in Workers : ~(Sending(w) /\ worker[w].rev = r)
PostsOf(r) == {i \in DOMAIN posts : posts[i].rev = r}

MarkInterrupted(r) ==
    /\ r \in In({"CLAIMED"}) /\ Terminated(r)
    /\ Set(r, "UNKNOWN")
    /\ UNCHANGED <<inbox, message, file, worker, fetch, draft, uploaded, posts>>

RecoverReceipt(r, f) ==
    /\ r \in In({"UNKNOWN"}) /\ Terminated(r)
    /\ f \in delivery[r].copy.files \ delivery[r].receipts
    /\ <<r, f>> \in uploaded
    /\ delivery' = [delivery EXCEPT ![r].receipts = @ \cup {f}]
    /\ UNCHANGED <<inbox, message, file, worker, fetch, draft, uploaded, posts>>

\* Mutant: a confirmed delivery links the report whatever it says by now.
AfterConfirmLinks(r) == "LINKED"

AfterConfirm(r) ==
    IF state = "APPROVED" THEN IF rev = r THEN "LINKED" ELSE "REVIEW" ELSE state

SentFits(r, i) ==
    /\ ~DeliveryInFlight
    /\ MapsTo(i) /\ (delivery[r].issue = None \/ delivery[r].issue = i)
    /\ UploadsComplete(r)

ConfirmSent(r) ==
    /\ r \in In({"UNKNOWN"}) /\ Terminated(r)
    /\ \E n \in PostsOf(r) :
        /\ SentFits(r, posts[n].issue)
        /\ delivery' = [delivery EXCEPT ![r].state = "SENT", ![r].issue = posts[n].issue]
        /\ linear' = posts[n].issue
    /\ Touch(AfterConfirm(r), None)
    /\ UNCHANGED <<inbox, source, file, worker, fetch, draft, uploaded, posts>>

\* Mutant: any known issue contradicts that nothing was sent.
NotSentFitsUnmapped(r) == ~DeliveryInFlight /\ delivery[r].issue = None

NotSentFits(r) ==
    /\ ~DeliveryInFlight
    /\ delivery[r].issue = None \/ delivery[r].issue = delivery[r].existing

ConfirmNotSent(r) ==
    /\ r \in In({"UNKNOWN"}) /\ Terminated(r)
    /\ PostsOf(r) = {}
    /\ NotSentFits(r)
    /\ Set(r, "CANCELLED")
    /\ Touch("REVIEW", None)
    /\ UNCHANGED <<inbox, source, linear, file, worker, fetch, draft, uploaded, posts>>

Next ==
    \/ \E u \in Updates :
           \/ \E p \in Arrives[u] : Persist(u, p)
           \/ Process(u) \/ KeepCurrent(u) \/ RetryNormalization(u)
    \/ \E f \in Files : BeginFetch(f) \/ RetryFile(f) \/ ExcludeFile(f)
    \/ \E result \in {"STORED", "FAILED"} : EndFetch(result)
    \/ AbandonFetch \/ Look \/ Approve \/ Dismiss \/ Reopen(file) \/ Enqueue
    \/ \E w \in Workers :
           \/ \E r \in Revs : Claim(w, r)
           \/ \E f \in Files, taken, receipt \in BOOLEAN : UploadFile(w, f, taken, receipt)
           \/ \E taken \in BOOLEAN, answered \in {"success", "issue", "nothing"} : Post(w, taken, answered)
           \/ Record(w) \/ Die(w)
    \/ \E r \in Revs :
           \/ MarkInterrupted(r) \/ ConfirmSent(r) \/ ConfirmNotSent(r)
           \/ \E f \in Files : RecoverReceipt(r, f)

Spec == Init /\ [][Next]_vars

-----------------------------------------------------------------------------
(* Properties.                                                             *)

\* The report shows the newest text of every update that was processed: an
\* edit that arrives out of order, twice, or while the report is sent is
\* neither lost nor undone (ingestBugSourceInTransaction, DEFERRED_SENDING).
NewestSourceWins ==
    \A u \in Updates :
        inbox[u] # None /\ inbox[u].state = "PROCESSED" =>
            /\ source # None
            /\ SourceRev[inbox[u].payload] <= SourceRev[source]
            /\ SourceRev[inbox[u].payload] = SourceRev[source] => inbox[u].payload = source

\* A report called LINKED has been delivered as it now reads: a confirmation
\* of an old revision does not pass for a delivery of the edited report.
LinkedIsDelivered ==
    state = "LINKED" =>
        \E i \in DOMAIN posts : posts[i].copy.of = source /\ posts[i].issue = linear

\* A delivery whose outcome is unknown never gets stuck: once its files are
\* accounted for, one of the two confirmations, the true one, is accepted.
UnknownCanBeResolved ==
    \A r \in In({"UNKNOWN"}) :
        /\ Terminated(r)
        /\ PostsOf(r) = {} => NotSentFits(r)
        /\ \A i \in PostsOf(r) : SentFits(r, posts[i].issue)

Tracker == INSTANCE ConsentedPosts WITH
    text      <- source,
    consent   <- IF state = "APPROVED" THEN approval ELSE None,
    confirmed <- In({"SENT"})

\* The tracker is told only what an operator approved, while the approval
\* stands, once per approval and in one issue, and a delivery is called sent
\* only if it was: whatever is edited, lost, retried or confirmed between.
KeepsConsent == Tracker!Spec

-----------------------------------------------------------------------------
(* The strengthening the proofs rest on.                                   *)

\* An approval and a form are of the text they were made for.
ReportAgrees ==
    /\ source = None => state = "REVIEW" /\ draft = None /\ \A r \in Revs : delivery[r] = None
    /\ state = "APPROVED" => approval # None /\ approval.rev = rev /\ approval.copy.of = source
    /\ draft # None => draft.rev <= rev /\ (draft.rev = rev => draft.copy.of = source)

\* One delivery at most is open, and a claim stands under the approval it was
\* made from.
DeliveriesAgree ==
    /\ \A r \in Revs : delivery[r] # None =>
           r <= rev /\ delivery[r].receipts \subseteq delivery[r].copy.files
    /\ \A r, q \in In({"CLAIMED", "UNKNOWN"}) : r = q
    /\ \A r \in In({"CLAIMED"}) :
           state = "APPROVED" /\ rev = r /\ delivery[r].existing = linear
    /\ state = "APPROVED" /\ delivery[rev] # None => delivery[rev].copy = approval.copy

\* An attempt that may still send holds a claim nobody has posted under; one
\* that has an answer says what the tracker did.
AttemptAgrees(w) ==
    LET r == worker[w].rev  out == worker[w].outcome IN
    /\ r \notin In({"QUEUED"}) /\ delivery[r] # None
    /\ out = None => /\ delivery[r].state = "CLAIMED"
                     /\ worker[w].todo \subseteq delivery[r].copy.files
                     /\ delivery[r].copy.files \subseteq delivery[r].receipts \cup worker[w].todo
                     /\ PostsOf(r) = {}
    /\ out # None => /\ out.state = "SENT" => \E i \in PostsOf(r) : out.issue = posts[i].issue
                     /\ \/ out.issue = delivery[r].existing
                        \/ \E i \in PostsOf(r) : out.issue = posts[i].issue

AttemptsAgree ==
    /\ \A w \in Workers : worker[w] # None => AttemptAgrees(w)
    /\ \A v, w \in Workers :
           worker[v] # None /\ worker[w] # None /\ worker[v].rev = worker[w].rev => v = w

\* Every post is of a delivery that was claimed, and all are in one issue, to
\* which the report is linked as soon as no delivery is open.
PostsAgree ==
    /\ \A i \in DOMAIN posts :
           LET r == posts[i].rev IN
           /\ r \in In({"CLAIMED", "UNKNOWN", "SENT"})
           /\ posts[i].copy = delivery[r].copy
           /\ delivery[r].receipts = delivery[r].copy.files
           /\ posts[i].issue = posts[1].issue
    /\ linear # None => posts # <<>> /\ linear = posts[1].issue
    /\ posts # <<>> /\ linear = None =>
           \E i \in DOMAIN posts : posts[i].rev \in In({"CLAIMED", "UNKNOWN"})
    /\ \A r \in Revs : delivery[r] # None =>
           /\ delivery[r].existing # None => posts # <<>> /\ delivery[r].existing = posts[1].issue
           /\ \/ delivery[r].issue \in {None, delivery[r].existing}
              \/ \E i \in PostsOf(r) : delivery[r].issue = posts[i].issue

IInv ==
    /\ TypeOK /\ ReportAgrees /\ DeliveriesAgree /\ AttemptsAgree /\ PostsAgree
    /\ NewestSourceWins /\ LinkedIsDelivered
=============================================================================
