---------------------------- MODULE AccountMail ----------------------------
(***************************************************************************)
(* Account e-mail: one-time action tokens (verify e-mail, reset password), *)
(* the encrypted outbox row enqueued with each of them, and the workers    *)
(* that drain the outbox with leases.                                      *)
(*                                                                         *)
(*   apps/server/src/account-mail-outbox.ts   enqueue, cancel, drain       *)
(*   apps/server/src/account-auth-routes.ts   the routes that use them     *)
(*   apps/server/src/account-mail-runtime.ts  who calls the drain          *)
(*                                                                         *)
(* Every user operation is one transaction serialised by the row lock on   *)
(* the user, so it is one action.  The claim of a drain pass is one        *)
(* transaction too; everything a pass does after it runs outside any       *)
(* transaction, statement by statement, so each statement is an action and *)
(* other workers, user operations and the clock interleave between them.   *)
(* A token and its outbox row have the same expiry instant, written by the *)
(* same insert, and are one id here.                                       *)
(***************************************************************************)
EXTENDS Integers, FiniteSets

CONSTANTS
    Users,        \* rows of users
    Ids,          \* (token, outbox row) pairs that may ever be created
    Workers,      \* drain passes that may overlap: processes, restarts
    MaxAttempts,  \* options.maxAttempts
    Batch,        \* effective batch size of a claim
    ForeignKey    \* ids sealed under a key the running keyring lacks

ASSUME MaxAttemptsAssumption == MaxAttempts \in Nat \ {0}
ASSUME BatchAssumption == Batch \in Nat \ {0}
ASSUME ForeignKeyAssumption == ForeignKey \subseteq Ids

VARIABLES
    user,       \* users: registered, verifiedAt, disabledAt
    token,      \* account_action_tokens, by id
    row,        \* account_mail_outbox, by id
    expired,    \* ids whose expiresAt has passed
    work,       \* per worker: where its drain pass is
    leases,     \* leases issued for an id: the source of fresh lease tokens
    sends,      \* history: the leases under which an id was given to the transport
    delivered   \* history: ids the provider really took

vars == <<user, token, row, expired, work, leases, sends, delivered>>

Purposes == {"VERIFY_EMAIL", "RESET_PASSWORD"}
Open == {"PENDING", "LEASED"}
Terminal == {"ACCEPTED", "CANCELLED", "DEAD"}

NewUser == [registered |-> FALSE, verified |-> FALSE, disabled |-> FALSE]
VerifiedUser == [registered |-> TRUE, verified |-> TRUE, disabled |-> FALSE]
NoToken == [state |-> "NONE"]
NoRow == [status |-> "NONE", attempts |-> 0, due |-> FALSE, lease |-> 0,
          leaseLive |-> FALSE, sealed |-> FALSE]
Idle == [pc |-> "idle", todo |-> {}]

Tokens == [state : {"unused", "used"}, user : Users, purpose : Purposes]
Rows == [status : {"NONE"} \cup Open \cup Terminal, attempts : 0..MaxAttempts,
         due : BOOLEAN, lease : Nat, leaseLive : BOOLEAN, sealed : BOOLEAN]
(* What the claim returned of a row: the worker goes on using this copy.   *)
Claims == [id : Ids, lease : Nat, attempts : 1..MaxAttempts]
(* A pass between two statements: todo are the claims not yet begun, cur   *)
(* the one being worked on, ok what the revalidation read about it.        *)
Passes == [pc : {"idle", "next"}, todo : SUBSET Claims]
          \cup [pc : {"read", "cancel", "send", "ack", "fail"},
                cur : Claims, ok : BOOLEAN, todo : SUBSET Claims]

Init ==
    /\ user \in [Users -> {NewUser, VerifiedUser}]
    /\ token = [m \in Ids |-> NoToken]
    /\ row = [m \in Ids |-> NoRow]
    /\ expired = {}
    /\ work = [w \in Workers |-> Idle]
    /\ leases = [m \in Ids |-> 0]
    /\ sends = [m \in Ids |-> {}]
    /\ delivered = {}

----------------------------------------------------------------------------
(* Outbox rows                                                             *)

IsOpen(m) == row[m].status \in Open
Settle(r, status) ==
    [r EXCEPT !.status = status, !.lease = 0, !.leaseLive = FALSE, !.sealed = FALSE]
(* Mutant of CancelOpen: mails a worker holds are left alone.              *)
CancelPendingOnly(r) == IF r.status = "PENDING" THEN Settle(r, "CANCELLED") ELSE r
(* cancelActionMessages, and the same update inside enqueueAccountAction   *)
CancelOpen(r) == IF r.status \in Open THEN Settle(r, "CANCELLED") ELSE r

(* Mutant of UnusedOf: only tokens whose mail is still waiting.            *)
UnusedUnmailedOf(u, p) ==
    {m \in Ids : /\ IsOpen(m)
                 /\ token[m].state = "unused"
                 /\ token[m].user = u
                 /\ token[m].purpose = p}
UnusedOf(u, p) ==
    {m \in Ids : /\ token[m].state = "unused"
                 /\ token[m].user = u
                 /\ token[m].purpose = p}
UseTokens(S) == [m \in Ids |-> IF m \in S THEN [token[m] EXCEPT !.state = "used"] ELSE token[m]]

(* Why a message may not be sent: the token is dead or the user changed.   *)
Ineligible(m) ==
    LET u == user[token[m].user] IN
    \/ u.disabled
    \/ token[m].purpose = "VERIFY_EMAIL" /\ u.verified
    \/ token[m].purpose = "RESET_PASSWORD" /\ ~u.verified
DeadToken(m) == m \in expired \/ token[m].state = "used"

----------------------------------------------------------------------------
(* User operations                                                         *)

(* enqueueAccountAction: earlier unused tokens of the purpose are spent and *)
(* their open mails cancelled, then the new token and its mail are inserted.*)
EnqueueAccountAction(u, p, m) ==
    LET prior == UnusedOf(u, p) IN
    /\ token[m].state = "NONE"
    /\ token' = [UseTokens(prior) EXCEPT ![m] = [state |-> "unused", user |-> u, purpose |-> p]]
    /\ row' = [i \in Ids |->
                 IF i = m THEN [NoRow EXCEPT !.status = "PENDING", !.due = TRUE, !.sealed = TRUE]
                 ELSE IF i \in prior THEN CancelOpen(row[i]) ELSE row[i]]

Register(u, m) ==
    /\ ~user[u].registered
    /\ user' = [user EXCEPT ![u].registered = TRUE]
    /\ EnqueueAccountAction(u, "VERIFY_EMAIL", m)
    /\ UNCHANGED <<expired, work, leases, sends, delivered>>

(* Also the duplicate branch of registration.                              *)
RequestVerification(u, m) ==
    /\ user[u].registered /\ ~user[u].verified /\ ~user[u].disabled
    /\ EnqueueAccountAction(u, "VERIFY_EMAIL", m)
    /\ UNCHANGED <<user, expired, work, leases, sends, delivered>>

RequestReset(u, m) ==
    /\ user[u].verified /\ ~user[u].disabled
    /\ EnqueueAccountAction(u, "RESET_PASSWORD", m)
    /\ UNCHANGED <<user, expired, work, leases, sends, delivered>>

(* The bearer of a token is only in the mail: nobody can present it before *)
(* the provider has taken the message.                                     *)
Presentable(m, p) ==
    /\ m \in delivered \ expired
    /\ token[m].state = "unused"
    /\ token[m].purpose = p
    /\ ~user[token[m].user].disabled

ConfirmVerification(m) ==
    /\ Presentable(m, "VERIFY_EMAIL")
    /\ ~user[token[m].user].verified
    /\ token' = UseTokens({m})
    /\ user' = [user EXCEPT ![token[m].user].verified = TRUE]
    /\ row' = [row EXCEPT ![m] = CancelOpen(@)]
    /\ UNCHANGED <<expired, work, leases, sends, delivered>>

SpendAndCancel(S) ==
    /\ token' = UseTokens(S)
    /\ row' = [i \in Ids |-> IF i \in S THEN CancelOpen(row[i]) ELSE row[i]]

(* Every reset token of the user is spent and every reset mail cancelled.  *)
ConfirmReset(m) ==
    /\ Presentable(m, "RESET_PASSWORD")
    /\ SpendAndCancel({i \in Ids : /\ token[i].state # "NONE"
                                   /\ token[i].user = token[m].user
                                   /\ token[i].purpose = "RESET_PASSWORD"})
    /\ UNCHANGED <<user, expired, work, leases, sends, delivered>>

(* Signed in, so the account is verified.                                  *)
ChangePassword(u) ==
    /\ user[u].verified /\ ~user[u].disabled
    /\ SpendAndCancel(UnusedOf(u, "RESET_PASSWORD"))
    /\ UNCHANGED <<user, expired, work, leases, sends, delivered>>

(* users.disabled_at is only ever read by the code: an operator sets it.   *)
Disable(u) ==
    /\ user[u].registered
    /\ user' = [user EXCEPT ![u].disabled = TRUE]
    /\ UNCHANGED <<token, row, expired, work, leases, sends, delivered>>

----------------------------------------------------------------------------
(* The claim transaction of drainAccountMailOutboxOnce                     *)

Batches(S) ==
    {T \in SUBSET S : Cardinality(T) = IF Cardinality(S) < Batch THEN Cardinality(S) ELSE Batch}

Due(m) ==
    \/ row[m].status = "PENDING" /\ row[m].due
    \/ row[m].status = "LEASED" /\ ~row[m].leaseLive

StaleRows == {m \in Ids : IsOpen(m) /\ (DeadToken(m) \/ Ineligible(m))}
(* Mutant of SpentRows: a last attempt whose worker died is overlooked.    *)
SpentPendingRows ==
    {m \in Ids : row[m].status = "PENDING" /\ Due(m) /\ row[m].attempts >= MaxAttempts}
SpentRows == {m \in Ids : Due(m) /\ row[m].attempts >= MaxAttempts}
DueRows ==
    {m \in Ids \ ForeignKey :
        /\ IsOpen(m)
        /\ row[m].attempts < MaxAttempts
        /\ Due(m) \/ DeadToken(m) \/ user[token[m].user].disabled}

(* Mutant of Lease: only failures are counted as attempts, later.          *)
LeaseUncounted(m) ==
    [row[m] EXCEPT !.status = "LEASED", !.lease = leases[m] + 1, !.leaseLive = TRUE]
Lease(m) ==
    [row[m] EXCEPT !.status = "LEASED", !.lease = leases[m] + 1, !.leaseLive = TRUE,
                   !.attempts = @ + 1]

NextClaim(todo) == [pc |-> IF todo = {} THEN "idle" ELSE "next", todo |-> todo]

(* The updates of the claim, for what its three queries returned.          *)
ClaimRows(w, stale, spent, picked) ==
    LET leased == {m \in picked : ~DeadToken(m) /\ ~Ineligible(m)}
        dropped == stale \cup (picked \ leased)
    IN
    /\ row' = [m \in Ids |->
                 IF m \in leased THEN Lease(m)
                 ELSE IF m \in dropped THEN Settle(row[m], "CANCELLED")
                 ELSE IF m \in spent THEN Settle(row[m], "DEAD")
                 ELSE row[m]]
    /\ leases' = [m \in Ids |-> IF m \in leased THEN leases[m] + 1 ELSE leases[m]]
    /\ work' = [work EXCEPT ![w] =
          NextClaim({[id |-> m, lease |-> leases[m] + 1, attempts |-> row[m].attempts + 1]
                       : m \in leased})]

(* Each of the three queries is limited to the batch and locks what it     *)
(* returns; a later query sees the updates of the earlier ones.            *)
Claim(w) ==
    /\ work[w].pc = "idle"
    /\ \E stale \in Batches(StaleRows) :
       \E spent \in Batches(SpentRows \ stale) :
       \E picked \in Batches(DueRows \ (stale \cup spent)) :
          ClaimRows(w, stale, spent, picked)
    /\ UNCHANGED <<user, token, expired, sends, delivered>>

----------------------------------------------------------------------------
(* The loop over the claimed rows, one action per statement                *)

At(w, pc) == work[w].pc = pc
GoTo(w, pc) == work' = [work EXCEPT ![w].pc = pc]
Proceed(w) == work' = [work EXCEPT ![w] = NextClaim(@.todo)]

(* The failure updates: back to the queue, or dead after the last attempt; *)
(* the payload is written back from the copy the claim returned.           *)
(* Mutant of Retry: the last failure keeps the payload.                    *)
RetryKeepsPayload(r, c) ==
    [r EXCEPT !.status = IF c.attempts >= MaxAttempts THEN "DEAD" ELSE "PENDING",
              !.due = FALSE, !.lease = 0, !.leaseLive = FALSE, !.sealed = TRUE]
(* Mutant of Retry: the mail is given up one attempt too early.            *)
RetryTooEarly(r, c) ==
    IF c.attempts + 1 >= MaxAttempts THEN Settle(r, "DEAD")
    ELSE [r EXCEPT !.status = "PENDING", !.due = FALSE, !.lease = 0,
                   !.leaseLive = FALSE, !.sealed = TRUE]
Retry(r, c) ==
    IF c.attempts >= MaxAttempts THEN Settle(r, "DEAD")
    ELSE [r EXCEPT !.status = "PENDING", !.due = FALSE, !.lease = 0,
                   !.leaseLive = FALSE, !.sealed = TRUE]

HoldsToken(c) == row[c.id].lease = c.lease
HoldsLease(c) == row[c.id].status = "LEASED" /\ HoldsToken(c)

(* The envelope does not open: fenced by the lease token alone.            *)
DecryptFails(w) ==
    /\ At(w, "next")
    /\ \E c \in work[w].todo :
          /\ row' = IF HoldsToken(c) THEN [row EXCEPT ![c.id] = Retry(@, c)] ELSE row
          /\ work' = [work EXCEPT ![w] = NextClaim(@.todo \ {c})]
    /\ UNCHANGED <<user, token, expired, leases, sends, delivered>>

(* The envelope opens and the token and its user are read again.           *)
Revalidate(w) ==
    /\ At(w, "next")
    /\ \E c \in work[w].todo :
          work' = [work EXCEPT ![w] =
                     [pc |-> "read", cur |-> c, todo |-> @.todo \ {c},
                      ok |-> ~DeadToken(c.id) /\ ~Ineligible(c.id)]]
    /\ UNCHANGED <<user, token, row, expired, leases, sends, delivered>>

(* stillOwned: a claim that expired or was taken over is dropped.          *)
CheckOwned(w) ==
    /\ At(w, "read")
    /\ LET c == work[w].cur IN
       IF HoldsLease(c) /\ row[c.id].leaseLive
       THEN GoTo(w, IF work[w].ok THEN "send" ELSE "cancel")
       ELSE Proceed(w)
    /\ UNCHANGED <<user, token, row, expired, leases, sends, delivered>>

CancelIneligible(w) ==
    /\ At(w, "cancel")
    /\ LET c == work[w].cur IN
       row' = IF HoldsToken(c) THEN [row EXCEPT ![c.id] = Settle(@, "CANCELLED")] ELSE row
    /\ Proceed(w)
    /\ UNCHANGED <<user, token, expired, leases, sends, delivered>>

(* The transport may take the message and still report a failure: a time-  *)
(* out, an abort by stop(), a connection lost after the hand-over.         *)
Dispatch(w) ==
    /\ At(w, "send")
    /\ LET c == work[w].cur IN
       /\ sends' = [sends EXCEPT ![c.id] = @ \cup {c.lease}]
       /\ \/ delivered' = delivered \cup {c.id} /\ GoTo(w, "ack")
          \/ delivered' \in {delivered, delivered \cup {c.id}} /\ GoTo(w, "fail")
    /\ UNCHANGED <<user, token, row, expired, leases>>

(* Mutant of TransportUnavailable: the missing transport is not noticed.   *)
TransportIgnored(w) ==
    /\ At(w, "send")
    /\ GoTo(w, "ack")
    /\ UNCHANGED <<user, token, row, expired, leases, sends, delivered>>

(* The adapter is not ready: it throws before anything is sent.            *)
TransportUnavailable(w) ==
    /\ At(w, "send")
    /\ GoTo(w, "fail")
    /\ UNCHANGED <<user, token, row, expired, leases, sends, delivered>>

Acknowledge(w) ==
    /\ At(w, "ack")
    /\ LET c == work[w].cur IN
       row' = IF HoldsLease(c) THEN [row EXCEPT ![c.id] = Settle(@, "ACCEPTED")] ELSE row
    /\ Proceed(w)
    /\ UNCHANGED <<user, token, expired, leases, sends, delivered>>

RecordFailure(w) ==
    /\ At(w, "fail")
    /\ LET c == work[w].cur IN
       row' = IF HoldsLease(c) THEN [row EXCEPT ![c.id] = Retry(@, c)] ELSE row
    /\ Proceed(w)
    /\ UNCHANGED <<user, token, expired, leases, sends, delivered>>

(* Mutant of Abandon: the next pass starts with the claims of the last one.*)
AbandonKeepsClaims(w) ==
    /\ ~At(w, "idle")
    /\ GoTo(w, "idle")
    /\ UNCHANGED <<user, token, row, expired, leases, sends, delivered>>

(* The process dies, or a statement of the pass throws: the other claims   *)
(* of the pass are forgotten and their leases left to run out.             *)
Abandon(w) ==
    /\ ~At(w, "idle")
    /\ work' = [work EXCEPT ![w] = Idle]
    /\ UNCHANGED <<user, token, row, expired, leases, sends, delivered>>

----------------------------------------------------------------------------
(* The clock                                                               *)

TokenExpires(m) ==
    /\ token[m].state # "NONE"
    /\ expired' = expired \cup {m}
    /\ UNCHANGED <<user, token, row, work, leases, sends, delivered>>

LeaseExpires(m) ==
    /\ row[m].leaseLive
    /\ row' = [row EXCEPT ![m].leaseLive = FALSE]
    /\ UNCHANGED <<user, token, expired, work, leases, sends, delivered>>

RetryTimeComes(m) ==
    /\ row[m].status = "PENDING" /\ ~row[m].due
    /\ row' = [row EXCEPT ![m].due = TRUE]
    /\ UNCHANGED <<user, token, expired, work, leases, sends, delivered>>

----------------------------------------------------------------------------

UserStep ==
    \/ \E u \in Users :
          \/ ChangePassword(u) \/ Disable(u)
          \/ \E m \in Ids : Register(u, m) \/ RequestVerification(u, m) \/ RequestReset(u, m)
    \/ \E m \in Ids : ConfirmVerification(m) \/ ConfirmReset(m)

(* What a pass does on its own, in the order of the code.                  *)
PassStep(w) ==
    \/ DecryptFails(w) \/ Revalidate(w) \/ CheckOwned(w) \/ CancelIneligible(w)
    \/ Dispatch(w) \/ TransportUnavailable(w) \/ Acknowledge(w) \/ RecordFailure(w)

Tick(m) == TokenExpires(m) \/ LeaseExpires(m) \/ RetryTimeComes(m)

Next ==
    \/ UserStep
    \/ \E w \in Workers : Claim(w) \/ PassStep(w) \/ Abandon(w)
    \/ \E m \in Ids : Tick(m)

Spec == Init /\ [][Next]_vars

(* The runtime polls for ever and awaits every statement of a pass; leases *)
(* and retry delays are finite.  Nothing forces a token to expire soon.    *)
Fairness ==
    /\ \A w \in Workers : WF_vars(Claim(w)) /\ WF_vars(PassStep(w))
    /\ \A m \in Ids : WF_vars(LeaseExpires(m)) /\ WF_vars(RetryTimeComes(m))

FairSpec == Spec /\ Fairness

----------------------------------------------------------------------------
(* Properties                                                              *)

TypeOK ==
    /\ user \in [Users -> [registered : BOOLEAN, verified : BOOLEAN, disabled : BOOLEAN]]
    /\ token \in [Ids -> {NoToken} \cup Tokens]
    /\ row \in [Ids -> Rows]
    /\ expired \subseteq Ids
    /\ work \in [Workers -> Passes]
    /\ leases \in [Ids -> Nat]
    /\ sends \in [Ids -> SUBSET Nat]
    /\ delivered \subseteq Ids

(* A user never has two usable credentials for the same purpose: asking    *)
(* again supersedes the earlier one, whatever its mail is doing.           *)
OneLiveCredential ==
    \A m, n \in Ids :
        /\ token[m].state = "unused" /\ token[n].state = "unused"
        /\ token[m].user = token[n].user /\ token[m].purpose = token[n].purpose
        => m = n

(* Only a credential that can still be used is waiting to be mailed: every *)
(* operation that spends a token settles its mail in the same transaction, *)
(* also while a worker holds the row.                                      *)
OpenMailCarriesUnusedToken == \A m \in Ids : IsOpen(m) => token[m].state = "unused"

(* The sealed payload, which holds the bearer of the token, is kept exactly*)
(* as long as the mail is open, although failed passes write it back: no   *)
(* update runs into account_mail_outbox_payload_check.                     *)
SealedWhileOpen == \A m \in Ids : row[m].sealed <=> IsOpen(m)

(* Claims that have not reached the transport yet.                         *)
Undispatched(w) ==
    work[w].todo \cup (IF work[w].pc \in {"read", "cancel", "send"} THEN {work[w].cur} ELSE {})

(* "Bounded at-least-once": one dispatch per lease and at most MaxAttempts *)
(* leases, so a message is handed to the transport MaxAttempts times at    *)
(* most, also across crashes, take-overs and retries.                      *)
BoundedDispatch ==
    /\ \A m \in Ids : sends[m] \subseteq 1..MaxAttempts
    /\ \A w \in Workers : \A c \in Undispatched(w) : c.lease \notin sends[c.id]

(* The inductive invariant behind the safety properties: outbox row, token,*)
(* lease counter and the copies the workers hold agree.                    *)
ClaimsOf(w) ==
    work[w].todo \cup (IF work[w].pc \in {"idle", "next"} THEN {} ELSE {work[w].cur})

RowsAgree ==
    \A m \in Ids :
        /\ row[m].status = "NONE" <=> token[m].state = "NONE"
        /\ row[m].status = "NONE" => row[m] = NoRow
        /\ row[m].attempts = leases[m]
        /\ row[m].status # "LEASED" => row[m].lease = 0 /\ ~row[m].leaseLive
        /\ sends[m] \subseteq 1..leases[m]

ClaimsAgree ==
    \A w \in Workers :
        /\ \A c \in ClaimsOf(w) : /\ c.lease \in 1..leases[c.id]
                                  /\ c.lease = c.attempts
                                  /\ token[c.id].state # "NONE"
        /\ work[w].pc \notin {"idle", "next"} => work[w].cur \notin work[w].todo
        /\ work[w].pc = "ack" => work[w].cur.id \in delivered

OneHolder ==
    \A v, w \in Workers : \A c \in ClaimsOf(v), d \in ClaimsOf(w) :
        c.id = d.id /\ c.lease = d.lease => v = w /\ c = d

(* A mail reported accepted was taken by the provider.                     *)
AcceptedWasDelivered == \A m \in Ids : row[m].status = "ACCEPTED" => m \in delivered

(* A settled mail is never touched again: no stale worker reopens or       *)
(* relabels a mail that a user operation or another worker has settled.    *)
SettledIsFinal ==
    [][\A m \in Ids : row[m].status \in Terminal => row'[m] = row[m]]_vars

IInv ==
    /\ TypeOK /\ RowsAgree /\ ClaimsAgree /\ OneHolder
    /\ OneLiveCredential /\ OpenMailCarriesUnusedToken /\ SealedWhileOpen
    /\ BoundedDispatch /\ AcceptedWasDelivered

(* The outbox keeps its promise (MailDelivery): every attempt is a lease    *)
(* and hands the mail over once at most, a verdict is final, ACCEPTED means *)
(* taken by the provider and DEAD that MaxAttempts attempts were made,      *)
(* whatever the workers, the users, the transport and the clock do.         *)
Status(m) == IF IsOpen(m) THEN "OPEN" ELSE row[m].status

Delivery == INSTANCE MailDelivery WITH
    Mails <- Ids, status <- [m \in Ids |-> Status(m)],
    started <- leases, handed <- sends, taken <- delivered

KeepsPromise == Delivery!Spec

(* Every mail the running keyring can open is settled in the end, whatever *)
(* fails: accepted, cancelled, or dead after its last attempt.  A mail     *)
(* sealed under another key keeps its ciphertext until it expires.         *)
EveryMailSettles ==
    \A m \in Ids :
        (IsOpen(m) /\ (m \in ForeignKey => m \in expired)) ~> row[m].status \in Terminal

=============================================================================
