------------------------- MODULE AccountMailProofs -------------------------
(***************************************************************************)
(* The safety properties of AccountMail for any number of users, mails,    *)
(* workers and attempts.  The strengthening is IInv of AccountMail: the    *)
(* copies of a row the workers hold (ClaimsAgree, OneHolder) are bounded   *)
(* by the lease counter, and a row that is not leased has no lease token   *)
(* for a stale worker to match.                                            *)
(***************************************************************************)
EXTENDS AccountMail, TLAPS

UserRecords == [registered : BOOLEAN, verified : BOOLEAN, disabled : BOOLEAN]

----------------------------------------------------------------------------
(* What the row updates do, field by field                                 *)

LEMMA SettleFields ==
    ASSUME NEW r \in Rows, NEW status \in Terminal
    PROVE  /\ Settle(r, status) \in Rows
           /\ Settle(r, status).status = status
           /\ Settle(r, status).attempts = r.attempts
           /\ Settle(r, status).lease = 0
           /\ Settle(r, status).leaseLive = FALSE
           /\ Settle(r, status).sealed = FALSE
BY DEF Settle, Rows, Terminal, Open

(* s is the row r after its open mail has been cancelled.                  *)
Cancelled(r, s) ==
    /\ s.status = "CANCELLED" /\ s.attempts = r.attempts
    /\ s.lease = 0 /\ s.leaseLive = FALSE /\ s.sealed = FALSE

LEMMA CancelOpenFields ==
    ASSUME NEW r \in Rows
    PROVE  /\ CancelOpen(r) \in Rows
           /\ r.status \in Open => Cancelled(r, CancelOpen(r))
           /\ r.status \notin Open => CancelOpen(r) = r
BY SettleFields DEF CancelOpen, Cancelled, Terminal

LEMMA RetryFields ==
    ASSUME NEW r \in Rows, NEW c \in Claims
    PROVE  /\ Retry(r, c) \in Rows
           /\ Retry(r, c).status \in {"DEAD", "PENDING"}
           /\ Retry(r, c).attempts = r.attempts
           /\ Retry(r, c).lease = 0
           /\ Retry(r, c).leaseLive = FALSE
           /\ Retry(r, c).sealed <=> Retry(r, c).status = "PENDING"
<1>1. CASE c.attempts >= MaxAttempts
  BY <1>1, SettleFields DEF Retry, Terminal
<1>2. CASE ~(c.attempts >= MaxAttempts)
  BY <1>2 DEF Retry, Rows, Open, Terminal
<1> QED
  BY <1>1, <1>2

LEMMA LeaseFields ==
    ASSUME NEW m, row[m] \in Rows, leases[m] \in Nat, row[m].attempts + 1 \in 0..MaxAttempts
    PROVE  /\ Lease(m) \in Rows
           /\ Lease(m).status = "LEASED"
           /\ Lease(m).lease = leases[m] + 1
           /\ Lease(m).attempts = row[m].attempts + 1
           /\ Lease(m).sealed = row[m].sealed
<1>1. leases[m] + 1 \in Nat
  OBVIOUS
<1> QED
  BY <1>1 DEF Lease, Rows, Open

(* Spending tokens that exist changes their state and nothing else.        *)
LEMMA UseTokensFields ==
    ASSUME token \in [Ids -> {NoToken} \cup Tokens],
           NEW S \in SUBSET {m \in Ids : token[m].state # "NONE"}
    PROVE  /\ UseTokens(S) \in [Ids -> {NoToken} \cup Tokens]
           /\ \A i \in Ids :
                /\ i \notin S => UseTokens(S)[i] = token[i]
                /\ i \in S => /\ UseTokens(S)[i].state = "used"
                              /\ UseTokens(S)[i].user = token[i].user
                              /\ UseTokens(S)[i].purpose = token[i].purpose
                /\ UseTokens(S)[i].state = "NONE" <=> token[i].state = "NONE"
<1>1. \A j \in S : token[j] \in Tokens
  BY DEF NoToken
<1>2. \A j \in S : /\ [token[j] EXCEPT !.state = "used"] \in Tokens
                   /\ [token[j] EXCEPT !.state = "used"].state = "used"
                   /\ [token[j] EXCEPT !.state = "used"].user = token[j].user
                   /\ [token[j] EXCEPT !.state = "used"].purpose = token[j].purpose
  BY <1>1 DEF Tokens
<1> QED
  BY <1>2 DEF UseTokens

----------------------------------------------------------------------------
(* User operations                                                         *)

(* ConfirmVerification, ConfirmReset and ChangePassword all spend a set of *)
(* tokens and cancel the open mail of exactly these.                       *)
LEMMA SpendKeepsIInv ==
    ASSUME IInv,
           NEW S \in SUBSET {m \in Ids : token[m].state # "NONE"},
           SpendAndCancel(S),
           user' \in [Users -> UserRecords],
           UNCHANGED <<expired, work, leases, sends, delivered>>
    PROVE  IInv'
<1>1. /\ token' \in [Ids -> {NoToken} \cup Tokens]
      /\ \A i \in Ids : /\ i \notin S => token'[i] = token[i]
                        /\ i \in S => /\ token'[i].state = "used"
                                      /\ token'[i].user = token[i].user
                                      /\ token'[i].purpose = token[i].purpose
                        /\ token'[i].state = "NONE" <=> token[i].state = "NONE"
  BY UseTokensFields DEF SpendAndCancel, IInv, TypeOK
<1>2. /\ row' \in [Ids -> Rows]
      /\ \A i \in Ids :
            \/ ~(i \in S /\ IsOpen(i)) /\ row'[i] = row[i]
            \/ i \in S /\ IsOpen(i) /\ Cancelled(row[i], row'[i])
  BY CancelOpenFields DEF SpendAndCancel, IInv, TypeOK, IsOpen, Cancelled
<1>3. TypeOK'
  <2>1. user' \in [Users -> [registered : BOOLEAN, verified : BOOLEAN, disabled : BOOLEAN]]
    BY DEF UserRecords
  <2> QED
    BY <1>1, <1>2, <2>1 DEF IInv, TypeOK
<1>4. RowsAgree'
  BY <1>1, <1>2 DEF IInv, RowsAgree, Cancelled
<1>5. ClaimsAgree'
  <2>1. \A w \in Workers : \A c \in ClaimsOf(w) : c.id \in Ids
    BY DEF IInv, TypeOK, Passes, Claims, ClaimsOf
  <2> QED
    BY <2>1, <1>1 DEF IInv, ClaimsAgree, ClaimsOf
<1>6. OneHolder'
  BY DEF IInv, OneHolder, ClaimsOf
<1>7. OneLiveCredential'
  BY <1>1 DEF IInv, OneLiveCredential
<1>8. OpenMailCarriesUnusedToken'
  BY <1>1, <1>2 DEF IInv, OpenMailCarriesUnusedToken, IsOpen, Open, Cancelled
<1>9. SealedWhileOpen'
  BY <1>2 DEF IInv, SealedWhileOpen, IsOpen, Open, Cancelled
<1>10. BoundedDispatch'
  BY DEF IInv, BoundedDispatch, Undispatched
<1>11. AcceptedWasDelivered'
  BY <1>2 DEF IInv, AcceptedWasDelivered, Cancelled
<1> QED
  BY <1>3, <1>4, <1>5, <1>6, <1>7, <1>8, <1>9, <1>10, <1>11 DEF IInv

(* Enqueueing supersedes the unused token of the purpose, so the new one is*)
(* the only one.                                                           *)
LEMMA EnqueueKeepsIInv ==
    ASSUME IInv, NEW u \in Users, NEW p \in Purposes, NEW m \in Ids,
           EnqueueAccountAction(u, p, m),
           user' \in [Users -> UserRecords],
           UNCHANGED <<expired, work, leases, sends, delivered>>
    PROVE  IInv'
<1> DEFINE prior == UnusedOf(u, p)
           fresh == [state |-> "unused", user |-> u, purpose |-> p]
           mail == [NoRow EXCEPT !.status = "PENDING", !.due = TRUE, !.sealed = TRUE]
<1>1. /\ prior \in SUBSET {i \in Ids : token[i].state # "NONE"}
      /\ m \notin prior
      /\ row[m] = NoRow /\ token[m].state = "NONE"
  <2>1. token[m].state = "NONE"
    BY DEF EnqueueAccountAction
  <2>2. row[m] = NoRow
    BY <2>1 DEF IInv, RowsAgree
  <2> QED
    BY <2>1, <2>2 DEF UnusedOf
<1>2. /\ token' \in [Ids -> {NoToken} \cup Tokens]
      /\ token'[m] = fresh
      /\ \A i \in Ids \ {m} :
            /\ i \notin prior => token'[i] = token[i]
            /\ i \in prior => token'[i].state = "used"
            /\ token'[i].state = "NONE" <=> token[i].state = "NONE"
  <2>1. fresh \in Tokens
    BY DEF Tokens
  <2>2. /\ UseTokens(prior) \in [Ids -> {NoToken} \cup Tokens]
        /\ \A i \in Ids :
              /\ i \notin prior => UseTokens(prior)[i] = token[i]
              /\ i \in prior => UseTokens(prior)[i].state = "used"
              /\ UseTokens(prior)[i].state = "NONE" <=> token[i].state = "NONE"
    BY <1>1, UseTokensFields DEF IInv, TypeOK
  <2>3. token' = [UseTokens(prior) EXCEPT ![m] = fresh]
    BY DEF EnqueueAccountAction
  <2> HIDE DEF prior, fresh
  <2> QED
    BY <2>1, <2>2, <2>3
<1>3. /\ mail \in Rows /\ mail.status = "PENDING" /\ mail.attempts = 0
      /\ mail.lease = 0 /\ mail.leaseLive = FALSE /\ mail.sealed = TRUE
  <2>1. 0 \in 0..MaxAttempts
    BY MaxAttemptsAssumption
  <2>2. NoRow \in Rows /\ NoRow.attempts = 0 /\ NoRow.lease = 0 /\ NoRow.leaseLive = FALSE
    BY <2>1 DEF NoRow, Rows
  <2> QED
    BY <2>2 DEF Rows, Open
<1>4. /\ row' \in [Ids -> Rows]
      /\ row'[m] = mail
      /\ \A i \in Ids \ {m} :
            \/ ~(i \in prior /\ IsOpen(i)) /\ row'[i] = row[i]
            \/ i \in prior /\ IsOpen(i) /\ Cancelled(row[i], row'[i])
  <2>1. row' = [i \in Ids |-> IF i = m THEN mail
                              ELSE IF i \in prior THEN CancelOpen(row[i]) ELSE row[i]]
    BY DEF EnqueueAccountAction
  <2> HIDE DEF prior, mail
  <2> QED
    BY <1>3, <2>1, CancelOpenFields DEF IInv, TypeOK, IsOpen, Cancelled
<1> HIDE DEF prior, mail
<1>5. TypeOK'
  <2>1. user' \in [Users -> [registered : BOOLEAN, verified : BOOLEAN, disabled : BOOLEAN]]
    BY DEF UserRecords
  <2> QED
    BY <1>2, <1>4, <2>1 DEF IInv, TypeOK
<1>6. RowsAgree'
  BY <1>1, <1>2, <1>3, <1>4 DEF IInv, RowsAgree, Cancelled, NoRow
<1>7. ClaimsAgree'
  <2>1. \A w \in Workers : \A c \in ClaimsOf(w) : c.id \in Ids
    BY DEF IInv, TypeOK, Passes, Claims, ClaimsOf
  <2> QED
    BY <2>1, <1>1, <1>2 DEF IInv, ClaimsAgree, ClaimsOf
<1>8. OneHolder'
  BY DEF IInv, OneHolder, ClaimsOf
<1>9. OneLiveCredential'
  <2>1. \A i \in Ids \ {m} :
            token'[i].state = "unused" => token'[i] = token[i] /\ i \notin prior
    BY <1>2
  <2> QED
    BY <2>1, <1>2 DEF IInv, OneLiveCredential, UnusedOf, prior
<1>10. OpenMailCarriesUnusedToken'
  BY <1>2, <1>4 DEF IInv, OpenMailCarriesUnusedToken, IsOpen, Open, Cancelled
<1>11. SealedWhileOpen'
  BY <1>3, <1>4 DEF IInv, SealedWhileOpen, IsOpen, Open, Cancelled
<1>12. BoundedDispatch'
  BY DEF IInv, BoundedDispatch, Undispatched
<1>13. AcceptedWasDelivered'
  BY <1>3, <1>4 DEF IInv, AcceptedWasDelivered, Cancelled
<1> QED
  BY <1>5, <1>6, <1>7, <1>8, <1>9, <1>10, <1>11, <1>12, <1>13 DEF IInv

LEMMA UserStepKeepsIInv == IInv /\ UserStep => IInv'
<1> SUFFICES ASSUME IInv, UserStep PROVE IInv'
  OBVIOUS
<1>1. user \in [Users -> UserRecords]
  BY DEF IInv, TypeOK, UserRecords
<1>2. ASSUME NEW u \in Users, ChangePassword(u) PROVE IInv'
  BY <1>1, <1>2, SpendKeepsIInv DEF ChangePassword, UnusedOf
<1>3. ASSUME NEW u \in Users, Disable(u) PROVE IInv'
  <2>1. user' \in [Users -> UserRecords]
    BY <1>1, <1>3 DEF Disable, UserRecords
  <2> QED
    BY <1>3, <2>1 DEF Disable, IInv, TypeOK, RowsAgree, ClaimsAgree, ClaimsOf, OneHolder,
       OneLiveCredential, OpenMailCarriesUnusedToken, SealedWhileOpen, IsOpen,
       BoundedDispatch, Undispatched, AcceptedWasDelivered, UserRecords
<1>4. ASSUME NEW u \in Users, NEW m \in Ids, Register(u, m) PROVE IInv'
  <2>1. user' \in [Users -> UserRecords]
    BY <1>1, <1>4 DEF Register, UserRecords
  <2> QED
    BY <1>4, <2>1, EnqueueKeepsIInv DEF Register, Purposes
<1>5. ASSUME NEW u \in Users, NEW m \in Ids, RequestVerification(u, m) PROVE IInv'
  BY <1>1, <1>5, EnqueueKeepsIInv DEF RequestVerification, Purposes
<1>6. ASSUME NEW u \in Users, NEW m \in Ids, RequestReset(u, m) PROVE IInv'
  BY <1>1, <1>6, EnqueueKeepsIInv DEF RequestReset, Purposes
<1>7. ASSUME NEW m \in Ids, ConfirmVerification(m) PROVE IInv'
  <2>1. token[m].state # "NONE" /\ token[m].user \in Users
    BY <1>7 DEF ConfirmVerification, Presentable, IInv, TypeOK, NoToken, Tokens
  <2>2. user' \in [Users -> UserRecords]
    BY <1>1, <1>7, <2>1 DEF ConfirmVerification, UserRecords
  <2>3. row' = [i \in Ids |-> IF i \in {m} THEN CancelOpen(row[i]) ELSE row[i]]
    BY <1>7 DEF ConfirmVerification, IInv, TypeOK
  <2> QED
    BY <1>7, <2>1, <2>2, <2>3, SpendKeepsIInv DEF ConfirmVerification, SpendAndCancel
<1>8. ASSUME NEW m \in Ids, ConfirmReset(m) PROVE IInv'
  <2>1. {i \in Ids : /\ token[i].state # "NONE"
                     /\ token[i].user = token[m].user
                     /\ token[i].purpose = "RESET_PASSWORD"}
          \in SUBSET {i \in Ids : token[i].state # "NONE"}
    OBVIOUS
  <2> QED
    BY <1>1, <1>8, <2>1, SpendKeepsIInv DEF ConfirmReset
<1> QED
  BY <1>2, <1>3, <1>4, <1>5, <1>6, <1>7, <1>8 DEF UserStep

----------------------------------------------------------------------------
(* The claim                                                               *)

LEMMA ClaimKeepsIInv ==
    ASSUME IInv, NEW w \in Workers, work[w].pc = "idle",
           NEW stale \in SUBSET StaleRows, NEW spent \in SUBSET SpentRows,
           NEW picked \in SUBSET DueRows, ClaimRows(w, stale, spent, picked),
           UNCHANGED <<user, token, expired, sends, delivered>>
    PROVE  IInv'
<1> DEFINE leased == {m \in picked : ~DeadToken(m) /\ ~Ineligible(m)}
           gone == stale \cup spent \cup (picked \ leased)
           claim(m) == [id |-> m, lease |-> leases[m] + 1, attempts |-> row[m].attempts + 1]
<1>1. /\ leased \subseteq Ids /\ gone \subseteq Ids
      /\ \A m \in gone : IsOpen(m)
      /\ \A m \in leased : IsOpen(m) /\ row[m].attempts < MaxAttempts
  BY DEF StaleRows, SpentRows, DueRows, Due, IsOpen, Open
<1>2. /\ row' = [m \in Ids |-> IF m \in leased THEN Lease(m) ELSE row'[m]]
      /\ \A m \in Ids \ leased :
            \/ m \in gone /\ row'[m] \in {Settle(row[m], "CANCELLED"), Settle(row[m], "DEAD")}
            \/ m \notin gone /\ row'[m] = row[m]
  BY DEF ClaimRows
<1>3. /\ leases' \in [Ids -> Nat]
      /\ \A m \in Ids : leases'[m] = IF m \in leased THEN leases[m] + 1 ELSE leases[m]
  BY DEF ClaimRows, IInv, TypeOK
<1>4. work' = [work EXCEPT ![w] = NextClaim({claim(m) : m \in leased})]
  BY DEF ClaimRows
<1>5. UNCHANGED <<user, token, expired, sends, delivered>>
  OBVIOUS
<1> HIDE DEF leased, gone
<1>6. \A m \in Ids : /\ row[m] \in Rows /\ leases[m] \in Nat
                     /\ row[m].attempts = leases[m] /\ row[m].attempts \in 0..MaxAttempts
  BY DEF IInv, TypeOK, RowsAgree, Rows
<1>7. \A m \in leased :
        /\ row'[m] \in Rows /\ row'[m].status = "LEASED" /\ row'[m].lease = leases[m] + 1
        /\ row'[m].attempts = leases[m] + 1 /\ row'[m].sealed = row[m].sealed
  <2> TAKE m \in leased
  <2>1. row'[m] = Lease(m)
    BY <1>1, <1>2
  <2>2. row[m].attempts + 1 \in 0..MaxAttempts /\ leases[m] + 1 \in Nat
    BY <1>1, <1>6, MaxAttemptsAssumption
  <2> QED
    <3>1. m \in Ids /\ row[m] \in Rows /\ leases[m] \in Nat /\ row[m].attempts = leases[m]
      BY <1>1, <1>6
    <3>2. /\ Lease(m) \in Rows /\ Lease(m).status = "LEASED" /\ Lease(m).lease = leases[m] + 1
          /\ Lease(m).attempts = row[m].attempts + 1 /\ Lease(m).sealed = row[m].sealed
      BY <2>2, <3>1, LeaseFields
    <3> QED
      BY <2>1, <3>1, <3>2
<1>8. \A m \in Ids \ leased :
        \/ m \notin gone /\ row'[m] = row[m]
        \/ /\ m \in gone
           /\ row'[m] \in Rows /\ row'[m].status \in {"CANCELLED", "DEAD"}
           /\ row'[m].attempts = row[m].attempts /\ row'[m].lease = 0
           /\ row'[m].leaseLive = FALSE /\ row'[m].sealed = FALSE
  <2>1. \A m \in Ids, s \in {"CANCELLED", "DEAD"} :
           /\ Settle(row[m], s) \in Rows /\ Settle(row[m], s).status = s
           /\ Settle(row[m], s).attempts = row[m].attempts /\ Settle(row[m], s).lease = 0
           /\ Settle(row[m], s).leaseLive = FALSE /\ Settle(row[m], s).sealed = FALSE
    <3> TAKE m \in Ids, s \in {"CANCELLED", "DEAD"}
    <3>1. row[m] \in Rows /\ s \in Terminal
      BY <1>6 DEF Terminal
    <3> QED
      BY ONLY <3>1, SettleFields
  <2> QED
    BY <1>2, <2>1
<1>9. row' \in [Ids -> Rows]
  BY <1>2, <1>6, <1>7, <1>8
<1>10. \A m \in leased : /\ claim(m) \in Claims
                         /\ claim(m).id = m /\ claim(m).lease = leases[m] + 1
                         /\ claim(m).attempts = leases[m] + 1
  BY <1>1, <1>6, MaxAttemptsAssumption DEF Claims
<1>11. /\ work' \in [Workers -> Passes]
       /\ \A v \in Workers \ {w} : work'[v] = work[v]
       /\ work'[w].pc \in {"idle", "next"}
       /\ work'[w].todo = {claim(m) : m \in leased}
  <2>1. {claim(m) : m \in leased} \in SUBSET Claims
    BY <1>10
  <2> HIDE DEF claim
  <2>2. NextClaim({claim(m) : m \in leased}) \in Passes
    BY <2>1 DEF NextClaim, Passes
  <2> QED
    BY <1>4, <2>2 DEF IInv, TypeOK, NextClaim
<1>12. /\ \A v \in Workers \ {w} : ClaimsOf(v)' = ClaimsOf(v) /\ Undispatched(v)' = Undispatched(v)
       /\ ClaimsOf(w)' = {claim(m) : m \in leased}
       /\ Undispatched(w)' = {claim(m) : m \in leased}
  BY <1>11 DEF ClaimsOf, Undispatched
<1>13. \A v \in Workers : \A c \in ClaimsOf(v) : c.id \in Ids /\ c.lease \in Nat
  BY DEF IInv, TypeOK, Passes, Claims, ClaimsOf
<1> HIDE DEF claim
<1>14. TypeOK'
  BY <1>3, <1>5, <1>9, <1>11 DEF IInv, TypeOK
<1>15. RowsAgree'
  <2> SUFFICES ASSUME NEW m \in Ids
               PROVE  /\ row'[m].status = "NONE" <=> token'[m].state = "NONE"
                      /\ row'[m].status = "NONE" => row'[m] = NoRow
                      /\ row'[m].attempts = leases'[m]
                      /\ row'[m].status # "LEASED" => row'[m].lease = 0 /\ ~row'[m].leaseLive
                      /\ sends'[m] \subseteq 1..leases'[m]
    BY DEF RowsAgree
  <2>1. IsOpen(m) => token[m].state # "NONE"
    BY DEF IInv, RowsAgree, IsOpen, Open
  <2>2. sends[m] \subseteq 1..leases'[m]
    BY <1>3, <1>6 DEF IInv, RowsAgree
  <2> QED
    BY <2>1, <2>2, <1>1, <1>3, <1>5, <1>6, <1>7, <1>8 DEF IInv, RowsAgree
<1>16. ClaimsAgree'
  <2>1. \A v \in Workers \ {w} : \A c \in ClaimsOf(v) : c.lease \in 1..leases'[c.id]
    BY <1>3, <1>6, <1>13 DEF IInv, ClaimsAgree
  <2>2. \A m \in leased : token[m].state # "NONE"
    BY <1>1 DEF IInv, RowsAgree, IsOpen, Open
  <2>3. \A m \in leased : /\ claim(m).lease \in 1..leases'[claim(m).id]
                          /\ claim(m).lease = claim(m).attempts
                          /\ token[claim(m).id].state # "NONE"
    BY <2>2, <1>1, <1>3, <1>6, <1>10
  <2> QED
    BY <2>1, <2>3, <1>5, <1>11, <1>12 DEF IInv, ClaimsAgree
<1>17. OneHolder'
  <2>1. \A v \in Workers : \A c \in ClaimsOf(v) : c.lease <= leases[c.id]
    BY <1>6, <1>13 DEF IInv, ClaimsAgree
  <2>2. \A v \in Workers : \A c \in ClaimsOf(v) : \A m \in leased :
          ~(c.id = claim(m).id /\ c.lease = claim(m).lease)
    BY <2>1, <1>1, <1>6, <1>10, <1>13
  <2>3. \A m, n \in leased : claim(m).id = claim(n).id => m = n
    BY <1>10
  <2> QED
    BY <2>2, <2>3, <1>12 DEF IInv, OneHolder
<1>18. OneLiveCredential'
  BY <1>5 DEF IInv, OneLiveCredential
<1>19. OpenMailCarriesUnusedToken'
  BY <1>1, <1>5, <1>7, <1>8 DEF IInv, OpenMailCarriesUnusedToken, IsOpen, Open
<1>20. SealedWhileOpen'
  BY <1>1, <1>7, <1>8 DEF IInv, SealedWhileOpen, IsOpen, Open
<1>21. BoundedDispatch'
  <2>1. \A m \in leased : claim(m).lease \notin sends[claim(m).id]
    BY <1>1, <1>6, <1>10 DEF IInv, RowsAgree
  <2> QED
    BY <2>1, <1>5, <1>12 DEF IInv, BoundedDispatch
<1>22. AcceptedWasDelivered'
  BY <1>5, <1>7, <1>8 DEF IInv, AcceptedWasDelivered
<1> QED
  BY <1>14, <1>15, <1>16, <1>17, <1>18, <1>19, <1>20, <1>21, <1>22 DEF IInv

----------------------------------------------------------------------------
(* The statements of a pass                                                *)

(* s is the row r after a worker has given its lease up.                   *)
Released(r, s) ==
    /\ s \in Rows /\ s.status \in {"PENDING"} \cup Terminal
    /\ s.attempts = r.attempts /\ s.lease = 0 /\ s.leaseLive = FALSE
    /\ s.sealed <=> s.status = "PENDING"

(* Worker w moves on, dropping claims but never gaining one, and releases  *)
(* at most one row, a leased one.                                          *)
WorkerMoves(w) ==
    /\ work' \in [Workers -> Passes]
    /\ \A v \in Workers \ {w} : work'[v] = work[v]
    /\ ClaimsOf(w)' \subseteq ClaimsOf(w)
    /\ Undispatched(w)' \subseteq Undispatched(w)
    /\ work'[w].pc \notin {"idle", "next"} => work'[w].cur \notin work'[w].todo
    /\ work'[w].pc = "ack" => work'[w].cur.id \in delivered'

RowReleased ==
    \/ row' = row
    \/ \E m \in Ids : \E s \in Rows :
          /\ row[m].status = "LEASED" /\ row' = [row EXCEPT ![m] = s]
          /\ Released(row[m], s)
          /\ s.status = "ACCEPTED" => m \in delivered

LEMMA ReleaseFacts ==
    ASSUME IInv, RowReleased
    PROVE  /\ row' \in [Ids -> Rows]
           /\ \A m \in Ids : \/ row'[m] = row[m]
                            \/ /\ row[m].status = "LEASED" /\ Released(row[m], row'[m])
                               /\ row'[m].status = "ACCEPTED" => m \in delivered
BY DEF RowReleased, IInv, TypeOK

LEMMA WorkerMovesKeepsIInv ==
    ASSUME IInv, NEW w \in Workers, WorkerMoves(w), RowReleased,
           delivered' \in SUBSET Ids, delivered \subseteq delivered',
           sends' \in [Ids -> SUBSET Nat], BoundedDispatch',
           \A m \in Ids : sends'[m] \subseteq 1..leases[m],
           UNCHANGED <<user, token, expired, leases>>
    PROVE  IInv'
<1>1. TypeOK'
  BY ReleaseFacts DEF IInv, TypeOK, WorkerMoves
<1>2. RowsAgree'
  <2> SUFFICES ASSUME NEW m \in Ids
               PROVE  /\ row'[m].status = "NONE" <=> token'[m].state = "NONE"
                      /\ row'[m].status = "NONE" => row'[m] = NoRow
                      /\ row'[m].attempts = leases'[m]
                      /\ row'[m].status # "LEASED" => row'[m].lease = 0 /\ ~row'[m].leaseLive
                      /\ sends'[m] \subseteq 1..leases'[m]
    BY DEF RowsAgree
  <2>1. CASE row'[m] = row[m]
    BY <2>1 DEF IInv, RowsAgree
  <2>2. CASE row[m].status = "LEASED" /\ Released(row[m], row'[m])
    <3>1. row[m].attempts = leases[m] /\ token[m].state # "NONE"
      BY <2>2 DEF IInv, RowsAgree
    <3> QED
      BY <2>2, <3>1 DEF Released, Terminal
  <2> QED
    BY <2>1, <2>2, ReleaseFacts
<1>3. \A v \in Workers : ClaimsOf(v)' \subseteq ClaimsOf(v)
  <2>1. \A v \in Workers \ {w} : ClaimsOf(v)' = ClaimsOf(v)
    BY DEF WorkerMoves, ClaimsOf
  <2> QED
    BY <2>1 DEF WorkerMoves
<1>4. ClaimsAgree'
  <2>1. \A v \in Workers : \A c \in ClaimsOf(v)' : /\ c.lease \in 1..leases'[c.id]
                                                  /\ c.lease = c.attempts
                                                  /\ token'[c.id].state # "NONE"
    BY <1>3 DEF IInv, ClaimsAgree
  <2>2. \A v \in Workers :
          /\ work'[v].pc \notin {"idle", "next"} => work'[v].cur \notin work'[v].todo
          /\ work'[v].pc = "ack" => work'[v].cur.id \in delivered'
    <3> TAKE v \in Workers
    <3>1. CASE v = w
      BY <3>1 DEF WorkerMoves
    <3>2. CASE v # w
      <4>1. work'[v] = work[v]
        BY <3>2 DEF WorkerMoves
      <4> QED
        BY <4>1 DEF IInv, ClaimsAgree
    <3> QED
      BY <3>1, <3>2
  <2> QED
    BY <2>1, <2>2 DEF ClaimsAgree, ClaimsOf
<1>5. OneHolder'
  BY <1>3 DEF IInv, OneHolder
<1>6. OneLiveCredential'
  BY DEF IInv, OneLiveCredential
<1>7. OpenMailCarriesUnusedToken'
  BY ReleaseFacts DEF IInv, OpenMailCarriesUnusedToken, IsOpen, Open
<1>8. SealedWhileOpen'
  BY ReleaseFacts DEF IInv, SealedWhileOpen, IsOpen, Open, Terminal, Released
<1>9. AcceptedWasDelivered'
  BY ReleaseFacts DEF IInv, AcceptedWasDelivered
<1> QED
  BY <1>1, <1>2, <1>4, <1>5, <1>6, <1>7, <1>8, <1>9 DEF IInv

(* Every step but the hand-over to the transport leaves sends alone.       *)
LEMMA QuietMoveKeepsIInv ==
    ASSUME IInv, NEW w \in Workers, WorkerMoves(w), RowReleased,
           UNCHANGED <<user, token, expired, leases, sends, delivered>>
    PROVE  IInv'
<1>1. \A v \in Workers : Undispatched(v)' \subseteq Undispatched(v)
  <2>1. \A v \in Workers \ {w} : Undispatched(v)' = Undispatched(v)
    BY DEF WorkerMoves, Undispatched
  <2> QED
    BY <2>1 DEF WorkerMoves
<1>2. BoundedDispatch'
  BY <1>1 DEF IInv, BoundedDispatch
<1> QED
  BY <1>2, WorkerMovesKeepsIInv DEF IInv, TypeOK, RowsAgree

(* How the three ways of moving on satisfy WorkerMoves.                    *)
LEMMA ProceedMoves ==
    ASSUME IInv, NEW w \in Workers, Proceed(w) PROVE WorkerMoves(w)
<1>1. NextClaim(work[w].todo) \in Passes
  BY DEF IInv, TypeOK, Passes, NextClaim
<1> QED
  BY <1>1 DEF IInv, TypeOK, Proceed, WorkerMoves, NextClaim, ClaimsOf, Undispatched

LEMMA GoToMoves ==
    ASSUME IInv, NEW w \in Workers, NEW pc \in {"cancel", "send", "ack", "fail"},
           work[w].pc \in {"read", "send"}, pc \in {"cancel", "send"} => work[w].pc = "read",
           GoTo(w, pc), pc = "ack" => work[w].cur.id \in delivered'
    PROVE  WorkerMoves(w)
<1>1. /\ work[w] \in [pc : {"read", "cancel", "send", "ack", "fail"},
                      cur : Claims, ok : BOOLEAN, todo : SUBSET Claims]
      /\ work[w].cur \notin work[w].todo
  BY DEF IInv, TypeOK, ClaimsAgree, Passes
<1>2. /\ [work[w] EXCEPT !.pc = pc] \in Passes
      /\ [work[w] EXCEPT !.pc = pc].pc = pc
      /\ [work[w] EXCEPT !.pc = pc].cur = work[w].cur
      /\ [work[w] EXCEPT !.pc = pc].todo = work[w].todo
  BY <1>1 DEF Passes
<1>3. /\ work' \in [Workers -> Passes] /\ work'[w] = [work[w] EXCEPT !.pc = pc]
      /\ \A v \in Workers \ {w} : work'[v] = work[v]
  BY <1>2 DEF IInv, TypeOK, GoTo
<1> QED
  BY <1>1, <1>2, <1>3 DEF WorkerMoves, ClaimsOf, Undispatched

(* A worker that still matches the lease token holds a leased row.         *)
LEMMA TokenHolderIsLeased ==
    ASSUME IInv, NEW w \in Workers, NEW c \in ClaimsOf(w), HoldsToken(c)
    PROVE  c.id \in Ids /\ row[c.id].status = "LEASED" /\ c \in Claims
<1>1. c \in Claims
  BY DEF IInv, TypeOK, Passes, ClaimsOf
<1>2. c.id \in Ids /\ c.lease \in 1..leases[c.id] /\ leases[c.id] \in Nat
  BY <1>1 DEF IInv, ClaimsAgree, Claims, TypeOK
<1> QED
  BY <1>1, <1>2 DEF HoldsToken, IInv, RowsAgree

LEMMA RetryReleases ==
    ASSUME NEW r \in Rows, NEW c \in Claims
    PROVE  Released(r, Retry(r, c)) /\ Retry(r, c) \in Rows /\ Retry(r, c).status # "ACCEPTED"
BY RetryFields DEF Released, Terminal

LEMMA SettleReleases ==
    ASSUME NEW r \in Rows, NEW status \in Terminal
    PROVE  Released(r, Settle(r, status)) /\ Settle(r, status) \in Rows
           /\ Settle(r, status).status = status
BY SettleFields DEF Released, Terminal

(* The four statements that may write the row of the claim at hand.        *)
LEMMA RowWriteReleases ==
    ASSUME IInv, NEW w \in Workers, NEW c \in ClaimsOf(w),
           \/ row' = row
           \/ HoldsToken(c) /\ row' = [row EXCEPT ![c.id] = Retry(@, c)]
           \/ HoldsToken(c) /\ row' = [row EXCEPT ![c.id] = Settle(@, "CANCELLED")]
           \/ /\ HoldsToken(c) /\ row' = [row EXCEPT ![c.id] = Settle(@, "ACCEPTED")]
              /\ c.id \in delivered
    PROVE  RowReleased
<1>1. CASE row' = row
  BY <1>1 DEF RowReleased
<1>2. CASE row' # row
  <2>1. c.id \in Ids /\ row[c.id].status = "LEASED" /\ c \in Claims /\ row[c.id] \in Rows
    BY <1>2, TokenHolderIsLeased DEF IInv, TypeOK
  <2>2. Released(row[c.id], Retry(row[c.id], c)) /\ Retry(row[c.id], c) \in Rows
        /\ Retry(row[c.id], c).status # "ACCEPTED"
    BY <2>1, RetryReleases
  <2>3. \A status \in {"CANCELLED", "ACCEPTED"} :
           /\ Released(row[c.id], Settle(row[c.id], status)) /\ Settle(row[c.id], status) \in Rows
           /\ Settle(row[c.id], status).status = status
    BY <2>1, SettleReleases DEF Terminal
  <2> QED
    BY <1>2, <2>1, <2>2, <2>3 DEF RowReleased
<1> QED
  BY <1>1, <1>2

LEMMA PassStepKeepsIInv ==
    ASSUME IInv, NEW w \in Workers, PassStep(w)
    PROVE  IInv'
<1> DEFINE cur == work[w].cur
<1>1. CASE DecryptFails(w)
  <2> PICK c \in work[w].todo :
         /\ row' = IF HoldsToken(c) THEN [row EXCEPT ![c.id] = Retry(@, c)] ELSE row
         /\ work' = [work EXCEPT ![w] = NextClaim(@.todo \ {c})]
    BY <1>1 DEF DecryptFails
  <2>1. RowReleased
    BY RowWriteReleases DEF ClaimsOf
  <2>2. NextClaim(work[w].todo \ {c}) \in Passes
    BY DEF IInv, TypeOK, Passes, NextClaim
  <2>3. WorkerMoves(w)
    BY <1>1, <2>2 DEF DecryptFails, At, IInv, TypeOK, WorkerMoves, NextClaim, ClaimsOf, Undispatched
  <2> QED
    BY <1>1, <2>1, <2>3, QuietMoveKeepsIInv DEF DecryptFails
<1>2. CASE Revalidate(w)
  <2> PICK c \in work[w].todo :
         work' = [work EXCEPT ![w] =
                    [pc |-> "read", cur |-> c, todo |-> @.todo \ {c},
                     ok |-> ~DeadToken(c.id) /\ ~Ineligible(c.id)]]
    BY <1>2 DEF Revalidate
  <2> DEFINE ok == ~DeadToken(c.id) /\ ~Ineligible(c.id)
             pass == [pc |-> "read", cur |-> c, todo |-> work[w].todo \ {c}, ok |-> ok]
  <2>1. work[w].todo \in SUBSET Claims
    BY DEF IInv, TypeOK, Passes
  <2>2. ok \in BOOLEAN
    OBVIOUS
  <2>3. work' = [work EXCEPT ![w] = pass]
    OBVIOUS
  <2> HIDE DEF ok
  <2>4. pass \in Passes
    BY <2>1, <2>2 DEF Passes
  <2>5. /\ work' \in [Workers -> Passes]
        /\ \A v \in Workers \ {w} : work'[v] = work[v]
        /\ work'[w].pc = "read" /\ work'[w].cur = c /\ work'[w].todo = work[w].todo \ {c}
    <3>1. pass.pc = "read" /\ pass.cur = c /\ pass.todo = work[w].todo \ {c}
      OBVIOUS
    <3>2. work \in [Workers -> Passes]
      BY DEF IInv, TypeOK
    <3> HIDE DEF pass
    <3> QED
      BY ONLY <2>3, <2>4, <3>1, <3>2, w \in Workers
  <2>6. work[w].pc = "next"
    BY <1>2 DEF Revalidate, At
  <2>7. WorkerMoves(w)
    BY <2>5, <2>6 DEF WorkerMoves, ClaimsOf, Undispatched
  <2> QED
    BY <1>2, <2>7, QuietMoveKeepsIInv DEF Revalidate, RowReleased
<1>3. CASE CheckOwned(w)
  <2>1. \/ Proceed(w) \/ \E pc \in {"cancel", "send"} : GoTo(w, pc)
    BY <1>3 DEF CheckOwned
  <2>2. WorkerMoves(w)
    BY <1>3, <2>1, ProceedMoves, GoToMoves DEF CheckOwned, At
  <2> QED
    BY <1>3, <2>2, QuietMoveKeepsIInv DEF CheckOwned, RowReleased
<1>4. CASE CancelIneligible(w)
  <2>1. cur \in ClaimsOf(w)
    BY <1>4 DEF CancelIneligible, At, ClaimsOf
  <2>2. RowReleased
    BY <1>4, <2>1, RowWriteReleases DEF CancelIneligible
  <2> QED
    BY <1>4, <2>2, ProceedMoves, QuietMoveKeepsIInv DEF CancelIneligible
<1>5. CASE TransportUnavailable(w)
  BY <1>5, GoToMoves, QuietMoveKeepsIInv DEF TransportUnavailable, At, RowReleased
<1>6. CASE Acknowledge(w)
  <2>1. cur \in ClaimsOf(w) /\ cur.id \in delivered
    BY <1>6 DEF Acknowledge, At, ClaimsOf, IInv, ClaimsAgree
  <2>2. RowReleased
    BY <1>6, <2>1, RowWriteReleases DEF Acknowledge, HoldsLease
  <2> QED
    BY <1>6, <2>2, ProceedMoves, QuietMoveKeepsIInv DEF Acknowledge
<1>7. CASE RecordFailure(w)
  <2>1. cur \in ClaimsOf(w)
    BY <1>7 DEF RecordFailure, At, ClaimsOf
  <2>2. RowReleased
    BY <1>7, <2>1, RowWriteReleases DEF RecordFailure, HoldsLease
  <2> QED
    BY <1>7, <2>2, ProceedMoves, QuietMoveKeepsIInv DEF RecordFailure
<1>8. CASE Dispatch(w)
  <2>1. /\ cur \in Undispatched(w) /\ cur \in ClaimsOf(w) /\ cur \notin work[w].todo
        /\ cur \in Claims /\ cur.id \in Ids /\ cur.lease \in Nat
        /\ cur.lease \in 1..leases[cur.id]
        /\ sends' = [sends EXCEPT ![cur.id] = @ \cup {cur.lease}]
    BY <1>8 DEF Dispatch, At, ClaimsOf, Undispatched, IInv, TypeOK, ClaimsAgree, Passes, Claims
  <2>2. /\ \E pc \in {"ack", "fail"} : GoTo(w, pc) /\ (pc = "ack" => cur.id \in delivered')
        /\ delivered' \in SUBSET Ids /\ delivered \subseteq delivered'
    BY <1>8, <2>1 DEF Dispatch, IInv, TypeOK
  <2>3. WorkerMoves(w)
    BY <1>8, <2>2, GoToMoves DEF Dispatch, At
  <2>4. /\ sends' \in [Ids -> SUBSET Nat]
        /\ \A m \in Ids : sends'[m] \subseteq 1..leases[m]
    BY <2>1 DEF IInv, TypeOK, RowsAgree
  <2>5. Undispatched(w)' \subseteq Undispatched(w) \ {cur}
    BY <1>8, <2>1, <2>2 DEF Dispatch, At, GoTo, Undispatched, IInv, TypeOK
  <2>6. \A v \in Workers \ {w} : Undispatched(v)' = Undispatched(v)
    BY <2>3 DEF WorkerMoves, Undispatched
  <2>7. \A v \in Workers : \A c \in Undispatched(v)' : c.lease \notin sends'[c.id]
    <3> SUFFICES ASSUME NEW v \in Workers, NEW c \in Undispatched(v)'
                 PROVE  c.lease \notin sends'[c.id]
      OBVIOUS
    <3>1. c \in Undispatched(v) /\ c \in ClaimsOf(v) /\ ~(v = w /\ c = cur)
      BY <2>5, <2>6 DEF Undispatched, ClaimsOf
    <3>2. ~(c.id = cur.id /\ c.lease = cur.lease)
      BY <2>1, <3>1 DEF IInv, OneHolder
    <3>3. c.lease \notin sends[c.id] /\ c.id \in Ids
      BY <3>1 DEF IInv, BoundedDispatch, TypeOK, Passes, Claims, ClaimsOf
    <3> QED
      BY <2>1, <3>2, <3>3 DEF IInv, TypeOK
  <2>8. \A m \in Ids : sends'[m] \subseteq 1..MaxAttempts
    <3>1. \A m \in Ids : leases[m] \in Nat /\ leases[m] <= MaxAttempts
      BY MaxAttemptsAssumption DEF IInv, TypeOK, RowsAgree, Rows
    <3> QED
      BY <2>4, <3>1, MaxAttemptsAssumption
  <2> QED
    BY <1>8, <2>2, <2>3, <2>4, <2>7, <2>8, WorkerMovesKeepsIInv
       DEF Dispatch, BoundedDispatch, RowReleased
<1> QED
  BY <1>1, <1>2, <1>3, <1>4, <1>5, <1>6, <1>7, <1>8 DEF PassStep

LEMMA AbandonKeepsIInv ==
    ASSUME IInv, NEW w \in Workers, Abandon(w)
    PROVE  IInv'
<1>1. Idle \in Passes /\ Idle.pc = "idle" /\ Idle.todo = {}
  BY DEF Idle, Passes
<1>2. WorkerMoves(w)
  BY <1>1 DEF Abandon, IInv, TypeOK, WorkerMoves, ClaimsOf, Undispatched
<1> QED
  BY <1>2, QuietMoveKeepsIInv DEF Abandon, RowReleased

----------------------------------------------------------------------------
(* The clock                                                               *)

LEMMA TickKeepsIInv ==
    ASSUME IInv, NEW m \in Ids, Tick(m)
    PROVE  IInv'
<1>1. CASE TokenExpires(m)
  BY <1>1 DEF TokenExpires, IInv, TypeOK, RowsAgree, ClaimsAgree, ClaimsOf, OneHolder,
     OneLiveCredential, OpenMailCarriesUnusedToken, SealedWhileOpen, IsOpen,
     BoundedDispatch, Undispatched, AcceptedWasDelivered
<1>2. CASE LeaseExpires(m) \/ RetryTimeComes(m)
  <2>1. row[m] \in Rows
    BY DEF IInv, TypeOK
  <2>2. /\ [row[m] EXCEPT !.leaseLive = FALSE] \in Rows
        /\ [row[m] EXCEPT !.leaseLive = FALSE].leaseLive = FALSE
        /\ [row[m] EXCEPT !.due = TRUE] \in Rows
        /\ [row[m] EXCEPT !.due = TRUE].leaseLive = row[m].leaseLive
        /\ \A s \in {[row[m] EXCEPT !.leaseLive = FALSE], [row[m] EXCEPT !.due = TRUE]} :
              /\ s.status = row[m].status /\ s.attempts = row[m].attempts
              /\ s.lease = row[m].lease /\ s.sealed = row[m].sealed
    BY <2>1 DEF Rows
  <2>3. row[m].status # "NONE" /\ token[m].state # "NONE"
    BY <1>2 DEF LeaseExpires, RetryTimeComes, IInv, RowsAgree, NoRow
  <2>4. /\ row' \in [Ids -> Rows]
        /\ \A i \in Ids \ {m} : row'[i] = row[i]
        /\ row'[m].status = row[m].status /\ row'[m].attempts = row[m].attempts
        /\ row'[m].lease = row[m].lease /\ row'[m].sealed = row[m].sealed
        /\ row'[m].leaseLive = row[m].leaseLive \/ row'[m].leaseLive = FALSE
    BY <1>2, <2>2 DEF LeaseExpires, RetryTimeComes, IInv, TypeOK
  <2>5. UNCHANGED <<user, token, expired, work, leases, sends, delivered>>
    BY <1>2 DEF LeaseExpires, RetryTimeComes
  <2>6. TypeOK' /\ ClaimsAgree' /\ OneHolder' /\ OneLiveCredential' /\ BoundedDispatch'
    BY <2>4, <2>5 DEF IInv, TypeOK, ClaimsAgree, ClaimsOf, OneHolder, OneLiveCredential,
       BoundedDispatch, Undispatched
  <2>7. RowsAgree'
    BY <2>3, <2>4, <2>5 DEF IInv, RowsAgree
  <2>8. OpenMailCarriesUnusedToken' /\ SealedWhileOpen' /\ AcceptedWasDelivered'
    BY <2>4, <2>5 DEF IInv, OpenMailCarriesUnusedToken, SealedWhileOpen, IsOpen, AcceptedWasDelivered
  <2> QED
    BY <2>6, <2>7, <2>8 DEF IInv
<1> QED
  BY <1>1, <1>2 DEF Tick

----------------------------------------------------------------------------
(* The theorems                                                            *)

LEMMA InitIInv == Init => IInv
<1> SUFFICES ASSUME Init PROVE IInv
  OBVIOUS
<1>1. 0 \in 0..MaxAttempts
  BY MaxAttemptsAssumption
<1>2. TypeOK
  <2>1. NoRow \in Rows
    BY <1>1 DEF NoRow, Rows
  <2>2. Idle \in Passes
    BY DEF Idle, Passes
  <2>3. {NewUser, VerifiedUser} \subseteq [registered : BOOLEAN, verified : BOOLEAN, disabled : BOOLEAN]
    BY DEF NewUser, VerifiedUser
  <2> QED
    BY <2>1, <2>2, <2>3 DEF Init, TypeOK
<1>3. RowsAgree /\ OneLiveCredential /\ OpenMailCarriesUnusedToken /\ SealedWhileOpen
      /\ AcceptedWasDelivered
  BY DEF Init, RowsAgree, OneLiveCredential, OpenMailCarriesUnusedToken, SealedWhileOpen,
     AcceptedWasDelivered, IsOpen, Open, NoRow, NoToken
<1>4. ClaimsAgree /\ OneHolder /\ BoundedDispatch
  BY DEF Init, ClaimsAgree, OneHolder, BoundedDispatch, ClaimsOf, Undispatched, Idle
<1> QED
  BY <1>2, <1>3, <1>4 DEF IInv

LEMMA NextIInv == IInv /\ [Next]_vars => IInv'
<1> SUFFICES ASSUME IInv, [Next]_vars PROVE IInv'
  OBVIOUS
<1>1. CASE UserStep
  BY <1>1, UserStepKeepsIInv
<1>2. ASSUME NEW w \in Workers, Claim(w) PROVE IInv'
  <2> PICK stale \in Batches(StaleRows), spent \in SUBSET SpentRows, picked \in SUBSET DueRows :
         ClaimRows(w, stale, spent, picked)
    BY <1>2 DEF Claim, Batches
  <2> QED
    BY <1>2, ClaimKeepsIInv DEF Claim, Batches
<1>3. ASSUME NEW w \in Workers, PassStep(w) PROVE IInv'
  BY <1>3, PassStepKeepsIInv
<1>4. ASSUME NEW w \in Workers, Abandon(w) PROVE IInv'
  BY <1>4, AbandonKeepsIInv
<1>5. ASSUME NEW m \in Ids, Tick(m) PROVE IInv'
  BY <1>5, TickKeepsIInv
<1>6. CASE UNCHANGED vars
  BY <1>6 DEF vars, IInv, TypeOK, RowsAgree, ClaimsAgree, ClaimsOf, OneHolder,
     OneLiveCredential, OpenMailCarriesUnusedToken, SealedWhileOpen, IsOpen,
     BoundedDispatch, Undispatched, AcceptedWasDelivered
<1> QED
  BY <1>1, <1>2, <1>3, <1>4, <1>5, <1>6 DEF Next

(* The inductive invariant holds in every reachable state.                 *)
THEOREM Invariance == Spec => []IInv
BY InitIInv, NextIInv, PTL DEF Spec

(* Every variable keeps its type.                                          *)
THEOREM TypeCorrect == Spec => []TypeOK
<1>1. IInv => TypeOK
  BY DEF IInv
<1> QED
  BY <1>1, Invariance, PTL

(* Asking again supersedes: no user has two usable tokens for one purpose. *)
THEOREM CredentialsAreUnique == Spec => []OneLiveCredential
<1>1. IInv => OneLiveCredential
  BY DEF IInv
<1> QED
  BY <1>1, Invariance, PTL

(* The outbox never holds an open mail for a spent token.                  *)
THEOREM OpenMailIsUsable == Spec => []OpenMailCarriesUnusedToken
<1>1. IInv => OpenMailCarriesUnusedToken
  BY DEF IInv
<1> QED
  BY <1>1, Invariance, PTL

(* The sealed bearer is kept exactly as long as the mail is open: every    *)
(* write that settles a mail, by whichever pass, erases it.                *)
THEOREM BearerIsErased == Spec => []SealedWhileOpen
<1>1. IInv => SealedWhileOpen
  BY DEF IInv
<1> QED
  BY <1>1, Invariance, PTL

(* Leases fence the dispatches: one per lease, MaxAttempts leases.         *)
THEOREM DispatchIsBounded == Spec => []BoundedDispatch
<1>1. IInv => BoundedDispatch
  BY DEF IInv
<1> QED
  BY <1>1, Invariance, PTL

(* An accepted mail was taken by the provider.                             *)
THEOREM AcceptedIsDelivered == Spec => []AcceptedWasDelivered
<1>1. IInv => AcceptedWasDelivered
  BY DEF IInv
<1> QED
  BY <1>1, Invariance, PTL

(* No step of any worker, user operation or timer changes a settled mail.  *)
THEOREM SettledStaysFinal == Spec => SettledIsFinal
<1> DEFINE Final == \A m \in Ids : row[m].status \in Terminal => row'[m] = row[m]
<1>1. ASSUME IInv, [Next]_vars PROVE Final
  <2>1. \A m \in Ids : row[m].status \in Terminal =>
           /\ CancelOpen(row[m]) = row[m] /\ ~IsOpen(m) /\ token[m].state # "NONE"
           /\ row[m].lease = 0 /\ ~row[m].leaseLive
    BY <1>1 DEF CancelOpen, Terminal, Open, IsOpen, IInv, RowsAgree
  <2>2. ASSUME NEW S, SpendAndCancel(S) PROVE Final
    BY <2>1, <2>2 DEF SpendAndCancel
  <2>3. ASSUME NEW u, NEW p, NEW m \in Ids, EnqueueAccountAction(u, p, m) PROVE Final
    BY <2>1, <2>3 DEF EnqueueAccountAction
  <2>4. CASE UserStep
    <3>1. ASSUME NEW m \in Ids, ConfirmVerification(m) PROVE Final
      BY <2>1, <3>1, <1>1 DEF ConfirmVerification, IInv, TypeOK
    <3> QED
      BY <1>1, <2>2, <2>3, <2>4, <3>1
         DEF UserStep, ChangePassword, Disable, Register, RequestVerification, RequestReset, ConfirmReset
  <2>5. ASSUME NEW w \in Workers, Claim(w) PROVE Final
    <3> PICK stale \in SUBSET StaleRows, spent \in SUBSET SpentRows, picked \in SUBSET DueRows :
           ClaimRows(w, stale, spent, picked)
      BY <2>5 DEF Claim, Batches
    <3>1. \A m \in stale \cup spent \cup picked : IsOpen(m)
      BY DEF StaleRows, SpentRows, DueRows, Due, IsOpen, Open
    <3> QED
      BY <2>1, <3>1 DEF ClaimRows
  <2>6. ASSUME NEW w \in Workers, PassStep(w) PROVE Final
    <3>1. ASSUME NEW c \in ClaimsOf(w), NEW r,
                 row' = row \/ (HoldsToken(c) /\ row' = [row EXCEPT ![c.id] = r])
          PROVE  Final
      BY <1>1, <3>1, TokenHolderIsLeased DEF IInv, TypeOK, Terminal
    <3>2. CASE DecryptFails(w)
      BY <3>1, <3>2 DEF DecryptFails, ClaimsOf
    <3>3. CASE CancelIneligible(w) \/ Acknowledge(w) \/ RecordFailure(w)
      <4>1. work[w].cur \in ClaimsOf(w)
        BY <3>3 DEF CancelIneligible, Acknowledge, RecordFailure, At, ClaimsOf
      <4> QED
        BY <3>1, <3>3, <4>1 DEF CancelIneligible, Acknowledge, RecordFailure, HoldsLease
    <3> QED
      BY <2>6, <3>2, <3>3 DEF PassStep, Revalidate, CheckOwned, TransportUnavailable, Dispatch
  <2>7. ASSUME NEW m \in Ids, Tick(m) PROVE Final
    BY <1>1, <2>1, <2>7
       DEF Tick, TokenExpires, LeaseExpires, RetryTimeComes, IInv, TypeOK, Terminal
  <2> QED
    BY <1>1, <2>4, <2>5, <2>6, <2>7 DEF Next, Abandon, vars
<1> QED
  BY <1>1, Invariance, PTL DEF Spec, SettledIsFinal

-----------------------------------------------------------------------------
(* The outbox implements MailDelivery                                      *)

Quiet(m) == leases'[m] = leases[m] /\ sends'[m] = sends[m] /\ (m \in delivered' <=> m \in delivered)

DeliveryStep(m) ==
    \/ Delivery!Stay(m) \/ Delivery!Request(m) \/ Delivery!Begin(m)
    \/ Delivery!HandOver(m) \/ Delivery!Conclude(m)

(* Steps that leave the attempts and the provider alone, by what they do to *)
(* the status of the row.                                                   *)
LEMMA QuietSteps ==
    ASSUME IInv, NEW m \in Ids, Quiet(m)
    PROVE  /\ Status(m)' = Status(m) => DeliveryStep(m)
           /\ row[m].status = "NONE" /\ IsOpen(m)' => DeliveryStep(m)
           /\ /\ IsOpen(m) /\ row'[m].status \in Terminal
              /\ row'[m].status = "ACCEPTED" => m \in delivered
              /\ row'[m].status = "DEAD" => leases[m] = MaxAttempts
              => DeliveryStep(m)
<1>1. ASSUME Status(m)' = Status(m) PROVE Delivery!Stay(m)
  BY <1>1 DEF Quiet, Delivery!Stay, Delivery!SameStatus, Delivery!SameAttempts, Delivery!SameProvider
<1>2. ASSUME row[m].status = "NONE", IsOpen(m)' PROVE Delivery!Request(m)
  BY <1>2 DEF Quiet, Status, IsOpen, Open, Delivery!Request, Delivery!SameAttempts, Delivery!SameProvider
<1>3. ASSUME IsOpen(m), row'[m].status \in Terminal,
             row'[m].status = "ACCEPTED" => m \in delivered,
             row'[m].status = "DEAD" => leases[m] = MaxAttempts
      PROVE  Delivery!Conclude(m)
  BY <1>3 DEF Quiet, Status, IsOpen, Open, Terminal,
     Delivery!Conclude, Delivery!Verdicts, Delivery!SameAttempts, Delivery!SameProvider
<1> QED
  BY <1>1, <1>2, <1>3 DEF DeliveryStep

LEMMA UserStepDelivers ==
    ASSUME IInv, UserStep, NEW m \in Ids
    PROVE  DeliveryStep(m)
<1>1. Quiet(m)
  BY DEF UserStep, ChangePassword, Disable, Register, RequestVerification, RequestReset,
     ConfirmVerification, ConfirmReset, Quiet
<1> DEFINE Moves == \/ row'[m] = row[m]
                    \/ row'[m] = CancelOpen(row[m])
                    \/ row[m].status = "NONE" /\ row'[m].status = "PENDING"
<1>2. Moves
  <2>1. ASSUME NEW S, SpendAndCancel(S) PROVE Moves
    BY <2>1 DEF SpendAndCancel
  <2>2. ASSUME NEW u, NEW p, NEW i \in Ids, EnqueueAccountAction(u, p, i) PROVE Moves
    BY <2>2 DEF EnqueueAccountAction, IInv, RowsAgree, NoRow
  <2>3. ASSUME NEW i \in Ids, ConfirmVerification(i) PROVE Moves
    BY <2>3 DEF ConfirmVerification, IInv, TypeOK
  <2> QED
    BY <2>1, <2>2, <2>3 DEF UserStep, ChangePassword, Disable, Register, RequestVerification,
       RequestReset, ConfirmReset
<1>3. row[m] \in Rows
  BY DEF IInv, TypeOK
<1>4. CASE row'[m] = row[m]
  BY <1>1, <1>4, QuietSteps DEF Status, IsOpen
<1>5. CASE row'[m] = CancelOpen(row[m]) /\ IsOpen(m)
  <2>1. row'[m].status = "CANCELLED"
    BY <1>3, <1>5, CancelOpenFields DEF Cancelled, IsOpen
  <2> QED
    BY <1>1, <1>5, <2>1, QuietSteps DEF Terminal
<1>6. CASE row[m].status = "NONE" /\ row'[m].status = "PENDING"
  BY <1>1, <1>6, QuietSteps DEF IsOpen, Open
<1> QED
  BY <1>2, <1>3, <1>4, <1>5, <1>6, CancelOpenFields DEF IsOpen

LEMMA ClaimDelivers ==
    ASSUME IInv, NEW w \in Workers, Claim(w), NEW m \in Ids
    PROVE  DeliveryStep(m)
<1> PICK stale \in SUBSET StaleRows, spent \in SUBSET SpentRows, picked \in SUBSET DueRows :
       ClaimRows(w, stale, spent, picked)
  BY DEF Claim, Batches
<1> DEFINE leased == {i \in picked : ~DeadToken(i) /\ ~Ineligible(i)}
           gone == stale \cup (picked \ leased)
<1>1. /\ row[m] \in Rows /\ leases[m] \in Nat /\ row[m].attempts = leases[m]
      /\ row[m].attempts \in 0..MaxAttempts
  BY DEF IInv, TypeOK, RowsAgree, Rows
<1>2. sends'[m] = sends[m] /\ (m \in delivered' <=> m \in delivered)
  BY DEF Claim
<1>3. CASE m \in leased
  <2>1. IsOpen(m) /\ row[m].attempts + 1 \in 0..MaxAttempts
    BY <1>1, <1>3, MaxAttemptsAssumption DEF DueRows
  <2>2. row'[m].status = "LEASED" /\ leases'[m] = leases[m] + 1
    BY <1>1, <1>3, <2>1, LeaseFields DEF ClaimRows
  <2>3. Delivery!Begin(m)
    BY <1>2, <2>1, <2>2 DEF Status, IsOpen, Open, Delivery!Begin, Delivery!SameStatus, Delivery!SameProvider
  <2> QED
    BY <2>3 DEF DeliveryStep
<1>4. CASE m \notin leased
  <2>1. Quiet(m)
    BY <1>2, <1>4 DEF ClaimRows, Quiet
  <2>2. CASE m \in gone
    <3>1. IsOpen(m)
      BY <2>2 DEF StaleRows, DueRows
    <3>2. row'[m].status = "CANCELLED"
      BY <1>1, <1>4, <2>2, SettleFields DEF ClaimRows, Terminal
    <3> QED
      BY <2>1, <3>1, <3>2, QuietSteps DEF Terminal
  <2>3. CASE m \notin gone /\ m \in spent
    <3>1. IsOpen(m) /\ leases[m] = MaxAttempts
      BY <1>1, <2>3, MaxAttemptsAssumption DEF SpentRows, Due, IsOpen, Open
    <3>2. row'[m].status = "DEAD"
      BY <1>1, <1>4, <2>3, SettleFields DEF ClaimRows, Terminal
    <3> QED
      BY <2>1, <3>1, <3>2, QuietSteps DEF Terminal
  <2>4. CASE m \notin gone /\ m \notin spent
    <3>1. row'[m] = row[m]
      BY <1>4, <2>4 DEF ClaimRows
    <3> QED
      BY <2>1, <3>1, QuietSteps DEF Status, IsOpen
  <2> QED
    BY <2>2, <2>3, <2>4
<1> QED
  BY <1>3, <1>4

LEMMA PassStepDelivers ==
    ASSUME IInv, NEW w \in Workers, PassStep(w), NEW m \in Ids
    PROVE  DeliveryStep(m)
<1>1. ASSUME UNCHANGED <<row, leases, sends, delivered>> PROVE DeliveryStep(m)
  BY <1>1, QuietSteps DEF Quiet, Status, IsOpen
(* A pass that still holds the lease of c writes r to its row. *)
<1>2. ASSUME NEW c \in ClaimsOf(w), HoldsToken(c), NEW r,
             row' = [row EXCEPT ![c.id] = r], UNCHANGED <<leases, sends, delivered>>,
             \/ r.status = "PENDING"
             \/ r.status = "CANCELLED"
             \/ r.status = "DEAD" /\ c.attempts >= MaxAttempts
             \/ r.status = "ACCEPTED" /\ c.id \in delivered
      PROVE  DeliveryStep(m)
  <2>1. Quiet(m)
    BY <1>2 DEF Quiet
  <2>2. CASE m # c.id
    BY <1>2, <2>1, <2>2, QuietSteps DEF Status, IsOpen, IInv, TypeOK
  <2>3. CASE m = c.id
    <3>1. row[m].status = "LEASED" /\ row'[m] = r
      BY <1>2, <2>3, TokenHolderIsLeased DEF IInv, TypeOK
    <3>2. c.attempts >= MaxAttempts => leases[m] = MaxAttempts
      <4>1. row[m].attempts \in 0..MaxAttempts /\ row[m].attempts = leases[m]
        BY DEF IInv, TypeOK, Rows, RowsAgree
      <4>2. c.attempts \in 1..leases[m]
        BY <1>2, <2>3 DEF IInv, ClaimsAgree
      <4> QED
        BY <4>1, <4>2, MaxAttemptsAssumption
    <3> QED
      BY <1>2, <2>1, <2>3, <3>1, <3>2, QuietSteps DEF Status, IsOpen, Open, Terminal
  <2> QED
    BY <2>2, <2>3
<1>3. ASSUME NEW c \in ClaimsOf(w), HoldsToken(c)
      PROVE  /\ Retry(row[c.id], c).status \in {"PENDING", "DEAD"}
             /\ Retry(row[c.id], c).status = "DEAD" => c.attempts >= MaxAttempts
             /\ \A s \in Terminal : Settle(row[c.id], s).status = s
  <2>1. c.id \in Ids /\ row[c.id] \in Rows /\ c \in Claims /\ row[c.id].status = "LEASED"
    BY <1>3, TokenHolderIsLeased DEF IInv, TypeOK
  <2> QED
    BY <2>1, SettleFields, RetryFields DEF Retry, Rows
<1>4. CASE DecryptFails(w)
  <2> PICK c \in work[w].todo :
         row' = IF HoldsToken(c) THEN [row EXCEPT ![c.id] = Retry(@, c)] ELSE row
    BY <1>4 DEF DecryptFails
  <2>1. c \in ClaimsOf(w)
    BY DEF ClaimsOf
  <2>2. UNCHANGED <<leases, sends, delivered>>
    BY <1>4 DEF DecryptFails
  <2> QED
    BY <1>1, <1>2, <1>3, <2>1, <2>2
<1>5. CASE CancelIneligible(w) \/ Acknowledge(w) \/ RecordFailure(w)
  <2> DEFINE c == work[w].cur
  <2>1. c \in ClaimsOf(w) /\ UNCHANGED <<leases, sends, delivered>>
    BY <1>5 DEF CancelIneligible, Acknowledge, RecordFailure, At, ClaimsOf
  <2>2. CASE ~HoldsToken(c)
    BY <1>1, <1>5, <2>1, <2>2 DEF CancelIneligible, Acknowledge, RecordFailure, HoldsLease
  <2>3. CASE HoldsToken(c) /\ CancelIneligible(w)
    BY <1>2, <1>3, <2>1, <2>3 DEF CancelIneligible, Terminal
  <2>4. CASE HoldsToken(c) /\ Acknowledge(w)
    <3>1. c.id \in delivered
      BY <2>4 DEF Acknowledge, At, IInv, ClaimsAgree
    <3> QED
      BY <1>1, <1>2, <1>3, <2>1, <2>4, <3>1 DEF Acknowledge, HoldsLease, Terminal
  <2>5. CASE HoldsToken(c) /\ RecordFailure(w)
    BY <1>1, <1>2, <1>3, <2>1, <2>5 DEF RecordFailure, HoldsLease
  <2> QED
    BY <1>5, <2>2, <2>3, <2>4, <2>5
<1>6. CASE Dispatch(w)
  <2> DEFINE c == work[w].cur
  <2>1. /\ c \in ClaimsOf(w) /\ c \in Undispatched(w)
        /\ sends' = [sends EXCEPT ![c.id] = @ \cup {c.lease}]
        /\ delivered' \in {delivered, delivered \cup {c.id}}
        /\ UNCHANGED <<row, leases>>
    BY <1>6 DEF Dispatch, At, ClaimsOf, Undispatched
  <2>2. c.id \in Ids /\ c.lease \in (1..leases[c.id]) \ sends[c.id]
    BY <2>1 DEF IInv, TypeOK, Passes, Claims, ClaimsOf, ClaimsAgree, BoundedDispatch
  <2>3. CASE m = c.id
    <3>1. sends'[m] = sends[m] \cup {c.lease}
      BY <2>1, <2>2, <2>3 DEF IInv, TypeOK
    <3>2. Delivery!HandOver(m)
      BY <2>1, <2>2, <2>3, <3>1 DEF Status, IsOpen, Delivery!HandOver, Delivery!SameStatus,
         Delivery!SameAttempts
    <3> QED
      BY <3>2 DEF DeliveryStep
  <2>4. CASE m # c.id
    BY <2>1, <2>2, <2>4, QuietSteps DEF Quiet, Status, IsOpen, IInv, TypeOK
  <2> QED
    BY <2>3, <2>4
<1> QED
  BY <1>1, <1>4, <1>5, <1>6 DEF PassStep, Revalidate, CheckOwned, TransportUnavailable

(* Whatever happens to a mail is a step of the promise or none.            *)
LEMMA NextDelivers ==
    ASSUME IInv, [Next]_vars, NEW m \in Ids
    PROVE  DeliveryStep(m)
<1>1. ASSUME UNCHANGED <<leases, sends, delivered>>, Status(m)' = Status(m) PROVE DeliveryStep(m)
  BY <1>1, QuietSteps DEF Quiet
<1>2. ASSUME NEW i \in Ids, Tick(i) PROVE DeliveryStep(m)
  <2>1. row'[m].status = row[m].status
    BY <1>2 DEF Tick, TokenExpires, LeaseExpires, RetryTimeComes, IInv, TypeOK, Rows
  <2> QED
    BY <1>1, <1>2, <2>1 DEF Tick, TokenExpires, LeaseExpires, RetryTimeComes, Status, IsOpen
<1>3. ASSUME NEW w \in Workers, Abandon(w) PROVE DeliveryStep(m)
  BY <1>1, <1>3 DEF Abandon, Status, IsOpen
<1>4. CASE UNCHANGED vars
  BY <1>1, <1>4 DEF vars, Status, IsOpen
<1> QED
  BY <1>2, <1>3, <1>4, UserStepDelivers, ClaimDelivers, PassStepDelivers DEF Next

LEMMA InitDelivers == Init => Delivery!Init
BY DEF Init, NoRow, Status, IsOpen, Open, Delivery!Init

LEMMA DeliveryTypes == IInv => Delivery!Types
<1> SUFFICES ASSUME IInv PROVE Delivery!Types
  OBVIOUS
<1>1. [m \in Ids |-> Status(m)] \in [Ids -> {"NONE", "OPEN"} \cup Delivery!Verdicts]
  BY DEF IInv, TypeOK, Rows, Status, IsOpen, Open, Terminal, Delivery!Verdicts
<1>2. leases \in [Ids -> 0..MaxAttempts]
  BY DEF IInv, TypeOK, Rows, RowsAgree
<1>3. sends \in [Ids -> SUBSET (1..MaxAttempts)] /\ delivered \subseteq Ids
  BY DEF IInv, TypeOK, BoundedDispatch
<1> QED
  BY <1>1, <1>2, <1>3 DEF Delivery!Types

(* The detailed outbox implements the promise of bounded delivery with a   *)
(* final verdict, for any number of users, mails, workers and attempts.    *)
THEOREM OutboxKeepsPromise == Spec => KeepsPromise
<1>1. IInv /\ IInv' /\ [Next]_vars => [Delivery!Next]_(Delivery!vars)
  <2> SUFFICES ASSUME IInv, IInv', [Next]_vars PROVE Delivery!Next
    OBVIOUS
  <2>1. Delivery!Types'
    BY DeliveryTypes, PTL
  <2>2. \A m \in Ids : DeliveryStep(m)
    BY NextDelivers
  <2> QED
    BY <2>1, <2>2 DEF Delivery!Next, DeliveryStep
<1> QED
  BY <1>1, InitDelivers, Invariance, PTL DEF Spec, KeepsPromise, Delivery!Spec

=============================================================================
