---------------------------- MODULE MailDelivery ----------------------------
(***************************************************************************)
(* What the account mail outbox promises about each mail it is given,      *)
(* without rows, leases, tokens, claims or workers: "bounded at-least-once"*)
(* delivery with one final verdict.  Any number of mails may move at once, *)
(* as they do in the transactions that supersede or claim several.         *)
(***************************************************************************)
EXTENDS Naturals

CONSTANTS
    Mails,
    MaxAttempts

VARIABLES
    status,     \* NONE before the request, OPEN until the verdict
    started,    \* attempts begun
    handed,     \* the attempts that handed the mail to the provider
    taken       \* mails the provider took

vars == <<status, started, handed, taken>>

Verdicts == {"ACCEPTED", "CANCELLED", "DEAD"}

Types ==
    /\ status \in [Mails -> {"NONE", "OPEN"} \cup Verdicts]
    /\ started \in [Mails -> 0..MaxAttempts]
    /\ handed \in [Mails -> SUBSET (1..MaxAttempts)]
    /\ taken \subseteq Mails

Init ==
    /\ status = [m \in Mails |-> "NONE"]
    /\ started = [m \in Mails |-> 0]
    /\ handed = [m \in Mails |-> {}]
    /\ taken = {}

SameStatus(m) == status'[m] = status[m]
SameAttempts(m) == started'[m] = started[m]
SameProvider(m) == handed'[m] = handed[m] /\ (m \in taken' <=> m \in taken)

Stay(m) == SameStatus(m) /\ SameAttempts(m) /\ SameProvider(m)

Request(m) ==
    /\ status[m] = "NONE" /\ status'[m] = "OPEN"
    /\ SameAttempts(m) /\ SameProvider(m)

Begin(m) ==
    /\ status[m] = "OPEN" /\ started'[m] = started[m] + 1
    /\ SameStatus(m) /\ SameProvider(m)

(* Each attempt hands the mail over once at most, also when the verdict has *)
(* fallen since it began.  What the provider took it does not give back.    *)
HandOver(m) ==
    /\ \E n \in (1..started[m]) \ handed[m] : handed'[m] = handed[m] \cup {n}
    /\ m \in taken => m \in taken'
    /\ SameStatus(m) /\ SameAttempts(m)

(* Accepted is what the provider took; a mail is given up only after all    *)
(* attempts; a mail nobody wants any more may be cancelled at any time.     *)
Conclude(m) ==
    /\ status[m] = "OPEN" /\ status'[m] \in Verdicts
    /\ status'[m] = "ACCEPTED" => m \in taken
    /\ status'[m] = "DEAD" => started[m] = MaxAttempts
    /\ SameAttempts(m) /\ SameProvider(m)

Next ==
    /\ Types'
    /\ \A m \in Mails : Stay(m) \/ Request(m) \/ Begin(m) \/ HandOver(m) \/ Conclude(m)

Spec == Init /\ [][Next]_vars
=============================================================================
