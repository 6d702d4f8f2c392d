--------------------------- MODULE ConsentedPosts ---------------------------
(***************************************************************************)
(* What the bug intake promises about the tracker: a text is posted only   *)
(* under an approval of that very text which stands at that moment, once   *)
(* for each approval, all of a report in one issue, and a post is called   *)
(* confirmed only after it was made.                                       *)
(***************************************************************************)
EXTENDS Integers, Sequences

CONSTANTS Payloads, Files, None

VARIABLES
    text,               \* what the source says
    consent,            \* the standing approval, or None
    posts,              \* what the tracker has
    confirmed           \* approvals whose post is known to have been made

vars == <<text, consent, posts, confirmed>>

Init == text = None /\ consent = None /\ posts = <<>> /\ confirmed = {}

Posted == {posts[i].rev : i \in DOMAIN posts}

\* A new text withdraws the approval of the old one.
Edit ==
    /\ text' \in Payloads
    /\ consent' = None
    /\ UNCHANGED <<posts, confirmed>>

Approve ==
    /\ consent = None
    /\ consent' \in [rev : Nat, copy : [of : {text}, files : SUBSET Files]]
    /\ consent'.rev \notin Posted
    /\ UNCHANGED <<text, posts, confirmed>>

Withdraw == consent' = None /\ UNCHANGED <<text, posts, confirmed>>

Post ==
    /\ consent # None /\ consent.rev \notin Posted
    /\ posts' = Append(posts,
           [rev |-> consent.rev, copy |-> consent.copy,
            issue |-> IF posts = <<>> THEN consent.rev ELSE posts[1].issue])
    /\ UNCHANGED <<text, consent, confirmed>>

\* A confirmation ends the approval it answers, and any other.
Confirm ==
    /\ \E r \in Posted \ confirmed : confirmed' = confirmed \cup {r}
    /\ consent' = None
    /\ UNCHANGED <<text, posts>>

Next == Edit \/ Approve \/ Withdraw \/ Post \/ Confirm

Spec == Init /\ [][Next]_vars
=============================================================================
