---------------------------- MODULE MediaLibrary ----------------------------
(***************************************************************************)
(* The media of a campaign: rows of assets, the files they name, the bytes *)
(* reserved for uploads under way, and the candidates of audio clips       *)
(* (asset-routes.ts, asset-usage.ts, audio-clip-routes.ts,                 *)
(* media-quota-reservations.ts, storage.ts).  A request reserves bytes,    *)
(* writes a file of its own, names it in one transaction, and releases the *)
(* reservation; it removes the file when that fails, and the file it       *)
(* replaced when it succeeds.  Every reservation and every commit holds    *)
(* the advisory lock of the campaign.  The process may die at any moment,  *)
(* a file may refuse to go, and the answer to a COMMIT may be lost.        *)
(* An action id names one command; its retries send the same bytes.        *)
(***************************************************************************)
EXTENDS Naturals, FiniteSetsExt

CONSTANTS
    Initial,               \* assets that exist already, and their files
    Uploads, Replaces, Clips,   \* commands, each with an action id
    Attempts,              \* requests that carry them out
    Deletions, Cancels,    \* requests that delete an asset or drop a clip
    CommandOf, TargetOf,
    Bytes,                 \* of an initial file, and of what a command writes
    Estimate,              \* of a clip, before it is rendered
    Quota, MaxFaults, MaxRunning,
    Slow,                  \* commands whose reservation may run out
    None

Commands == Uploads \cup Replaces \cup Clips
Assets == Initial \cup Uploads \cup Clips
Files == Initial \cup Attempts
Requests == Attempts \cup Deletions \cup Cancels

Size == [f \in Files |-> IF f \in Initial THEN Bytes[f] ELSE Bytes[CommandOf[f]]]
Sum(f, S) == MapThenSumSet(LAMBDA x : f[x], S)
Need(c) == IF c \in Clips THEN Estimate[c] ELSE Bytes[c]

ASSUME MediaAssumption ==
    /\ \A a \in Attempts : CommandOf[a] \in Commands
    /\ TargetOf \in [Replaces \cup Cancels -> Assets]
    /\ Bytes \in [Initial \cup Commands -> Nat \ {0}]
    /\ Estimate \in [Clips -> Nat] /\ \A c \in Clips : Estimate[c] >= Bytes[c]
    /\ Sum(Size, Initial) <= Quota
    /\ IsFiniteSet(Assets \cup Commands) /\ Quota \in Nat
    /\ Initial \cap (Uploads \cup Clips) = {} /\ Uploads \cap Clips = {}
    /\ Replaces \cap (Uploads \cup Clips) = {}
    /\ Attempts \cap (Initial \cup Deletions \cup Cancels) = {}
    /\ Cancels \cap Deletions = {} /\ \A d \in Cancels : TargetOf[d] \in Clips
    /\ {None, "never", "deleted"} \cap Files = {}

VARIABLES
    row,        \* the file of an asset; "never" and "deleted" name none
    disk,       \* the files there are
    reserved,   \* bytes reserved under the key of a command, 0 for none
    expired,    \* keys whose thirty minutes are over
    receipts,   \* commands with a game event
    candidate,  \* of each clip: its status, its file, its fifteen minutes
    request,    \* how far each request is, and the file it will remove next
    sweep,      \* how far the timer is with an expired clip
    faults, left, lost   \* faults so far, and the files they concern

vars == <<row, disk, reserved, expired, receipts, candidate, request, sweep, faults, left, lost>>

Exists(x) == row[x] \in Files
Named == {row[x] : x \in {y \in Assets : Exists(y)}}
Offered == {candidate[c].file : c \in {d \in Clips : candidate[d].status = "READY"}}

(* Files somebody still looks after.                                        *)
HeldBy(r) == (IF request[r].at = "stored" THEN {r} ELSE {}) \cup ({request[r].trash} \ {None})
Swept == {sweep[c].file : c \in Clips} \ {None}
Held == (UNION {HeldBy(r) : r \in Requests}) \cup Swept

NoCandidate == [status |-> "NONE", file |-> None, late |-> FALSE]
Unswept == [at |-> "no", file |-> None]
Idle == [at |-> "idle", seen |-> None, trash |-> None]

Init ==
    /\ row = [x \in Assets |-> IF x \in Initial THEN x ELSE "never"]
    /\ disk = Initial
    /\ reserved = [c \in Commands |-> 0]
    /\ expired = {} /\ receipts = {}
    /\ candidate = [c \in Clips |-> NoCandidate]
    /\ request = [r \in Requests |-> Idle]
    /\ sweep = [c \in Clips |-> Unswept]
    /\ faults = 0 /\ left = {} /\ lost = {}

Running(r) == request[r].at \notin {"idle", "done"} \/ request[r].trash # None
Room == Cardinality({r \in Requests : Running(r)}) < MaxRunning

At(r, s) == request[r].at = s /\ request[r].trash = None
GoAndRemove(r, s, f) ==
    request' = [request EXCEPT ![r] =
        [at |-> s, trash |-> f,
         seen |-> IF s \in {"reserved", "stored"} THEN request[r].seen ELSE None]]
Go(r, s) == GoAndRemove(r, s, None)

-----------------------------------------------------------------------------
(* Requests that bring in a file.                                           *)

(* The receipt is looked up first: an upload that is known answers with its *)
(* asset, unless that was deleted since.                                    *)
Start(a) ==
    LET c == CommandOf[a] IN
    /\ At(a, "idle") /\ Room
    /\ c \in Uploads => ~(c \in receipts /\ Exists(c))
    /\ c \in Replaces => Exists(TargetOf[c]) /\ c \notin receipts
    /\ c \in Clips => candidate[c].status = "NONE"
    /\ request' = [request EXCEPT ![a].at = "prepared",
                                  ![a].seen = IF c \in Replaces THEN row[TargetOf[c]] ELSE None]
    /\ UNCHANGED <<row, disk, reserved, expired, receipts, candidate, sweep, faults, left, lost>>

Purged == [c \in Commands |-> IF c \in expired THEN 0 ELSE reserved[c]]
Credit(a) == IF request[a].seen = None THEN 0 ELSE Size[request[a].seen]
Used(kept) == Sum(Size, Named) + Sum(kept, Commands)
Fits(a) == Used(Purged) + Need(CommandOf[a]) <= Quota + Credit(a)

Reserve(a) ==
    LET c == CommandOf[a] IN
    /\ At(a, "prepared")
    /\ IF Purged[c] # 0
       THEN Purged[c] = Need(c) /\ reserved' = Purged
       ELSE /\ c \in Replaces => row[TargetOf[c]] = request[a].seen
            /\ Fits(a)
            /\ reserved' = [Purged EXCEPT ![c] = Need(c)]
    /\ expired' = {}
    /\ Go(a, "reserved")
    /\ UNCHANGED <<row, disk, receipts, candidate, sweep, faults, left, lost>>

(* A clip: INSERT ... ON CONFLICT DO NOTHING of the candidate.              *)
Insert(a) ==
    LET c == CommandOf[a] IN
    /\ At(a, "reserved") /\ c \in Clips
    /\ IF candidate[c].status = "NONE"
       THEN candidate' = [candidate EXCEPT ![c].status = "PROCESSING"] /\ Go(a, "inserted")
       ELSE Go(a, "done") /\ UNCHANGED candidate
    /\ UNCHANGED <<row, disk, reserved, expired, receipts, sweep, faults, left, lost>>

Store(a) ==
    /\ IF CommandOf[a] \in Clips THEN At(a, "inserted") ELSE At(a, "reserved")
    /\ disk' = disk \cup {a}
    /\ Go(a, "stored")
    /\ UNCHANGED <<row, reserved, expired, receipts, candidate, sweep, faults, left, lost>>

\* Mutant: a commit without its reservation.
LiveUnchecked(c, bytes) == bytes # 0

(* requireLiveCampaignMediaReservation.                                     *)
Live(c, bytes) == c \notin expired /\ reserved[c] # 0 /\ bytes <= reserved[c]

\* Mutant: two events with one action id.
RecordedTwice(c) == receipts' = receipts \cup {c}

Recorded(c) == c \notin receipts /\ receipts' = receipts \cup {c}

(* What the transaction of an attempt writes.                               *)
NameUpload(a) ==
    LET c == CommandOf[a] IN
    /\ c \in Uploads
    /\ Recorded(c)
    /\ row' = [row EXCEPT ![c] = a]
    /\ UNCHANGED <<reserved, candidate>>

NameReplacement(a) ==
    LET c == CommandOf[a] IN
    /\ c \in Replaces
    /\ row[TargetOf[c]] = request[a].seen
    /\ Recorded(c)
    /\ row' = [row EXCEPT ![TargetOf[c]] = a]
    /\ UNCHANGED <<reserved, candidate>>

NameClip(a) ==
    LET c == CommandOf[a] IN
    /\ c \in Clips
    /\ candidate[c].status = "PROCESSING"
    /\ candidate' = [candidate EXCEPT ![c].status = "READY", ![c].file = a]
    /\ reserved' = [reserved EXCEPT ![c] = Bytes[c]]
    /\ UNCHANGED <<row, receipts>>

Transaction(a) ==
    /\ At(a, "stored")
    /\ Live(CommandOf[a], Size[a])
    /\ NameUpload(a) \/ NameReplacement(a) \/ NameClip(a)
    /\ UNCHANGED <<disk, expired, sweep>>

Commit(a) ==
    /\ Transaction(a)
    /\ GoAndRemove(a, IF CommandOf[a] \in Clips THEN "done" ELSE "release", request[a].seen)
    /\ UNCHANGED <<faults, left, lost>>

(* The handler cannot tell a COMMIT without an answer from one that failed. *)
CommitUnanswered(a) ==
    /\ faults < MaxFaults /\ faults' = faults + 1
    /\ Transaction(a)
    /\ GoAndRemove(a, IF CommandOf[a] \in Clips THEN "mark" ELSE "release", a)
    /\ lost' = lost \cup {a}
    /\ left' = left \cup ({request[a].seen} \ {None})

\* Mutant: the file of a late clip stays.
CommitTooLateKeeps(a) ==
    /\ At(a, "stored") /\ CommandOf[a] \in Clips
    /\ Live(CommandOf[a], Size[a])
    /\ candidate[CommandOf[a]].status # "PROCESSING"
    /\ Go(a, "done")
    /\ UNCHANGED <<row, disk, reserved, expired, receipts, candidate, sweep, faults, left, lost>>

(* A clip whose candidate was cancelled or has expired drops its file.      *)
CommitTooLate(a) ==
    /\ At(a, "stored") /\ CommandOf[a] \in Clips
    /\ Live(CommandOf[a], Size[a])
    /\ candidate[CommandOf[a]].status # "PROCESSING"
    /\ GoAndRemove(a, "done", a)
    /\ UNCHANGED <<row, disk, reserved, expired, receipts, candidate, sweep, faults, left, lost>>

(* Any error before the commit; before the reservation nothing is undone.   *)
Fail(a) ==
    /\ request[a].at \in {"prepared", "reserved", "inserted", "stored"}
    /\ GoAndRemove(a,
         CASE request[a].at = "prepared" -> "done"
           [] CommandOf[a] \notin Clips -> "release"
           [] request[a].at = "reserved" -> "done"
           [] OTHER -> "mark",
         IF request[a].at = "stored" THEN a ELSE None)
    /\ UNCHANGED <<row, disk, reserved, expired, receipts, candidate, sweep, faults, left, lost>>

(* A clip that failed gives its reservation back unless somebody else ended *)
(* the candidate.                                                           *)
MarkFailed(a) ==
    LET c == CommandOf[a] IN
    /\ At(a, "mark")
    /\ IF candidate[c].status = "PROCESSING"
       THEN candidate' = [candidate EXCEPT ![c].status = "FAILED"] /\ Go(a, "release")
       ELSE Go(a, "done") /\ UNCHANGED candidate
    /\ UNCHANGED <<row, disk, reserved, expired, receipts, sweep, faults, left, lost>>

Release(a) ==
    LET c == CommandOf[a] IN
    /\ At(a, "release")
    /\ reserved' = [reserved EXCEPT ![c] = 0]
    /\ expired' = expired \ {c}
    /\ Go(a, "done")
    /\ UNCHANGED <<row, disk, receipts, candidate, sweep, faults, left, lost>>

-----------------------------------------------------------------------------
(* Deleting an asset, saving and dropping a clip.                           *)

Delete(d, x) ==
    /\ At(d, "idle") /\ Room
    /\ Exists(x)
    /\ row' = [row EXCEPT ![x] = "deleted"]
    /\ GoAndRemove(d, "done", row[x])
    /\ UNCHANGED <<disk, reserved, expired, receipts, candidate, sweep, faults, left, lost>>

\* Mutant: a saved candidate stays READY.
SaveStaysReady(c) ==
    /\ candidate[c].status = "READY" /\ ~candidate[c].late /\ ~Exists(c)
    /\ Live(c, Bytes[c])
    /\ row' = [row EXCEPT ![c] = candidate[c].file]
    /\ reserved' = [reserved EXCEPT ![c] = 0]
    /\ UNCHANGED <<disk, expired, receipts, candidate, request, sweep, faults, left, lost>>

Save(c) ==
    /\ candidate[c].status = "READY" /\ ~candidate[c].late
    /\ Live(c, Bytes[c])
    /\ row' = [row EXCEPT ![c] = candidate[c].file]
    /\ candidate' = [candidate EXCEPT ![c].status = "SAVED", ![c].file = None]
    /\ reserved' = [reserved EXCEPT ![c] = 0]
    /\ UNCHANGED <<disk, expired, receipts, request, sweep, faults, left, lost>>

Cancel(d) ==
    LET c == TargetOf[d] IN
    /\ At(d, "idle") /\ Room
    /\ candidate[c].status \notin {"NONE", "SAVED"}
    /\ candidate' = [candidate EXCEPT ![c].status = "CANCELLED", ![c].file = None]
    /\ reserved' = [reserved EXCEPT ![c] = 0]
    /\ expired' = expired \ {c}
    /\ GoAndRemove(d, "done", candidate[c].file)
    /\ UNCHANGED <<row, disk, receipts, sweep, faults, left, lost>>

(* removeStoredUpload: a file that is not there is as good as removed.      *)
Unlink(r) ==
    /\ request[r].trash # None
    /\ disk' = disk \ {request[r].trash}
    /\ request' = [request EXCEPT ![r].trash = None]
    /\ UNCHANGED <<row, reserved, expired, receipts, candidate, sweep, faults, left, lost>>

UnlinkFails(r) ==
    /\ faults < MaxFaults /\ faults' = faults + 1
    /\ request[r].trash # None
    /\ left' = left \cup (disk \cap {request[r].trash})
    /\ request' = [request EXCEPT ![r].trash = None]
    /\ UNCHANGED <<row, disk, reserved, expired, receipts, candidate, sweep, lost>>

-----------------------------------------------------------------------------
(* The timer of the audio clips, once a minute.                             *)

Expirable(c) == candidate[c].status \in {"PROCESSING", "READY"} /\ candidate[c].late

Sweep ==
    LET old == {c \in Clips : Expirable(c)} IN
    /\ old # {}
    /\ candidate' = [c \in Clips |->
            IF c \in old THEN [candidate[c] EXCEPT !.status = "EXPIRED"] ELSE candidate[c]]
    /\ sweep' = [c \in Clips |-> 
            IF c \in old THEN [at |-> "unlink", file |-> candidate[c].file] ELSE sweep[c]]
    /\ UNCHANGED <<row, disk, reserved, expired, receipts, request, faults, left, lost>>

SweepUnlink(c) ==
    /\ sweep[c].at \in {"unlink", "astray"}
    /\ disk' = disk \ {sweep[c].file}
    /\ sweep' = [sweep EXCEPT ![c] =
           IF sweep[c].at = "unlink" THEN [at |-> "release", file |-> None] ELSE Unswept]
    /\ UNCHANGED <<row, reserved, expired, receipts, candidate, request, faults, left, lost>>

(* A removal that fails ends its pass: the others go on, but nothing is     *)
(* released any more, and nobody tries the file of this candidate again.    *)
SweepFails(c) ==
    /\ faults < MaxFaults /\ faults' = faults + 1
    /\ sweep[c].at \in {"unlink", "astray"} /\ sweep[c].file # None
    /\ left' = left \cup (disk \cap {sweep[c].file})
    /\ sweep' = IF sweep[c].at = "astray" THEN [sweep EXCEPT ![c] = Unswept]
                ELSE [d \in Clips |->
                        CASE d = c \/ sweep[d].at = "release" -> Unswept
                          [] d # c /\ sweep[d].at = "unlink" -> [sweep[d] EXCEPT !.at = "astray"]
                          [] OTHER -> sweep[d]]
    /\ UNCHANGED <<row, disk, reserved, expired, receipts, candidate, request, lost>>

SweepRelease(c) ==
    /\ sweep[c].at = "release" /\ \A d \in Clips : sweep[d].at # "unlink"
    /\ reserved' = [reserved EXCEPT ![c] = 0]
    /\ expired' = expired \ {c}
    /\ sweep' = [sweep EXCEPT ![c] = Unswept]
    /\ UNCHANGED <<row, disk, receipts, candidate, request, faults, left, lost>>

SweepReservations ==
    /\ expired # {} /\ \A c \in Clips : sweep[c].at \in {"no", "astray"}
    /\ reserved' = Purged /\ expired' = {}
    /\ UNCHANGED <<row, disk, receipts, candidate, request, sweep, faults, left, lost>>

-----------------------------------------------------------------------------
(* Time and the end of the process.                                         *)

Late(c) ==
    /\ candidate[c].status \in {"PROCESSING", "READY"} /\ ~candidate[c].late
    /\ candidate' = [candidate EXCEPT ![c].late = TRUE]
    /\ UNCHANGED <<row, disk, reserved, expired, receipts, request, sweep, faults, left, lost>>

(* Thirty minutes from the request that made the reservation: a retry that  *)
(* finds it does not extend it, so it may run out before the candidate.     *)
Expire(c) ==
    /\ reserved[c] # 0 /\ c \notin expired
    /\ expired' = expired \cup {c}
    /\ UNCHANGED <<row, disk, reserved, receipts, candidate, request, sweep, faults, left, lost>>

Crash ==
    /\ faults < MaxFaults /\ faults' = faults + 1
    /\ left' = left \cup (disk \cap Held)
    /\ request' = [r \in Requests |-> IF request[r].at = "idle" THEN Idle
                                      ELSE [Idle EXCEPT !.at = "done"]]
    /\ sweep' = [c \in Clips |-> Unswept]
    /\ UNCHANGED <<row, disk, reserved, expired, receipts, candidate, lost>>

Next ==
    \/ \E a \in Attempts :
         \/ Start(a) \/ Reserve(a) \/ Insert(a) \/ Store(a) \/ Commit(a) \/ CommitUnanswered(a)
         \/ CommitTooLate(a) \/ Fail(a) \/ MarkFailed(a) \/ Release(a)
    \/ \E d \in Deletions, x \in Assets : Delete(d, x)
    \/ \E d \in Cancels : Cancel(d)
    \/ \E r \in Requests : Unlink(r) \/ UnlinkFails(r)
    \/ \E c \in Clips : Save(c) \/ Late(c) \/ SweepUnlink(c) \/ SweepFails(c) \/ SweepRelease(c)
    \/ Sweep \/ SweepReservations \/ Crash
    \/ \E c \in Slow : Expire(c)

Spec == Init /\ [][Next]_vars

-----------------------------------------------------------------------------
(* The files that rows name never take more than the quota, although a      *)
(* reservation for a replacement is made over it by the size of the file    *)
(* that is to go, reservations run out while a file is written, and several *)
(* attempts share one (media-quota-reservations.ts).                        *)
QuotaHolds == Sum(Size, Named) <= Quota

(* A file that a row names, or that a clip on offer would name, is there,   *)
(* also after a crash between the steps; asset-routes.ts:226 calls it       *)
(* "authoritative media" from the commit on.  The exception are attempts    *)
(* that never learned of their own commit.                                  *)
NamedFilesExist == Named \cup Offered \subseteq disk \cup lost

(* Every file is named, or a handler or the timer will still remove it,     *)
(* unless a fault took that away from them.                                 *)
NothingLeftBehind == disk \subseteq Named \cup Offered \cup Held \cup left

(* A deleted asset does not come back with a late commit or with the retry  *)
(* of its upload, which finds a receipt whose asset is gone and uploads     *)
(* again (asset-routes.ts:462).                                             *)
DeletedStaysDeleted ==
    [][\A x \in Assets : row[x] = "deleted" => row'[x] = "deleted"]_vars

-----------------------------------------------------------------------------
(* The strengthening the proofs rest on.                                    *)

Unfinished == {"idle", "prepared", "reserved", "inserted", "stored"}

TypeOK ==
    /\ row \in [Assets -> Files \cup {"never", "deleted"}]
    /\ disk \subseteq Files
    /\ receipts \subseteq Commands
    /\ candidate \in [Clips ->
           [status : {"NONE", "PROCESSING", "READY", "FAILED", "SAVED", "CANCELLED", "EXPIRED"},
            file : Attempts \cup {None}, late : BOOLEAN]]
    /\ request \in [Requests ->
           [at : Unfinished \cup {"mark", "release", "done"},
            seen : Files \cup {None}, trash : Files \cup {None}]]
    /\ sweep \in [Clips -> [at : {"no", "unlink", "astray", "release"}, file : Attempts \cup {None}]]

(* The only asset that may ever name a file.                                *)
OwnerOf(f) == IF f \in Initial THEN f
              ELSE IF CommandOf[f] \in Replaces THEN TargetOf[CommandOf[f]] ELSE CommandOf[f]

InUse(f) == \/ \E x \in Assets : row[x] = f
            \/ \E c \in Clips : candidate[c].status = "READY" /\ candidate[c].file = f
Doomed(f) == \/ \E r \in Requests : request[r].trash = f
             \/ \E c \in Clips : sweep[c].file = f
Written(f) == f \in Attempts /\ request[f].at = "stored"

RowsAgree ==
    /\ \A x \in Assets : row[x] \in Files => OwnerOf(row[x]) = x
    /\ \A c \in Uploads : row[c] # "never" => c \in receipts
    /\ \A c \in Clips : row[c] # "never" => candidate[c].status = "SAVED"

ClipAgrees(c) ==
    /\ candidate[c].status = "READY" => candidate[c].file # None
    /\ candidate[c].file # None =>
           /\ CommandOf[candidate[c].file] = c
           /\ candidate[c].status \in {"READY", "EXPIRED"}
           /\ \A x \in Assets : row[x] # candidate[c].file
    /\ sweep[c].file # None =>
           /\ sweep[c].at \in {"unlink", "astray"}
           /\ candidate[c].status \notin {"NONE", "PROCESSING", "READY"}

(* An attempt that has not committed owns a file nobody else knows of.      *)
AttemptAgrees(a) ==
    /\ request[a].at \in Unfinished =>
           ~InUse(a) /\ ~Doomed(a) /\ \A c \in Clips : candidate[c].file # a
    /\ request[a].at = "stored" => a \in disk
    /\ CommandOf[a] \notin Replaces => request[a].seen = None
    /\ CommandOf[a] \in Replaces /\ request[a].at \in {"prepared", "reserved", "stored"} =>
           request[a].seen \in Files

(* What is to be removed is not in use, what is in use is there, and what   *)
(* is there is in use, or will be, or is to be removed.                     *)
FilesAgree ==
    /\ \A f \in Files \ lost : Doomed(f) => ~InUse(f)
    /\ \A f \in Files : InUse(f) => f \in disk \cup lost
    /\ \A f \in disk : InUse(f) \/ Doomed(f) \/ Written(f) \/ f \in left

IInv ==
    /\ TypeOK /\ RowsAgree /\ FilesAgree
    /\ \A c \in Clips : ClipAgrees(c)
    /\ \A r \in Requests : request[r].at \in Unfinished => request[r].trash = None
    /\ \A a \in Attempts : AttemptAgrees(a)

(* What an asset may still come to: what it takes now, or what is reserved  *)
(* for a command that would give it another file.  Whatever of this comes   *)
(* true for each asset, all of them together stay within the quota; the     *)
(* credit of a replacement is what lets its asset take the reserved bytes   *)
(* instead of, and not on top of, those of its file.                        *)
Waiting(x) ==
    {c \in Commands : IF c \in Replaces THEN Exists(x) /\ TargetOf[c] = x
                                        ELSE row[x] = "never" /\ c = x}

MayTake(x, n) ==
    \/ n = 0
    \/ Exists(x) /\ n <= Size[row[x]]
    \/ \E c \in Waiting(x) : n <= reserved[c]

QuotaAgrees ==
    /\ reserved \in [Commands -> Nat]
    /\ \A c \in Replaces : row[TargetOf[c]] = "never" => reserved[c] = 0
    /\ \A take \in [Assets -> Nat] :
          (\A x \in Assets : MayTake(x, take[x])) => Sum(take, Assets) <= Quota
=============================================================================
