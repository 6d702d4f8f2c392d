------------------------- MODULE MediaLibraryProofs -------------------------
(***************************************************************************)
(* Files and rows of MediaLibrary for any number of assets, commands,      *)
(* requests and faults.  The argument follows the life of a file: it       *)
(* belongs to the one attempt that wrote it until a commit names it, only  *)
(* its owner may name it, and it is marked for removal when nothing names  *)
(* it any more.                                                            *)
(***************************************************************************)
EXTENDS MediaLibrary, Integers, FiniteSetTheorems, WellFoundedInduction, TLAPS

States == {"NONE", "PROCESSING", "READY", "FAILED", "SAVED", "CANCELLED", "EXPIRED"}
Candidate == [status : States, file : Attempts \cup {None}, late : BOOLEAN]
Progress == [at : Unfinished \cup {"mark", "release", "done"},
             seen : Files \cup {None}, trash : Files \cup {None}]
Removal == [at : {"no", "unlink", "astray", "release"}, file : Attempts \cup {None}]

-----------------------------------------------------------------------------
(* What the constants and the types say of single elements.                *)

LEMMA Constants ==
    /\ None \notin Files /\ "never" \notin Files /\ "deleted" \notin Files
    /\ Initial \subseteq Files /\ Attempts \subseteq Files /\ Initial \cap Attempts = {}
    /\ Attempts \subseteq Requests /\ Deletions \subseteq Requests /\ Cancels \subseteq Requests
    /\ \A a \in Attempts : CommandOf[a] \in Commands
    /\ \A c \in Replaces : TargetOf[c] \in Assets /\ c \notin Uploads /\ c \notin Clips
    /\ \A c \in Uploads : c \in Assets /\ c \notin Clips
    /\ Clips \subseteq Assets
    /\ \A d \in Cancels : TargetOf[d] \in Clips
    /\ \A d \in Deletions \cup Cancels : d \notin Attempts
  BY MediaAssumption DEF Files, Requests, Commands, Assets

LEMMA RequestType ==
    ASSUME TypeOK, NEW r \in Requests
    PROVE  /\ request[r] \in Progress
           /\ request[r].at \in Unfinished \cup {"mark", "release", "done"}
           /\ request[r].seen \in Files \cup {None}
           /\ request[r].trash \in Files \cup {None}
  BY DEF TypeOK, Progress

(* The one request a step moves.                                           *)
LEMMA GoFields ==
    ASSUME TypeOK, NEW r \in Requests, NEW s \in Unfinished \cup {"mark", "release", "done"},
           NEW f \in Files \cup {None}, GoAndRemove(r, s, f)
    PROVE  /\ request'[r].at = s /\ request'[r].trash = f
           /\ request'[r].seen = IF s \in {"reserved", "stored"} THEN request[r].seen ELSE None
           /\ \A q \in Requests \ {r} : request'[q] = request[q]
           /\ request' \in [Requests -> Progress]
<1> DEFINE new == [at |-> s, trash |-> f,
                   seen |-> IF s \in {"reserved", "stored"} THEN request[r].seen ELSE None]
<1>1. request \in [Requests -> Progress]
  BY DEF TypeOK, Progress
<1>2. new \in Progress
  BY RequestType DEF Progress
<1>3. request' = [request EXCEPT ![r] = new]
  BY DEF GoAndRemove
<1> HIDE DEF new
<1>4. request'[r] = new /\ \A q \in Requests \ {r} : request'[q] = request[q]
  BY <1>1, <1>3
<1>5. request' \in [Requests -> Progress]
  BY <1>1, <1>2, <1>3
<1> QED
  BY <1>4, <1>5 DEF new

(* The one candidate a step moves.                                         *)
LEMMA CandidateFields ==
    ASSUME TypeOK, NEW c \in Clips, NEW s \in States, NEW f \in Attempts \cup {None},
           candidate' = [candidate EXCEPT ![c].status = s, ![c].file = f]
    PROVE  /\ candidate'[c].status = s /\ candidate'[c].file = f
           /\ \A d \in Clips \ {c} : candidate'[d] = candidate[d]
           /\ candidate' \in [Clips -> Candidate]
<1>1. candidate \in [Clips -> Candidate]
  BY DEF TypeOK, Candidate, States
<1>2. candidate[c] \in Candidate
  BY <1>1
<1>3. [candidate[c] EXCEPT !.status = s, !.file = f] \in Candidate
  BY <1>2 DEF Candidate
<1> QED
  BY <1>1, <1>2, <1>3 DEF Candidate

LEMMA StatusFields ==
    ASSUME TypeOK, NEW c \in Clips, NEW s \in States,
           candidate' = [candidate EXCEPT ![c].status = s]
    PROVE  /\ candidate'[c].status = s /\ candidate'[c].file = candidate[c].file
           /\ \A d \in Clips \ {c} : candidate'[d] = candidate[d]
           /\ candidate' \in [Clips -> Candidate]
<1>1. candidate \in [Clips -> Candidate]
  BY DEF TypeOK, Candidate, States
<1>2. candidate[c] \in Candidate
  BY <1>1
<1>3. [candidate[c] EXCEPT !.status = s] \in Candidate
  BY <1>2 DEF Candidate
<1> QED
  BY <1>1, <1>2, <1>3 DEF Candidate

-----------------------------------------------------------------------------
(* Steps that leave files, rows and removals alone.                        *)

LEMMA QuietKeepsIInv ==
    ASSUME IInv, TypeOK', UNCHANGED <<row, disk, receipts, sweep, left, lost>>,
           \A c \in Clips :
               /\ candidate'[c].file = candidate[c].file
               /\ \/ candidate'[c].status = candidate[c].status
                  \/ candidate[c].status = "NONE" /\ candidate'[c].status = "PROCESSING"
                  \/ candidate[c].status = "PROCESSING" /\ candidate'[c].status = "FAILED",
           \A r \in Requests :
               /\ request'[r].trash = request[r].trash
               /\ request'[r].at \in Unfinished => request[r].at \in Unfinished
               /\ request'[r].at = "stored" <=> request[r].at = "stored",
           \A a \in Attempts :
               /\ CommandOf[a] \notin Replaces => request'[a].seen = None
               /\ CommandOf[a] \in Replaces
                      /\ request'[a].at \in {"prepared", "reserved", "stored"} =>
                      request'[a].seen \in Files
    PROVE  IInv'
<1>1. \A f : InUse(f)' <=> InUse(f)
  BY DEF InUse
<1>2. \A f : Doomed(f)' <=> Doomed(f)
  BY DEF Doomed
<1>3. \A f : Written(f)' <=> Written(f)
  BY Constants DEF Written
<1>4. FilesAgree'
  BY <1>1, <1>2, <1>3 DEF IInv, FilesAgree
<1>5. RowsAgree'
  BY DEF IInv, RowsAgree
<1>6. ASSUME NEW c \in Clips PROVE ClipAgrees(c)'
  BY DEF IInv, ClipAgrees
<1>7. ASSUME NEW a \in Attempts PROVE AttemptAgrees(a)'
  BY <1>1, <1>2, Constants DEF IInv, AttemptAgrees
<1> QED
  BY <1>4, <1>5, <1>6, <1>7 DEF IInv

(* A request goes on, or ends, with nothing to remove.                     *)
LEMMA GoKeepsIInv ==
    ASSUME IInv, NEW r \in Requests, NEW s \in Unfinished \cup {"mark", "release", "done"},
           Go(r, s), request[r].trash = None,
           request[r].at # "stored", s # "stored", s # "idle", s # "prepared",
           s \in Unfinished => request[r].at \in Unfinished,
           s = "reserved" => request[r].at = "prepared",
           UNCHANGED <<row, disk, receipts, sweep, left, lost>>,
           candidate' \in [Clips -> Candidate],
           \A c \in Clips :
               /\ candidate'[c].file = candidate[c].file
               /\ \/ candidate'[c].status = candidate[c].status
                  \/ candidate[c].status = "NONE" /\ candidate'[c].status = "PROCESSING"
                  \/ candidate[c].status = "PROCESSING" /\ candidate'[c].status = "FAILED"
    PROVE  IInv'
<1>1. /\ request'[r].at = s /\ request'[r].trash = None
      /\ request'[r].seen = IF s = "reserved" THEN request[r].seen ELSE None
      /\ \A q \in Requests \ {r} : request'[q] = request[q]
      /\ request' \in [Requests -> Progress]
  BY GoFields DEF IInv, Go
<1>2. TypeOK'
  BY <1>1 DEF IInv, TypeOK, Progress, Candidate, States
<1>3. ASSUME NEW a \in Attempts
      PROVE  /\ CommandOf[a] \notin Replaces => request'[a].seen = None
             /\ CommandOf[a] \in Replaces
                    /\ request'[a].at \in {"prepared", "reserved", "stored"} =>
                    request'[a].seen \in Files
  <2>1. AttemptAgrees(a) /\ a \in Requests
    BY Constants DEF IInv
  <2>2. CASE a = r
    BY <1>1, <2>1, <2>2 DEF AttemptAgrees
  <2>3. CASE a # r
    BY <1>1, <2>1, <2>3 DEF AttemptAgrees
  <2> QED
    BY <2>2, <2>3
<1>4. \A q \in Requests :
          /\ request'[q].trash = request[q].trash
          /\ request'[q].at \in Unfinished => request[q].at \in Unfinished
          /\ request'[q].at = "stored" <=> request[q].at = "stored"
  BY <1>1
<1> QED
  BY <1>2, <1>3, <1>4, QuietKeepsIInv

QuietStep ==
    \/ \E a \in Attempts : Start(a) \/ Reserve(a) \/ Insert(a) \/ MarkFailed(a) \/ Release(a)
    \/ \E c \in Clips : Late(c)
    \/ SweepReservations
    \/ \E c \in Slow : Expire(c)

LEMMA QuietStepKeepsIInv == IInv /\ QuietStep => IInv'
<1> SUFFICES ASSUME IInv, QuietStep PROVE IInv'
  OBVIOUS
<1>1. \A c \in Clips : candidate'[c] = candidate[c] =>
          candidate'[c].file = candidate[c].file /\ candidate'[c].status = candidate[c].status
  OBVIOUS
<1>2. candidate \in [Clips -> Candidate]
  BY DEF IInv, TypeOK, Candidate, States
<1>3. ASSUME NEW a \in Attempts, Start(a) PROVE IInv'
  <2> DEFINE seen == IF CommandOf[a] \in Replaces THEN row[TargetOf[CommandOf[a]]] ELSE None
             new == [request[a] EXCEPT !.at = "prepared", !.seen = seen]
  <2>1. request[a] \in Progress /\ a \in Requests
    BY RequestType, Constants DEF IInv
  <2>2. seen \in Files \cup {None} /\ (CommandOf[a] \in Replaces => seen \in Files)
        /\ (CommandOf[a] \notin Replaces => seen = None)
    BY <1>3 DEF Start, Exists
  <2>3. request' = [request EXCEPT ![a] = new]
    BY <1>3, <2>1 DEF Start, IInv, TypeOK
  <2>4. new \in Progress /\ new.at = "prepared" /\ new.seen = seen
        /\ new.trash = request[a].trash
    BY <2>1, <2>2 DEF Progress, Unfinished
  <2> HIDE DEF new, seen
  <2>5. request' \in [Requests -> Progress] /\ request'[a] = new
        /\ \A q \in Requests \ {a} : request'[q] = request[q]
    BY <2>1, <2>3, <2>4 DEF IInv, TypeOK, Progress
  <2>6. TypeOK'
    BY <1>3, <2>5 DEF Start, IInv, TypeOK, Progress
  <2>7. \A q \in Requests :
          /\ request'[q].trash = request[q].trash
          /\ request'[q].at \in Unfinished => request[q].at \in Unfinished
          /\ request'[q].at = "stored" <=> request[q].at = "stored"
    BY <1>3, <2>4, <2>5 DEF Start, At, Unfinished
  <2>8. ASSUME NEW b \in Attempts
        PROVE  /\ CommandOf[b] \notin Replaces => request'[b].seen = None
               /\ CommandOf[b] \in Replaces
                      /\ request'[b].at \in {"prepared", "reserved", "stored"} =>
                      request'[b].seen \in Files
    <3>1. AttemptAgrees(b) /\ b \in Requests
      BY Constants DEF IInv
    <3> QED
      BY <2>2, <2>4, <2>5, <3>1 DEF AttemptAgrees
  <2> QED
    BY <1>3, <2>6, <2>7, <2>8, QuietKeepsIInv DEF Start
<1>4. ASSUME NEW a \in Attempts, Reserve(a) PROVE IInv'
  BY <1>2, <1>4, Constants, GoKeepsIInv DEF Reserve, At, Unfinished
<1>5. ASSUME NEW a \in Attempts, Insert(a) PROVE IInv'
  <2> DEFINE c == CommandOf[a]
  <2>1. CASE candidate[c].status = "NONE"
    <3>1. /\ candidate'[c].status = "PROCESSING" /\ candidate'[c].file = candidate[c].file
          /\ \A d \in Clips \ {c} : candidate'[d] = candidate[d]
          /\ candidate' \in [Clips -> Candidate]
      BY <1>5, <2>1, StatusFields DEF Insert, IInv, States
    <3> QED
      BY <1>5, <2>1, <3>1, Constants, GoKeepsIInv DEF Insert, At, Unfinished
  <2>2. CASE candidate[c].status # "NONE"
    BY <1>2, <1>5, <2>2, Constants, GoKeepsIInv DEF Insert, At, Unfinished
  <2> QED
    BY <2>1, <2>2
<1>6. ASSUME NEW a \in Attempts, MarkFailed(a) PROVE IInv'
  <2> DEFINE c == CommandOf[a]
  <2>1. CASE candidate[c].status = "PROCESSING" /\ c \in Clips
    <3>1. /\ candidate'[c].status = "FAILED" /\ candidate'[c].file = candidate[c].file
          /\ \A d \in Clips \ {c} : candidate'[d] = candidate[d]
          /\ candidate' \in [Clips -> Candidate]
      BY <1>6, <2>1, StatusFields DEF MarkFailed, IInv, States
    <3> QED
      BY <1>6, <2>1, <3>1, Constants, GoKeepsIInv DEF MarkFailed, At, Unfinished
  <2>2. CASE candidate[c].status # "PROCESSING"
    BY <1>2, <1>6, <2>2, Constants, GoKeepsIInv DEF MarkFailed, At, Unfinished
  <2>3. CASE c \notin Clips
    <3>1. candidate' = candidate
      BY <1>2, <1>6, <2>3 DEF MarkFailed
    <3> QED
      BY <1>2, <1>6, <3>1, Constants, GoKeepsIInv DEF MarkFailed, At, Unfinished
  <2> QED
    BY <2>1, <2>2, <2>3
<1>7. ASSUME NEW a \in Attempts, Release(a) PROVE IInv'
  BY <1>2, <1>7, Constants, GoKeepsIInv DEF Release, At, Unfinished
<1>8. ASSUME NEW c \in Clips, Late(c) PROVE IInv'
  <2>1. candidate' \in [Clips -> Candidate]
        /\ \A d \in Clips : candidate'[d].file = candidate[d].file
                             /\ candidate'[d].status = candidate[d].status
    <3>1. [candidate[c] EXCEPT !.late = TRUE] \in Candidate
      BY <1>2 DEF Candidate
    <3> QED
      BY <1>2, <1>8, <3>1 DEF Late, Candidate
  <2>2. TypeOK'
    BY <1>8, <2>1 DEF Late, IInv, TypeOK, Candidate, States
  <2>3. \A a \in Attempts : AttemptAgrees(a)
    BY DEF IInv
  <2> QED
    BY <1>8, <2>1, <2>2, <2>3, QuietKeepsIInv DEF Late, AttemptAgrees
<1>9. CASE UNCHANGED <<row, disk, receipts, candidate, request, sweep, faults, left, lost>>
  <2>1. TypeOK' /\ \A a \in Attempts : AttemptAgrees(a)
    BY <1>9 DEF IInv, TypeOK
  <2> QED
    BY <1>9, <2>1, QuietKeepsIInv DEF AttemptAgrees
<1> QED
  BY <1>3, <1>4, <1>5, <1>6, <1>7, <1>8, <1>9 DEF QuietStep, SweepReservations, Expire

-----------------------------------------------------------------------------
(* Steps that write a file or mark one for removal.                        *)

LEMMA AttemptIs ==
    ASSUME IInv, NEW a \in Attempts
    PROVE  AttemptAgrees(a) /\ a \in Requests /\ a \in Files /\ CommandOf[a] \in Commands
           /\ (request[a].at \in Unfinished => request[a].trash = None)
  BY Constants DEF IInv

(* The file of an attempt is written.                                      *)
LEMMA StoreKeepsIInv == ASSUME IInv, NEW a \in Attempts, Store(a) PROVE IInv'
<1>1. request[a].at \in {"reserved", "inserted"} /\ request[a].trash = None
  BY DEF Store, At
<1>2. /\ request'[a].at = "stored" /\ request'[a].trash = None
      /\ request'[a].seen = request[a].seen
      /\ \A q \in Requests \ {a} : request'[q] = request[q]
      /\ request' \in [Requests -> Progress]
  BY GoFields, AttemptIs DEF Store, Go, IInv, Unfinished
<1>3. TypeOK'
  BY <1>2, AttemptIs DEF Store, IInv, TypeOK, Progress
<1>4. \A f : InUse(f)' <=> InUse(f)
  BY DEF Store, InUse
<1>5. \A f : Doomed(f)' <=> Doomed(f)
  BY <1>1, <1>2 DEF Store, Doomed
<1>6. Written(a)' /\ \A f : Written(f) => Written(f)'
  BY <1>1, <1>2, Constants DEF Written
<1>7. FilesAgree'
  BY <1>4, <1>5, <1>6 DEF Store, IInv, FilesAgree
<1>8. RowsAgree' /\ \A c \in Clips : ClipAgrees(c)'
  BY DEF Store, IInv, RowsAgree, ClipAgrees
<1>9. ASSUME NEW b \in Attempts PROVE AttemptAgrees(b)'
  <2>1. CASE b = a
    <3>1. CommandOf[a] \in Replaces => request[a].at = "reserved"
      BY Constants DEF Store, At
    <3> QED
      BY <1>1, <1>2, <1>4, <1>5, <2>1, <3>1, AttemptIs DEF Store, AttemptAgrees, Unfinished
  <2>2. CASE b # a
    BY <1>2, <1>4, <1>5, <2>2, AttemptIs DEF Store, AttemptAgrees
  <2> QED
    BY <2>1, <2>2
<1>10. \A r \in Requests : request'[r].at \in Unfinished => request'[r].trash = None
  BY <1>2 DEF IInv
<1> QED
  BY <1>3, <1>7, <1>8, <1>9, <1>10 DEF IInv

(* An attempt ends without a commit: the file it has written is to go.     *)
LEMMA DropKeepsIInv ==
    ASSUME IInv, NEW a \in Attempts, NEW s \in {"mark", "release", "done"},
           request[a].at \in Unfinished,
           GoAndRemove(a, s, IF request[a].at = "stored" THEN a ELSE None),
           UNCHANGED <<row, disk, receipts, candidate, sweep, left, lost>>
    PROVE  IInv'
<1> DEFINE g == IF request[a].at = "stored" THEN a ELSE None
<1>1. /\ request'[a].at = s /\ request'[a].trash = g /\ request'[a].seen = None
      /\ \A q \in Requests \ {a} : request'[q] = request[q]
      /\ request' \in [Requests -> Progress]
  BY GoFields, AttemptIs DEF IInv
<1>2. TypeOK'
  BY <1>1 DEF IInv, TypeOK, Progress
<1>3. \A f : InUse(f)' <=> InUse(f)
  BY DEF InUse
<1>4. \A f \in Files : Doomed(f)' <=> Doomed(f) \/ f = g
  BY <1>1, AttemptIs, Constants DEF Doomed
<1>5. \A f : Written(f) => Written(f)' \/ f = g
  BY <1>1, Constants DEF Written
<1>6. g # None => g = a /\ ~InUse(a)
  BY AttemptIs DEF AttemptAgrees
<1>7. FilesAgree'
  <2>1. disk \subseteq Files
    BY DEF IInv, TypeOK
  <2> QED
    BY <1>3, <1>4, <1>5, <1>6, <2>1, Constants DEF IInv, FilesAgree
<1>8. RowsAgree' /\ \A c \in Clips : ClipAgrees(c)'
  BY DEF IInv, RowsAgree, ClipAgrees
<1>9. ASSUME NEW b \in Attempts PROVE AttemptAgrees(b)'
  <2>1. CASE b = a
    BY <1>1, <2>1 DEF AttemptAgrees, Unfinished
  <2>2. CASE b # a
    <3>1. b # g /\ b \in Files /\ b \in Requests
      BY <2>2, AttemptIs, Constants
    <3> QED
      BY <1>1, <1>3, <1>4, <2>2, <3>1, AttemptIs DEF AttemptAgrees
  <2> QED
    BY <2>1, <2>2
<1>10. \A r \in Requests : request'[r].at \in Unfinished => request'[r].trash = None
  BY <1>1 DEF IInv, Unfinished
<1> QED
  BY <1>2, <1>7, <1>8, <1>9, <1>10 DEF IInv

LEMMA FailKeepsIInv == ASSUME IInv, NEW a \in Attempts, Fail(a) PROVE IInv'
<1> DEFINE s == CASE request[a].at = "prepared" -> "done"
                  [] CommandOf[a] \notin Clips -> "release"
                  [] request[a].at = "reserved" -> "done"
                  [] OTHER -> "mark"
<1>1. s \in {"mark", "release", "done"} /\ request[a].at \in Unfinished
  BY DEF Fail, Unfinished
<1>2. GoAndRemove(a, s, IF request[a].at = "stored" THEN a ELSE None)
  BY DEF Fail
<1> QED
  BY <1>1, <1>2, DropKeepsIInv DEF Fail

LEMMA CommitTooLateKeepsIInv ==
    ASSUME IInv, NEW a \in Attempts, CommitTooLate(a) PROVE IInv'
  BY DropKeepsIInv DEF CommitTooLate, At, Unfinished

-----------------------------------------------------------------------------
(* Commits.  The file an attempt has written becomes that of its owner; the *)
(* file it replaces is to go, or, when the answer to the commit is lost,    *)
(* the new file itself.                                                     *)

LEMMA NameRowKeepsIInv ==
    ASSUME IInv, NEW a \in Attempts, NEW s \in {"mark", "release", "done"},
           NEW g \in {request[a].seen, a}, NEW x \in Assets,
           At(a, "stored"), GoAndRemove(a, s, g),
           x = OwnerOf(a), row' = [row EXCEPT ![x] = a],
           \/ row[x] = "never" /\ request[a].seen = None /\ x \in Uploads /\ x \in receipts'
           \/ row[x] = request[a].seen /\ request[a].seen \in Files,
           receipts \subseteq receipts', receipts' \subseteq Commands,
           UNCHANGED <<disk, candidate, sweep>>,
           lost \subseteq lost', left \subseteq left',
           g = a => a \in lost' /\ request[a].seen \in left' \cup {None}
    PROVE  IInv'
<1> DEFINE old == request[a].seen
<1>1. /\ ~InUse(a) /\ ~Doomed(a) /\ a \in disk /\ request[a].trash = None
      /\ \A c \in Clips : candidate[c].file # a
  BY AttemptIs DEF AttemptAgrees, At, Unfinished
<1>2. old \in Files \cup {None} /\ a \in Files /\ a \in Requests
  BY AttemptIs, RequestType DEF IInv
<1>3. /\ request'[a].at = s /\ request'[a].trash = g /\ request'[a].seen = None
      /\ \A q \in Requests \ {a} : request'[q] = request[q]
      /\ request' \in [Requests -> Progress]
  BY <1>2, GoFields DEF IInv
<1>4. row'[x] = a /\ (\A y \in Assets \ {x} : row'[y] = row[y])
      /\ row' \in [Assets -> Files \cup {"never", "deleted"}]
  BY <1>2 DEF IInv, TypeOK
<1>5. TypeOK'
  BY <1>3, <1>4 DEF IInv, TypeOK, Progress
<1>6. \A f : InUse(f)' => InUse(f) \/ f = a
  BY <1>4 DEF InUse
<1>7. \A f : InUse(f) => InUse(f)' \/ f = row[x]
  BY <1>4 DEF InUse
<1>8. InUse(a)'
  BY <1>4 DEF InUse
<1>9. \A f \in Files : Doomed(f)' <=> Doomed(f) \/ f = g
  BY <1>1, <1>2, <1>3, Constants DEF Doomed
<1>10. \A f : Written(f) => Written(f)' \/ f = a
  BY <1>3, Constants DEF Written
<1>11. ASSUME NEW f \in Files, f = old PROVE InUse(f) /\ ~InUse(f)'
  <2>1. row[x] = f
    BY <1>11, Constants
  <2>2. InUse(f) /\ f # a
    BY <1>1, <2>1 DEF InUse
  <2>3. \A y \in Assets : row[y] = f => y = x
    BY <2>1 DEF IInv, RowsAgree
  <2>4. \A c \in Clips : candidate[c].file # f
    BY <2>1, Constants DEF IInv, ClipAgrees
  <2> QED
    BY <1>4, <2>2, <2>3, <2>4 DEF InUse
<1>12. FilesAgree'
  <2>1. \A f \in Files \ lost' : Doomed(f)' => ~InUse(f)'
    BY <1>1, <1>2, <1>6, <1>9, <1>11 DEF IInv, FilesAgree
  <2>2. \A f \in Files : InUse(f)' => f \in disk \cup lost'
    BY <1>1, <1>6 DEF IInv, FilesAgree
  <2>3. \A f \in disk : InUse(f)' \/ Doomed(f)' \/ Written(f)' \/ f \in left'
    <3>1. disk \subseteq Files
      BY DEF IInv, TypeOK
    <3>2. \A f \in Files : f = row[x] => f = old
      BY Constants
    <3> QED
      BY <1>2, <1>7, <1>8, <1>9, <1>10, <3>1, <3>2, Constants DEF IInv, FilesAgree
  <2> QED
    BY <2>1, <2>2, <2>3 DEF FilesAgree
<1>13. RowsAgree'
  <2>1. \A y \in Assets : row'[y] \in Files => OwnerOf(row'[y]) = y
    BY <1>4 DEF IInv, RowsAgree
  <2>2. \A c \in Uploads : row'[c] # "never" => c \in receipts'
    BY <1>4, Constants DEF IInv, RowsAgree
  <2>3. \A c \in Clips : row'[c] # "never" => candidate'[c].status = "SAVED"
    BY <1>4, Constants DEF IInv, RowsAgree
  <2> QED
    BY <2>1, <2>2, <2>3 DEF RowsAgree, OwnerOf
<1>14. \A c \in Clips : ClipAgrees(c)'
  BY <1>1, <1>4 DEF IInv, ClipAgrees
<1>15. ASSUME NEW b \in Attempts PROVE AttemptAgrees(b)'
  <2>1. CASE b = a
    BY <1>3, <2>1 DEF AttemptAgrees, Unfinished
  <2>2. CASE b # a
    <3>1. b \in Files /\ b \in Requests /\ request'[b] = request[b] /\ AttemptAgrees(b)
      BY <1>3, <2>2, AttemptIs
    <3>2. request[b].at \in Unfinished => ~InUse(b)' /\ ~Doomed(b)'
      BY <1>6, <1>9, <1>11, <2>2, <3>1 DEF AttemptAgrees
    <3> QED
      BY <3>1, <3>2 DEF AttemptAgrees
  <2> QED
    BY <2>1, <2>2
<1>16. \A r \in Requests : request'[r].at \in Unfinished => request'[r].trash = None
  BY <1>3 DEF IInv, Unfinished
<1> QED
  BY <1>5, <1>12, <1>13, <1>14, <1>15, <1>16 DEF IInv

LEMMA NameClipKeepsIInv ==
    ASSUME IInv, NEW a \in Attempts, NEW s \in {"mark", "release", "done"}, NEW g \in {None, a},
           At(a, "stored"), GoAndRemove(a, s, g), NameClip(a),
           UNCHANGED <<disk, sweep>>, lost \subseteq lost', left \subseteq left',
           g = a => a \in lost'
    PROVE  IInv'
<1> DEFINE c == CommandOf[a]
<1>1. /\ ~InUse(a) /\ ~Doomed(a) /\ a \in disk /\ request[a].trash = None
      /\ \A d \in Clips : candidate[d].file # a
  BY AttemptIs DEF AttemptAgrees, At, Unfinished
<1>2. a \in Files /\ a \in Requests /\ c \in Clips /\ candidate[c].status = "PROCESSING"
  BY AttemptIs DEF NameClip
<1>3. /\ request'[a].at = s /\ request'[a].trash = g /\ request'[a].seen = None
      /\ \A q \in Requests \ {a} : request'[q] = request[q]
      /\ request' \in [Requests -> Progress]
  BY <1>2, GoFields DEF IInv
<1>4. /\ candidate'[c].status = "READY" /\ candidate'[c].file = a
      /\ \A d \in Clips \ {c} : candidate'[d] = candidate[d]
      /\ candidate' \in [Clips -> Candidate]
  BY <1>2, CandidateFields DEF NameClip, IInv, States
<1>5. TypeOK'
  BY <1>3, <1>4 DEF NameClip, IInv, TypeOK, Progress, Candidate, States
<1>6. \A f : InUse(f)' <=> InUse(f) \/ f = a
  BY <1>2, <1>4 DEF NameClip, InUse
<1>7. \A f \in Files : Doomed(f)' <=> Doomed(f) \/ f = g
  BY <1>1, <1>2, <1>3, Constants DEF Doomed
<1>8. \A f : Written(f) => Written(f)' \/ f = a
  BY <1>3, Constants DEF Written
<1>9. FilesAgree'
  <2>1. disk \subseteq Files
    BY DEF IInv, TypeOK
  <2> QED
    BY <1>1, <1>2, <1>6, <1>7, <1>8, <2>1, Constants DEF IInv, FilesAgree
<1>10. RowsAgree'
  BY <1>2, <1>4 DEF NameClip, IInv, RowsAgree
<1>11. \A x \in Assets : row[x] # a
  BY <1>1 DEF InUse
<1>12. ASSUME NEW d \in Clips PROVE ClipAgrees(d)'
  BY <1>2, <1>4, <1>11, Constants DEF NameClip, IInv, ClipAgrees
<1>13. ASSUME NEW b \in Attempts PROVE AttemptAgrees(b)'
  <2>1. CASE b = a
    BY <1>3, <2>1 DEF AttemptAgrees, Unfinished
  <2>2. CASE b # a
    <3>1. b \in Files /\ b \in Requests /\ request'[b] = request[b] /\ AttemptAgrees(b) /\ b # g
      BY <1>3, <2>2, AttemptIs, Constants
    <3> QED
      BY <1>4, <1>6, <1>7, <2>2, <3>1 DEF AttemptAgrees
  <2> QED
    BY <2>1, <2>2
<1>14. \A r \in Requests : request'[r].at \in Unfinished => request'[r].trash = None
  BY <1>3 DEF IInv, Unfinished
<1> QED
  BY <1>5, <1>9, <1>10, <1>12, <1>13, <1>14 DEF IInv

LEMMA TransactionKeepsIInv ==
    ASSUME IInv, NEW a \in Attempts, Transaction(a), NEW s \in {"mark", "release", "done"},
           NEW g \in {request[a].seen, a}, GoAndRemove(a, s, g),
           lost \subseteq lost', left \subseteq left',
           g = a => a \in lost' /\ request[a].seen \in left' \cup {None}
    PROVE  IInv'
<1> DEFINE c == CommandOf[a]
<1>1. AttemptAgrees(a) /\ c \in Commands /\ At(a, "stored") /\ UNCHANGED <<disk, sweep>>
  BY AttemptIs DEF Transaction
<1>2. receipts \subseteq Commands /\ a \notin Initial
  BY Constants DEF IInv, TypeOK
<1>3. CASE NameUpload(a)
  <2>1. c \in Assets /\ c \notin Replaces /\ c = OwnerOf(a)
    BY <1>2, <1>3, Constants DEF NameUpload, OwnerOf
  <2>2. row[c] = "never" /\ request[a].seen = None
    BY <1>1, <1>3, <2>1 DEF NameUpload, Recorded, AttemptAgrees, IInv, RowsAgree
  <2> QED
    BY <1>1, <1>2, <1>3, <2>1, <2>2, NameRowKeepsIInv DEF NameUpload, Recorded
<1>4. CASE NameReplacement(a)
  <2>1. TargetOf[c] \in Assets /\ TargetOf[c] = OwnerOf(a)
    BY <1>2, <1>4, Constants DEF NameReplacement, OwnerOf
  <2>2. request[a].seen \in Files
    BY <1>1, <1>4 DEF NameReplacement, AttemptAgrees, At
  <2> QED
    BY <1>1, <1>2, <1>4, <2>1, <2>2, NameRowKeepsIInv DEF NameReplacement, Recorded
<1>5. CASE NameClip(a)
  <2>1. request[a].seen = None
    BY <1>1, <1>5, Constants DEF NameClip, AttemptAgrees
  <2> QED
    BY <1>1, <1>5, <2>1, NameClipKeepsIInv
<1> QED
  BY <1>3, <1>4, <1>5 DEF Transaction

LEMMA CommitKeepsIInv == ASSUME IInv, NEW a \in Attempts, Commit(a) PROVE IInv'
<1>1. request[a].seen # a
  <2>1. CASE request[a].seen \in Files
    <3>1. Transaction(a) /\ AttemptAgrees(a)
      BY AttemptIs DEF Commit
    <3>2. CommandOf[a] \in Replaces
      BY <2>1, <3>1, Constants DEF AttemptAgrees
    <3>3. row[TargetOf[CommandOf[a]]] = request[a].seen /\ TargetOf[CommandOf[a]] \in Assets
      BY <3>1, <3>2, Constants DEF Transaction, NameUpload, NameReplacement, NameClip
    <3> QED
      BY <3>1, <3>3 DEF Transaction, At, AttemptAgrees, InUse, Unfinished
  <2>2. CASE request[a].seen \notin Files
    BY <2>2, AttemptIs
  <2> QED
    BY <2>1, <2>2
<1> QED
  BY <1>1, TransactionKeepsIInv DEF Commit

LEMMA CommitUnansweredKeepsIInv ==
    ASSUME IInv, NEW a \in Attempts, CommitUnanswered(a) PROVE IInv'
  BY TransactionKeepsIInv DEF CommitUnanswered

-----------------------------------------------------------------------------
(* Deleting, saving and dropping.                                          *)

LEMMA DeleteKeepsIInv ==
    ASSUME IInv, NEW d \in Deletions, NEW x \in Assets, Delete(d, x) PROVE IInv'
<1>1. PICK g \in Files : g = row[x]
  BY DEF Delete, Exists
<1>2. d \in Requests /\ d \notin Attempts /\ request[d].trash = None
  BY Constants DEF Delete, At
<1>3. /\ request'[d].at = "done" /\ request'[d].trash = g
      /\ \A q \in Requests \ {d} : request'[q] = request[q]
      /\ request' \in [Requests -> Progress]
  BY <1>1, <1>2, GoFields DEF Delete, IInv
<1>4. row'[x] = "deleted" /\ (\A y \in Assets \ {x} : row'[y] = row[y])
      /\ row' \in [Assets -> Files \cup {"never", "deleted"}]
  BY DEF Delete, IInv, TypeOK
<1>5. TypeOK'
  BY <1>3, <1>4 DEF Delete, IInv, TypeOK, Progress
<1>6. /\ InUse(g) /\ \A y \in Assets : row[y] = g => y = x
      /\ \A c \in Clips : candidate[c].file # g
  BY <1>1, Constants DEF IInv, RowsAgree, ClipAgrees, InUse
<1>7. \A f \in Files : InUse(f)' <=> InUse(f) /\ f # g
  BY <1>1, <1>4, <1>6, Constants DEF Delete, InUse
<1>8. \A f \in Files : Doomed(f)' <=> Doomed(f) \/ f = g
  BY <1>2, <1>3, Constants DEF Delete, Doomed
<1>9. \A f : Written(f)' <=> Written(f)
  BY <1>2, <1>3, Constants DEF Written
<1>10. FilesAgree'
  <2>1. disk \subseteq Files
    BY DEF IInv, TypeOK
  <2> QED
    BY <1>7, <1>8, <1>9, <2>1 DEF Delete, IInv, FilesAgree
<1>11. RowsAgree'
  <2>1. x \in Uploads => x \in receipts
    BY <1>1, Constants DEF IInv, RowsAgree
  <2>2. x \in Clips => candidate[x].status = "SAVED"
    BY <1>1, Constants DEF IInv, RowsAgree
  <2> QED
    BY <1>4, <2>1, <2>2, Constants DEF Delete, IInv, RowsAgree, OwnerOf
<1>12. \A c \in Clips : ClipAgrees(c)'
  <2>1. ASSUME NEW c \in Clips PROVE candidate[c].file \in Files \cup {None}
    BY Constants DEF IInv, TypeOK
  <2> QED
    BY <1>4, <2>1, Constants DEF Delete, IInv, ClipAgrees
<1>13. ASSUME NEW b \in Attempts PROVE AttemptAgrees(b)'
  <2>1. b \in Files /\ request'[b] = request[b] /\ AttemptAgrees(b)
    BY <1>2, <1>3, AttemptIs
  <2>2. request[b].at \in Unfinished => b # g
    BY <1>6, <2>1 DEF AttemptAgrees
  <2> QED
    BY <1>7, <1>8, <2>1, <2>2 DEF Delete, AttemptAgrees
<1>14. \A r \in Requests : request'[r].at \in Unfinished => request'[r].trash = None
  BY <1>3 DEF IInv, Unfinished
<1> QED
  BY <1>5, <1>10, <1>11, <1>12, <1>13, <1>14 DEF IInv

LEMMA SaveKeepsIInv == ASSUME IInv, NEW c \in Clips, Save(c) PROVE IInv'
<1>1. PICK g \in Attempts : g = candidate[c].file
  BY DEF Save, IInv, ClipAgrees, TypeOK
<1>2. /\ candidate'[c].status = "SAVED" /\ candidate'[c].file = None
      /\ \A d \in Clips \ {c} : candidate'[d] = candidate[d]
      /\ candidate' \in [Clips -> Candidate]
  BY CandidateFields DEF Save, IInv, States
<1>3. row'[c] = g /\ row[c] = "never" /\ (\A y \in Assets \ {c} : row'[y] = row[y])
      /\ row' \in [Assets -> Files \cup {"never", "deleted"}] /\ c \in Assets /\ g \in Files
  BY <1>1, Constants DEF Save, IInv, TypeOK, RowsAgree
<1>4. TypeOK'
  BY <1>2, <1>3 DEF Save, IInv, TypeOK, Candidate, States
<1>5. CommandOf[g] = c /\ OwnerOf(g) = c
  BY <1>1, Constants DEF IInv, ClipAgrees, OwnerOf
<1>6. \A d \in Clips : candidate[d].file = g => d = c
  BY <1>1, <1>5, Constants DEF IInv, ClipAgrees
<1>7. \A f \in Files : InUse(f)' <=> InUse(f)
  BY <1>1, <1>2, <1>3, Constants DEF Save, InUse
<1>8. \A f : Doomed(f)' <=> Doomed(f)
  BY DEF Save, Doomed
<1>9. FilesAgree'
  <2>1. disk \subseteq Files
    BY DEF IInv, TypeOK
  <2> QED
    BY <1>7, <1>8, <2>1 DEF Save, Written, IInv, FilesAgree
<1>10. RowsAgree'
  BY <1>2, <1>3, <1>5, Constants DEF Save, IInv, RowsAgree, OwnerOf
<1>11. \A d \in Clips : ClipAgrees(d)'
  BY <1>1, <1>2, <1>3, <1>6, Constants DEF Save, IInv, ClipAgrees
<1>12. ASSUME NEW b \in Attempts PROVE AttemptAgrees(b)'
  BY <1>2, <1>7, <1>8, AttemptIs, Constants DEF Save, AttemptAgrees
<1> QED
  BY <1>4, <1>9, <1>10, <1>11, <1>12 DEF Save, IInv

LEMMA CancelKeepsIInv == ASSUME IInv, NEW d \in Cancels, Cancel(d) PROVE IInv'
<1>1. PICK c \in Clips : c = TargetOf[d]
  BY Constants
<1>2. PICK g \in Attempts \cup {None} : g = candidate[c].file
  BY DEF IInv, TypeOK
<1>3. d \in Requests /\ d \notin Attempts /\ request[d].trash = None /\ g \in Files \cup {None}
  BY Constants DEF Cancel, At
<1>4. /\ request'[d].at = "done" /\ request'[d].trash = g
      /\ \A q \in Requests \ {d} : request'[q] = request[q]
      /\ request' \in [Requests -> Progress]
  BY <1>1, <1>2, <1>3, GoFields DEF Cancel, IInv
<1>5. /\ candidate'[c].status = "CANCELLED" /\ candidate'[c].file = None
      /\ \A e \in Clips \ {c} : candidate'[e] = candidate[e]
      /\ candidate' \in [Clips -> Candidate]
  BY <1>1, CandidateFields DEF Cancel, IInv, States
<1>6. TypeOK'
  BY <1>4, <1>5 DEF Cancel, IInv, TypeOK, Progress, Candidate, States
<1>7. g # None => /\ \A x \in Assets : row[x] # g
                  /\ \A e \in Clips : candidate[e].file = g => e = c
  BY <1>2 DEF IInv, ClipAgrees
<1>8. ASSUME NEW f \in Files PROVE InUse(f)' <=> InUse(f) /\ f # g
  <2>1. f # None /\ row' = row
    BY Constants DEF Cancel
  <2>2. CASE f = g
    BY <1>5, <1>7, <2>1, <2>2 DEF InUse
  <2>3. CASE f # g
    BY <1>2, <1>5, <2>1, <2>3 DEF InUse
  <2> QED
    BY <2>2, <2>3
<1>9. \A f \in Files : Doomed(f)' <=> Doomed(f) \/ f = g
  BY <1>3, <1>4, Constants DEF Cancel, Doomed
<1>10. \A f : Written(f)' <=> Written(f)
  BY <1>3, <1>4, Constants DEF Written
<1>11. FilesAgree'
  <2>1. disk \subseteq Files
    BY DEF IInv, TypeOK
  <2> QED
    BY <1>8, <1>9, <1>10, <2>1 DEF Cancel, IInv, FilesAgree
<1>12. RowsAgree'
  BY <1>1, <1>5 DEF Cancel, IInv, RowsAgree
<1>13. \A e \in Clips : ClipAgrees(e)'
  BY <1>5 DEF Cancel, IInv, ClipAgrees
<1>14. ASSUME NEW b \in Attempts PROVE AttemptAgrees(b)'
  <2>1. b \in Files /\ request'[b] = request[b] /\ AttemptAgrees(b)
    BY <1>3, <1>4, AttemptIs
  <2>2. request[b].at \in Unfinished => b # g
    BY <1>2, <2>1 DEF AttemptAgrees
  <2>3. \A e \in Clips : candidate'[e].file \in {candidate[e].file, None}
    BY <1>5
  <2> QED
    BY <1>8, <1>9, <2>1, <2>2, <2>3, Constants DEF Cancel, AttemptAgrees
<1>15. \A r \in Requests : request'[r].at \in Unfinished => request'[r].trash = None
  BY <1>4 DEF IInv, Unfinished
<1> QED
  BY <1>6, <1>11, <1>12, <1>13, <1>14, <1>15 DEF IInv

-----------------------------------------------------------------------------
(* Removals, the timer and the end of the process.                         *)

(* A file marked for removal goes, or stays as one that is left.           *)
LEMMA UnmarkKeepsIInv ==
    ASSUME IInv, NEW r \in Requests, request[r].trash # None,
           request' = [request EXCEPT ![r].trash = None],
           UNCHANGED <<row, receipts, candidate, sweep, lost>>,
           \/ disk' = disk \ {request[r].trash} /\ left' = left
           \/ disk' = disk /\ left' = left \cup (disk \cap {request[r].trash})
    PROVE  IInv'
<1>1. PICK g \in Files : g = request[r].trash
  BY RequestType DEF IInv
<1>2. request[r].at \notin Unfinished /\ Doomed(g)
  BY <1>1 DEF IInv, Doomed
<1>3. /\ request'[r].trash = None /\ request'[r].at = request[r].at
      /\ request'[r].seen = request[r].seen
      /\ \A q \in Requests \ {r} : request'[q] = request[q]
      /\ request' \in [Requests -> Progress]
  <2>1. request \in [Requests -> Progress] /\ request[r] \in Progress
    BY DEF IInv, TypeOK, Progress
  <2>2. [request[r] EXCEPT !.trash = None] \in Progress
    BY <2>1 DEF Progress
  <2> QED
    BY <2>1, <2>2 DEF Progress
<1>4. TypeOK'
  BY <1>3 DEF IInv, TypeOK, Progress
<1>5. \A f : InUse(f)' <=> InUse(f)
  BY DEF InUse
<1>6. \A f \in Files : (Doomed(f)' => Doomed(f)) /\ (Doomed(f) => Doomed(f)' \/ f = g)
  BY <1>1, <1>3, Constants DEF Doomed
<1>7. \A f : Written(f)' <=> Written(f)
  BY <1>3, Constants DEF Written
<1>8. FilesAgree'
  <2>1. disk \subseteq Files
    BY DEF IInv, TypeOK
  <2>2. InUse(g) => g \in lost
    BY <1>2 DEF IInv, FilesAgree
  <2> QED
    BY <1>1, <1>5, <1>6, <1>7, <2>1, <2>2 DEF IInv, FilesAgree
<1>9. RowsAgree' /\ \A c \in Clips : ClipAgrees(c)'
  BY DEF IInv, RowsAgree, ClipAgrees
<1>10. ASSUME NEW b \in Attempts PROVE AttemptAgrees(b)'
  <2>1. /\ b \in Files /\ AttemptAgrees(b) /\ b \in Requests
        /\ request'[b].at = request[b].at /\ request'[b].seen = request[b].seen
    BY <1>3, AttemptIs
  <2>2. request[b].at \in Unfinished => b # g
    BY <1>2, <2>1 DEF AttemptAgrees
  <2>3. request[b].at = "stored" => b \in disk'
    BY <1>1, <2>1, <2>2 DEF AttemptAgrees, Unfinished
  <2> QED
    BY <1>5, <1>6, <2>1, <2>2, <2>3 DEF AttemptAgrees
<1>11. \A q \in Requests : request'[q].at \in Unfinished => request'[q].trash = None
  BY <1>3 DEF IInv
<1> QED
  BY <1>4, <1>8, <1>9, <1>10, <1>11 DEF IInv

(* Clips that are late are taken off the offer.                            *)
LEMMA SweepKeepsIInv == ASSUME IInv, Sweep PROVE IInv'
<1> DEFINE Taken(c) == [candidate[c] EXCEPT !.status = "EXPIRED"]
<1>1. candidate \in [Clips -> Candidate] /\ sweep \in [Clips -> Removal]
  BY DEF IInv, TypeOK, Candidate, States, Removal
<1>2. ASSUME NEW c \in Clips
      PROVE  /\ candidate'[c] = IF Expirable(c) THEN Taken(c) ELSE candidate[c]
             /\ sweep'[c] = IF Expirable(c) THEN [at |-> "unlink", file |-> candidate[c].file]
                            ELSE sweep[c]
             /\ candidate'[c] \in Candidate /\ sweep'[c] \in Removal
             /\ candidate'[c].file = candidate[c].file
             /\ candidate'[c].status = IF Expirable(c) THEN "EXPIRED" ELSE candidate[c].status
             /\ sweep'[c].file = IF Expirable(c) THEN candidate[c].file ELSE sweep[c].file
             /\ sweep'[c].at = IF Expirable(c) THEN "unlink" ELSE sweep[c].at
  <2>1. candidate[c] \in Candidate /\ sweep[c] \in Removal
    BY <1>1
  <2>2. candidate'[c] = IF Expirable(c) THEN Taken(c) ELSE candidate[c]
    BY DEF Sweep
  <2>3. sweep'[c] = IF Expirable(c) THEN [at |-> "unlink", file |-> candidate[c].file]
                    ELSE sweep[c]
    BY DEF Sweep
  <2> QED
    BY <2>1, <2>2, <2>3 DEF Candidate, Removal, States
<1>3. candidate' \in [Clips -> Candidate] /\ sweep' \in [Clips -> Removal]
  BY <1>2 DEF Sweep
<1>4. TypeOK'
  BY <1>3 DEF Sweep, IInv, TypeOK, Candidate, States, Removal
<1>5. ASSUME NEW c \in Clips, Expirable(c) PROVE sweep[c].file = None
  BY <1>5 DEF Expirable, IInv, ClipAgrees
<1>6. ASSUME NEW f \in Files PROVE InUse(f)' => InUse(f)
  BY <1>2 DEF Sweep, InUse
<1>7. ASSUME NEW f \in Files PROVE InUse(f) => InUse(f)' \/ Doomed(f)'
  BY <1>2 DEF Sweep, InUse, Doomed
<1>8. ASSUME NEW f \in Files PROVE Doomed(f) => Doomed(f)'
  BY <1>2, <1>5, Constants DEF Sweep, Doomed
<1>9. ASSUME NEW f \in Files
      PROVE  Doomed(f)' => Doomed(f) \/ \E c \in Clips : Expirable(c) /\ candidate[c].file = f
  BY <1>2 DEF Sweep, Doomed
<1>10. ASSUME NEW f \in Files, NEW c \in Clips, Expirable(c), candidate[c].file = f
       PROVE  ~InUse(f)'
  <2>1. /\ \A x \in Assets : row[x] # f
        /\ \A d \in Clips : candidate[d].file = f => d = c
    BY <1>10, Constants DEF IInv, ClipAgrees
  <2> QED
    BY <1>2, <1>10, <2>1 DEF Sweep, InUse
<1>11. \A f : Written(f)' <=> Written(f)
  BY DEF Sweep, Written
<1>12. FilesAgree'
  <2>1. disk \subseteq Files
    BY DEF IInv, TypeOK
  <2> QED
    BY <1>6, <1>7, <1>8, <1>9, <1>10, <1>11, <2>1 DEF Sweep, IInv, FilesAgree
<1>13. RowsAgree'
  BY <1>2 DEF Sweep, Expirable, IInv, RowsAgree
<1>14. ASSUME NEW c \in Clips PROVE ClipAgrees(c)'
  <2>1. ClipAgrees(c)
    BY DEF IInv
  <2>2. UNCHANGED row
    BY DEF Sweep
  <2> QED
    BY <1>2, <2>1, <2>2 DEF Expirable, ClipAgrees
<1>15. ASSUME NEW b \in Attempts PROVE AttemptAgrees(b)'
  BY <1>2, <1>6, <1>9, AttemptIs DEF Sweep, AttemptAgrees
<1> QED
  BY <1>4, <1>12, <1>13, <1>14, <1>15 DEF Sweep, IInv

LEMMA SweepFields ==
    ASSUME TypeOK, NEW c \in Clips, NEW s \in {"no", "release"},
           sweep' = [sweep EXCEPT ![c] = [at |-> s, file |-> None]]
    PROVE  /\ sweep'[c].at = s /\ sweep'[c].file = None
           /\ \A d \in Clips \ {c} : sweep'[d] = sweep[d]
           /\ sweep' \in [Clips -> Removal]
<1>1. sweep \in [Clips -> Removal] /\ [at |-> s, file |-> None] \in Removal
  BY DEF TypeOK, Removal
<1> QED
  BY <1>1

(* A removal of the timer is over: the file is gone, or a fault left it.   *)
LEMMA RemovalOverKeepsIInv ==
    ASSUME IInv, NEW c \in Clips,
           sweep' \in [Clips -> Removal],
           \A d \in Clips : /\ sweep'[d].file = IF d = c THEN None ELSE sweep[d].file
                            /\ sweep'[d].file # None => sweep'[d].at \in {"unlink", "astray"},
           \/ disk' = disk \ {sweep[c].file} /\ left' = left
           \/ disk' = disk /\ left' = left \cup (disk \cap {sweep[c].file}),
           UNCHANGED <<row, receipts, candidate, request, lost>>
    PROVE  IInv'
<1>1. PICK g \in Attempts \cup {None} : g = sweep[c].file
  BY DEF IInv, TypeOK
<1>2. disk' \subseteq disk
  OBVIOUS
<1>3. TypeOK'
  BY <1>2 DEF IInv, TypeOK, Removal
<1>4. g # None => Doomed(g) /\ g \in Files
  BY <1>1, Constants DEF Doomed
<1>5. \A f : InUse(f)' <=> InUse(f)
  BY DEF InUse
<1>6. \A f \in Files : (Doomed(f)' => Doomed(f)) /\ (Doomed(f) => Doomed(f)' \/ f = g)
  BY <1>1, Constants DEF Doomed
<1>7. FilesAgree'
  <2>1. disk \subseteq Files /\ None \notin Files
    BY Constants DEF IInv, TypeOK
  <2>2. InUse(g) /\ g # None => g \in lost
    BY <1>4 DEF IInv, FilesAgree
  <2>3. \A f \in disk' : f # g \/ f \in left'
    BY <1>1
  <2> QED
    BY <1>1, <1>5, <1>6, <2>1, <2>2, <2>3 DEF Written, IInv, FilesAgree
<1>8. RowsAgree'
  BY DEF IInv, RowsAgree
<1>9. \A d \in Clips : ClipAgrees(d)'
  BY DEF IInv, ClipAgrees
<1>10. ASSUME NEW b \in Attempts PROVE AttemptAgrees(b)'
  <2>1. b # None
    BY AttemptIs, Constants
  <2>2. request[b].at \in Unfinished => b # g
    BY <1>4, <2>1, AttemptIs DEF AttemptAgrees
  <2> QED
    BY <1>1, <1>5, <1>6, <2>2, AttemptIs DEF AttemptAgrees, Unfinished
<1> QED
  BY <1>3, <1>7, <1>8, <1>9, <1>10 DEF IInv

LEMMA SweepUnlinkKeepsIInv == ASSUME IInv, NEW c \in Clips, SweepUnlink(c) PROVE IInv'
<1>1. PICK s \in {"no", "release"} : sweep' = [sweep EXCEPT ![c] = [at |-> s, file |-> None]]
  BY DEF SweepUnlink, Unswept
<1>2. /\ sweep'[c].file = None
      /\ \A d \in Clips \ {c} : sweep'[d] = sweep[d]
      /\ sweep' \in [Clips -> Removal]
  BY <1>1, SweepFields DEF IInv
<1>3. \A d \in Clips : sweep[d].file # None => sweep[d].at \in {"unlink", "astray"}
  BY DEF IInv, ClipAgrees
<1> QED
  BY <1>2, <1>3, RemovalOverKeepsIInv DEF SweepUnlink

LEMMA SweepFailsKeepsIInv == ASSUME IInv, NEW c \in Clips, SweepFails(c) PROVE IInv'
<1>1. \A d \in Clips : sweep[d].file # None => sweep[d].at \in {"unlink", "astray"}
  BY DEF IInv, ClipAgrees
<1>2. sweep \in [Clips -> Removal]
  BY DEF IInv, TypeOK, Removal
<1>3. CASE sweep[c].at = "astray"
  <2>1. sweep' = [sweep EXCEPT ![c] = [at |-> "no", file |-> None]]
    BY <1>3 DEF SweepFails, Unswept
  <2>2. /\ sweep'[c].file = None
        /\ \A d \in Clips \ {c} : sweep'[d] = sweep[d]
        /\ sweep' \in [Clips -> Removal]
    BY <2>1, SweepFields DEF IInv
  <2> QED
    BY <1>1, <2>2, RemovalOverKeepsIInv DEF SweepFails
<1>4. CASE sweep[c].at # "astray"
  <2>1. sweep' = [d \in Clips |->
                    CASE d = c \/ sweep[d].at = "release" -> Unswept
                      [] d # c /\ sweep[d].at = "unlink" -> [sweep[d] EXCEPT !.at = "astray"]
                      [] OTHER -> sweep[d]]
    BY <1>4 DEF SweepFails
  <2>2. ASSUME NEW d \in Clips
        PROVE  /\ sweep'[d] \in Removal
               /\ sweep'[d].file = IF d = c THEN None ELSE sweep[d].file
               /\ sweep'[d].file # None => sweep'[d].at \in {"unlink", "astray"}
    <3>1. sweep[d] \in Removal
      BY <1>2
    <3>2. CASE d = c \/ sweep[d].at = "release"
      BY <1>1, <2>1, <3>2 DEF Unswept, Removal
    <3>3. CASE d # c /\ sweep[d].at = "unlink"
      <4>1. sweep'[d] = [sweep[d] EXCEPT !.at = "astray"]
        BY <2>1, <3>3
      <4> QED
        BY <3>1, <3>3, <4>1 DEF Removal
    <3>4. CASE ~(d = c \/ sweep[d].at = "release") /\ ~(d # c /\ sweep[d].at = "unlink")
      <4>1. sweep'[d] = sweep[d]
        BY <2>1, <3>4
      <4> QED
        BY <1>1, <3>1, <3>4, <4>1
    <3> QED
      BY <3>2, <3>3, <3>4
  <2>3. sweep' \in [Clips -> Removal]
    BY <2>1, <2>2
  <2> QED
    BY <2>2, <2>3, RemovalOverKeepsIInv DEF SweepFails
<1> QED
  BY <1>3, <1>4

LEMMA SweepReleaseKeepsIInv == ASSUME IInv, NEW c \in Clips, SweepRelease(c) PROVE IInv'
<1>1. /\ sweep'[c].at = "no" /\ sweep'[c].file = None
      /\ \A d \in Clips \ {c} : sweep'[d] = sweep[d]
      /\ sweep' \in [Clips -> Removal]
  BY SweepFields DEF SweepRelease, Unswept, IInv
<1>2. sweep[c].file = None
  BY DEF SweepRelease, IInv, ClipAgrees
<1>3. TypeOK'
  BY <1>1 DEF SweepRelease, IInv, TypeOK, Removal
<1>4. \A f : InUse(f)' <=> InUse(f)
  BY DEF SweepRelease, InUse
<1>5. \A f : Doomed(f)' <=> Doomed(f)
  BY <1>1, <1>2 DEF SweepRelease, Doomed
<1>6. FilesAgree'
  BY <1>4, <1>5 DEF SweepRelease, Written, IInv, FilesAgree
<1>7. RowsAgree'
  BY DEF SweepRelease, IInv, RowsAgree
<1>8. \A d \in Clips : ClipAgrees(d)'
  BY <1>1 DEF SweepRelease, IInv, ClipAgrees
<1>9. ASSUME NEW b \in Attempts PROVE AttemptAgrees(b)'
  BY <1>4, <1>5, AttemptIs DEF SweepRelease, AttemptAgrees
<1> QED
  BY <1>3, <1>6, <1>7, <1>8, <1>9 DEF SweepRelease, IInv

LEMMA HeldFiles == ASSUME NEW f, f # None, Doomed(f) \/ Written(f) PROVE f \in Held
<1>1. ASSUME NEW r \in Requests, f \in HeldBy(r) PROVE f \in Held
  <2>1. HeldBy(r) \in {HeldBy(q) : q \in Requests}
    OBVIOUS
  <2> QED
    BY <1>1, <2>1 DEF Held
<1>2. CASE Written(f)
  <2>1. f \in HeldBy(f) /\ f \in Requests
    BY <1>2, Constants DEF Written, HeldBy
  <2> QED
    BY <1>1, <2>1
<1>3. ASSUME NEW r \in Requests, request[r].trash = f PROVE f \in Held
  <2>1. f \in HeldBy(r)
    BY <1>3 DEF HeldBy
  <2> QED
    BY <1>1, <2>1
<1>4. ASSUME NEW c \in Clips, sweep[c].file = f PROVE f \in Held
  <2>1. f \in Swept
    BY <1>4 DEF Swept
  <2> QED
    BY <2>1 DEF Held
<1> QED
  BY <1>2, <1>3, <1>4 DEF Doomed

(* Whatever a handler or the timer was to remove is left.                  *)
LEMMA CrashKeepsIInv == ASSUME IInv, Crash PROVE IInv'
<1>1. ASSUME NEW r \in Requests
      PROVE  /\ request'[r] = IF request[r].at = "idle" THEN Idle ELSE [Idle EXCEPT !.at = "done"]
             /\ request'[r].at = IF request[r].at = "idle" THEN "idle" ELSE "done"
             /\ request'[r].seen = None /\ request'[r].trash = None
             /\ request'[r] \in Progress
  <2>1. request'[r] = IF request[r].at = "idle" THEN Idle ELSE [Idle EXCEPT !.at = "done"]
    BY DEF Crash
  <2> QED
    BY <2>1 DEF Idle, Progress, Unfinished
<1>2. ASSUME NEW c \in Clips
      PROVE  sweep'[c] = Unswept /\ sweep'[c].file = None /\ sweep'[c] \in Removal
  BY DEF Crash, Unswept, Removal
<1>3. request' \in [Requests -> Progress] /\ sweep' \in [Clips -> Removal]
  BY <1>1, <1>2 DEF Crash
<1>4. TypeOK'
  BY <1>3 DEF Crash, IInv, TypeOK, Progress, Removal
<1>5. \A f : InUse(f)' <=> InUse(f)
  BY DEF Crash, InUse
<1>6. \A f \in Files : ~Doomed(f)'
  BY <1>1, <1>2, Constants DEF Doomed
<1>7. FilesAgree'
  <2>1. disk \subseteq Files
    BY DEF IInv, TypeOK
  <2>2. \A f \in disk : Doomed(f) \/ Written(f) => f \in left'
    BY <2>1, HeldFiles, Constants DEF Crash
  <2>3. UNCHANGED <<disk, lost>> /\ left \subseteq left'
    BY DEF Crash
  <2> QED
    BY <1>5, <1>6, <2>1, <2>2, <2>3 DEF IInv, FilesAgree
<1>8. RowsAgree'
  BY DEF Crash, IInv, RowsAgree
<1>9. \A c \in Clips : ClipAgrees(c)'
  BY <1>2 DEF Crash, IInv, ClipAgrees
<1>10. ASSUME NEW b \in Attempts PROVE AttemptAgrees(b)'
  <2>1. UNCHANGED <<candidate, disk>>
    BY DEF Crash
  <2> QED
    BY <1>1, <1>5, <1>6, <2>1, AttemptIs DEF AttemptAgrees, Unfinished
<1>11. \A r \in Requests : request'[r].at \in Unfinished => request'[r].trash = None
  BY <1>1
<1> QED
  BY <1>4, <1>7, <1>8, <1>9, <1>10, <1>11 DEF IInv

-----------------------------------------------------------------------------
(* The invariant.                                                          *)

LEMMA InitIInv == Init => IInv
<1> SUFFICES ASSUME Init PROVE IInv
  OBVIOUS
<1>1. Initial \subseteq Assets
  BY DEF Assets
<1>2. \A r \in Requests : request[r].at = "idle" /\ request[r].seen = None /\ request[r].trash = None
  BY DEF Init, Idle
<1>3. \A c \in Clips : /\ candidate[c].status = "NONE" /\ candidate[c].file = None
                       /\ sweep[c].file = None
  BY DEF Init, NoCandidate, Unswept
<1>4. TypeOK
  <2>1. Idle \in Progress /\ NoCandidate \in Candidate /\ Unswept \in Removal
    BY DEF Idle, NoCandidate, Unswept, Progress, Candidate, States, Removal, Unfinished
  <2> QED
    BY <2>1, Constants DEF Init, TypeOK, Progress, Candidate, States, Removal
<1>5. \A x \in Assets : row[x] \in Files => x \in Initial /\ row[x] = x
  BY Constants DEF Init
<1>6. \A x \in Assets : x \notin Initial => row[x] = "never"
  BY DEF Init
<1>7. RowsAgree
  <2>1. \A c \in Uploads \cup Clips : c \in Assets /\ c \notin Initial
    BY MediaAssumption, Constants
  <2> QED
    BY <1>5, <1>6, <2>1 DEF RowsAgree, OwnerOf
<1>8. \A f \in Files : InUse(f) <=> f \in Initial
  BY <1>1, <1>3, <1>5, Constants DEF Init, InUse
<1>9. \A f \in Files : ~Doomed(f)
  BY <1>2, <1>3, Constants DEF Doomed
<1>10. FilesAgree
  BY <1>8, <1>9, Constants DEF Init, FilesAgree
<1>11. \A c \in Clips : ClipAgrees(c)
  BY <1>3 DEF ClipAgrees
<1>12. ASSUME NEW a \in Attempts PROVE AttemptAgrees(a)
  <2>1. a \in Files /\ a \notin Initial /\ a \in Requests
    BY Constants
  <2> QED
    BY <1>2, <1>3, <1>8, <1>9, <2>1, Constants DEF AttemptAgrees
<1> QED
  BY <1>2, <1>4, <1>7, <1>10, <1>11, <1>12 DEF IInv

LEMMA NextIInv == IInv /\ [Next]_vars => IInv'
<1> SUFFICES ASSUME IInv, [Next]_vars PROVE IInv'
  OBVIOUS
<1>1. ASSUME NEW r \in Requests, Unlink(r) \/ UnlinkFails(r) PROVE IInv'
  BY <1>1, UnmarkKeepsIInv DEF Unlink, UnlinkFails
<1>2. CASE QuietStep
  BY <1>2, QuietStepKeepsIInv
<1>3. ASSUME NEW a \in Attempts,
             \/ Store(a) \/ Commit(a) \/ CommitUnanswered(a) \/ CommitTooLate(a) \/ Fail(a)
      PROVE  IInv'
  BY <1>3, StoreKeepsIInv, CommitKeepsIInv, CommitUnansweredKeepsIInv, CommitTooLateKeepsIInv,
     FailKeepsIInv
<1>4. ASSUME NEW c \in Clips, Save(c) \/ SweepUnlink(c) \/ SweepFails(c) \/ SweepRelease(c)
      PROVE  IInv'
  BY <1>4, SaveKeepsIInv, SweepUnlinkKeepsIInv, SweepFailsKeepsIInv, SweepReleaseKeepsIInv
<1>5. CASE UNCHANGED vars
  <2>1. \A a \in Attempts : AttemptAgrees(a)
    BY DEF IInv
  <2>2. TypeOK'
    BY <1>5 DEF vars, IInv, TypeOK
  <2> QED
    BY <1>5, <2>1, <2>2, QuietKeepsIInv DEF vars, AttemptAgrees
<1> QED
  BY <1>1, <1>2, <1>3, <1>4, <1>5, DeleteKeepsIInv, CancelKeepsIInv, SweepKeepsIInv, CrashKeepsIInv
     DEF Next, QuietStep

(* The life of a file as IInv tells it holds in every reachable state.     *)
THEOREM Invariance == Spec => []IInv
<1> QED
  BY InitIInv, NextIInv, PTL DEF Spec

(* Every row, candidate and request stays in the states the code knows.    *)
THEOREM TypeCorrect == Spec => []TypeOK
<1>1. IInv => TypeOK
  BY DEF IInv
<1> QED
  BY <1>1, Invariance, PTL

(* What a row or an offered clip names is there: no removal, by a failed   *)
(* attempt, a replacement, a deletion or the timer, hits a file in use.    *)
THEOREM NamedMediaExist == Spec => []NamedFilesExist
<1>1. ASSUME IInv PROVE NamedFilesExist
  <2>1. ASSUME NEW f \in Named PROVE f \in disk \cup lost
    BY <1>1 DEF Named, Exists, InUse, IInv, FilesAgree
  <2>2. ASSUME NEW f \in Offered PROVE f \in disk \cup lost
    <3>1. PICK c \in Clips : candidate[c].status = "READY" /\ f = candidate[c].file
      BY DEF Offered
    <3>2. f \in Files /\ InUse(f)
      BY <1>1, <3>1, Constants DEF IInv, ClipAgrees, TypeOK, InUse
    <3> QED
      BY <1>1, <3>2 DEF IInv, FilesAgree
  <2> QED
    BY <2>1, <2>2 DEF NamedFilesExist
<1> QED
  BY <1>1, Invariance, PTL

(* Every file is accounted for, after any number of races and faults.      *)
THEOREM MediaIsAccountedFor == Spec => []NothingLeftBehind
<1>1. ASSUME IInv PROVE NothingLeftBehind
  <2> SUFFICES ASSUME NEW f \in disk PROVE f \in Named \cup Offered \cup Held \cup left
    BY DEF NothingLeftBehind
  <2>1. f \in Files /\ f # None
    BY <1>1, Constants DEF IInv, TypeOK
  <2>2. CASE InUse(f)
    BY <2>1, <2>2 DEF InUse, Named, Exists, Offered
  <2>3. CASE Doomed(f) \/ Written(f)
    BY <2>1, <2>3, HeldFiles
  <2> QED
    BY <1>1, <2>2, <2>3 DEF IInv, FilesAgree
<1> QED
  BY <1>1, Invariance, PTL

-----------------------------------------------------------------------------
(* Deletion is final.                                                      *)

LEMMA DeletedRow ==
    ASSUME IInv, [Next]_vars, NEW x \in Assets, row[x] = "deleted" PROVE row'[x] = "deleted"
<1>1. row \in [Assets -> Files \cup {"never", "deleted"}]
  BY DEF IInv, TypeOK
<1>2. ASSUME NEW a \in Attempts, Transaction(a) PROVE row'[x] = "deleted"
  <2>1. AttemptAgrees(a) /\ At(a, "stored")
    BY <1>2, AttemptIs DEF Transaction
  <2>2. CASE NameUpload(a)
    <3>1. CommandOf[a] # x
      BY <2>2 DEF NameUpload, Recorded, IInv, RowsAgree
    <3> QED
      BY <1>1, <2>2, <3>1 DEF NameUpload
  <2>3. CASE NameReplacement(a)
    <3>1. row[TargetOf[CommandOf[a]]] \in Files
      BY <2>1, <2>3 DEF NameReplacement, AttemptAgrees, At
    <3> QED
      BY <1>1, <2>3, <3>1, Constants DEF NameReplacement
  <2>4. CASE NameClip(a)
    BY <2>4 DEF NameClip
  <2> QED
    BY <1>2, <2>2, <2>3, <2>4 DEF Transaction
<1>3. ASSUME NEW c \in Clips, Save(c) PROVE row'[x] = "deleted"
  <2>1. c # x
    BY <1>3 DEF Save, IInv, RowsAgree
  <2> QED
    BY <1>1, <1>3, <2>1 DEF Save
<1>4. ASSUME NEW d \in Deletions, NEW y \in Assets, Delete(d, y) PROVE row'[x] = "deleted"
  BY <1>1, <1>4 DEF Delete
<1>5. CASE row' = row
  BY <1>5
<1> QED
  BY <1>2, <1>3, <1>4, <1>5
     DEF Next, vars, Start, Reserve, Insert, Store, Commit, CommitUnanswered, CommitTooLate, Fail,
         MarkFailed, Release, Cancel, Unlink, UnlinkFails, Late, SweepUnlink, SweepFails,
         SweepRelease, Sweep, SweepReservations, Crash, Expire

(* No late commit, retry, replacement or save brings a deleted asset back. *)
THEOREM DeletionIsFinal == Spec => DeletedStaysDeleted
<1>1. IInv /\ [Next]_vars => [\A x \in Assets : row[x] = "deleted" => row'[x] = "deleted"]_vars
  BY DeletedRow
<1> QED
  BY <1>1, Invariance, PTL DEF Spec, DeletedStaysDeleted

-----------------------------------------------------------------------------
(* Sums over finite sets, by induction over their subsets.                 *)

(* The equation of the recursive function inside a sum.                     *)
Picked(s) == CHOOSE x \in s : TRUE
Others(s) == s \ {Picked(s)}
Adds(f, S, g) == g = [s \in SUBSET S |-> IF s = {} THEN 0 ELSE f[Picked(s)] + g[Others(s)]]

(* A sum is the value of a function that satisfies the equation.            *)
LEMMA SumIsChosen ==
    ASSUME NEW f, NEW S
    PROVE  Sum(f, S) = (CHOOSE g : Adds(f, S, g))[S]
  BY DEF Sum, MapThenSumSet, MapThenFoldSet, Adds, Picked, Others

(* Induction over the subsets of a finite set.                              *)
LEMMA SmallestSet ==
    ASSUME NEW S, IsFiniteSet(S), NEW B, B \subseteq SUBSET S, B # {}
    PROVE  \E T \in B : \A U \in SUBSET T : U # T => U \notin B
  <1>1. IsWellFoundedOn(StrictSubsetOrdering(S), SUBSET S)
    BY FS_StrictSubsetOrderingWellFounded, FS_FiniteSubsetsOfFinite, Zenon
  <1>2. PICK T \in B : \A U \in B : <<U, T>> \notin StrictSubsetOrdering(S)
    BY <1>1, WFMin, Zenon
  <1>3. ASSUME NEW U \in SUBSET T, U # T, U \in B
        PROVE  FALSE
    <2>1. <<U, T>> \in StrictSubsetOrdering(S)
      BY <1>3 DEF StrictSubsetOrdering
    <2> QED BY <2>1, <1>2, <1>3
  <1> QED BY <1>3

LEMMA PickedIsMember ==
    ASSUME NEW s, s # {}
    PROVE  Picked(s) \in s /\ Others(s) \in SUBSET s /\ Others(s) # s
  BY DEF Picked, Others

(* Two functions that satisfy the equation agree where both are defined.    *)
LEMMA SumIsUnique ==
    ASSUME NEW f, NEW A, NEW g, Adds(f, A, g), NEW C, NEW h, Adds(f, C, h),
           NEW S, IsFiniteSet(S), S \in SUBSET A, S \in SUBSET C
    PROVE  g[S] = h[S]
  <1> DEFINE B == {T \in SUBSET S : g[T] # h[T]}
  <1>1. SUFFICES ASSUME B # {} PROVE FALSE
    OBVIOUS
  <1>0. B \subseteq SUBSET S
    OBVIOUS
  <1> HIDE DEF B
  <1>2. PICK T \in B : \A U \in SUBSET T : U # T => U \notin B
    BY <1>1, <1>0, SmallestSet
  <1> USE DEF B
  <1>3. /\ g[T] = IF T = {} THEN 0 ELSE f[Picked(T)] + g[Others(T)]
        /\ h[T] = IF T = {} THEN 0 ELSE f[Picked(T)] + h[Others(T)]
    BY DEF Adds
  <1>4. T # {} => g[Others(T)] = h[Others(T)]
    BY <1>2, PickedIsMember
  <1> QED BY <1>2, <1>3, <1>4

(* Over a finite set there is one, and so a sum satisfies the equation.     *)
LEMMA SumExists ==
    ASSUME NEW f, NEW S, IsFiniteSet(S)
    PROVE  \E g : Adds(f, S, g)
  <1> DEFINE B == {T \in SUBSET S : ~\E g : Adds(f, T, g)}
  <1>1. SUFFICES ASSUME B # {} PROVE FALSE
    OBVIOUS
  <1>0. B \subseteq SUBSET S
    OBVIOUS
  <1> HIDE DEF B
  <1>2. PICK T \in B : \A U \in SUBSET T : U # T => U \notin B
    BY <1>1, <1>0, SmallestSet
  <1> USE DEF B
  <1> DEFINE Body(s) == IF s = {} THEN 0 ELSE f[Picked(s)] + Sum(f, Others(s))
             G == [s \in SUBSET T |-> Body(s)]
  <1>3. ASSUME NEW U \in SUBSET T, U # T
        PROVE  Sum(f, U) = Body(U)
    <2>1. \A V \in SUBSET U : Adds(f, V, CHOOSE g : Adds(f, V, g)) /\ IsFiniteSet(V)
      <3>1. TAKE V \in SUBSET U
      <3>2. V \in SUBSET T /\ V # T
        BY <1>3
      <3>3. \E g : Adds(f, V, g)
        BY <3>2, <1>2
      <3>4. IsFiniteSet(V)
        BY <3>2, FS_Subset
      <3> QED BY <3>3, <3>4
    <2> DEFINE h == CHOOSE g : Adds(f, U, g)
    <2>2. Adds(f, U, h)
      BY <2>1
    <2> HIDE DEF h
    <2>3. h[U] = IF U = {} THEN 0 ELSE f[Picked(U)] + h[Others(U)]
      BY <2>2 DEF Adds
    <2>4. U # {} => h[Others(U)] = Sum(f, Others(U))
      <3>1. HAVE U # {}
      <3>2. Others(U) \in SUBSET U
        BY <3>1, PickedIsMember
      <3> DEFINE k == CHOOSE g : Adds(f, Others(U), g)
      <3>3. Adds(f, Others(U), k) /\ IsFiniteSet(Others(U))
        BY <2>1, <3>2
      <3>4. Sum(f, Others(U)) = k[Others(U)]
        BY SumIsChosen
      <3> HIDE DEF k
      <3>5. k[Others(U)] = h[Others(U)]
        BY <3>2, <3>3, <2>2, SumIsUnique
      <3> QED BY <3>4, <3>5
    <2>5. Sum(f, U) = h[U]
      BY SumIsChosen DEF h
    <2> QED BY <2>3, <2>4, <2>5
  <1>4. ASSUME NEW s \in SUBSET T, s # {}
        PROVE  G[Others(s)] = Sum(f, Others(s))
    <2>1. Others(s) \in SUBSET T /\ Others(s) # T
      BY <1>4, PickedIsMember
    <2> QED BY <2>1, <1>3
  <1>5. Adds(f, T, G)
    BY <1>4 DEF Adds
  <1> QED BY <1>2, <1>5

LEMMA SumDef ==
    ASSUME NEW f, NEW S, IsFiniteSet(S)
    PROVE  Sum(f, S) = IF S = {} THEN 0 ELSE f[Picked(S)] + Sum(f, Others(S))
  <1> DEFINE h(V) == CHOOSE g : Adds(f, V, g)
  <1>1. \A V \in SUBSET S : Adds(f, V, h(V)) /\ IsFiniteSet(V)
    BY SumExists, FS_Subset
  <1>2. \A V : Sum(f, V) = h(V)[V]
    BY SumIsChosen
  <1> HIDE DEF h
  <1>3. h(S)[S] = IF S = {} THEN 0 ELSE f[Picked(S)] + h(S)[Others(S)]
    BY <1>1 DEF Adds
  <1>4. S # {} => h(S)[Others(S)] = h(Others(S))[Others(S)]
    BY <1>1, PickedIsMember, SumIsUnique
  <1> QED BY <1>2, <1>3, <1>4

LEMMA SumOfNone == ASSUME NEW f PROVE Sum(f, {}) = 0
  BY SumDef, FS_EmptySet

LEMMA SumIsInt ==
    ASSUME NEW f, NEW S, IsFiniteSet(S), \A x \in S : f[x] \in Int
    PROVE  Sum(f, S) \in Int
  <1> DEFINE B == {T \in SUBSET S : Sum(f, T) \notin Int}
  <1>1. SUFFICES ASSUME B # {} PROVE FALSE
    OBVIOUS
  <1>2. B \subseteq SUBSET S
    OBVIOUS
  <1> HIDE DEF B
  <1>3. PICK T \in B : \A U \in SUBSET T : U # T => U \notin B
    BY <1>1, <1>2, SmallestSet
  <1> USE DEF B
  <1>4. Sum(f, T) = IF T = {} THEN 0 ELSE f[Picked(T)] + Sum(f, Others(T))
    BY SumDef, FS_Subset
  <1>5. T # {} => Sum(f, Others(T)) \in Int /\ f[Picked(T)] \in Int
    BY <1>3, PickedIsMember
  <1> QED BY <1>3, <1>4, <1>5

LEMMA SumIsNat ==
    ASSUME NEW f, NEW S, IsFiniteSet(S), \A x \in S : f[x] \in Nat
    PROVE  Sum(f, S) \in Nat
  <1> DEFINE B == {T \in SUBSET S : Sum(f, T) \notin Nat}
  <1>1. SUFFICES ASSUME B # {} PROVE FALSE
    OBVIOUS
  <1>2. B \subseteq SUBSET S
    OBVIOUS
  <1> HIDE DEF B
  <1>3. PICK T \in B : \A U \in SUBSET T : U # T => U \notin B
    BY <1>1, <1>2, SmallestSet
  <1> USE DEF B
  <1>4. Sum(f, T) = IF T = {} THEN 0 ELSE f[Picked(T)] + Sum(f, Others(T))
    BY SumDef, FS_Subset
  <1>5. T # {} => Sum(f, Others(T)) \in Nat /\ f[Picked(T)] \in Nat
    BY <1>3, PickedIsMember
  <1> QED BY <1>3, <1>4, <1>5

(* The order of the elements does not matter.                               *)
LEMMA SumWithout ==
    ASSUME NEW f, NEW S, IsFiniteSet(S), \A x \in S : f[x] \in Int, NEW y \in S
    PROVE  Sum(f, S) = f[y] + Sum(f, S \ {y})
  <1> DEFINE B == {T \in SUBSET S : \E x \in T : Sum(f, T) # f[x] + Sum(f, T \ {x})}
  <1>1. SUFFICES ASSUME B # {} PROVE FALSE
    OBVIOUS
  <1>2. B \subseteq SUBSET S
    OBVIOUS
  <1> HIDE DEF B
  <1>3. PICK T \in B : \A U \in SUBSET T : U # T => U \notin B
    BY <1>1, <1>2, SmallestSet
  <1> USE DEF B
  <1>4. PICK x \in T : Sum(f, T) # f[x] + Sum(f, T \ {x})
    BY <1>3
  <1> DEFINE z == Picked(T)
  <1>5. z \in T /\ Others(T) = T \ {z} /\ Sum(f, T) = f[z] + Sum(f, T \ {z})
    BY SumDef, FS_Subset, PickedIsMember DEF Others
  <1> HIDE DEF z
  <1>6. z # x
    BY <1>4, <1>5
  <1>7. Sum(f, T \ {z}) = f[x] + Sum(f, (T \ {z}) \ {x})
    <2>1. T \ {z} \in SUBSET T /\ T \ {z} # T /\ x \in T \ {z}
      BY <1>5, <1>6
    <2> QED BY <2>1, <1>3
  <1>8. Sum(f, T \ {x}) = f[z] + Sum(f, (T \ {x}) \ {z})
    <2>1. T \ {x} \in SUBSET T /\ T \ {x} # T /\ z \in T \ {x}
      BY <1>5, <1>6
    <2> QED BY <2>1, <1>3
  <1>9. (T \ {z}) \ {x} = (T \ {x}) \ {z}
    OBVIOUS
  <1>10. f[x] \in Int /\ f[z] \in Int /\ Sum(f, (T \ {x}) \ {z}) \in Int
    <2> DEFINE R == (T \ {x}) \ {z}
    <2>1. IsFiniteSet(R) /\ \A w \in R : f[w] \in Int
      <3>1. R \in SUBSET S
        OBVIOUS
      <3> QED BY <3>1, FS_Subset
    <2> HIDE DEF R
    <2>2. Sum(f, R) \in Int
      BY <2>1, SumIsInt
    <2> QED BY <2>2, <1>5 DEF R
  <1>11. Sum(f, T \ {z}) = f[x] + Sum(f, (T \ {x}) \ {z})
    BY <1>7, <1>9, Zenon
  <1> HIDE DEF B
  <1> QED BY <1>4, <1>5, <1>8, <1>10, <1>11

(* What fits element by element fits as a whole: an x that takes anything   *)
(* takes it of e[x], and no two take of the same.                           *)
LEMMA SumFits ==
    ASSUME NEW A, IsFiniteSet(A), NEW C, IsFiniteSet(C),
           NEW f, \A x \in A : f[x] \in Nat, NEW g, \A y \in C : g[y] \in Nat,
           NEW e, \A x \in A : f[x] = 0 \/ (e[x] \in C /\ f[x] <= g[e[x]]),
           \A x, y \in A : f[x] # 0 /\ f[y] # 0 /\ e[x] = e[y] => x = y
    PROVE  Sum(f, A) <= Sum(g, C)
  <1> DEFINE Takes(T, U) == \A x \in T : f[x] = 0 \/ e[x] \in U
             B == {T \in SUBSET A : \E U \in SUBSET C : Takes(T, U) /\ ~(Sum(f, T) <= Sum(g, U))}
  <1>1. SUFFICES ASSUME B # {} PROVE FALSE
    OBVIOUS
  <1>2. B \subseteq SUBSET A
    OBVIOUS
  <1> HIDE DEF B
  <1>3. PICK T \in B : \A U \in SUBSET T : U # T => U \notin B
    BY <1>1, <1>2, SmallestSet
  <1>4. T \in SUBSET A /\ \E U \in SUBSET C : Takes(T, U) /\ ~(Sum(f, T) <= Sum(g, U))
    BY <1>3 DEF B
  <1>5. \A V \in SUBSET T : V # T =>
          \A U \in SUBSET C : Takes(V, U) => Sum(f, V) <= Sum(g, U)
    BY <1>3, <1>4 DEF B
  <1>6. PICK U \in SUBSET C : Takes(T, U) /\ ~(Sum(f, T) <= Sum(g, U))
    BY <1>4
  <1>7. IsFiniteSet(T) /\ IsFiniteSet(U)
    BY <1>4, FS_Subset
  <1>8. T # {}
    <2>1. SUFFICES ASSUME T = {} PROVE FALSE
      OBVIOUS
    <2>2. Sum(f, T) = 0 /\ Sum(g, U) \in Nat
      BY <2>1, <1>7, SumOfNone, SumIsNat
    <2> QED BY <2>2, <1>6
  <1>9. PICK x : x \in T
    BY <1>8
  <1>10. f[x] \in Nat /\ Sum(f, T) = f[x] + Sum(f, T \ {x})
    BY <1>4, <1>7, <1>9, SumWithout
  <1>11. T \ {x} \in SUBSET T /\ T \ {x} # T
    BY <1>9
  <1>12. Sum(f, T \ {x}) \in Nat
    BY <1>4, <1>7, FS_RemoveElement, SumIsNat
  <1>13. CASE f[x] = 0
    <2>1. Sum(f, T \ {x}) <= Sum(g, U)
      BY <1>5, <1>6, <1>11
    <2> QED BY <2>1, <1>6, <1>10, <1>12, <1>13
  <1>14. CASE f[x] # 0
    <2>1. e[x] \in U /\ g[e[x]] \in Nat /\ f[x] <= g[e[x]]
      BY <1>4, <1>6, <1>9, <1>14
    <2>2. Sum(g, U) = g[e[x]] + Sum(g, U \ {e[x]})
      BY <2>1, <1>7, SumWithout
    <2>3. Sum(g, U \ {e[x]}) \in Nat
      BY <1>7, FS_RemoveElement, SumIsNat
    <2>4. Sum(f, T \ {x}) <= Sum(g, U \ {e[x]})
      <3>1. Takes(T \ {x}, U \ {e[x]})
        BY <1>4, <1>6, <1>9, <1>14
      <3>2. U \ {e[x]} \in SUBSET C
        OBVIOUS
      <3> HIDE DEF Takes
      <3> QED BY <3>1, <3>2, <1>5, <1>11
    <2> QED BY <2>1, <2>2, <2>3, <2>4, <1>6, <1>10, <1>12
  <1> QED BY <1>13, <1>14

LEMMA SumOfParts ==
    ASSUME NEW A, IsFiniteSet(A), NEW C, IsFiniteSet(C), A \cap C = {},
           NEW f, \A x \in A \cup C : f[x] \in Int
    PROVE  IsFiniteSet(A \cup C) /\ Sum(f, A \cup C) = Sum(f, A) + Sum(f, C)
  <1> DEFINE B == {T \in SUBSET C : Sum(f, A \cup T) # Sum(f, A) + Sum(f, T)}
  <1>0. IsFiniteSet(A \cup C)
    BY FS_Union
  <1>1. SUFFICES ASSUME B # {} PROVE FALSE
    BY <1>0
  <1>2. B \subseteq SUBSET C
    OBVIOUS
  <1> HIDE DEF B
  <1>3. PICK T \in B : \A U \in SUBSET T : U # T => U \notin B
    BY <1>1, <1>2, SmallestSet
  <1> USE DEF B
  <1>4. IsFiniteSet(T) /\ IsFiniteSet(A \cup T) /\ Sum(f, A) \in Int
    BY FS_Subset, <1>0, SumIsInt
  <1>5. T # {}
    <2>1. SUFFICES ASSUME T = {} PROVE FALSE
      OBVIOUS
    <2>2. A \cup T = A /\ Sum(f, T) = 0
      BY <2>1, SumOfNone
    <2> QED BY <2>2, <1>3, <1>4
  <1>6. PICK x : x \in T
    BY <1>5
  <1>7. /\ Sum(f, T) = f[x] + Sum(f, T \ {x})
        /\ Sum(f, A \cup T) = f[x] + Sum(f, (A \cup T) \ {x})
    BY <1>4, <1>6, SumWithout
  <1>8. (A \cup T) \ {x} = A \cup (T \ {x})
    BY <1>6
  <1>9. Sum(f, A \cup (T \ {x})) = Sum(f, A) + Sum(f, T \ {x})
    <2>1. T \ {x} \in SUBSET T /\ T \ {x} # T
      BY <1>6
    <2> QED BY <2>1, <1>3
  <1>10. f[x] \in Int /\ Sum(f, T \ {x}) \in Int
    BY <1>4, <1>6, FS_RemoveElement, SumIsInt
  <1>11. Sum(f, A \cup T) # Sum(f, A) + Sum(f, T)
    BY <1>3
  <1>12. Sum(f, A \cup T) = f[x] + (Sum(f, A) + Sum(f, T \ {x}))
    BY <1>7, <1>8, <1>9, Zenon
  <1> HIDE DEF B
  <1> QED BY <1>4, <1>7, <1>10, <1>11, <1>12

-----------------------------------------------------------------------------
(* The quota.                                                              *)

LEMMA SizesAndSets ==
    /\ IsFiniteSet(Assets) /\ IsFiniteSet(Commands) /\ Quota \in Nat
    /\ \A f \in Files : Size[f] \in Nat
    /\ \A a \in Attempts : Size[a] = Bytes[CommandOf[a]]
    /\ \A c \in Commands : Bytes[c] \in Nat /\ Need(c) \in Nat
<1>1. IsFiniteSet(Assets) /\ IsFiniteSet(Commands)
  BY MediaAssumption, FS_Subset
<1>2. Bytes \in [Initial \cup Commands -> Nat \ {0}] /\ Estimate \in [Clips -> Nat] /\ Quota \in Nat
  BY MediaAssumption
<1>3. ASSUME NEW f \in Files PROVE Size[f] \in Nat
  BY <1>2, Constants DEF Size, Files
<1>4. ASSUME NEW a \in Attempts PROVE Size[a] = Bytes[CommandOf[a]]
  BY Constants DEF Size
<1>5. ASSUME NEW c \in Commands PROVE Bytes[c] \in Nat /\ Need(c) \in Nat
  BY <1>2 DEF Need, Commands
<1> QED
  BY <1>1, <1>2, <1>3, <1>4, <1>5

(* A step after which no asset may come to more than before.               *)
LEMMA NoMoreKeepsQuota ==
    ASSUME QuotaAgrees, reserved' \in [Commands -> Nat],
           \A c \in Replaces : row'[TargetOf[c]] = "never" => reserved'[c] = 0,
           \A x \in Assets, n \in Nat : MayTake(x, n)' => MayTake(x, n)
    PROVE  QuotaAgrees'
  BY DEF QuotaAgrees

(* What a purge leaves, and what a command that ends gives back.           *)
LEMMA LessReservedKeepsQuota ==
    ASSUME QuotaAgrees, reserved' \in [Commands -> Nat], row' = row,
           \A c \in Commands : reserved'[c] <= reserved[c]
    PROVE  QuotaAgrees'
<1>1. ASSUME NEW x \in Assets, NEW n \in Nat, MayTake(x, n)' PROVE MayTake(x, n)
  <2>1. Exists(x)' = Exists(x) /\ Waiting(x)' = Waiting(x)
    BY DEF Exists, Waiting
  <2>2. \A c \in Commands : reserved[c] \in Nat /\ reserved'[c] \in Nat
    BY DEF QuotaAgrees
  <2>3. \A c \in Waiting(x) : c \in Commands
    BY DEF Waiting
  <2> QED
    BY <1>1, <2>1, <2>2, <2>3 DEF MayTake
<1>2. \A c \in Replaces : row'[TargetOf[c]] = "never" => reserved'[c] = 0
  BY DEF QuotaAgrees, Commands
<1> QED
  BY <1>1, <1>2, NoMoreKeepsQuota

(* An asset gets the file of its own command, whose size was reserved.     *)
LEMMA NewRowKeepsQuota ==
    ASSUME IInv, QuotaAgrees, NEW x \in Assets, NEW f \in Files, NEW c \in Waiting(x),
           Size[f] <= reserved[c], row' = [row EXCEPT ![x] = f],
           reserved' \in [Commands -> Nat], \A d \in Commands : reserved'[d] <= reserved[d]
    PROVE  QuotaAgrees'
<1>1. row \in [Assets -> Files \cup {"never", "deleted"}]
  BY DEF IInv, TypeOK
<1>2. row'[x] = f /\ \A y \in Assets \ {x} : row'[y] = row[y]
  BY <1>1
<1>3. /\ \A d \in Commands : reserved[d] \in Nat /\ reserved'[d] \in Nat
      /\ \A d \in Replaces : d \in Commands /\ TargetOf[d] \in Assets
  BY Constants DEF QuotaAgrees, Commands
<1>4. \A d \in Replaces : row'[TargetOf[d]] = "never" => reserved'[d] = 0
  <2> SUFFICES ASSUME NEW d \in Replaces, row'[TargetOf[d]] = "never" PROVE reserved'[d] = 0
    OBVIOUS
  <2>1. TargetOf[d] # x
    BY <1>2, Constants
  <2>2. reserved[d] = 0
    BY <2>1, <1>2, <1>3 DEF QuotaAgrees
  <2> QED
    BY <2>2, <1>3
<1>5. ASSUME NEW y \in Assets, NEW n \in Nat, MayTake(y, n)' PROVE MayTake(y, n)
  <2>1. CASE y # x
    <3>1. Exists(y)' = Exists(y) /\ Waiting(y)' = Waiting(y) /\ row'[y] = row[y]
      BY <1>2, <2>1 DEF Exists, Waiting
    <3> QED
      BY <1>3, <1>5, <3>1 DEF MayTake, Waiting
  <2>2. CASE y = x
    <3>1. c \in Commands /\ Size[f] \in Nat
      BY SizesAndSets DEF Waiting
    <3>2. CASE n = 0
      BY <3>2 DEF MayTake
    <3>3. CASE n <= Size[row'[x]]
      BY <1>2, <1>3, <2>2, <3>1, <3>3 DEF MayTake
    <3>4. ASSUME NEW d \in Waiting(x)', n <= reserved'[d] PROVE MayTake(y, n)
      <4>1. d \in Replaces /\ TargetOf[d] = x /\ d \in Commands
        BY <1>2, Constants DEF Waiting
      <4>2. n <= reserved[d]
        BY <1>3, <3>4, <4>1
      <4>3. CASE row[x] = "never"
        BY <1>3, <4>1, <4>2, <4>3 DEF QuotaAgrees, MayTake
      <4>4. CASE row[x] # "never"
        <5>1. d \in Waiting(x)
          BY <4>1, <4>4 DEF Waiting
        <5> QED
          BY <2>2, <4>2, <5>1 DEF MayTake
      <4> QED
        BY <4>3, <4>4
    <3> QED
      BY <1>5, <2>2, <3>2, <3>3, <3>4 DEF MayTake
  <2> QED
    BY <2>1, <2>2
<1> QED
  BY <1>4, <1>5, NoMoreKeepsQuota

LEMMA DeleteKeepsQuota ==
    ASSUME IInv, QuotaAgrees, NEW d \in Deletions, NEW x \in Assets, Delete(d, x)
    PROVE  QuotaAgrees'
<1>1. row \in [Assets -> Files \cup {"never", "deleted"}] /\ "deleted" \notin Files
  BY Constants DEF IInv, TypeOK
<1>2. row'[x] = "deleted" /\ reserved' = reserved /\ \A y \in Assets \ {x} : row'[y] = row[y]
  BY <1>1 DEF Delete
<1>3. \A c \in Replaces : row'[TargetOf[c]] = "never" => reserved'[c] = 0
  BY <1>2, Constants DEF QuotaAgrees
<1>4. ASSUME NEW y \in Assets, NEW n \in Nat, MayTake(y, n)' PROVE MayTake(y, n)
  <2>1. CASE y # x
    <3>1. Exists(y)' = Exists(y) /\ Waiting(y)' = Waiting(y) /\ row'[y] = row[y]
      BY <1>2, <2>1 DEF Exists, Waiting
    <3> QED
      BY <1>2, <1>4, <3>1 DEF MayTake
  <2>2. CASE y = x
    BY <1>1, <1>2, <1>4, <2>2 DEF MayTake, Exists, Waiting
  <2> QED
    BY <2>1, <2>2
<1> QED
  BY <1>2, <1>3, <1>4, NoMoreKeepsQuota DEF QuotaAgrees

(* A command writes what it has reserved.                                  *)
LEMMA TransactionKeepsQuota ==
    ASSUME IInv, QuotaAgrees, NEW a \in Attempts, Transaction(a)
    PROVE  QuotaAgrees'
<1> DEFINE c == CommandOf[a]
<1>1. /\ c \in Commands /\ a \in Files /\ Size[a] = Bytes[c] /\ Bytes[c] \in Nat
      /\ Size[a] <= reserved[c] /\ reserved \in [Commands -> Nat]
      /\ AttemptAgrees(a) /\ At(a, "stored")
  BY Constants, SizesAndSets, AttemptIs DEF Transaction, Live, QuotaAgrees
<1>2. \A d \in Commands : reserved[d] <= reserved[d]
  BY <1>1
<1>3. CASE NameUpload(a)
  <2>1. c \in Assets /\ row[c] = "never" /\ c \in Waiting(c)
    BY <1>1, <1>3, Constants DEF NameUpload, Recorded, IInv, RowsAgree, Waiting
  <2> QED
    BY <1>1, <1>2, <1>3, <2>1, NewRowKeepsQuota DEF NameUpload
<1>4. CASE NameReplacement(a)
  <2>1. TargetOf[c] \in Assets /\ c \in Waiting(TargetOf[c])
    BY <1>1, <1>4, Constants DEF NameReplacement, AttemptAgrees, At, Waiting, Exists
  <2> QED
    BY <1>1, <1>2, <1>4, <2>1, NewRowKeepsQuota DEF NameReplacement
<1>5. CASE NameClip(a)
  <2>1. reserved' = [reserved EXCEPT ![c] = Bytes[c]] /\ row' = row
    BY <1>5 DEF NameClip
  <2>2. reserved' \in [Commands -> Nat] /\ \A d \in Commands : reserved'[d] <= reserved[d]
    BY <1>1, <2>1
  <2> QED
    BY <2>1, <2>2, LessReservedKeepsQuota
<1> QED
  BY <1>3, <1>4, <1>5 DEF Transaction

LEMMA SaveKeepsQuota ==
    ASSUME IInv, QuotaAgrees, NEW c \in Clips, Save(c)
    PROVE  QuotaAgrees'
<1> DEFINE f == candidate[c].file
<1>1. c \in Commands /\ c \in Assets /\ reserved \in [Commands -> Nat]
  BY Constants DEF Commands, QuotaAgrees
<1>2. f \in Attempts /\ CommandOf[f] = c
  BY DEF IInv, TypeOK, ClipAgrees, Save
<1>3. f \in Files /\ Size[f] = Bytes[c] /\ Size[f] <= reserved[c]
  BY <1>2, Constants, SizesAndSets DEF Save, Live
<1>4. row[c] = "never" /\ c \in Waiting(c)
  BY <1>1, Constants DEF Save, IInv, RowsAgree, Waiting
<1>5. reserved' = [reserved EXCEPT ![c] = 0] /\ row' = [row EXCEPT ![c] = f]
  BY DEF Save
<1>6. reserved' \in [Commands -> Nat] /\ \A d \in Commands : reserved'[d] <= reserved[d]
  BY <1>1, <1>5
<1> HIDE DEF f
<1> QED
  BY <1>1, <1>3, <1>4, <1>5, <1>6, NewRowKeepsQuota

(* Which asset a command is for; no two assets wait for one command.       *)
AssetOf(c) == IF c \in Replaces THEN TargetOf[c] ELSE c

LEMMA WaitingIsForOne ==
    ASSUME NEW x, NEW c \in Waiting(x)
    PROVE  c \in Commands /\ AssetOf(c) = x
  BY DEF Waiting, AssetOf

LEMMA NamedAreFinite ==
    ASSUME IInv
    PROVE  /\ IsFiniteSet(Named) /\ Named \subseteq Files
           /\ \A f \in Named : OwnerOf(f) \in Assets /\ row[OwnerOf(f)] = f
<1> DEFINE Y == {y \in Assets : Exists(y)}
<1>1. Named \subseteq Files /\ \A f \in Named : OwnerOf(f) \in Y /\ row[OwnerOf(f)] = f
  BY DEF Named, IInv, RowsAgree, Exists
<1>2. IsFiniteSet(Y)
  BY SizesAndSets, FS_Subset
<1> DEFINE own == [f \in Named |-> OwnerOf(f)]
<1>3. own \in Injection(Named, Y)
  BY <1>1 DEF Injection, IsInjective
<1> HIDE DEF own
<1>4. IsFiniteSet(Named)
  BY <1>2, <1>3, FS_Injection
<1> QED
  BY <1>1, <1>4

(* A reservation is only made if everything fits, the file that is to be   *)
(* replaced set against the new one.                                       *)
LEMMA FittingKeepsQuota ==
    ASSUME IInv, QuotaAgrees, NEW a \in Attempts, Fits(a), At(a, "prepared"),
           CommandOf[a] \in Replaces => row[TargetOf[CommandOf[a]]] = request[a].seen,
           reserved' = [Purged EXCEPT ![CommandOf[a]] = Need(CommandOf[a])],
           row' = row
    PROVE  QuotaAgrees'
<1> DEFINE c == CommandOf[a]
           z == AssetOf(c)
<1>1. /\ c \in Commands /\ Need(c) \in Nat
      /\ \A d \in Commands : reserved[d] \in Nat
      /\ Purged \in [Commands -> Nat] /\ \A d \in Commands : Purged[d] <= reserved[d]
  BY Constants, SizesAndSets DEF QuotaAgrees, Purged
<1>2. reserved' \in [Commands -> Nat] /\ \A d \in Commands \ {c} : reserved'[d] = Purged[d]
  BY <1>1
<1>3. c \in Replaces => Exists(TargetOf[c]) /\ row[TargetOf[c]] = request[a].seen
  BY AttemptIs DEF At, AttemptAgrees, Exists
<1>4. \A d \in Replaces : row'[TargetOf[d]] = "never" => reserved'[d] = 0
  <2> SUFFICES ASSUME NEW d \in Replaces, row[TargetOf[d]] = "never" PROVE reserved'[d] = 0
    OBVIOUS
  <2>1. d # c /\ d \in Commands /\ reserved[d] = 0
    BY <1>3, Constants DEF QuotaAgrees, Exists, Commands
  <2> QED
    BY <1>1, <1>2, <2>1
<1>5. \A x : Exists(x)' = Exists(x) /\ Waiting(x)' = Waiting(x)
  BY DEF Exists, Waiting
<1> SUFFICES ASSUME NEW take \in [Assets -> Nat], \A x \in Assets : MayTake(x, take[x])'
             PROVE  Sum(take, Assets) <= Quota
  BY <1>2, <1>4 DEF QuotaAgrees
<1>6. ASSUME NEW x \in Assets, ~MayTake(x, take[x])
      PROVE  x = z /\ c \in Waiting(x) /\ take[x] <= Need(c)
  <2>1. PICK d \in Waiting(x) : take[x] <= reserved'[d]
    BY <1>5, <1>6 DEF MayTake
  <2>2. d = c
    <3>1. SUFFICES ASSUME d # c PROVE FALSE
      OBVIOUS
    <3>2. take[x] <= reserved[d]
      BY <1>1, <1>2, <2>1, <3>1, WaitingIsForOne
    <3> QED
      BY <1>6, <2>1, <3>2 DEF MayTake
  <2> QED
    BY <1>1, <2>1, <2>2, WaitingIsForOne
<1>7. CASE \A x \in Assets : MayTake(x, take[x])
  BY <1>7 DEF QuotaAgrees
<1>8. CASE ~MayTake(z, take[z]) /\ z \in Assets /\ c \in Waiting(z) /\ take[z] <= Need(c)
  <2> DEFINE rest == Assets \ {z}
             A == {x \in rest : Exists(x) /\ take[x] <= Size[row[x]]}
             W == rest \ A
             kept == IF c \in Replaces THEN Named \ {row[z]} ELSE Named
  <2>1. /\ IsFiniteSet(rest) /\ IsFiniteSet(A) /\ IsFiniteSet(W)
        /\ IsFiniteSet(Named) /\ IsFiniteSet(kept) /\ IsFiniteSet(Commands)
    <3>1. IsFiniteSet(rest)
      BY SizesAndSets, FS_RemoveElement
    <3>2. IsFiniteSet(A) /\ IsFiniteSet(W)
      BY <3>1, FS_Subset
    <3>3. IsFiniteSet(kept)
      BY NamedAreFinite, FS_RemoveElement
    <3> QED
      BY <3>1, <3>2, <3>3, NamedAreFinite, SizesAndSets
  <2>2. Sum(take, Assets) = take[z] + Sum(take, rest)
    BY <1>8, SizesAndSets, SumWithout
  <2>3. Sum(take, rest) = Sum(take, A) + Sum(take, W)
    <3>1. A \cup W = rest /\ A \cap W = {} /\ \A x \in A \cup W : take[x] \in Int
      OBVIOUS
    <3> HIDE DEF A, W, rest
    <3>2. Sum(take, A \cup W) = Sum(take, A) + Sum(take, W)
      BY <2>1, <3>1, SumOfParts
    <3> QED
      BY <3>1, <3>2
  <2>4. Sum(take, A) <= Sum(Size, kept)
    <3> DEFINE e == [x \in A |-> row[x]]
    <3>1. \A x \in A : take[x] \in Nat
      OBVIOUS
    <3>2. \A y \in kept : Size[y] \in Nat
      BY NamedAreFinite, SizesAndSets
    <3>3. \A x \in A : OwnerOf(e[x]) = x /\ e[x] \in Named
      BY DEF IInv, RowsAgree, Exists, Named
    <3>4. \A x \in A : e[x] \in kept /\ take[x] <= Size[e[x]]
      <4> SUFFICES ASSUME NEW x \in A PROVE e[x] \in kept /\ take[x] <= Size[e[x]]
        OBVIOUS
      <4>1. c \in Replaces => e[x] # row[z]
        <5>1. c \in Replaces => row[z] \in Files
          BY <1>3 DEF AssetOf, Exists
        <5>2. row[z] \in Files => OwnerOf(row[z]) = z
          BY <1>8 DEF IInv, RowsAgree
        <5>3. OwnerOf(e[x]) = x /\ x # z
          BY <3>3
        <5> QED
          BY <5>1, <5>2, <5>3
      <4> QED
        BY <3>3, <4>1
    <3>5. \A x, y \in A : e[x] = e[y] => x = y
      BY <3>3
    <3> HIDE DEF A, kept, e
    <3> QED
      BY <2>1, <3>1, <3>2, <3>4, <3>5, SumFits
  <2>5. Sum(take, W) <= Sum(Purged, Commands)
    <3> DEFINE e == [x \in W |-> CHOOSE d \in Waiting(x) : take[x] <= Purged[d]]
    <3>1. \A x \in W : take[x] \in Nat
      OBVIOUS
    <3>2. ASSUME NEW x \in W, take[x] # 0
          PROVE  e[x] \in Waiting(x) /\ take[x] <= Purged[e[x]]
      <4>1. PICK d \in Waiting(x) : take[x] <= reserved'[d]
        BY <1>5, <3>2 DEF MayTake
      <4>2. d # c /\ d \in Commands
        BY <4>1, WaitingIsForOne
      <4>3. take[x] <= Purged[d]
        BY <1>2, <4>1, <4>2
      <4> QED
        BY <4>1, <4>3
    <3>3. \A x \in W : take[x] = 0 \/ (e[x] \in Commands /\ take[x] <= Purged[e[x]])
      BY <3>2, WaitingIsForOne
    <3>4. \A x, y \in W : take[x] # 0 /\ take[y] # 0 /\ e[x] = e[y] => x = y
      <4> HIDE DEF W, e
      <4> QED
        BY <3>2, WaitingIsForOne
    <3>5. \A d \in Commands : Purged[d] \in Nat
      BY <1>1
    <3> HIDE DEF W, e
    <3> QED
      BY <2>1, <3>1, <3>3, <3>4, <3>5, SumFits
  <2>6. Sum(Size, Named) = Credit(a) + Sum(Size, kept) /\ Credit(a) \in Nat
    <3>1. CASE c \in Replaces
      <4>1. row[z] \in Named /\ Credit(a) = Size[row[z]] /\ row[z] \in Files
        BY <1>3, <1>8, <3>1, Constants DEF AssetOf, Exists, Named, Credit
      <4>2. \A f \in Named : Size[f] \in Int
        BY NamedAreFinite, SizesAndSets
      <4> QED
        BY <2>1, <3>1, <4>1, <4>2, SizesAndSets, SumWithout
    <3>2. CASE c \notin Replaces
      <4>1. request[a].seen = None
        BY <3>2, AttemptIs DEF AttemptAgrees
      <4>2. Sum(Size, Named) \in Nat
        BY <2>1, NamedAreFinite, SizesAndSets, SumIsNat
      <4> QED
        BY <3>2, <4>1, <4>2 DEF Credit
    <3> QED
      BY <3>1, <3>2
  <2>7. Sum(Size, Named) + Sum(Purged, Commands) + Need(c) <= Quota + Credit(a)
    BY DEF Fits, Used
  <2>8. /\ Sum(take, A) \in Nat /\ Sum(take, W) \in Nat /\ Sum(Purged, Commands) \in Nat
        /\ Sum(Size, kept) \in Nat /\ take[z] \in Nat /\ Quota \in Nat
    <3>1. Sum(take, A) \in Nat /\ Sum(take, W) \in Nat
      BY <2>1, SumIsNat
    <3>2. Sum(Purged, Commands) \in Nat
      BY <1>1, <2>1, SumIsNat
    <3>3. Sum(Size, kept) \in Nat
      BY <2>1, NamedAreFinite, SizesAndSets, SumIsNat
    <3> QED
      BY <1>8, <3>1, <3>2, <3>3, SizesAndSets
  <2> HIDE DEF A, W, kept, rest, z, c
  <2> QED
    BY <1>1, <1>8, <2>2, <2>3, <2>4, <2>5, <2>6, <2>7, <2>8
<1> QED
  BY <1>6, <1>7, <1>8

LEMMA ReserveKeepsQuota ==
    ASSUME IInv, QuotaAgrees, NEW a \in Attempts, Reserve(a)
    PROVE  QuotaAgrees'
<1>1. reserved \in [Commands -> Nat] /\ row' = row /\ At(a, "prepared")
  BY DEF QuotaAgrees, Reserve
<1>2. CASE reserved' = Purged
  BY <1>1, <1>2, LessReservedKeepsQuota DEF Purged
<1>3. CASE reserved' # Purged
  BY <1>1, <1>3, FittingKeepsQuota DEF Reserve
<1> QED
  BY <1>2, <1>3

(* At the start only the initial assets take anything.                     *)
LEMMA InitQuota == ASSUME Init PROVE QuotaAgrees
<1>1. /\ reserved = [c \in Commands |-> 0]
      /\ row = [x \in Assets |-> IF x \in Initial THEN x ELSE "never"]
  BY DEF Init
<1>2. \A c \in Commands : reserved[c] = 0
  BY <1>1
<1> SUFFICES ASSUME NEW take \in [Assets -> Nat], \A x \in Assets : MayTake(x, take[x])
             PROVE  Sum(take, Assets) <= Quota
  BY <1>1, <1>2 DEF QuotaAgrees, Commands
<1>3. ASSUME NEW x \in Assets, take[x] # 0 PROVE x \in Initial /\ take[x] <= Size[x]
  <2>1. ~\E c \in Waiting(x) : take[x] <= reserved[c]
    BY <1>2, <1>3, WaitingIsForOne
  <2>2. Exists(x) /\ take[x] <= Size[row[x]]
    BY <1>3, <2>1 DEF MayTake
  <2> QED
    BY <1>1, <2>2, Constants DEF Exists
<1> DEFINE e == [x \in Assets |-> x]
<1>4. \A x \in Assets : take[x] = 0 \/ (e[x] \in Initial /\ take[x] <= Size[e[x]])
  BY <1>3
<1>5. IsFiniteSet(Assets) /\ IsFiniteSet(Initial) /\ \A f \in Initial : Size[f] \in Nat
  BY SizesAndSets, FS_Subset, Constants DEF Assets
<1>6. \A x, y \in Assets : take[x] # 0 /\ take[y] # 0 /\ e[x] = e[y] => x = y
  OBVIOUS
<1>7. \A x \in Assets : take[x] \in Nat
  OBVIOUS
<1> HIDE DEF e
<1>8. Sum(take, Assets) <= Sum(Size, Initial)
  BY <1>4, <1>5, <1>6, <1>7, SumFits
<1>9. Sum(Size, Initial) <= Quota /\ Quota \in Nat
  BY MediaAssumption
<1>10. Sum(take, Assets) \in Nat /\ Sum(Size, Initial) \in Nat
  BY <1>5, <1>7, SumIsNat
<1> QED
  BY <1>8, <1>9, <1>10

LEMMA NextQuota == IInv /\ QuotaAgrees /\ [Next]_vars => QuotaAgrees'
<1> SUFFICES ASSUME IInv, QuotaAgrees, [Next]_vars PROVE QuotaAgrees'
  OBVIOUS
<1>1. reserved \in [Commands -> Nat]
  BY DEF QuotaAgrees
<1>2. CASE row' = row /\ reserved' = reserved
  BY <1>1, <1>2, LessReservedKeepsQuota
<1>3. ASSUME NEW c, row' = row, reserved' = [reserved EXCEPT ![c] = 0] PROVE QuotaAgrees'
  <2>1. \A d \in Commands : reserved'[d] = IF d = c THEN 0 ELSE reserved[d]
    BY <1>1, <1>3, Zenon
  <2>2. reserved' \in [Commands -> Nat]
    BY <1>1, <1>3
  <2> QED
    BY <1>1, <1>3, <2>1, <2>2, LessReservedKeepsQuota
<1>4. CASE row' = row /\ reserved' = Purged
  BY <1>1, <1>4, LessReservedKeepsQuota DEF Purged
<1>5. CASE \E a \in Attempts : Reserve(a)
  BY <1>5, ReserveKeepsQuota
<1>6. CASE \E a \in Attempts : Commit(a) \/ CommitUnanswered(a)
  BY <1>6, TransactionKeepsQuota DEF Commit, CommitUnanswered
<1>7. CASE \E d \in Deletions, x \in Assets : Delete(d, x)
  BY <1>7, DeleteKeepsQuota
<1>8. CASE \E c \in Clips : Save(c)
  BY <1>8, SaveKeepsQuota
<1> QED
  BY <1>2, <1>3, <1>4, <1>5, <1>6, <1>7, <1>8
     DEF Next, vars, Start, Insert, Store, CommitTooLate, Fail, MarkFailed, Release, Cancel, Unlink,
         UnlinkFails, Late, SweepUnlink, SweepFails, SweepRelease, Sweep,
         SweepReservations, Crash, Expire

(* The quota holds for any number of uploads, replacements, clips, retries *)
(* and expiries that race.                                                 *)
THEOREM QuotaIsKept == Spec => []QuotaHolds
<1>1. ASSUME IInv, QuotaAgrees PROVE QuotaHolds
  <2> DEFINE take == [x \in Assets |-> IF Exists(x) THEN Size[row[x]] ELSE 0]
             e == [f \in Named |-> OwnerOf(f)]
  <2>1. take \in [Assets -> Nat] /\ \A x \in Assets : MayTake(x, take[x])
    BY SizesAndSets DEF MayTake, Exists
  <2>2. \A f \in Named : e[f] \in Assets /\ row[e[f]] = f /\ Size[f] = take[e[f]] /\ Size[f] \in Nat
    BY <1>1, NamedAreFinite, SizesAndSets DEF Exists
  <2>3. Sum(take, Assets) <= Quota
    BY <1>1, <2>1 DEF QuotaAgrees
  <2>4. IsFiniteSet(Named) /\ IsFiniteSet(Assets) /\ \A x \in Assets : take[x] \in Nat
    BY <1>1, <2>1, NamedAreFinite, SizesAndSets
  <2> HIDE DEF take, e
  <2>5. \A f \in Named : Size[f] = 0 \/ (e[f] \in Assets /\ Size[f] <= take[e[f]])
    BY <2>2
  <2>6. \A f, g \in Named : Size[f] # 0 /\ Size[g] # 0 /\ e[f] = e[g] => f = g
    BY <2>2
  <2>7. Sum(Size, Named) <= Sum(take, Assets)
    BY <2>2, <2>4, <2>5, <2>6, SumFits
  <2>8. Sum(Size, Named) \in Nat /\ Sum(take, Assets) \in Nat /\ Quota \in Nat
    BY <2>2, <2>4, SumIsNat, SizesAndSets
  <2> QED
    BY <2>3, <2>7, <2>8 DEF QuotaHolds
<1>2. Init => QuotaAgrees
  BY InitQuota
<1>3. IInv /\ QuotaAgrees /\ [Next]_vars => QuotaAgrees'
  BY NextQuota
<1> QED
  BY <1>1, <1>2, <1>3, Invariance, PTL DEF Spec
=============================================================================
