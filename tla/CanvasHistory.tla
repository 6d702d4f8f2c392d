---------------------------- MODULE CanvasHistory ----------------------------
(***************************************************************************)
(* The durable undo / redo of one scene of the canvas: canvas-routes.ts    *)
(* (history, bulk, grid rescale), canvas-history.ts, and the single-object *)
(* commands of token-routes.ts, drawing-routes.ts and realtime.ts, whose   *)
(* transactions all have one shape:                                        *)
(*                                                                         *)
(*   read the row, look the actionId up, compare the client's revision     *)
(*   BEGIN, campaign row FOR UPDATE                                        *)
(*     invalidateRedoBranch                                                *)
(*     write the row WHERE revision = <the one read>                       *)
(*     insert the game event (unique per actionId) and the journal entry   *)
(*   COMMIT                                                                *)
(*                                                                         *)
(* The campaign lock makes a transaction one step.  What a handler read    *)
(* before the lock may be stale when it writes: a request is a slot that   *)
(* carries what was read from its admission to its transaction.            *)
(*                                                                         *)
(* A journal entry keeps, per target, the content before and after and the *)
(* revision at which the entry may still be replayed (currentRevision; the *)
(* per-object revisions of a bulk or a rescale).  The journal is kept in   *)
(* the order of transition_sequence: an entry moves to the end whenever it *)
(* is undone or redone.  Nothing selects an INVALIDATED entry any more: it *)
(* stays where it is, although its transition_sequence grows as well.      *)
(*                                                                         *)
(* Two columns of a token, its image and its link to a character, are also *)
(* written by statements that leave the revision alone: a new default      *)
(* image of the definition goes to all its tokens, archiving a character   *)
(* unlinks it.  So rows keeps the columns that only change with the        *)
(* revision, and look the two others.                                      *)
(***************************************************************************)
EXTENDS Integers, FiniteSets, SequencesExt

CONSTANTS Tokens,       \* token placements of the scene
          Drawings,     \* drawings of the scene
          Scene,        \* the scene row, whose content is its grid
          Players,      \* memberships that are not the GM
          GM,           \* the GM's membership
          Own,          \* Own[p]: what p controls (tokens) or authored (drawings)
          Values,       \* what a position, a stroke or a colour can be
          Grids,        \* grid sizes of the scene
          Images,       \* assets that tokens and stamps show
          Characters,   \* what a token may be linked to
          Definitions,  \* token definitions, shared by their placements
          DefinitionOf, \* DefinitionOf[t]: the definition of a placement
          Picture,      \* Picture[d]: the asset a stamp shows, or Nothing
          Nothing,      \* no image, no character
          Actions,      \* actionIds of the requests in flight, generated by the clients
          Requests,     \* request slots: the handlers that may run at a time
          Placed,       \* what stands on the canvas before the first command
          Worn,         \* Worn[t]: the image and the character a placed token has then
          Absent,       \* no row
          NoGrid,       \* the coordinate system of what no grid rescales
          MaxRev,       \* bound: no revision exceeds it
          MaxJournal,   \* bound: number of journal entries
          MaxOther      \* bound: number of writes that leave no journal entry

Members == Players \union {GM}
Objects == Tokens \union Drawings \union {Scene}

ASSUME HistoryAssumption ==
  /\ GM \notin Players /\ Own \in [Players -> SUBSET (Tokens \union Drawings)]
  /\ Placed \subseteq Tokens \union Drawings
  /\ Scene \notin Tokens \union Drawings /\ Tokens \intersect Drawings = {}
  /\ NoGrid \notin Grids /\ MaxRev \in Nat \ {0} /\ MaxJournal \in Nat /\ MaxOther \in Nat
  /\ Grids # {} /\ Values # {}
  /\ Nothing \notin Images \union Characters
  /\ DefinitionOf \in [Tokens -> Definitions]
  /\ Picture \in [Drawings -> Images \union {Nothing}]

Statuses == {"APPLIED", "UNDONE", "INVALIDATED"}
Single   == {"CREATE", "UPDATE", "DELETE"}
Kinds    == Single \union {"BULK", "SCENE"}
Dirs     == {"undo", "redo"}

VARIABLES
  rows,      \* object -> Absent or [rev, val, sys]; sys: the grid val is given in
  look,      \* token -> its image and character; Bare if it has no row
  live,      \* the images and definitions that exist
  top,       \* history variable: the highest revision an object ever had
  journal,   \* action_journal, in the order of transition_sequence
  events,    \* actionId -> number of game events recorded for it
  other,     \* number of writes so far that left no journal entry
  pend       \* request slot -> Idle or the request being handled

vars == <<rows, look, live, other, top, journal, events, pend>>

Idle == [st |-> "idle"]

\* What a snapshot in the journal keeps of a row.
Content(row) == IF row = Absent THEN Absent ELSE [val |-> row.val, sys |-> row.sys]
RowOf(content, rev) == [rev |-> rev, val |-> content.val, sys |-> content.sys]

Grid == rows[Scene].val
Editable(m) == IF m = GM THEN Tokens \union Drawings ELSE Own[m]
Present(o) == rows[o] # Absent

Bare  == [image |-> Nothing, character |-> Nothing]
Looks == [image : Images \union {Nothing}, character : Characters \union {Nothing}]
ASSUME WornAssumption == Worn \in [Placed \intersect Tokens -> Looks]

\* The foreign keys: what is named must exist; no character is ever removed.
Exists(image) == image = Nothing \/ image \in live

(***************************************************************************)
(* Types.                                                                  *)
(***************************************************************************)
Vals(o)       == IF o = Scene THEN Grids ELSE Values
Systems(o)    == IF o \in Tokens THEN Grids ELSE {NoGrid}
ContentsOf(o) == [val : Vals(o), sys : Systems(o)]
RowsOf(o)     == [rev : 0 .. MaxRev, val : Vals(o), sys : Systems(o)]
Contents      == UNION {ContentsOf(o) : o \in Objects}
Rows          == UNION {RowsOf(o) : o \in Objects}

ASSUME AbsentIsNoRow == Absent \notin Contents /\ Absent \notin Rows

Snapshots(S) == UNION {[D -> S] : D \in SUBSET Objects}
Sketches     == UNION {[D -> Looks] : D \in SUBSET Tokens}   \* what snapshots keep of looks

Entries ==
  [id : Nat, actor : Members, kind : Kinds, status : Statuses, mark : Nat,
   before : Snapshots(Contents \union {Absent}), after : Snapshots(Contents \union {Absent}),
   cur : Snapshots(0 .. MaxRev), looks : [Dirs -> Sketches]]

\* A removal leaves nothing, a creation found nothing; only a rescale's entry
\* has the scene among its targets; what keeps no whole row says nothing of looks.
Shaped(e) ==
  /\ DOMAIN e.before = DOMAIN e.cur /\ DOMAIN e.after = DOMAIN e.cur
  /\ \A o \in DOMAIN e.cur :
       /\ e.before[o] \in (IF e.kind = "CREATE" THEN {Absent} ELSE ContentsOf(o))
       /\ e.after[o] \in (CASE e.kind = "DELETE" -> {Absent}
                            [] e.kind = "BULK"   -> ContentsOf(o) \union {Absent}
                            [] OTHER             -> ContentsOf(o))
       /\ o = Scene => e.kind = "SCENE"
  /\ e.kind \in {"UPDATE", "SCENE"} => \A dir \in Dirs : DOMAIN e.looks[dir] = {}

EntryOK(e) == e.id \in 1 .. Len(journal) /\ e.mark \in 0 .. Len(journal) /\ Shaped(e)

RequestType ==
  {Idle}
    \union [st : {"admitted"}, act : Actions, actor : Members, op : Kinds,
            val : Values \union Grids \union {Absent}, seen : Snapshots(Rows \union {Absent}),
            looks : Sketches]
    \union [st : {"found", "picked"}, act : Actions, actor : Members, dir : Dirs, pick : Nat]

\* What an admitted request carries fits its command; what an undo or redo
\* picked is in the journal.
RequestOK(q) ==
  /\ q.st = "admitted" =>
       /\ DOMAIN q.seen # {}
       /\ q.op # "CREATE" => \A o \in DOMAIN q.seen : q.seen[o] \in RowsOf(o)
       /\ IF q.op = "SCENE" THEN DOMAIN q.seen = {Scene} /\ q.val \in Grids
                            ELSE Scene \notin DOMAIN q.seen
       /\ q.op \in {"CREATE", "UPDATE"} => q.val \in Values
       /\ q.op = "BULK" => q.val \in Values \union {Absent}
  /\ q.st = "picked" => \E i \in DOMAIN journal : journal[i].id = q.pick

\* The shape of the tables, the journal and the requests in flight.
TypeOK ==
  /\ rows \in [Objects -> Rows \union {Absent}] /\ Present(Scene)
  /\ \A o \in Objects : Present(o) => rows[o] \in RowsOf(o)
  /\ look \in [Tokens -> Looks] /\ live \subseteq Images \union Definitions
  /\ other \in 0 .. MaxOther
  /\ top \in [Objects -> -1 .. MaxRev]
  /\ journal \in Seq(Entries) /\ \A i \in DOMAIN journal : EntryOK(journal[i])
  /\ events \in [Actions -> Nat]
  /\ pend \in [Requests -> RequestType] /\ \A r \in Requests : RequestOK(pend[r])

----------------------------------------------------------------------------
(***************************************************************************)
(* The journal.                                                            *)
(***************************************************************************)
Position(id) == CHOOSE i \in DOMAIN journal : journal[i].id = id
Entry(id) == journal[Position(id)]
Desired(dir) == IF dir = "undo" THEN "APPLIED" ELSE "UNDONE"

\* Where the entries stand that m may undo or redo; a request takes the one
\* whose last transition is the latest.
Candidates(m, dir) ==
  {i \in DOMAIN journal : /\ journal[i].status = Desired(dir)
                          /\ (m = GM \/ journal[i].actor = m)}

\* canvas-history.ts: a new command of m ends the redo branch of m, a new
\* command of the GM ends everybody's.
Retire(e) == [e EXCEPT !.status = "INVALIDATED", !.mark = 0]
InvalidateOwn(m) ==   \* a variant: the GM's command ends only the GM's branch
  [i \in DOMAIN journal |->
     IF journal[i].status = "UNDONE" /\ journal[i].actor = m
     THEN Retire(journal[i]) ELSE journal[i]]
InvalidateRedoBranch(m) ==
  [i \in DOMAIN journal |->
     IF journal[i].status = "UNDONE" /\ (m = GM \/ journal[i].actor = m)
     THEN Retire(journal[i]) ELSE journal[i]]

\* The entry a command appends; cur is the revision its targets now have (had,
\* when it deleted them), looks[dir] what its snapshots say of looks: a whole
\* row says all, the entry of a change or of a rescale keeps other columns.
NewEntry(m, kind, before, after, cur, looks) ==
  [id |-> Len(journal) + 1, actor |-> m, kind |-> kind, status |-> "APPLIED",
   before |-> before, after |-> after, cur |-> cur, looks |-> looks, mark |-> 0]

NoSketch == [t \in {} |-> Bare]
Sketched(before, after) == [dir \in Dirs |-> IF dir = "undo" THEN before ELSE after]
LooksOf(targets) == [t \in targets \intersect Tokens |-> look[t]]

Raise(newrows) ==
  top' = [o \in Objects |->
            IF newrows[o] = Absent \/ newrows[o].rev <= top[o] THEN top[o] ELSE newrows[o].rev]

\* The statements on the rows; newlook is what they make of the looks.
Write(newrows, newlook) ==
  /\ rows' = newrows /\ Raise(newrows)
  /\ look' = [t \in Tokens |-> IF newrows[t] = Absent THEN Bare ELSE newlook[t]]
\* The unique index on (campaign, actionId) of game_events and action_journal.
NoUniqueIndex(a) == TRUE   \* a variant
Unrecorded(a) == events[a] = 0

\* The request ends, with n events recorded for it.  The one event of an
\* actionId that no request carries any more is dropped from the model: a retry
\* that comes later still is answered from the record and changes nothing.
End(r, n) ==
  LET a == pend[r].act
      shared == \E q \in Requests \ {r} : pend[q] # Idle /\ pend[q].act = a
  IN  /\ pend' = [pend EXCEPT ![r] = Idle]
      /\ events' = [events EXCEPT ![a] = IF shared \/ @ + n > 1 THEN @ + n ELSE 0]

----------------------------------------------------------------------------
(***************************************************************************)
(* Commands.  Submit is what a handler does before its transaction: the    *)
(* actionId is new, the revision the client sent is the row's, and the row *)
(* read here is the one the transaction will compare and journal.          *)
(***************************************************************************)
UnusedActions ==
  {a \in Actions : events[a] = 0 /\ \A q \in Requests : pend[q] # Idle => pend[q].act # a}

Admit(r, m, op, targets, v) ==
  /\ pend[r] = Idle /\ Len(journal) < MaxJournal
  /\ \E a \in UnusedActions :
       pend' = [pend EXCEPT ![r] =
                  [st |-> "admitted", act |-> a, actor |-> m, op |-> op, val |-> v,
                   seen |-> [o \in targets |-> rows[o]],
                   looks |-> IF op = "BULK" THEN LooksOf(targets) ELSE NoSketch]]
  /\ UNCHANGED <<rows, look, live, other, top, journal, events>>

\* POST placements and drawings: the id of the new object is a fresh UUID; the
\* definition it places, or the picture it shows, exists.
SubmitCreate(r) ==
  \E m \in Members, v \in Values : \E o \in Editable(m) :
    /\ top[o] = -1
    /\ IF o \in Tokens THEN DefinitionOf[o] \in live ELSE Exists(Picture[o])
    /\ Admit(r, m, "CREATE", {o}, v)

\* token:moved and every PATCH of one token or one drawing.
SubmitUpdate(r) ==
  \E m \in Members, v \in Values : \E o \in Editable(m) :
    Present(o) /\ rows[o].val # v /\ Admit(r, m, "UPDATE", {o}, v)

SubmitDelete(r) ==
  \E m \in Members : \E o \in Editable(m) :
    Present(o) /\ Admit(r, m, "DELETE", {o}, Absent)

\* POST /api/canvas/bulk on several objects: a move, or a removal (v = Absent).
SubmitBulk(r) ==
  \E m \in Members, v \in Values \union {Absent} :
    \E targets \in SUBSET Editable(m) :
      /\ Cardinality(targets) > 1 /\ \A o \in targets : Present(o)
      /\ Admit(r, m, "BULK", targets, v)

\* PATCH /api/scenes/:id/canvas with a new grid size.
SubmitRescale(r) ==
  \E g \in Grids : g # Grid /\ Admit(r, GM, "SCENE", {Scene}, g)

\* A client that got no answer sends the command again under the same
\* actionId: nothing is recorded for it yet and the revision it carries is
\* still the row's.  It reads the rows again, and finds what changed without a
\* revision.  A retry that comes later is answered from the record.
Resend(r) ==
  \E q \in Requests :
    /\ pend[r] = Idle /\ pend[q] # Idle /\ events[pend[q].act] = 0
    /\ pend' = [pend EXCEPT ![r] =
                  IF pend[q].st = "admitted"
                  THEN [pend[q] EXCEPT !.looks =
                          IF pend[q].op = "BULK" THEN LooksOf(DOMAIN pend[q].seen) ELSE NoSketch]
                  ELSE [pend[q] EXCEPT !.st = "found", !.pick = 0]]
    /\ pend[q].st = "admitted" => \A o \in DOMAIN pend[q].seen : rows[o] = pend[q].seen[o]
    /\ UNCHANGED <<rows, look, live, other, top, journal, events>>

----------------------------------------------------------------------------
(***************************************************************************)
(* Transactions of the commands.                                           *)
(***************************************************************************)
Running(r, op) == pend[r] # Idle /\ pend[r].st = "admitted" /\ pend[r].op = op

\* UPDATE / DELETE ... WHERE revision = the one read before the lock.
StillAt(seen, o) == Present(o) /\ rows[o].rev = seen[o].rev
Room(targets) == \A o \in targets : Present(o) => rows[o].rev < MaxRev

\* What every successful command leaves behind: its redo branch is gone, its
\* event and its entry are there.
Commit(r, newrows, newlook, before, after, cur, looks) ==
  LET m == pend[r].actor IN
  /\ Len(journal) < MaxJournal
  /\ Unrecorded(pend[r].act)
  /\ Write(newrows, newlook)
  /\ journal' = Append(InvalidateRedoBranch(m),
                       NewEntry(m, pend[r].op, before, after, cur, looks))
  /\ End(r, 1)
  /\ UNCHANGED <<live, other>>

\* A new token takes the image and the character of its definition, whatever
\* they are by now; its entry keeps the row that was inserted.
CreateTx(r) ==
  /\ Running(r, "CREATE")
  /\ LET o == CHOOSE x \in DOMAIN pend[r].seen : TRUE
         new == [val |-> pend[r].val, sys |-> IF o \in Tokens THEN Grid ELSE NoGrid]
     IN  /\ top[o] = -1
         /\ \E l \in Looks :
              /\ IF o \in Tokens THEN DefinitionOf[o] \in live /\ Exists(l.image) ELSE l = Bare
              /\ Commit(r, [rows EXCEPT ![o] = RowOf(new, 0)],
                        [t \in Tokens |-> IF t = o THEN l ELSE look[t]],
                        [x \in {o} |-> Absent], [x \in {o} |-> new], [x \in {o} |-> 0],
                        Sketched(NoSketch, [t \in {o} \intersect Tokens |-> l]))

\* A move or a PATCH of one object; the journal keeps the row read before.
UpdateTx(r) ==
  /\ Running(r, "UPDATE")
  /\ LET seen == pend[r].seen
         o == CHOOSE x \in DOMAIN seen : TRUE
         new == [val |-> pend[r].val, sys |-> IF o \in Tokens THEN Grid ELSE NoGrid]
     IN  /\ StillAt(seen, o) /\ Room({o})
         /\ Commit(r, [rows EXCEPT ![o] = RowOf(new, seen[o].rev + 1)], look,
                   [x \in {o} |-> Content(seen[o])], [x \in {o} |-> new],
                   [x \in {o} |-> seen[o].rev + 1], Sketched(NoSketch, NoSketch))

\* The entry keeps the row that the DELETE returned.
DeleteTx(r) ==
  /\ Running(r, "DELETE")
  /\ LET seen == pend[r].seen
         o == CHOOSE x \in DOMAIN seen : TRUE
     IN  /\ StillAt(seen, o)
         /\ Commit(r, [rows EXCEPT ![o] = Absent], look,
                   [x \in {o} |-> Content(seen[o])], [x \in {o} |-> Absent],
                   [x \in {o} |-> seen[o].rev], Sketched(LooksOf({o}), NoSketch))

\* All targets or none: one lost race throws BULK_CONFLICT.  The entry keeps the
\* rows read before the lock and those a move returned.
BulkTx(r) ==
  /\ Running(r, "BULK")
  /\ LET seen == pend[r].seen
         gone == pend[r].val = Absent
         new(o) == IF gone THEN Absent ELSE [Content(seen[o]) EXCEPT !.val = pend[r].val]
         rev(o) == IF gone THEN seen[o].rev ELSE seen[o].rev + 1
     IN  /\ \A o \in DOMAIN seen : StillAt(seen, o)
         /\ gone \/ Room(DOMAIN seen)
         /\ Commit(r, [o \in Objects |->
                         IF o \notin DOMAIN seen THEN rows[o]
                         ELSE IF gone THEN Absent ELSE RowOf(new(o), rev(o))], look,
                   [o \in DOMAIN seen |-> Content(seen[o])],
                   [o \in DOMAIN seen |-> new(o)], [o \in DOMAIN seen |-> rev(o)],
                   Sketched(pend[r].looks, IF gone THEN NoSketch ELSE LooksOf(DOMAIN seen)))

\* A command that lost its row after it was admitted.  A bulk, a drawing's
\* DELETE and a rescale throw and roll back; the others return from the
\* transaction, which commits: the actor's redo branch is gone all the same.
LoseRow(r) ==
  /\ pend[r] # Idle /\ pend[r].st = "admitted" /\ pend[r].op # "CREATE"
  /\ LET seen == pend[r].seen IN
     /\ \E o \in DOMAIN seen : ~ StillAt(seen, o)
     /\ \/ pend[r].op = "UPDATE"
        \/ pend[r].op = "DELETE" /\ DOMAIN seen \subseteq Tokens
  /\ journal' = InvalidateRedoBranch(pend[r].actor)
  /\ End(r, 0)
  /\ UNCHANGED <<rows, look, live, other, top>>

\* The grid rescale converts every token placed on the scene and retires the
\* applied single-token entries of the tokens it converted.
RescaleTx(r) ==
  /\ Running(r, "SCENE")
  /\ LET seen == pend[r].seen
         g == pend[r].val
         placed == {t \in Tokens : Present(t)}
         targets == placed \union {Scene}
         new(o) == IF o = Scene THEN [val |-> g, sys |-> NoGrid]
                   ELSE [Content(rows[o]) EXCEPT !.sys = g]
         retired(e) == /\ e.status = "APPLIED"
                       /\ e.kind \in Single
                       /\ DOMAIN e.cur \subseteq placed
         kept == [i \in DOMAIN journal |->
                    LET e == InvalidateRedoBranch(GM)[i]
                    IN  IF retired(e) THEN Retire(e) ELSE e]
     IN  /\ StillAt(seen, Scene) /\ Room(targets) /\ Len(journal) < MaxJournal
         /\ Unrecorded(pend[r].act)
         /\ Write([o \in Objects |-> IF o \in targets THEN RowOf(new(o), rows[o].rev + 1)
                                     ELSE rows[o]], look)
         /\ journal' = Append(kept,
              NewEntry(GM, "SCENE", [o \in targets |-> Content(rows[o])],
                       [o \in targets |-> new(o)], [o \in targets |-> rows[o].rev + 1],
                       Sketched(NoSketch, NoSketch)))
         /\ End(r, 1)
         /\ UNCHANGED <<live, other>>

----------------------------------------------------------------------------
(***************************************************************************)
(* Other writers of the rows.  They leave no entry and end no redo branch. *)
(* One that finds nothing to change is a stuttering step.                  *)
(***************************************************************************)

CountOther == other < MaxOther /\ other' = other + 1

\* PATCH of a definition with a default image: all its tokens show it, at the
\* revision they have.
ChangeImage(d, i) ==
  /\ d \in live /\ Exists(i) /\ CountOther
  /\ look' = [t \in Tokens |-> IF Present(t) /\ DefinitionOf[t] = d
                                THEN [look[t] EXCEPT !.image = i] ELSE look[t]]
  /\ look' # look
  /\ UNCHANGED <<rows, live, top, journal, events, pend>>

\* Archiving a character unlinks its tokens, at the revision they have.
Archive(c) ==
  /\ CountOther
  /\ look' = [t \in Tokens |-> IF look[t].character = c
                                THEN [look[t] EXCEPT !.character = Nothing] ELSE look[t]]
  /\ look' # look
  /\ UNCHANGED <<rows, live, top, journal, events, pend>>

\* Deleting an asset: its tokens lose their image and get a new revision, its
\* stamps go.
DeleteAsset(i) ==
  LET shows(t) == Present(t) /\ look[t].image = i IN
  /\ i \in live /\ CountOther
  /\ \A t \in Tokens : shows(t) => rows[t].rev < MaxRev
  /\ Write([o \in Objects |->
              IF o \in Tokens /\ shows(o) THEN [rows[o] EXCEPT !.rev = @ + 1]
              ELSE IF o \in Drawings /\ Picture[o] = i THEN Absent
              ELSE rows[o]],
           [t \in Tokens |-> IF shows(t) THEN [look[t] EXCEPT !.image = Nothing] ELSE look[t]])
  /\ live' = live \ {i}
  /\ UNCHANGED <<journal, events, pend>>

\* Deleting a definition removes its placements and retires the single-token
\* entries of every token that it has, or that an entry with a whole row says
\* it had; a bulk's entry that names them stays.
DeleteDefinition(d) ==
  LET mine == {t \in Tokens : DefinitionOf[t] = d}
      affected == {t \in mine :
                     \/ Present(t)
                     \/ \E e \in Range(journal) :
                          e.kind \in {"CREATE", "DELETE"} /\ t \in DOMAIN e.cur}
      retired(e) == /\ e.status # "INVALIDATED" /\ e.kind \in Single
                    /\ DOMAIN e.cur \subseteq affected
  IN  /\ d \in live /\ CountOther
      /\ Write([o \in Objects |-> IF o \in mine THEN Absent ELSE rows[o]], look)
      /\ live' = live \ {d}
      /\ journal' = [i \in DOMAIN journal |->
                       IF retired(journal[i]) THEN Retire(journal[i]) ELSE journal[i]]
      /\ UNCHANGED <<events, pend>>

----------------------------------------------------------------------------
(***************************************************************************)
(* POST /api/canvas/undo and /redo.                                        *)
(***************************************************************************)

\* The actionId is looked up first, in a query of its own.
Ask(r) ==
  \E m \in Members, dir \in Dirs, a \in UnusedActions :
    /\ pend[r] = Idle
    /\ pend' = [pend EXCEPT ![r] =
                  [st |-> "found", act |-> a, actor |-> m, dir |-> dir, pick |-> 0]]
    /\ UNCHANGED <<rows, look, live, other, top, journal, events>>

\* Then the candidate is chosen, still outside the transaction; if
\* there is none the request ends (404, in Refuse).
Pick(r) ==
  /\ pend[r] # Idle /\ pend[r].st = "found"
  /\ \E i \in Candidates(pend[r].actor, pend[r].dir) :
       /\ \A j \in Candidates(pend[r].actor, pend[r].dir) : j <= i
       /\ pend' = [pend EXCEPT ![r].st = "picked", ![r].pick = journal[i].id]
  /\ UNCHANGED <<rows, look, live, other, top, journal, events>>

Opposite(dir) == IF dir = "undo" THEN "redo" ELSE "undo"
Want(e, dir) == IF dir = "undo" THEN e.before ELSE e.after
Have(e, dir) == IF dir = "undo" THEN e.after ELSE e.before

AtAnyRevision(e, o) == Present(o)   \* a variant
AtRevision(e, o) == Present(o) /\ rows[o].rev = e.cur[o]

\* The row a replay of e would write is in a state the code writes over.  One
\* object: a removal and a token's change need the revision of the entry, a
\* token comes back only if it is gone, a drawing that is gone is put back
\* whatever the entry was.  Bulk and rescale: every target is there, at its
\* revision, exactly if the entry left it there.
Accepts(e, dir, o) ==
  CASE e.kind \in {"BULK", "SCENE"} ->
         IF Have(e, dir)[o] = Absent THEN ~ Present(o) ELSE AtRevision(e, o)
    [] Want(e, dir)[o] = Absent -> AtRevision(e, o)
    [] o \in Drawings -> Present(o) => AtRevision(e, o)
    [] e.kind = "UPDATE" -> AtRevision(e, o)
    [] OTHER -> ~ Present(o)

Replayable(e, dir) == \A o \in DOMAIN e.cur : Accepts(e, dir, o)

\* A whole row written back needs what it refers to: the definition of a token
\* that is inserted again, the image of any token that gets one.
Storable(e, dir) ==
  \A t \in DOMAIN e.looks[dir] :
    /\ Exists(e.looks[dir][t].image)
    /\ Have(e, dir)[t] = Absent => DefinitionOf[t] \in live

\* The revision a replay gives what it writes.
EntryRevision(e, o) == e.cur[o]   \* a variant: what comes back has the old revision
NextRevision(e, o) == e.cur[o] + 1

\* The entry after its transition: at the end of the order, with the revisions
\* its targets have now; mark remembers which entries existed (a history field).
Toggled(e, dir) ==
  [e EXCEPT !.status = IF dir = "undo" THEN "UNDONE" ELSE "APPLIED",
            !.cur = [o \in DOMAIN e.cur |->
                       IF Want(e, dir)[o] = Absent THEN e.cur[o] ELSE NextRevision(e, o)],
            !.mark = IF dir = "undo" THEN Len(journal) ELSE 0]

AnyStatus(e, dir) == TRUE   \* a variant: the status is not read again under the lock
StillDesired(e, dir) == e.status = Desired(dir)

\* The transaction: the entry is read again under the lock, its targets are
\* compared and written, the entry and the event of the request are recorded.
ReplayTx(r) ==
  /\ pend[r] # Idle /\ pend[r].st = "picked"
  /\ LET dir == pend[r].dir
         e == Entry(pend[r].pick)
         want == Want(e, dir)
         others == RemoveAt(journal, Position(pend[r].pick))
     IN  /\ StillDesired(e, dir)
         /\ Replayable(e, dir)
         /\ Storable(e, dir)
         /\ \A o \in DOMAIN e.cur : want[o] # Absent => e.cur[o] < MaxRev
         /\ Unrecorded(pend[r].act)
         /\ Write([o \in Objects |->
                     IF o \notin DOMAIN e.cur THEN rows[o]
                     ELSE IF want[o] = Absent THEN Absent
                     ELSE RowOf(want[o], NextRevision(e, o))],
                  [t \in Tokens |-> IF t \in DOMAIN e.looks[dir] THEN e.looks[dir][t]
                                    ELSE look[t]])
         /\ journal' = Append(others, Toggled(e, dir))
         /\ End(r, 1)
         /\ UNCHANGED <<live, other>>

\* Every other end of a request changes nothing: the campaign is paused, the
\* role or the scene changed, 409 HISTORY_CONFLICT_RESYNC, a rolled back
\* transaction, a broken connection.
Refuse(r) ==
  /\ pend[r] # Idle
  /\ End(r, 0)
  /\ UNCHANGED <<rows, look, live, other, top, journal>>

----------------------------------------------------------------------------
Init ==
  /\ \E g \in Grids, v \in [Placed -> Values] :
       rows = [o \in Objects |->
                 IF o = Scene THEN RowOf([val |-> g, sys |-> NoGrid], 0)
                 ELSE IF o \notin Placed THEN Absent
                 ELSE RowOf([val |-> v[o], sys |-> IF o \in Tokens THEN g ELSE NoGrid], 0)]
  /\ look = [t \in Tokens |-> IF t \in Placed THEN Worn[t] ELSE Bare]
  /\ live = Images \union Definitions
  /\ other = 0
  /\ top = [o \in Objects |-> IF Present(o) THEN 0 ELSE -1]
  /\ journal = <<>>
  /\ events = [a \in Actions |-> 0]
  /\ pend = [r \in Requests |-> Idle]

Next ==
  \/ \E r \in Requests :
       \/ SubmitCreate(r) \/ SubmitUpdate(r) \/ SubmitDelete(r)
       \/ SubmitBulk(r) \/ SubmitRescale(r) \/ Resend(r)
       \/ CreateTx(r) \/ UpdateTx(r) \/ DeleteTx(r) \/ BulkTx(r)
       \/ RescaleTx(r) \/ LoseRow(r)
       \/ Ask(r) \/ Pick(r) \/ ReplayTx(r) \/ Refuse(r)
  \/ \E d \in Definitions : DeleteDefinition(d) \/ \E i \in Images \union {Nothing} : ChangeImage(d, i)
  \/ \E i \in Images : DeleteAsset(i)
  \/ \E c \in Characters : Archive(c)

Spec == Init /\ [][Next]_vars

----------------------------------------------------------------------------
(***************************************************************************)
(* Properties.                                                             *)
(***************************************************************************)

\* The entries whose status this step turned from APPLIED to UNDONE or back.
TurnedBy(e, dir) ==
  /\ e.status = Desired(dir)
  /\ \E f \in Range(journal') : f.id = e.id /\ f.status = (IF dir = "undo" THEN "UNDONE" ELSE "APPLIED")

\* What the entry left of an object, in the columns that a revision guards: the
\* replay finds it and nothing newer.
LeftAsRecorded(e, dir, o) ==
  IF Have(e, dir)[o] = Absent THEN ~ Present(o)
  ELSE Present(o) /\ Content(rows[o]) = Have(e, dir)[o]

\* "Revision checks are needed to prevent an old undo from overwriting a newer
\* edit": an undo or redo only ever writes over a token (or the grid) that is
\* exactly what the entry made of it, whoever changed, removed or restored it
\* since.  The checks compare revisions; this compares contents, and says that
\* what no revision guards, the image and the character of a token that stands,
\* is not written over at all, unless by the replay of a bulk.
TokenReplayIsExact ==
  [][\A e \in Range(journal), dir \in Dirs :
       TurnedBy(e, dir) =>
         \A o \in DOMAIN e.cur \ Drawings :
           /\ LeftAsRecorded(e, dir, o)
           /\ o \in Tokens /\ Present(o) /\ Present(o)' /\ e.kind # "BULK"
              => look'[o] = look[o]]_vars

\* The same for the image and the character a bulk's replay writes over.  It
\* does not hold: the definition's new image and the archived character come
\* without a revision, and the undo of an older bulk takes them back.
BulkReplayIsExact ==
  [][\A e \in Range(journal), dir \in Dirs :
       TurnedBy(e, dir) /\ e.kind = "BULK" =>
         \A t \in DOMAIN e.cur \intersect Tokens :
           Present(t) /\ Present(t)' => look[t] = e.looks[Opposite(dir)][t]]_vars

\* The same for drawings.
DrawingReplayIsExact ==
  [][\A e \in Range(journal), dir \in Dirs :
       TurnedBy(e, dir) =>
         \A o \in DOMAIN e.cur \cap Drawings : LeftAsRecorded(e, dir, o)]_vars

\* "Undo/redo requests themselves are idempotent through actionId": however
\* often a command is sent again, and whatever its retries pick, it happens
\* once.
OncePerAction == \A a \in Actions : events[a] <= 1

\* "A new mutation invalidates the actor redo branch": what is undone now was
\* undone after the last new command of its actor and of the GM.
RedoBranchIsCurrent ==
  \A e, f \in Range(journal) :
    e.status = "UNDONE" /\ f.id > e.mark => f.actor # GM /\ f.actor # e.actor

\* An entry that left the history never comes back into it: a redo that picked
\* it before a new command committed finds it invalidated.
InvalidatedIsFinal ==
  [][\A e \in Range(journal) : e.status = "INVALIDATED" => e \in Range(journal')]_vars

\* No two versions of what a revision guards (all of a token but its image and
\* its character, which change without one) share a revision, not even after a
\* removal was undone: a command prepared against an earlier place, size or
\* layer of the token cannot pass for one prepared against the present.
TokenRevisionsAreFresh ==
  [][\A t \in Tokens :
       rows'[t] # rows[t] /\ rows'[t] # Absent => rows'[t].rev > top[t]]_vars

\* "Player undo selects the latest APPLIED action authored by that membership
\* and still compatible with current target revisions": a request settles on an
\* entry it can replay whenever its actor has one.
PicksCompatible ==
  [][\A r \in Requests :
       pend[r] # Idle /\ pend[r].st = "found" /\ pend'[r] # Idle /\ pend'[r].st = "picked" =>
         LET m == pend[r].actor
             dir == pend[r].dir
             mine == {e \in Range(journal) : e.status = Desired(dir) /\ (m = GM \/ e.actor = m)}
         IN  (\E e \in mine : Replayable(e, dir)) => Replayable(Entry(pend'[r].pick), dir)]_vars

\* The rescale retires earlier token snapshots "so later history never replays
\* stale pixel geometry": every token stands in the coordinates of the grid the
\* scene has.
TokensUseSceneGrid ==
  \A t \in Tokens : Present(t) => rows[t].sys = Grid

----------------------------------------------------------------------------
(***************************************************************************)
(* The inductive invariant: what the revisions of tokens and of the scene  *)
(* say.  (Those of drawings say less: see DrawingReplayIsExact.)           *)
(***************************************************************************)

\* What an entry that is still in the history left of an object.
Left(e, o) == IF e.status = "APPLIED" THEN e.after[o] ELSE e.before[o]
Concerns(e, o) == e.status # "INVALIDATED" /\ o \in (DOMAIN e.cur) \ Drawings

IdsAreUnique ==
  \A i, j \in DOMAIN journal : journal[i].id = journal[j].id => i = j

\* What stands there has the highest revision it ever had.
RevisionsClimb == \A o \in Objects \ Drawings : Present(o) => rows[o].rev = top[o]

\* An entry knows no later revision than there was; the object at its revision
\* is as it left it, and what it removed is gone and had that revision.
Agrees(e, o) ==
  /\ e.cur[o] <= top[o]
  /\ IF Left(e, o) = Absent THEN ~ Present(o) /\ e.cur[o] = top[o]
     ELSE Present(o) /\ rows[o].rev = e.cur[o] => Content(rows[o]) = Left(e, o)

EntriesAgree ==
  \A i \in DOMAIN journal : \A o \in Objects : Concerns(journal[i], o) => Agrees(journal[i], o)

\* At most one entry can bring a removed object back.
OneRemoval ==
  \A i, j \in DOMAIN journal : \A o \in Objects :
    /\ Concerns(journal[i], o) /\ Left(journal[i], o) = Absent
    /\ Concerns(journal[j], o) /\ Left(journal[j], o) = Absent
    => i = j

IInv ==
  /\ TypeOK /\ OncePerAction /\ IdsAreUnique /\ RedoBranchIsCurrent
  /\ RevisionsClimb /\ EntriesAgree /\ OneRemoval

=============================================================================
