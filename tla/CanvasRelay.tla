----------------------------- MODULE CanvasRelay -----------------------------
(***************************************************************************)
(* What is shown on the canvas without being stored - the rulers and the   *)
(* cursors of the members - and the break (pause) that takes it away:      *)
(* realtime.ts (ruler, cursor and disconnect handlers, cleanup),           *)
(* campaign-pause-guard.ts (the campaign row as a lock) and                *)
(* campaign-pause.ts (the command, its receipt and its broadcast).         *)
(*                                                                         *)
(* Everything that happens to the canvas takes the campaign row first:     *)
(*   a relay               FOR SHARE until it has emitted                  *)
(*   a canvas command      FOR UPDATE for its whole transaction            *)
(*   a pause or resume     FOR UPDATE for its whole transaction            *)
(*   its broadcast         FOR UPDATE while the snapshots go out           *)
(*                                                                         *)
(* The events of one socket pass an asynchronous session check, each on    *)
(* its own, before their handler sees them: inbox keeps them in the order  *)
(* the client sent them, and any of them may be the next to be handled.    *)
(*                                                                         *)
(* rulers and cursors are what a client displays that stays connected and  *)
(* is not the author: a Socket.IO room delivers in the order of the emits. *)
(***************************************************************************)
EXTENDS Integers, FiniteSets, SequencesExt

CONSTANTS Members, GMs,   \* the memberships, and those with the GM role
          Sockets,        \* sockets (browser tabs)
          MemberOf,       \* MemberOf[s]: whose tab it is
          Scenes,
          Slots,          \* cursor relays that may be under way at a time
          Requests,       \* handlers of POST /api/campaign/pause
          Commands,       \* actionIds of the pause and resume commands
          None,           \* nothing
          MayFail,        \* whether a relay may fail (database, scene deleted)
          MaxInbox,       \* bound: events of a socket in the session check
          MaxInputs,      \* bound: events the clients send altogether
          MaxRevision     \* bound: the revision of the campaign

ASSUME RelayAssumption ==
  /\ GMs \subseteq Members /\ MemberOf \in [Sockets -> Members]
  /\ None \notin Scenes \union Commands
  /\ MayFail \in BOOLEAN /\ MaxInbox \in Nat /\ MaxInputs \in Nat /\ MaxRevision \in Nat

VARIABLES
  campaign,   \* the campaign row: paused, revision
  writing,    \* a canvas command holds the row FOR UPDATE
  up,         \* socket -> connected, in the campaign room
  ephemera,   \* socket -> canvasEphemera: ruler, active, shared
  inbox,      \* socket -> events sent and not yet handled
  queue,      \* socket -> its ruler intents: clear, update, flying, locked
  relay,      \* slot -> a cursor relay
  rulers,     \* member -> the scene of the ruler that is displayed
  cursors,    \* audience -> the members whose cursor is displayed
  pause,      \* request -> a pause command being handled
  receipts,   \* command -> the response stored with it
  sent,       \* the revision of the last pause snapshot that went out
  inputs,     \* number of events sent
  last        \* history variable: socket -> scene -> its last ruler event

canvasVars == <<up, ephemera, inbox, queue, relay, rulers, cursors, inputs, last>>
pauseVars  == <<campaign, writing, pause, receipts, sent>>
vars == <<canvasVars, pauseVars>>

Update(sc) == [type |-> "update", scene |-> sc]
Clear(sc)  == [type |-> "clear", scene |-> sc]
Move(shared) == [type |-> "move", shared |-> shared]
Gone == [type |-> "gone"]
CursorEvents == {Move(b) : b \in BOOLEAN} \union {Gone}
Events == {Update(sc) : sc \in Scenes} \union {Clear(sc) : sc \in Scenes} \union CursorEvents

\* An intent of the ruler queue: an update of scene, or a clear of scenes.
NoIntent == [type |-> "none"]
Draw(sc) == [type |-> "draw", scene |-> sc]
Wipe(sc, prev) == [type |-> "wipe", scene |-> sc, scenes |-> {sc} \union prev]
Draws == {Draw(sc) : sc \in Scenes}
Wipes == {Wipe(sc, prev) : sc \in Scenes, prev \in SUBSET Scenes}

EmptyQueue == [clear |-> NoIntent, update |-> NoIntent, flying |-> NoIntent, locked |-> FALSE]
EmptyEphemera == [ruler |-> None, active |-> FALSE, shared |-> FALSE]

Free == [st |-> "free"]
Idle == [st |-> "idle"]

CampaignStates == [paused : BOOLEAN, revision : 0 .. MaxRevision]
Ephemeras == [ruler : Scenes \union {None}, active : BOOLEAN, shared : BOOLEAN]
Queues == [clear : Wipes \union {NoIntent}, update : Draws \union {NoIntent},
           flying : Draws \union Wipes \union {NoIntent}, locked : BOOLEAN]
Relays == [st : {"waiting", "locked"}, socket : Sockets, event : CursorEvents,
           gone : BOOLEAN, wide : BOOLEAN]
PauseHandlers == [st : {"asked", "cleaned", "committed", "sending"}, cmd : Commands,
                  paused : BOOLEAN, revision : 0 .. MaxRevision - 1]
Responses == [paused : BOOLEAN, revision : 1 .. MaxRevision]
Audiences == {"players", "gms"}

TypeOK ==
  /\ campaign \in CampaignStates
  /\ writing \in BOOLEAN
  /\ up \in [Sockets -> BOOLEAN]
  /\ ephemera \in [Sockets -> Ephemeras]
  /\ inbox \in [Sockets -> Seq(Events)]
  /\ queue \in [Sockets -> Queues]
  /\ relay \in [Slots -> Relays \union {Free}]
  /\ rulers \in [Members -> Scenes \union {None}]
  /\ cursors \in [Audiences -> SUBSET Members]
  /\ pause \in [Requests -> PauseHandlers \union {Idle}]
  /\ receipts \in [Commands -> Responses \union {None}]
  /\ sent \in 0 .. MaxRevision
  /\ inputs \in 0 .. MaxInputs
  /\ last \in [Sockets -> [Scenes -> {"none", "update", "clear"}]]

----------------------------------------------------------------------------
(***************************************************************************)
(* The campaign row as a lock.                                             *)
(***************************************************************************)
Exclusive == writing \/ \E r \in Requests : pause[r].st \in {"cleaned", "sending"}
Shared == \/ \E s \in Sockets : queue[s].locked
          \/ \E k \in Slots : relay[k].st = "locked"

\* FOR SHARE; the relay then reads paused under the lock.
UnguardedShare == TRUE   \* a variant: paused is read without the lock
ShareLock == ~ Exclusive
ExclusiveLock == ~ Exclusive /\ ~ Shared

----------------------------------------------------------------------------
(***************************************************************************)
(* Emits.                                                                  *)
(***************************************************************************)
Wide(m, shared) == m \notin GMs \/ shared
Room(m, shared) == IF Wide(m, shared) THEN Audiences ELSE {"gms"}

\* ruler:cleared of m for some scenes; a client compares the scene.
Cleared(m, scenes) == [rulers EXCEPT ![m] = IF @ \in scenes THEN None ELSE @]

\* cursor:gone and cursor:moved of m to the audiences in to.
CursorGone(view, m, to) == [a \in Audiences |-> IF a \in to THEN view[a] \ {m} ELSE view[a]]
CursorMoved(view, m, to) == [a \in Audiences |-> IF a \in to THEN view[a] \union {m} ELSE view[a]]

----------------------------------------------------------------------------
(***************************************************************************)
(* Clients.                                                                *)
(***************************************************************************)
Send(s, e) ==
  /\ up[s] /\ inputs < MaxInputs /\ Len(inbox[s]) < MaxInbox
  /\ inputs' = inputs + 1
  /\ inbox' = [inbox EXCEPT ![s] = Append(@, e)]
  /\ last' = IF e.type \in {"update", "clear"} THEN [last EXCEPT ![s][e.scene] = e.type] ELSE last
  /\ UNCHANGED <<up, ephemera, queue, relay, rulers, cursors, pauseVars>>

\* The session check of the i-th event is over.
Passes(s, i) == up[s] /\ i \in DOMAIN inbox[s]
Take(s, i) == inbox' = [inbox EXCEPT ![s] = RemoveAt(@, i)]

\* drainRulerIntents: a clear goes before an update; one relay at a time.
Drained(q) ==
  IF q.flying # NoIntent THEN q
  ELSE IF q.clear # NoIntent THEN [q EXCEPT !.flying = q.clear, !.clear = NoIntent]
  ELSE [q EXCEPT !.flying = q.update, !.update = NoIntent]

RulerUpdate(s, i) ==
  /\ Passes(s, i) /\ inbox[s][i].type = "update"
  /\ Take(s, i)
  /\ queue' = [queue EXCEPT ![s] = Drained([@ EXCEPT !.update = Draw(inbox[s][i].scene)])]
  /\ UNCHANGED <<up, ephemera, relay, rulers, cursors, inputs, last, pauseVars>>

\* enqueueRulerClear: a clear of a scene nothing is known about is dropped.
\* The scene of the ruler shown at this moment is cleared with it.
Targets(s, sc) ==
  \/ ephemera[s].ruler = sc
  \/ \E f \in {"clear", "update", "flying"} : queue[s][f] # NoIntent /\ queue[s][f].scene = sc

ShownSceneOrNone(s) == {ephemera[s].ruler}   \* a variant: also when none is shown
ShownScene(s) == {ephemera[s].ruler} \ {None}

ClearPending(s, sc) ==
  [queue[s] EXCEPT !.clear = Wipe(sc, ShownScene(s)),
                   !.update = IF @ = Draw(sc) THEN NoIntent ELSE @]

RulerClear(s, i) ==
  /\ Passes(s, i) /\ inbox[s][i].type = "clear"
  /\ Take(s, i)
  /\ LET sc == inbox[s][i].scene
     IN  queue' = IF Targets(s, sc) THEN [queue EXCEPT ![s] = Drained(ClearPending(s, sc))]
                  ELSE queue
  /\ UNCHANGED <<up, ephemera, relay, rulers, cursors, inputs, last, pauseVars>>

\* cursor:move and cursor:gone start a relay each; several run at a time.
\* cursor:gone is dropped unless the server knows of a displayed cursor.
CursorEvent(s, i, k) ==
  /\ Passes(s, i) /\ inbox[s][i].type \in {"move", "gone"}
  /\ inbox[s][i].type = "gone" => ephemera[s].active
  /\ relay[k] = Free
  /\ Take(s, i)
  /\ relay' = [relay EXCEPT ![k] = [st |-> "waiting", socket |-> s, event |-> inbox[s][i],
                                    gone |-> FALSE, wide |-> FALSE]]
  /\ UNCHANGED <<up, ephemera, queue, rulers, cursors, inputs, last, pauseVars>>

\* A cursor event that is dropped: too soon after the last, or nothing to retract.
CursorDropped(s, i) ==
  /\ Passes(s, i)
  /\ \/ inbox[s][i].type = "move"
     \/ inbox[s][i].type = "gone" /\ ~ ephemera[s].active
  /\ Take(s, i)
  /\ UNCHANGED <<up, ephemera, queue, relay, rulers, cursors, inputs, last, pauseVars>>

----------------------------------------------------------------------------
(***************************************************************************)
(* Relays.                                                                 *)
(***************************************************************************)
FinishRuler(s) == queue' = [queue EXCEPT ![s] = Drained([@ EXCEPT !.flying = NoIntent, !.locked = FALSE])]

\* The lock is there: go on, or stop if the campaign is paused.
RulerLock(s) ==
  /\ queue[s].flying # NoIntent /\ ~ queue[s].locked
  /\ ShareLock
  /\ IF campaign.paused THEN FinishRuler(s)
     ELSE queue' = [queue EXCEPT ![s].locked = TRUE]
  /\ UNCHANGED <<up, ephemera, inbox, relay, rulers, cursors, inputs, last, pauseVars>>

\* The relay fails or finds no scene.
RulerFails(s) ==
  /\ MayFail /\ queue[s].flying # NoIntent
  /\ FinishRuler(s)
  /\ UNCHANGED <<up, ephemera, inbox, relay, rulers, cursors, inputs, last, pauseVars>>

RulerDraw(s) ==
  /\ queue[s].locked /\ queue[s].flying.type = "draw"
  /\ LET sc == queue[s].flying.scene
     IN  /\ ephemera' = [ephemera EXCEPT ![s].ruler = sc]
         /\ rulers' = [rulers EXCEPT ![MemberOf[s]] = sc]
  /\ FinishRuler(s)
  /\ UNCHANGED <<up, inbox, relay, cursors, inputs, last, pauseVars>>

RulerWipe(s) ==
  /\ queue[s].locked /\ queue[s].flying.type = "wipe"
  /\ LET scenes == queue[s].flying.scenes
     IN  /\ ephemera' = [ephemera EXCEPT ![s].ruler = IF @ \in scenes THEN None ELSE @]
         /\ rulers' = Cleared(MemberOf[s], scenes)
  /\ FinishRuler(s)
  /\ UNCHANGED <<up, inbox, relay, cursors, inputs, last, pauseVars>>

CursorLock(k) ==
  /\ relay[k].st = "waiting"
  /\ ShareLock
  /\ relay' = [relay EXCEPT ![k] = IF campaign.paused THEN Free ELSE [@ EXCEPT !.st = "locked"]]
  /\ UNCHANGED <<up, ephemera, inbox, queue, rulers, cursors, inputs, last, pauseVars>>

CursorFails(k) ==
  /\ MayFail /\ relay[k] # Free
  /\ relay' = [relay EXCEPT ![k] = Free]
  /\ UNCHANGED <<up, ephemera, inbox, queue, rulers, cursors, inputs, last, pauseVars>>

\* A move from shared to private retracts the cursor from everybody first.
NeverRetracts(s, shared) == FALSE   \* a variant: the old position is left alone
Retracts(s, shared) == ephemera[s].active /\ ephemera[s].shared /\ ~ shared

CursorMove(k) ==
  /\ relay[k].st = "locked" /\ relay[k].event.type = "move"
  /\ LET s == relay[k].socket
         m == MemberOf[s]
         shared == relay[k].event.shared
         before == IF Retracts(s, shared) THEN CursorGone(cursors, m, Audiences) ELSE cursors
     IN  /\ cursors' = CursorMoved(before, m, Room(m, shared))
         /\ ephemera' = [ephemera EXCEPT ![s].active = TRUE, ![s].shared = shared]
  /\ relay' = [relay EXCEPT ![k] = Free]
  /\ UNCHANGED <<up, inbox, queue, rulers, inputs, last, pauseVars>>

\* cursor:gone is sent even if its socket is gone by now (gone, with the
\* audience it had).
CursorLeave(k) ==
  /\ relay[k].st = "locked" /\ relay[k].event.type = "gone"
  /\ LET s == relay[k].socket
         m == MemberOf[s]
         wide == IF relay[k].gone THEN relay[k].wide ELSE Wide(m, ephemera[s].shared)
     IN  /\ cursors' = CursorGone(cursors, m, IF wide THEN Audiences ELSE {"gms"})
         /\ ephemera' = IF relay[k].gone THEN ephemera
                        ELSE [ephemera EXCEPT ![s].active = FALSE]
  /\ relay' = [relay EXCEPT ![k] = Free]
  /\ UNCHANGED <<up, inbox, queue, rulers, inputs, last, pauseVars>>

\* The disconnect handler retracts what the socket shows.  Its relays go on;
\* those that look at socket.connected have no effect any more.
KeepsFlying(q) ==   \* a variant: a relay does not look at socket.connected
  [q EXCEPT !.clear = NoIntent, !.update = NoIntent]
Abandoned(q) == EmptyQueue

Disconnect(s) ==
  /\ up[s]
  /\ LET m == MemberOf[s]
         e == ephemera[s]
     IN  /\ rulers' = Cleared(m, ShownScene(s))
         /\ cursors' = IF e.active THEN CursorGone(cursors, m, Room(m, e.shared)) ELSE cursors
         /\ relay' = [k \in Slots |->
                        IF relay[k] = Free \/ relay[k].socket # s \/ relay[k].gone THEN relay[k]
                        ELSE IF relay[k].event.type = "move" THEN Free
                        ELSE [relay[k] EXCEPT !.gone = TRUE, !.wide = Wide(m, e.shared)]]
  /\ up' = [up EXCEPT ![s] = FALSE]
  /\ ephemera' = [ephemera EXCEPT ![s] = EmptyEphemera]
  /\ inbox' = [inbox EXCEPT ![s] = <<>>]
  /\ queue' = [queue EXCEPT ![s] = Abandoned(@)]
  /\ last' = [last EXCEPT ![s] = [sc \in Scenes |-> "none"]]
  /\ UNCHANGED <<inputs, pauseVars>>

Connect(s) ==
  /\ ~ up[s]
  /\ up' = [up EXCEPT ![s] = TRUE]
  /\ UNCHANGED <<ephemera, inbox, queue, relay, rulers, cursors, inputs, last, pauseVars>>

----------------------------------------------------------------------------
(***************************************************************************)
(* Canvas commands and the pause.                                          *)
(***************************************************************************)
CanvasOpenUnread == TRUE   \* a variant: paused is not read again under the lock
CanvasOpen == ~ campaign.paused

BeginWrite ==
  /\ ~ writing /\ ExclusiveLock /\ CanvasOpen
  /\ writing' = TRUE
  /\ UNCHANGED <<canvasVars, campaign, pause, receipts, sent>>

EndWrite ==
  /\ writing
  /\ writing' = FALSE
  /\ UNCHANGED <<canvasVars, campaign, pause, receipts, sent>>

\* A GM asks for a pause or a resume with the revision the client knows; a
\* retry repeats the command as it was.
Ask(r, c) ==
  /\ pause[r] = Idle
  /\ receipts[c] = None /\ \A q \in Requests : pause[q] # Idle => pause[q].cmd # c
  /\ campaign.revision < MaxRevision
  /\ pause' = [pause EXCEPT ![r] = [st |-> "asked", cmd |-> c, paused |-> ~ campaign.paused,
                                    revision |-> campaign.revision]]
  /\ UNCHANGED <<canvasVars, campaign, writing, receipts, sent>>

Retry(r, c) ==
  /\ pause[r] = Idle
  /\ \/ \E q \in Requests : /\ pause[q].st = "asked" /\ pause[q].cmd = c
                            /\ pause' = [pause EXCEPT ![r] = pause[q]]
     \/ /\ receipts[c] # None
        /\ pause' = [pause EXCEPT ![r] = [st |-> "asked", cmd |-> c, paused |-> receipts[c].paused,
                                          revision |-> receipts[c].revision - 1]]
  /\ UNCHANGED <<canvasVars, campaign, writing, receipts, sent>>

Asked(r) == pause[r].st = "asked" /\ ExclusiveLock

\* clearCampaignCanvasEphemera, over every socket in the room.
Cleanup ==
  LET shown == {s \in Sockets : up[s]}
      wide == {s \in shown : ephemera[s].active /\ Wide(MemberOf[s], ephemera[s].shared)}
      narrow == {s \in shown : ephemera[s].active} \ wide
  IN  /\ rulers' = [m \in Members |->
                      IF \E s \in shown : MemberOf[s] = m /\ ephemera[s].ruler = rulers[m]
                      THEN None ELSE rulers[m]]
      /\ cursors' = [a \in Audiences |->
                       cursors[a] \ ({MemberOf[s] : s \in wide}
                                     \union (IF a = "gms" THEN {MemberOf[s] : s \in narrow} ELSE {}))]
      /\ ephemera' = [s \in Sockets |-> IF s \in shown
                                        THEN [ephemera[s] EXCEPT !.ruler = None, !.active = FALSE]
                                        ELSE ephemera[s]]

\* executePause up to its commit: the command applies, and a pause cleans up.
Transition(r) ==
  /\ Asked(r) /\ receipts[pause[r].cmd] = None
  /\ campaign.revision = pause[r].revision /\ campaign.paused # pause[r].paused
  /\ pause' = [pause EXCEPT ![r].st = "cleaned"]
  /\ IF pause[r].paused THEN Cleanup ELSE UNCHANGED <<rulers, cursors, ephemera>>
  /\ UNCHANGED <<up, inbox, queue, relay, inputs, last, campaign, writing, receipts, sent>>

Commit(r) ==
  /\ pause[r].st = "cleaned"
  /\ LET response == [paused |-> pause[r].paused, revision |-> pause[r].revision + 1]
     IN  /\ campaign' = response
         /\ receipts' = [receipts EXCEPT ![pause[r].cmd] = response]
  /\ pause' = [pause EXCEPT ![r].st = "committed"]
  /\ UNCHANGED <<canvasVars, writing, sent>>

\* The command was applied before: it is answered, and announced again.
Replay(r) ==
  /\ Asked(r) /\ receipts[pause[r].cmd] # None
  /\ pause' = [pause EXCEPT ![r].st = "committed"]
  /\ UNCHANGED <<canvasVars, campaign, writing, receipts, sent>>

\* 409, a rolled back transaction, a connection that broke: the row and the
\* receipt stay as they are, the lock is released.
Give(r) ==
  /\ pause[r] # Idle
  /\ pause' = [pause EXCEPT ![r] = Idle]
  /\ UNCHANGED <<canvasVars, campaign, writing, receipts, sent>>

\* broadcastCampaignPauseSnapshot: nothing of a receipt that is not the state
\* of the row any more.
AnyReceipt(r) == TRUE   \* a variant: the receipt is announced as it is
StillCurrent(r) == receipts[pause[r].cmd] = campaign
Announce(r) ==
  /\ pause[r].st = "committed" /\ ExclusiveLock
  /\ StillCurrent(r)
  /\ pause' = [pause EXCEPT ![r].st = "sending"]
  /\ UNCHANGED <<canvasVars, campaign, writing, receipts, sent>>

Announced(r) ==
  /\ pause[r].st = "sending"
  /\ sent' = receipts[pause[r].cmd].revision
  /\ pause' = [pause EXCEPT ![r] = Idle]
  /\ UNCHANGED <<canvasVars, campaign, writing, receipts>>

----------------------------------------------------------------------------
Init ==
  /\ campaign = [paused |-> FALSE, revision |-> 0]
  /\ writing = FALSE
  /\ up = [s \in Sockets |-> TRUE]
  /\ ephemera = [s \in Sockets |-> EmptyEphemera]
  /\ inbox = [s \in Sockets |-> <<>>]
  /\ queue = [s \in Sockets |-> EmptyQueue]
  /\ relay = [k \in Slots |-> Free]
  /\ rulers = [m \in Members |-> None]
  /\ cursors = [a \in Audiences |-> {}]
  /\ pause = [r \in Requests |-> Idle]
  /\ receipts = [c \in Commands |-> None]
  /\ sent = 0
  /\ inputs = 0
  /\ last = [s \in Sockets |-> [sc \in Scenes |-> "none"]]

ClientStep(s) ==
  \/ \E e \in Events : Send(s, e)
  \/ \E i \in 1 .. MaxInbox : \/ RulerUpdate(s, i) \/ RulerClear(s, i) \/ CursorDropped(s, i)
                             \/ \E k \in Slots : CursorEvent(s, i, k)
  \/ Disconnect(s) \/ Connect(s)

RulerStep(s) == RulerLock(s) \/ RulerFails(s) \/ RulerDraw(s) \/ RulerWipe(s)
CursorStep(k) == CursorLock(k) \/ CursorFails(k) \/ CursorMove(k) \/ CursorLeave(k)

PauseStep(r) ==
  \/ \E c \in Commands : Ask(r, c) \/ Retry(r, c)
  \/ Transition(r) \/ Commit(r) \/ Replay(r) \/ Give(r) \/ Announce(r) \/ Announced(r)

Next ==
  \/ \E s \in Sockets : ClientStep(s) \/ RulerStep(s)
  \/ \E k \in Slots : CursorStep(k)
  \/ \E r \in Requests : PauseStep(r)
  \/ BeginWrite \/ EndWrite

Spec == Init /\ [][Next]_vars

----------------------------------------------------------------------------
(***************************************************************************)
(* Properties.                                                             *)
(***************************************************************************)

\* "Pause either follows this relay and cleans it up, or commits first and
\* makes the relay return BLOCKED": while the campaign is paused nobody sees a
\* ruler or a cursor, whatever relays were under way when the pause came.
PausedCanvasIsClean ==
  campaign.paused => /\ \A m \in Members : rulers[m] = None
                     /\ \A a \in Audiences : cursors[a] = {}

\* A ruler that is displayed is known to a connected socket of its member: the
\* pause, or the end of that connection, will retract it.  An asynchronous
\* relay that ends after its socket leaves nothing behind that nobody retracts.
RulersAreRetractable ==
  \A m \in Members :
    rulers[m] # None =>
      \E s \in Sockets : up[s] /\ MemberOf[s] = m /\ ephemera[s].ruler = rulers[m]

\* The same for cursors, for each audience: what the players see of a GM is
\* known to be shared, or it would be retracted from the GMs only.
CursorsAreRetractable ==
  \A a \in Audiences : \A m \in cursors[a] :
    \E s \in Sockets : /\ up[s] /\ MemberOf[s] = m /\ ephemera[s].active
                       /\ a = "players" => Wide(m, ephemera[s].shared)

\* "No canvas commit after an accepted pause": no canvas command is writing
\* while the campaign is paused or a pause is about to commit.
WritesExcludePause ==
  writing => /\ ~ campaign.paused
             /\ \A r \in Requests : pause[r].st \notin {"cleaned", "sending"}

\* "A historical exact retry may arrive after a newer pause/resume command": the
\* snapshots that announce a pause or a resume never go back to an older one.
AnnouncementsNeverRegress == [][sent' >= sent]_sent

\* "An update fired right before a clear must still broadcast update-then-clear,
\* or every client is left with a stale line nothing clears afterwards": once the
\* server has handled everything a member's only tab sent, no ruler is displayed
\* on a scene whose ruler that tab cleared last.
NoGhostRuler ==
  \A s \in Sockets :
    /\ up[s] /\ \A q \in Sockets : MemberOf[q] = MemberOf[s] => q = s
    /\ inbox[s] = <<>> /\ queue[s] = EmptyQueue
    => \A sc \in Scenes : rulers[MemberOf[s]] = sc => last[s][sc] # "clear"

----------------------------------------------------------------------------
(***************************************************************************)
(* The inductive invariant behind them.                                    *)
(***************************************************************************)

\* The row: one command holds it at a time, none together with a relay, and
\* whoever holds it read the paused flag that is still there.
Holds(r) == pause[r].st \in {"cleaned", "sending"}
LockInv ==
  /\ writing => ~ campaign.paused /\ \A r \in Requests : ~ Holds(r)
  /\ \A q, r \in Requests : Holds(q) /\ Holds(r) => q = r
  /\ Shared => ~ campaign.paused /\ ~ Exclusive
  /\ \A r \in Requests : pause[r].st = "cleaned" =>
       pause[r].paused # campaign.paused /\ pause[r].revision = campaign.revision

\* A socket that is gone shows nothing and has no relay that would.
OwnerInv ==
  /\ \A s \in Sockets : ~ up[s] => /\ ephemera[s].ruler = None /\ ~ ephemera[s].active
                                   /\ queue[s] = EmptyQueue
  /\ \A k \in Slots : relay[k] # Free =>
       IF relay[k].gone THEN relay[k].event.type = "gone" ELSE up[relay[k].socket]

\* From the cleanup of a pause to the commit of a resume nothing is shown.
Breaking == campaign.paused \/ \E r \in Requests : pause[r].st = "cleaned" /\ pause[r].paused
CleanInv == Breaking => \A s \in Sockets : ephemera[s].ruler = None /\ ~ ephemera[s].active

\* The snapshot on its way is that of the row.
AnnounceInv ==
  /\ sent <= campaign.revision
  /\ \A r \in Requests : pause[r].st = "sending" => receipts[pause[r].cmd] = campaign

=============================================================================
