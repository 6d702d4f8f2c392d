------------------------- MODULE CanvasRelayProofs -------------------------
(***************************************************************************)
(* The safety properties of CanvasRelay for any number of members, tabs,   *)
(* scenes, concurrent relays and pause commands.  The argument goes from   *)
(* the lock on the campaign row (LockInv) and the fate of a socket that    *)
(* disconnects (OwnerInv) to what is displayed (the two Retractable        *)
(* properties) and what a pause leaves (CleanInv).                         *)
(***************************************************************************)
EXTENDS CanvasRelay, SequenceTheorems, TLAPS

----------------------------------------------------------------------------
(* Operators of the model                                                  *)

LEMMA RemoveAtType ==
    ASSUME NEW S, NEW seq \in Seq(S), NEW i \in DOMAIN seq
    PROVE  RemoveAt(seq, i) \in Seq(S)
<1>1. i \in 1 .. Len(seq) /\ Len(seq) \in Nat
  OBVIOUS
<1>2. SubSeq(seq, 1, i - 1) \in Seq(S)
  BY <1>1, SubSeqProperties
<1>3. SubSeq(seq, i + 1, Len(seq)) \in Seq(S)
  BY <1>1, SubSeqProperties
<1> QED
  BY <1>2, <1>3, ConcatProperties DEF RemoveAt

LEMMA EventScene ==
    ASSUME NEW e \in Events, e.type \in {"update", "clear"}
    PROVE  e.scene \in Scenes
BY DEF Events, CursorEvents, Update, Clear, Move, Gone

LEMMA EventOfCursor ==
    ASSUME NEW e \in Events, e.type \in {"move", "gone"}
    PROVE  e \in CursorEvents
BY DEF Events, Update, Clear

LEMMA CursorEventTypes ==
    ASSUME NEW e \in CursorEvents
    PROVE  /\ e.type \in {"move", "gone"}
           /\ e.type = "move" => e.shared \in BOOLEAN
BY DEF CursorEvents, Move, Gone

LEMMA WipeType ==
    ASSUME NEW sc \in Scenes, NEW prev \in SUBSET Scenes
    PROVE  Wipe(sc, prev) \in Wipes
BY DEF Wipes

LEMMA DrawnScene ==
    ASSUME NEW q \in Queues, q.flying # NoIntent
    PROVE  /\ q.flying.type = "draw" => q.flying.scene \in Scenes
           /\ q.flying.type = "wipe" => q.flying.scenes \subseteq Scenes
BY DEF Queues, Draws, Wipes, Draw, Wipe, NoIntent

(* What drainRulerIntents does to the three slots.                         *)
LEMMA DrainedType ==
    ASSUME NEW q \in Queues
    PROVE  /\ Drained(q) \in Queues
           /\ Drained(q).locked = q.locked
           /\ q.flying # NoIntent => Drained(q) = q
BY DEF Drained, Queues

LEMMA EmptyQueueType == EmptyQueue \in Queues /\ EmptyQueue.locked = FALSE
BY DEF EmptyQueue, Queues

LEMMA FinishedType ==
    ASSUME NEW q \in Queues
    PROVE  /\ Drained([q EXCEPT !.flying = NoIntent, !.locked = FALSE]) \in Queues
           /\ Drained([q EXCEPT !.flying = NoIntent, !.locked = FALSE]).locked = FALSE
<1>1. [q EXCEPT !.flying = NoIntent, !.locked = FALSE] \in Queues
  BY DEF Queues
<1>2. [q EXCEPT !.flying = NoIntent, !.locked = FALSE].locked = FALSE
  BY DEF Queues
<1> QED
  BY <1>1, <1>2, DrainedType

LEMMA UpdateSlot ==
    ASSUME NEW q \in Queues, NEW d \in Draws
    PROVE  /\ [q EXCEPT !.update = d] \in Queues
           /\ [q EXCEPT !.update = d].locked = q.locked
BY DEF Queues

LEMMA ClearSlot ==
    ASSUME NEW q \in Queues, NEW w \in Wipes, NEW d
    PROVE  /\ [q EXCEPT !.clear = w, !.update = IF @ = d THEN NoIntent ELSE @] \in Queues
           /\ [q EXCEPT !.clear = w, !.update = IF @ = d THEN NoIntent ELSE @].locked = q.locked
BY DEF Queues

LEMMA LockedSlot ==
    ASSUME NEW q \in Queues
    PROVE  [q EXCEPT !.locked = TRUE] \in Queues
BY DEF Queues

LEMMA EphemeraTypes ==
    ASSUME NEW e \in Ephemeras, NEW x \in Scenes \union {None}, NEW a \in BOOLEAN, NEW b \in BOOLEAN
    PROVE  /\ [e EXCEPT !.ruler = x] \in Ephemeras
           /\ [e EXCEPT !.active = a] \in Ephemeras
           /\ [e EXCEPT !.active = a, !.shared = b] \in Ephemeras
           /\ [e EXCEPT !.ruler = x, !.active = a] \in Ephemeras
BY DEF Ephemeras

LEMMA RelayTypes ==
    ASSUME NEW x \in Relays, NEW b \in BOOLEAN
    PROVE  /\ [x EXCEPT !.gone = TRUE, !.wide = b] \in Relays
           /\ [x EXCEPT !.gone = TRUE, !.wide = b].gone = TRUE
           /\ [x EXCEPT !.gone = TRUE, !.wide = b].st = x.st
           /\ [x EXCEPT !.gone = TRUE, !.wide = b].event = x.event
           /\ [x EXCEPT !.gone = TRUE, !.wide = b].socket = x.socket
           /\ [x EXCEPT !.st = "locked"] \in Relays
           /\ [x EXCEPT !.st = "locked"].gone = x.gone
           /\ [x EXCEPT !.st = "locked"].event = x.event
           /\ [x EXCEPT !.st = "locked"].socket = x.socket
BY DEF Relays

LEMMA WideType ==
    ASSUME NEW m, NEW e \in Ephemeras
    PROVE  Wide(m, e.shared) \in BOOLEAN
BY DEF Wide, Ephemeras

----------------------------------------------------------------------------
(* Type correctness                                                        *)

LEMMA TypeInit == Init => TypeOK
<1> SUFFICES ASSUME Init PROVE TypeOK
  OBVIOUS
<1>1. campaign \in CampaignStates /\ sent \in 0 .. MaxRevision /\ inputs \in 0 .. MaxInputs
  BY RelayAssumption DEF Init, CampaignStates
<1>2. ephemera \in [Sockets -> Ephemeras]
  BY DEF Init, Ephemeras, EmptyEphemera
<1>3. queue \in [Sockets -> Queues]
  BY EmptyQueueType DEF Init
<1>4. inbox \in [Sockets -> Seq(Events)]
  BY DEF Init
<1>5. cursors \in [Audiences -> SUBSET Members]
  BY DEF Init
<1>6. last \in [Sockets -> [Scenes -> {"none", "update", "clear"}]]
  BY DEF Init
<1> QED
  BY <1>1, <1>2, <1>3, <1>4, <1>5, <1>6 DEF Init, TypeOK

LEMMA ClientType ==
    ASSUME TypeOK, NEW s \in Sockets, ClientStep(s) \/ RulerStep(s)
    PROVE  TypeOK'
<1> USE DEF TypeOK
<1>1. ASSUME NEW e \in Events, Send(s, e) PROVE TypeOK'
  <2>1. inbox' \in [Sockets -> Seq(Events)]
    BY <1>1, AppendProperties DEF Send
  <2>2. last' \in [Sockets -> [Scenes -> {"none", "update", "clear"}]]
    <3>1. CASE e.type \in {"update", "clear"}
      BY <1>1, <3>1, EventScene DEF Send
    <3>2. CASE e.type \notin {"update", "clear"}
      BY <1>1, <3>2 DEF Send
    <3> QED
      BY <3>1, <3>2
  <2>3. inputs' \in 0 .. MaxInputs
    BY <1>1, RelayAssumption DEF Send
  <2> QED
    BY <1>1, <2>1, <2>2, <2>3 DEF Send, pauseVars
<1>2. ASSUME NEW i \in 1 .. MaxInbox, Passes(s, i), Take(s, i)
      PROVE  inbox' \in [Sockets -> Seq(Events)] /\ inbox[s][i] \in Events
  BY <1>2, RemoveAtType DEF Passes, Take
<1>3. ASSUME NEW i \in 1 .. MaxInbox, RulerUpdate(s, i) PROVE TypeOK'
  <2>1. inbox[s][i].scene \in Scenes
    BY <1>2, <1>3, EventScene DEF RulerUpdate
  <2>2. [queue[s] EXCEPT !.update = Draw(inbox[s][i].scene)] \in Queues
    BY <2>1, UpdateSlot DEF Draws
  <2>3. queue' \in [Sockets -> Queues]
    BY <2>2, <1>3, DrainedType DEF RulerUpdate
  <2>4. inbox' \in [Sockets -> Seq(Events)]
    BY <1>2, <1>3 DEF RulerUpdate
  <2> QED
    BY <1>3, <2>3, <2>4 DEF RulerUpdate, pauseVars
<1>4. ASSUME NEW i \in 1 .. MaxInbox, RulerClear(s, i) PROVE TypeOK'
  <2> DEFINE sc == inbox[s][i].scene
  <2>1. sc \in Scenes
    BY <1>2, <1>4, EventScene DEF RulerClear
  <2>2. Wipe(sc, ShownScene(s)) \in Wipes
    BY <2>1, WipeType DEF ShownScene, Ephemeras
  <2>3. ClearPending(s, sc) \in Queues
    BY <2>2, ClearSlot DEF ClearPending
  <2>4. queue' = queue \/ queue' = [queue EXCEPT ![s] = Drained(ClearPending(s, sc))]
    BY <1>4 DEF RulerClear
  <2>5. queue' \in [Sockets -> Queues]
    BY <2>3, <2>4, DrainedType
  <2>6. inbox' \in [Sockets -> Seq(Events)]
    BY <1>2, <1>4 DEF RulerClear
  <2> HIDE DEF sc
  <2> QED
    BY <1>4, <2>5, <2>6 DEF RulerClear, pauseVars
<1>5. ASSUME NEW i \in 1 .. MaxInbox, CursorDropped(s, i) PROVE TypeOK'
  <2>1. inbox' \in [Sockets -> Seq(Events)]
    BY <1>2, <1>5 DEF CursorDropped
  <2> QED
    BY <1>5, <2>1 DEF CursorDropped, pauseVars
<1>6. ASSUME NEW i \in 1 .. MaxInbox, NEW k \in Slots, CursorEvent(s, i, k) PROVE TypeOK'
  <2>1. relay' \in [Slots -> Relays \union {Free}]
    <3>1. inbox[s][i] \in CursorEvents
      BY <1>2, <1>6, EventOfCursor DEF CursorEvent
    <3> QED
      BY <1>6, <3>1 DEF CursorEvent, Relays
  <2>2. inbox' \in [Sockets -> Seq(Events)]
    BY <1>2, <1>6 DEF CursorEvent
  <2> QED
    BY <1>6, <2>1, <2>2 DEF CursorEvent, pauseVars
<1>7. CASE Disconnect(s)
  <2>1. ephemera' \in [Sockets -> Ephemeras]
    BY <1>7 DEF Disconnect, Ephemeras, EmptyEphemera
  <2>2. queue' \in [Sockets -> Queues]
    BY <1>7, EmptyQueueType DEF Disconnect, Abandoned
  <2>3. rulers' \in [Members -> Scenes \union {None}]
    BY <1>7 DEF Disconnect, Cleared
  <2>4. cursors' \in [Audiences -> SUBSET Members]
    BY <1>7 DEF Disconnect, CursorGone
  <2>5. relay' \in [Slots -> Relays \union {Free}]
    <3>1. \A k \in Slots : relay[k] # Free =>
            [relay[k] EXCEPT !.gone = TRUE, !.wide = Wide(MemberOf[s], ephemera[s].shared)] \in Relays
      <4> SUFFICES ASSUME NEW k \in Slots, relay[k] # Free
                   PROVE  [relay[k] EXCEPT !.gone = TRUE, !.wide = Wide(MemberOf[s], ephemera[s].shared)] \in Relays
        OBVIOUS
      <4>1. relay[k] \in Relays
        OBVIOUS
      <4>2. Wide(MemberOf[s], ephemera[s].shared) \in BOOLEAN
        BY WideType
      <4> QED
        BY <4>1, <4>2, RelayTypes
    <3> QED
      BY <1>7, <3>1 DEF Disconnect
  <2>6. inbox' \in [Sockets -> Seq(Events)]
    <3>1. inbox' = [inbox EXCEPT ![s] = <<>>]
      BY <1>7, Zenon DEF Disconnect
    <3> QED
      BY <3>1
  <2>7. last' \in [Sockets -> [Scenes -> {"none", "update", "clear"}]]
    BY <1>7 DEF Disconnect
  <2> QED
    BY <1>7, <2>1, <2>2, <2>3, <2>4, <2>5, <2>6, <2>7 DEF Disconnect, pauseVars
<1>8. CASE Connect(s)
  BY <1>8 DEF Connect, pauseVars
<1>9. ASSUME FinishRuler(s) PROVE queue' \in [Sockets -> Queues]
  BY <1>9, FinishedType DEF FinishRuler
<1>10. CASE RulerLock(s)
  <2>1. queue' \in [Sockets -> Queues]
    <3>1. CASE campaign.paused
      BY <1>9, <1>10, <3>1 DEF RulerLock
    <3>2. CASE ~ campaign.paused
      <4>1. queue' = [queue EXCEPT ![s] = [queue[s] EXCEPT !.locked = TRUE]]
        BY <1>10, <3>2, Zenon DEF RulerLock
      <4> QED
        BY <4>1, LockedSlot
    <3> QED
      BY <3>1, <3>2
  <2> QED
    BY <1>10, <2>1 DEF RulerLock, pauseVars
<1>11. CASE RulerFails(s)
  BY <1>9, <1>11 DEF RulerFails, pauseVars
<1>12. CASE RulerDraw(s)
  <2>1. queue[s].flying.scene \in Scenes
    BY <1>12, DrawnScene DEF RulerDraw, NoIntent
  <2>2. ephemera' \in [Sockets -> Ephemeras]
    BY <1>12, <2>1, EphemeraTypes DEF RulerDraw
  <2>3. rulers' \in [Members -> Scenes \union {None}]
    BY <1>12, <2>1 DEF RulerDraw
  <2> QED
    BY <1>9, <1>12, <2>2, <2>3 DEF RulerDraw, pauseVars
<1>13. CASE RulerWipe(s)
  <2>1. ephemera' \in [Sockets -> Ephemeras]
    <3>1. ephemera[s].ruler \in Scenes \union {None}
      BY DEF Ephemeras
    <3> QED
      BY <1>13, <3>1, EphemeraTypes DEF RulerWipe
  <2>2. rulers' \in [Members -> Scenes \union {None}]
    BY <1>13 DEF RulerWipe, Cleared
  <2> QED
    BY <1>9, <1>13, <2>1, <2>2 DEF RulerWipe, pauseVars
<1> QED
  BY <1>1, <1>3, <1>4, <1>5, <1>6, <1>7, <1>8, <1>10, <1>11, <1>12, <1>13
     DEF ClientStep, RulerStep

LEMMA CursorType ==
    ASSUME TypeOK, NEW k \in Slots, CursorStep(k)
    PROVE  TypeOK'
<1> USE DEF TypeOK
<1>1. CASE CursorLock(k)
  <2>1. relay[k] \in Relays
    BY <1>1 DEF CursorLock, Free
  <2>2. relay' \in [Slots -> Relays \union {Free}]
    BY <1>1, <2>1, RelayTypes DEF CursorLock
  <2> QED
    BY <1>1, <2>2 DEF CursorLock, pauseVars
<1>2. CASE CursorFails(k)
  BY <1>2 DEF CursorFails, pauseVars
<1>3. ASSUME relay[k].st = "locked"
      PROVE  relay[k] \in Relays /\ relay[k].socket \in Sockets /\ MemberOf[relay[k].socket] \in Members
  BY <1>3, RelayAssumption DEF Relays, Free
<1>4. CASE CursorMove(k)
  <2> DEFINE s == relay[k].socket
             m == MemberOf[s]
             shared == relay[k].event.shared
  <2>1. s \in Sockets /\ m \in Members
    BY <1>3, <1>4 DEF CursorMove
  <2>2. shared \in BOOLEAN
    BY <1>3, <1>4, CursorEventTypes DEF CursorMove, Relays
  <2>3. cursors' \in [Audiences -> SUBSET Members]
    BY <1>4, <2>1 DEF CursorMove, CursorMoved, CursorGone
  <2>4. ephemera' = [ephemera EXCEPT ![s] = [ephemera[s] EXCEPT !.active = TRUE, !.shared = shared]]
    BY <1>4, <2>1 DEF CursorMove
  <2>5. ephemera' \in [Sockets -> Ephemeras]
    BY <2>1, <2>2, <2>4, EphemeraTypes
  <2> QED
    BY <1>4, <2>3, <2>5 DEF CursorMove, pauseVars
<1>5. CASE CursorLeave(k)
  <2> DEFINE s == relay[k].socket
             m == MemberOf[s]
  <2>1. s \in Sockets /\ m \in Members
    BY <1>3, <1>5 DEF CursorLeave
  <2>2. cursors' \in [Audiences -> SUBSET Members]
    BY <1>5, <2>1 DEF CursorLeave, CursorGone
  <2>3. \/ ephemera' = ephemera
        \/ ephemera' = [ephemera EXCEPT ![s] = [ephemera[s] EXCEPT !.active = FALSE]]
    BY <1>5 DEF CursorLeave
  <2>4. ephemera' \in [Sockets -> Ephemeras]
    <3>1. [ephemera[s] EXCEPT !.active = FALSE] \in Ephemeras
      BY <2>1, EphemeraTypes
    <3> HIDE DEF s
    <3> QED
      BY <2>1, <2>3, <3>1
  <2> QED
    BY <1>5, <2>2, <2>4 DEF CursorLeave, pauseVars
<1> QED
  BY <1>1, <1>2, <1>4, <1>5 DEF CursorStep

(* A command that is committed has its response stored.                    *)
HasReceipt ==
    \A r \in Requests : pause[r].st \in {"committed", "sending"} =>
        receipts[pause[r].cmd] \in Responses

LEMMA HandlerTypes ==
    ASSUME NEW x \in PauseHandlers
    PROVE  /\ [x EXCEPT !.st = "cleaned"] \in PauseHandlers
           /\ [x EXCEPT !.st = "committed"] \in PauseHandlers
           /\ [x EXCEPT !.st = "sending"] \in PauseHandlers
           /\ [x EXCEPT !.st = "cleaned"].st = "cleaned"
           /\ [x EXCEPT !.st = "committed"].st = "committed"
           /\ [x EXCEPT !.st = "sending"].st = "sending"
           /\ [x EXCEPT !.st = "cleaned"].cmd = x.cmd
           /\ [x EXCEPT !.st = "committed"].cmd = x.cmd
           /\ [x EXCEPT !.st = "sending"].cmd = x.cmd
           /\ [x EXCEPT !.st = "cleaned"].paused = x.paused
           /\ [x EXCEPT !.st = "cleaned"].revision = x.revision
           /\ x.cmd \in Commands /\ x.paused \in BOOLEAN
           /\ x.revision \in 0 .. MaxRevision - 1
BY DEF PauseHandlers

LEMMA CleanupType ==
    ASSUME TypeOK, Cleanup
    PROVE  /\ rulers' \in [Members -> Scenes \union {None}]
           /\ cursors' \in [Audiences -> SUBSET Members]
           /\ ephemera' \in [Sockets -> Ephemeras]
<1>1. rulers' \in [Members -> Scenes \union {None}]
  BY DEF Cleanup, TypeOK
<1>2. cursors' \in [Audiences -> SUBSET Members]
  BY DEF Cleanup, TypeOK
<1>3. \A s \in Sockets : [ephemera[s] EXCEPT !.ruler = None, !.active = FALSE] \in Ephemeras
  BY EphemeraTypes DEF TypeOK
<1>4. ephemera' \in [Sockets -> Ephemeras]
  BY <1>3 DEF Cleanup, TypeOK
<1> QED
  BY <1>1, <1>2, <1>4

LEMMA PauseType ==
    ASSUME TypeOK, HasReceipt, NEW r \in Requests, PauseStep(r)
    PROVE  TypeOK' /\ HasReceipt'
<1> USE DEF TypeOK
<1>1. ASSUME pause[r].st \in {"asked", "cleaned", "committed", "sending"}
      PROVE  pause[r] \in PauseHandlers
  BY <1>1 DEF Idle
<1>2. ASSUME NEW c \in Commands, Ask(r, c) PROVE TypeOK' /\ HasReceipt'
  <2> DEFINE h == [st |-> "asked", cmd |-> c, paused |-> ~ campaign.paused,
                   revision |-> campaign.revision]
  <2>1. h \in PauseHandlers
    BY <1>2, RelayAssumption DEF Ask, PauseHandlers, CampaignStates
  <2>2. pause' = [pause EXCEPT ![r] = h] /\ UNCHANGED receipts
    BY <1>2 DEF Ask
  <2>3. h.st = "asked"
    OBVIOUS
  <2> HIDE DEF h
  <2>4. HasReceipt'
    BY <2>2, <2>3 DEF HasReceipt
  <2> QED
    BY <1>2, <2>1, <2>2, <2>4 DEF Ask, canvasVars
<1>3. ASSUME NEW c \in Commands, Retry(r, c) PROVE TypeOK' /\ HasReceipt'
  <2>1. PICK h \in PauseHandlers : h.st = "asked" /\ pause' = [pause EXCEPT ![r] = h]
    <3>1. CASE \E q \in Requests : /\ pause[q].st = "asked" /\ pause[q].cmd = c
                                   /\ pause' = [pause EXCEPT ![r] = pause[q]]
      <4>1. PICK q \in Requests : pause[q].st = "asked" /\ pause' = [pause EXCEPT ![r] = pause[q]]
        BY <3>1
      <4>2. pause[q] \in PauseHandlers
        BY <4>1 DEF Idle
      <4> QED
        BY <4>1, <4>2
    <3>2. CASE /\ receipts[c] # None
               /\ pause' = [pause EXCEPT ![r] = [st |-> "asked", cmd |-> c, paused |-> receipts[c].paused,
                                                 revision |-> receipts[c].revision - 1]]
      <4> DEFINE h == [st |-> "asked", cmd |-> c, paused |-> receipts[c].paused,
                       revision |-> receipts[c].revision - 1]
      <4>1. receipts[c].paused \in BOOLEAN /\ receipts[c].revision \in 1 .. MaxRevision
        BY <3>2 DEF Responses
      <4>2. receipts[c].revision - 1 \in 0 .. MaxRevision - 1
        BY <4>1, RelayAssumption
      <4>3. h \in PauseHandlers /\ h.st = "asked"
        BY <4>1, <4>2 DEF PauseHandlers
      <4> HIDE DEF h
      <4> QED
        BY <3>2, <4>3 DEF h
    <3> QED
      BY <1>3, <3>1, <3>2 DEF Retry
  <2>2. HasReceipt'
    BY <1>3, <2>1 DEF HasReceipt, Retry
  <2> QED
    BY <1>3, <2>1, <2>2 DEF Retry, canvasVars
<1>4. CASE Transition(r)
  <2>1. pause[r] \in PauseHandlers
    BY <1>1, <1>4 DEF Transition, Asked
  <2>2. pause' = [pause EXCEPT ![r] = [pause[r] EXCEPT !.st = "cleaned"]] /\ UNCHANGED receipts
    BY <1>4 DEF Transition
  <2>3. HasReceipt'
    BY <2>1, <2>2, HandlerTypes DEF HasReceipt
  <2>4. /\ rulers' \in [Members -> Scenes \union {None}]
        /\ cursors' \in [Audiences -> SUBSET Members]
        /\ ephemera' \in [Sockets -> Ephemeras]
    BY <1>4, CleanupType DEF Transition
  <2>9. pause' \in [Requests -> PauseHandlers \union {Idle}]
    BY <2>1, <2>2, HandlerTypes
  <2> QED
    BY <1>4, <2>2, <2>3, <2>4, <2>9 DEF Transition
<1>5. CASE Commit(r)
  <2> DEFINE response == [paused |-> pause[r].paused, revision |-> pause[r].revision + 1]
  <2>1. pause[r] \in PauseHandlers
    BY <1>1, <1>5 DEF Commit
  <2>2. response \in CampaignStates /\ response \in Responses
    <3>1. pause[r].paused \in BOOLEAN /\ pause[r].revision \in 0 .. MaxRevision - 1
      BY <2>1, HandlerTypes
    <3>2. pause[r].revision + 1 \in 0 .. MaxRevision /\ pause[r].revision + 1 \in 1 .. MaxRevision
      BY <3>1, RelayAssumption
    <3> QED
      BY <3>1, <3>2 DEF CampaignStates, Responses
  <2>3. /\ campaign' = response
        /\ receipts' = [receipts EXCEPT ![pause[r].cmd] = response]
        /\ pause' = [pause EXCEPT ![r] = [pause[r] EXCEPT !.st = "committed"]]
    BY <1>5 DEF Commit
  <2> HIDE DEF response
  <2>4. receipts' \in [Commands -> Responses \union {None}]
    BY <2>1, <2>2, <2>3
  <2>5. \A q \in Requests : pause'[q].st \in {"committed", "sending"} =>
                              pause'[q].cmd \in Commands /\ receipts'[pause'[q].cmd] \in Responses
    <3> SUFFICES ASSUME NEW q \in Requests, pause'[q].st \in {"committed", "sending"}
                 PROVE  pause'[q].cmd \in Commands /\ receipts'[pause'[q].cmd] \in Responses
      OBVIOUS
    <3>1. CASE q = r
      BY <3>1, <2>1, <2>2, <2>3, HandlerTypes
    <3>2. CASE q # r
      <4>1. pause'[q] = pause[q] /\ pause[q] \in PauseHandlers
        BY <3>2, <2>3 DEF Idle
      <4> QED
        BY <4>1, <2>2, <2>3, HandlerTypes DEF HasReceipt
    <3> QED
      BY <3>1, <3>2
  <2>6. HasReceipt'
    BY <2>5 DEF HasReceipt
  <2>9. pause' \in [Requests -> PauseHandlers \union {Idle}]
    BY <2>1, <2>3, HandlerTypes
  <2> QED
    BY <1>5, <2>2, <2>3, <2>4, <2>6, <2>9 DEF Commit, canvasVars
<1>6. CASE Replay(r)
  <2>1. pause[r] \in PauseHandlers
    BY <1>1, <1>6 DEF Replay, Asked
  <2>2. pause' = [pause EXCEPT ![r] = [pause[r] EXCEPT !.st = "committed"]] /\ UNCHANGED receipts
    BY <1>6 DEF Replay
  <2>3. receipts[pause[r].cmd] \in Responses
    BY <1>6, <2>1, HandlerTypes DEF Replay
  <2>4. HasReceipt'
    BY <2>1, <2>2, <2>3, HandlerTypes DEF HasReceipt
  <2>9. pause' \in [Requests -> PauseHandlers \union {Idle}]
    BY <2>1, <2>2, HandlerTypes
  <2> QED
    BY <1>6, <2>4, <2>9 DEF Replay, canvasVars
<1>7. CASE Give(r)
  <2>1. HasReceipt'
    BY <1>7 DEF HasReceipt, Give, Idle
  <2> QED
    BY <1>7, <2>1 DEF Give, canvasVars
<1>8. CASE Announce(r)
  <2>1. pause[r] \in PauseHandlers
    BY <1>1, <1>8 DEF Announce
  <2>2. pause' = [pause EXCEPT ![r] = [pause[r] EXCEPT !.st = "sending"]] /\ UNCHANGED receipts
    BY <1>8 DEF Announce
  <2>3. HasReceipt'
    BY <1>8, <2>1, <2>2, HandlerTypes DEF HasReceipt, Announce
  <2>9. pause' \in [Requests -> PauseHandlers \union {Idle}]
    BY <2>1, <2>2, HandlerTypes
  <2> QED
    BY <1>8, <2>3, <2>9 DEF Announce, canvasVars
<1>9. CASE Announced(r)
  <2>1. sent' \in 0 .. MaxRevision
    BY <1>9, RelayAssumption DEF Announced, HasReceipt, Responses
  <2>2. HasReceipt'
    BY <1>9 DEF HasReceipt, Announced, Idle
  <2> QED
    BY <1>9, <2>1, <2>2 DEF Announced, canvasVars
<1> QED
  BY <1>2, <1>3, <1>4, <1>5, <1>6, <1>7, <1>8, <1>9 DEF PauseStep

(* Nothing else touches the pause or its receipts.                         *)
CanvasStep == \/ \E s \in Sockets : ClientStep(s) \/ RulerStep(s)
              \/ \E k \in Slots : CursorStep(k)

LEMMA CanvasFrame ==
    ASSUME CanvasStep PROVE UNCHANGED pauseVars
<1>1. ASSUME NEW s \in Sockets, ClientStep(s) \/ RulerStep(s) PROVE UNCHANGED pauseVars
  BY <1>1 DEF ClientStep, RulerStep, Send, RulerUpdate, RulerClear, CursorDropped, CursorEvent,
              Disconnect, Connect, RulerLock, RulerFails, RulerDraw, RulerWipe
<1>2. ASSUME NEW k \in Slots, CursorStep(k) PROVE UNCHANGED pauseVars
  BY <1>2 DEF CursorStep, CursorLock, CursorFails, CursorMove, CursorLeave
<1> QED
  BY <1>1, <1>2 DEF CanvasStep

LEMMA TypeNext ==
    ASSUME TypeOK, HasReceipt, [Next]_vars
    PROVE  TypeOK' /\ HasReceipt'
<1>1. CanvasStep => UNCHANGED pauseVars
  BY CanvasFrame
<1>3. ASSUME UNCHANGED <<pause, receipts>> PROVE HasReceipt'
  BY <1>3 DEF HasReceipt
<1>4. CASE \E s \in Sockets : ClientStep(s) \/ RulerStep(s)
  BY <1>1, <1>3, <1>4, ClientType DEF pauseVars, CanvasStep
<1>5. CASE \E k \in Slots : CursorStep(k)
  BY <1>1, <1>3, <1>5, CursorType DEF pauseVars, CanvasStep
<1>6. CASE \E r \in Requests : PauseStep(r)
  BY <1>6, PauseType
<1>7. CASE BeginWrite \/ EndWrite
  BY <1>3, <1>7 DEF BeginWrite, EndWrite, canvasVars, TypeOK
<1>8. CASE UNCHANGED vars
  BY <1>3, <1>8 DEF vars, canvasVars, pauseVars, TypeOK
<1> QED
  BY <1>4, <1>5, <1>6, <1>7, <1>8 DEF Next

(* Every variable keeps its type, for any number of tabs and commands.     *)
THEOREM TypeCorrect == Spec => [](TypeOK /\ HasReceipt)
<1>1. Init => HasReceipt
  BY DEF Init, HasReceipt, Idle
<1> QED
  BY <1>1, TypeInit, TypeNext, PTL DEF Spec

----------------------------------------------------------------------------
(* The campaign row                                                        *)

(* What the events of a client do to its queue: none of them takes the row. *)
LEMMA ClientQueue ==
    ASSUME TypeOK, NEW s \in Sockets, ClientStep(s)
    PROVE  /\ \A q \in Sockets : q # s => queue'[q] = queue[q]
           /\ queue'[s].locked => queue[s].locked
           /\ Disconnect(s) \/ queue'[s].locked = queue[s].locked
<1> USE DEF TypeOK
<1>1. ASSUME NEW i \in 1 .. MaxInbox, Passes(s, i) PROVE inbox[s][i] \in Events
  BY <1>1 DEF Passes
<1>2. ASSUME NEW i \in 1 .. MaxInbox, RulerUpdate(s, i)
      PROVE  \E q \in Queues : q.locked = queue[s].locked /\ queue' = [queue EXCEPT ![s] = q]
  <2> DEFINE u == [queue[s] EXCEPT !.update = Draw(inbox[s][i].scene)]
  <2>1. inbox[s][i].scene \in Scenes
    BY <1>1, <1>2, EventScene DEF RulerUpdate
  <2>2. u \in Queues /\ u.locked = queue[s].locked
    BY <2>1, UpdateSlot DEF Draws
  <2>3. queue' = [queue EXCEPT ![s] = Drained(u)]
    BY <1>2 DEF RulerUpdate
  <2> HIDE DEF u
  <2> QED
    BY <2>2, <2>3, DrainedType
<1>3. ASSUME NEW i \in 1 .. MaxInbox, RulerClear(s, i)
      PROVE  \E q \in Queues : q.locked = queue[s].locked /\ queue' = [queue EXCEPT ![s] = q]
  <2> DEFINE sc == inbox[s][i].scene
  <2>1. sc \in Scenes
    BY <1>1, <1>3, EventScene DEF RulerClear
  <2>2. Wipe(sc, ShownScene(s)) \in Wipes
    BY <2>1, WipeType DEF ShownScene, Ephemeras
  <2>3. ClearPending(s, sc) \in Queues /\ ClearPending(s, sc).locked = queue[s].locked
    BY <2>2, ClearSlot DEF ClearPending
  <2>4. queue' = queue \/ queue' = [queue EXCEPT ![s] = Drained(ClearPending(s, sc))]
    BY <1>3 DEF RulerClear
  <2> HIDE DEF sc
  <2>5. CASE queue' = queue
    <3>1. queue' = [queue EXCEPT ![s] = queue[s]]
      BY <2>5
    <3> QED
      BY <3>1
  <2>6. CASE queue' = [queue EXCEPT ![s] = Drained(ClearPending(s, sc))]
    BY <2>3, <2>6, DrainedType
  <2> QED
    BY <2>4, <2>5, <2>6
<1>4. CASE Disconnect(s)
  <2>1. queue' = [queue EXCEPT ![s] = EmptyQueue]
    BY <1>4, Zenon DEF Disconnect, Abandoned
  <2> QED
    BY <1>4, <2>1, EmptyQueueType
<1>5. ASSUME NEW e \in Events, Send(s, e) PROVE queue' = queue
  BY <1>5 DEF Send
<1>6. ASSUME NEW i \in 1 .. MaxInbox, CursorDropped(s, i) \/ \E k \in Slots : CursorEvent(s, i, k)
      PROVE  queue' = queue
  BY <1>6 DEF CursorDropped, CursorEvent
<1>7. CASE Connect(s)
  BY <1>7 DEF Connect
<1>8. CASE \E i \in 1 .. MaxInbox : RulerUpdate(s, i) \/ RulerClear(s, i)
  <2>1. PICK q \in Queues : q.locked = queue[s].locked /\ queue' = [queue EXCEPT ![s] = q]
    BY <1>2, <1>3, <1>8
  <2> QED
    BY <2>1
<1> QED
  BY <1>4, <1>5, <1>6, <1>7, <1>8 DEF ClientStep

(* What a finished relay and a new lock leave in the queue.                *)
LEMMA RulerQueue ==
    ASSUME TypeOK, NEW s \in Sockets, RulerStep(s)
    PROVE  /\ \A q \in Sockets : q # s => queue'[q] = queue[q]
           /\ queue'[s].locked => /\ ShareLock /\ ~ campaign.paused /\ queue[s].flying # NoIntent
                                  /\ RulerLock(s)
<1> USE DEF TypeOK
<1>1. ASSUME FinishRuler(s)
      PROVE  (\A q \in Sockets : q # s => queue'[q] = queue[q]) /\ ~ queue'[s].locked
  BY <1>1, FinishedType DEF FinishRuler
<1>2. CASE RulerLock(s)
  <2>1. CASE campaign.paused
    BY <1>1, <1>2, <2>1 DEF RulerLock
  <2>2. CASE ~ campaign.paused
    <3>1. queue' = [queue EXCEPT ![s] = [queue[s] EXCEPT !.locked = TRUE]]
      BY <1>2, <2>2, Zenon DEF RulerLock
    <3> QED
      BY <1>2, <2>2, <3>1 DEF RulerLock
  <2> QED
    BY <2>1, <2>2
<1> QED
  BY <1>1, <1>2 DEF RulerStep, RulerFails, RulerDraw, RulerWipe

(* What the events of a client do to the relays: a new one waits, and those *)
(* of a socket that disconnects either end or are marked.                   *)
Started(s, x) == x.st = "waiting" /\ x.socket = s /\ ~ x.gone
Orphaned(s, x, y) ==
    /\ x # Free /\ x.socket = s /\ x.event.type = "gone"
    /\ y.st = x.st /\ y.event = x.event /\ y.socket = x.socket /\ y.gone

LEMMA ClientRelays ==
    ASSUME TypeOK, NEW s \in Sockets, ClientStep(s), NEW k \in Slots
    PROVE  \/ relay'[k] = Free
           \/ (Started(s, relay'[k]) /\ up' = up /\ up[s])
           \/ (relay'[k] = relay[k] /\ ~ Disconnect(s))
           \/ (relay'[k] = relay[k] /\ relay[k].socket # s)
           \/ (relay'[k] = relay[k] /\ relay[k].gone)
           \/ Orphaned(s, relay[k], relay'[k])
<1> USE DEF TypeOK
<1>1. ASSUME NEW i \in 1 .. MaxInbox, NEW c \in Slots, CursorEvent(s, i, c)
      PROVE  relay'[k] = relay[k] \/ (Started(s, relay'[k]) /\ up' = up /\ up[s])
  <2>1. relay' = [relay EXCEPT ![c] = [st |-> "waiting", socket |-> s, event |-> inbox[s][i],
                                       gone |-> FALSE, wide |-> FALSE]]
    BY <1>1 DEF CursorEvent
  <2>2. up' = up /\ up[s]
    BY <1>1 DEF CursorEvent, Passes
  <2> QED
    BY <2>1, <2>2 DEF Started
<1>2. CASE Disconnect(s)
  <2>1. CASE relay[k] = Free \/ relay[k].socket # s \/ relay[k].gone
    <3>1. relay'[k] = relay[k]
      BY <1>2, <2>1 DEF Disconnect
    <3> QED
      BY <2>1, <3>1
  <2>2. CASE relay[k] # Free /\ relay[k].socket = s /\ ~ relay[k].gone
    <3>1. relay[k] \in Relays
      BY <2>2
    <3>2. CASE relay[k].event.type = "move"
      BY <1>2, <2>2, <3>2 DEF Disconnect
    <3>3. CASE relay[k].event.type # "move"
      <4>1. relay[k].event.type = "gone"
        BY <3>1, <3>3, CursorEventTypes DEF Relays
      <4> DEFINE b == Wide(MemberOf[s], ephemera[s].shared)
      <4>2. relay'[k] = [relay[k] EXCEPT !.gone = TRUE, !.wide = b]
        BY <1>2, <2>2, <3>3 DEF Disconnect
      <4>3. b \in BOOLEAN
        BY WideType
      <4> HIDE DEF b
      <4>4. relay'[k].st = relay[k].st /\ relay'[k].event = relay[k].event
            /\ relay'[k].socket = relay[k].socket /\ relay'[k].gone
        <5> DEFINE y == [relay[k] EXCEPT !.gone = TRUE, !.wide = b]
        <5>1. y.st = relay[k].st /\ y.event = relay[k].event /\ y.socket = relay[k].socket /\ y.gone
          BY <3>1, <4>3, RelayTypes
        <5> HIDE DEF y
        <5> QED
          BY <4>2, <5>1 DEF y
      <4> QED
        BY <2>2, <4>1, <4>4 DEF Orphaned
    <3> QED
      BY <3>2, <3>3
  <2> QED
    BY <2>1, <2>2
<1>3. ASSUME NEW e \in Events, Send(s, e) PROVE relay' = relay
  BY <1>3 DEF Send
<1>4. ASSUME NEW i \in 1 .. MaxInbox, RulerUpdate(s, i) \/ RulerClear(s, i) \/ CursorDropped(s, i)
      PROVE  relay' = relay
  BY <1>4 DEF RulerUpdate, RulerClear, CursorDropped
<1>5. CASE Connect(s)
  BY <1>5 DEF Connect, Disconnect
<1>6. CASE ~ Disconnect(s)
  BY <1>1, <1>3, <1>4, <1>5, <1>6 DEF ClientStep
<1> QED
  BY <1>2, <1>6

(* A step of a relay: the slot is freed, or it got the lock.               *)
LEMMA CursorRelays ==
    ASSUME TypeOK, NEW k \in Slots, CursorStep(k)
    PROVE  /\ \A j \in Slots : j # k => relay'[j] = relay[j]
           /\ \/ relay'[k] = Free
              \/ /\ relay'[k] = [relay[k] EXCEPT !.st = "locked"] /\ relay[k] \in Relays
                 /\ ShareLock /\ ~ campaign.paused
           /\ relay[k] # Free
<1> USE DEF TypeOK
<1>1. CASE CursorLock(k)
  BY <1>1 DEF CursorLock, Free
<1>2. CASE CursorFails(k)
  BY <1>2 DEF CursorFails
<1>3. CASE CursorMove(k)
  BY <1>3 DEF CursorMove, Free
<1>4. CASE CursorLeave(k)
  BY <1>4 DEF CursorLeave, Free
<1> QED
  BY <1>1, <1>2, <1>3, <1>4 DEF CursorStep

(* A relay holds the row only if it found it free and the campaign running. *)
LEMMA SharedStep ==
    ASSUME TypeOK, CanvasStep
    PROVE  Shared' => Shared \/ (ShareLock /\ ~ campaign.paused)
<1>1. ASSUME NEW s \in Sockets, ClientStep(s) PROVE Shared' => Shared
  <2>1. ASSUME NEW k \in Slots, relay'[k].st = "locked" PROVE relay[k].st = "locked"
    BY <1>1, <2>1, ClientRelays DEF Started, Orphaned, Free
  <2> QED
    BY <1>1, <2>1, ClientQueue DEF Shared
<1>2. ASSUME NEW s \in Sockets, RulerStep(s) PROVE Shared' => Shared \/ (ShareLock /\ ~ campaign.paused)
  <2>1. relay' = relay
    BY <1>2 DEF RulerStep, RulerLock, RulerFails, RulerDraw, RulerWipe
  <2> QED
    BY <1>2, <2>1, RulerQueue DEF Shared
<1>3. ASSUME NEW k \in Slots, CursorStep(k) PROVE Shared' => Shared \/ (ShareLock /\ ~ campaign.paused)
  <2>1. queue' = queue
    BY <1>3 DEF CursorStep, CursorLock, CursorFails, CursorMove, CursorLeave
  <2>2. CASE ShareLock /\ ~ campaign.paused
    BY <2>2
  <2>3. CASE ~ (ShareLock /\ ~ campaign.paused)
    <3>1. relay'[k] = Free /\ \A j \in Slots : j # k => relay'[j] = relay[j]
      BY <1>3, <2>3, CursorRelays
    <3>2. \A j \in Slots : relay'[j].st = "locked" => relay[j].st = "locked"
      BY <3>1 DEF Free
    <3> QED
      BY <2>1, <3>2 DEF Shared
  <2> QED
    BY <2>2, <2>3
<1> QED
  BY <1>1, <1>2, <1>3 DEF CanvasStep

(* The steps of a pause command change its own record only.                *)
LEMMA PauseFrame ==
    ASSUME TypeOK, NEW r \in Requests, PauseStep(r)
    PROVE  /\ \A q \in Requests : q # r => pause'[q] = pause[q]
           /\ ~ Transition(r) /\ ~ Announce(r) => ~ Holds(r)'
           /\ ~ Transition(r) => pause'[r].st # "cleaned"
           /\ Transition(r) =>
                /\ ExclusiveLock /\ pause'[r].st = "cleaned"
                /\ pause'[r].paused = pause[r].paused /\ pause[r].paused # campaign.paused
                /\ pause'[r].revision = pause[r].revision /\ pause[r].revision = campaign.revision
           /\ Announce(r) => /\ ExclusiveLock /\ pause'[r].st = "sending"
                             /\ pause'[r].cmd = pause[r].cmd
           /\ ~ Commit(r) => campaign' = campaign /\ receipts' = receipts
           /\ Commit(r) => Holds(r) /\ pause[r].st = "cleaned"
           /\ queue' = queue /\ relay' = relay /\ writing' = writing /\ up' = up
<1> USE DEF TypeOK
<1>1. ASSUME pause[r].st \in {"asked", "cleaned", "committed", "sending"}
      PROVE  pause[r] \in PauseHandlers
  BY <1>1 DEF Idle
<1>2. ASSUME NEW c \in Commands, Ask(r, c) \/ Retry(r, c)
      PROVE  \E h : h.st = "asked" /\ pause' = [pause EXCEPT ![r] = h]
  <2>1. CASE Ask(r, c)
    <3> DEFINE h == [st |-> "asked", cmd |-> c, paused |-> ~ campaign.paused,
                     revision |-> campaign.revision]
    <3>1. h.st = "asked" /\ pause' = [pause EXCEPT ![r] = h]
      BY <2>1 DEF Ask
    <3> HIDE DEF h
    <3> QED
      BY <3>1
  <2>2. CASE \E q \in Requests : /\ pause[q].st = "asked" /\ pause[q].cmd = c
                                 /\ pause' = [pause EXCEPT ![r] = pause[q]]
    BY <2>2
  <2>3. CASE pause' = [pause EXCEPT ![r] = [st |-> "asked", cmd |-> c, paused |-> receipts[c].paused,
                                            revision |-> receipts[c].revision - 1]]
    <3> DEFINE h == [st |-> "asked", cmd |-> c, paused |-> receipts[c].paused,
                     revision |-> receipts[c].revision - 1]
    <3>1. h.st = "asked" /\ pause' = [pause EXCEPT ![r] = h]
      BY <2>3
    <3> HIDE DEF h
    <3> QED
      BY <3>1
  <2> QED
    BY <1>2, <2>1, <2>2, <2>3 DEF Retry
<1>3. CASE \E c \in Commands : Ask(r, c) \/ Retry(r, c)
  <2>1. PICK h : h.st = "asked" /\ pause' = [pause EXCEPT ![r] = h]
    BY <1>2, <1>3
  <2>2. pause'[r].st = "asked" /\ \A q \in Requests : q # r => pause'[q] = pause[q]
    BY <2>1
  <2>3. UNCHANGED <<campaign, receipts, queue, relay, writing, up>> /\ pause[r] = Idle
    BY <1>3 DEF Ask, Retry, canvasVars
  <2> QED
    BY <2>2, <2>3 DEF Holds, Transition, Asked, Announce, Commit, Idle
<1>4. CASE Transition(r)
  <2>1. pause[r] \in PauseHandlers
    BY <1>1, <1>4 DEF Transition, Asked
  <2>2. pause' = [pause EXCEPT ![r] = [pause[r] EXCEPT !.st = "cleaned"]]
    BY <1>4 DEF Transition
  <2>3. pause'[r] = [pause[r] EXCEPT !.st = "cleaned"] /\ \A q \in Requests : q # r => pause'[q] = pause[q]
    BY <2>2
  <2>4. UNCHANGED <<campaign, receipts, queue, relay, writing, up>> /\ pause[r].st = "asked"
    BY <1>4 DEF Transition, Asked
  <2> QED
    BY <1>4, <2>1, <2>3, <2>4, HandlerTypes DEF Transition, Asked, Announce, Commit
<1>5. CASE Commit(r)
  <2>1. pause[r] \in PauseHandlers
    BY <1>1, <1>5 DEF Commit
  <2>2. pause' = [pause EXCEPT ![r] = [pause[r] EXCEPT !.st = "committed"]]
    BY <1>5 DEF Commit
  <2>3. pause'[r].st = "committed" /\ \A q \in Requests : q # r => pause'[q] = pause[q]
    BY <2>1, <2>2, HandlerTypes
  <2>4. UNCHANGED <<queue, relay, writing, up>> /\ pause[r].st = "cleaned"
    BY <1>5 DEF Commit, canvasVars
  <2> QED
    BY <1>5, <2>3, <2>4 DEF Holds, Transition, Asked, Announce
<1>6. CASE Replay(r)
  <2>1. pause[r] \in PauseHandlers
    BY <1>1, <1>6 DEF Replay, Asked
  <2>2. pause' = [pause EXCEPT ![r] = [pause[r] EXCEPT !.st = "committed"]]
    BY <1>6 DEF Replay
  <2>3. pause'[r].st = "committed" /\ \A q \in Requests : q # r => pause'[q] = pause[q]
    BY <2>1, <2>2, HandlerTypes
  <2>4. UNCHANGED <<campaign, receipts, queue, relay, writing, up>> /\ pause[r].st = "asked"
        /\ receipts[pause[r].cmd] # None
    BY <1>6 DEF Replay, Asked, canvasVars
  <2> QED
    BY <2>3, <2>4 DEF Holds, Transition, Announce, Commit
<1>7. CASE Give(r) \/ Announced(r)
  <2>1. pause'[r] = Idle /\ \A q \in Requests : q # r => pause'[q] = pause[q]
    BY <1>7 DEF Give, Announced
  <2>2. UNCHANGED <<campaign, receipts, queue, relay, writing, up>>
    BY <1>7 DEF Give, Announced, canvasVars
  <2>3. ~ Transition(r) /\ ~ Announce(r) /\ ~ Commit(r)
    <3>1. pause[r] # Idle /\ pause'[r] = Idle
      BY <1>7, <2>1 DEF Give, Announced, Idle
    <3>2. ASSUME pause[r] \in PauseHandlers, NEW st \in {"cleaned", "committed", "sending"},
                 pause' = [pause EXCEPT ![r] = [pause[r] EXCEPT !.st = st]]
          PROVE  FALSE
      BY <2>1, <3>2, HandlerTypes DEF Idle
    <3> QED
      BY <3>1, <3>2 DEF Transition, Announce, Commit
  <2> QED
    BY <2>1, <2>2, <2>3 DEF Holds, Idle
<1>8. CASE Announce(r)
  <2>1. pause[r] \in PauseHandlers
    BY <1>1, <1>8 DEF Announce
  <2>2. pause' = [pause EXCEPT ![r] = [pause[r] EXCEPT !.st = "sending"]]
    BY <1>8 DEF Announce
  <2>3. /\ pause'[r].st = "sending" /\ pause'[r].cmd = pause[r].cmd
        /\ \A q \in Requests : q # r => pause'[q] = pause[q]
    BY <2>1, <2>2, HandlerTypes
  <2>4. UNCHANGED <<campaign, receipts, queue, relay, writing, up>> /\ pause[r].st = "committed"
    BY <1>8 DEF Announce, canvasVars
  <2> QED
    BY <1>8, <2>3, <2>4 DEF Transition, Asked, Announce, Commit
<1> QED
  BY <1>3, <1>4, <1>5, <1>6, <1>7, <1>8 DEF PauseStep

LEMMA LockNext ==
    ASSUME TypeOK, LockInv, [Next]_vars
    PROVE  LockInv'
<1>1. CASE CanvasStep
  <2>1. UNCHANGED <<campaign, writing, pause>>
    BY <1>1, CanvasFrame DEF pauseVars
  <2>2. Shared' => ~ campaign.paused /\ ~ Exclusive
    BY <1>1, SharedStep DEF LockInv, ShareLock
  <2> QED
    BY <2>1, <2>2 DEF LockInv, Holds, Exclusive
<1>2. ASSUME NEW r \in Requests, PauseStep(r) PROVE LockInv'
  <2>1. Shared' <=> Shared
    BY <1>2, PauseFrame DEF Shared
  <2>2. CASE Transition(r) \/ Announce(r)
    <3>1. ~ writing /\ ~ Shared /\ \A q \in Requests : ~ Holds(q)
      BY <1>2, <2>2, PauseFrame DEF ExclusiveLock, Exclusive, Holds
    <3>2. /\ writing' = writing /\ campaign' = campaign
          /\ \A q \in Requests : q # r => pause'[q] = pause[q]
          /\ pause'[r].st = "cleaned" =>
               pause'[r].paused # campaign.paused /\ pause'[r].revision = campaign.revision
      <4>1. CASE Transition(r)
        <5>1. ~ Commit(r)
          BY <4>1, <1>2, PauseFrame DEF Transition, Asked
        <5> QED
          BY <4>1, <5>1, <1>2, PauseFrame
      <4>2. CASE Announce(r)
        <5>1. ~ Commit(r)
          BY <4>2, <1>2, PauseFrame DEF Announce
        <5> QED
          BY <4>2, <5>1, <1>2, PauseFrame
      <4> QED
        BY <2>2, <4>1, <4>2
    <3> QED
      BY <2>1, <3>1, <3>2 DEF LockInv, Holds
  <2>3. CASE Commit(r)
    <3>1. ~ Transition(r) /\ ~ Announce(r)
      BY <2>3 DEF Commit, Transition, Asked, Announce
    <3>2. /\ Holds(r) /\ ~ Holds(r)' /\ writing' = writing
          /\ \A q \in Requests : q # r => pause'[q] = pause[q]
      BY <1>2, <2>3, <3>1, PauseFrame
    <3>3. ~ writing /\ ~ Shared /\ \A q \in Requests : q # r => ~ Holds(q)
      BY <3>2 DEF LockInv, Exclusive, Holds
    <3> QED
      BY <2>1, <3>2, <3>3 DEF LockInv, Holds
  <2>4. CASE ~ Transition(r) /\ ~ Announce(r) /\ ~ Commit(r)
    <3>1. /\ ~ Holds(r)' /\ writing' = writing /\ campaign' = campaign
          /\ \A q \in Requests : q # r => pause'[q] = pause[q]
      BY <1>2, <2>4, PauseFrame
    <3> QED
      BY <2>1, <3>1 DEF LockInv, Holds, Exclusive
  <2> QED
    BY <2>2, <2>3, <2>4
<1>3. CASE BeginWrite
  BY <1>3 DEF BeginWrite, CanvasOpen, ExclusiveLock, LockInv, Exclusive, Holds, Shared, canvasVars
<1>4. CASE EndWrite
  BY <1>4 DEF EndWrite, LockInv, Exclusive, Holds, Shared, canvasVars
<1>5. CASE UNCHANGED vars
  BY <1>5 DEF vars, canvasVars, pauseVars, LockInv, Exclusive, Holds, Shared
<1> QED
  BY <1>1, <1>2, <1>3, <1>4, <1>5 DEF Next, CanvasStep

(* The campaign row is held by one command or by relays, never both, and   *)
(* whoever holds it knows the paused flag.                                 *)
THEOREM RowIsLocked == Spec => []LockInv
<1>1. Init => LockInv
  <2> SUFFICES ASSUME Init PROVE LockInv
    OBVIOUS
  <2>1. \A r \in Requests : pause[r].st = "idle"
    BY DEF Init, Idle
  <2>2. ~ Shared
    BY EmptyQueueType DEF Init, Shared, Free
  <2>3. ~ writing
    BY DEF Init
  <2> QED
    BY <2>1, <2>2, <2>3 DEF LockInv, Holds
<1> QED
  BY <1>1, TypeCorrect, LockNext, PTL DEF Spec

(* No canvas command writes while the campaign is paused or a pause is     *)
(* about to commit: runCampaignCanvasMutation and executePause take the    *)
(* same row.                                                               *)
THEOREM WriteExclusion == Spec => []WritesExcludePause
<1>1. LockInv => WritesExcludePause
  BY DEF LockInv, WritesExcludePause, Holds
<1> QED
  BY <1>1, RowIsLocked, PTL

----------------------------------------------------------------------------
(* Sockets that disconnect                                                 *)

(* What the canvas steps do to the record a socket keeps of its ephemera.  *)
LEMMA EphemeraFields ==
    ASSUME NEW e \in Ephemeras, NEW x, NEW a, NEW b
    PROVE  /\ [e EXCEPT !.ruler = x].ruler = x
           /\ [e EXCEPT !.ruler = x].active = e.active
           /\ [e EXCEPT !.ruler = x].shared = e.shared
           /\ [e EXCEPT !.active = a].ruler = e.ruler
           /\ [e EXCEPT !.active = a].active = a
           /\ [e EXCEPT !.active = a].shared = e.shared
           /\ [e EXCEPT !.active = a, !.shared = b].ruler = e.ruler
           /\ [e EXCEPT !.active = a, !.shared = b].active = a
           /\ [e EXCEPT !.active = a, !.shared = b].shared = b
           /\ [e EXCEPT !.ruler = x, !.active = a].ruler = x
           /\ [e EXCEPT !.ruler = x, !.active = a].active = a
           /\ [e EXCEPT !.ruler = x, !.active = a].shared = e.shared
BY DEF Ephemeras

(* Only a connected socket relays.                                         *)
LEMMA RelayingIsUp ==
    ASSUME TypeOK, OwnerInv, NEW s \in Sockets
    PROVE  /\ RulerStep(s) => up[s]
           /\ ClientStep(s) => up[s] \/ Connect(s)
<1>1. RulerStep(s) => up[s]
  BY EmptyQueueType DEF RulerStep, RulerLock, RulerFails, RulerDraw, RulerWipe, OwnerInv, EmptyQueue
<1>2. ClientStep(s) => up[s] \/ Connect(s)
  BY DEF ClientStep, Send, RulerUpdate, RulerClear, CursorDropped, CursorEvent, Passes, Disconnect
<1> QED
  BY <1>1, <1>2

LEMMA MovingIsUp ==
    ASSUME TypeOK, OwnerInv, NEW k \in Slots
    PROVE  /\ CursorMove(k) => up[relay[k].socket]
           /\ CursorLeave(k) => up[relay[k].socket] \/ relay[k].gone
<1>1. relay[k].st = "locked" => relay[k] # Free
  BY DEF Free
<1>2. CursorMove(k) => up[relay[k].socket]
  BY <1>1 DEF CursorMove, OwnerInv
<1> QED
  BY <1>1, <1>2 DEF CursorLeave, OwnerInv

(* Which sockets' records the canvas steps change, and how.                *)
LEMMA RulerEphemera ==
    ASSUME TypeOK, NEW s \in Sockets, RulerStep(s)
    PROVE  \/ ephemera' = ephemera /\ rulers' = rulers
           \/ \E sc \in Scenes :
                /\ ephemera' = [ephemera EXCEPT ![s] = [ephemera[s] EXCEPT !.ruler = sc]]
                /\ rulers' = [rulers EXCEPT ![MemberOf[s]] = sc]
                /\ Shared
           \/ \E scenes \in SUBSET Scenes :
                /\ ephemera' = [ephemera EXCEPT ![s] = [ephemera[s] EXCEPT !.ruler =
                                  IF ephemera[s].ruler \in scenes THEN None ELSE ephemera[s].ruler]]
                /\ rulers' = Cleared(MemberOf[s], scenes)
<1> USE DEF TypeOK
<1>1. CASE RulerLock(s) \/ RulerFails(s)
  BY <1>1 DEF RulerLock, RulerFails
<1>2. CASE RulerDraw(s)
  <2> DEFINE sc == queue[s].flying.scene
  <2>1. sc \in Scenes
    BY <1>2, DrawnScene DEF RulerDraw, NoIntent
  <2>2. /\ ephemera' = [ephemera EXCEPT ![s] = [ephemera[s] EXCEPT !.ruler = sc]]
        /\ rulers' = [rulers EXCEPT ![MemberOf[s]] = sc]
    BY <1>2, Zenon DEF RulerDraw
  <2>3. Shared
    BY <1>2 DEF RulerDraw, Shared
  <2> HIDE DEF sc
  <2> QED
    BY <2>1, <2>2, <2>3
<1>3. CASE RulerWipe(s)
  <2> DEFINE scenes == queue[s].flying.scenes
  <2>1. scenes \in SUBSET Scenes
    BY <1>3, DrawnScene DEF RulerWipe, NoIntent
  <2>2. /\ ephemera' = [ephemera EXCEPT ![s] = [ephemera[s] EXCEPT !.ruler =
                          IF ephemera[s].ruler \in scenes THEN None ELSE ephemera[s].ruler]]
        /\ rulers' = Cleared(MemberOf[s], scenes)
    BY <1>3 DEF RulerWipe
  <2> HIDE DEF scenes
  <2> QED
    BY <2>1, <2>2
<1> QED
  BY <1>1, <1>2, <1>3 DEF RulerStep

(* The old cursor of m is taken from the audiences of gone, and the new one *)
(* is shown to those of shown.                                             *)
CursorEffect(m, gone, shown) ==
    \A a \in Audiences : \A q \in Members :
      q \in cursors'[a] <=> \/ q \in cursors[a] /\ ~ (q = m /\ a \in gone)
                            \/ q = m /\ a \in shown

LEMMA MoveEffect ==
    ASSUME TypeOK, NEW k \in Slots, CursorMove(k)
    PROVE  LET s == relay[k].socket
               shared == relay[k].event.shared
           IN  /\ s \in Sockets /\ MemberOf[s] \in Members /\ shared \in BOOLEAN /\ Shared
               /\ ephemera' = [ephemera EXCEPT ![s] =
                                 [ephemera[s] EXCEPT !.active = TRUE, !.shared = shared]]
               /\ CursorEffect(MemberOf[s], IF Retracts(s, shared) THEN Audiences ELSE {},
                               Room(MemberOf[s], shared))
<1> USE DEF TypeOK
<1> DEFINE s == relay[k].socket
           shared == relay[k].event.shared
<1>1. relay[k] \in Relays /\ Shared
  BY DEF CursorMove, Free, Shared
<1>2. s \in Sockets /\ MemberOf[s] \in Members /\ shared \in BOOLEAN
  BY <1>1, RelayAssumption, CursorEventTypes DEF Relays, CursorMove
<1>3. ephemera' = [ephemera EXCEPT ![s] = [ephemera[s] EXCEPT !.active = TRUE, !.shared = shared]]
  BY <1>2 DEF CursorMove
<1>4. cursors' = CursorMoved(IF Retracts(s, shared) THEN CursorGone(cursors, MemberOf[s], Audiences) ELSE cursors,
                             MemberOf[s], Room(MemberOf[s], shared))
  BY DEF CursorMove
<1>5. CursorEffect(MemberOf[s], IF Retracts(s, shared) THEN Audiences ELSE {}, Room(MemberOf[s], shared))
  <2> HIDE DEF s, shared
  <2> QED
    BY <1>4 DEF CursorEffect, CursorMoved, CursorGone
<1> QED
  BY <1>1, <1>2, <1>3, <1>5

LEMMA LeaveEffect ==
    ASSUME TypeOK, NEW k \in Slots, CursorLeave(k)
    PROVE  LET s == relay[k].socket
           IN  /\ s \in Sockets /\ MemberOf[s] \in Members
               /\ \/ relay[k].gone /\ ephemera' = ephemera
                  \/ /\ ~ relay[k].gone
                     /\ ephemera' = [ephemera EXCEPT ![s] = [ephemera[s] EXCEPT !.active = FALSE]]
               /\ \E room \in SUBSET Audiences :
                    /\ CursorEffect(MemberOf[s], room, {})
                    /\ ~ relay[k].gone => room = Room(MemberOf[s], ephemera[s].shared)
<1> USE DEF TypeOK
<1> DEFINE s == relay[k].socket
           wide == IF relay[k].gone THEN relay[k].wide ELSE Wide(MemberOf[s], ephemera[s].shared)
           room == IF wide THEN Audiences ELSE {"gms"}
<1>1. relay[k] \in Relays
  BY DEF CursorLeave, Free
<1>2. s \in Sockets /\ MemberOf[s] \in Members
  BY <1>1, RelayAssumption DEF Relays
<1>3. \/ relay[k].gone /\ ephemera' = ephemera
      \/ ~ relay[k].gone /\ ephemera' = [ephemera EXCEPT ![s] = [ephemera[s] EXCEPT !.active = FALSE]]
  BY DEF CursorLeave
<1>4. cursors' = CursorGone(cursors, MemberOf[s], room)
  BY DEF CursorLeave
<1>5. room \in SUBSET Audiences /\ (~ relay[k].gone => room = Room(MemberOf[s], ephemera[s].shared))
  BY DEF Room, Audiences
<1>6. CursorEffect(MemberOf[s], room, {})
  <2> HIDE DEF s, room
  <2> QED
    BY <1>4 DEF CursorEffect, CursorGone
<1> QED
  BY <1>2, <1>3, <1>5, <1>6

LEMMA DisconnectEffect ==
    ASSUME TypeOK, NEW s \in Sockets, Disconnect(s)
    PROVE  /\ up' = [up EXCEPT ![s] = FALSE]
           /\ ephemera' = [ephemera EXCEPT ![s] = EmptyEphemera]
           /\ queue' = [queue EXCEPT ![s] = EmptyQueue]
           /\ rulers' = Cleared(MemberOf[s], ShownScene(s))
           /\ CursorEffect(MemberOf[s], IF ephemera[s].active THEN Room(MemberOf[s], ephemera[s].shared) ELSE {}, {})
<1> USE DEF TypeOK
<1>1. queue' = [queue EXCEPT ![s] = EmptyQueue]
  BY Zenon DEF Disconnect, Abandoned
<1>2. /\ up' = [up EXCEPT ![s] = FALSE]
      /\ ephemera' = [ephemera EXCEPT ![s] = EmptyEphemera]
      /\ rulers' = Cleared(MemberOf[s], ShownScene(s))
  BY Zenon DEF Disconnect
<1>3. cursors' = IF ephemera[s].active THEN CursorGone(cursors, MemberOf[s], Room(MemberOf[s], ephemera[s].shared))
                 ELSE cursors
  BY Zenon DEF Disconnect
<1>4. CursorEffect(MemberOf[s], IF ephemera[s].active THEN Room(MemberOf[s], ephemera[s].shared) ELSE {}, {})
  <2>1. CASE ephemera[s].active
    BY <1>3, <2>1 DEF CursorEffect, CursorGone
  <2>2. CASE ~ ephemera[s].active
    BY <1>3, <2>2 DEF CursorEffect
  <2> QED
    BY <2>1, <2>2
<1> QED
  BY <1>1, <1>2, <1>4

(* Everything else leaves what is displayed alone.                         *)
LEMMA QuietSteps ==
    ASSUME TypeOK
    PROVE  /\ \A s \in Sockets : ClientStep(s) /\ ~ Disconnect(s) =>
                /\ UNCHANGED <<ephemera, rulers, cursors>>
                /\ up' = up \/ up' = [up EXCEPT ![s] = TRUE]
           /\ \A s \in Sockets : RulerStep(s) => UNCHANGED <<up, cursors, relay>>
           /\ \A k \in Slots : CursorStep(k) => UNCHANGED <<up, queue, rulers>>
           /\ \A k \in Slots : CursorStep(k) /\ ~ CursorMove(k) /\ ~ CursorLeave(k) =>
                UNCHANGED <<ephemera, cursors>>
           /\ \A r \in Requests : PauseStep(r) =>
                \/ UNCHANGED <<ephemera, rulers, cursors>>
                \/ Transition(r) /\ pause[r].paused /\ Cleanup
<1>1. ASSUME NEW s \in Sockets, ClientStep(s), ~ Disconnect(s)
      PROVE  /\ UNCHANGED <<ephemera, rulers, cursors>>
             /\ up' = up \/ up' = [up EXCEPT ![s] = TRUE]
  BY <1>1 DEF ClientStep, Send, RulerUpdate, RulerClear, CursorDropped, CursorEvent, Connect
<1>2. ASSUME NEW s \in Sockets, RulerStep(s) PROVE UNCHANGED <<up, cursors, relay>>
  BY <1>2 DEF RulerStep, RulerLock, RulerFails, RulerDraw, RulerWipe
<1>3. ASSUME NEW k \in Slots, CursorStep(k) PROVE UNCHANGED <<up, queue, rulers>>
  BY <1>3 DEF CursorStep, CursorLock, CursorFails, CursorMove, CursorLeave
<1>4. ASSUME NEW k \in Slots, CursorStep(k), ~ CursorMove(k), ~ CursorLeave(k)
      PROVE  UNCHANGED <<ephemera, cursors>>
  BY <1>4 DEF CursorStep, CursorLock, CursorFails
<1>5. ASSUME NEW r \in Requests, PauseStep(r)
      PROVE  \/ UNCHANGED <<ephemera, rulers, cursors>>
             \/ Transition(r) /\ pause[r].paused /\ Cleanup
  BY <1>5 DEF PauseStep, Ask, Retry, Transition, Commit, Replay, Give, Announce, Announced, canvasVars
<1> QED
  BY <1>1, <1>2, <1>3, <1>4, <1>5

LEMMA OwnerNext ==
    ASSUME TypeOK, OwnerInv, [Next]_vars
    PROVE  OwnerInv'
<1> USE DEF TypeOK
<1> DEFINE Gone0(q) == ephemera[q].ruler = None /\ ~ ephemera[q].active /\ queue[q] = EmptyQueue
           Owned(k) == relay[k] # Free =>
                         IF relay[k].gone THEN relay[k].event.type = "gone" ELSE up[relay[k].socket]
<1>0. /\ \A q \in Sockets : ~ up[q] => Gone0(q)
      /\ \A k \in Slots : Owned(k)
  BY DEF OwnerInv
<1>1. ASSUME NEW s \in Sockets, ClientStep(s) PROVE OwnerInv'
  <2>1. CASE Disconnect(s)
    <3>1. ASSUME NEW q \in Sockets, ~ up'[q] PROVE Gone0(q)'
      <4>1. CASE q = s
        <5>1. ephemera'[s] = EmptyEphemera /\ queue'[s] = EmptyQueue
          BY <2>1, DisconnectEffect
        <5> QED
          BY <4>1, <5>1 DEF EmptyEphemera
      <4>2. CASE q # s
        <5>1. ephemera'[q] = ephemera[q] /\ queue'[q] = queue[q] /\ up'[q] = up[q]
          BY <2>1, <4>2, DisconnectEffect
        <5> QED
          BY <1>0, <3>1, <5>1
      <4> QED
        BY <4>1, <4>2
    <3>2. ASSUME NEW k \in Slots PROVE Owned(k)'
      <4>1. \A q \in Sockets : q # s => up'[q] = up[q]
        BY <2>1, DisconnectEffect
      <4>2. up' # up
        BY <2>1, DisconnectEffect DEF Disconnect
      <4>3. relay[k] # Free => relay[k].socket \in Sockets
        BY DEF Relays
      <4> QED
        BY <1>0, <1>1, <2>1, <4>1, <4>2, <4>3, ClientRelays DEF Orphaned
    <3> QED
      BY <3>1, <3>2 DEF OwnerInv
  <2>2. CASE ~ Disconnect(s)
    <3>1. \A q \in Sockets : up[q] => up'[q]
      BY <1>1, <2>2, QuietSteps
    <3>2. up'[s]
      <4>1. CASE Connect(s)
        BY <4>1 DEF Connect
      <4> QED
        BY <1>1, <3>1, <4>1, RelayingIsUp
    <3>3. ASSUME NEW q \in Sockets, ~ up'[q] PROVE Gone0(q)'
      BY <1>0, <1>1, <2>2, <3>1, <3>2, <3>3, QuietSteps, ClientQueue
    <3>4. ASSUME NEW k \in Slots PROVE Owned(k)'
      <4>1. relay[k] # Free => relay[k].socket \in Sockets
        BY DEF Relays
      <4> QED
        BY <1>0, <1>1, <2>2, <3>1, <3>2, <4>1, ClientRelays DEF Orphaned, Started
    <3> QED
      BY <3>3, <3>4 DEF OwnerInv
  <2> QED
    BY <2>1, <2>2
<1>2. ASSUME NEW s \in Sockets, RulerStep(s) PROVE OwnerInv'
  <2>1. up[s] /\ UNCHANGED <<up, cursors, relay>>
    BY <1>2, RelayingIsUp, QuietSteps
  <2>2. \A q \in Sockets : q # s => ephemera'[q] = ephemera[q] /\ queue'[q] = queue[q]
    BY <1>2, RulerEphemera, RulerQueue
  <2> QED
    BY <2>1, <2>2 DEF OwnerInv
<1>3. ASSUME NEW k \in Slots, CursorStep(k) PROVE OwnerInv'
  <2>1. UNCHANGED <<up, queue, rulers>>
    BY <1>3, QuietSteps
  <2>2. ASSUME NEW q \in Sockets, ~ up[q] PROVE ephemera'[q] = ephemera[q]
    <3>1. CASE CursorMove(k)
      BY <2>2, <3>1, MoveEffect, MovingIsUp
    <3>2. CASE CursorLeave(k)
      BY <2>2, <3>2, LeaveEffect, MovingIsUp
    <3> QED
      BY <1>3, <3>1, <3>2, QuietSteps
  <2>3. ASSUME NEW j \in Slots PROVE Owned(j)'
    <3>1. CASE j = k /\ relay'[k] # Free
      <4>1. relay'[k] = [relay[k] EXCEPT !.st = "locked"] /\ relay[k] \in Relays /\ relay[k] # Free
        BY <1>3, <3>1, CursorRelays
      <4>2. relay'[k].gone = relay[k].gone /\ relay'[k].event = relay[k].event
            /\ relay'[k].socket = relay[k].socket
        BY <4>1, RelayTypes
      <4> QED
        BY <1>0, <2>1, <3>1, <4>1, <4>2
    <3>2. CASE j # k
      <4>1. relay'[j] = relay[j]
        BY <1>3, <3>2, CursorRelays
      <4> QED
        BY <1>0, <2>1, <4>1
    <3> QED
      BY <3>1, <3>2
  <2> QED
    BY <1>0, <2>1, <2>2, <2>3 DEF OwnerInv
<1>4. ASSUME NEW r \in Requests, PauseStep(r) PROVE OwnerInv'
  <2>1. UNCHANGED <<up, queue, relay>>
    BY <1>4, PauseFrame
  <2>2. \A q \in Sockets : ~ up[q] => ephemera'[q] = ephemera[q]
    BY <1>4, QuietSteps DEF Cleanup
  <2> QED
    BY <2>1, <2>2 DEF OwnerInv
<1>5. CASE BeginWrite \/ EndWrite \/ UNCHANGED vars
  BY <1>5 DEF BeginWrite, EndWrite, vars, canvasVars, OwnerInv
<1> QED
  BY <1>1, <1>2, <1>3, <1>4, <1>5 DEF Next

THEOREM SocketsOwn == Spec => []OwnerInv
<1>1. Init => OwnerInv
  BY DEF Init, OwnerInv, EmptyEphemera, Free
<1> QED
  BY <1>1, TypeCorrect, OwnerNext, PTL DEF Spec

----------------------------------------------------------------------------
(* What is displayed                                                       *)

LEMMA RulersNext ==
    ASSUME TypeOK, OwnerInv, RulersAreRetractable, [Next]_vars
    PROVE  RulersAreRetractable'
<1> USE DEF TypeOK
<1> DEFINE Knows(s, m) == up[s] /\ MemberOf[s] = m /\ ephemera[s].ruler = rulers[m]
<1>0. \A m \in Members : rulers[m] # None => \E s \in Sockets : Knows(s, m)
  BY DEF RulersAreRetractable
<1> SUFFICES ASSUME NEW m \in Members, rulers'[m] # None
             PROVE  \E s \in Sockets : Knows(s, m)'
  BY DEF RulersAreRetractable
<1>1. ASSUME UNCHANGED <<up, ephemera, rulers>> PROVE \E s \in Sockets : Knows(s, m)'
  BY <1>0, <1>1
<1>2. ASSUME NEW s \in Sockets, ClientStep(s) PROVE \E q \in Sockets : Knows(q, m)'
  <2>1. CASE Disconnect(s)
    <3>1. rulers'[m] = rulers[m] /\ ~ (m = MemberOf[s] /\ rulers[m] = ephemera[s].ruler)
      BY <2>1, DisconnectEffect DEF Cleared, ShownScene
    <3>2. PICK q \in Sockets : Knows(q, m)
      BY <1>0, <3>1
    <3>3. q # s
      BY <3>1, <3>2
    <3>4. ephemera'[q] = ephemera[q] /\ up'[q] = up[q]
      BY <2>1, <3>3, DisconnectEffect
    <3> QED
      BY <3>1, <3>2, <3>4
  <2>2. CASE ~ Disconnect(s)
    <3>1. UNCHANGED <<ephemera, rulers>> /\ \A q \in Sockets : up[q] => up'[q]
      BY <1>2, <2>2, QuietSteps
    <3> QED
      BY <1>0, <3>1
  <2> QED
    BY <2>1, <2>2
<1>3. ASSUME NEW s \in Sockets, RulerStep(s) PROVE \E q \in Sockets : Knows(q, m)'
  <2>1. up' = up /\ up[s]
    BY <1>3, QuietSteps, RelayingIsUp
  <2>2. CASE ephemera' = ephemera /\ rulers' = rulers
    BY <1>1, <2>1, <2>2
  <2>3. ASSUME NEW sc \in Scenes,
               ephemera' = [ephemera EXCEPT ![s] = [ephemera[s] EXCEPT !.ruler = sc]],
               rulers' = [rulers EXCEPT ![MemberOf[s]] = sc]
        PROVE  \E q \in Sockets : Knows(q, m)'
    <3>1. ephemera'[s].ruler = sc
      BY <2>3, EphemeraFields
    <3>2. CASE m = MemberOf[s]
      BY <2>1, <2>3, <3>1, <3>2
    <3>3. CASE m # MemberOf[s]
      <4>1. rulers'[m] = rulers[m]
        BY <2>3, <3>3
      <4>2. PICK q \in Sockets : Knows(q, m)
        BY <1>0, <4>1
      <4>3. ephemera'[q] = ephemera[q]
        BY <2>3, <3>3, <4>2
      <4> QED
        BY <2>1, <4>1, <4>2, <4>3
    <3> QED
      BY <3>2, <3>3
  <2>4. ASSUME NEW scenes \in SUBSET Scenes,
               ephemera' = [ephemera EXCEPT ![s] = [ephemera[s] EXCEPT !.ruler =
                              IF ephemera[s].ruler \in scenes THEN None ELSE ephemera[s].ruler]],
               rulers' = Cleared(MemberOf[s], scenes)
        PROVE  \E q \in Sockets : Knows(q, m)'
    <3>1. rulers'[m] = rulers[m] /\ ~ (m = MemberOf[s] /\ rulers[m] \in scenes)
      BY <2>4 DEF Cleared
    <3>2. PICK q \in Sockets : Knows(q, m)
      BY <1>0, <3>1
    <3>3. ephemera'[q].ruler = ephemera[q].ruler
      <4>1. CASE q = s
        <5>1. ephemera'[s] = [ephemera[s] EXCEPT !.ruler = ephemera[s].ruler]
          BY <2>4, <3>1, <3>2, <4>1
        <5> QED
          BY <4>1, <5>1, EphemeraFields
      <4> QED
        BY <2>4, <4>1
    <3> QED
      BY <2>1, <3>1, <3>2, <3>3
  <2> QED
    BY <1>3, <2>2, <2>3, <2>4, RulerEphemera
<1>4. ASSUME NEW k \in Slots, CursorStep(k) PROVE \E q \in Sockets : Knows(q, m)'
  <2>1. UNCHANGED <<up, rulers>>
    BY <1>4, QuietSteps
  <2>2. ASSUME NEW q \in Sockets PROVE ephemera'[q].ruler = ephemera[q].ruler
    <3>1. CASE CursorMove(k)
      <4>1. PICK s \in Sockets, b \in BOOLEAN :
              ephemera' = [ephemera EXCEPT ![s] = [ephemera[s] EXCEPT !.active = TRUE, !.shared = b]]
        BY <3>1, MoveEffect
      <4>2. [ephemera[s] EXCEPT !.active = TRUE, !.shared = b].ruler = ephemera[s].ruler
        BY EphemeraFields
      <4> QED
        BY <4>1, <4>2
    <3>2. CASE CursorLeave(k)
      <4>1. PICK s \in Sockets : \/ ephemera' = ephemera
                                 \/ ephemera' = [ephemera EXCEPT ![s] = [ephemera[s] EXCEPT !.active = FALSE]]
        BY <3>2, LeaveEffect
      <4>2. [ephemera[s] EXCEPT !.active = FALSE].ruler = ephemera[s].ruler
        BY EphemeraFields
      <4> QED
        BY <4>1, <4>2
    <3> QED
      BY <1>4, <3>1, <3>2, QuietSteps
  <2>3. PICK q \in Sockets : Knows(q, m)
    BY <1>0, <2>1
  <2>4. ephemera'[q].ruler = ephemera[q].ruler
    BY <2>2
  <2> QED
    BY <2>1, <2>3, <2>4
<1>5. ASSUME NEW r \in Requests, PauseStep(r) PROVE \E q \in Sockets : Knows(q, m)'
  <2>1. up' = up
    BY <1>5, PauseFrame
  <2>2. CASE UNCHANGED <<ephemera, rulers, cursors>>
    BY <1>1, <2>1, <2>2
  <2>3. CASE Cleanup
    BY <1>0, <2>3 DEF Cleanup
  <2> QED
    BY <1>5, <2>2, <2>3, QuietSteps
<1>6. CASE BeginWrite \/ EndWrite \/ UNCHANGED vars
  BY <1>1, <1>6 DEF BeginWrite, EndWrite, vars, canvasVars
<1> QED
  BY <1>2, <1>3, <1>4, <1>5, <1>6 DEF Next

(* A ruler that is displayed is in the record of a connected tab of its    *)
(* member, so the pause or the disconnect handler will clear it.           *)
THEOREM RulersStayRetractable == Spec => []RulersAreRetractable
<1>1. Init => RulersAreRetractable
  BY DEF Init, RulersAreRetractable
<1> QED
  BY <1>1, TypeCorrect, SocketsOwn, RulersNext, PTL DEF Spec

LEMMA RoomCovers ==
    ASSUME NEW a \in Audiences, NEW m, NEW b
    PROVE  a \in Room(m, b) <=> (a = "players" => Wide(m, b))
BY DEF Room, Audiences

LEMMA CursorsNext ==
    ASSUME TypeOK, TypeOK', OwnerInv, CursorsAreRetractable, [Next]_vars
    PROVE  CursorsAreRetractable'
<1> USE DEF TypeOK
<1> DEFINE Knows(s, m, a) == /\ up[s] /\ MemberOf[s] = m /\ ephemera[s].active
                             /\ a = "players" => Wide(m, ephemera[s].shared)
<1>0. \A a \in Audiences : \A m \in cursors[a] : \E s \in Sockets : Knows(s, m, a)
  BY DEF CursorsAreRetractable
<1> SUFFICES ASSUME NEW a \in Audiences, NEW m \in Members, m \in cursors'[a]
             PROVE  \E s \in Sockets : Knows(s, m, a)'
  BY DEF CursorsAreRetractable
<1>1. ASSUME NEW q \in Sockets, Knows(q, m, a), ephemera'[q].active = ephemera[q].active,
             ephemera'[q].shared = ephemera[q].shared, up'[q]
      PROVE  \E s \in Sockets : Knows(s, m, a)'
  BY <1>1 DEF Wide
<1>2. ASSUME NEW s \in Sockets, ClientStep(s) PROVE \E q \in Sockets : Knows(q, m, a)'
  <2>1. CASE Disconnect(s)
    <3> DEFINE gone == IF ephemera[s].active THEN Room(MemberOf[s], ephemera[s].shared) ELSE {}
    <3>1. m \in cursors[a] /\ ~ (m = MemberOf[s] /\ a \in gone)
      BY <2>1, DisconnectEffect DEF CursorEffect
    <3>2. PICK q \in Sockets : Knows(q, m, a)
      BY <1>0, <3>1
    <3>3. q # s
      BY <3>1, <3>2, RoomCovers
    <3>4. ephemera'[q] = ephemera[q] /\ up'[q] = up[q]
      BY <2>1, <3>3, DisconnectEffect
    <3> QED
      BY <1>1, <3>2, <3>4
  <2>2. CASE ~ Disconnect(s)
    <3>1. UNCHANGED <<ephemera, cursors>> /\ \A q \in Sockets : up[q] => up'[q]
      BY <1>2, <2>2, QuietSteps
    <3> QED
      BY <1>0, <1>1, <3>1
  <2> QED
    BY <2>1, <2>2
<1>3. ASSUME NEW s \in Sockets, RulerStep(s) PROVE \E q \in Sockets : Knows(q, m, a)'
  <2>1. UNCHANGED <<up, cursors>>
    BY <1>3, QuietSteps
  <2>2. PICK q \in Sockets : Knows(q, m, a)
    BY <1>0, <2>1
  <2>3. ephemera'[q].active = ephemera[q].active /\ ephemera'[q].shared = ephemera[q].shared
    <3>1. PICK x : ephemera' = ephemera \/ ephemera' = [ephemera EXCEPT ![s] = [ephemera[s] EXCEPT !.ruler = x]]
      BY <1>3, RulerEphemera
    <3>2. /\ [ephemera[s] EXCEPT !.ruler = x].active = ephemera[s].active
          /\ [ephemera[s] EXCEPT !.ruler = x].shared = ephemera[s].shared
      BY EphemeraFields
    <3> QED
      BY <3>1, <3>2
  <2> QED
    BY <1>1, <2>1, <2>2, <2>3
<1>4. ASSUME NEW k \in Slots, CursorMove(k) PROVE \E q \in Sockets : Knows(q, m, a)'
  <2>1. PICK s \in Sockets, shared \in BOOLEAN :
          /\ up[s]
          /\ ephemera' = [ephemera EXCEPT ![s] = [ephemera[s] EXCEPT !.active = TRUE, !.shared = shared]]
          /\ CursorEffect(MemberOf[s], IF Retracts(s, shared) THEN Audiences ELSE {},
                          Room(MemberOf[s], shared))
    BY <1>4, MoveEffect, MovingIsUp
  <2> DEFINE gone == IF Retracts(s, shared) THEN Audiences ELSE {}
  <2>2. up' = up /\ up[s]
    BY <1>4, <2>1, QuietSteps DEF CursorStep
  <2>3. ephemera'[s].active = TRUE /\ ephemera'[s].shared = shared
    BY <2>1, EphemeraFields
  <2>4. CASE m = MemberOf[s] /\ a \in Room(m, shared)
    <3>1. Knows(s, m, a)'
      BY <2>2, <2>3, <2>4, RoomCovers DEF Wide
    <3> QED
      BY <2>1, <3>1
  <2>5. CASE ~ (m = MemberOf[s] /\ a \in Room(m, shared))
    <3>1. m \in cursors[a] /\ ~ (m = MemberOf[s] /\ a \in gone)
      BY <2>1, <2>5 DEF CursorEffect
    <3>2. PICK q \in Sockets : Knows(q, m, a)
      BY <1>0, <3>1
    <3>3. q # s
      <4>1. ASSUME q = s PROVE FALSE
        <5>1. m = MemberOf[s] /\ ephemera[s].active /\ a \notin Room(m, shared)
          BY <2>5, <3>2, <4>1
        <5>2. a = "players" /\ ~ Wide(m, shared)
          BY <5>1, RoomCovers
        <5>3. Wide(m, ephemera[s].shared)
          BY <3>2, <4>1, <5>2
        <5>4. ephemera[s].shared /\ ~ shared
          BY <5>2, <5>3 DEF Wide
        <5> QED
          BY <3>1, <5>1, <5>4 DEF Retracts
      <4> QED
        BY <4>1
    <3>4. ephemera'[q] = ephemera[q]
      BY <2>1, <3>3
    <3> QED
      BY <1>1, <2>2, <3>2, <3>4
  <2> QED
    BY <2>4, <2>5
<1>5. ASSUME NEW k \in Slots, CursorLeave(k) PROVE \E q \in Sockets : Knows(q, m, a)'
  <2> DEFINE s == relay[k].socket
  <2>1. PICK room \in SUBSET Audiences :
          /\ CursorEffect(MemberOf[s], room, {})
          /\ ~ relay[k].gone => room = Room(MemberOf[s], ephemera[s].shared)
    BY <1>5, LeaveEffect
  <2>2. m \in cursors[a] /\ ~ (m = MemberOf[s] /\ a \in room)
    BY <2>1 DEF CursorEffect
  <2>3. PICK q \in Sockets : Knows(q, m, a)
    BY <1>0, <2>2
  <2>4. up' = up
    BY <1>5, QuietSteps DEF CursorStep
  <2>5. ephemera'[q] = ephemera[q]
    <3>1. CASE relay[k].gone
      BY <1>5, <3>1, LeaveEffect
    <3>2. CASE ~ relay[k].gone
      <4>1. q # s
        BY <2>1, <2>2, <2>3, <3>2, RoomCovers
      <4>2. s \in Sockets /\ ephemera' = [ephemera EXCEPT ![s] = [ephemera[s] EXCEPT !.active = FALSE]]
        BY <1>5, <3>2, LeaveEffect
      <4> QED
        BY <4>1, <4>2
    <3> QED
      BY <3>1, <3>2
  <2> QED
    BY <1>1, <2>3, <2>4, <2>5
<1>6. ASSUME NEW k \in Slots, CursorStep(k), ~ CursorMove(k), ~ CursorLeave(k)
      PROVE  \E q \in Sockets : Knows(q, m, a)'
  <2>1. UNCHANGED <<up, ephemera, cursors>>
    BY <1>6, QuietSteps
  <2> QED
    BY <1>0, <1>1, <2>1
<1>7. ASSUME NEW r \in Requests, PauseStep(r) PROVE \E q \in Sockets : Knows(q, m, a)'
  <2>1. up' = up
    BY <1>7, PauseFrame
  <2>2. CASE UNCHANGED <<ephemera, rulers, cursors>>
    BY <1>0, <1>1, <2>1, <2>2
  <2>3. CASE Cleanup
    <3>1. m \in cursors[a]
      BY <2>3 DEF Cleanup
    <3>2. PICK q \in Sockets : Knows(q, m, a)
      BY <1>0, <3>1
    <3>3. m \notin cursors'[a]
      BY <2>3, <3>2 DEF Cleanup, Audiences
    <3> QED
      BY <3>3
  <2> QED
    BY <1>7, <2>2, <2>3, QuietSteps
<1>8. CASE BeginWrite \/ EndWrite \/ UNCHANGED vars
  <2>1. UNCHANGED <<up, ephemera, cursors>>
    BY <1>8 DEF BeginWrite, EndWrite, vars, canvasVars
  <2> QED
    BY <1>0, <1>1, <2>1
<1> QED
  BY <1>2, <1>3, <1>4, <1>5, <1>6, <1>7, <1>8 DEF Next

(* The same for cursors and audience by audience: the retraction reaches   *)
(* everybody who sees the cursor.                                          *)
THEOREM CursorsStayRetractable == Spec => []CursorsAreRetractable
<1>1. Init => CursorsAreRetractable
  BY DEF Init, CursorsAreRetractable
<1> QED
  BY <1>1, TypeCorrect, SocketsOwn, CursorsNext, PTL DEF Spec

----------------------------------------------------------------------------
(* The break                                                               *)

LEMMA CleanNext ==
    ASSUME TypeOK, LockInv, OwnerInv, CleanInv, [Next]_vars
    PROVE  CleanInv'
<1> USE DEF TypeOK
<1> DEFINE Bare == \A s \in Sockets : ephemera[s].ruler = None /\ ~ ephemera[s].active
<1>1. CASE CanvasStep
  <2>1. Breaking' <=> Breaking
    BY <1>1, CanvasFrame DEF Breaking, pauseVars
  <2> SUFFICES ASSUME Breaking PROVE Bare'
    BY <2>1 DEF CleanInv
  <2>2. Bare /\ ~ Shared
    BY DEF CleanInv, LockInv, Breaking, Exclusive
  <2>3. ASSUME NEW s \in Sockets, ClientStep(s) PROVE Bare'
    <3>1. CASE Disconnect(s)
      <4>1. ASSUME NEW q \in Sockets PROVE ephemera'[q] \in {ephemera[q], EmptyEphemera}
        BY <3>1, DisconnectEffect
      <4> QED
        BY <2>2, <4>1 DEF EmptyEphemera
    <3> QED
      BY <2>2, <2>3, <3>1, QuietSteps
  <2>4. ASSUME NEW s \in Sockets, RulerStep(s) PROVE Bare'
    <3>1. CASE ephemera' = ephemera
      BY <2>2, <3>1
    <3>2. ASSUME NEW scenes \in SUBSET Scenes,
                 ephemera' = [ephemera EXCEPT ![s] = [ephemera[s] EXCEPT !.ruler =
                                IF ephemera[s].ruler \in scenes THEN None ELSE ephemera[s].ruler]]
          PROVE  Bare'
      <4>1. ephemera' = [ephemera EXCEPT ![s] = [ephemera[s] EXCEPT !.ruler = None]]
        BY <2>2, <3>2
      <4>2. /\ [ephemera[s] EXCEPT !.ruler = None].ruler = None
            /\ [ephemera[s] EXCEPT !.ruler = None].active = ephemera[s].active
        BY EphemeraFields
      <4> QED
        BY <2>2, <4>1, <4>2
    <3> QED
      BY <2>2, <2>4, <3>1, <3>2, RulerEphemera
  <2>5. ASSUME NEW k \in Slots, CursorStep(k) PROVE Bare'
    <3>1. ~ CursorMove(k)
      BY <2>2, MoveEffect
    <3>2. CASE CursorLeave(k)
      <4>1. PICK s \in Sockets : \/ ephemera' = ephemera
                                 \/ ephemera' = [ephemera EXCEPT ![s] = [ephemera[s] EXCEPT !.active = FALSE]]
        BY <3>2, LeaveEffect
      <4>2. /\ [ephemera[s] EXCEPT !.active = FALSE].ruler = ephemera[s].ruler
            /\ [ephemera[s] EXCEPT !.active = FALSE].active = FALSE
        BY EphemeraFields
      <4> QED
        BY <2>2, <4>1, <4>2
    <3> QED
      BY <2>2, <2>5, <3>1, <3>2, QuietSteps
  <2> QED
    BY <1>1, <2>3, <2>4, <2>5 DEF CanvasStep
<1>2. ASSUME NEW r \in Requests, PauseStep(r) PROVE CleanInv'
  <2>1. CASE Cleanup
    <3>1. ASSUME NEW s \in Sockets, up[s] PROVE ephemera'[s].ruler = None /\ ~ ephemera'[s].active
      <4>1. ephemera'[s] = [ephemera[s] EXCEPT !.ruler = None, !.active = FALSE]
        BY <2>1, <3>1 DEF Cleanup
      <4> QED
        BY <4>1, EphemeraFields
    <3>2. ASSUME NEW s \in Sockets, ~ up[s] PROVE ephemera'[s].ruler = None /\ ~ ephemera'[s].active
      BY <2>1, <3>2 DEF Cleanup, OwnerInv
    <3> QED
      BY <3>1, <3>2 DEF CleanInv
  <2>2. CASE ephemera' = ephemera
    <3>1. CASE Transition(r) /\ pause[r].paused
      BY <2>1, <3>1 DEF Transition
    <3>2. CASE ~ (Transition(r) /\ pause[r].paused)
      <4>1. Breaking' => Breaking
        <5>1. CASE Commit(r)
          <6>1. /\ campaign'.paused = pause[r].paused /\ pause[r].st = "cleaned"
                /\ \A q \in Requests : q # r => pause'[q] = pause[q] /\ ~ Holds(q)
                /\ pause'[r].st # "cleaned"
            BY <1>2, <5>1, PauseFrame DEF LockInv, Commit, Transition, Asked
          <6> QED
            BY <6>1 DEF Breaking, Holds
        <5>2. CASE ~ Commit(r)
          <6>1. campaign' = campaign /\ \A q \in Requests : q # r => pause'[q] = pause[q]
            BY <1>2, <5>2, PauseFrame
          <6>2. pause'[r].st = "cleaned" => ~ pause'[r].paused
            BY <1>2, <3>2, PauseFrame
          <6> QED
            BY <6>1, <6>2 DEF Breaking
        <5> QED
          BY <5>1, <5>2
      <4> QED
        BY <2>2, <4>1 DEF CleanInv
    <3> QED
      BY <3>1, <3>2
  <2> QED
    BY <1>2, <2>1, <2>2, QuietSteps
<1>3. CASE BeginWrite \/ EndWrite \/ UNCHANGED vars
  BY <1>3 DEF BeginWrite, EndWrite, vars, canvasVars, pauseVars, CleanInv, Breaking
<1> QED
  BY <1>1, <1>2, <1>3 DEF Next, CanvasStep

(* While the campaign is paused nobody sees a ruler or a cursor.           *)
THEOREM BreakIsClean == Spec => []PausedCanvasIsClean
<1>1. Init => CleanInv
  BY DEF Init, CleanInv, EmptyEphemera
<1>2. CleanInv /\ RulersAreRetractable /\ CursorsAreRetractable /\ TypeOK => PausedCanvasIsClean
  <2> SUFFICES ASSUME CleanInv, RulersAreRetractable, CursorsAreRetractable, TypeOK, campaign.paused
               PROVE  /\ \A m \in Members : rulers[m] = None
                      /\ \A a \in Audiences : cursors[a] = {}
    BY DEF PausedCanvasIsClean
  <2>1. \A s \in Sockets : ephemera[s].ruler = None /\ ~ ephemera[s].active
    BY DEF CleanInv, Breaking
  <2>2. \A m \in Members : rulers[m] = None
    BY <2>1 DEF RulersAreRetractable
  <2>3. \A a \in Audiences : cursors[a] = {}
    BY <2>1 DEF CursorsAreRetractable
  <2> QED
    BY <2>2, <2>3
<1> QED
  BY <1>1, <1>2, TypeCorrect, RowIsLocked, SocketsOwn, RulersStayRetractable, CursorsStayRetractable,
     CleanNext, PTL DEF Spec

----------------------------------------------------------------------------
(* The announcements                                                       *)

LEMMA AnnounceNext ==
    ASSUME TypeOK, HasReceipt, LockInv, AnnounceInv, [Next]_vars
    PROVE  AnnounceInv' /\ sent <= sent'
<1> USE DEF TypeOK
<1>0. campaign.revision \in Int /\ sent \in Int
  BY DEF CampaignStates
<1>1. ASSUME UNCHANGED <<campaign, pause, receipts, sent>> PROVE AnnounceInv' /\ sent <= sent'
  BY <1>0, <1>1 DEF AnnounceInv
<1>2. ASSUME NEW r \in Requests, PauseStep(r) PROVE AnnounceInv' /\ sent <= sent'
  <2>0. \A q \in Requests : q # r => pause'[q] = pause[q]
    BY <1>2, PauseFrame
  <2>1. CASE Commit(r)
    <3>1. pause[r].revision = campaign.revision /\ \A q \in Requests : q # r => pause[q].st # "sending"
      BY <2>1 DEF Commit, LockInv, Holds
    <3>2. campaign'.revision = campaign.revision + 1 /\ sent' = sent
      BY <2>1, <3>1 DEF Commit
    <3>3. pause'[r].st # "sending"
      BY <1>2, <2>1, PauseFrame DEF Holds, Commit, Transition, Asked, Announce
    <3>4. \A q \in Requests : pause'[q].st # "sending"
      BY <2>0, <3>1, <3>3
    <3>5. sent' <= campaign'.revision /\ sent <= sent'
      BY <1>0, <3>2 DEF AnnounceInv
    <3> QED
      BY <3>4, <3>5 DEF AnnounceInv
  <2>2. CASE Announced(r)
    <3>1. ~ Commit(r) /\ ~ Transition(r) /\ ~ Announce(r)
      BY <2>2 DEF Announced, Commit, Transition, Asked, Announce
    <3>2. campaign' = campaign /\ receipts' = receipts /\ ~ Holds(r)'
      BY <1>2, <3>1, PauseFrame
    <3>3. sent' = campaign.revision
      BY <2>2 DEF Announced, AnnounceInv
    <3>4. \A q \in Requests : pause'[q].st = "sending" => receipts'[pause'[q].cmd] = campaign'
      BY <2>0, <3>2 DEF AnnounceInv, Holds
    <3>5. sent' <= campaign'.revision /\ sent <= sent'
      BY <1>0, <3>2, <3>3 DEF AnnounceInv
    <3> QED
      BY <3>4, <3>5 DEF AnnounceInv
  <2>3. CASE ~ Commit(r) /\ ~ Announced(r)
    <3>1. campaign' = campaign /\ receipts' = receipts
      BY <1>2, <2>3, PauseFrame
    <3>2. sent' = sent
      BY <1>2, <2>3 DEF PauseStep, Ask, Retry, Transition, Replay, Give, Announce
    <3>3. pause'[r].st = "sending" => receipts[pause'[r].cmd] = campaign
      <4>1. CASE Announce(r)
        <5>1. pause'[r].cmd = pause[r].cmd
          BY <1>2, <4>1, PauseFrame
        <5> QED
          BY <4>1, <5>1 DEF Announce, StillCurrent
      <4>2. CASE ~ Announce(r)
        BY <1>2, <4>2, PauseFrame DEF Holds
      <4> QED
        BY <4>1, <4>2
    <3> QED
      BY <1>0, <2>0, <3>1, <3>2, <3>3 DEF AnnounceInv
  <2> QED
    BY <2>1, <2>2, <2>3
<1>3. CASE CanvasStep
  BY <1>1, <1>3, CanvasFrame DEF pauseVars
<1>4. CASE BeginWrite \/ EndWrite \/ UNCHANGED vars
  BY <1>1, <1>4 DEF BeginWrite, EndWrite, vars, pauseVars
<1> QED
  BY <1>2, <1>3, <1>4 DEF Next, CanvasStep

(* No snapshot that announces a pause or a resume is older than one that   *)
(* went out before, whatever is retried.                                   *)
THEOREM AnnouncementsAdvance == Spec => AnnouncementsNeverRegress
<1>1. Init => AnnounceInv
  BY DEF Init, AnnounceInv, Idle
<1>2. TypeOK /\ HasReceipt /\ LockInv /\ AnnounceInv /\ [Next]_vars => AnnounceInv' /\ [sent' >= sent]_sent
  BY AnnounceNext DEF TypeOK, CampaignStates
<1> QED
  BY <1>1, <1>2, TypeCorrect, RowIsLocked, PTL DEF Spec, AnnouncementsNeverRegress

=============================================================================
