---------------------------- MODULE SnapshotSync ----------------------------
(***************************************************************************)
(* How the canvas of a campaign reaches the browsers: full snapshots, of   *)
(* which one broadcast per campaign runs at a time (broadcast-coalescer.ts,*)
(* routes.ts, snapshot.ts), point events that patch the snapshot in place  *)
(* (routes.ts, realtime.ts, scene-routes.ts), and the client that merges   *)
(* both (use-game-socket-subscriptions.ts and the reducers it calls).      *)
(*                                                                         *)
(* A write commits under the campaign row lock with the next sequence      *)
(* number of game_events, so a commit is one step and handler[n] is the    *)
(* request that committed sequence n.  Every later await of the request is *)
(* a step boundary, and so is every query a snapshot is made of: they run  *)
(* on different connections and see different moments.  One active scene   *)
(* that everybody sees; drawings are written by the drawing routes and fog *)
(* by its route, not by undo; the sockets stay connected, and since a      *)
(* socket delivers in order and the client reacts to nothing but a fog     *)
(* event, a message is applied in the step that sends it.                  *)
(***************************************************************************)
EXTENDS Integers, Sequences

CONSTANTS
    Tokens, Drawings, Fogs,   \* ids of canvas rows
    Clients,                  \* connected sockets
    Initial,                  \* the rows there are at the start
    MaxSeq,                   \* bound: committed writes
    MaxFailures               \* bound: queries that fail after a commit

Items == Tokens \cup Drawings \cup Fogs

ASSUME ItemsAssumption ==
    /\ Tokens \cap Drawings = {} /\ Tokens \cap Fogs = {} /\ Drawings \cap Fogs = {}
    /\ Initial \subseteq Items
ASSUME ClientsAssumption == Clients # {}
ASSUME BoundsAssumption == MaxSeq \in Nat /\ MaxFailures \in Nat

VARIABLES
    rows,       \* the revision of each row, 0 where there is no row
    handler,    \* the requests, by the sequence number each committed
    slot,       \* the coalescer: who awaits the running broadcast, who the next
    drafts,     \* snapshots being built
    client,     \* what each browser shows
    shown,      \* history variable: drawing -> the write whose event went out last
    failures    \* queries that have failed, of a snapshot or before an event

vars == <<rows, handler, slot, drafts, client, shown, failures>>

-----------------------------------------------------------------------------
(* Records.                                                                 *)

Unread == -1

TokenKinds   == {"place", "move", "edit", "resize", "remove", "restore"}
DrawingKinds == {"draw", "redraw", "erase"}
Kinds        == TokenKinds \cup DrawingKinds \cup {"fog"}

Creating == {"place", "draw", "fog"}
Deleting == {"remove", "erase"}

(* What an edit of the conditions (edit) and of the size (resize) differ in *)
(* is how they are announced; restore is the undo of a removal.             *)

(* Writes announced by a full broadcast, and those whose event is held back *)
(* until the broadcast that is running has been sent.                       *)
Broadcasting == {"place", "resize", "remove", "restore"}
Settling     == {"edit"} \cup DrawingKinds

PCs == {"committed", "awaiting", "settling", "ready", "emit", "done", "failed"}

Handlers == [kind : Kinds, item : Items, rev : Nat, pc : PCs, alone : BOOLEAN]
Drafts   == [job : {"broadcast", "stray", "resync"}, to : SUBSET Clients, cause : Items \cup {"-"},
             version : Nat \cup {Unread}, seen : [Items -> Nat \cup {Unread}]]
Views    == [version : Nat, view : [Items -> Nat], mark : [Tokens -> Nat]]

Draft(job, to, cause) ==
    [job |-> job, to |-> to, cause |-> cause, version |-> Unread, seen |-> [i \in Items |-> Unread]]

Ended(h) == h.pc \in {"done", "failed"}
Idle == \A n \in DOMAIN handler : Ended(handler[n])
Quiet == Idle /\ drafts = {}

Init ==
    /\ rows = [i \in Items |-> IF i \in Initial THEN 1 ELSE 0]
    /\ handler = <<>>
    /\ slot = [running |-> {}, queued |-> {}]
    /\ drafts = {}
    /\ client = [c \in Clients |-> [version |-> 0, view |-> rows, mark |-> [t \in Tokens |-> 0]]]
    /\ shown = [d \in Drawings |-> 0]
    /\ failures = 0

-----------------------------------------------------------------------------
(* A write.  `alone' remembers, for the properties only, that nothing else  *)
(* was going on when it committed.                                          *)

Fits(kind, i) ==
    \/ kind \in TokenKinds /\ i \in Tokens
    \/ kind \in DrawingKinds /\ i \in Drawings
    \/ kind = "fog" /\ i \in Fogs

Used(i) == i \in Initial \/ \E n \in DOMAIN handler : handler[n].item = i

LastRemoval(n, i) ==
    /\ handler[n].kind = "remove" /\ handler[n].item = i
    /\ \A m \in DOMAIN handler : handler[m].kind = "remove" /\ handler[m].item = i => m <= n

Allowed(kind, i) ==
    CASE kind \in Creating  -> ~ Used(i)
      [] kind = "restore"   -> rows[i] = 0 /\ \E n \in DOMAIN handler : LastRemoval(n, i)
      [] OTHER              -> rows[i] # 0

\* (variant) a deletion leaves a tombstone below the revisions
RevisionAfterTombstone(kind, i) ==
    CASE kind \in Creating -> 1
      [] kind \in Deleting -> 0 - rows[i]
      [] OTHER             -> rows[i] + 1

(* The undo goes on from the revision the token was removed at.             *)
RevisionAfter(kind, i) ==
    CASE kind \in Creating -> 1
      [] kind \in Deleting -> 0
      [] kind = "restore"  -> 1 + handler[CHOOSE n \in DOMAIN handler : LastRemoval(n, i)].rev
      [] OTHER             -> rows[i] + 1

Commit(kind, i) ==
    /\ Len(handler) < MaxSeq
    /\ Fits(kind, i)
    /\ Allowed(kind, i)
    /\ rows' = [rows EXCEPT ![i] = RevisionAfter(kind, i)]
    /\ handler' = Append(handler,
           [kind |-> kind, item |-> i, pc |-> "committed", alone |-> Quiet,
            rev |-> IF kind = "remove" THEN rows[i] ELSE RevisionAfter(kind, i)])
    /\ UNCHANGED <<slot, drafts, client, shown, failures>>

Continue(n, pc) == handler' = [handler EXCEPT ![n].pc = pc]

-----------------------------------------------------------------------------
(* The coalescer.                                                           *)

\* (variant) a caller shares the broadcast that is running
CallBroadcastShared(n) ==
    /\ handler[n].kind \in Broadcasting
    /\ handler[n].pc = "committed"
    /\ Continue(n, "awaiting")
    /\ slot' = [slot EXCEPT !.running = @ \cup {n}]
    /\ drafts' = IF slot.running = {} THEN drafts \cup {Draft("broadcast", Clients, "-")} ELSE drafts
    /\ UNCHANGED <<rows, client, shown, failures>>

(* broadcast(campaignId): start a broadcast, or join the one that waits.    *)
CallBroadcast(n) ==
    /\ handler[n].kind \in Broadcasting
    /\ handler[n].pc = "committed"
    /\ Continue(n, "awaiting")
    /\ IF slot.running = {}
       THEN /\ slot' = [slot EXCEPT !.running = {n}]
            /\ drafts' = drafts \cup {Draft("broadcast", Clients, "-")}
       ELSE /\ slot' = [slot EXCEPT !.queued = @ \cup {n}]
            /\ UNCHANGED drafts
    /\ UNCHANGED <<rows, client, shown, failures>>

\* (variant) an event does not wait for the running broadcast
CallSettledAtOnce(n) ==
    /\ handler[n].kind \in Settling
    /\ handler[n].pc = "committed"
    /\ Continue(n, "ready")
    /\ UNCHANGED <<rows, slot, drafts, client, shown, failures>>

(* coalesce.settled(campaignId): wait for the running broadcast, if any.    *)
CallSettled(n) ==
    /\ handler[n].kind \in Settling
    /\ handler[n].pc = "committed"
    /\ Continue(n, IF slot.running = {} THEN "ready" ELSE "settling")
    /\ UNCHANGED <<rows, slot, drafts, client, shown, failures>>

(* The promise of the running broadcast settles: its callers return, the    *)
(* events held back go on, and the broadcast that waits starts.             *)
Released(h, outcome, isCaller) ==
    CASE isCaller -> [h EXCEPT !.pc = outcome]
      [] ~ isCaller /\ h.pc = "settling" -> [h EXCEPT !.pc = "ready"]
      [] OTHER -> h

\* (variant) a rejected broadcast rejects the chain of the one that waits
SettleUncaught(outcome, rest) ==
    /\ handler' = [n \in DOMAIN handler |-> Released(handler[n], outcome, n \in slot.running)]
    /\ slot' = [running |-> IF outcome = "failed" THEN {} ELSE slot.queued, queued |-> {}]
    /\ drafts' = IF slot.queued = {} \/ outcome = "failed"
                 THEN rest ELSE rest \cup {Draft("broadcast", Clients, "-")}

Settle(outcome, rest) ==
    /\ handler' = [n \in DOMAIN handler |-> Released(handler[n], outcome, n \in slot.running)]
    /\ slot' = [running |-> slot.queued, queued |-> {}]
    /\ drafts' = IF slot.queued = {} THEN rest ELSE rest \cup {Draft("broadcast", Clients, "-")}

-----------------------------------------------------------------------------
(* Building a snapshot: the tokens and the sequence are read side by side,  *)
(* once for all sockets of a broadcast, and after both the drawings and the *)
(* fog, side by side, for each socket.                                      *)

TokensRead(d) == \A t \in Tokens : d.seen[t] # Unread
ReadSetReady(d) == TokensRead(d) /\ d.version # Unread

PerSocket(d) ==
    IF ReadSetReady(d) THEN {[d EXCEPT !.to = {c}] : c \in d.to} ELSE {d}

Seeing(d, part) == [d EXCEPT !.seen = [i \in Items |-> IF i \in part THEN rows[i] ELSE @[i]]]

ReadTokens(d) ==
    /\ ~ TokensRead(d)
    /\ drafts' = (drafts \ {d}) \cup PerSocket(Seeing(d, Tokens))
    /\ UNCHANGED <<rows, handler, slot, client, shown, failures>>

ReadSequence(d) ==
    /\ d.version = Unread
    /\ drafts' = (drafts \ {d}) \cup PerSocket([d EXCEPT !.version = Len(handler)])
    /\ UNCHANGED <<rows, handler, slot, client, shown, failures>>

\* (variant) the canvas is read beside the read set and not after it
ReadCanvasBeside(d, part) ==
    /\ \E i \in part : d.seen[i] = Unread
    /\ drafts' = (drafts \ {d}) \cup {Seeing(d, part)}
    /\ UNCHANGED <<rows, handler, slot, client, shown, failures>>

ReadCanvas(d, part) ==
    /\ ReadSetReady(d)
    /\ \E i \in part : d.seen[i] = Unread
    /\ drafts' = (drafts \ {d}) \cup {Seeing(d, part)}
    /\ UNCHANGED <<rows, handler, slot, client, shown, failures>>

-----------------------------------------------------------------------------
(* The client.                                                              *)

Later(x, y) == IF x < y THEN y ELSE x

(* reconcileGameSnapshot and recordTokenRemovals.                           *)
Reconcile(cl, d) ==
    IF d.version < cl.version
    THEN cl
    ELSE [version |-> d.version,
          view    |-> d.seen,
          mark    |-> [t \in Tokens |-> IF cl.view[t] # 0 /\ d.seen[t] = 0
                                        THEN Later(cl.mark[t], d.version) ELSE cl.mark[t]]]

\* (variant) an event raises the version beyond its own sequence
PatchedInflated(cl, h, n) == [cl EXCEPT !.version = Later(@, n) + 1, !.view[h.item] = h.rev]

Patched(cl, h, n) == [cl EXCEPT !.version = Later(@, n), !.view[h.item] = h.rev]

(* applyTokenPointEvent; only token:updated is let through at the revision  *)
(* the client already shows.                                                *)
TokenEvent(cl, h, n) ==
    IF \/ cl.view[h.item] = 0
       \/ n <= cl.mark[h.item]
       \/ h.kind = "edit" /\ h.rev < cl.view[h.item]
       \/ h.kind = "move" /\ h.rev <= cl.view[h.item]
    THEN cl
    ELSE Patched(cl, h, n)

(* drawing:upserted and drawing:removed are applied as they come.           *)
DrawingEvent(cl, h, n) == Patched(cl, h, n)

(* fog:created is refused when the snapshot is not older, and if the reveal *)
(* is not in it the client asks for a snapshot of its own.                  *)
FogEvent(cl, h, n) == IF n <= cl.version THEN cl ELSE Patched(cl, h, n)

AsksResync(cl, h, n) == h.kind = "fog" /\ n <= cl.version /\ cl.view[h.item] = 0

Receives(cl, h, n) ==
    CASE h.kind \in TokenKinds   -> TokenEvent(cl, h, n)
      [] h.kind \in DrawingKinds -> DrawingEvent(cl, h, n)
      [] h.kind = "fog"          -> FogEvent(cl, h, n)

-----------------------------------------------------------------------------
(* Point events.                                                            *)

(* projectedToken: token:moved keeps the row it committed, token:updated    *)
(* sends the row as it is now; neither is sent for a token that is gone.    *)
Project(n) ==
    /\ \/ handler[n].kind = "move" /\ handler[n].pc = "committed"
       \/ handler[n].kind = "edit" /\ handler[n].pc = "ready"
    /\ LET row == rows[handler[n].item]
       IN  handler' = [handler EXCEPT
               ![n].pc  = IF row = 0 THEN "done" ELSE "emit",
               ![n].rev = IF handler[n].kind = "edit" /\ row # 0 THEN row ELSE @]
    /\ UNCHANGED <<rows, slot, drafts, client, shown, failures>>

(* The last read before the event is over, and it goes to every socket.     *)
MayEmit(h) ==
    \/ h.pc = "emit"
    \/ h.kind \in DrawingKinds /\ h.pc = "ready"
    \/ h.kind = "fog" /\ h.pc = "committed"

Emit(n) ==
    /\ MayEmit(handler[n])
    /\ client' = [c \in Clients |-> Receives(client[c], handler[n], n)]
    /\ drafts' = drafts \cup {Draft("resync", {c}, handler[n].item) :
                                 c \in {x \in Clients : AsksResync(client[x], handler[n], n)}}
    /\ shown' = [d \in Drawings |-> IF d = handler[n].item THEN n ELSE shown[d]]
    /\ Continue(n, "done")
    /\ UNCHANGED <<rows, slot, failures>>

(* A read before the event fails: the request is answered 500 although its  *)
(* write stands, no socket gets the event, and a retry is answered as a     *)
(* duplicate.  (A read of token:moved that fails rejects in a listener of   *)
(* the socket, and the server stops.)                                       *)
LoseEvent(n) ==
    /\ \/ handler[n].kind \in Settling /\ handler[n].pc \in {"ready", "emit"}
       \/ handler[n].kind = "fog" /\ handler[n].pc = "committed"
    /\ failures < MaxFailures
    /\ failures' = failures + 1
    /\ Continue(n, "failed")
    /\ UNCHANGED <<rows, slot, drafts, client, shown>>

-----------------------------------------------------------------------------
(* The end of a draft.                                                      *)

Siblings(d) == {e \in drafts : e.job = "broadcast" /\ e # d}

(* emitPreviewSnapshot; with its last socket served a broadcast settles.    *)
Send(d) ==
    /\ \A i \in Items : d.seen[i] # Unread
    /\ d.version # Unread
    /\ client' = [c \in Clients |-> IF c \in d.to THEN Reconcile(client[c], d) ELSE client[c]]
    /\ IF d.job = "broadcast" /\ Siblings(d) = {}
       THEN Settle("done", drafts \ {d})
       ELSE drafts' = drafts \ {d} /\ UNCHANGED <<handler, slot>>
    /\ UNCHANGED <<rows, shown, failures>>

(* A query fails.  The broadcast it belongs to is rejected at once, and the *)
(* builds for its other sockets run on with nobody waiting for them.        *)
Fail(d) ==
    /\ failures < MaxFailures
    /\ failures' = failures + 1
    /\ IF d.job = "broadcast"
       THEN Settle("failed", (drafts \ (Siblings(d) \cup {d}))
                                \cup {[e EXCEPT !.job = "stray"] : e \in Siblings(d)})
       ELSE drafts' = drafts \ {d} /\ UNCHANGED <<handler, slot>>
    /\ UNCHANGED <<rows, client, shown>>

-----------------------------------------------------------------------------
HandlerStep(n) ==
    CallBroadcast(n) \/ CallSettled(n) \/ Project(n) \/ Emit(n) \/ LoseEvent(n)

DraftStep(d) ==
    \/ ReadTokens(d)
    \/ ReadSequence(d)
    \/ ReadCanvas(d, Drawings)
    \/ ReadCanvas(d, Fogs)
    \/ Send(d)

Serve == \E d \in drafts : DraftStep(d)

Next ==
    \/ \E kind \in Kinds, i \in Items : Commit(kind, i)
    \/ \E n \in DOMAIN handler : HandlerStep(n)
    \/ Serve
    \/ \E d \in drafts : Fail(d)

Spec == Init /\ [][Next]_vars

-----------------------------------------------------------------------------
(* Properties.                                                              *)

(* Types of the variables.                                                  *)
TypeOK ==
    /\ rows \in [Items -> Nat]
    /\ handler \in Seq(Handlers)
    /\ slot \in [running : SUBSET DOMAIN handler, queued : SUBSET DOMAIN handler]
    /\ drafts \subseteq Drafts
    /\ client \in [Clients -> Views]
    /\ shown \in [Drawings -> Nat]
    /\ failures \in Nat

(* The change committed at n can be seen in the revision that a snapshot    *)
(* read of its row, or is undone by a later one.                            *)
Undone(n, kinds) ==
    \E m \in DOMAIN handler : m > n /\ handler[m].item = handler[n].item /\ handler[m].kind \in kinds

Includes(n, rev) ==
    IF handler[n].kind = "remove"
    THEN rev = 0 \/ Undone(n, {"restore"})
    ELSE rev >= handler[n].rev \/ Undone(n, {"remove"})

(* broadcast-coalescer.ts:10-13: a caller returns after a snapshot that     *)
(* includes its change.  Whatever the running broadcast has read, it read   *)
(* after each of its callers committed.                                     *)
CallersAreServed ==
    \A d \in drafts : d.job = "broadcast" =>
        \A n \in slot.running :
            /\ d.version # Unread => n <= d.version
            /\ d.seen[handler[n].item] # Unread => Includes(n, d.seen[handler[n].item])

Covers(version, i) == \A n \in DOMAIN handler : handler[n].item = i => n <= version

(* drawing-point-events.ts:6-12, as far as it goes: from the moment the     *)
(* event of the last write of a drawing is the last that went out for it,   *)
(* every client shows the drawing of the database, whatever snapshots were  *)
(* built, failed, discarded or delivered before and after.                  *)
DrawingsConverge ==
    \A c \in Clients, d \in Drawings : Covers(shown[d], d) => client[c].view[d] = rows[d]

(* The same without the condition, when everything is answered and sent.    *)
(* It does not hold: the events of two editors go out in either order, and  *)
(* one that is lost is not sent again.                                      *)
AllDrawingsConverge ==
    Quiet => \A c \in Clients, d \in Drawings : client[c].view[d] = rows[d]

Settled ==
    /\ failures = 0
    /\ \A n \in DOMAIN handler : handler[n].kind \in Broadcasting \cup Settling

(* Moves and edits only: no snapshot is built for them.                     *)
PointEventsOnly ==
    \A n \in DOMAIN handler : handler[n].kind \in {"move", "edit"} \cup DrawingKinds

(* Where every write either broadcasts or holds its event back until the    *)
(* running broadcast is sent (routes.ts:174-212), the tokens converge: no   *)
(* snapshot that carries a placement is discarded.  And they converge where *)
(* there are point events alone, in whatever order the routes emit them     *)
(* (token-point-events.ts): it takes both to tear the canvas apart, or a    *)
(* query that fails.                                                        *)
SettledTokensConverge ==
    Quiet /\ failures = 0 /\ (Settled \/ PointEventsOnly) =>
        \A c \in Clients, t \in Tokens : client[c].view[t] = rows[t]

(* The snapshot is the means of recovery: whatever was lost before, a write *)
(* that is broadcast while nothing else happens leaves every client with    *)
(* the canvas of the database.                                              *)
BroadcastHeals ==
    /\ Quiet
    /\ handler # <<>>
    /\ LET last == handler[Len(handler)]
       IN  last.kind \in Broadcasting /\ last.alone /\ last.pc = "done"
    => \A c \in Clients : client[c].view = rows

(* broadcast-coalescer.ts:22-48: nobody waits on the coalescer in vain.  A  *)
(* caller of broadcast is behind the running or the waiting broadcast, also *)
(* after a failure; while somebody waits one is running, and it is being    *)
(* built.                                                                   *)
NobodyIsForgotten ==
    /\ \A n \in DOMAIN handler :
          /\ handler[n].pc = "awaiting" => n \in slot.running \cup slot.queued
          /\ handler[n].pc = "settling" => slot.running # {}
    /\ slot.queued # {} => slot.running # {}
    /\ slot.running # {} => \E d \in drafts : d.job = "broadcast"

(* The tokens converge whatever was written.                                *)
TokensConverge ==
    Quiet /\ failures = 0 => \A c \in Clients, t \in Tokens : client[c].view[t] = rows[t]

(* The fog converges whatever was written: a reveal that came too late to   *)
(* be applied is fetched by the resync the client asks for.                 *)
FogConverges ==
    Quiet /\ failures = 0 => \A c \in Clients, f \in Fogs : client[c].view[f] = rows[f]

-----------------------------------------------------------------------------
(* The strengthenings from which SnapshotSyncProofs derives the properties. *)

(* Who awaits the coalescer is in its slot, exactly once, and a broadcast   *)
(* is being built exactly while the slot is taken.                          *)
SlotInv ==
    /\ slot.running \cap slot.queued = {}
    /\ \A n \in slot.running \cup slot.queued : handler[n].pc = "awaiting"
    /\ \A n \in DOMAIN handler :
          handler[n].pc = "awaiting" => handler[n].kind \in Broadcasting
    /\ \A d \in drafts : d.to # {} /\ (d.job = "broadcast" => slot.running # {})
    /\ NobodyIsForgotten

(* A row holds the change of every write that is not undone by a later one, *)
(* and an unread draft has nothing in it.                                   *)
RowInv ==
    \A n \in DOMAIN handler : handler[n].kind \in Broadcasting =>
        Includes(n, rows[handler[n].item]) /\ (handler[n].kind # "remove" => handler[n].rev > 0)

Fitting == \A n \in DOMAIN handler : Fits(handler[n].kind, handler[n].item)

(* The row of a drawing is what its last write made of it.                  *)
LastInv ==
    \A n \in DOMAIN handler :
        handler[n].item \in Drawings /\ Covers(n, handler[n].item)
           => handler[n].rev = rows[handler[n].item]

(* What a draft or a client shows of a drawing is the row, if its version   *)
(* covers the writes of the drawing; and the version of a client covers     *)
(* them once the event of the last one is out and none came after it.       *)
DrawnInv ==
    /\ \A d \in drafts, i \in Drawings : d.seen[i] # Unread =>
          d.version # Unread /\ (Covers(d.version, i) => d.seen[i] = rows[i])
    /\ \A c \in Clients, i \in Drawings : Covers(shown[i], i) =>
          Covers(client[c].version, i) /\ client[c].view[i] = rows[i]
    /\ \A d \in drafts : d.version # Unread => d.version <= Len(handler)
    /\ \A i \in Drawings : shown[i] <= Len(handler)

(* A version is the number of a write that has committed.                   *)
VersionInv ==
    /\ \A d \in drafts : d.version <= Len(handler)
    /\ \A c \in Clients : /\ client[c].version <= Len(handler)
                          /\ \A t \in Tokens : client[c].mark[t] <= Len(handler)

(* A write that commits while nothing else goes on is alone until the next  *)
(* one commits: what is read and sent in the meantime is the canvas.        *)
Alone ==
    /\ handler # <<>>
    /\ handler[Len(handler)].kind \in Broadcasting /\ handler[Len(handler)].alone

HealInv ==
    Alone =>
    LET last == Len(handler)
    IN  /\ \A n \in DOMAIN handler : n # last => Ended(handler[n])
        /\ handler[last].pc \in {"committed", "awaiting", "done", "failed"}
        /\ handler[last].pc = "committed" => drafts = {}
        /\ \A d \in drafts : /\ d.version \in {Unread, last}
                             /\ \A i \in Items : d.seen[i] \in {Unread, rows[i]}
        /\ handler[last].pc = "awaiting" =>
              \A c \in Clients : \/ client[c].view = rows
                                 \/ \E d \in drafts : d.job = "broadcast" /\ c \in d.to
        /\ handler[last].pc = "done" => \A c \in Clients : client[c].view = rows

(* The drafts of one broadcast that differ are those of several sockets,    *)
(* made from the same reads of the tokens and of the sequence.              *)
SiblingInv ==
    \A d, e \in drafts : d.job = "broadcast" /\ e.job = "broadcast" /\ d # e =>
        /\ ReadSetReady(d) /\ d.version = e.version
        /\ \A t \in Tokens : d.seen[t] = e.seen[t]

(* A revision of a token that a client, a draft or an event may still hold  *)
(* is not above the row, or above the one the token was removed at.         *)
Past(t, rev) ==
    IF rows[t] # 0 THEN rev <= rows[t]
    ELSE rev <= 0 \/ \E n \in DOMAIN handler : LastRemoval(n, t) /\ rev <= handler[n].rev

PastInv ==
    /\ \A c \in Clients, t \in Tokens : Past(t, client[c].view[t])
    /\ \A d \in drafts, t \in Tokens : Past(t, d.seen[t])
    /\ \A n \in DOMAIN handler : handler[n].item \in Tokens =>
           /\ Past(handler[n].item, handler[n].rev)
           /\ handler[n].kind = "edit" /\ handler[n].pc = "emit" => handler[n].rev > 0

(* A broadcast that starts later will read the token.                       *)
Awaited(t) ==
    \E n \in DOMAIN handler : /\ handler[n].item = t /\ handler[n].kind \in Broadcasting
                              /\ handler[n].pc = "committed" \/ n \in slot.queued

(* An event that is held back, or not out yet, and will carry the row.      *)
Held   == {"committed", "settling"}
Unsent == Held \cup {"ready", "emit"}

Herald(n, t, pcs) ==
    /\ rows[t] # 0
    /\ handler[n].item = t /\ handler[n].kind = "edit" /\ handler[n].pc \in pcs
    /\ handler[n].pc = "emit" => handler[n].rev = rows[t]

(* What a draft has read of a token is the row, or something follows it: a  *)
(* client that shows the token lets the event through unless it removed the *)
(* token at a later sequence.                                               *)
DraftSettles(d, t) ==
    \/ d.seen[t] \in {Unread, rows[t]}
    \/ Awaited(t)
    \/ /\ d.seen[t] # 0
       /\ \E n \in DOMAIN handler : /\ Herald(n, t, Held)
                                    /\ \A c \in Clients : client[c].mark[t] < n

(* And so it is with what a client shows.                                   *)
ClientSettles(c, t) ==
    \/ client[c].view[t] = rows[t]
    \/ Awaited(t)
    \/ \E d \in drafts : c \in d.to
    \/ /\ client[c].view[t] # 0
       /\ \E n \in DOMAIN handler : /\ Herald(n, t, Unsent)
                                    /\ client[c].mark[t] < n

(* Where all writes are settled, every draft is part of a broadcast, which  *)
(* the clients will not discard and no event held back overtakes.           *)
SettledDraft(d) ==
    /\ d.job = "broadcast"
    /\ d.version # Unread =>
          /\ \A n \in DOMAIN handler : handler[n].pc \in {"ready", "emit"} => n <= d.version
          /\ \A c \in Clients : client[c].version <= d.version
    /\ \A t \in Tokens : DraftSettles(d, t)

SettledInv ==
    Settled => /\ \A d \in drafts : SettledDraft(d)
               /\ \A c \in Clients, t \in Tokens : ClientSettles(c, t)

(* With point events alone, an event that is still to come carries the row  *)
(* of any token that a client shows at an older revision.                   *)
PointHerald(n, t) ==
    /\ rows[t] # 0
    /\ handler[n].item = t
    /\ \/ handler[n].kind = "move" /\ handler[n].pc \in {"committed", "emit"}
       \/ handler[n].kind = "edit" /\ handler[n].pc \in Unsent
    /\ handler[n].kind = "move" \/ handler[n].pc = "emit" => handler[n].rev = rows[t]

PointwiseInv ==
    PointEventsOnly /\ failures = 0 =>
    /\ drafts = {}
    /\ \A c \in Clients, t \in Tokens :
          /\ client[c].mark[t] = 0
          /\ \/ client[c].view[t] = rows[t]
             \/ client[c].view[t] # 0 /\ \E n \in DOMAIN handler : PointHerald(n, t)
=============================================================================
