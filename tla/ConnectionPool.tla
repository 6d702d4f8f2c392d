--------------------------- MODULE ConnectionPool ---------------------------
(***************************************************************************)
(* The connections of the server process (packages/db/src/index.ts) and    *)
(* the campaign row they are spent waiting for.  A canvas command and an   *)
(* ephemeral relay are each one transaction: they reserve a connection and *)
(* then lock the row (campaign-pause-guard.ts).  The announcement of a     *)
(* pause locks the row as well and, inside its transaction, awaits a       *)
(* snapshot broadcast whose queries take connections of their own          *)
(* (routes.ts).  Neither a lock nor a query has a timeout.  One campaign;  *)
(* other uses of the pool hold a connection for a moment and are left out. *)
(***************************************************************************)
EXTENDS Naturals, FiniteSets

CONSTANTS
    Commands, Relays, Announcements,   \* requests, each served once
    Reads,                             \* queries of one broadcast
    MaxConnections

VARIABLES
    pc,       \* where each request is
    queries,  \* queries of each broadcast that have not been answered
    running   \* queries that hold a connection

vars == <<pc, queries, running>>

Requests == Commands \cup Relays \cup Announcements

(* A transaction holds its connection until it ends, also while it waits.   *)
InTransaction == {r \in Requests : pc[r] \in {"waiting", "inside"}}
Inside == {r \in Requests : pc[r] = "inside"}

Free == Cardinality(InTransaction) + Cardinality(running) < MaxConnections

Init ==
    /\ pc = [r \in Requests |-> "idle"]
    /\ queries = [r \in Announcements |-> {}]
    /\ running = {}

Arrive(r) ==
    /\ pc[r] = "idle"
    /\ pc' = [pc EXCEPT ![r] = "queued"]
    /\ UNCHANGED <<queries, running>>

(* db.transaction: reserve a connection and send BEGIN.                     *)
Begin(r) ==
    /\ pc[r] = "queued"
    /\ Free
    /\ pc' = [pc EXCEPT ![r] = "waiting"]
    /\ UNCHANGED <<queries, running>>

(* SELECT ... FOR UPDATE or FOR SHARE of the campaign row.                  *)
Compatible(r, s) == r \in Relays /\ s \in Relays

Lock(r) ==
    /\ pc[r] = "waiting"
    /\ \A s \in Inside : Compatible(r, s)
    /\ pc' = [pc EXCEPT ![r] = "inside"]
    /\ queries' = IF r \in Announcements THEN [queries EXCEPT ![r] = Reads] ELSE queries
    /\ UNCHANGED running

(* One query of the broadcast, on any free connection.                      *)
Query(r, q) ==
    /\ q \in queries[r] /\ <<r, q>> \notin running
    /\ Free
    /\ running' = running \cup {<<r, q>>}
    /\ UNCHANGED <<pc, queries>>

Answer(r, q) ==
    /\ <<r, q>> \in running
    /\ running' = running \ {<<r, q>>}
    /\ queries' = [queries EXCEPT ![r] = @ \ {q}]
    /\ UNCHANGED pc

(* COMMIT: the row and the connection are free again.                       *)
Finish(r) ==
    /\ pc[r] = "inside"
    /\ r \in Announcements => queries[r] = {}
    /\ pc' = [pc EXCEPT ![r] = "done"]
    /\ UNCHANGED <<queries, running>>

Progress(r) ==
    \/ Begin(r)
    \/ Lock(r)
    \/ r \in Announcements /\ \E q \in Reads : Query(r, q) \/ Answer(r, q)
    \/ Finish(r)

Next == \E r \in Requests : Arrive(r) \/ Progress(r)

(* Pool and database serve whoever can be served; each request runs once.   *)
Spec == Init /\ [][Next]_vars /\ \A r \in Requests : WF_vars(Progress(r))

-----------------------------------------------------------------------------
(* docs/plans/uix-583-pause-canvas-guards.md:82-89: a command or relay that *)
(* finds the row locked wakes up when the lock is released, and so every    *)
(* request is answered.                                                     *)
WaitersWake == \A r \in Requests : pc[r] = "waiting" ~> pc[r] = "done"
=============================================================================
