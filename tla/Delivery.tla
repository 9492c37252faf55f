------------------------------ MODULE Delivery ------------------------------
(***************************************************************************)
(* Clients that read a queue of the sled store page by page.  A client     *)
(* keeps the next_cursor of its last page, asks for the page after it, and *)
(* asks again when no answer comes; it outlives a crash of the relay.  The *)
(* calls are those of SledStore; what a client does with the answers is    *)
(* external.                                                               *)
(***************************************************************************)
EXTENDS SledStore

VARIABLE
  reader    \* reader[p]: what the client that pulls through p has kept

deliveryVars == <<vars, reader>>

\* owed is history: the messages that have been there since the first request
\* and have not arrived yet.
Away == [pc |-> "away"]
Reading(r) == [pc |-> "reading", to |-> r, cursor |-> None, owed |-> messages[r]]

DeliveryInit == Init /\ reader = [p \in Pullers |-> Away]

\* What the steps of the relay mean to the history of the clients.
Watched ==
  reader' = [p \in Pullers |->
    IF reader[p] = Away THEN Away ELSE [reader[p] EXCEPT !.owed = @ \cap messages'[reader[p].to]]]

\* Sizes matter to quotas alone: all payloads are of one byte.  Nothing in this
\* store waits for a lock, so a call starts as it reads the clock; time goes on
\* while it runs.
Relay ==
  /\ \/ Tick \/ GcStart(now) \/ GcStep \/ GcFails \/ Persist \/ Crash
     \/ \E c \in Callers : Answer(c) \/ Drop(c)
     \/ \E c \in Callers, r \in Recipients :
          \/ \E k \in Keys : Push(c, r, k, 1, now)
          \/ \E K \in SUBSET Keys : Ack(c, r, K)
     \/ \E p \in Pullers : (\E edge \in Edges : PullRead(p, edge)) \/ PullNext(p) \/ PullLoopEnds(p)
  /\ Watched

-----------------------------------------------------------------------------

Begin(p, r) ==
  /\ reader[p] = Away /\ pulls[p] = PullIdle
  /\ reader' = [reader EXCEPT ![p] = Reading(r)]
  /\ UNCHANGED vars

CursorOf(p) ==
  IF reader[p].cursor = None THEN None ELSE [to |-> reader[p].to, seq |-> reader[p].cursor]

\* The first request for a page, or another one because its answer is missing.
Ask(p, limit) ==
  /\ reader[p].pc = "reading"
  /\ PullStart(p, reader[p].to, CursorOf(p), limit, now)
  /\ UNCHANGED reader

PageArrives(p) ==
  /\ PullAnswer(p)
  /\ reader' = [reader EXCEPT ![p].owed = @ \ pulls[p].items,
                              ![p].cursor = pulls[p].next,
                              ![p].pc = IF pulls[p].next = None THEN "done" ELSE "reading"]

PageLost(p) ==
  /\ PullAnswer(p)
  /\ UNCHANGED reader

Leave(p) ==
  /\ reader[p].pc = "done"
  /\ reader' = [reader EXCEPT ![p] = Away]
  /\ UNCHANGED vars

Client ==
  \E p \in Pullers :
    \/ \E r \in Recipients : Begin(p, r)
    \/ \E limit \in 1..PullBatchMax : Ask(p, limit)
    \/ PageArrives(p) \/ PageLost(p) \/ Leave(p)

DeliveryNext == Relay \/ Client

DeliverySpec == DeliveryInit /\ [][DeliveryNext]_deliveryVars

-----------------------------------------------------------------------------
(***************************************************************************)
(* Properties.                                                             *)
(***************************************************************************)

\* A client that has read to the end has seen every message that was in the
\* queue all the time and has not expired: whatever was pushed, acknowledged and
\* collected between its pages, whichever answers were lost, and although the
\* relay crashed and the arrival numbers after the crash repeat those of messages
\* that were lost (store_sled.rs:159-185).
ReadingIsComplete ==
  \A p \in Pullers : reader[p].pc = "done" =>
    \A m \in reader[p].owed : Expired(m, now)

\* Nothing arrives behind the cursor a client keeps, provided the push of the
\* message the cursor stands for was confirmed: then the counter can no longer
\* fall back behind it.  pull also shows messages that are not on disk yet
\* (store_sled.rs:159); after a crash their numbers are given out again, and a
\* client that goes on with such a cursor does not see what arrives under them
\* until it reads from the beginning.
NothingArrivesBehind ==
  \A p \in Pullers :
    (reader[p].pc = "reading" /\ <<reader[p].to, reader[p].cursor>> \in accepted) =>
      seq[reader[p].to] > reader[p].cursor
=============================================================================
