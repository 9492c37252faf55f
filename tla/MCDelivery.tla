----------------------------- MODULE MCDelivery -----------------------------
(***************************************************************************)
(* Delivery for TLC: the sizes are in the configuration.                   *)
(***************************************************************************)
EXTENDS Delivery, TLC

\* Keys are only ever compared for equality.
KeySymmetry == Permutations(Keys)

\* With one message to a purge, a purge that has found it needs no more of its
\* clock reading and its place.
ASSUME OneToAPurge == GcBatch = 1

\* Nothing here looks at what an ack has deleted.
CallsView == [c \in Callers |-> IF calls[c].op = "ack" THEN <<"ack">> ELSE <<calls[c].op, calls[c].ids>>]

PurgeView ==
  CASE gc = GcIdle -> <<"idle">>
    [] gc.pc = "next" -> IF gc.removed > 0 THEN <<"last">> ELSE <<"next", gc.t, gc.edge, gc.leaf>>
    [] gc.pc \in {"fetched", "unindex"} -> <<gc.pc, gc.at[1], gc.msg, gc.leaf>>
    [] OTHER -> <<gc.pc, {r \in Recipients : Cached(r)}>>

\* What neither a step nor a property reads is left out: the history but for
\* accepted, the disk once there will be no more crashes, and, in a configuration
\* whose limits no queue reaches, the quotas.  Messages that are gone or have
\* expired are owed to nobody.
DeliveryView ==
  <<messages, index, seq, CallsView, now, crashes, accepted,
    [p \in Pullers |-> IF reader[p] = Away THEN Away
       ELSE [reader[p] EXCEPT !.owed = {m \in @ : ~Expired(m, now)}]],
    [p \in Pullers |-> IF pulls[p] = PullIdle THEN PullIdle
       ELSE [pulls[p] EXCEPT !.must = @ \cap messages[pulls[p].to]]],
    IF crashes < MaxCrashes THEN <<disk.messages, disk.index, disk.seq>> ELSE <<>>,
    PurgeView>>
=============================================================================
