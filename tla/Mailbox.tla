------------------------------- MODULE Mailbox -------------------------------
(***************************************************************************)
(* What a store promises its callers, stated over the messages alone.      *)
(* There is no index, no counter and no order of collection here: a push   *)
(* is a duplicate when the message is in the box, a quota is what the box  *)
(* holds, and a message leaves the box only by an acknowledgement of its   *)
(* key or after its deadline.  MemStore implements this specification.     *)
(***************************************************************************)
EXTENDS RelayStore

VARIABLES
  box,     \* box[r]: the messages held for recipient r
  next,    \* next[r]: the arrival number of r's next message
  now,     \* the clock
  reply    \* what the last call returned; a pull or purge, at what clock reading

vars == <<box, next, now, reply>>

Init ==
  /\ box = [r \in Recipients |-> {}]
  /\ next = [r \in Recipients |-> 0]
  /\ now = 0
  /\ reply = [op |-> "none"]

Tick ==
  /\ now < MaxTime
  /\ now' = now + 1
  /\ UNCHANGED <<box, next, reply>>

Holds(r, k) == \E m \in box[r] : m.key = k

Fits(r, b) ==
  /\ Cardinality(box[r]) + 1 <= MaxMessages
  /\ Bytes(box[r]) + b <= MaxQueueBytes

PushReply(r, isNew) ==
  [op |-> "push", stored |-> isNew, duplicate |-> ~isNew,
   len |-> Cardinality(box'[r]), bytes |-> Bytes(box'[r])]

Push(r, k, b, t) ==
  \/ /\ Holds(r, k)
     /\ UNCHANGED <<box, next, now>>
     /\ reply' = PushReply(r, FALSE)
  \/ /\ ~Holds(r, k) /\ ~Fits(r, b)
     /\ reply' = [op |-> "quota_exceeded"]
     /\ UNCHANGED <<box, next, now>>
  \/ /\ ~Holds(r, k) /\ Fits(r, b)
     /\ box' = [box EXCEPT ![r] = @ \cup {NewMessage(k, b, t, next[r])}]
     /\ next' = [next EXCEPT ![r] = @ + 1]
     /\ reply' = PushReply(r, TRUE)
     /\ UNCHANGED now

\* What a pull may deliver: messages before their deadline, beyond the cursor.
Owed(r, cursor, t) ==
  {m \in box[r] : t < m.deadline /\ (cursor = None \/ cursor.seq < m.seq)}

\* The oldest of the messages owed, all of them or as many as the limit allows.
OldestOf(owed, items, limit) ==
  /\ items \subseteq owed
  /\ \A m \in items, n \in owed \ items : m.seq < n.seq
  /\ Cardinality(items) <= limit
  /\ items # owed => Cardinality(items) = limit

\* The arrival number of the last message of a page.
EndsAt(items, s) == \E m \in items : s = m.seq /\ \A n \in items : n.seq <= s

\* A cursor comes with a page unless nothing else is owed.  Only messages whose
\* deadline has passed may disappear with a pull.
Pull(r, cursor, limit, t) ==
  \/ /\ Foreign(r, cursor)
     /\ reply' = [op |-> "invalid_cursor"]
     /\ UNCHANGED <<box, next, now>>
  \/ /\ Foreign(r, cursor) => box[r] = {}
     /\ \E items \in SUBSET Owed(r, cursor, t), end \in {None} \cup 0..next[r] :
          /\ reply' = [op |-> "pull", items |-> items, next |-> end,
                       remaining |-> Cardinality(box'[r]) - Cardinality(items), at |-> t]
          /\ OldestOf(Owed(r, cursor, t), items, limit)
          /\ IF items = Owed(r, cursor, t) THEN end = None ELSE EndsAt(items, end)
     /\ box'[r] \subseteq box[r]
     /\ \A m \in box[r] \ box'[r] : m.deadline <= t
     /\ box' = [box EXCEPT ![r] = box'[r]]
     /\ UNCHANGED <<next, now>>

\* len is the length of the list of entries, repetitions included: an entry for
\* a message that is not there counts as missing at least once.
Ack(r, K, len) ==
  LET hit == {m \in box[r] : m.key \in K} IN
  /\ box' = [box EXCEPT ![r] = @ \ hit]
  /\ \E missing \in (Cardinality(K) - Cardinality(hit))..(len - Cardinality(hit)) :
       reply' = [op |-> "ack", deleted |-> Cardinality(hit), missing |-> missing,
                 remaining |-> Cardinality(box'[r])]
  /\ UNCHANGED <<next, now>>

\* Every message of every box, with its recipient.
Held(b) == UNION {{r} \X b[r] : r \in Recipients}

Purge(t) ==
  /\ Held(box') \subseteq Held(box)
  /\ \A h \in Held(box) \ Held(box') : h[2].deadline <= t
  /\ box' = [r \in Recipients |-> box'[r]]
  /\ reply' = [op |-> "purge", removed |-> Cardinality(Held(box) \ Held(box')), at |-> t]
  /\ UNCHANGED <<next, now>>

Next ==
  \/ Tick
  \/ \E r \in Recipients, k \in Keys, b \in 0..MaxMessageBytes, t \in 0..now : Push(r, k, b, t)
  \/ \E r \in Recipients, c \in Cursors, l \in 1..PullBatchMax, t \in 0..now : Pull(r, c, l, t)
  \/ \E r \in Recipients, K \in SUBSET Keys, x \in 0..MaxRepeats : Ack(r, K, Cardinality(K) + x)
  \/ \E t \in 0..now : Purge(t)

Spec == Init /\ [][Next]_vars
=============================================================================
