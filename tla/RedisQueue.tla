----------------------------- MODULE RedisQueue -----------------------------
(***************************************************************************)
(* The two Redis lists of queue.go: "workflow:queue:pending" (main) and    *)
(* "workflow:queue:retry" (retry).  They survive a crash of the process.   *)
(***************************************************************************)
EXTENDS Domain, Faults, Functions

VARIABLE queue

QueueName == {"main", "retry"}

Pushed(q, t) == [queue EXCEPT ![q] = Append(@, t)]

PushedTwice(q, t) == [queue EXCEPT ![q] = Append(Append(@, t), t)]

(* RPUSH; `ok' is whether Push returns nil. *)
Push(q, t, ok) ==
  \/ ok /\ queue' = Pushed(q, t) /\ NoFault
  \/ ok /\ queue' = PushedTwice(q, t) /\ Fault("dupPush")
  \/ ~ok /\ queue' \in {queue, Pushed(q, t)} /\ Fault("queue")

(* BLPOP: blocks while the list is empty.  When the reply is lost the list  *)
(* has lost the element and Pop returns an error.                           *)
Pop(q, t, ok) ==
  /\ queue[q] # <<>>
  /\ t = Head(queue[q])
  /\ queue' = [queue EXCEPT ![q] = Tail(@)]
  /\ IF ok THEN NoFault ELSE Fault("queue")

InQueue(q, t) == t \in Range(queue[q])

RedisQueueTypeOK(ids) == queue \in [QueueName -> Seq(ids)]

RedisQueueInit == queue = [q \in QueueName |-> <<>>]
=============================================================================
