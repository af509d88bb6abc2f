------------------------- MODULE TransactionStream --------------------------
(***************************************************************************)
(* The stream of the transactions of a list                                *)
(* (src/client/streaming/transaction.rs): TransactionStream asks for them  *)
(* in batches, keeps the futures in a queue and polls the first one each   *)
(* time it is polled itself.  Unlike BlockStream it asks for nothing       *)
(* twice: what is empty, failed or late is gone.                           *)
(*                                                                         *)
(* A transaction is its position in the list, so that a hash that is       *)
(* listed twice counts as two.  The task sleeps on NotReady until a future *)
(* that it has polled is answered or something else wakes it.              *)
(***************************************************************************)
EXTENDS Integers, Sequences

CONSTANTS
    Total,          \* the length of the list
    buffer_size,    \* the two factors of the capacity of the queue, 5 and
    batch_size,     \* 10 in the code
    Results,        \* how a future may end: with "some" value, "none", "err"
    Slow            \* an answer may take longer than five seconds

(* With a capacity of 1 nothing is ever asked for. *)
ASSUME TransactionStreamAssumption ==
    /\ Total \in Nat
    /\ buffer_size \in Nat \ {0}
    /\ batch_size \in Nat \ {0}
    /\ buffer_size * batch_size \in Nat \ {0, 1}
    /\ Results \subseteq {"some", "none", "err"}
    /\ Slow \in BOOLEAN

Txns == 1..Total

queue_capacity == buffer_size * batch_size

half_capacity == queue_capacity \div 2

VARIABLES
    tx_list,    \* TransactionStream::tx_list
    queue,      \* TransactionStream::queue, see Entry
    fate,       \* history: what became of each transaction
    task        \* the task that polls the stream

vars == <<tx_list, queue, fate, task>>

(* A future in the queue: its transaction, its state, whether the answer   *)
(* will wake the task, and whether it was queued five seconds ago. *)
Entry == [tx : Txns, st : {"waiting", "some", "none", "err"},
          reg : BOOLEAN, old : BOOLEAN]

(* Mutant: the one that next is about to take is not kept free.            *)
remaining_capacity_all == queue_capacity - Len(queue)

remaining_capacity == queue_capacity - Len(queue) - 1

(* The shapes every variable keeps; between two polls the queue is never   *)
(* full. *)
TypeOK ==
    /\ tx_list \in Seq(Txns)
    /\ queue \in Seq(Entry)
    /\ Len(queue) < queue_capacity
    /\ fate \in [Txns -> {"open", "delivered", "empty", "failed", "late"}]
    /\ task \in {"run", "parked", "done", "stopped"}

Init ==
    /\ tx_list = [n \in Txns |-> n]
    /\ queue = <<>>
    /\ fate = [n \in Txns |-> "open"]
    /\ task = "run"

-----------------------------------------------------------------------------

(* The futures of a batch request for txns, as the call returns them:      *)
(* waiting for a socket; answered already, when the batch went by http; or *)
(* errors, when it could not be sent. *)
get_transactions(txns) ==
    {[k \in DOMAIN txns |-> [tx |-> txns[k], st |-> st[k],
                             reg |-> FALSE, old |-> FALSE]]
        : st \in [DOMAIN txns -> Results \cup {"waiting"}]}

(* Mutant: a future is put back unpolled.                                  *)
Unpolled(e) == e

(* A future that is polled and not ready will wake the task. *)
Polled(e) == [e EXCEPT !.reg = TRUE]

(* The rest of poll, when next has left the queue q and takes its first    *)
(* entry: a transaction is delivered, and the task polls again; an empty   *)
(* answer is dropped; an error is dropped and handed to the consumer, who  *)
(* goes on or not; a future that is not ready is put back, or dropped when *)
(* it is five seconds old. *)
Handle(q) ==
    LET e == Head(q)
    IN  \/ /\ e.st = "some"
           /\ fate' = [fate EXCEPT ![e.tx] = "delivered"]
           /\ queue' = Tail(q)
           /\ task' = "run"
        \/ /\ e.st = "none"
           /\ fate' = [fate EXCEPT ![e.tx] = "empty"]
           /\ queue' = Tail(q)
           /\ task' = "parked"
        \/ /\ e.st = "err"
           /\ fate' = [fate EXCEPT ![e.tx] = "failed"]
           /\ queue' = Tail(q)
           /\ task' \in {"run", "stopped"}
        \/ /\ e.st = "waiting"
           /\ ~e.old
           /\ queue' = Append(Tail(q), Polled(e))
           /\ task' = "parked"
           /\ UNCHANGED fate
        \/ /\ e.st = "waiting"
           /\ e.old
           /\ fate' = [fate EXCEPT ![e.tx] = "late"]
           /\ queue' = Tail(q)
           /\ task' = "parked"

(* poll, when next has nothing left. *)
PollEnd ==
    /\ task = "run"
    /\ tx_list = <<>>
    /\ queue = <<>>
    /\ task' = "done"
    /\ UNCHANGED <<tx_list, queue, fate>>

(* poll, when everything has been asked for or the queue is full enough. *)
PollDrain ==
    /\ task = "run"
    /\ \/ tx_list = <<>> /\ queue # <<>>
       \/ tx_list # <<>> /\ Len(queue) > half_capacity
    /\ Handle(queue)
    /\ UNCHANGED tx_list

get_this_many ==
    IF Len(tx_list) < remaining_capacity THEN Len(tx_list) ELSE remaining_capacity

(* Mutant: the first transaction of a batch stays in the list.             *)
RestKeeps == SubSeq(tx_list, get_this_many, Len(tx_list))

(* What get_this_many times pop_front leaves in the list. *)
Rest == SubSeq(tx_list, get_this_many + 1, Len(tx_list))

(* poll, when next asks for more transactions first. *)
PollRefill ==
    /\ task = "run"
    /\ tx_list # <<>>
    /\ Len(queue) <= half_capacity
    /\ \E futs \in get_transactions(SubSeq(tx_list, 1, get_this_many)) :
         Handle(queue \o futs)
    /\ tx_list' = Rest

Poll == PollEnd \/ PollDrain \/ PollRefill

(* The client resolves the k-th future of the queue, and wakes the task if *)
(* that has polled it. *)
Respond(k) ==
    /\ queue[k].st = "waiting"
    /\ \E r \in Results : queue' = [queue EXCEPT ![k].st = r]
    /\ task' = IF task = "parked" /\ queue[k].reg THEN "run" ELSE task
    /\ UNCHANGED <<tx_list, fate>>

(* Five seconds have passed since the k-th future was queued. *)
Age(k) ==
    /\ Slow
    /\ queue[k].st = "waiting"
    /\ ~queue[k].old
    /\ queue' = [queue EXCEPT ![k].old = TRUE]
    /\ UNCHANGED <<tx_list, fate, task>>

(* The task is woken by something else that it drives: a future polls      *)
(* everything it is made of whenever one part of it wakes the task. *)
Wake ==
    /\ task = "parked"
    /\ task' = "run"
    /\ UNCHANGED <<tx_list, queue, fate>>

Next == Poll \/ Wake \/ \E k \in DOMAIN queue : Respond(k) \/ Age(k)

Spec == Init /\ [][Next]_vars

(* A task that is awake is run.  Nothing need ever be answered: a batch    *)
(* whose text or answer is lost does not time out. *)
Fairness == WF_vars(Poll)

FairSpec == Spec /\ Fairness

-----------------------------------------------------------------------------
(* Properties *)

(* How often the transaction n is in the list and in the queue. *)
Places(n) == {<<"list", k>> : k \in {j \in DOMAIN tx_list : tx_list[j] = n}}
               \cup {<<"queue", k>> : k \in {j \in DOMAIN queue : queue[j].tx = n}}

(* Moving transactions from the list to the queue and around in it neither *)
(* loses nor doubles one: it is in one place until it has met its fate,    *)
(* and in none afterwards. *)
OnePlace ==
    \A n \in Txns :
      IF fate[n] = "open" THEN \E p \in Places(n) : Places(n) = {p}
                          ELSE Places(n) = {}

(* A stream that ends has delivered every transaction of the list.         *)
EndsDelivered == task = "done" => \A n \in Txns : fate[n] = "delivered"

(* poll has returned NotReady for an empty answer or a dropped future. *)
Hushed == \E n \in Txns : fate[n] \in {"empty", "late"}

(* A future that is not answered will wake the task when it is. *)
Awaiting == \E k \in DOMAIN queue : queue[k].st = "waiting" /\ queue[k].reg

(* The stream comes to its end, unless the consumer gives up at an error,  *)
(* a request that will wake the task is never answered, or an empty answer *)
(* or a dropped future has left the task asleep for good. *)
EndsOrWaits ==
    \/ <>(task \in {"done", "stopped"})
    \/ <>[]Awaiting
    \/ <>[](task = "parked" /\ Hushed)

=============================================================================
