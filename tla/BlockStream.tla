----------------------------- MODULE BlockStream ----------------------------
(***************************************************************************)
(* The stream of the blocks From..To (src/client/stream.rs): BlockStream   *)
(* keeps a queue of the futures it has asked the client for in batches,    *)
(* polls the first one each time it is polled itself, and asks again at    *)
(* the end for the blocks it has not delivered.                            *)
(*                                                                         *)
(* The task that polls the stream sleeps on NotReady until a future that   *)
(* it has polled is answered, or something else it drives wakes it: the    *)
(* futures 0.1 contract.  The queue entries are the YumFutures of a batch, *)
(* which never time out (see Requests).                                    *)
(***************************************************************************)
EXTENDS Integers, Sequences

CONSTANTS
    From, To,       \* the range, both ends included
    buffer_size,    \* the two factors of the capacity of the queue
    batch_size,
    Results,        \* how a future may end: with "some" block, "none", "err",
                    \* or an "unnumbered" block
    Slow            \* an answer may take longer than five seconds

(* from > to makes `self.to - self.from` wrap, and the capacity 0 makes    *)
(* remaining_capacity do so: neither is modelled. *)
ASSUME BlockStreamAssumption ==
    /\ From \in Nat
    /\ To \in Nat
    /\ From <= To
    /\ buffer_size \in Nat \ {0}
    /\ batch_size \in Nat \ {0}
    /\ buffer_size * batch_size \in Nat \ {0}
    /\ Results \subseteq {"some", "none", "err", "unnumbered"}
    /\ Slow \in BOOLEAN

Blocks == From..To

queue_capacity == buffer_size * batch_size

half_capacity == queue_capacity \div 2

VARIABLES
    from,       \* BlockStream::from
    queue,      \* BlockStream::queue, see Entry
    completed,  \* BlockStream::completed
    count,      \* history, count[n]: how often the block n was delivered
    task        \* the task that polls the stream, see Asleep

vars == <<from, queue, completed, count, task>>

(* The task sleeps: "parked" by a future it has polled, or "hushed" by a   *)
(* poll that was not ready although it had registered with nothing. *)
Asleep == {"parked", "hushed"}

(* A future in the queue: the block it is for, its state, whether the      *)
(* answer will wake the task, and whether five seconds have passed since   *)
(* it was put there. *)
Entry == [num : Blocks, st : {"waiting", "some", "none", "err", "unnumbered"},
          reg : BOOLEAN, old : BOOLEAN]

(* Room for a batch: an inclusive range has one block more than its span. *)
remaining_capacity == queue_capacity - Len(queue) - 1

(* The shapes every variable keeps. *)
TypeOK ==
    /\ from \in Blocks
    /\ queue \in Seq(Entry)
    /\ completed \subseteq Blocks
    /\ count \in [Blocks -> Nat]
    /\ task \in {"run", "done", "stopped"} \cup Asleep

Init ==
    /\ from = From
    /\ queue = <<>>
    /\ completed = {}
    /\ count = [n \in Blocks |-> 0]
    /\ task = "run"

-----------------------------------------------------------------------------

(* The futures of a batch request for the blocks nums, as the call returns *)
(* them: waiting for a socket; answered already, when the batch went by    *)
(* http; or errors, when it could not be sent. *)
Futures(nums) ==
    {[k \in DOMAIN nums |-> [num |-> nums[k], st |-> st[k],
                              reg |-> FALSE, old |-> FALSE]]
        : st \in [DOMAIN nums -> Results \cup {"waiting"}]}

(* Mutant: the range is one block too long.                                *)
get_block_range_long(a, b) == Futures([k \in 1..(b - a + 2) |-> a + k - 1])

(* The range is inclusive. *)
get_block_range(a, b) == Futures([k \in 1..(b - a + 1) |-> a + k - 1])

(* Mutant: the last block is not looked for.                               *)
missing_but_last == (From..(To - 1)) \ completed

(* Mutant: what was delivered is not left out.                             *)
missing_all == From..To

(* The blocks that were asked for but not delivered. *)
missing_blocks == (From..To) \ completed

(* The block numbers of the set S in ascending order. *)
Ascending(S) ==
    UNION {{f \in [1..n -> S] : /\ \A i, j \in 1..n : i < j => f[i] < f[j]
                                /\ \A b \in S : \E i \in 1..n : f[i] = b}
             : n \in 0..(To - From + 1)}

(* Mutant: a future is put back unpolled.                                  *)
Unpolled(e) == e

(* A future that is polled and not ready will wake the task. *)
Polled(e) == [e EXCEPT !.reg = TRUE]

(* The rest of poll, when next has left the queue q and takes its first    *)
(* entry: a block is delivered, and the task polls again; one without a    *)
(* number is the end of the task, for expect("Will always have a number    *)
(* here") panics; an empty answer is dropped; an error is dropped and      *)
(* handed to the consumer, who goes on or not; a future that is not ready  *)
(* is put back, or dropped when it is five seconds old. *)
Handle(q) ==
    LET e == Head(q)
    IN  \/ /\ e.st = "some"
           /\ completed' = completed \cup {e.num}
           /\ count' = [count EXCEPT ![e.num] = @ + 1]
           /\ queue' = Tail(q)
           /\ task' = "run"
        \/ /\ e.st = "unnumbered"
           /\ queue' = Tail(q)
           /\ task' = "stopped"
           /\ UNCHANGED <<completed, count>>
        \/ /\ e.st = "none"
           /\ queue' = Tail(q)
           /\ task' = "hushed"
           /\ UNCHANGED <<completed, count>>
        \/ /\ e.st = "err"
           /\ queue' = Tail(q)
           /\ task' \in {"run", "stopped"}
           /\ UNCHANGED <<completed, count>>
        \/ /\ e.st = "waiting"
           /\ ~e.old
           /\ queue' = Append(Tail(q), Polled(e))
           /\ task' = "parked"
           /\ UNCHANGED <<completed, count>>
        \/ /\ e.st = "waiting"
           /\ e.old
           /\ queue' = Tail(q)
           /\ task' = "hushed"
           /\ UNCHANGED <<completed, count>>

(* poll, when next finds that every block was delivered. *)
PollEnd ==
    /\ task = "run"
    /\ from = To
    /\ queue = <<>>
    /\ missing_blocks = {}
    /\ task' = "done"
    /\ UNCHANGED <<from, queue, completed, count>>

(* poll, when next asks for the blocks that did not go through. *)
PollRetry ==
    /\ task = "run"
    /\ from = To
    /\ queue = <<>>
    /\ missing_blocks # {}
    /\ \E nums \in Ascending(missing_blocks) :
         \E futs \in Futures(nums) : Handle(futs)
    /\ UNCHANGED from

(* poll, when everything has been asked for or the queue is full enough. *)
PollDrain ==
    /\ task = "run"
    /\ \/ from = To /\ queue # <<>>
       \/ from # To /\ Len(queue) > half_capacity
    /\ Handle(queue)
    /\ UNCHANGED from

get_this_many ==
    IF To - from < remaining_capacity THEN To - from ELSE remaining_capacity

(* poll, when next asks for more blocks first. *)
PollRefill ==
    /\ task = "run"
    /\ from # To
    /\ Len(queue) <= half_capacity
    /\ \E futs \in get_block_range(from, from + get_this_many) :
         Handle(queue \o futs)
    /\ from' = from + get_this_many

Poll == PollEnd \/ PollRetry \/ PollDrain \/ PollRefill

(* The client resolves the k-th future of the queue, and wakes the task if *)
(* that has polled it. *)
Respond(k) ==
    /\ queue[k].st = "waiting"
    /\ \E r \in Results : queue' = [queue EXCEPT ![k].st = r]
    /\ task' = IF task \in Asleep /\ queue[k].reg THEN "run" ELSE task
    /\ UNCHANGED <<from, completed, count>>

(* Five seconds have passed since the k-th future was queued.  The clock   *)
(* is left out: futures of one batch may grow old one after the other.     *)
Age(k) ==
    /\ Slow
    /\ queue[k].st = "waiting"
    /\ ~queue[k].old
    /\ queue' = [queue EXCEPT ![k].old = TRUE]
    /\ UNCHANGED <<from, completed, count, task>>

(* The task is woken by something else that it drives: a future polls      *)
(* everything it is made of whenever one part of it wakes the task. *)
Wake ==
    /\ task \in Asleep
    /\ task' = "run"
    /\ UNCHANGED <<from, queue, completed, count>>

Next == Poll \/ Wake \/ \E k \in DOMAIN queue : Respond(k) \/ Age(k)

Spec == Init /\ [][Next]_vars

(* A task that is awake is run.  Nothing need ever be answered: a batch    *)
(* whose text or answer is lost does not time out. *)
Fairness == WF_vars(Poll)

FairSpec == Spec /\ Fairness

(* For the run that supposes more: every future in the queue is answered   *)
(* in the end. *)
AnsweredSpec == FairSpec /\ WF_vars(\E k \in DOMAIN queue : Respond(k))

-----------------------------------------------------------------------------
(* Properties *)

(* A stream that ends has delivered every block of the range, whatever was *)
(* lost, empty or late on the way. *)
EndsComplete == task = "done" => \A n \in Blocks : count[n] > 0

(* The queue does not outgrow its capacity while blocks are being asked    *)
(* for, nor, in the final round, the range. *)
QueueBound ==
    /\ from # To => Len(queue) <= queue_capacity
    /\ \/ Len(queue) <= queue_capacity
       \/ Len(queue) <= To - From + 1

(* No block is delivered more than twice: it is asked for twice if it is   *)
(* the end of a batch and the start of the next one, and in a final round  *)
(* only if it was never delivered.  A capacity below 3 breaks this. *)
AtMostTwice == \A n \in Blocks : count[n] <= 2

(* poll hands an error to a consumer, who goes on. *)
PollError == Poll /\ task' = "run" /\ UNCHANGED count

(* A future that is not answered will wake the task when it is. *)
Awaiting == \E k \in DOMAIN queue : queue[k].st = "waiting" /\ queue[k].reg

(* The stream comes to its end, unless a request that will wake the task   *)
(* is never answered, there are errors for ever, the consumer gives up at  *)
(* one, or empty answers and dropped futures put the task to sleep each    *)
(* time it is woken, the last time for good.  A task that sleeps on        *)
(* nothing, or polls on without getting on, is none of these. *)
EndsOrWaits ==
    \/ <>(task \in {"done", "stopped"})
    \/ <>[]Awaiting
    \/ []<>(task = "hushed")
    \/ []<><<PollError>>_vars

(* The stream comes to its end. *)
StreamCompletes == <>(task = "done")

=============================================================================
