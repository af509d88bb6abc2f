------------------------- MODULE BlockStreamProofs --------------------------
(***************************************************************************)
(* Theorems about BlockStream, for every range, capacity and kind of       *)
(* answer.                                                                 *)
(*                                                                         *)
(* A stream that ends is complete because next looks for the blocks that   *)
(* are not in completed (Accounted: those that are were delivered), and    *)
(* because nothing moves once it has ended (EndedFull).                    *)
(*                                                                         *)
(* No block comes more than twice because the deliveries and the futures   *)
(* of a block are two together at most: only the block from, where the     *)
(* next batch begins, is asked for again (Asked), and the final round asks *)
(* for what never came (Counted).                                          *)
(***************************************************************************)
EXTENDS BlockStream, SequenceTheorems, TLAPS

(* What is in completed was delivered. *)
Accounted == \A n \in completed : count[n] > 0

(* The stream ends with every block in completed. *)
EndedFull == task = "done" => completed = Blocks

(* The inductive invariant. *)
IInv == TypeOK /\ QueueBound /\ Accounted /\ EndedFull

-----------------------------------------------------------------------------
(* The operators *)

(* The capacities are natural numbers, the whole one not 0. *)
LEMMA Capacity ==
    queue_capacity \in Nat \ {0} /\ half_capacity \in Nat
  <1>1. queue_capacity \in Nat \ {0}
    BY BlockStreamAssumption DEF queue_capacity
  <1>2. half_capacity \in Nat
    BY <1>1 DEF half_capacity
  <1> QED  BY <1>1, <1>2

(* A batch request returns one future for each block it asks for. *)
LEMMA FuturesType ==
    ASSUME NEW n \in Nat, NEW nums \in [1..n -> Blocks],
           NEW futs \in Futures(nums)
    PROVE  futs \in Seq(Entry) /\ Len(futs) = n
  <1>1. DOMAIN nums = 1..n
    OBVIOUS
  <1>2. PICK st \in [1..n -> Results \cup {"waiting"}] :
          futs = [k \in 1..n |-> [num |-> nums[k], st |-> st[k],
                                  reg |-> FALSE, old |-> FALSE]]
    BY <1>1 DEF Futures
  <1>3. \A k \in 1..n : futs[k] \in Entry
    BY <1>2, BlockStreamAssumption DEF Entry
  <1>4. futs \in [1..n -> Entry]
    BY <1>2, <1>3
  <1> QED  BY <1>4

(* A range of blocks is asked for with both its ends. *)
LEMMA RangeType ==
    ASSUME NEW a \in Blocks, NEW b \in Blocks, a <= b,
           NEW futs \in get_block_range(a, b)
    PROVE  futs \in Seq(Entry) /\ Len(futs) = b - a + 1
  <1> DEFINE nums == [k \in 1..(b - a + 1) |-> a + k - 1]
  <1>1. b - a + 1 \in Nat
    BY BlockStreamAssumption DEF Blocks
  <1>2. nums \in [1..(b - a + 1) -> Blocks]
    BY BlockStreamAssumption DEF Blocks
  <1>3. futs \in Futures(nums)
    BY DEF get_block_range
  <1> QED  BY <1>1, <1>2, <1>3, FuturesType

(* What poll does with the first future of the queue q keeps every type,   *)
(* lets the queue not grow, and notes a delivery in both places. *)
LEMMA HandleType ==
    ASSUME TypeOK, Accounted, NEW q \in Seq(Entry), q # <<>>, Handle(q)
    PROVE  /\ queue' \in Seq(Entry)
           /\ Len(queue') <= Len(q)
           /\ completed' \subseteq Blocks
           /\ count' \in [Blocks -> Nat]
           /\ task' \in {"run", "stopped"} \cup Asleep
           /\ \A n \in completed' : count'[n] > 0
  <1> DEFINE e == Head(q)
  <1>1. /\ e \in Entry
        /\ Tail(q) \in Seq(Entry)
        /\ Len(Tail(q)) = Len(q) - 1
        /\ Len(q) \in Nat
    BY HeadTailProperties
  <1>2. CASE /\ e.st = "some"
             /\ completed' = completed \cup {e.num}
             /\ count' = [count EXCEPT ![e.num] = @ + 1]
             /\ queue' = Tail(q)
             /\ task' = "run"
    <2>1. e.num \in Blocks
      BY <1>1 DEF Entry
    <2>2. count' \in [Blocks -> Nat]
      BY <1>2, <2>1 DEF TypeOK
    <2>3. \A n \in completed' : count'[n] > 0
      BY <1>2, <2>1 DEF TypeOK, Accounted
    <2> QED  BY <1>1, <1>2, <2>1, <2>2, <2>3 DEF TypeOK
  <1>3. CASE /\ queue' = Tail(q)
             /\ task' \in {"run", "stopped"} \cup Asleep
             /\ UNCHANGED <<completed, count>>
    BY <1>1, <1>3 DEF TypeOK, Accounted
  <1>4. CASE /\ queue' = Append(Tail(q), [e EXCEPT !.reg = TRUE])
             /\ task' = "parked"
             /\ UNCHANGED <<completed, count>>
    <2>1. [e EXCEPT !.reg = TRUE] \in Entry
      BY <1>1 DEF Entry
    <2>2. queue' \in Seq(Entry) /\ Len(queue') = Len(q)
      BY <1>1, <1>4, <2>1, AppendProperties
    <2> QED  BY <1>1, <1>4, <2>2 DEF TypeOK, Accounted, Asleep
  <1> QED  BY <1>2, <1>3, <1>4 DEF Handle, Polled, Asleep

-----------------------------------------------------------------------------
(* The steps *)

(* The stream begins with an empty queue at the start of its range. *)
LEMMA InitInv == Init => IInv
  <1> SUFFICES ASSUME Init PROVE IInv
    OBVIOUS
  <1>1. TypeOK
    BY BlockStreamAssumption DEF Init, TypeOK, Blocks
  <1>2. QueueBound
    BY Capacity DEF Init, QueueBound
  <1> QED  BY <1>1, <1>2 DEF Init, IInv, Accounted, EndedFull

(* The end of the stream finds nothing missing. *)
LEMMA EndInv == IInv /\ PollEnd => IInv'
  <1> SUFFICES ASSUME IInv, PollEnd PROVE IInv'
    OBVIOUS
  <1>1. completed = Blocks
    BY DEF IInv, TypeOK, PollEnd, missing_blocks, Blocks
  <1> QED  BY <1>1 DEF IInv, TypeOK, QueueBound, Accounted, EndedFull, PollEnd

(* The blocks of a set of blocks in order: a final round asks for no more  *)
(* than the range has. *)
LEMMA RetryInv == IInv /\ PollRetry => IInv'
  <1> SUFFICES ASSUME IInv, PollRetry PROVE IInv'
    OBVIOUS
  <1>0. PICK nums \in Ascending(missing_blocks) : \E futs \in Futures(nums) : Handle(futs)
    BY DEF PollRetry
  <1>1. PICK futs \in Futures(nums) : Handle(futs)
    BY <1>0
  <1>2. PICK n \in 0..(To - From + 1) :
          /\ nums \in [1..n -> missing_blocks]
          /\ \A b \in missing_blocks : \E i \in 1..n : nums[i] = b
    BY <1>0 DEF Ascending
  <1>3. n \in Nat /\ n <= To - From + 1 /\ n # 0
    BY <1>2, BlockStreamAssumption DEF PollRetry
  <1>4. nums \in [1..n -> Blocks]
    BY <1>2 DEF missing_blocks, Blocks
  <1>5. futs \in Seq(Entry) /\ Len(futs) = n
    BY <1>1, <1>3, <1>4, FuturesType
  <1>6. futs # <<>>
    BY <1>3, <1>5
  <1>7. /\ queue' \in Seq(Entry)
        /\ Len(queue') <= n
        /\ completed' \subseteq Blocks
        /\ count' \in [Blocks -> Nat]
        /\ task' \in {"run", "stopped"} \cup Asleep
        /\ \A b \in completed' : count'[b] > 0
    BY <1>1, <1>5, <1>6, HandleType DEF IInv
  <1>8. from' = from /\ from = To
    BY DEF PollRetry
  <1>9. TypeOK'
    BY <1>7, <1>8 DEF IInv, TypeOK
  <1>10. QueueBound'
    <2>1. Len(queue') \in Nat
      BY <1>7
    <2> QED  BY <1>3, <1>7, <1>8, <2>1, BlockStreamAssumption DEF QueueBound
  <1> QED  BY <1>7, <1>9, <1>10 DEF IInv, Accounted, EndedFull, Asleep

(* Polling what is in the queue. *)
LEMMA DrainInv == IInv /\ PollDrain => IInv'
  <1> SUFFICES ASSUME IInv, PollDrain PROVE IInv'
    OBVIOUS
  <1>1. queue \in Seq(Entry) /\ Len(queue) \in Nat
    BY DEF IInv, TypeOK
  <1>2. queue # <<>>
    BY <1>1, Capacity DEF PollDrain
  <1>3. Handle(queue) /\ from' = from
    BY DEF PollDrain
  <1>4. /\ queue' \in Seq(Entry)
        /\ Len(queue') <= Len(queue)
        /\ completed' \subseteq Blocks
        /\ count' \in [Blocks -> Nat]
        /\ task' \in {"run", "stopped"} \cup Asleep
        /\ \A b \in completed' : count'[b] > 0
    BY <1>1, <1>2, <1>3, HandleType DEF IInv
  <1>5. TypeOK'
    BY <1>3, <1>4 DEF IInv, TypeOK
  <1>6. QueueBound'
    <2>1. Len(queue') \in Nat
      BY <1>4
    <2> QED  BY <1>1, <1>3, <1>4, <2>1, Capacity, BlockStreamAssumption
             DEF IInv, QueueBound
  <1> QED  BY <1>4, <1>5, <1>6 DEF IInv, Accounted, EndedFull, Asleep

(* A refill fits into the queue. *)
LEMMA RefillInv == IInv /\ PollRefill => IInv'
  <1> SUFFICES ASSUME IInv, PollRefill PROVE IInv'
    OBVIOUS
  <1> DEFINE to == from + get_this_many
  <1>1. queue \in Seq(Entry) /\ Len(queue) \in Nat
    BY DEF IInv, TypeOK
  <1>2. from \in Int /\ From <= from /\ from <= To
    BY BlockStreamAssumption DEF IInv, TypeOK, Blocks
  <1>3. remaining_capacity \in Nat
    BY <1>1, Capacity DEF remaining_capacity, half_capacity, PollRefill
  <1>4. /\ get_this_many \in Nat
        /\ get_this_many <= To - from
        /\ get_this_many <= remaining_capacity
    BY <1>2, <1>3, BlockStreamAssumption DEF get_this_many
  <1>5. from \in Blocks /\ to \in Blocks /\ from <= to
    BY <1>2, <1>4, BlockStreamAssumption DEF Blocks
  <1>6. PICK futs \in get_block_range(from, to) : Handle(queue \o futs)
    BY DEF PollRefill
  <1>7. futs \in Seq(Entry) /\ Len(futs) = get_this_many + 1
    <2>1. futs \in Seq(Entry) /\ Len(futs) = to - from + 1
      BY <1>5, <1>6, RangeType
    <2> QED  BY <1>2, <1>4, <2>1
  <1>8. /\ queue \o futs \in Seq(Entry)
        /\ Len(queue \o futs) = Len(queue) + get_this_many + 1
    <2>1. /\ queue \o futs \in Seq(Entry)
          /\ Len(queue \o futs) = Len(queue) + Len(futs)
      BY <1>1, <1>7, ConcatProperties
    <2> QED  BY <1>1, <1>4, <1>7, <2>1
  <1>9. queue \o futs # <<>>
    BY <1>1, <1>4, <1>8
  <1>10. /\ queue' \in Seq(Entry)
         /\ Len(queue') <= Len(queue \o futs)
         /\ completed' \subseteq Blocks
         /\ count' \in [Blocks -> Nat]
         /\ task' \in {"run", "stopped"} \cup Asleep
         /\ \A b \in completed' : count'[b] > 0
    BY <1>6, <1>8, <1>9, HandleType DEF IInv
  <1>11. TypeOK'
    BY <1>5, <1>10 DEF IInv, TypeOK, PollRefill
  <1>12. QueueBound'
    <2>1. Len(queue') \in Nat
      BY <1>10
    <2>2. Len(queue \o futs) <= queue_capacity
      BY <1>1, <1>4, <1>8, Capacity DEF remaining_capacity
    <2>3. Len(queue') <= queue_capacity
      BY <1>8, <1>10, <2>1, <2>2, <1>1, <1>4, Capacity
    <2> QED  BY <2>3 DEF QueueBound
  <1> QED  BY <1>10, <1>11, <1>12 DEF IInv, Accounted, EndedFull, Asleep

(* An answer, the passing of time and a wake-up leave the queue its        *)
(* length and the stream its place. *)
LEMMA OthersInv ==
    ASSUME IInv, \/ Wake
                 \/ \E k \in DOMAIN queue : Respond(k) \/ Age(k)
    PROVE  IInv'
  <1>1. CASE Wake
    BY <1>1 DEF IInv, TypeOK, QueueBound, Accounted, EndedFull, Wake, Asleep
  <1>2. ASSUME NEW k \in DOMAIN queue, NEW e \in Entry,
               queue' = [queue EXCEPT ![k] = e]
        PROVE  queue' \in Seq(Entry) /\ Len(queue') = Len(queue)
    <2>1. queue \in Seq(Entry) /\ k \in 1..Len(queue)
      BY DEF IInv, TypeOK
    <2> QED  BY <1>2, <2>1, ExceptSeq
  <1>3. \A k \in DOMAIN queue : queue[k] \in Entry
    BY DEF IInv, TypeOK
  <1>4. ASSUME NEW k \in DOMAIN queue, Respond(k) PROVE IInv'
    <2>1. PICK r \in Results : queue' = [queue EXCEPT ![k].st = r]
      BY <1>4 DEF Respond
    <2> DEFINE e == [queue[k] EXCEPT !.st = r]
    <2>2. queue[k] \in Entry /\ r \in {"some", "none", "err", "unnumbered"}
      BY <1>3, BlockStreamAssumption
    <2>3. e \in Entry
      BY <2>2 DEF Entry
    <2>4. queue' = [queue EXCEPT ![k] = e]
      BY <2>1
    <2>5. queue' \in Seq(Entry) /\ Len(queue') = Len(queue)
      BY <1>2, <2>3, <2>4
    <2>6. /\ UNCHANGED <<from, completed, count>>
          /\ task' = "done" => task = "done"
          /\ task' \in {"run", "done", "stopped"} \cup Asleep
      BY <1>4 DEF Respond, IInv, TypeOK, Asleep
    <2> QED  BY <2>5, <2>6 DEF IInv, TypeOK, QueueBound, Accounted, EndedFull
  <1>5. ASSUME NEW k \in DOMAIN queue, Age(k) PROVE IInv'
    <2> DEFINE e == [queue[k] EXCEPT !.old = TRUE]
    <2>1. queue[k] \in Entry
      BY <1>3
    <2>2. e \in Entry
      BY <2>1 DEF Entry
    <2>3. queue' = [queue EXCEPT ![k] = e]
      BY <1>5 DEF Age
    <2>4. queue' \in Seq(Entry) /\ Len(queue') = Len(queue)
      BY <1>2, <2>2, <2>3
    <2>5. UNCHANGED <<from, completed, count, task>>
      BY <1>5 DEF Age
    <2> QED  BY <2>4, <2>5 DEF IInv, TypeOK, QueueBound, Accounted, EndedFull
  <1> QED  BY <1>1, <1>4, <1>5

-----------------------------------------------------------------------------
(* The theorems *)

(* The inductive invariant of BlockStream::poll holds in every behaviour. *)
THEOREM Invariant == Spec => []IInv
  <1>1. IInv /\ [Next]_vars => IInv'
    <2> SUFFICES ASSUME IInv, [Next]_vars PROVE IInv'
      OBVIOUS
    <2>1. CASE Poll
      BY <2>1, EndInv, RetryInv, DrainInv, RefillInv DEF Poll
    <2>2. CASE Wake \/ \E k \in DOMAIN queue : Respond(k) \/ Age(k)
      BY <2>2, OthersInv
    <2>3. CASE UNCHANGED vars
      BY <2>3 DEF vars, IInv, TypeOK, QueueBound, Accounted, EndedFull
    <2> QED  BY <2>1, <2>2, <2>3 DEF Next
  <1> QED  BY InitInv, <1>1, PTL DEF Spec

(* Every field of BlockStream keeps its type: no block outside the range   *)
(* is asked for, and from stays in it. *)
THEOREM TypeCorrect == Spec => []TypeOK
  <1>1. IInv => TypeOK
    BY DEF IInv
  <1> QED  BY Invariant, <1>1, PTL

(* A stream of which poll has returned None has delivered every block of   *)
(* its range, whatever was empty, failed or dropped on the way. *)
THEOREM Complete == Spec => []EndsComplete
  <1>1. IInv => EndsComplete
    BY DEF IInv, Accounted, EndedFull, EndsComplete
  <1> QED  BY Invariant, <1>1, PTL

(* The queue that next fills is bounded by its capacity, and in the final  *)
(* round by the range. *)
THEOREM Bounded == Spec => []QueueBound
  <1>1. IInv => QueueBound
    BY DEF IInv
  <1> QED  BY Invariant, <1>1, PTL

-----------------------------------------------------------------------------
(* Deliveries.  A batch begins with the last block of the one before it,   *)
(* and a capacity of 3 makes sure that it goes on from there.              *)

(* Where the block n is in the queue q. *)
At(q, n) == {j \in DOMAIN q : q[j].num = n}

(* How often the block n was asked for, at most: q is the queue, where the *)
(* answers are, and c counts those that were delivered. *)
Never(q, c, n) == c[n] = 0 /\ At(q, n) = {}

Once(q, c, n) ==
    /\ c[n] <= 1
    /\ c[n] = 1 => At(q, n) = {}
    /\ \A i, j \in At(q, n) : i = j

Twice(q, c, n) ==
    /\ c[n] <= 2
    /\ c[n] = 2 => At(q, n) = {}
    /\ c[n] = 1 => \A i, j \in At(q, n) : i = j
    /\ \A i, j, k \in At(q, n) : i = j \/ j = k \/ i = k

(* The batches up to the block a were asked for: a itself once, and the    *)
(* others twice at most. *)
Asked(q, c, a) ==
    \A n \in Blocks : /\ Twice(q, c, n)
                      /\ n >= a => Once(q, c, n)
                      /\ n > a => Never(q, c, n)

(* What was delivered is in completed. *)
Counted == \A n \in Blocks : count[n] > 0 => n \in completed

(* The entries of r stand for different ones of q, for those that m says. *)
Picks(m, r, q) ==
    /\ m \in [DOMAIN r -> DOMAIN q]
    /\ \A j \in DOMAIN r : r[j].num = q[m[j]].num
    /\ \A i, j \in DOMAIN r : m[i] = m[j] => i = j

(* Then r asks for no more than q. *)
LEMMA FewerAsked ==
    ASSUME NEW q, NEW r, NEW c \in [Blocks -> Nat], NEW a \in Int, Asked(q, c, a),
           NEW m, Picks(m, r, q)
    PROVE  Asked(r, c, a)
  <1> SUFFICES ASSUME NEW n \in Blocks
               PROVE  /\ Twice(r, c, n)
                      /\ n >= a => Once(r, c, n)
                      /\ n > a => Never(r, c, n)
    BY DEF Asked
  <1>1. \A j \in At(r, n) : m[j] \in At(q, n)
    BY DEF At, Picks
  <1>2. \A i, j \in At(r, n) : m[i] = m[j] => i = j
    BY DEF At, Picks
  <1>3. /\ Twice(q, c, n)
        /\ n >= a => Once(q, c, n)
        /\ n > a => Never(q, c, n)
    BY DEF Asked
  <1>4. Twice(r, c, n)
    BY <1>1, <1>2, <1>3 DEF Twice
  <1>5. Once(q, c, n) => Once(r, c, n)
    BY <1>1, <1>2 DEF Once
  <1>6. Never(q, c, n) => Never(r, c, n)
    BY <1>1 DEF Never
  <1> QED  BY <1>3, <1>4, <1>5, <1>6

(* If besides they stand for all but one, that one may be delivered. *)
LEMMA DeliveredAsked ==
    ASSUME NEW q, NEW r, NEW c \in [Blocks -> Nat], NEW a \in Int, Asked(q, c, a),
           NEW m, Picks(m, r, q), NEW h \in DOMAIN q, \A j \in DOMAIN r : m[j] # h,
           NEW b \in Blocks, q[h].num = b
    PROVE  Asked(r, [c EXCEPT ![b] = @ + 1], a)
  <1> DEFINE g == [c EXCEPT ![b] = @ + 1]
  <1>1. g \in [Blocks -> Nat] /\ g[b] = c[b] + 1 /\ \A n \in Blocks \ {b} : g[n] = c[n]
    OBVIOUS
  <1> HIDE DEF g
  <1>2. Asked(r, c, a)
    BY FewerAsked
  <1>3. h \in At(q, b)
    BY DEF At
  <1>4. /\ \A j \in At(r, b) : m[j] \in At(q, b) /\ m[j] # h
        /\ \A i, j \in At(r, b) : m[i] = m[j] => i = j
    BY DEF At, Picks
  <1>5. /\ Twice(q, c, b)
        /\ b >= a => Once(q, c, b)
        /\ b > a => Never(q, c, b)
    BY DEF Asked
  <1>6. c[b] \in {0, 1}
    BY <1>3, <1>5 DEF Twice
  <1>7. Twice(r, g, b)
    <2>1. CASE c[b] = 1
      <3>1. At(r, b) = {}
        BY <1>3, <1>4, <1>5, <2>1 DEF Twice
      <3> QED  BY <1>1, <2>1, <3>1 DEF Twice
    <2>2. CASE c[b] = 0
      <3>1. \A i, j \in At(r, b) : i = j
        BY <1>3, <1>4, <1>5 DEF Twice
      <3> QED  BY <1>1, <2>2, <3>1 DEF Twice
    <2> QED  BY <1>6, <2>1, <2>2
  <1>8. b >= a => Once(r, g, b)
    <2> SUFFICES ASSUME Once(q, c, b) PROVE Once(r, g, b)
      BY <1>5
    <2>1. At(r, b) = {} /\ c[b] = 0
      BY <1>3, <1>4, <1>6 DEF Once
    <2> QED  BY <1>1, <2>1 DEF Once
  <1>9. ~(b > a)
    BY <1>3, <1>5 DEF Never
  <1>10. ASSUME NEW n \in Blocks, n # b
         PROVE  /\ Twice(r, g, n)
                /\ n >= a => Once(r, g, n)
                /\ n > a => Never(r, g, n)
    BY <1>1, <1>2, <1>10 DEF Asked, Twice, Once, Never
  <1>11. Asked(r, g, a)
    BY <1>7, <1>8, <1>9, <1>10 DEF Asked
  <1> QED  BY <1>11 DEF g

(* The first entry of the queue is taken, and put back, dropped or         *)
(* delivered. *)
LEMMA HandleAsked ==
    ASSUME TypeOK, NEW q \in Seq(Entry), q # <<>>, NEW a \in Int, Asked(q, count, a),
           Counted, Handle(q)
    PROVE  Asked(queue', count', a) /\ Counted'
  <1>1. PICK e \in Entry : e = Head(q) /\ e = q[1] /\ e.num \in Blocks
    <2>1. Head(q) \in Entry /\ Head(q) = q[1]
      BY HeadTailProperties
    <2>2. Head(q).num \in Blocks
      BY <2>1 DEF Entry
    <2> QED  BY <2>1, <2>2
  <1>2. PICK l \in Nat : l = Len(q) /\ l >= 1 /\ DOMAIN q = 1..l
    <2>1. Len(q) \in Nat /\ DOMAIN q = 1..Len(q)
      BY LenProperties
    <2>2. Len(q) # 0
      BY EmptySeq
    <2>3. Len(q) >= 1
      BY <2>1, <2>2
    <2> QED  BY <2>1, <2>3, Zenon
  <1>3. PICK t \in Seq(Entry) : /\ t = Tail(q) /\ DOMAIN t = 1..(l - 1) /\ Len(t) = l - 1
                                /\ \A j \in 1..(l - 1) : t[j] = q[j + 1]
    <2>1. /\ Tail(q) \in Seq(Entry) /\ Len(Tail(q)) = l - 1
          /\ \A j \in 1..Len(Tail(q)) : Tail(q)[j] = q[j + 1]
      BY <1>2, HeadTailProperties
    <2>2. DOMAIN Tail(q) = 1..(l - 1)
      BY <2>1, LenProperties
    <2> QED  BY <2>1, <2>2
  <1>4. count \in [Blocks -> Nat]
    BY DEF TypeOK
  <1>5. PICK m \in [1..(l - 1) -> 1..l] : \A j \in 1..(l - 1) : m[j] = j + 1
    <2>1. [j \in 1..(l - 1) |-> j + 1] \in [1..(l - 1) -> 1..l]
      BY <1>2
    <2> QED  BY <2>1
  <1>6. /\ \A j \in 1..(l - 1) : m[j] # 1 /\ t[j].num = q[m[j]].num
        /\ \A i, j \in 1..(l - 1) : m[i] = m[j] => i = j
    BY <1>3, <1>5
  <1>7. 1 \in DOMAIN q /\ Picks(m, t, q) /\ \A j \in DOMAIN t : m[j] # 1
    BY <1>2, <1>3, <1>6 DEF Picks
  <1>8. ASSUME queue' = t, count' = [count EXCEPT ![e.num] = @ + 1],
               completed' = completed \cup {e.num}
        PROVE  Asked(queue', count', a) /\ Counted'
    <2>1. Asked(t, [count EXCEPT ![e.num] = @ + 1], a)
      <3>1. PICK b \in Blocks, h \in DOMAIN q :
              /\ b = e.num /\ q[h].num = b
              /\ \A j \in DOMAIN t : m[j] # h
        BY <1>1, <1>7
      <3>2. Asked(t, [count EXCEPT ![b] = @ + 1], a)
        BY <1>4, <1>7, <3>1, DeliveredAsked
      <3> QED  BY <3>1, <3>2
    <2>2. Counted'
      BY <1>4, <1>8 DEF Counted
    <2> QED  BY <1>8, <2>1, <2>2
  <1>9. ASSUME queue' = t, UNCHANGED <<completed, count>>
        PROVE  Asked(queue', count', a) /\ Counted'
    <2>1. Asked(t, count, a)
      BY <1>4, <1>7, FewerAsked
    <2> QED  BY <1>9, <2>1 DEF Counted
  <1>10. ASSUME NEW d \in Entry, d.num = e.num, queue' = Append(t, d),
                UNCHANGED <<completed, count>>
         PROVE  Asked(queue', count', a) /\ Counted'
    <2>1. PICK u \in Seq(Entry) : /\ u = Append(t, d) /\ DOMAIN u = 1..l /\ u[l] = d
                                  /\ \A j \in 1..(l - 1) : u[j] = t[j]
      <3>1. /\ Append(t, d) \in Seq(Entry) /\ Len(Append(t, d)) = Len(t) + 1
            /\ Append(t, d)[Len(t) + 1] = d
            /\ \A j \in 1..Len(t) : Append(t, d)[j] = t[j]
        BY AppendProperties
      <3>2. Len(t) + 1 = l /\ Len(t) = l - 1
        BY <1>2, <1>3
      <3> QED  BY <3>1, <3>2, LenProperties
    <2>2. PICK w \in [1..l -> 1..l] : /\ w[l] = 1
                                      /\ \A j \in 1..(l - 1) : w[j] = j + 1
      <3>1. [j \in 1..l |-> IF j = l THEN 1 ELSE j + 1] \in [1..l -> 1..l]
        BY <1>2
      <3>2. l \in 1..l /\ \A j \in 1..(l - 1) : j \in 1..l /\ j # l
        BY <1>2
      <3> QED  BY <3>1, <3>2
    <2>3. \A j \in 1..l : j = l \/ j \in 1..(l - 1)
      BY <1>2
    <2>4. \A j \in 1..l : u[j].num = q[w[j]].num
      <3>1. u[l].num = q[w[l]].num
        BY <1>1, <1>10, <2>1, <2>2
      <3>2. \A j \in 1..(l - 1) : u[j].num = q[w[j]].num
        BY <1>3, <2>1, <2>2
      <3> QED  BY <2>3, <3>1, <3>2
    <2>5. \A i, j \in 1..l : w[i] = w[j] => i = j
      <3>1. \A j \in 1..(l - 1) : w[j] # w[l]
        BY <2>2
      <3>2. \A i, j \in 1..(l - 1) : w[i] = w[j] => i = j
        BY <2>2
      <3> QED  BY <2>3, <3>1, <3>2
    <2>6. Asked(u, count, a)
      <3>1. Picks(w, u, q)
        BY <1>2, <2>1, <2>2, <2>4, <2>5 DEF Picks
      <3> QED  BY <1>4, <3>1, FewerAsked
    <2> QED  BY <1>10, <2>1, <2>6 DEF Counted
  <1>11. [e EXCEPT !.reg = TRUE] \in Entry /\ [e EXCEPT !.reg = TRUE].num = e.num
    BY DEF Entry
  <1>12. \/ /\ queue' = t /\ count' = [count EXCEPT ![e.num] = @ + 1]
            /\ completed' = completed \cup {e.num}
         \/ queue' = t /\ UNCHANGED <<completed, count>>
         \/ queue' = Append(t, [e EXCEPT !.reg = TRUE]) /\ UNCHANGED <<completed, count>>
    BY <1>1, <1>3 DEF Handle, Polled
  <1> QED  BY <1>8, <1>9, <1>10, <1>11, <1>12

(* The blocks that a batch request asks for. *)
LEMMA FuturesNums ==
    ASSUME NEW n \in Nat, NEW nums \in [1..n -> Blocks], NEW futs \in Futures(nums)
    PROVE  \A k \in 1..n : futs[k].num = nums[k]
  <1>1. DOMAIN nums = 1..n
    OBVIOUS
  <1>2. PICK st \in [1..n -> Results \cup {"waiting"}] :
          futs = [k \in 1..n |-> [num |-> nums[k], st |-> st[k],
                                  reg |-> FALSE, old |-> FALSE]]
    BY <1>1 DEF Futures
  <1> QED  BY <1>2

(* A batch of g blocks after the block a, and a itself again. *)
LEMMA BatchAsked ==
    ASSUME NEW q \in Seq(Entry), NEW c \in [Blocks -> Nat], NEW a \in Int, Asked(q, c, a),
           NEW g \in Nat, g >= 1, NEW futs \in Seq(Entry), Len(futs) = g + 1,
           \A k \in 1..(g + 1) : futs[k].num = a + k - 1
    PROVE  Asked(q \o futs, c, a + g)
  <1>1. PICK l \in Nat : l = Len(q) /\ DOMAIN q = 1..l
    BY LenProperties
  <1>2. PICK t \in Seq(Entry) :
          /\ t = q \o futs /\ Len(t) = l + (g + 1)
          /\ \A j \in 1..(l + (g + 1)) : t[j] = IF j <= l THEN q[j] ELSE futs[j - l]
    <2>1. /\ q \o futs \in Seq(Entry) /\ Len(q \o futs) = Len(q) + Len(futs)
          /\ \A j \in 1..(Len(q) + Len(futs)) :
               (q \o futs)[j] = IF j <= Len(q) THEN q[j] ELSE futs[j - Len(q)]
      BY ConcatProperties
    <2> QED  BY <1>1, <2>1
  <1>3. DOMAIN t = 1..(l + (g + 1))
    BY <1>2, LenProperties
  <1>4. ASSUME NEW j \in DOMAIN t
        PROVE  \/ j \in DOMAIN q /\ t[j] = q[j]
               \/ /\ t[j].num = a + (j - l) - 1
                  /\ j - l \in 1..(g + 1)
    <2>1. CASE j <= l
      BY <1>1, <1>2, <1>3, <2>1
    <2>2. CASE ~(j <= l)
      <3>1. j - l \in 1..(g + 1) /\ t[j] = futs[j - l]
        BY <1>2, <1>3, <2>2
      <3> QED  BY <3>1
    <2> QED  BY <2>1, <2>2
  <1>5. \A n \in Blocks : n \in Int
    BY BlockStreamAssumption DEF Blocks
  <1>6. ASSUME NEW n \in Blocks, NEW i \in At(t, n)
        PROVE  \/ i \in At(q, n)
               \/ i = l + (n - a) + 1 /\ n >= a /\ n <= a + g
    <2>1. i \in DOMAIN t /\ t[i].num = n
      BY <1>6 DEF At
    <2>2. CASE i \in DOMAIN q /\ t[i] = q[i]
      BY <2>1, <2>2 DEF At
    <2>3. CASE t[i].num = a + (i - l) - 1 /\ i - l \in 1..(g + 1)
      <3>1. PICK k \in 1..(g + 1) : k = i - l
        BY <2>3
      <3>2. i \in Int /\ n \in Int
        BY <1>3, <1>5, <2>1
      <3>3. n = a + k - 1 /\ i = l + k
        BY <2>1, <2>3, <3>1, <3>2
      <3>4. k = (n - a) + 1 /\ n >= a /\ n <= a + g
        BY <3>2, <3>3
      <3> QED  BY <3>2, <3>3, <3>4
    <2> QED  BY <1>4, <2>1, <2>2, <2>3
  <1> SUFFICES ASSUME NEW n \in Blocks
               PROVE  /\ Twice(t, c, n)
                      /\ n >= a + g => Once(t, c, n)
                      /\ n > a + g => Never(t, c, n)
    BY <1>2 DEF Asked
  <1>7. /\ Twice(q, c, n)
        /\ n >= a => Once(q, c, n)
        /\ n > a => Never(q, c, n)
    BY DEF Asked
  <1>8. n \in Int /\ c[n] \in Nat
    BY <1>5
  <1>9. CASE n < a
    <2>1. At(t, n) \subseteq At(q, n)
      BY <1>6, <1>8, <1>9
    <2>2. Twice(t, c, n)
      BY <1>7, <2>1 DEF Twice
    <2> QED  BY <1>8, <1>9, <2>2
  <1>10. CASE n = a
    <2>1. Once(q, c, n)
      BY <1>7, <1>8, <1>10
    <2>2. PICK z : \A i \in At(t, n) : i \in At(q, n) \/ i = z
      <3>1. \A i \in At(t, n) : i \in At(q, n) \/ i = l + (n - a) + 1
        BY <1>6
      <3> QED  BY <3>1
    <2>3. Twice(t, c, n)
      <3>1. CASE c[n] = 1
        <4>1. At(q, n) = {}
          BY <2>1, <3>1 DEF Once
        <4>2. \A i, j \in At(t, n) : i = j
          BY <2>2, <4>1
        <4> QED  BY <3>1, <4>2 DEF Twice
      <3>2. CASE c[n] = 0
        <4>1. \A i, j, k \in At(t, n) : i = j \/ j = k \/ i = k
          BY <2>1, <2>2 DEF Once
        <4> QED  BY <3>2, <4>1 DEF Twice
      <3> QED  BY <1>8, <2>1, <3>1, <3>2 DEF Once
    <2> QED  BY <1>8, <1>10, <2>3
  <1>11. CASE n > a
    <2>1. c[n] = 0 /\ At(q, n) = {}
      BY <1>7, <1>11 DEF Never
    <2>2. \A i, j \in At(t, n) : i = j
      BY <1>6, <2>1
    <2>3. n > a + g => At(t, n) = {}
      BY <1>6, <1>8, <2>1
    <2>4. Twice(t, c, n) /\ Once(t, c, n)
      BY <2>1, <2>2 DEF Twice, Once
    <2>5. n > a + g => Never(t, c, n)
      BY <2>1, <2>3 DEF Never
    <2> QED  BY <2>4, <2>5
  <1> QED  BY <1>8, <1>9, <1>10, <1>11

(* The final round asks once for what was not delivered. *)
LEMMA RoundAsked ==
    ASSUME TypeOK, Counted, NEW a \in Int, Asked(<<>>, count, a),
           NEW nums \in Ascending(missing_blocks), NEW futs \in Futures(nums)
    PROVE  a >= To => Asked(futs, count, a)
  <1>1. PICK l \in 0..(To - From + 1) :
          /\ nums \in [1..l -> missing_blocks]
          /\ \A i, j \in 1..l : i < j => nums[i] < nums[j]
    BY DEF Ascending
  <1>2. l \in Nat /\ nums \in [1..l -> Blocks]
    BY <1>1, BlockStreamAssumption DEF missing_blocks, Blocks
  <1>3. DOMAIN futs = 1..l /\ \A k \in 1..l : futs[k].num = nums[k]
    <2>1. futs \in Seq(Entry) /\ Len(futs) = l
      BY <1>2, FuturesType
    <2> QED  BY <1>2, <2>1, FuturesNums, LenProperties
  <1>4. \A b \in Blocks : b \in Int /\ b <= To
    BY BlockStreamAssumption DEF Blocks
  <1>5. ASSUME NEW i \in 1..l, NEW j \in 1..l, nums[i] = nums[j] PROVE i = j
    <2>1. nums[i] \in Int /\ ~(nums[i] < nums[j]) /\ ~(nums[j] < nums[i])
      BY <1>2, <1>4, <1>5
    <2>2. ~(i < j) /\ ~(j < i)
      BY <1>1, <2>1
    <2> QED  BY <1>2, <2>2
  <1> SUFFICES ASSUME a >= To, NEW n \in Blocks
               PROVE  /\ Twice(futs, count, n)
                      /\ n >= a => Once(futs, count, n)
                      /\ n > a => Never(futs, count, n)
    BY DEF Asked
  <1>6. ~(n > a)
    BY <1>4, BlockStreamAssumption
  <1>7. Twice(<<>>, count, n) /\ (n >= a => Once(<<>>, count, n))
    BY DEF Asked
  <1>8. CASE n \in missing_blocks
    <2>1. count[n] = 0
      BY <1>8 DEF Counted, missing_blocks, TypeOK
    <2>2. \A i, j \in At(futs, n) : i = j
      BY <1>3, <1>5 DEF At
    <2> QED  BY <1>6, <2>1, <2>2 DEF Twice, Once
  <1>9. CASE n \notin missing_blocks
    <2>1. At(futs, n) = {}
      BY <1>1, <1>3, <1>9 DEF At
    <2> QED  BY <1>6, <1>7, <2>1 DEF Twice, Once
  <1> QED  BY <1>8, <1>9

(* The inductive invariant of the deliveries. *)
Delivered == Counted /\ Asked(queue, count, from)

LEMMA InitDelivered == Init => Delivered
  <1> SUFFICES ASSUME Init PROVE Delivered
    OBVIOUS
  <1>1. queue = <<>> /\ \A n \in Blocks : count[n] = 0
    BY DEF Init
  <1>2. \A n : At(queue, n) = {}
    BY <1>1 DEF At
  <1> QED  BY <1>1, <1>2 DEF Delivered, Counted, Asked, Twice, Once, Never

(* With a capacity of 3 or more each refill goes on to a new block. *)
LEMMA RefillDelivered ==
    ASSUME queue_capacity >= 3, IInv, Delivered, PollRefill
    PROVE  Delivered'
  <1>1. queue \in Seq(Entry) /\ Len(queue) \in Nat /\ Len(queue) <= half_capacity
    BY DEF IInv, TypeOK, PollRefill
  <1>2. from \in Int /\ From <= from /\ from < To /\ count \in [Blocks -> Nat]
    BY BlockStreamAssumption DEF IInv, TypeOK, Blocks, PollRefill
  <1>3. remaining_capacity \in Nat /\ remaining_capacity >= 1
    BY <1>1, Capacity DEF remaining_capacity, half_capacity
  <1>4. PICK g \in Nat : g = get_this_many /\ g >= 1 /\ g <= To - from
    <2>1. get_this_many \in Nat /\ get_this_many >= 1 /\ get_this_many <= To - from
      BY <1>2, <1>3, BlockStreamAssumption DEF get_this_many
    <2> QED  BY <2>1
  <1>5. PICK futs \in get_block_range(from, from + g) : Handle(queue \o futs)
    BY <1>4 DEF PollRefill
  <1>6. from \in Blocks /\ from + g \in Blocks /\ from <= from + g
    BY <1>2, <1>4, BlockStreamAssumption DEF Blocks
  <1>7. futs \in Seq(Entry) /\ Len(futs) = g + 1
    <2>1. futs \in Seq(Entry) /\ Len(futs) = (from + g) - from + 1
      BY <1>5, <1>6, RangeType
    <2> QED  BY <1>2, <2>1
  <1>8. \A k \in 1..(g + 1) : futs[k].num = from + k - 1
    <2> DEFINE nums == [k \in 1..((from + g) - from + 1) |-> from + k - 1]
    <2>1. nums \in [1..(g + 1) -> Blocks] /\ \A k \in 1..(g + 1) : nums[k] = from + k - 1
      BY <1>2, <1>4, BlockStreamAssumption DEF Blocks
    <2>2. futs \in Futures(nums)
      BY <1>5 DEF get_block_range
    <2> HIDE DEF nums
    <2>3. \A k \in 1..(g + 1) : futs[k].num = nums[k]
      BY <2>1, <2>2, FuturesNums
    <2> QED  BY <2>1, <2>3
  <1>9. Asked(queue \o futs, count, from + g)
    <2>1. Asked(queue, count, from)
      BY DEF Delivered
    <2> QED  BY <1>1, <1>2, <1>4, <1>7, <1>8, <2>1, BatchAsked
  <1>10. queue \o futs \in Seq(Entry) /\ queue \o futs # <<>>
    <2>1. queue \o futs \in Seq(Entry) /\ Len(queue \o futs) = Len(queue) + Len(futs)
      BY <1>1, <1>7, ConcatProperties
    <2>2. Len(queue \o futs) # 0
      BY <1>1, <1>7, <2>1
    <2> QED  BY <2>1, <2>2, EmptySeq
  <1>11. PICK a \in Int : a = from + g /\ a = from'
    BY <1>2, <1>4 DEF PollRefill
  <1>12. Asked(queue', count', a) /\ Counted'
    BY <1>5, <1>9, <1>10, <1>11, HandleAsked DEF IInv, Delivered
  <1>13. Asked(queue', count', from')
    BY <1>11, <1>12
  <1> QED  BY <1>12, <1>13 DEF Delivered

LEMMA RetryDelivered ==
    ASSUME IInv, Delivered, PollRetry
    PROVE  Delivered'
  <1>1. PICK nums \in Ascending(missing_blocks) : \E futs \in Futures(nums) : Handle(futs)
    BY DEF PollRetry
  <1>2. PICK futs \in Futures(nums) : Handle(futs)
    BY <1>1
  <1>3. PICK a \in Int : a = from /\ a = from' /\ a = To
    BY BlockStreamAssumption DEF PollRetry
  <1>4. Asked(<<>>, count, a) /\ Counted /\ TypeOK
    BY <1>3 DEF Delivered, PollRetry, IInv
  <1>5. Asked(futs, count, a)
    BY <1>1, <1>2, <1>3, <1>4, RoundAsked
  <1>6. futs \in Seq(Entry) /\ futs # <<>>
    <2>1. PICK n \in 0..(To - From + 1) :
            /\ nums \in [1..n -> missing_blocks]
            /\ \A b \in missing_blocks : \E i \in 1..n : nums[i] = b
      BY <1>1 DEF Ascending
    <2>2. n \in Nat /\ n # 0 /\ nums \in [1..n -> Blocks]
      BY <2>1, BlockStreamAssumption DEF PollRetry, missing_blocks, Blocks
    <2>3. futs \in Seq(Entry) /\ Len(futs) = n
      BY <1>2, <2>2, FuturesType
    <2> QED  BY <2>2, <2>3
  <1>7. Asked(queue', count', a) /\ Counted'
    BY <1>2, <1>4, <1>5, <1>6, HandleAsked
  <1>8. Asked(queue', count', from')
    BY <1>3, <1>7
  <1> QED  BY <1>7, <1>8 DEF Delivered

LEMMA DrainDelivered ==
    ASSUME IInv, Delivered, PollDrain
    PROVE  Delivered'
  <1>1. queue \in Seq(Entry) /\ Len(queue) \in Nat
    BY DEF IInv, TypeOK
  <1>2. queue # <<>>
    BY <1>1, Capacity DEF PollDrain
  <1>3. PICK a \in Int : a = from /\ a = from'
    BY BlockStreamAssumption DEF IInv, TypeOK, Blocks, PollDrain
  <1>4. Asked(queue, count, a) /\ Counted /\ TypeOK /\ Handle(queue)
    BY <1>3 DEF Delivered, PollDrain, IInv
  <1>5. Asked(queue', count', a) /\ Counted'
    BY <1>1, <1>2, <1>4, HandleAsked
  <1>6. Asked(queue', count', from')
    BY <1>3, <1>5
  <1> QED  BY <1>5, <1>6 DEF Delivered

(* The other steps do not touch what a future is for. *)
LEMMA OthersDelivered ==
    ASSUME IInv, Delivered,
           PollEnd \/ Wake \/ UNCHANGED vars \/ \E k \in DOMAIN queue : Respond(k) \/ Age(k)
    PROVE  Delivered'
  <1>1. UNCHANGED <<from, completed, count>>
    BY DEF PollEnd, Wake, vars, Respond, Age
  <1>2. DOMAIN queue' = DOMAIN queue /\ \A j \in DOMAIN queue : queue'[j].num = queue[j].num
    <2>1. CASE UNCHANGED queue
      BY <2>1
    <2>2. ASSUME NEW k \in DOMAIN queue, NEW e, e.num = queue[k].num,
                 queue' = [queue EXCEPT ![k] = e]
          PROVE  /\ DOMAIN queue' = DOMAIN queue
                 /\ \A j \in DOMAIN queue : queue'[j].num = queue[j].num
      BY <2>2
    <2>3. \A k \in DOMAIN queue : queue[k] \in Entry
      BY DEF IInv, TypeOK
    <2>4. ASSUME NEW k \in DOMAIN queue, Respond(k)
          PROVE  \E e : e.num = queue[k].num /\ queue' = [queue EXCEPT ![k] = e]
      <3>1. PICK r \in Results : queue' = [queue EXCEPT ![k].st = r]
        BY <2>4 DEF Respond
      <3>2. [queue[k] EXCEPT !.st = r].num = queue[k].num
        BY <2>3 DEF Entry
      <3> QED  BY <3>1, <3>2
    <2>5. ASSUME NEW k \in DOMAIN queue, Age(k)
          PROVE  \E e : e.num = queue[k].num /\ queue' = [queue EXCEPT ![k] = e]
      <3>1. queue' = [queue EXCEPT ![k].old = TRUE]
        BY <2>5 DEF Age
      <3>2. [queue[k] EXCEPT !.old = TRUE].num = queue[k].num
        BY <2>3 DEF Entry
      <3> QED  BY <3>1, <3>2
    <2>6. UNCHANGED queue \/ \E k \in DOMAIN queue : Respond(k) \/ Age(k)
      BY DEF PollEnd, Wake, vars
    <2> QED  BY <2>1, <2>2, <2>4, <2>5, <2>6
  <1>3. \A n : At(queue', n) = At(queue, n)
    BY <1>2 DEF At
  <1>4. Asked(queue', count', from')
    BY <1>1, <1>3 DEF Delivered, Asked, Twice, Once, Never
  <1>5. Counted'
    BY <1>1 DEF Delivered, Counted
  <1> QED  BY <1>4, <1>5 DEF Delivered

(* BlockStream::poll delivers no block more than twice, when the queue has *)
(* room for three or more. *)
THEOREM DeliveredTwice == queue_capacity >= 3 => (Spec => []AtMostTwice)
  <1> SUFFICES ASSUME queue_capacity >= 3 PROVE Spec => []AtMostTwice
    OBVIOUS
  <1>1. IInv /\ Delivered /\ [Next]_vars => Delivered'
    BY RefillDelivered, RetryDelivered, DrainDelivered, OthersDelivered DEF Next, Poll
  <1>2. Delivered => AtMostTwice
    BY DEF Delivered, Asked, Twice, AtMostTwice
  <1> QED  BY <1>1, <1>2, InitDelivered, Invariant, PTL DEF Spec

=============================================================================
