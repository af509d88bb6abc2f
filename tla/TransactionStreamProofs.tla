---------------------- MODULE TransactionStreamProofs -----------------------
(***************************************************************************)
(* Theorems about TransactionStream, for every list, capacity and kind of  *)
(* answer.                                                                 *)
(*                                                                         *)
(* OnePlace counts places; it is inductive once it is known which places   *)
(* those are.  What is left of the list is its end (Suffix), so that one   *)
(* number, asked, parts what was asked for from what was not; and exactly  *)
(* the transactions up to it that are in the queue, once each, have not    *)
(* met their fate (Placed).                                                *)
(***************************************************************************)
EXTENDS TransactionStream, SequenceTheorems, TLAPS

(* How many transactions were asked for. *)
asked == Total - Len(tx_list)

(* What is left of the list is its end. *)
Suffix ==
    /\ Len(tx_list) <= Total
    /\ \A j \in DOMAIN tx_list : tx_list[j] = asked + j

(* When a transactions were asked for and q is the queue, f says what has  *)
(* become of each. *)
Placed(q, a, f) ==
    /\ \A j \in DOMAIN q : q[j].tx <= a
    /\ \A j, k \in DOMAIN q : q[j].tx = q[k].tx => j = k
    /\ \A n \in Txns : f[n] = "open" <=> (n > a \/ \E j \in DOMAIN q : q[j].tx = n)

(* The inductive invariant. *)
IInv == TypeOK /\ Suffix /\ Placed(queue, asked, fate)

Fates == {"open", "delivered", "empty", "failed", "late"}

-----------------------------------------------------------------------------
(* The operators *)

(* The capacities are natural numbers, and there is room for a request. *)
LEMMA Capacity == /\ queue_capacity \in Nat /\ queue_capacity >= 2
                  /\ half_capacity \in Nat /\ half_capacity < queue_capacity
  <1>1. queue_capacity \in Nat /\ queue_capacity >= 2
    BY TransactionStreamAssumption DEF queue_capacity
  <1> QED  BY <1>1 DEF half_capacity

(* What a sequence of futures looks like at each place. *)
LEMMA EntryType ==
    ASSUME NEW q \in Seq(Entry)
    PROVE  /\ Len(q) \in Nat /\ DOMAIN q = 1..Len(q)
           /\ \A j \in DOMAIN q : j \in Nat /\ j >= 1 /\ q[j] \in Entry
           /\ \A j \in DOMAIN q : q[j].tx \in Txns /\ q[j].tx \in Int
  <1>1. Len(q) \in Nat /\ DOMAIN q = 1..Len(q) /\ \A j \in DOMAIN q : q[j] \in Entry
    BY LenProperties
  <1>2. \A e \in Entry : e.tx \in Txns /\ e.tx \in Int
    BY DEF Entry, Txns
  <1> QED  BY <1>1, <1>2

(* The first future and the others. *)
LEMMA Parts ==
    ASSUME NEW q \in Seq(Entry), q # <<>>
    PROVE  /\ Head(q) \in Entry /\ Head(q) = q[1]
           /\ 1 \in DOMAIN q
           /\ Tail(q) \in Seq(Entry) /\ Len(Tail(q)) = Len(q) - 1
           /\ DOMAIN Tail(q) = 1..(Len(q) - 1)
           /\ \A j \in 1..(Len(q) - 1) : Tail(q)[j] = q[j + 1]
  <1>1. Len(q) \in Nat \ {0} /\ DOMAIN q = 1..Len(q)
    BY EmptySeq, LenProperties
  <1>2. /\ Head(q) \in Entry /\ Tail(q) \in Seq(Entry)
        /\ Len(Tail(q)) = Len(q) - 1
        /\ \A j \in 1..Len(Tail(q)) : Tail(q)[j] = q[j + 1]
    BY HeadTailProperties
  <1>3. Head(q) = q[1]
    BY <1>1
  <1>4. DOMAIN Tail(q) = 1..(Len(q) - 1)
    BY <1>2, LenProperties
  <1> QED  BY <1>1, <1>2, <1>3, <1>4

(* The places after the first, and those before the last. *)
LEMMA Positions ==
    ASSUME NEW l \in Nat, l >= 1
    PROVE  /\ \A j \in 1..(l - 1) : j + 1 \in 1..l /\ j + 1 # 1
           /\ 1 \in 1..l /\ l \in 1..l
           /\ \A j \in 1..l : j \in 1..(l - 1) \/ j = l
           /\ \A j \in 1..l : j # 1 => j - 1 \in 1..(l - 1) /\ (j - 1) + 1 = j
  OBVIOUS

(* The first future is taken away, and its transaction has met its fate. *)
LEMMA TakenPlaced ==
    ASSUME NEW q \in Seq(Entry), q # <<>>, NEW a \in Nat, NEW f \in [Txns -> Fates],
           Placed(q, a, f), NEW z \in Fates \ {"open"}
    PROVE  Placed(Tail(q), a, [f EXCEPT ![Head(q).tx] = z])
  <1> DEFINE t == Tail(q)
             g == [f EXCEPT ![Head(q).tx] = z]
             l == Len(q)
  <1>1. /\ l \in Nat /\ l >= 1 /\ DOMAIN q = 1..l /\ DOMAIN t = 1..(l - 1)
        /\ \A j \in 1..(l - 1) : t[j] = q[j + 1]
        /\ Head(q) = q[1]
    BY Parts, EntryType
  <1>2. \A j \in 1..l : q[j].tx \in Txns /\ q[j].tx \in Int
    BY <1>1, EntryType
  <1>3. \A j \in 1..(l - 1) : j + 1 \in 1..l /\ j \in Int
    BY <1>1
  <1>4. /\ g[q[1].tx] = z
        /\ \A n \in Txns : n # q[1].tx => g[n] = f[n]
    BY <1>1, <1>2
  <1>5. 1 \in 1..l
    BY <1>1
  <1> HIDE DEF t, g, l
  <1>6. \A j \in DOMAIN t : t[j].tx <= a
    BY <1>1, <1>3 DEF Placed
  <1>7. ASSUME NEW j \in DOMAIN t, NEW k \in DOMAIN t, t[j].tx = t[k].tx PROVE j = k
    <2>1. q[j + 1].tx = q[k + 1].tx /\ j + 1 \in DOMAIN q /\ k + 1 \in DOMAIN q
      BY <1>1, <1>3, <1>7
    <2>2. j + 1 = k + 1
      BY <2>1 DEF Placed
    <2> QED  BY <1>1, <1>3, <2>2
  <1>8. ASSUME NEW n \in Txns
        PROVE  g[n] = "open" <=> (n > a \/ \E j \in DOMAIN t : t[j].tx = n)
    <2>1. CASE n = q[1].tx
      <3>1. g[n] # "open"
        BY <1>4, <2>1
      <3>2. ~(n > a)
        BY <1>1, <1>2, <1>5, <2>1 DEF Placed, Txns
      <3>3. ASSUME NEW j \in DOMAIN t, t[j].tx = n PROVE FALSE
        <4>1. q[j + 1].tx = q[1].tx /\ j + 1 \in DOMAIN q /\ 1 \in DOMAIN q
          BY <1>1, <1>3, <1>5, <2>1, <3>3
        <4>2. j + 1 = 1
          BY <4>1 DEF Placed
        <4> QED  BY <1>1, <3>3, <4>2
      <3> QED  BY <3>1, <3>2, <3>3
    <2>2. CASE n # q[1].tx
      <3>1. g[n] = "open" <=> (n > a \/ \E j \in DOMAIN q : q[j].tx = n)
        BY <1>4, <2>2 DEF Placed
      <3>2. ASSUME NEW j \in DOMAIN q, q[j].tx = n PROVE \E k \in DOMAIN t : t[k].tx = n
        <4>1. j # 1 /\ j \in 1..l
          BY <1>1, <2>2, <3>2
        <4>2. j - 1 \in 1..(l - 1) /\ (j - 1) + 1 = j
          BY <1>1, <4>1
        <4>3. t[j - 1] = q[j]
          BY <1>1, <4>2
        <4> QED  BY <1>1, <3>2, <4>2, <4>3
      <3>3. ASSUME NEW j \in DOMAIN t, t[j].tx = n PROVE \E k \in DOMAIN q : q[k].tx = n
        BY <1>1, <1>3, <3>3
      <3> QED  BY <3>1, <3>2, <3>3
    <2> QED  BY <2>1, <2>2
  <1>9. Placed(t, a, g)
    BY <1>6, <1>7, <1>8 DEF Placed
  <1> QED  BY <1>9 DEF t, g

(* The first future is put back at the end. *)
LEMMA TurnedPlaced ==
    ASSUME NEW q \in Seq(Entry), q # <<>>, NEW a \in Nat, NEW f \in [Txns -> Fates],
           Placed(q, a, f), NEW e \in Entry, e.tx = Head(q).tx
    PROVE  Placed(Append(Tail(q), e), a, f)
  <1> DEFINE t == Append(Tail(q), e)
             l == Len(q)
  <1>1. /\ l \in Nat /\ l >= 1 /\ DOMAIN q = 1..l
        /\ Tail(q) \in Seq(Entry) /\ Len(Tail(q)) = l - 1
        /\ \A j \in 1..(l - 1) : Tail(q)[j] = q[j + 1]
        /\ e.tx = q[1].tx
    BY Parts, EntryType
  <1>2. /\ Len(t) = l /\ t \in Seq(Entry)
        /\ \A j \in 1..(l - 1) : t[j] = Tail(q)[j]
        /\ t[l] = e
    <2>1. /\ Len(t) = Len(Tail(q)) + 1 /\ t \in Seq(Entry)
          /\ \A j \in 1..Len(Tail(q)) : t[j] = Tail(q)[j]
          /\ t[Len(Tail(q)) + 1] = e
      BY <1>1, AppendProperties
    <2>2. (l - 1) + 1 = l
      BY <1>1
    <2> QED  BY <1>1, <2>1, <2>2
  <1>3. DOMAIN t = 1..l
    BY <1>2, LenProperties
  <1>4. /\ \A j \in 1..(l - 1) : t[j].tx = q[j + 1].tx /\ j + 1 \in 1..l /\ j + 1 # 1
        /\ t[l].tx = q[1].tx /\ 1 \in 1..l /\ l \in 1..l
        /\ \A j \in 1..l : j \in 1..(l - 1) \/ j = l
        /\ \A j \in 1..l : j # 1 => j - 1 \in 1..(l - 1) /\ (j - 1) + 1 = j
    <2>1. /\ \A j \in 1..(l - 1) : j + 1 \in 1..l /\ j + 1 # 1
          /\ 1 \in 1..l /\ l \in 1..l
          /\ \A j \in 1..l : j \in 1..(l - 1) \/ j = l
          /\ \A j \in 1..l : j # 1 => j - 1 \in 1..(l - 1) /\ (j - 1) + 1 = j
      BY <1>1, Positions
    <2>2. \A j \in 1..(l - 1) : t[j].tx = q[j + 1].tx
      BY <1>1, <1>2
    <2>3. t[l].tx = q[1].tx
      BY <1>1, <1>2
    <2> QED  BY <2>1, <2>2, <2>3
  <1>0. /\ \A j \in 1..l : q[j].tx <= a
        /\ \A j, k \in 1..l : q[j].tx = q[k].tx => j = k
    BY <1>1 DEF Placed
  <1> HIDE DEF t, l
  <1>5. \A j \in DOMAIN t : t[j].tx <= a
    <2>1. \A j \in 1..l : t[j].tx <= a
      BY <1>0, <1>4
    <2> QED  BY <1>3, <2>1
  <1>6. ASSUME NEW j \in 1..l, NEW k \in 1..l, t[j].tx = t[k].tx PROVE j = k
    <2>1. CASE j \in 1..(l - 1) /\ k \in 1..(l - 1)
      <3>1. j + 1 = k + 1
        BY <1>0, <1>4, <1>6, <2>1
      <3> QED  BY <3>1
    <2>2. CASE j = l /\ k \in 1..(l - 1)
      BY <1>0, <1>4, <1>6, <2>2
    <2>3. CASE j \in 1..(l - 1) /\ k = l
      BY <1>0, <1>4, <1>6, <2>3
    <2> QED  BY <1>4, <2>1, <2>2, <2>3
  <1>7. ASSUME NEW n \in Txns
        PROVE  (\E j \in 1..l : q[j].tx = n) <=> (\E j \in 1..l : t[j].tx = n)
    <2>1. ASSUME NEW j \in 1..l, q[j].tx = n PROVE \E k \in 1..l : t[k].tx = n
      <3>1. CASE j = 1
        BY <1>4, <2>1, <3>1
      <3>2. CASE j # 1
        <4>1. PICK k \in 1..(l - 1) : k + 1 = j
          BY <1>4, <3>2
        <4>2. k \in 1..l
          BY <1>1, <4>1
        <4> QED  BY <1>4, <2>1, <4>1, <4>2
      <3> QED  BY <3>1, <3>2
    <2>2. ASSUME NEW j \in 1..l, t[j].tx = n PROVE \E k \in 1..l : q[k].tx = n
      BY <1>4, <2>2
    <2> QED  BY <2>1, <2>2
  <1>8. Placed(t, a, f)
    BY <1>1, <1>3, <1>5, <1>6, <1>7 DEF Placed
  <1> QED  BY <1>8 DEF t

(* The next m transactions are asked for. *)
LEMMA AskedPlaced ==
    ASSUME NEW q \in Seq(Entry), NEW a \in Nat, NEW f \in [Txns -> Fates], Placed(q, a, f),
           NEW m \in Nat, NEW futs \in Seq(Entry), Len(futs) = m,
           \A k \in 1..m : futs[k].tx = a + k
    PROVE  Placed(q \o futs, a + m, f)
  <1> DEFINE t == q \o futs
             l == Len(q)
  <1>1. l \in Nat /\ DOMAIN q = 1..l /\ \A j \in 1..l : q[j].tx \in Int
    BY EntryType
  <1>2. /\ t \in Seq(Entry) /\ Len(t) = l + m
        /\ \A j \in 1..(l + m) : t[j] = IF j <= l THEN q[j] ELSE futs[j - l]
    BY ConcatProperties
  <1>3. DOMAIN t = 1..(l + m)
    BY <1>2, LenProperties
  <1>4. /\ \A j \in 1..l : j \in 1..(l + m) /\ j <= l
        /\ \A k \in 1..m : k + l \in 1..(l + m) /\ ~(k + l <= l) /\ (k + l) - l = k
        /\ \A j \in 1..(l + m) : j \in 1..l \/ j - l \in 1..m
        /\ \A j \in 1..(l + m) : j \in Int /\ (j - l) + l = j
    BY <1>1
  <1>5. /\ \A j \in 1..l : t[j].tx = q[j].tx
        /\ \A k \in 1..m : t[k + l].tx = a + k
    BY <1>2, <1>4
  <1>0. /\ \A j \in 1..l : q[j].tx <= a
        /\ \A j, k \in 1..l : q[j].tx = q[k].tx => j = k
        /\ \A n \in Txns : f[n] = "open" <=> (n > a \/ \E j \in 1..l : q[j].tx = n)
    BY <1>1 DEF Placed
  <1> HIDE DEF t, l
  <1>6. /\ \A j \in 1..l : t[j].tx <= a /\ t[j].tx \in Int
        /\ \A k \in 1..m : t[k + l].tx > a /\ t[k + l].tx <= a + m
    <2>1. \A j \in 1..l : t[j].tx <= a /\ t[j].tx \in Int
      BY <1>0, <1>1, <1>5
    <2>2. \A k \in 1..m : a + k > a /\ a + k <= a + m
      OBVIOUS
    <2>3. \A k \in 1..m : t[k + l].tx > a /\ t[k + l].tx <= a + m
      BY <1>5, <2>2
    <2> QED  BY <2>1, <2>3
  <1>7. \A j \in 1..(l + m) : \/ j \in 1..l
                              \/ \E k \in 1..m : j = k + l
    BY <1>4
  <1>8. \A j \in 1..(l + m) : t[j].tx <= a + m
    <2>1. \A j \in 1..l : t[j].tx <= a + m
      BY <1>6
    <2> QED  BY <1>6, <1>7, <2>1
  <1>9. ASSUME NEW i \in 1..(l + m), NEW j \in 1..(l + m), t[i].tx = t[j].tx PROVE i = j
    <2>1. CASE i \in 1..l /\ j \in 1..l
      BY <1>0, <1>5, <1>9, <2>1
    <2>2. ASSUME NEW x \in 1..m, NEW y \in 1..m, i = x + l, j = y + l PROVE i = j
      <3>1. a + x = a + y
        BY <1>5, <1>9, <2>2
      <3> QED  BY <2>2, <3>1
    <2>3. ASSUME i \in 1..l, NEW y \in 1..m, j = y + l PROVE FALSE
      BY <1>6, <1>9, <2>3
    <2>4. ASSUME j \in 1..l, NEW x \in 1..m, i = x + l PROVE FALSE
      BY <1>6, <1>9, <2>4
    <2> QED  BY <1>7, <2>1, <2>2, <2>3, <2>4
  <1>10. ASSUME NEW n \in Txns
         PROVE  (n > a \/ \E j \in 1..l : q[j].tx = n)
                  <=> (n > a + m \/ \E j \in 1..(l + m) : t[j].tx = n)
    <2>1. n \in Int
      BY DEF Txns
    <2>2. CASE n > a + m
      BY <2>1, <2>2
    <2>3. CASE n > a /\ ~(n > a + m)
      <3>1. PICK k \in 1..m : a + k = n
        <4>1. n - a \in 1..m /\ a + (n - a) = n
          BY <2>1, <2>3
        <4> QED  BY <4>1
      <3>2. k + l \in 1..(l + m) /\ t[k + l].tx = n
        BY <1>4, <1>5, <3>1
      <3> QED  BY <2>3, <3>2
    <2>4. CASE ~(n > a)
      <3>1. ASSUME NEW j \in 1..l, q[j].tx = n PROVE \E i \in 1..(l + m) : t[i].tx = n
        BY <1>4, <1>5, <3>1
      <3>2. ASSUME NEW j \in 1..(l + m), t[j].tx = n PROVE \E i \in 1..l : q[i].tx = n
        <4>1. j \in 1..l
          BY <1>6, <1>7, <2>4, <3>2
        <4> QED  BY <1>5, <3>2, <4>1
      <3>3. ~(n > a + m)
        BY <2>1, <2>4
      <3> QED  BY <2>4, <3>1, <3>2, <3>3
    <2> QED  BY <2>2, <2>3, <2>4
  <1>11. Placed(t, a + m, f)
    <2>1. \A n \in Txns : f[n] = "open"
                           <=> (n > a + m \/ \E j \in 1..(l + m) : t[j].tx = n)
      BY <1>0, <1>10
    <2> QED  BY <1>3, <1>8, <1>9, <2>1 DEF Placed
  <1> QED  BY <1>11 DEF t

-----------------------------------------------------------------------------
(* The steps *)

(* What poll does with the first future of the queue q. *)
LEMMA HandleKeeps ==
    ASSUME NEW q \in Seq(Entry), q # <<>>, NEW a \in Nat, fate \in [Txns -> Fates],
           Placed(q, a, fate), Handle(q)
    PROVE  /\ queue' \in Seq(Entry) /\ Len(queue') <= Len(q)
           /\ fate' \in [Txns -> Fates]
           /\ task' \in {"run", "parked", "done", "stopped"}
           /\ Placed(queue', a, fate')
  <1>1. PICK e \in Entry : e = Head(q)
    BY Parts
  <1>2. /\ Tail(q) \in Seq(Entry) /\ Len(Tail(q)) = Len(q) - 1 /\ Len(q) \in Nat
        /\ e.tx \in Txns
    BY Parts, EntryType DEF Entry
  <1>3. task' \in {"run", "parked", "done", "stopped"}
    BY DEF Handle
  <1>4. ASSUME NEW z \in Fates \ {"open"}, fate' = [fate EXCEPT ![e.tx] = z],
               queue' = Tail(q)
        PROVE  /\ queue' \in Seq(Entry) /\ Len(queue') <= Len(q)
               /\ fate' \in [Txns -> Fates]
               /\ Placed(queue', a, fate')
    <2>1. queue' \in Seq(Entry) /\ Len(queue') <= Len(q)
      BY <1>2, <1>4
    <2>2. fate' \in [Txns -> Fates]
      BY <1>2, <1>4
    <2>3. Placed(Tail(q), a, [fate EXCEPT ![e.tx] = z])
      BY <1>1, TakenPlaced
    <2> QED  BY <1>4, <2>1, <2>2, <2>3
  <1>5. ASSUME queue' = Append(Tail(q), [e EXCEPT !.reg = TRUE]), UNCHANGED fate
        PROVE  /\ queue' \in Seq(Entry) /\ Len(queue') <= Len(q)
               /\ fate' \in [Txns -> Fates]
               /\ Placed(queue', a, fate')
    <2>1. PICK d \in Entry : d = [e EXCEPT !.reg = TRUE] /\ d.tx = e.tx
      <3>1. [e EXCEPT !.reg = TRUE] \in Entry /\ [e EXCEPT !.reg = TRUE].tx = e.tx
        BY DEF Entry
      <3> QED  BY <3>1
    <2>2. queue' \in Seq(Entry) /\ Len(queue') = Len(q)
      BY <1>2, <1>5, <2>1, AppendProperties
    <2>3. Placed(Append(Tail(q), d), a, fate)
      BY <1>1, <2>1, TurnedPlaced
    <2> QED  BY <1>2, <1>5, <2>1, <2>2, <2>3
  <1>6. \/ \E z \in Fates \ {"open"} : fate' = [fate EXCEPT ![e.tx] = z] /\ queue' = Tail(q)
        \/ queue' = Append(Tail(q), [e EXCEPT !.reg = TRUE]) /\ UNCHANGED fate
    BY <1>1 DEF Handle, Polled, Fates
  <1> QED  BY <1>3, <1>4, <1>5, <1>6

(* asked is a part of the list. *)
LEMMA AskedType ==
    ASSUME TypeOK, Suffix
    PROVE  asked \in Nat /\ Total = asked + Len(tx_list)
  <1>1. Len(tx_list) \in Nat /\ Total \in Nat /\ Len(tx_list) <= Total
    BY TransactionStreamAssumption DEF TypeOK, Suffix
  <1> QED  BY <1>1 DEF asked

(* The list as it was handed over. *)
LEMMA InitInv == Init => IInv
  <1> SUFFICES ASSUME Init PROVE IInv
    OBVIOUS
  <1>1. Total \in Nat /\ tx_list = [n \in 1..Total |-> n]
    BY TransactionStreamAssumption DEF Init, Txns
  <1>2. tx_list \in Seq(Txns) /\ Len(tx_list) = Total /\ DOMAIN tx_list = 1..Total
    <2>1. tx_list \in [1..Total -> Txns]
      BY <1>1 DEF Txns
    <2> QED  BY <1>1, <2>1
  <1>3. TypeOK
    BY <1>2, Capacity, EmptySeq DEF Init, TypeOK
  <1>4. asked = 0
    BY <1>1, <1>2 DEF asked
  <1>5. Suffix
    BY <1>1, <1>2, <1>4 DEF Suffix
  <1>6. Placed(queue, 0, fate)
    BY <1>1 DEF Init, Placed, Txns
  <1> QED  BY <1>3, <1>4, <1>5, <1>6 DEF IInv

(* Polling what is in the queue. *)
LEMMA DrainInv == IInv /\ PollDrain => IInv'
  <1> SUFFICES ASSUME IInv, PollDrain PROVE IInv'
    OBVIOUS
  <1>1. queue \in Seq(Entry) /\ Len(queue) \in Nat
    BY DEF IInv, TypeOK
  <1>2. queue # <<>>
    BY <1>1, Capacity DEF PollDrain
  <1>3. asked \in Nat /\ UNCHANGED tx_list /\ asked' = asked
    BY TransactionStreamAssumption DEF IInv, TypeOK, Suffix, asked, PollDrain
  <1>4. PICK a \in Nat : a = asked /\ a = asked'
    BY <1>3
  <1>5. /\ queue' \in Seq(Entry) /\ Len(queue') <= Len(queue)
        /\ fate' \in [Txns -> Fates]
        /\ task' \in {"run", "parked", "done", "stopped"}
        /\ Placed(queue', a, fate')
    <2>1. Handle(queue) /\ fate \in [Txns -> Fates] /\ Placed(queue, a, fate)
      BY <1>4 DEF PollDrain, IInv, TypeOK, Fates
    <2> QED  BY <1>1, <1>2, <2>1, HandleKeeps
  <1>6. TypeOK'
    <2>1. Len(queue') \in Nat /\ Len(queue) < queue_capacity
      BY <1>5 DEF IInv, TypeOK
    <2>2. Len(queue') < queue_capacity
      BY <1>1, <1>5, <2>1, Capacity
    <2> QED  BY <1>3, <1>5, <2>2 DEF IInv, TypeOK, Fates, queue_capacity
  <1>7. Suffix'
    BY <1>3 DEF IInv, Suffix
  <1>8. Placed(queue, asked, fate)'
    BY <1>4, <1>5 DEF Placed
  <1> QED  BY <1>6, <1>7, <1>8 DEF IInv

(* The next transactions of the list are asked for, and fit in. *)
LEMMA RefillInv == IInv /\ PollRefill => IInv'
  <1> SUFFICES ASSUME IInv, PollRefill PROVE IInv'
    OBVIOUS
  <1>1. /\ queue \in Seq(Entry) /\ Len(queue) \in Nat /\ Len(queue) < queue_capacity
        /\ tx_list \in Seq(Txns) /\ Len(tx_list) \in Nat /\ Len(tx_list) # 0
        /\ fate \in [Txns -> Fates]
    BY EmptySeq DEF IInv, TypeOK, PollRefill, Fates
  <1>2. PICK m \in Nat : m = get_this_many
    BY <1>1, Capacity DEF get_this_many, remaining_capacity
  <1>3. /\ m <= Len(tx_list) /\ Len(queue) + m < queue_capacity
        /\ Len(queue) = 0 => m # 0
    BY <1>1, <1>2, Capacity DEF get_this_many, remaining_capacity
  <1>4. PICK a \in Nat : a = asked /\ Total = a + Len(tx_list)
    BY AskedType DEF IInv
  <1>5. DOMAIN tx_list = 1..Len(tx_list) /\ \A j \in 1..Len(tx_list) : tx_list[j] = a + j
    BY <1>1, <1>4 DEF IInv, Suffix
  <1>6. PICK s \in Seq(Txns) : /\ s = SubSeq(tx_list, 1, m) /\ Len(s) = m
                               /\ DOMAIN s = 1..m
                               /\ \A j \in 1..m : s[j] = a + j
    <2>1. /\ SubSeq(tx_list, 1, m) \in Seq(Txns) /\ Len(SubSeq(tx_list, 1, m)) = m
          /\ \A j \in 1..m : SubSeq(tx_list, 1, m)[j] = tx_list[j]
      BY <1>1, <1>3
    <2>2. \A j \in 1..m : j \in 1..Len(tx_list)
      BY <1>1, <1>3
    <2> QED  BY <1>5, <2>1, <2>2, LenProperties
  <1>7. PICK futs \in get_transactions(s) : Handle(queue \o futs)
    BY <1>2, <1>6 DEF PollRefill
  <1>8. futs \in Seq(Entry) /\ Len(futs) = m /\ \A k \in 1..m : futs[k].tx = a + k
    <2>1. PICK st \in [1..m -> Results \cup {"waiting"}] :
            futs = [k \in 1..m |-> [tx |-> s[k], st |-> st[k], reg |-> FALSE, old |-> FALSE]]
      BY <1>6, <1>7 DEF get_transactions
    <2>2. \A k \in 1..m : s[k] \in Txns
      BY <1>6
    <2>3. \A k \in 1..m : futs[k] \in Entry /\ futs[k].tx = a + k
      BY <1>6, <2>1, <2>2, TransactionStreamAssumption DEF Entry
    <2>4. futs \in [1..m -> Entry]
      BY <2>1, <2>3
    <2> QED  BY <2>3, <2>4
  <1>9. /\ queue \o futs \in Seq(Entry)
        /\ Len(queue \o futs) = Len(queue) + m
        /\ queue \o futs # <<>>
    <2>1. queue \o futs \in Seq(Entry) /\ Len(queue \o futs) = Len(queue) + Len(futs)
      BY <1>1, <1>8, ConcatProperties
    <2>2. Len(queue \o futs) # 0
      BY <1>1, <1>3, <1>8, <2>1
    <2> QED  BY <1>8, <2>1, <2>2, EmptySeq
  <1>10. Placed(queue \o futs, a + m, fate)
    <2>1. Placed(queue, a, fate)
      BY <1>4 DEF IInv
    <2> QED  BY <1>1, <1>8, <2>1, AskedPlaced
  <1>11. a + m \in Nat
    OBVIOUS
  <1>12. /\ queue' \in Seq(Entry) /\ Len(queue') <= Len(queue \o futs)
         /\ fate' \in [Txns -> Fates]
         /\ task' \in {"run", "parked", "done", "stopped"}
         /\ Placed(queue', a + m, fate')
    BY <1>1, <1>7, <1>9, <1>10, <1>11, HandleKeeps
  <1>13. /\ tx_list' \in Seq(Txns) /\ Len(tx_list') = Len(tx_list) - m
         /\ \A j \in 1..(Len(tx_list) - m) : tx_list'[j] = (a + m) + j
    <2>1. tx_list' = SubSeq(tx_list, m + 1, Len(tx_list))
      BY <1>2 DEF PollRefill, Rest
    <2>2. /\ m + 1 \in Nat /\ Len(tx_list) - m \in Nat
          /\ \A j \in (m + 1)..Len(tx_list) : tx_list[j] \in Txns
      BY <1>1, <1>3
    <2>3. /\ SubSeq(tx_list, m + 1, Len(tx_list)) \in Seq(Txns)
          /\ Len(SubSeq(tx_list, m + 1, Len(tx_list))) = Len(tx_list) - m
          /\ \A j \in 1..(Len(tx_list) - m) :
               SubSeq(tx_list, m + 1, Len(tx_list))[j] = tx_list[m + j]
      BY <1>1, <1>3, <2>2
    <2>4. \A j \in 1..(Len(tx_list) - m) : /\ m + j \in 1..Len(tx_list)
                                           /\ a + (m + j) = (a + m) + j
      BY <1>1, <1>3
    <2> QED  BY <1>5, <2>1, <2>3, <2>4
  <1>14. asked' = a + m /\ Suffix'
    <2>1. asked' = a + m
      BY <1>1, <1>3, <1>4, <1>13 DEF asked
    <2>2. DOMAIN tx_list' = 1..(Len(tx_list) - m)
      BY <1>13, LenProperties
    <2>3. Len(tx_list') <= Total
      BY <1>1, <1>4, <1>13
    <2> QED  BY <1>13, <2>1, <2>2, <2>3 DEF Suffix
  <1>15. TypeOK'
    <2>1. Len(queue') \in Nat
      BY <1>12
    <2>2. Len(queue') < queue_capacity
      BY <1>1, <1>3, <1>9, <1>12, <2>1, Capacity
    <2> QED  BY <1>12, <1>13, <2>2 DEF TypeOK, Fates, queue_capacity
  <1>16. Placed(queue, asked, fate)'
    BY <1>12, <1>14 DEF Placed
  <1> QED  BY <1>14, <1>15, <1>16 DEF IInv

(* A future that is answered, or grows old, stays where it is. *)
LEMMA ChangedInv ==
    ASSUME IInv, NEW k \in DOMAIN queue, NEW e \in Entry, e.tx = queue[k].tx,
           queue' = [queue EXCEPT ![k] = e], UNCHANGED <<tx_list, fate>>,
           task' \in {"run", "parked", "done", "stopped"}
    PROVE  IInv'
  <1>1. queue \in Seq(Entry) /\ k \in 1..Len(queue)
    BY DEF IInv, TypeOK
  <1>2. /\ queue' \in Seq(Entry) /\ Len(queue') = Len(queue)
        /\ DOMAIN queue' = DOMAIN queue
    BY <1>1, ExceptSeq
  <1>3. \A j \in DOMAIN queue : queue'[j].tx = queue[j].tx
    BY <1>1
  <1>4. TypeOK'
    BY <1>2 DEF IInv, TypeOK, queue_capacity
  <1>5. asked' = asked /\ Suffix'
    BY DEF IInv, Suffix, asked
  <1>6. Placed(queue, asked, fate)'
    BY <1>2, <1>3, <1>5 DEF IInv, Placed
  <1> QED  BY <1>4, <1>5, <1>6 DEF IInv

LEMMA NextInv == IInv /\ [Next]_vars => IInv'
  <1> SUFFICES ASSUME IInv, [Next]_vars PROVE IInv'
    OBVIOUS
  <1>1. CASE PollEnd \/ Wake \/ UNCHANGED vars
    BY <1>1 DEF PollEnd, Wake, vars, IInv, TypeOK, Suffix, asked, Placed, queue_capacity
  <1>2. ASSUME NEW k \in DOMAIN queue PROVE queue[k] \in Entry
    BY DEF IInv, TypeOK
  <1>3. ASSUME NEW k \in DOMAIN queue, Respond(k) PROVE IInv'
    <2>1. PICK r \in Results : queue' = [queue EXCEPT ![k].st = r]
      BY <1>3 DEF Respond
    <2>2. PICK e \in Entry : e = [queue[k] EXCEPT !.st = r] /\ e.tx = queue[k].tx
      BY <1>2, TransactionStreamAssumption DEF Entry
    <2>3. /\ UNCHANGED <<tx_list, fate>>
          /\ task' \in {"run", "parked", "done", "stopped"}
      BY <1>3 DEF Respond, IInv, TypeOK
    <2> QED  BY <2>1, <2>2, <2>3, ChangedInv
  <1>4. ASSUME NEW k \in DOMAIN queue, Age(k) PROVE IInv'
    <2>1. PICK e \in Entry : e = [queue[k] EXCEPT !.old = TRUE] /\ e.tx = queue[k].tx
      <3>1. /\ [queue[k] EXCEPT !.old = TRUE] \in Entry
            /\ [queue[k] EXCEPT !.old = TRUE].tx = queue[k].tx
        BY <1>2 DEF Entry
      <3> QED  BY <3>1
    <2>2. /\ queue' = [queue EXCEPT ![k] = e]
          /\ UNCHANGED <<tx_list, fate>>
          /\ task' \in {"run", "parked", "done", "stopped"}
      BY <1>4, <2>1 DEF Age, IInv, TypeOK
    <2> QED  BY <2>1, <2>2, ChangedInv
  <1> QED  BY <1>1, <1>3, <1>4, DrainInv, RefillInv DEF Next, Poll

-----------------------------------------------------------------------------
(* The theorems *)

(* The inductive invariant of TransactionStream::poll. *)
THEOREM Invariant == Spec => []IInv
  BY InitInv, NextInv, PTL DEF Spec

(* Every field of TransactionStream keeps its type, and between two polls  *)
(* the queue has room for one more. *)
THEOREM TypeCorrect == Spec => []TypeOK
  <1>1. IInv => TypeOK
    BY DEF IInv
  <1> QED  BY <1>1, Invariant, PTL

(* A transaction of the list is in one place until poll has delivered it   *)
(* or dropped it, and in none afterwards. *)
THEOREM PlacedOnce == Spec => []OnePlace
  <1>1. ASSUME IInv PROVE OnePlace
    <2>1. PICK a \in Nat : a = asked /\ Total = a + Len(tx_list)
      BY <1>1, AskedType DEF IInv
    <2>2. /\ DOMAIN tx_list = 1..Len(tx_list) /\ Len(tx_list) \in Nat
          /\ \A j \in DOMAIN tx_list : tx_list[j] = a + j
      BY <1>1, <2>1 DEF IInv, TypeOK, Suffix
    <2>3. /\ Placed(queue, a, fate)
          /\ \A j \in DOMAIN queue : queue[j].tx \in Int
      BY <1>1, <2>1, EntryType DEF IInv, TypeOK
    <2> SUFFICES ASSUME NEW n \in Txns
                 PROVE  IF fate[n] = "open" THEN \E p \in Places(n) : Places(n) = {p}
                                            ELSE Places(n) = {}
      BY DEF OnePlace
    <2>4. n \in Int /\ n <= a + Len(tx_list)
      BY <2>1 DEF Txns
    <2>5. CASE n > a
      <3>1. n - a \in DOMAIN tx_list /\ a + (n - a) = n
        BY <2>2, <2>4, <2>5
      <3>2. {j \in DOMAIN tx_list : tx_list[j] = n} = {n - a}
        BY <2>2, <2>4, <3>1
      <3>3. {j \in DOMAIN queue : queue[j].tx = n} = {}
        BY <2>3, <2>4, <2>5 DEF Placed
      <3>4. Places(n) = {<<"list", n - a>>}
        BY <3>2, <3>3 DEF Places
      <3>5. fate[n] = "open"
        BY <2>3, <2>5 DEF Placed
      <3> QED  BY <3>4, <3>5
    <2>6. CASE ~(n > a)
      <3>1. {j \in DOMAIN tx_list : tx_list[j] = n} = {}
        BY <2>2, <2>4, <2>6
      <3>2. CASE fate[n] = "open"
        <4>1. PICK k \in DOMAIN queue : queue[k].tx = n
          BY <2>3, <2>6, <3>2 DEF Placed
        <4>2. {j \in DOMAIN queue : queue[j].tx = n} = {k}
          BY <2>3, <4>1 DEF Placed
        <4>3. Places(n) = {<<"queue", k>>}
          BY <3>1, <4>2 DEF Places
        <4> QED  BY <3>2, <4>3
      <3>3. CASE fate[n] # "open"
        <4>1. {j \in DOMAIN queue : queue[j].tx = n} = {}
          BY <2>3, <3>3 DEF Placed
        <4> QED  BY <3>1, <3>3, <4>1 DEF Places
      <3> QED  BY <3>2, <3>3
    <2> QED  BY <2>5, <2>6
  <1> QED  BY <1>1, Invariant, PTL

=============================================================================
