--------------------------- MODULE FuturesProofs ----------------------------
(***************************************************************************)
(* Theorems about Futures, for batches of every size.                      *)
(*                                                                         *)
(* A sleeping task is registered because of what holds in the middle of a  *)
(* poll: of the futures before the current one, each is joined, or waits   *)
(* for a channel that will wake the task, unless the task has been woken   *)
(* already (Passed).                                                       *)
(***************************************************************************)
EXTENDS Futures, TLAPS

(* Where the states are: taken during a poll, put back between polls, and  *)
(* left behind after the end. *)
Places ==
    /\ at # 0 => batch = "Done" /\ outer = "Complete" /\ outcome = "none"
    /\ at = 0 /\ outcome = "none" => batch # "Done" /\ outer # "Complete"
    /\ outcome # "none" => outer = "Complete"
    /\ outer = "Error" => sort = "error"
    /\ sort = "error" => at = 0 /\ outer # "Waiting"
    /\ outcome # "panic"

(* A future is used up exactly when its value is joined, and a value is    *)
(* joined only from a channel that has brought one. *)
Joined ==
    /\ \A k \in 1..N : fut[k] = "Complete" <=> k \in joined
    /\ \A k \in joined : chan[k] = "value"

(* The futures that this poll, or the last one, has come past. *)
Behind(k) ==
    \/ at # 0 /\ k < at
    \/ at = 0 /\ batch = "Polling"

(* What was polled and is not joined will wake the task, or has. *)
Passed ==
    outcome = "none" =>
      /\ \A k \in 1..N : Behind(k) /\ k \notin joined /\ ~woken
                           => chan[k] = "open" /\ k \in reg
      /\ batch = "Waiting" => woken
      /\ batch = "Polling" => joined # 1..N

(* The inductive invariant. *)
IInv == TypeOK /\ Places /\ Joined /\ Passed /\ OutcomeTrue

-----------------------------------------------------------------------------
(* The steps *)

(* Nothing is polled at first, and the task is awake. *)
LEMMA InitInv == Init => IInv
  BY FuturesAssumption
     DEF Init, IInv, TypeOK, Places, Joined, Passed, Behind, OutcomeTrue, Channel

(* A poll after the end changes nothing. *)
LEMMA CompleteInv == IInv /\ PollComplete => IInv'
  <1> SUFFICES ASSUME IInv, PollComplete PROVE IInv'
    OBVIOUS
  <1>1. outcome # "none"
    BY DEF IInv, Places, PollComplete
  <1> QED
    BY <1>1 DEF PollComplete, IInv, TypeOK, Places, Joined, Passed, Behind, OutcomeTrue

(* A future that was made of an error ends with its first poll. *)
LEMMA ErrorInv == IInv /\ PollError => IInv'
  <1> SUFFICES ASSUME IInv, PollError PROVE IInv'
    OBVIOUS
  <1>1. sort = "error"
    BY DEF IInv, Places, PollError
  <1> QED
    BY <1>1 DEF PollError, IInv, TypeOK, Places, Joined, Passed, OutcomeTrue

(* A poll begins with the states in place, so it does not panic. *)
LEMMA BeginInv == IInv /\ PollBegin => IInv'
  <1> SUFFICES ASSUME IInv, PollBegin PROVE IInv'
    OBVIOUS
  <1>1. outcome = "none" /\ batch # "Done" /\ sort # "error"
    BY DEF IInv, Places, PollBegin
  <1>2. /\ at' = 1 /\ batch' = "Done" /\ outer' = "Complete" /\ woken' = FALSE
        /\ UNCHANGED <<sort, fut, joined, chan, reg, outcome>>
    BY <1>1 DEF PollBegin
  <1>3. TypeOK'
    <2>1. at' \in 0..(N + 1) /\ at' # 0
      BY <1>2, FuturesAssumption
    <2> QED  BY <1>2, <2>1, Zenon DEF IInv, TypeOK
  <1>4. Places' /\ Joined' /\ OutcomeTrue'
    BY <1>1, <1>2 DEF IInv, Places, Joined, OutcomeTrue
  <1>5. Passed'
    BY <1>2 DEF Passed, Behind
  <1> QED  BY <1>3, <1>4, <1>5 DEF IInv

(* One step of join_all. *)
LEMMA NextInv == IInv /\ PollNext => IInv'
  <1> SUFFICES ASSUME IInv, PollNext PROVE IInv'
    OBVIOUS
  <1>1. /\ at \in 1..N /\ N \in Nat
        /\ outcome = "none" /\ batch = "Done" /\ outer = "Complete"
        /\ UNCHANGED <<sort, outer, batch, chan, woken>>
    BY FuturesAssumption DEF IInv, Places, PollNext
  <1>2. /\ fut[at] \in {"Waiting", "Error", "Complete"}
        /\ chan[at] \in Channel
    BY <1>1 DEF IInv, TypeOK
  <1>3. CASE /\ at \in joined
             /\ at' = at + 1
             /\ UNCHANGED <<fut, joined, reg, outcome>>
    BY <1>1, <1>3 DEF IInv, TypeOK, Places, Joined, Passed, Behind, OutcomeTrue
  <1>4. CASE /\ at \notin joined
             /\ PollFuture(at) = "ready"
             /\ fut' = [fut EXCEPT ![at] = "Complete"]
             /\ joined' = joined \cup {at}
             /\ at' = at + 1
             /\ UNCHANGED <<reg, outcome>>
    <2>1. chan[at] = "value"
      BY <1>4 DEF PollFuture
    <2>2. TypeOK' /\ Joined'
      BY <1>1, <1>4, <2>1 DEF IInv, TypeOK, Joined
    <2>3. Places' /\ OutcomeTrue'
      BY <1>1, <1>4 DEF IInv, TypeOK, Places, OutcomeTrue
    <2>4. Passed'
      BY <1>1, <1>4 DEF IInv, TypeOK, Passed, Behind
    <2> QED  BY <2>2, <2>3, <2>4 DEF IInv
  <1>5. CASE /\ at \notin joined
             /\ PollFuture(at) = "pending"
             /\ reg' = reg \cup {at}
             /\ at' = at + 1
             /\ UNCHANGED <<fut, joined, outcome>>
    <2>1. chan[at] = "open"
      BY <1>1, <1>2, <1>5 DEF PollFuture, IInv, Joined, Channel
    <2>2. TypeOK' /\ Joined'
      BY <1>1, <1>5 DEF IInv, TypeOK, Joined
    <2>3. Places' /\ OutcomeTrue'
      BY <1>1, <1>5 DEF IInv, TypeOK, Places, OutcomeTrue
    <2>4. Passed'
      BY <1>1, <1>5, <2>1 DEF IInv, TypeOK, Passed, Behind
    <2> QED  BY <2>2, <2>3, <2>4 DEF IInv
  <1>6. CASE /\ at \notin joined
             /\ PollFuture(at) = "err"
             /\ reg' = {}
             /\ at' = 0
             /\ outcome' = "err"
             /\ UNCHANGED <<fut, joined>>
    <2>1. chan[at] \notin {"open", "value"} \/ fut[at] = "Error"
      BY <1>6 DEF PollFuture
    <2>2. TypeOK' /\ Joined'
      BY <1>1, <1>6 DEF IInv, TypeOK, Joined
    <2>3. Places' /\ OutcomeTrue'
      BY <1>1, <1>6, <2>1 DEF Places, OutcomeTrue
    <2>4. Passed'
      BY <1>6 DEF Passed
    <2> QED  BY <2>2, <2>3, <2>4 DEF IInv
  <1> QED  BY <1>3, <1>4, <1>5, <1>6 DEF PollNext

(* The two ends of a poll. *)
LEMMA EndInv == IInv /\ (PollReady \/ PollPending) => IInv'
  <1> SUFFICES ASSUME IInv, PollReady \/ PollPending PROVE IInv'
    OBVIOUS
  <1>1. at = N + 1 /\ N \in Nat /\ at # 0
    BY FuturesAssumption DEF PollReady, PollPending
  <1>2. CASE PollReady
    BY <1>1, <1>2 DEF PollReady, IInv, TypeOK, Places, Joined, Passed, OutcomeTrue
  <1>3. CASE PollPending
    <2>1. TypeOK' /\ Joined' /\ Places' /\ OutcomeTrue'
      BY <1>1, <1>3 DEF PollPending, IInv, TypeOK, Places, Joined, OutcomeTrue
    <2>2. Passed'
      BY <1>1, <1>3 DEF PollPending, IInv, Passed, Behind
    <2> QED  BY <2>1, <2>2 DEF IInv
  <1> QED  BY <1>2, <1>3

(* An answer that comes during a poll or between two. *)
LEMMA AnswerInv ==
    ASSUME IInv, NEW k \in 1..N, Answer(k)
    PROVE  IInv'
  <1>1. PICK r \in Results : chan' = [chan EXCEPT ![k] = r]
    BY DEF Answer
  <1>2. /\ r \in Channel \ {"open"}
        /\ chan[k] = "open"
        /\ woken' = (woken \/ k \in reg)
        /\ UNCHANGED <<sort, outer, batch, fut, joined, reg, at, outcome>>
    BY FuturesAssumption DEF Answer, Channel
  <1>3. woken' \in BOOLEAN
    BY <1>2, Zenon
  <1>4. TypeOK'
    BY <1>1, <1>2, <1>3 DEF IInv, TypeOK
  <1>5. Places' /\ Joined'
    BY <1>1, <1>2 DEF IInv, TypeOK, Places, Joined
  <1>6. OutcomeTrue'
    BY <1>1, <1>2 DEF IInv, TypeOK, OutcomeTrue, Channel
  <1>7. Passed'
    BY <1>1, <1>2 DEF IInv, TypeOK, Passed, Behind
  <1> QED  BY <1>4, <1>5, <1>6, <1>7 DEF IInv

(* A wake-up. *)
LEMMA WakeInv == IInv /\ Wake => IInv'
  BY DEF Wake, IInv, TypeOK, Places, Joined, Passed, Behind, OutcomeTrue

-----------------------------------------------------------------------------
(* The theorems *)

(* Every step of a poll, and every answer, keeps the invariant. *)
LEMMA StepInv == IInv /\ [Next]_vars => IInv'
  <1> SUFFICES ASSUME IInv, [Next]_vars PROVE IInv'
    OBVIOUS
  <1>1. CASE Poll
    BY <1>1, CompleteInv, ErrorInv, BeginInv, NextInv, EndInv DEF Poll
  <1>2. CASE Wake
    BY <1>2, WakeInv
  <1>3. ASSUME NEW k \in 1..N, Answer(k) PROVE IInv'
    BY <1>3, AnswerInv
  <1>4. CASE UNCHANGED vars
    BY <1>4 DEF vars, IInv, TypeOK, Places, Joined, Passed, Behind, OutcomeTrue
  <1> QED  BY <1>1, <1>2, <1>3, <1>4 DEF Next

(* The inductive invariant of the futures of a batch holds always. *)
THEOREM Invariant == Spec => []IInv
  BY InitInv, StepInv, PTL DEF Spec

(* Every variant and every channel keeps its type. *)
THEOREM TypeCorrect == Spec => []TypeOK
  <1>1. IInv => TypeOK
    BY DEF IInv
  <1> QED  BY Invariant, <1>1, PTL

(* What YumBatchFuture::poll returns is what became of its requests. *)
THEOREM OutcomesTrue == Spec => []OutcomeTrue
  <1>1. IInv => OutcomeTrue
    BY DEF IInv
  <1> QED  BY Invariant, <1>1, PTL

(* A task that sleeps on a batch is registered with each missing request:  *)
(* no answer that races the poll is lost. *)
THEOREM SleepersRegistered == Spec => []SleeperIsRegistered
  <1>1. IInv => SleeperIsRegistered
    BY DEF IInv, TypeOK, Places, Passed, Behind, SleeperIsRegistered
  <1> QED  BY Invariant, <1>1, PTL

(* The outcome of a batch is final and no poll of a YumBatchFutureT        *)
(* reaches the unreachable!() of the batch inside. *)
THEOREM OutcomesStand == Spec => OutcomeStands
  <1>1. IInv /\ [Next]_vars => [outcome # "none" => outcome' = outcome]_vars
    <2> SUFFICES ASSUME IInv, Next, outcome # "none" PROVE outcome' = outcome
      BY DEF vars
    <2>1. at = 0 /\ outer = "Complete"
      BY DEF IInv, Places
    <2> QED  BY <2>1, FuturesAssumption
             DEF IInv, TypeOK, Next, Poll, PollComplete, PollError, PollBegin, PollNext,
                 PollReady, PollPending, Answer, Wake
  <1> QED  BY Invariant, <1>1, PTL DEF Spec, OutcomeStands

=============================================================================
