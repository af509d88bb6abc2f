------------------------------ MODULE Futures -------------------------------
(***************************************************************************)
(* The futures of a batch (src/client/result.rs): a YumBatchFuture joins   *)
(* the YumFutures of its requests, a YumBatchFutureT applies a function to *)
(* what that gives.  Other threads answer the requests while the task is   *)
(* on its way through them.                                                *)
(*                                                                         *)
(* Each poll first takes the future's state away (mem::replace) and puts   *)
(* it back only if it is not ready: Done and Complete are what is left     *)
(* behind by a result, and by the early return of an error.                *)
(***************************************************************************)
EXTENDS Integers

CONSTANTS
    N,          \* the number of requests in the batch
    Results     \* what a channel may bring, see Channel

ASSUME FuturesAssumption ==
    /\ N \in Nat
    /\ Results \subseteq {"value", "undecodable", "failure", "canceled"}

VARIABLES
    sort,       \* a plain "batch" future, a "mapped" one around it, or a
                \* YumBatchFutureT that was made of an "error"
    outer,      \* the variant of the YumBatchFutureT
    batch,      \* the variant of the YumBatchFuture
    fut,        \* fut[k]: the variant of the k-th YumFuture
    joined,     \* the requests whose values join_all has
    chan,       \* chan[k]: the oneshot channel of the k-th request
    reg,        \* the channels that will wake the task
    at,         \* the future that is being polled, 0 between polls
    woken,      \* the task is to poll
    outcome     \* history: what the poll of the future has returned

vars == <<sort, outer, batch, fut, joined, chan, reg, at, woken, outcome>>

(* A channel is open, or has brought a value, one that the request's       *)
(* function cannot decode, an error, or the news that its sender is gone.  *)
Channel == {"open", "value", "undecodable", "failure", "canceled"}

(* The shapes every variable keeps; and the states that a poll takes are   *)
(* back in place when it is over, unless the future has ended. *)
TypeOK ==
    /\ sort \in {"batch", "mapped", "error"}
    /\ outer \in {"Waiting", "Complete", "Error"}
    /\ batch \in {"Waiting", "Polling", "Done"}
    /\ fut \in [1..N -> {"Waiting", "Error", "Complete"}]
    /\ joined \subseteq 1..N
    /\ chan \in [1..N -> Channel]
    /\ reg \subseteq 1..N
    /\ at \in 0..(N + 1)
    /\ woken \in BOOLEAN
    /\ outcome \in {"none", "ready", "err", "panic"}
    /\ at = 0 /\ outcome = "none" => outer # "Complete" /\ batch # "Done"

(* A batch that could not be sent is one of errors. *)
Init ==
    /\ \/ sort \in {"batch", "mapped"} /\ outer = "Waiting"
       \/ sort = "error" /\ outer = "Error"
    /\ batch = "Waiting"
    /\ \E v \in {"Waiting", "Error"} : fut = [k \in 1..N |-> v]
    /\ joined = {}
    /\ chan = [k \in 1..N |-> "open"]
    /\ reg = {}
    /\ at = 0
    /\ woken = TRUE
    /\ outcome = "none"

-----------------------------------------------------------------------------

(* Mutant: a value that cannot be decoded is no error.                     *)
PollFutureLax(k) ==
    CASE fut[k] = "Waiting" /\ chan[k] \in {"value", "undecodable"} -> "ready"
      [] fut[k] = "Error" \/ chan[k] \in {"failure", "canceled"} -> "err"
      [] OTHER -> "pending"

(* Mutant: an error of the channel is taken for not ready.                 *)
PollFutureSwallows(k) ==
    CASE fut[k] = "Waiting" /\ chan[k] = "value" -> "ready"
      [] fut[k] = "Error" \/ chan[k] \in {"undecodable", "failure"} -> "err"
      [] OTHER -> "pending"

(* YumFuture::poll.  Whatever it returns but "pending" leaves Complete.    *)
(* Waiting stands for WaitingFn too, and for Now with its value there. *)
PollFuture(k) ==
    CASE fut[k] = "Waiting" /\ chan[k] = "value" -> "ready"
      [] \/ fut[k] = "Error"
         \/ fut[k] = "Waiting" /\ chan[k] \in {"undecodable", "failure", "canceled"}
           -> "err"
      [] OTHER -> "pending"

(* The poll of a YumBatchFutureT that is Complete is not ready. *)
PollComplete ==
    /\ at = 0 /\ woken
    /\ sort # "batch" /\ outer = "Complete"
    /\ woken' = FALSE
    /\ UNCHANGED <<sort, outer, batch, fut, joined, chan, reg, at, outcome>>

(* The poll of a YumBatchFutureT that is an Error returns it, once. *)
PollError ==
    /\ at = 0 /\ woken
    /\ outer = "Error"
    /\ woken' = FALSE
    /\ outer' = "Complete"
    /\ outcome' = "err"
    /\ UNCHANGED <<sort, batch, fut, joined, chan, reg, at>>

(* The poll of a batch begins: its state is taken, the futures are joined  *)
(* if they are not yet.  That of a batch that is Done panics.  A task does *)
(* not poll a plain batch that has ended. *)
PollBegin ==
    /\ at = 0 /\ woken
    /\ \/ sort = "mapped" /\ outer = "Waiting"
       \/ sort = "batch" /\ outcome = "none"
    /\ woken' = FALSE
    /\ outer' = "Complete"
    /\ batch' = "Done"
    /\ IF batch = "Done" THEN outcome' = "panic" /\ UNCHANGED at
                         ELSE at' = 1 /\ UNCHANGED outcome
    /\ UNCHANGED <<sort, fut, joined, chan, reg>>

(* join_all polls the next future it has no value of.  An error ends the   *)
(* poll and drops all the futures: fut and joined mean nothing from then.  *)
PollNext ==
    /\ at \in 1..N
    /\ \/ /\ at \in joined
          /\ at' = at + 1
          /\ UNCHANGED <<fut, joined, reg, outcome>>
       \/ /\ at \notin joined
          /\ PollFuture(at) = "ready"
          /\ fut' = [fut EXCEPT ![at] = "Complete"]
          /\ joined' = joined \cup {at}
          /\ at' = at + 1
          /\ UNCHANGED <<reg, outcome>>
       \/ /\ at \notin joined
          /\ PollFuture(at) = "pending"
          /\ reg' = reg \cup {at}
          /\ at' = at + 1
          /\ UNCHANGED <<fut, joined, outcome>>
       \/ /\ at \notin joined
          /\ PollFuture(at) = "err"
          /\ reg' = {}
          /\ at' = 0
          /\ outcome' = "err"
          /\ UNCHANGED <<fut, joined>>
    /\ UNCHANGED <<sort, outer, batch, chan, woken>>

(* Mutant: the outer future is put back although it is ready.              *)
PollReadyKeeps ==
    /\ at = N + 1
    /\ joined = 1..N
    /\ at' = 0
    /\ outer' = "Waiting"
    /\ outcome' = "ready"
    /\ UNCHANGED <<sort, batch, fut, joined, chan, reg, woken>>

(* The end of the poll when every value is there: Done and Complete stay. *)
PollReady ==
    /\ at = N + 1
    /\ joined = 1..N
    /\ at' = 0
    /\ outcome' = "ready"
    /\ UNCHANGED <<sort, outer, batch, fut, joined, chan, reg, woken>>

(* Mutant: the outer future is not put back.                               *)
PollPendingLost ==
    /\ at = N + 1
    /\ joined # 1..N
    /\ at' = 0
    /\ batch' = "Polling"
    /\ UNCHANGED <<sort, outer, fut, joined, chan, reg, woken, outcome>>

(* The end of the poll when a value is missing: the states are put back. *)
PollPending ==
    /\ at = N + 1
    /\ joined # 1..N
    /\ at' = 0
    /\ outer' = "Waiting"
    /\ batch' = "Polling"
    /\ UNCHANGED <<sort, fut, joined, chan, reg, woken, outcome>>

Poll ==
    \/ PollComplete \/ PollError
    \/ PollBegin \/ PollNext \/ PollReady \/ PollPending

(* Another thread resolves the k-th request, or drops its sender.  There   *)
(* are no requests behind a future that was made of an error. *)
Answer(k) ==
    /\ sort # "error"
    /\ chan[k] = "open"
    /\ \E r \in Results : chan' = [chan EXCEPT ![k] = r]
    /\ woken' = (woken \/ k \in reg)
    /\ UNCHANGED <<sort, outer, batch, fut, joined, reg, at, outcome>>

(* The task is woken by something else that it drives. *)
Wake ==
    /\ ~woken
    /\ woken' = TRUE
    /\ UNCHANGED <<sort, outer, batch, fut, joined, chan, reg, at, outcome>>

Next == Poll \/ Wake \/ \E k \in 1..N : Answer(k)

Spec == Init /\ [][Next]_vars

(* A task that is awake is run.  Nothing need ever be answered. *)
Fairness == WF_vars(Poll)

FairSpec == Spec /\ Fairness

-----------------------------------------------------------------------------
(* Properties *)

(* A batch is ready only when every request has brought a value, and fails *)
(* only if one has brought something else, the batch was not sent, or the  *)
(* future was made of an error. *)
OutcomeTrue ==
    /\ outcome = "ready" => \A k \in 1..N : chan[k] = "value"
    /\ outcome = "err" => \/ sort = "error"
                          \/ \E k \in 1..N : \/ chan[k] \notin {"open", "value"}
                                             \/ fut[k] = "Error"

(* A task that sleeps will be woken by each request that is missing, an    *)
(* answer that came while it was on its way through the futures included.  *)
SleeperIsRegistered ==
    at = 0 /\ ~woken /\ outcome = "none"
      => /\ joined # 1..N
         /\ \A k \in (1..N) \ joined : chan[k] = "open" /\ k \in reg

(* The outcome of a batch is final: a mapped one may be polled again, and  *)
(* never polls the batch inside, which would panic, after its end. *)
OutcomeStands == [][outcome # "none" => outcome' = outcome]_vars

(* One request that fails ends the batch, even if the others are never     *)
(* answered. *)
FailsFast ==
    (\E k \in 1..N : chan[k] \notin {"open", "value"})
      ~> outcome = "err"

=============================================================================
