----------------------------- MODULE SocketPool -----------------------------
(***************************************************************************)
(* The websocket workers of the client and the lock of the pool they are   *)
(* in (src/client/mod.rs).  Client::send takes a worker out of the pool    *)
(* while it uses it.  Client::is_connected, Client::stop and the sentinel  *)
(* thread, which pings and reconnects, walk the pool with its lock held    *)
(* and wait for the socket threads meanwhile.  A socket thread serves the  *)
(* channel of its worker until its connection ends, it panics, or it is    *)
(* told to stop; what is left in the channel is then lost.                 *)
(*                                                                         *)
(* The texts that are sent are all alike here; who is waiting for which    *)
(* answer is in Requests.                                                  *)
(***************************************************************************)
EXTENDS Integers, Sequences

CONSTANTS
    Workers,    \* the workers Client::new has connected
    Connected,  \* the order in which it has put them in the pool
    Senders,    \* the threads that call request or batch_request
    MaxSends,   \* bound: how many texts are sent
    MaxDeaths   \* bound: how often a socket thread ends by itself

ASSUME SocketPoolAssumption ==
    /\ Connected \in Seq(Workers)
    /\ \A i, j \in DOMAIN Connected : Connected[i] = Connected[j] => i = j
    /\ \A w \in Workers : \E i \in DOMAIN Connected : Connected[i] = w
    /\ MaxSends \in Nat
    /\ MaxDeaths \in Nat

VARIABLES
    pool,       \* Client::sockets
    held,       \* held[s]: the workers the sender s has taken out (one or none)
    handle,     \* handle[w]: SocketWorker::thread is Some
    sock,       \* sock[w]: the socket thread at the other end of w's channel
    queue,      \* queue[w]: the channel
    lock,       \* who holds the lock of the pool over several steps
    at,         \* the holder's position in the pool
    step,       \* what the holder does there
    answer,     \* the oneshot channel the holder waits on
    spc,        \* spc[s]: where a sender is
    panicked,   \* the holders whose thread has panicked
    result,     \* what the last call of Client::stop returned
    sends,      \* how many texts have been sent
    deaths,     \* how many socket threads have ended by themselves
    alive       \* the Client has not been dropped

workerVars == <<handle, sock, queue>>
holderVars == <<lock, at, step, answer, panicked, result>>
countVars == <<sends, deaths, alive>>
vars == <<pool, held, spc, workerVars, holderVars, countVars>>

Holders == {"sentinel", "is_connected", "stop"}

Steps == {"visit", "pong", "reconnect", "connect", "verify", "status", "join"}

InPool(w) == \E k \in DOMAIN pool : pool[k] = w

Owned(w) == InPool(w) \/ \E s \in Senders : w \in held[s]

(* The worker the holder of the lock is at, if it is not past the end. *)
AtWorker == at <= Len(pool)

Here == pool[at]

(* The shapes every variable keeps; the position of the walk stays in the  *)
(* pool it walks. *)
TypeOK ==
    /\ pool \in Seq(Workers)
    /\ held \in [Senders -> SUBSET Workers]
    /\ handle \in [Workers -> BOOLEAN]
    /\ sock \in [Workers -> {"up", "closed", "panicked"}]
    /\ queue \in [Workers -> Seq({"Text", "Ping", "ConnectedStatus", "Stop"})]
    /\ lock \in Holders \cup {"none"}
    /\ at \in 1..(Len(pool) + 1)
    /\ step \in Steps
    /\ answer \in {"none", "waiting", "yes", "canceled"}
    /\ spc \in [Senders -> {"idle", "enqueue", "push", "http"}]
    /\ panicked \subseteq Holders
    /\ result \in {"none", "Ok", "Err"}
    /\ sends \in 0..MaxSends
    /\ deaths \in 0..MaxDeaths
    /\ alive \in BOOLEAN

(* Client::new has connected every worker. *)
Init ==
    /\ pool = Connected
    /\ held = [s \in Senders |-> {}]
    /\ handle = [w \in Workers |-> TRUE]
    /\ sock = [w \in Workers |-> "up"]
    /\ queue = [w \in Workers |-> <<>>]
    /\ lock = "none"
    /\ at = 1
    /\ step = "visit"
    /\ answer = "none"
    /\ spc = [s \in Senders |-> "idle"]
    /\ panicked = {}
    /\ result = "none"
    /\ sends = 0
    /\ deaths = 0
    /\ alive = TRUE

-----------------------------------------------------------------------------
(* Client::send *)

(* Mutant: the sentinel locks the pool anew for each worker and gives the  *)
(* lock up while it waits for the pong.                                    *)
FreeWhileWaiting == lock = "none" \/ (lock = "sentinel" /\ step = "pong")

(* sockets.lock() gets the lock: no walk over the pool holds it. *)
Free == lock = "none"

(* Mutant: the worker is used without being taken out of the pool.         *)
PoppedStays == pool

(* The pool after pop_front. *)
Popped == Tail(pool)

(* sockets.lock().pop_front() gives a worker: from here on nobody else     *)
(* knows of it. *)
Pop(s) ==
    /\ spc[s] = "idle"
    /\ alive
    /\ sends < MaxSends
    /\ Free
    /\ pool # <<>>
    /\ held' = [held EXCEPT ![s] = {Head(pool)}]
    /\ pool' = Popped
    /\ spc' = [spc EXCEPT ![s] = "enqueue"]
    /\ sends' = sends + 1
    /\ UNCHANGED <<workerVars, holderVars, deaths, alive>>

(* pop_front finds the pool empty: the text goes by http. *)
PopEmpty(s) ==
    /\ spc[s] = "idle"
    /\ alive
    /\ sends < MaxSends
    /\ Free
    /\ pool = <<>>
    /\ spc' = [spc EXCEPT ![s] = "http"]
    /\ sends' = sends + 1
    /\ UNCHANGED <<pool, held, workerVars, holderVars, deaths, alive>>

(* send_request on the worker s holds, its channel being open. *)
Enqueue(s) ==
    /\ spc[s] = "enqueue"
    /\ \E w \in held[s] :
         /\ sock[w] = "up"
         /\ queue' = [queue EXCEPT ![w] = Append(@, "Text")]
    /\ spc' = [spc EXCEPT ![s] = "push"]
    /\ UNCHANGED <<pool, held, handle, sock, holderVars, countVars>>

(* send_request fails: the worker goes out of scope, never to return, and  *)
(* the text goes by http. *)
Discard(s) ==
    /\ spc[s] = "enqueue"
    /\ \E w \in held[s] : sock[w] # "up"
    /\ held' = [held EXCEPT ![s] = {}]
    /\ spc' = [spc EXCEPT ![s] = "http"]
    /\ UNCHANGED <<pool, workerVars, holderVars, countVars>>

(* Mutant: only the first worker is put back.                              *)
PushedFirst(w) == IF pool = <<>> THEN <<w>> ELSE pool

(* The pool after push_back(w). *)
Pushed(w) == Append(pool, w)

(* sockets.lock().push_back(w) *)
Push(s) ==
    /\ spc[s] = "push"
    /\ Free
    /\ \E w \in held[s] : pool' = Pushed(w)
    /\ held' = [held EXCEPT ![s] = {}]
    /\ spc' = [spc EXCEPT ![s] = "idle"]
    /\ UNCHANGED <<workerVars, holderVars, countVars>>

(* send_http returns, with or without an error. *)
HttpDone(s) ==
    /\ spc[s] = "http"
    /\ spc' = [spc EXCEPT ![s] = "idle"]
    /\ UNCHANGED <<pool, held, workerVars, holderVars, countVars>>

-----------------------------------------------------------------------------
(* The socket threads *)

(* Mutant: what is left in the channel is kept, and its waiters wait on.   *)
EndKeeps(w, s) ==
    /\ sock' = [sock EXCEPT ![w] = s]
    /\ queue' = [queue EXCEPT ![w] = <<>>]
    /\ UNCHANGED answer

(* The thread of w ends in the state s; dropping the receiver drops what   *)
(* is in the channel, and a waiter whose sender was in it is cancelled.    *)
End(w, s) ==
    /\ sock' = [sock EXCEPT ![w] = s]
    /\ queue' = [queue EXCEPT ![w] = <<>>]
    /\ answer' = IF \E k \in DOMAIN queue[w] :
                      queue[w][k] \in {"Ping", "ConnectedStatus"}
                 THEN "canceled" ELSE answer

(* The write stream takes the next request: it writes a text, answers a    *)
(* Ping or a ConnectedStatus itself, and ends the thread on Stop. *)
Serve(w) ==
    /\ sock[w] = "up"
    /\ queue[w] # <<>>
    /\ \/ /\ Head(queue[w]) = "Text"
          /\ queue' = [queue EXCEPT ![w] = Tail(@)]
          /\ UNCHANGED <<sock, answer>>
       \/ /\ Head(queue[w]) \in {"Ping", "ConnectedStatus"}
          /\ queue' = [queue EXCEPT ![w] = Tail(@)]
          /\ answer' = "yes"
          /\ UNCHANGED sock
       \/ /\ Head(queue[w]) = "Stop"
          /\ End(w, "closed")
    /\ UNCHANGED <<pool, held, spc, handle, lock, at, step, panicked, result,
                   countVars>>

(* The read stream ends or fails, or handling a message panics (a control  *)
(* frame reaches unreachable!()). *)
Die(w) ==
    /\ sock[w] = "up"
    /\ deaths < MaxDeaths
    /\ deaths' = deaths + 1
    /\ \E s \in {"closed", "panicked"} : End(w, s)
    /\ UNCHANGED <<pool, held, spc, handle, lock, at, step, panicked, result,
                   sends, alive>>

(* Nobody holds the sending half of the channel any more and it is empty:  *)
(* the write stream ends. *)
HangUp(w) ==
    /\ sock[w] = "up"
    /\ ~Owned(w)
    /\ queue[w] = <<>>
    /\ End(w, "closed")
    /\ UNCHANGED <<pool, held, spc, handle, lock, at, step, panicked, result,
                   countVars>>

-----------------------------------------------------------------------------
(* The walks over the pool with its lock held *)

(* The sentinel's sleep ends, or a user calls is_connected or stop.  There *)
(* is one sentinel thread, which a panic ends; a user thread that has      *)
(* panicked leaves the other threads that share the client to call. *)
Acquire(h) ==
    /\ lock = "none"
    /\ IF h = "sentinel" THEN h \notin panicked ELSE alive
    /\ lock' = h
    /\ at' = 1
    /\ step' = "visit"
    /\ answer' = "none"
    /\ result' = IF h = "stop" THEN "none" ELSE result
    /\ UNCHANGED <<pool, held, spc, workerVars, panicked, countVars>>

(* The guard is dropped. *)
Release == lock' = "none" /\ at' = 1 /\ step' = "visit" /\ answer' = "none"

(* The holder of the lock panics; unwinding drops the guard. *)
Panic == Release /\ panicked' = panicked \cup {lock}

Advance == at' = at + 1 /\ step' = "visit" /\ answer' = "none" /\ UNCHANGED lock

(* The end of the pool: is_connected returns false, stop returns Ok, the   *)
(* sentinel sleeps. *)
Finish ==
    /\ lock # "none"
    /\ ~AtWorker
    /\ Release
    /\ result' = IF lock = "stop" THEN "Ok" ELSE result
    /\ UNCHANGED <<pool, held, spc, workerVars, panicked, countVars>>

(* The holder sends m to the worker it is at and waits. *)
Ask(m, s) ==
    /\ sock[Here] = "up"
    /\ queue' = [queue EXCEPT ![Here] = Append(@, m)]
    /\ answer' = "waiting"
    /\ step' = s
    /\ UNCHANGED <<pool, held, spc, handle, sock, lock, at, panicked, result,
                   countVars>>

(* The sentinel pings. *)
Ping ==
    /\ lock = "sentinel"
    /\ step = "visit"
    /\ AtWorker
    /\ Ask("Ping", "pong")

(* The ping cannot be sent, or its answer is cancelled. *)
PingFails ==
    /\ lock = "sentinel"
    /\ \/ step = "visit" /\ AtWorker /\ sock[Here] # "up"
       \/ step = "pong" /\ answer = "canceled"
    /\ step' = "reconnect"
    /\ answer' = "none"
    /\ UNCHANGED <<pool, held, spc, workerVars, lock, at, panicked, result,
                   countVars>>

Pong ==
    /\ step = "pong"
    /\ answer = "yes"
    /\ Advance
    /\ UNCHANGED <<pool, held, spc, workerVars, panicked, result, countVars>>

(* Where the holder calls SocketWorker::is_connected. *)
Asks ==
    \/ lock = "is_connected" /\ step = "visit" /\ AtWorker
    \/ lock = "sentinel" /\ step \in {"reconnect", "verify"}

(* SocketWorker::is_connected sends a ConnectedStatus. *)
Status ==
    /\ Asks
    /\ handle[Here]
    /\ Ask("ConnectedStatus", "status")

(* SocketWorker::is_connected says no: there is no thread, or its channel  *)
(* is closed.  Client::is_connected goes on to the next worker; reconnect  *)
(* forgets the thread and connects anew; its second loop asks again.       *)
NotConnected ==
    /\ Asks
    /\ ~handle[Here] \/ sock[Here] # "up"
    /\ \/ /\ lock = "is_connected"
          /\ Advance
          /\ UNCHANGED handle
       \/ /\ step = "reconnect"
          /\ handle' = [handle EXCEPT ![Here] = FALSE]
          /\ step' = "connect"
          /\ UNCHANGED <<lock, at, answer>>
    /\ UNCHANGED <<pool, held, spc, sock, queue, panicked, result, countVars>>

(* The status is answered: Client::is_connected returns true, reconnect    *)
(* returns Ok. *)
StatusYes ==
    /\ step = "status"
    /\ answer = "yes"
    /\ \/ lock = "is_connected" /\ Release
       \/ lock = "sentinel" /\ Advance
    /\ UNCHANGED <<pool, held, spc, workerVars, panicked, result, countVars>>

(* The socket thread ends with the status in its channel:                  *)
(* rx.wait().expect("Status rx") panics in the thread that asked. *)
StatusCanceled ==
    /\ step = "status"
    /\ answer = "canceled"
    /\ Panic
    /\ UNCHANGED <<pool, held, spc, workerVars, result, countVars>>

(* Mutant: the handle of the new thread is dropped.                        *)
WithHandleNot(w) == handle

(* reconnect keeps the handle of the new thread. *)
WithHandle(w) == [handle EXCEPT ![w] = TRUE]

(* connect returns the channel and the handle of a new socket thread. *)
ConnectOk ==
    /\ step = "connect"
    /\ sock' = [sock EXCEPT ![Here] = "up"]
    /\ queue' = [queue EXCEPT ![Here] = <<>>]
    /\ handle' = WithHandle(Here)
    /\ step' = "verify"
    /\ UNCHANGED <<pool, held, spc, lock, at, answer, panicked, result,
                   countVars>>

(* connect times out, or the new connection is not confirmed in time:      *)
(* reconnect returns an error, which is logged. *)
ReconnectFails ==
    /\ step \in {"connect", "verify"}
    /\ Advance
    /\ UNCHANGED <<pool, held, spc, workerVars, panicked, result, countVars>>

(* SocketWorker::stop sends Stop and takes the handle to join.  That there *)
(* is one is expect("is only called once"); see NoHandleNoChannel. *)
Stop ==
    /\ lock = "stop"
    /\ step = "visit"
    /\ AtWorker
    /\ sock[Here] = "up"
    /\ queue' = [queue EXCEPT ![Here] = Append(@, "Stop")]
    /\ handle' = [handle EXCEPT ![Here] = FALSE]
    /\ step' = "join"
    /\ UNCHANGED <<pool, held, spc, sock, lock, at, answer, panicked, result,
                   countVars>>

(* Mutant: the error of a worker is swallowed.                             *)
StopErrorSwallowed == "Ok"

(* `worker.stop()?` *)
StopError == "Err"

(* The first worker that cannot be told to stop ends Client::stop. *)
StopFails ==
    /\ lock = "stop"
    /\ step = "visit"
    /\ AtWorker
    /\ sock[Here] # "up"
    /\ Release
    /\ result' = StopError
    /\ UNCHANGED <<pool, held, spc, workerVars, panicked, countVars>>

(* The thread is joined; expect("thread shuts down") panics if it did. *)
Join ==
    /\ step = "join"
    /\ \/ /\ sock[Here] = "closed"
          /\ Advance
          /\ UNCHANGED panicked
       \/ /\ sock[Here] = "panicked"
          /\ Panic
    /\ UNCHANGED <<pool, held, spc, workerVars, result, countVars>>

(* Mutant: drop leaves the pool to the sentinel.                           *)
ClearedNot == pool

(* sockets.lock().clear() *)
Cleared == <<>>

(* Drop for Client, when no call borrows it.  The sentinel keeps running   *)
(* on the pool, which is empty now. *)
DropClient ==
    /\ alive
    /\ Free
    /\ \A s \in Senders : spc[s] = "idle"
    /\ alive' = FALSE
    /\ pool' = Cleared
    /\ UNCHANGED <<held, spc, workerVars, holderVars, sends, deaths>>

-----------------------------------------------------------------------------

(* The steps of whoever holds the lock. *)
HolderStep ==
    \/ Finish \/ Ping \/ PingFails \/ Pong
    \/ Status \/ NotConnected \/ StatusYes \/ StatusCanceled
    \/ ConnectOk \/ ReconnectFails
    \/ Stop \/ StopFails \/ Join

Next ==
    \/ \E s \in Senders : \/ Pop(s) \/ PopEmpty(s) \/ Enqueue(s) \/ Discard(s)
                          \/ Push(s) \/ HttpDone(s)
    \/ \E w \in Workers : Serve(w) \/ Die(w) \/ HangUp(w)
    \/ \E h \in Holders : Acquire(h)
    \/ HolderStep
    \/ DropClient

Spec == Init /\ [][Next]_vars

(* Threads are scheduled, connect and the confirmation after it give up    *)
(* after their timeout, and a thread that waits for the lock gets it if it *)
(* is free again and again.  Nothing is assumed of the http posts, of the  *)
(* users of is_connected and stop, or of the connections. *)
Fairness ==
    /\ WF_vars(HolderStep)
    /\ \A w \in Workers : WF_vars(Serve(w)) /\ WF_vars(HangUp(w))
    /\ \A s \in Senders : /\ WF_vars(Enqueue(s) \/ Discard(s))
                          /\ SF_vars(Push(s))

FairSpec == Spec /\ Fairness

-----------------------------------------------------------------------------
(* Properties *)

(* A worker is in one place: in the pool once, or with one sender, or      *)
(* nowhere any more.  No two threads use one at a time. *)
OneOwner ==
    /\ \A i, j \in DOMAIN pool : pool[i] = pool[j] => i = j
    /\ \A s \in Senders : \A w \in held[s] : ~InPool(w)
    /\ \A s, t \in Senders : s # t => held[s] \cap held[t] = {}

(* While the client lives, no worker with a live connection is lost:       *)
(* Client::send drops only workers whose socket thread has ended. *)
LiveSocketNeverLost ==
    alive => \A w \in Workers : sock[w] = "up" => Owned(w)

(* A worker whose channel is open has its thread handle, but while stop is *)
(* joining it: take().expect("is only called once") cannot panic, however  *)
(* stop, failed reconnects and the sentinel follow each other. *)
NoHandleNoChannel ==
    \A w \in Workers :
      sock[w] = "up" /\ ~handle[w]
        => /\ lock = "stop" /\ step = "join" /\ Here = w
           /\ \E k \in DOMAIN queue[w] : queue[w][k] = "Stop"

(* When Client::stop returns Ok, no worker in the pool has a live socket,  *)
(* although the sentinel revives sockets and senders put workers back. *)
StopStops ==
    [][lock = "stop" /\ lock' = "none" /\ result' = "Ok"
         => \A w \in Workers : InPool(w) => sock[w] # "up"]_vars

(* is_connected answers: the thread it asks never drops the question.      *)
(* expect("Status rx") states it. *)
StatusAnswered == ~(step = "status" /\ answer = "canceled")

(* The lock of the pool is always released: no ping, status, reconnect or  *)
(* join made with it held waits for ever. *)
LockReleased == lock # "none" ~> lock = "none"

(* Dropping the client ends every socket thread. *)
DropEndsSockets == ~alive ~> \A w \in Workers : sock[w] # "up"

=============================================================================
