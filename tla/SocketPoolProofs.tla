-------------------------- MODULE SocketPoolProofs --------------------------
(***************************************************************************)
(* Theorems about SocketPool, for every number of workers and senders.     *)
(*                                                                         *)
(* The pool does not change under a walk, because whoever takes a worker   *)
(* out or puts one back needs the lock: Walk says what the holder of the   *)
(* lock may be doing where.  Holding says that a sender has a worker just  *)
(* while it uses it, and Passed that Client::stop has left nothing alive   *)
(* behind it.                                                              *)
(***************************************************************************)
EXTENDS SocketPool, SequenceTheorems, TLAPS

(* What the holder of the lock does, and that it is at a worker then. *)
Walk ==
    /\ lock = "none" => at = 1 /\ step = "visit"
    /\ step # "visit" => AtWorker
    /\ step \in {"pong", "reconnect", "connect", "verify"} => lock = "sentinel"
    /\ step = "status" => lock \in {"sentinel", "is_connected"}
    /\ step = "join" => lock = "stop"

(* A sender that uses a worker holds that one only; the others hold none. *)
Holding ==
    \A s \in Senders :
      /\ spc[s] \in {"idle", "http"} => held[s] = {}
      /\ spc[s] \in {"enqueue", "push"} => \E w \in Workers : held[s] = {w}

(* Client::stop has not returned yet, and the sockets it has passed are    *)
(* closed. *)
Passed ==
    lock = "stop" => /\ result = "none"
                     /\ \A k \in 1..(at - 1) : sock[pool[k]] # "up"

(* The inductive invariant. *)
IInv == /\ TypeOK /\ Walk /\ Holding /\ OneOwner
        /\ LiveSocketNeverLost /\ NoHandleNoChannel /\ Passed

USE DEF workerVars, holderVars, countVars

-----------------------------------------------------------------------------
(* Facts about the pool *)

(* The holder of the lock is at a worker of the pool. *)
LEMMA HereInPool ==
    ASSUME TypeOK, AtWorker
    PROVE  at \in DOMAIN pool /\ Here \in Workers /\ InPool(Here)
  <1>1. at \in 1..Len(pool)
    BY DEF TypeOK, AtWorker
  <1> QED  BY <1>1 DEF TypeOK, Here, InPool

(* pop_front takes the first worker, and leaves the others. *)
LEMMA PoppedPool ==
    ASSUME TypeOK, pool # <<>>
    PROVE  /\ Head(pool) \in Workers
           /\ Tail(pool) \in Seq(Workers)
           /\ Len(Tail(pool)) = Len(pool) - 1
           /\ 1 \in DOMAIN pool /\ pool[1] = Head(pool)
           /\ \A k \in DOMAIN Tail(pool) : k + 1 \in DOMAIN pool /\ Tail(pool)[k] = pool[k + 1]
           /\ \A k \in DOMAIN pool : k # 1 => k - 1 \in DOMAIN Tail(pool)
  <1>1. pool \in Seq(Workers) /\ Len(pool) \in Nat \ {0}
    BY EmptySeq DEF TypeOK
  <1>2. /\ Head(pool) \in Workers
        /\ Tail(pool) \in Seq(Workers)
        /\ Len(Tail(pool)) = Len(pool) - 1
        /\ \A i \in 1..Len(Tail(pool)) : Tail(pool)[i] = pool[i + 1]
    BY <1>1, HeadTailProperties DEF TypeOK
  <1>3. DOMAIN pool = 1..Len(pool) /\ DOMAIN Tail(pool) = 1..(Len(pool) - 1)
    BY <1>1, <1>2
  <1>4. Head(pool) = pool[1]
    BY <1>1
  <1> QED  BY <1>1, <1>2, <1>3, <1>4

-----------------------------------------------------------------------------
(* The steps *)

(* Client::new leaves a pool of connected workers. *)
LEMMA InitInv == Init => IInv
  <1> SUFFICES ASSUME Init PROVE IInv
    OBVIOUS
  <1>1. TypeOK
    BY SocketPoolAssumption, EmptySeq DEF Init, TypeOK, Steps, Holders
  <1>2. OneOwner
    BY SocketPoolAssumption DEF Init, OneOwner
  <1>3. LiveSocketNeverLost
    BY SocketPoolAssumption DEF Init, LiveSocketNeverLost, Owned, InPool
  <1>4. NoHandleNoChannel
    BY DEF Init, NoHandleNoChannel
  <1> QED  BY <1>1, <1>2, <1>3, <1>4 DEF Init, IInv, Walk, Holding, Passed

(* The worker that pop_front gives was in the pool once, and is with the   *)
(* sender now. *)
LEMMA PopInv == ASSUME IInv, NEW s \in Senders, Pop(s) PROVE IInv'
  <1>0. PICK w \in Workers : w = Head(pool)
    BY PoppedPool DEF Pop, IInv
  <1>1. /\ pool' = Tail(pool)
        /\ held' = [held EXCEPT ![s] = {w}]
        /\ lock = "none"
        /\ pool # <<>>
    BY <1>0 DEF Pop, Popped, Free
  <1>2. /\ w \in Workers
        /\ Tail(pool) \in Seq(Workers)
        /\ 1 \in DOMAIN pool /\ pool[1] = w
        /\ \A k \in DOMAIN Tail(pool) : k + 1 \in DOMAIN pool /\ Tail(pool)[k] = pool[k + 1]
        /\ \A k \in DOMAIN pool : k # 1 => k - 1 \in DOMAIN Tail(pool)
        /\ Len(Tail(pool)) \in Nat
    BY <1>0, <1>1, PoppedPool DEF IInv
  <1>3. TypeOK'
    BY <1>1, <1>2, SocketPoolAssumption DEF IInv, TypeOK, Walk, Pop
  <1>4. Holding'
    BY <1>1, <1>2 DEF IInv, TypeOK, Holding, Pop
  <1>5. \A k \in DOMAIN Tail(pool) : k \in Int /\ Tail(pool)[k] # w
    BY <1>2 DEF IInv, TypeOK, OneOwner
  <1>6. \A x \in Workers : InPool(x) <=> x = w \/ InPool(x)'
    <2>1. ASSUME NEW x \in Workers, InPool(x), x # w PROVE InPool(x)'
      <3>1. PICK k \in DOMAIN pool : pool[k] = x
        BY <2>1 DEF InPool
      <3>2. k # 1 /\ k \in Int
        BY <1>2, <2>1, <3>1 DEF IInv, TypeOK
      <3>3. k - 1 \in DOMAIN Tail(pool) /\ Tail(pool)[k - 1] = pool[(k - 1) + 1]
        BY <1>2, <3>2
      <3> QED  BY <1>1, <3>1, <3>2, <3>3 DEF InPool
    <2>2. ASSUME NEW x \in Workers, InPool(x)' PROVE InPool(x)
      BY <1>1, <1>2, <2>2 DEF InPool
    <2>3. InPool(w)
      BY <1>2 DEF InPool
    <2> QED  BY <2>1, <2>2, <2>3
  <1>7. ~InPool(w)'
    BY <1>1, <1>5 DEF InPool
  <1>8. OneOwner'
    <2>1. \A i, j \in DOMAIN pool' : pool'[i] = pool'[j] => i = j
      BY <1>1, <1>2, <1>5 DEF IInv, OneOwner
    <2>2. \A t \in Senders : \A x \in held'[t] : ~InPool(x)'
      BY <1>1, <1>6, <1>7 DEF IInv, TypeOK, OneOwner
    <2>3. \A t \in Senders : w \notin held[t]
      BY <1>2, <1>6 DEF IInv, OneOwner
    <2>4. \A r, t \in Senders : r # t => held'[r] \cap held'[t] = {}
      BY <1>1, <2>3 DEF IInv, TypeOK, OneOwner
    <2> QED  BY <2>1, <2>2, <2>4 DEF OneOwner
  <1>9. LiveSocketNeverLost'
    <2>1. \A x \in Workers : Owned(x) => Owned(x)'
      <3>1. held[s] = {}
        BY DEF IInv, Holding, Pop
      <3> QED  BY <1>1, <1>6, <3>1 DEF Owned, IInv, TypeOK
    <2> QED  BY <2>1 DEF IInv, LiveSocketNeverLost, Pop
  <1>10. Walk' /\ Passed'
    BY <1>1, <1>2 DEF IInv, Walk, Passed, Pop
  <1>11. NoHandleNoChannel'
    BY <1>1 DEF IInv, NoHandleNoChannel, Pop
  <1> QED  BY <1>3, <1>4, <1>8, <1>9, <1>10, <1>11 DEF IInv

(* A text in the channel of the worker s holds. *)
LEMMA EnqueueInv == ASSUME IInv, NEW s \in Senders, Enqueue(s) PROVE IInv'
  <1>1. PICK w \in held[s] : queue' = [queue EXCEPT ![w] = Append(@, "Text")]
    BY DEF Enqueue
  <1>2. w \in Workers
    BY <1>1 DEF IInv, TypeOK
  <1>3. TypeOK'
    BY <1>1, <1>2 DEF IInv, TypeOK, Enqueue
  <1>4. Holding'
    BY DEF IInv, TypeOK, Holding, Enqueue
  <1>5. NoHandleNoChannel'
    <2>1. ASSUME NEW x \in Workers,
                 \E k \in DOMAIN queue[x] : queue[x][k] = "Stop"
          PROVE  \E k \in DOMAIN queue'[x] : queue'[x][k] = "Stop"
      <3>1. PICK k \in DOMAIN queue[x] : queue[x][k] = "Stop"
        BY <2>1
      <3>2. k \in DOMAIN queue'[x] /\ queue'[x][k] = "Stop"
        BY <1>1, <1>2, <3>1 DEF IInv, TypeOK
      <3> QED  BY <3>2
    <2> QED  BY <2>1 DEF IInv, NoHandleNoChannel, Here, Enqueue
  <1>6. Walk' /\ Passed' /\ OneOwner' /\ LiveSocketNeverLost'
    BY DEF IInv, Walk, AtWorker, Passed, OneOwner, LiveSocketNeverLost, InPool, Owned, Enqueue
  <1> QED  BY <1>3, <1>4, <1>5, <1>6 DEF IInv

(* A worker that send_request fails on has no socket thread any more. *)
LEMMA DiscardInv == ASSUME IInv, NEW s \in Senders, Discard(s) PROVE IInv'
  <1>1. PICK w \in Workers : held[s] = {w} /\ sock[w] # "up"
    BY DEF IInv, Holding, Discard
  <1>2. TypeOK' /\ Holding'
    BY DEF IInv, TypeOK, Holding, Discard
  <1>3. OneOwner'
    BY DEF IInv, TypeOK, OneOwner, InPool, Discard
  <1>4. LiveSocketNeverLost'
    BY <1>1 DEF IInv, TypeOK, LiveSocketNeverLost, Owned, InPool, Discard
  <1>5. Walk' /\ Passed' /\ NoHandleNoChannel'
    BY DEF IInv, Walk, AtWorker, Passed, NoHandleNoChannel, Here, Discard
  <1> QED  BY <1>2, <1>3, <1>4, <1>5 DEF IInv

(* A worker that is put back was with one sender, and not in the pool. *)
LEMMA PushInv == ASSUME IInv, NEW s \in Senders, Push(s) PROVE IInv'
  <1>1. PICK w \in Workers : held[s] = {w}
    BY DEF IInv, Holding, Push
  <1>2. pool' = Append(pool, w) /\ held' = [held EXCEPT ![s] = {}]
    BY <1>1 DEF Push, Pushed
  <1>3. /\ pool \in Seq(Workers)
        /\ Len(pool') = Len(pool) + 1
        /\ DOMAIN pool = 1..Len(pool) /\ DOMAIN pool' = 1..(Len(pool) + 1)
        /\ \A k \in 1..Len(pool) : pool'[k] = pool[k]
        /\ pool'[Len(pool) + 1] = w
    BY <1>2 DEF IInv, TypeOK
  <1>4. \A x \in Workers : InPool(x)' <=> x = w \/ InPool(x)
    BY <1>3 DEF InPool
  <1>5. TypeOK'
    BY <1>2 DEF IInv, TypeOK, Walk, Push
  <1>6. Holding'
    BY <1>2 DEF IInv, TypeOK, Holding, Push
  <1>7. OneOwner'
    <2>1. w \in held[s]
      BY <1>1
    <2>2. ~InPool(w)
      BY <2>1 DEF IInv, OneOwner
    <2>3. \A i, j \in DOMAIN pool' : pool'[i] = pool'[j] => i = j
      BY <1>3, <2>2 DEF IInv, OneOwner, InPool
    <2>4. \A t \in Senders : t # s => w \notin held[t]
      BY <2>1 DEF IInv, OneOwner
    <2>5. \A t \in Senders : \A x \in held'[t] : ~InPool(x)'
      BY <1>2, <1>4, <2>4 DEF IInv, TypeOK, OneOwner
    <2>6. \A r, t \in Senders : r # t => held'[r] \cap held'[t] = {}
      BY <1>2 DEF IInv, TypeOK, OneOwner
    <2> QED  BY <2>3, <2>5, <2>6 DEF OneOwner
  <1>8. LiveSocketNeverLost'
    <2>1. \A x \in Workers : Owned(x) => Owned(x)'
      BY <1>1, <1>2, <1>4 DEF Owned, IInv, TypeOK
    <2> QED  BY <2>1 DEF IInv, LiveSocketNeverLost, Push
  <1>9. Walk' /\ Passed' /\ NoHandleNoChannel'
    BY <1>3 DEF IInv, TypeOK, Walk, AtWorker, Passed, NoHandleNoChannel, Push, Free
  <1> QED  BY <1>5, <1>6, <1>7, <1>8, <1>9 DEF IInv

(* A text that goes by http concerns no worker. *)
LEMMA HttpInv ==
    ASSUME IInv, NEW s \in Senders, PopEmpty(s) \/ HttpDone(s)
    PROVE  IInv'
  <1>1. /\ UNCHANGED <<pool, held, workerVars, holderVars, deaths, alive>>
        /\ sends' \in 0..MaxSends
        /\ \E p \in {"idle", "http"} : spc' = [spc EXCEPT ![s] = p]
        /\ spc[s] \in {"idle", "http"}
    BY SocketPoolAssumption DEF IInv, TypeOK, PopEmpty, HttpDone
  <1>2. TypeOK' /\ Holding'
    BY <1>1 DEF IInv, TypeOK, Holding
  <1>3. Walk' /\ Passed' /\ NoHandleNoChannel' /\ OneOwner' /\ LiveSocketNeverLost'
    BY <1>1 DEF IInv, Walk, AtWorker, Passed, NoHandleNoChannel, Here,
                OneOwner, LiveSocketNeverLost, InPool, Owned
  <1> QED  BY <1>2, <1>3 DEF IInv

(* The end of a socket thread takes nothing from its worker but the        *)
(* connection. *)
LEMMA EndInv ==
    ASSUME IInv, NEW w \in Workers, NEW c \in {"closed", "panicked"}, End(w, c),
           UNCHANGED <<pool, held, spc, handle, lock, at, step, panicked, result,
                       sends, alive>>,
           deaths' \in 0..MaxDeaths
    PROVE  IInv'
  <1>1. /\ sock' = [sock EXCEPT ![w] = c]
        /\ queue' = [queue EXCEPT ![w] = <<>>]
        /\ answer' \in {"canceled", answer}
    BY DEF End
  <1>2. TypeOK'
    BY <1>1 DEF IInv, TypeOK
  <1>3. \A x \in Workers : sock'[x] = "up" => x # w /\ sock[x] = "up" /\ queue'[x] = queue[x]
    BY <1>1 DEF IInv, TypeOK
  <1>4. NoHandleNoChannel'
    BY <1>3 DEF IInv, NoHandleNoChannel, Here
  <1>5. Passed'
    <2>1. ASSUME lock = "stop", NEW k \in 1..(at - 1) PROVE pool[k] \in Workers
      BY <2>1 DEF IInv, TypeOK
    <2> QED  BY <1>3, <2>1 DEF IInv, Passed
  <1>6. LiveSocketNeverLost'
    BY <1>3 DEF IInv, LiveSocketNeverLost, Owned, InPool
  <1>7. Walk' /\ Holding' /\ OneOwner'
    BY DEF IInv, Walk, AtWorker, Holding, OneOwner, InPool
  <1> QED  BY <1>2, <1>4, <1>5, <1>6, <1>7 DEF IInv

(* A Stop in the channel stays there until it is served, which ends the    *)
(* thread. *)
LEMMA ServeInv == ASSUME IInv, NEW w \in Workers, Serve(w) PROVE IInv'
  <1>1. CASE Head(queue[w]) = "Stop" /\ End(w, "closed")
    BY <1>1, EndInv DEF Serve, IInv, TypeOK
  <1>2. CASE /\ Head(queue[w]) # "Stop"
             /\ queue' = [queue EXCEPT ![w] = Tail(@)]
             /\ answer' \in {"yes", answer}
             /\ UNCHANGED sock
    <2> DEFINE q == queue[w]
    <2>1. /\ q \in Seq({"Text", "Ping", "ConnectedStatus", "Stop"})
          /\ q # <<>>
      BY DEF Serve, IInv, TypeOK
    <2>2. /\ Tail(q) \in Seq({"Text", "Ping", "ConnectedStatus", "Stop"})
          /\ Len(Tail(q)) = Len(q) - 1
          /\ \A i \in 1..Len(Tail(q)) : Tail(q)[i] = q[i + 1]
          /\ q[1] = Head(q)
      BY <2>1, HeadTailProperties
    <2>3. TypeOK'
      BY <1>2, <2>2 DEF Serve, IInv, TypeOK
    <2>4. ASSUME NEW x \in Workers,
                 \E k \in DOMAIN queue[x] : queue[x][k] = "Stop"
          PROVE  \E k \in DOMAIN queue'[x] : queue'[x][k] = "Stop"
      <3>1. PICK k \in DOMAIN queue[x] : queue[x][k] = "Stop"
        BY <2>4
      <3>2. CASE x = w
        <4>1. k \in 1..Len(q) /\ k # 1
          BY <1>2, <2>1, <2>2, <3>1, <3>2
        <4>2. k - 1 \in DOMAIN Tail(q) /\ Tail(q)[k - 1] = "Stop"
          BY <2>1, <2>2, <3>1, <3>2, <4>1
        <4>3. queue'[x] = Tail(q)
          BY <1>2, <3>2 DEF IInv, TypeOK
        <4> QED  BY <4>2, <4>3
      <3>3. CASE x # w
        BY <1>2, <3>1, <3>3 DEF IInv, TypeOK
      <3> QED  BY <3>2, <3>3
    <2>5. NoHandleNoChannel'
      BY <1>2, <2>4 DEF Serve, IInv, NoHandleNoChannel, Here
    <2>6. Walk' /\ Holding' /\ OneOwner' /\ LiveSocketNeverLost' /\ Passed'
      BY <1>2 DEF Serve, IInv, Walk, AtWorker, Holding, OneOwner,
                  LiveSocketNeverLost, Owned, InPool, Passed
    <2> QED  BY <2>3, <2>5, <2>6 DEF IInv
  <1> QED  BY <1>1, <1>2 DEF Serve

(* Threads that end by themselves, or because nobody can reach them. *)
LEMMA EndingInv ==
    ASSUME IInv, NEW w \in Workers, Die(w) \/ HangUp(w)
    PROVE  IInv'
  <1>1. CASE Die(w)
    <2>1. deaths' \in 0..MaxDeaths
      BY <1>1, SocketPoolAssumption DEF Die, IInv, TypeOK
    <2> QED  BY <1>1, <2>1, EndInv DEF Die
  <1>2. CASE HangUp(w)
    BY <1>2, EndInv DEF HangUp, IInv, TypeOK
  <1> QED  BY <1>1, <1>2

(* The holder of the lock waits, goes on or leaves, and touches no worker. *)
LEMMA WalkInv ==
    ASSUME IInv,
           \/ \E h \in Holders : Acquire(h)
           \/ Finish \/ Ping \/ PingFails \/ Pong \/ Status
           \/ StatusYes \/ StatusCanceled \/ ReconnectFails \/ StopFails
    PROVE  IInv'
  <1> USE DEF IInv, TypeOK, Walk, Holding, OneOwner, LiveSocketNeverLost,
              NoHandleNoChannel, Passed, Owned, InPool, AtWorker, Here, Steps, Holders
  <1>1. ASSUME NEW h \in Holders, Acquire(h) PROVE IInv'
    BY <1>1 DEF Acquire
  <1>2. CASE Finish
    BY <1>2 DEF Finish, Release
  <1>3. CASE Ping
    BY <1>3 DEF Ping, Ask
  <1>4. CASE PingFails
    BY <1>4 DEF PingFails
  <1>5. CASE Pong
    BY <1>5 DEF Pong, Advance
  <1>6. CASE Status
    BY <1>6 DEF Status, Asks, Ask
  <1>7. CASE StatusYes
    BY <1>7 DEF StatusYes, Release, Advance
  <1>8. CASE StatusCanceled
    BY <1>8 DEF StatusCanceled, Panic, Release
  <1>9. CASE ReconnectFails
    BY <1>9 DEF ReconnectFails, Advance
  <1>10. CASE StopFails
    BY <1>10 DEF StopFails, StopError, Release
  <1> QED  BY <1>1, <1>2, <1>3, <1>4, <1>5, <1>6, <1>7, <1>8, <1>9, <1>10

(* reconnect forgets the handle of a thread whose channel is closed:       *)
(* without a handle the channel would be that of a thread being joined,    *)
(* and stop does that. *)
LEMMA NotConnectedInv == ASSUME IInv, NotConnected PROVE IInv'
  <1>1. lock \in {"is_connected", "sentinel"} /\ AtWorker
    BY DEF NotConnected, Asks, IInv, Walk
  <1>2. Here \in Workers
    BY <1>1, HereInPool DEF IInv
  <1>3. sock[Here] # "up"
    BY <1>1, <1>2 DEF NotConnected, IInv, NoHandleNoChannel
  <1>4. CASE lock = "is_connected" /\ Advance /\ UNCHANGED handle
    BY <1>1, <1>4 DEF NotConnected, Advance, IInv, TypeOK, Walk, Holding, OneOwner,
       LiveSocketNeverLost, NoHandleNoChannel, Passed, Owned, InPool, AtWorker, Here, Steps
  <1>5. CASE /\ step = "reconnect"
             /\ handle' = [handle EXCEPT ![Here] = FALSE]
             /\ step' = "connect"
             /\ UNCHANGED <<lock, at, answer>>
    <2>1. TypeOK'
      BY <1>2, <1>5 DEF NotConnected, IInv, TypeOK, Steps
    <2>2. NoHandleNoChannel'
      <3>1. \A w \in Workers : w # Here => handle'[w] = handle[w]
        BY <1>5 DEF IInv, TypeOK
      <3> QED  BY <1>1, <1>3, <1>5, <3>1 DEF NotConnected, IInv, NoHandleNoChannel
    <2>3. Walk' /\ Holding' /\ OneOwner' /\ LiveSocketNeverLost' /\ Passed'
      BY <1>1, <1>5 DEF NotConnected, IInv, Walk, AtWorker, Holding, OneOwner,
                        LiveSocketNeverLost, Owned, InPool, Passed
    <2> QED  BY <2>1, <2>2, <2>3 DEF IInv
  <1> QED  BY <1>4, <1>5 DEF NotConnected

(* The new thread has its handle, and its worker is in the pool. *)
LEMMA ConnectOkInv == ASSUME IInv, ConnectOk PROVE IInv'
  <1>1. lock = "sentinel" /\ AtWorker
    BY DEF ConnectOk, IInv, Walk
  <1>2. Here \in Workers /\ InPool(Here)
    BY <1>1, HereInPool DEF IInv
  <1>3. /\ sock' = [sock EXCEPT ![Here] = "up"]
        /\ queue' = [queue EXCEPT ![Here] = <<>>]
        /\ handle' = [handle EXCEPT ![Here] = TRUE]
        /\ UNCHANGED <<pool, held, spc, lock, at, answer, panicked, result, countVars>>
        /\ step' = "verify"
    BY DEF ConnectOk, WithHandle
  <1>4. TypeOK'
    BY <1>2, <1>3, EmptySeq DEF IInv, TypeOK, Steps
  <1>5. \A w \in Workers : w # Here => /\ sock'[w] = sock[w]
                                       /\ handle'[w] = handle[w]
    BY <1>3 DEF IInv, TypeOK
  <1>6. handle'[Here] = TRUE
    BY <1>2, <1>3 DEF IInv, TypeOK
  <1>7. NoHandleNoChannel'
    <2>1. ASSUME NEW w \in Workers, sock'[w] = "up", ~handle'[w] PROVE FALSE
      BY <1>1, <1>5, <1>6, <2>1 DEF IInv, NoHandleNoChannel
    <2> QED  BY <2>1 DEF NoHandleNoChannel
  <1>8. LiveSocketNeverLost'
    <2>1. \A w \in Workers : Owned(w)' <=> Owned(w)
      BY <1>3 DEF Owned, InPool
    <2>2. Owned(Here)
      BY <1>2 DEF Owned
    <2> QED  BY <1>3, <1>5, <2>1, <2>2 DEF IInv, LiveSocketNeverLost
  <1>9. Walk' /\ Holding' /\ OneOwner' /\ Passed'
    BY <1>1, <1>3 DEF IInv, Walk, AtWorker, Holding, OneOwner, InPool, Passed
  <1> QED  BY <1>4, <1>7, <1>8, <1>9 DEF IInv

(* A worker whose handle stop takes has a Stop in its channel. *)
LEMMA StopInv == ASSUME IInv, Stop PROVE IInv'
  <1>1. Here \in Workers
    BY HereInPool DEF Stop, IInv
  <1>2. /\ queue' = [queue EXCEPT ![Here] = Append(@, "Stop")]
        /\ handle' = [handle EXCEPT ![Here] = FALSE]
        /\ lock = "stop" /\ step = "visit" /\ step' = "join" /\ AtWorker
        /\ UNCHANGED <<pool, held, spc, sock, lock, at, answer, panicked, result, countVars>>
    BY DEF Stop
  <1>3. TypeOK'
    BY <1>1, <1>2 DEF IInv, TypeOK, Steps
  <1>4. NoHandleNoChannel'
    <2>1. ASSUME NEW w \in Workers, sock'[w] = "up", ~handle'[w]
          PROVE  Here = w
      BY <1>2, <2>1 DEF IInv, TypeOK, NoHandleNoChannel
    <2>2. \E k \in DOMAIN queue'[Here] : queue'[Here][k] = "Stop"
      <3> DEFINE q == queue[Here]
      <3>1. q \in Seq({"Text", "Ping", "ConnectedStatus", "Stop"}) /\ Len(q) \in Nat
        BY <1>1 DEF IInv, TypeOK
      <3>2. queue'[Here] = Append(q, "Stop")
        BY <1>1, <1>2 DEF IInv, TypeOK
      <3>3. Len(q) + 1 \in DOMAIN Append(q, "Stop") /\ Append(q, "Stop")[Len(q) + 1] = "Stop"
        BY <3>1
      <3> QED  BY <3>2, <3>3
    <2>3. Here' = Here
      BY <1>2 DEF Here
    <2> QED  BY <1>2, <2>1, <2>2, <2>3 DEF NoHandleNoChannel
  <1>5. Walk' /\ Holding' /\ OneOwner' /\ LiveSocketNeverLost' /\ Passed'
    BY <1>2 DEF IInv, Walk, AtWorker, Holding, OneOwner, LiveSocketNeverLost,
                Owned, InPool, Passed
  <1> QED  BY <1>3, <1>4, <1>5 DEF IInv

(* stop goes on from a worker whose thread has ended. *)
LEMMA JoinInv == ASSUME IInv, Join PROVE IInv'
  <1>1. lock = "stop" /\ AtWorker /\ sock[Here] # "up"
    BY DEF Join, IInv, Walk
  <1>2. \A w \in Workers : sock[w] = "up" => handle[w]
    BY <1>1 DEF IInv, NoHandleNoChannel
  <1>3. /\ UNCHANGED <<pool, held, spc, workerVars, result, countVars>>
        /\ step' = "visit" /\ answer' = "none"
        /\ \/ at' = at + 1 /\ lock' = lock /\ panicked' = panicked
           \/ at' = 1 /\ lock' = "none" /\ panicked' = panicked \cup {lock}
    BY DEF Join, Advance, Panic, Release
  <1>4. TypeOK'
    <2>1. at' \in 1..(Len(pool') + 1)
      BY <1>1, <1>3 DEF IInv, TypeOK, AtWorker
    <2>2. panicked' \subseteq Holders /\ lock' \in Holders \cup {"none"}
      BY <1>1, <1>3 DEF IInv, TypeOK, Holders
    <2> QED  BY <1>3, <2>1, <2>2 DEF IInv, TypeOK, Steps
  <1>5. Passed'
    BY <1>1, <1>3 DEF IInv, TypeOK, Passed, Here
  <1>6. NoHandleNoChannel'
    BY <1>2, <1>3 DEF NoHandleNoChannel
  <1>7. Walk' /\ Holding' /\ OneOwner' /\ LiveSocketNeverLost'
    BY <1>1, <1>3 DEF IInv, Walk, AtWorker, Holding, OneOwner, LiveSocketNeverLost,
                      Owned, InPool
  <1> QED  BY <1>4, <1>5, <1>6, <1>7 DEF IInv

(* Drop clears the pool when nobody walks it. *)
LEMMA DropInv == ASSUME IInv, DropClient PROVE IInv'
  <1>1. /\ pool' = <<>> /\ alive' = FALSE /\ lock = "none"
        /\ UNCHANGED <<held, spc, workerVars, holderVars, sends, deaths>>
    BY DEF DropClient, Cleared, Free
  <1>2. pool' \in Seq(Workers) /\ Len(pool') = 0 /\ DOMAIN pool' = {}
    BY <1>1
  <1>3. TypeOK'
    <2>1. at' \in 1..(Len(pool') + 1)
      BY <1>1, <1>2 DEF IInv, Walk
    <2> QED  BY <1>1, <1>2, <2>1 DEF IInv, TypeOK
  <1>4. OneOwner'
    BY <1>1, <1>2 DEF IInv, OneOwner, InPool
  <1>5. Walk' /\ Holding' /\ LiveSocketNeverLost' /\ NoHandleNoChannel' /\ Passed'
    BY <1>1 DEF IInv, Walk, Holding, LiveSocketNeverLost, NoHandleNoChannel, Passed
  <1> QED  BY <1>3, <1>4, <1>5 DEF IInv

(* Every step of Client::send, of the socket threads, of the walks and of  *)
(* Drop keeps the invariant. *)
LEMMA NextInv == IInv /\ [Next]_vars => IInv'
  <1> SUFFICES ASSUME IInv, [Next]_vars PROVE IInv'
    OBVIOUS
  <1>1. ASSUME NEW s \in Senders,
               \/ Pop(s) \/ PopEmpty(s) \/ Enqueue(s) \/ Discard(s)
               \/ Push(s) \/ HttpDone(s)
        PROVE  IInv'
    BY <1>1, PopInv, HttpInv, EnqueueInv, DiscardInv, PushInv
  <1>2. ASSUME NEW w \in Workers, Serve(w) \/ Die(w) \/ HangUp(w) PROVE IInv'
    BY <1>2, ServeInv, EndingInv
  <1>3. CASE (\E h \in Holders : Acquire(h)) \/ HolderStep
    BY <1>3, WalkInv, NotConnectedInv, ConnectOkInv, StopInv, JoinInv DEF HolderStep
  <1>4. CASE DropClient
    BY <1>4, DropInv
  <1>5. CASE UNCHANGED vars
    BY <1>5 DEF vars, IInv, TypeOK, Walk, Holding, OneOwner, LiveSocketNeverLost,
                NoHandleNoChannel, Passed, Owned, InPool, AtWorker, Here
  <1> QED  BY <1>1, <1>2, <1>3, <1>4, <1>5 DEF Next

-----------------------------------------------------------------------------
(* The theorems *)

(* The inductive invariant of the pool holds in every behaviour. *)
THEOREM Invariant == Spec => []IInv
  BY InitInv, NextInv, PTL DEF Spec

(* The pool, the workers and the walks keep their types: in particular the *)
(* position of a walk stays within the pool while others use it. *)
THEOREM TypeCorrect == Spec => []TypeOK
  <1>1. IInv => TypeOK
    BY DEF IInv
  <1> QED  BY Invariant, <1>1, PTL

(* No worker is in two hands: Client::send takes it out of the pool while  *)
(* it uses it, and puts it back once. *)
THEOREM OwnerUnique == Spec => []OneOwner
  <1>1. IInv => OneOwner
    BY DEF IInv
  <1> QED  BY Invariant, <1>1, PTL

(* Client::send loses no worker whose connection is up. *)
THEOREM LiveSocketKept == Spec => []LiveSocketNeverLost
  <1>1. IInv => LiveSocketNeverLost
    BY DEF IInv
  <1> QED  BY Invariant, <1>1, PTL

(* expect("is only called once") in SocketWorker::stop cannot panic: a     *)
(* worker whose channel is open has its handle, or is being joined. *)
THEOREM HandleThere == Spec => []NoHandleNoChannel
  <1>1. IInv => NoHandleNoChannel
    BY DEF IInv
  <1> QED  BY Invariant, <1>1, PTL

(* A Client::stop that returns Ok leaves no live socket in the pool. *)
THEOREM StopIsComplete == Spec => StopStops
  <1> DEFINE A == lock = "stop" /\ lock' = "none" /\ result' = "Ok"
                    => \A w \in Workers : InPool(w) => sock[w] # "up"
  <1>1. IInv /\ [Next]_vars => [A]_vars
    <2> SUFFICES ASSUME IInv, Next, lock = "stop", lock' = "none", result' = "Ok"
                 PROVE  \A w \in Workers : InPool(w) => sock[w] # "up"
      OBVIOUS
    <2>1. CASE Finish
      <3>1. at = Len(pool) + 1
        BY <2>1 DEF Finish, AtWorker, IInv, TypeOK
      <3>2. \A k \in DOMAIN pool : sock[pool[k]] # "up"
        BY <3>1 DEF IInv, TypeOK, Passed
      <3> QED  BY <3>2 DEF InPool
    <2>2. ASSUME ~Finish PROVE result' \in {"none", "Err"}
      <3>1. result = "none"
        BY DEF IInv, Passed
      <3> QED  BY <2>2, <3>1 DEF Next, HolderStep, Pop, PopEmpty, Enqueue, Discard, Push,
            HttpDone, Serve, Die, HangUp, End, Acquire, Ping, PingFails, Pong, Status, Ask,
            NotConnected, StatusYes, StatusCanceled, ConnectOk, ReconnectFails, Stop,
            StopFails, StopError, Join, DropClient
    <2> QED  BY <2>1, <2>2
  <1> QED  BY Invariant, <1>1, PTL DEF Spec, StopStops

=============================================================================
