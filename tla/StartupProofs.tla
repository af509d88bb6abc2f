---------------------------- MODULE StartupProofs ---------------------------
(***************************************************************************)
(* Theorems about Startup, for every number of workers.                    *)
(*                                                                         *)
(* While Client::new connects its workers, the pool has the first of them  *)
(* in their order (Building).  Later the pool only turns, or loses its     *)
(* first worker to a request that finds the channel closed (Whole); a      *)
(* worker with a live socket is never the one that is lost (Kept).         *)
(***************************************************************************)
EXTENDS Startup, SequenceTheorems, TLAPS

(* Client::new has put the workers before the current one in the pool. *)
Building ==
    /\ step = "next" => Len(pool) = made
    /\ step \in {"connect", "settle", "status"} => made # 0 /\ Len(pool) = made - 1
    /\ step \in {"next", "connect", "settle", "status"} => \A i \in DOMAIN pool : pool[i] = i
    /\ mine = IF step \in {"settle", "status"} THEN {made} ELSE {}

(* The request takes at most one worker away, and doubles none. *)
Whole ==
    /\ step = "ask" => Len(pool) = Total
    /\ step \in {"ask", "post", "select", "ready"} =>
         /\ Len(pool) >= Total - 1
         /\ \A i, j \in DOMAIN pool : pool[i] = pool[j] => i = j

(* A worker with a live socket is in the pool or about to be. *)
Kept ==
    step \notin {"failed", "panicked"} =>
      \A w \in Workers : th[w] = "up" => InPool(w) \/ w \in mine

(* Only an answer hands the client out. *)
Answered == step = "ready" => req = "ok"

(* The inductive invariant. *)
IInv == TypeOK /\ Building /\ Whole /\ Kept /\ Answered

USE DEF newVars, sockVars

-----------------------------------------------------------------------------
(* The steps *)

(* Nothing is there when Client::new begins. *)
LEMMA InitInv == Init => IInv
  <1> SUFFICES ASSUME Init PROVE IInv
    OBVIOUS
  <1>1. TypeOK
    <2>1. /\ th \in [Workers -> {"none", "tcp", "shaking", "offer", "up", "closed", "panicked"}]
          /\ mid \in [Workers -> Handshake \cup {"None"}]
          /\ queue \in [Workers -> {"empty", "ConnectedStatus", "Text"}]
      BY DEF Init
    <2>2. \A w \in Workers : th[w] # "shaking"
      BY DEF Init
    <2>3. pool \in Seq(Workers)
      BY EmptySeq DEF Init
    <2>4. made \in 0..Total /\ mine \subseteq Workers /\ asked \subseteq Workers
      BY StartupAssumption DEF Init
    <2> QED  BY <2>1, <2>2, <2>3, <2>4 DEF Init, TypeOK
  <1>2. Building /\ Whole /\ Kept /\ Answered
    BY DEF Init, Building, Whole, Kept, Answered
  <1> QED  BY <1>1, <1>2 DEF IInv

(* A start that fails drops what it has built. *)
LEMMA LeaveInv ==
    ASSUME IInv, NEW s \in {"failed", "panicked"}, Leave(s),
           UNCHANGED <<made, threads, timer, sockVars>>,
           answer' \in {"none", answer}
    PROVE  IInv'
  <1>1. TypeOK'
    BY DEF IInv, TypeOK, Leave, Cleared, Ended
  <1>2. Building' /\ Whole' /\ Kept' /\ Answered'
    BY DEF Leave, Cleared, Building, Whole, Kept, Answered
  <1> QED  BY <1>1, <1>2 DEF IInv

(* The next socket thread is started. *)
LEMMA ConnectInv == ASSUME IInv, Connect PROVE IInv'
  <1>1. /\ step = "next" /\ step' = "connect"
        /\ made < Total /\ made' = made + 1
        /\ th' = [th EXCEPT ![made + 1] = "tcp"]
        /\ UNCHANGED <<mine, pool, threads, answer, req, timer, mid, queue, asked>>
    BY DEF Connect
  <1>2. made' \in Workers
    BY <1>1, StartupAssumption DEF IInv, TypeOK, Workers
  <1>3. TypeOK'
    BY <1>1, <1>2, StartupAssumption DEF IInv, TypeOK, Workers
  <1>4. Building'
    BY <1>1, StartupAssumption DEF IInv, TypeOK, Building
  <1>5. Kept'
    BY <1>1 DEF IInv, TypeOK, Kept, InPool
  <1>6. Whole' /\ Answered'
    BY <1>1 DEF Whole, Answered
  <1> QED  BY <1>3, <1>4, <1>5, <1>6 DEF IInv

(* The constructor takes the connected worker from the meeting. *)
LEMMA MeetInv == ASSUME IInv, Meet PROVE IInv'
  <1>1. /\ step = "connect" /\ step' = "settle"
        /\ th' = [th EXCEPT ![made] = "up"]
        /\ mine' = {made}
        /\ UNCHANGED <<made, pool, threads, answer, req, timer, mid, queue, asked>>
    BY DEF Meet
  <1>2. made \in Workers
    BY <1>1, StartupAssumption DEF IInv, TypeOK, Building, Workers
  <1>3. TypeOK'
    BY <1>1, <1>2 DEF IInv, TypeOK
  <1>4. Building' /\ Whole' /\ Answered'
    BY <1>1 DEF IInv, Building, Whole, Answered
  <1>5. Kept'
    BY <1>1 DEF IInv, TypeOK, Building, Kept, InPool
  <1> QED  BY <1>3, <1>4, <1>5 DEF IInv

(* push_back puts the worker after those before it. *)
LEMMA PushBackInv ==
    ASSUME IInv, step \in {"settle", "status"}, PushBack,
           UNCHANGED <<req, timer, sockVars>>, answer' \in {"none", answer}
    PROVE  IInv'
  <1>1. /\ pool' = Append(pool, made)
        /\ mine' = {} /\ step' = "next"
        /\ UNCHANGED <<made, threads>>
    BY DEF PushBack
  <1>2. /\ made \in Workers /\ mine = {made}
        /\ pool \in Seq(Workers) /\ Len(pool) \in Nat /\ Len(pool) = made - 1
        /\ \A i \in 1..Len(pool) : pool[i] = i
    BY StartupAssumption DEF IInv, TypeOK, Building, Workers
  <1>3. /\ pool' \in Seq(Workers) /\ Len(pool') = made /\ made \in Nat
        /\ \A i \in 1..Len(pool) : pool'[i] = pool[i]
        /\ pool'[made] = made
    BY <1>1, <1>2 DEF Workers
  <1>4. TypeOK'
    BY <1>1, <1>3 DEF IInv, TypeOK
  <1>5. Building'
    BY <1>1, <1>2, <1>3 DEF Building
  <1>6. \A w \in Workers : InPool(w) \/ w \in mine => InPool(w)'
    BY <1>2, <1>3 DEF InPool
  <1>7. Kept'
    BY <1>1, <1>6 DEF IInv, Kept
  <1>8. Whole' /\ Answered'
    BY <1>1 DEF Whole, Answered
  <1> QED  BY <1>4, <1>5, <1>7, <1>8 DEF IInv

(* Before the worker is put in the pool it may be asked for its status. *)
LEMMA StatusInv == ASSUME IInv, Settle \/ AskStatus \/ Status PROVE IInv'
  <1>1. CASE Settle
    BY <1>1, PushBackInv DEF Settle
  <1>2. CASE AskStatus
    <2>1. made \in Workers
      BY <1>2, StartupAssumption DEF AskStatus, IInv, TypeOK, Building, Workers
    <2>2. TypeOK'
      BY <1>2, <2>1 DEF AskStatus, IInv, TypeOK
    <2>3. Building' /\ Whole' /\ Kept' /\ Answered'
      BY <1>2 DEF AskStatus, IInv, Building, Whole, Kept, Answered, InPool
    <2> QED  BY <2>2, <2>3 DEF IInv
  <1>3. CASE Status
    BY <1>3, PushBackInv, LeaveInv DEF Status
  <1> QED  BY <1>1, <1>2, <1>3

(* All workers are in the pool when the request is made. *)
LEMMA ConnectedInv == ASSUME IInv, Connected PROVE IInv'
  <1>1. TypeOK'
    BY DEF Connected, IInv, TypeOK
  <1>2. Building' /\ Whole'
    BY StartupAssumption DEF Connected, IInv, TypeOK, Building, Whole
  <1>3. Kept' /\ Answered'
    BY DEF Connected, IInv, Kept, Answered, InPool
  <1> QED  BY <1>1, <1>2, <1>3 DEF IInv

(* Client::send turns the pool, or takes a worker away whose channel is    *)
(* closed. *)
LEMMA RequestInv == ASSUME IInv, Request PROVE IInv'
  <1>1. /\ step = "ask" /\ req' = "open" /\ step' \in {"select", "post"}
        /\ UNCHANGED <<made, mine, threads, answer, timer, th, mid, asked>>
    BY DEF Request
  <1>2. /\ pool \in Seq(Workers) /\ Len(pool) = Total /\ Total \in Nat
        /\ DOMAIN pool = 1..Total
        /\ \A i, j \in 1..Total : pool[i] = pool[j] => i = j
    BY <1>1, StartupAssumption DEF IInv, TypeOK, Whole
  <1>3. Building' /\ Answered'
    BY <1>1 DEF IInv, Building, Answered
  <1>4. SUFFICES TypeOK' /\ Whole' /\ Kept'
    BY <1>3 DEF IInv
  <1>5. CASE pool = <<>>
    BY <1>1, <1>2, <1>5 DEF Request, IInv, TypeOK, Whole, Kept, InPool
  <1>6. CASE pool # <<>>
    <2>1. Total # 0
      BY <1>2, <1>6
    <2>2. PICK w \in Workers : w = Head(pool)
      BY <1>2, <1>6, HeadTailProperties
    <2>3. /\ Tail(pool) \in Seq(Workers) /\ Len(Tail(pool)) = Total - 1
          /\ DOMAIN Tail(pool) = 1..(Total - 1)
          /\ \A i \in 1..(Total - 1) : Tail(pool)[i] = pool[i + 1]
          /\ pool[1] = w
      BY <1>2, <1>6, <2>2, HeadTailProperties
    <2>4. CASE Send /\ step' = "select"
      <3>1. /\ pool' = Append(Tail(pool), w)
            /\ queue' = [queue EXCEPT ![w] = "Text"]
        BY <2>2, <2>4 DEF Send
      <3>2. /\ pool' \in Seq(Workers) /\ Len(pool') = Total /\ DOMAIN pool' = 1..Total
            /\ \A i \in 1..(Total - 1) : pool'[i] = pool[i + 1]
            /\ pool'[Total] = pool[1]
        BY <1>2, <2>1, <2>3, <3>1
      <3>3. TypeOK'
        BY <1>1, <2>4, <3>1, <3>2 DEF IInv, TypeOK
      <3>4. Whole'
        <4>1. ASSUME NEW i \in 1..Total, NEW j \in 1..Total, pool'[i] = pool'[j]
              PROVE  i = j
          <5>1. CASE i # Total /\ j # Total
            BY <1>2, <3>2, <4>1, <5>1
          <5>2. CASE i = Total \/ j = Total
            BY <1>2, <2>1, <3>2, <4>1, <5>2
          <5> QED  BY <5>1, <5>2
        <4> QED  BY <1>2, <2>4, <3>2, <4>1 DEF Whole
      <3>5. ASSUME NEW x \in Workers, InPool(x) PROVE InPool(x)'
        <4>1. PICK k \in 1..Total : pool[k] = x
          BY <1>2, <3>5 DEF InPool
        <4>2. CASE k = 1
          BY <2>1, <1>2, <3>2, <4>1, <4>2 DEF InPool
        <4>3. CASE k # 1
          <5>1. k - 1 \in 1..(Total - 1) /\ pool'[k - 1] = pool[(k - 1) + 1]
            BY <1>2, <3>2, <4>1, <4>3
          <5>2. k - 1 \in DOMAIN pool' /\ pool'[k - 1] = x
            BY <1>2, <3>2, <4>1, <5>1
          <5> QED  BY <5>2 DEF InPool
        <4> QED  BY <4>2, <4>3
      <3>6. Kept'
        BY <1>1, <2>4, <3>5 DEF IInv, Kept
      <3> QED  BY <3>3, <3>4, <3>6
    <2>5. CASE pool' = Tail(pool) /\ step' = "post" /\ UNCHANGED queue /\ th[w] # "up"
      <3>1. TypeOK'
        BY <1>1, <2>3, <2>5 DEF IInv, TypeOK
      <3>2. Whole'
        BY <1>2, <2>3, <2>5 DEF Whole
      <3>3. ASSUME NEW x \in Workers, InPool(x), x # w PROVE InPool(x)'
        <4>1. PICK k \in 1..Total : pool[k] = x
          BY <1>2, <3>3 DEF InPool
        <4>2. k - 1 \in 1..(Total - 1) /\ Tail(pool)[k - 1] = pool[(k - 1) + 1]
          BY <1>2, <2>3, <3>3, <4>1
        <4>3. k - 1 \in DOMAIN pool' /\ pool'[k - 1] = x
          BY <1>2, <2>3, <2>5, <4>1, <4>2
        <4> QED  BY <4>3 DEF InPool
      <3>4. Kept'
        BY <1>1, <2>5, <3>3 DEF IInv, Kept
      <3> QED  BY <3>1, <3>2, <3>4
    <2> QED  BY <1>6, <2>2, <2>4, <2>5 DEF Request
  <1> QED  BY <1>5, <1>6

(* The wait for the answer. *)
LEMMA SelectInv ==
    ASSUME IInv, PostReturns \/ SelectAnswer \/ Elapse \/ Reap
    PROVE  IInv'
  <1>1. TypeOK'
    BY DEF IInv, TypeOK, PostReturns, SelectAnswer, Elapse, Reap, Ended
  <1>2. Building' /\ Whole' /\ Kept' /\ Answered'
    BY DEF IInv, Building, Whole, Kept, Answered, InPool,
           PostReturns, SelectAnswer, Elapse, Reap
  <1> QED  BY <1>1, <1>2 DEF IInv

(* A handshake that is interrupted again puts its state back, so the next  *)
(* poll finds it. *)
LEMMA ShakeInv == ASSUME IInv, NEW w \in Workers, Shake(w) PROVE IInv'
  <1>1. mid[w] \in Handshake /\ th[w] = "shaking"
    BY DEF IInv, TypeOK, Shake
  <1>2. PICK r \in Handshake :
          /\ mid' = [mid EXCEPT ![w] = PutBack(r)]
          /\ th' = [th EXCEPT ![w] = CASE r = "Ok" -> "offer"
                                       [] r = "Failure" -> "closed"
                                       [] r = "Interrupted" -> "shaking"
                                       [] r = "None" -> "panicked"]
    BY <1>1 DEF Shake
  <1>3. /\ UNCHANGED <<newVars, answer, req, timer, queue, asked>>
        /\ \/ /\ mid' = [mid EXCEPT ![w] = "None"]
              /\ \E t \in {"offer", "closed"} : th' = [th EXCEPT ![w] = t]
           \/ /\ mid' = [mid EXCEPT ![w] = "Interrupted"]
              /\ th' = [th EXCEPT ![w] = "shaking"]
    BY <1>2 DEF Shake, Handshake, PutBack
  <1>4. TypeOK'
    BY <1>3 DEF IInv, TypeOK, Handshake
  <1>5. Building' /\ Whole' /\ Kept' /\ Answered'
    BY <1>3 DEF IInv, TypeOK, Building, Whole, Kept, Answered, InPool
  <1> QED  BY <1>4, <1>5 DEF IInv

(* A socket thread serves, ends or does not come up; none comes up by      *)
(* itself. *)
LEMMA ThreadInv ==
    ASSUME IInv, NEW w \in Workers,
           Tcp(w) \/ OfferFails(w) \/ Serve(w) \/ Reply(w) \/ Die(w) \/ HangUp(w)
    PROVE  IInv'
  <1>1. TypeOK'
    <2> USE DEF IInv, TypeOK
    <2>1. CASE Tcp(w)
      BY <2>1 DEF Tcp, Handshake
    <2>2. CASE OfferFails(w)
      BY <2>2 DEF OfferFails
    <2>3. CASE Serve(w)
      BY <2>3 DEF Serve, start_send
    <2>4. CASE Reply(w)
      BY <2>4 DEF Reply
    <2>5. CASE Die(w) \/ HangUp(w)
      <3>1. PICK c \in {"closed", "panicked"} : End(w, c)
        BY <2>5 DEF Die, HangUp
      <3> QED  BY <3>1 DEF End
    <2> QED  BY <2>1, <2>2, <2>3, <2>4, <2>5
  <1>2. /\ UNCHANGED newVars
        /\ req' = req \/ req = "open"
        /\ \A x \in Workers : th'[x] = "up" => th[x] = "up"
    BY DEF IInv, TypeOK, Tcp, OfferFails, Serve, Reply, Die, HangUp, End
  <1>3. Building' /\ Whole' /\ Kept' /\ Answered'
    BY <1>2 DEF IInv, Building, Whole, Kept, Answered, InPool
  <1> QED  BY <1>1, <1>3 DEF IInv

(* Every step of the constructor and of the threads keeps the invariant. *)
LEMMA NextInv == IInv /\ [Next]_vars => IInv'
  <1> SUFFICES ASSUME IInv, [Next]_vars PROVE IInv'
    OBVIOUS
  <1>1. CASE ConnectTimesOut \/ SelectFails
    BY <1>1, LeaveInv DEF ConnectTimesOut, SelectFails
  <1>2. CASE New
    BY <1>1, <1>2, ConnectInv, MeetInv, StatusInv, ConnectedInv, RequestInv, SelectInv DEF New
  <1>3. CASE PostReturns \/ Elapse \/ Reap
    BY <1>3, SelectInv
  <1>4. ASSUME NEW w \in Workers,
               \/ Tcp(w) \/ Shake(w) \/ OfferFails(w)
               \/ Serve(w) \/ Reply(w) \/ Die(w) \/ HangUp(w)
        PROVE  IInv'
    BY <1>4, ShakeInv, ThreadInv
  <1>5. CASE UNCHANGED vars
    BY <1>5 DEF vars, IInv, TypeOK, Building, Whole, Kept, Answered, InPool
  <1> QED  BY <1>2, <1>3, <1>4, <1>5 DEF Next

-----------------------------------------------------------------------------
(* The theorems *)

(* The inductive invariant of the start holds in every behaviour. *)
THEOREM Invariant == Spec => []IInv
  BY InitInv, NextInv, PTL DEF Spec

(* The types hold; in particular expect("Cannot poll MidHandshake twice")  *)
(* in MidHandshake::poll finds the state of the handshake. *)
THEOREM TypeCorrect == Spec => []TypeOK
  <1>1. IInv => TypeOK
    BY DEF IInv
  <1> QED  BY Invariant, <1>1, PTL

(* YumClient::with_timeout returns a client whose node has answered, with  *)
(* each worker once but for at most one, and none lost that is connected. *)
THEOREM WholeClient == Spec => []HandedOutWhole
  <1>1. IInv => HandedOutWhole
    BY DEF IInv, Building, Whole, Kept, Answered, HandedOutWhole
  <1> QED  BY Invariant, <1>1, PTL

=============================================================================
