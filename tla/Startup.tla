------------------------------ MODULE Startup -------------------------------
(***************************************************************************)
(* YumClient::with_timeout (src/yum.rs) makes a client: Client::new        *)
(* connects its workers one after the other (src/client/mod.rs), each by a *)
(* socket thread that goes through the TCP connection and the websocket    *)
(* handshake (src/client/tcp.rs) and then meets the constructor in a       *)
(* channel of capacity 0; when all are there, the constructor asks for the *)
(* number of the last block, and races the answer against a timer.  One    *)
(* failure fails it all, and what was built is dropped.                    *)
(*                                                                         *)
(* Workers are numbered as they are made.  A socket thread is here what it *)
(* is in SocketPool; there is at most one message in a channel while the   *)
(* client is made, so a channel is that message.  The sentinel sleeps.     *)
(***************************************************************************)
EXTENDS Integers, Sequences

CONSTANT
    Total       \* the number of hosts times num_connections

ASSUME StartupAssumption == Total \in Nat

Workers == 1..Total

VARIABLES
    step,       \* where the constructor is
    made,       \* Client::worker_id: how many workers it has begun
    mine,       \* the worker it has connected and not put in the pool
    pool,       \* Client::sockets
    answer,     \* the oneshot channel of its ConnectedStatus
    req,        \* the oneshot channel of its request
    timer,      \* the timer it races has elapsed
    threads,    \* the threads of with_timeout and with_sentinel
    th,         \* th[w]: the socket thread of w
    mid,        \* mid[w]: MidHandshake::inner in that thread
    queue,      \* queue[w]: the channel to it
    asked       \* the threads that have written the request

newVars == <<step, made, mine, pool, threads>>
sockVars == <<th, mid, queue, asked>>
vars == <<newVars, answer, req, timer, sockVars>>

Ended == {"ready", "failed", "panicked"}

InPool(w) == \E i \in DOMAIN pool : pool[i] = w

(* The results of ClientHandshake::handshake. *)
Handshake == {"Ok", "Failure", "Interrupted"}

(* The shapes every variable keeps; and a handshake that is under way can  *)
(* be polled: what expect("Cannot poll MidHandshake twice") takes is there. *)
TypeOK ==
    /\ step \in {"next", "connect", "settle", "status", "ask", "post", "select"} \cup Ended
    /\ made \in 0..Total
    /\ mine \subseteq Workers
    /\ pool \in Seq(Workers)
    /\ answer \in {"none", "waiting", "yes", "canceled"}
    /\ req \in {"none", "open", "ok", "err", "dropped"}
    /\ timer \in BOOLEAN
    /\ threads \subseteq {"timeout", "sentinel"}
    /\ th \in [Workers -> {"none", "tcp", "shaking", "offer", "up", "closed", "panicked"}]
    /\ mid \in [Workers -> Handshake \cup {"None"}]
    /\ queue \in [Workers -> {"empty", "ConnectedStatus", "Text"}]
    /\ asked \subseteq Workers
    /\ \A w \in Workers : th[w] = "shaking" => mid[w] # "None"

Init ==
    /\ step = "next"
    /\ made = 0
    /\ mine = {}
    /\ pool = <<>>
    /\ answer = "none"
    /\ req = "none"
    /\ timer = FALSE
    /\ threads = {}
    /\ th = [w \in Workers |-> "none"]
    /\ mid = [w \in Workers |-> "None"]
    /\ queue = [w \in Workers |-> "empty"]
    /\ asked = {}

-----------------------------------------------------------------------------
(* Client::new *)

(* Mutant: dropping the client leaves the workers to the other owners of   *)
(* the pool. *)
ClearedNot == pool

(* Drop for Client clears the pool. *)
Cleared == <<>>

(* The constructor leaves with s.  Unwinding, or the error on its way out, *)
(* drops the client, and with it the pool and the pending requests. *)
Leave(s) ==
    /\ step' = s
    /\ mine' = {}
    /\ pool' = Cleared
    /\ req' = IF req = "open" THEN "dropped" ELSE req

(* SocketWorker::connect starts the socket thread of the next worker. *)
Connect ==
    /\ step = "next"
    /\ made < Total
    /\ made' = made + 1
    /\ th' = [th EXCEPT ![made + 1] = "tcp"]
    /\ step' = "connect"
    /\ UNCHANGED <<mine, pool, threads, answer, req, timer, mid, queue, asked>>

(* try_recv takes what the socket thread offers; both go on. *)
Meet ==
    /\ step = "connect"
    /\ th[made] = "offer"
    /\ th' = [th EXCEPT ![made] = "up"]
    /\ mine' = {made}
    /\ step' = "settle"
    /\ UNCHANGED <<made, pool, threads, answer, req, timer, mid, queue, asked>>

(* Mutant: recv instead of try_recv in a loop.                             *)
ConnectWaits ==
    /\ step = "connect"
    /\ th[made] \in {"closed", "panicked"}
    /\ Leave("failed")
    /\ UNCHANGED <<made, threads, answer, timer, sockVars>>

(* The time of connect is over: its end of the channel is dropped, and     *)
(* `?` fails Client::new. *)
ConnectTimesOut ==
    /\ step = "connect"
    /\ Leave("failed")
    /\ UNCHANGED <<made, threads, answer, timer, sockVars>>

(* sockets.lock().push_back(worker) *)
PushBack ==
    /\ pool' = Append(pool, made)
    /\ mine' = {}
    /\ step' = "next"
    /\ UNCHANGED <<made, threads>>

(* A second later start_connection logs whether the worker is connected,   *)
(* if messages of that level are logged at all: it is not, or nobody asks. *)
Settle ==
    /\ step = "settle"
    /\ PushBack
    /\ UNCHANGED <<answer, req, timer, sockVars>>

(* It asks. *)
AskStatus ==
    /\ step = "settle"
    /\ th[made] = "up"
    /\ queue' = [queue EXCEPT ![made] = "ConnectedStatus"]
    /\ answer' = "waiting"
    /\ step' = "status"
    /\ UNCHANGED <<made, mine, pool, threads, req, timer, th, mid, asked>>

(* The status is there; or its sender is gone, and expect("Status rx")     *)
(* panics. *)
Status ==
    /\ step = "status"
    /\ \/ answer = "yes" /\ PushBack /\ UNCHANGED req
       \/ answer = "canceled" /\ Leave("panicked") /\ UNCHANGED <<made, threads>>
    /\ answer' = "none"
    /\ UNCHANGED <<timer, sockVars>>

(* All workers are there: with_timeout and with_sentinel start theirs. *)
Connected ==
    /\ step = "next"
    /\ made = Total
    /\ threads' = {"timeout", "sentinel"}
    /\ step' = "ask"
    /\ UNCHANGED <<made, mine, pool, answer, req, timer, sockVars>>

-----------------------------------------------------------------------------
(* YumClient::with_timeout *)

(* Mutant: a worker is not put back after its use.                         *)
SendKeeps == queue' = [queue EXCEPT ![Head(pool)] = "Text"] /\ pool' = Tail(pool)

(* Client::send hands the text to the first worker and puts that at the    *)
(* end of the pool. *)
Send ==
    /\ queue' = [queue EXCEPT ![Head(pool)] = "Text"]
    /\ pool' = Append(Tail(pool), Head(pool))

(* c.request("eth_blockNumber", ..): the timer runs already.  A worker     *)
(* whose channel is closed is lost; without a worker, or with that one,    *)
(* the text is posted in this thread. *)
Request ==
    /\ step = "ask"
    /\ req' = "open"
    /\ IF pool # <<>> /\ th[Head(pool)] = "up"
         THEN Send /\ step' = "select"
         ELSE /\ pool' = IF pool = <<>> THEN <<>> ELSE Tail(pool)
              /\ step' = "post"
              /\ UNCHANGED queue
    /\ UNCHANGED <<made, mine, threads, answer, timer, th, mid, asked>>

(* The post is over: it failed, and the future is an error; or its answer  *)
(* resolves the request, or not. *)
PostReturns ==
    /\ step = "post"
    /\ step' = "select"
    /\ req' \in {"err", req} \cup (IF req = "open" THEN {"ok"} ELSE {})
    /\ UNCHANGED <<made, mine, pool, threads, answer, timer, sockVars>>

(* select2 has the answer: the client is handed out. *)
SelectAnswer ==
    /\ step = "select"
    /\ req = "ok"
    /\ step' = "ready"
    /\ UNCHANGED <<made, mine, pool, threads, answer, req, timer, sockVars>>

(* select2 has an error, or the timer while the request, which it polls    *)
(* first, is not resolved: the client is dropped. *)
SelectFails ==
    /\ step = "select"
    /\ req = "err" \/ (req = "open" /\ timer)
    /\ Leave("failed")
    /\ UNCHANGED <<made, threads, answer, timer, sockVars>>

Elapse ==
    /\ step \in {"ask", "post", "select"}
    /\ ~timer
    /\ timer' = TRUE
    /\ UNCHANGED <<newVars, answer, req, sockVars>>

(* The thread of with_timeout resolves the request, if the timer is so     *)
(* long. *)
Reap ==
    /\ "timeout" \in threads
    /\ req = "open"
    /\ req' = "err"
    /\ UNCHANGED <<newVars, answer, timer, sockVars>>

-----------------------------------------------------------------------------
(* The socket threads *)

(* connect_async: the connection is refused; the host is not an address,   *)
(* and unwrap panics; or it is there, and client_async begins the          *)
(* handshake. *)
Tcp(w) ==
    /\ th[w] = "tcp"
    /\ \/ th' = [th EXCEPT ![w] = "closed"] /\ UNCHANGED mid
       \/ th' = [th EXCEPT ![w] = "panicked"] /\ UNCHANGED mid
       \/ /\ th' = [th EXCEPT ![w] = "shaking"]
          /\ \E r \in Handshake : mid' = [mid EXCEPT ![w] = r]
    /\ UNCHANGED <<newVars, answer, req, timer, queue, asked>>

(* Mutant: the state of an interrupted handshake is not put back.          *)
PutBackLost(r) == "None"

(* What a poll of MidHandshake leaves in `inner` after the result r. *)
PutBack(r) == IF r = "Interrupted" THEN r ELSE "None"

(* MidHandshake::poll takes `inner`, tries again if it was interrupted,    *)
(* and puts it back if it is interrupted again.  Nothing there is          *)
(* expect("Cannot poll MidHandshake twice"). *)
Shake(w) ==
    /\ th[w] = "shaking"
    /\ \E r \in IF mid[w] = "Interrupted" THEN Handshake ELSE {mid[w]} :
         /\ mid' = [mid EXCEPT ![w] = PutBack(r)]
         /\ th' = [th EXCEPT ![w] = CASE r = "Ok" -> "offer"
                                      [] r = "Failure" -> "closed"
                                      [] r = "Interrupted" -> "shaking"
                                      [] r = "None" -> "panicked"]
    /\ UNCHANGED <<newVars, answer, req, timer, queue, asked>>

(* conn_tx.send(true).unwrap(): connect has given up, its end is gone. *)
OfferFails(w) ==
    /\ th[w] = "offer"
    /\ ~(step = "connect" /\ made = w)
    /\ th' = [th EXCEPT ![w] = "panicked"]
    /\ UNCHANGED <<newVars, answer, req, timer, mid, queue, asked>>

(* start_send of a text: an error is only logged, and that the socket      *)
(* would block is not told. *)
start_send(w) == asked' \in {asked, asked \cup {w}}

(* The thread takes the message in its channel. *)
Serve(w) ==
    /\ th[w] = "up"
    /\ queue[w] # "empty"
    /\ queue' = [queue EXCEPT ![w] = "empty"]
    /\ IF queue[w] = "Text" THEN start_send(w) /\ UNCHANGED answer
                            ELSE answer' = "yes" /\ UNCHANGED asked
    /\ UNCHANGED <<newVars, req, timer, th, mid>>

(* An answer to the request: a result, or an error or a result that is no  *)
(* number. *)
Reply(w) ==
    /\ th[w] = "up"
    /\ w \in asked
    /\ req = "open"
    /\ req' \in {"ok", "err"}
    /\ UNCHANGED <<newVars, answer, timer, sockVars>>

(* The thread ends, with what is in its channel. *)
End(w, s) ==
    /\ th' = [th EXCEPT ![w] = s]
    /\ queue' = [queue EXCEPT ![w] = "empty"]
    /\ answer' = IF queue[w] = "ConnectedStatus" THEN "canceled" ELSE answer
    /\ UNCHANGED <<newVars, req, timer, mid, asked>>

(* The connection is lost, or handling a message panics. *)
Die(w) ==
    /\ th[w] = "up"
    /\ \E s \in {"closed", "panicked"} : End(w, s)

(* Nobody can send to the thread any more. *)
HangUp(w) ==
    /\ th[w] = "up"
    /\ ~InPool(w)
    /\ w \notin mine
    /\ queue[w] = "empty"
    /\ End(w, "closed")

-----------------------------------------------------------------------------

New ==
    \/ Connect \/ Meet \/ ConnectTimesOut \/ Settle \/ AskStatus \/ Status
    \/ Connected \/ Request \/ SelectAnswer \/ SelectFails

Next ==
    \/ New \/ PostReturns \/ Elapse \/ Reap
    \/ \E w \in Workers : \/ Tcp(w) \/ Shake(w) \/ OfferFails(w)
                          \/ Serve(w) \/ Reply(w) \/ Die(w) \/ HangUp(w)

Spec == Init /\ [][Next]_vars

(* Threads are scheduled; connect gives up after its timeout and the timer *)
(* elapses.  Nothing is assumed of the hosts, nor that a post returns. *)
Fairness ==
    /\ WF_vars(New)
    /\ WF_vars(Elapse)
    /\ \A w \in Workers : WF_vars(OfferFails(w)) /\ WF_vars(Serve(w)) /\ WF_vars(HangUp(w))

FairSpec == Spec /\ Fairness

-----------------------------------------------------------------------------
(* Properties *)

(* A client that is handed out has an answer from its node, and each of    *)
(* its workers once, but for at most one whose connection was lost before  *)
(* the request was sent over it. *)
HandedOutWhole ==
    step = "ready" =>
      /\ req = "ok"
      /\ \A i, j \in DOMAIN pool : pool[i] = pool[j] => i = j
      /\ Len(pool) >= Total - 1
      /\ \A w \in Workers : th[w] = "up" => InPool(w)

(* The constructor returns, whatever the hosts do, unless it waits for a   *)
(* post: neither the meeting with a socket thread, nor the status, nor the *)
(* request keep it for ever. *)
StartReturns == []<>(step \in Ended \cup {"post"})

(* A start that fails leaves no connection behind, of those that were up   *)
(* when it failed and of those that come up later. *)
FailedStartEndsSockets ==
    \A w \in Workers :
      step \in {"failed", "panicked"} /\ th[w] \in {"offer", "up"}
        ~> th[w] \in {"closed", "panicked"}

=============================================================================
