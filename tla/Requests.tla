------------------------------ MODULE Requests ------------------------------
(***************************************************************************)
(* How the client correlates JSON-RPC requests with their answers          *)
(* (src/client/mod.rs): Client::request and Client::batch_request take ids *)
(* from a shared counter, park the sending half of a oneshot channel in    *)
(* `pending`, note the time in `ts` and send the text; the socket threads  *)
(* and send_http resolve `pending` from the answers; the thread started by *)
(* with_timeout resolves what is older than ten seconds.  The receiving    *)
(* half is in the YumFuture that the call returns; polling it, or dropping *)
(* it, touches none of this state.                                         *)
(*                                                                         *)
(* A request is a pair <<c, k>>, the k-th request of the call c.  Only the *)
(* identity of a request and the kind of its answer are kept of the data.  *)
(***************************************************************************)
EXTENDS Integers

CONSTANTS
    Calls,      \* the calls of request and batch_request that are made
    Batch,      \* those of batch_request
    Size,       \* how many requests a call carries (1 outside Batch)
    Epoch,      \* the clock (Unix seconds) when the client is created
    LastIssue,  \* bound: no call begins after this second
    Expiry,     \* the ten seconds of `now - *k >= 10`
    MaxId,      \* bound: the largest request id handed out
    Notes       \* the request ids that a notification in the place of an
                \* answer to a post may carry as its subscription id; none for
                \* a server that notifies over its sockets only

(* Ids start at 1 while the clock stands at some 1.5 * 10^9: below the     *)
(* bound MaxId an id is never also a timestamp.                            *)
ASSUME RequestsAssumption ==
    /\ Batch \subseteq Calls
    /\ Size \in [Calls -> Nat \ {0}]
    /\ \A c \in Calls \ Batch : Size[c] = 1
    /\ Epoch \in Nat
    /\ LastIssue \in Nat
    /\ Epoch <= LastIssue
    /\ Expiry \in Nat \ {0}
    /\ MaxId \in Nat
    /\ MaxId < Epoch
    /\ Notes \subseteq 1..MaxId

Of(c) == {c} \X (1..Size[c])

Req == UNION {Of(c) : c \in Calls}

(* What got records for the result of a notification: the answer to none.  *)
Notice == <<"notice", 0>>

VARIABLES
    now,        \* the clock, in seconds
    ids,        \* Client::ids, the next request id
    id,         \* id[r]: the id given to r, 0 before it has one
    pending,    \* the requests whose oneshot sender is in Client::pending
    ts,         \* Client::ts as a set of pairs <<second, request id>>
    chan,       \* chan[r]: the oneshot channel of r
    got,        \* history, got[r]: whose answers were sent to r
    pc,         \* pc[c]: where the thread running the call c is
    wire,       \* the calls whose text was handed to a socket thread
    reaper,     \* where the thread of with_timeout is
    seen,       \* its local `now`
    todo,       \* the expired ids it has still to look up
    removed,    \* its local `removed`
    alive       \* the Client has not been dropped

callVars == <<ids, id, pc, wire>>
reaperVars == <<reaper, seen, todo, removed>>
vars == <<now, callVars, pending, ts, chan, got, reaperVars, alive>>

Second == Epoch..(LastIssue + Expiry)

Channel == {"none", "open", "ok", "err", "timeout", "dropped"}

(* The shapes every variable keeps: maps, counters and program counters.   *)
TypeOK ==
    /\ now \in Second
    /\ ids \in 1..(MaxId + 1)
    /\ id \in [Req -> 0..MaxId]
    /\ pending \subseteq Req
    /\ ts \subseteq Second \X (1..MaxId)
    /\ chan \in [Req -> Channel]
    /\ got \in [Req -> SUBSET (Req \cup {Notice})]
    /\ pc \in [Calls -> {"idle", "number", "stamp", "send", "http", "done", "failed"}]
    /\ wire \subseteq Calls
    /\ reaper \in {"sleep", "lock", "scan", "purge"}
    /\ seen \in Second
    /\ todo \subseteq 1..MaxId
    /\ removed \subseteq 1..MaxId
    /\ alive \in BOOLEAN

Init ==
    /\ now = Epoch
    /\ ids = 1
    /\ id = [r \in Req |-> 0]
    /\ pending = {}
    /\ ts = {}
    /\ chan = [r \in Req |-> "none"]
    /\ got = [r \in Req |-> {}]
    /\ pc = [c \in Calls |-> "idle"]
    /\ wire = {}
    /\ reaper = "sleep"
    /\ seen = Epoch
    /\ todo = {}
    /\ removed = {}
    /\ alive = TRUE

-----------------------------------------------------------------------------
(* The calling threads *)

(* Mutant: the shared counter is read but not advanced.                    *)
FetchStuck == ids' = ids

(* fetch_add(1) on the shared counter. *)
FetchAdd == ids' = ids + 1

(* next_id for the next request of a call.  request does this before it    *)
(* takes any lock, batch_request in its loop: the ids of a batch need not  *)
(* be consecutive.                                                         *)
NextId(r) ==
    /\ pc[r[1]] \in {"idle", "number"}
    /\ pc[r[1]] = "idle" => alive /\ now <= LastIssue
    /\ id[r] = 0
    /\ \A q \in Of(r[1]) : q[2] < r[2] => id[q] # 0
    /\ ids <= MaxId
    /\ FetchAdd
    /\ id' = [id EXCEPT ![r] = ids]
    /\ pc' = [pc EXCEPT ![r[1]] = "number"]
    /\ UNCHANGED <<now, wire, pending, ts, chan, got, reaperVars, alive>>

(* The entries a map insert under the ids of the call c replaces.          *)
Replaced(c) == {p \in pending : \E r \in Of(c) : id[p] = id[r]}

(* pending.lock().insert(id, tx).  batch_request inserts the senders one   *)
(* by one but holds the guard from before the first id to after the last   *)
(* insert, so the other threads see them appear together.  Only request    *)
(* goes on to note the time.                                               *)
Insert(c) ==
    /\ pc[c] = "number"
    /\ \A r \in Of(c) : id[r] # 0
    /\ pending' = (pending \ Replaced(c)) \cup Of(c)
    /\ chan' = [r \in Req |-> CASE r \in Of(c) -> "open"
                                [] r \in Replaced(c) \ Of(c) -> "dropped"
                                [] OTHER -> chan[r]]
    /\ pc' = [pc EXCEPT ![c] = IF c \in Batch THEN "send" ELSE "stamp"]
    /\ UNCHANGED <<now, ids, id, wire, ts, got, reaperVars, alive>>

(* Mutant: request forgets its timestamp, as batch_request does.           *)
StampSkipped(c) ==
    /\ pc[c] = "stamp"
    /\ pc' = [pc EXCEPT ![c] = "send"]
    /\ UNCHANGED <<now, ids, id, wire, pending, ts, chan, got,
                   reaperVars, alive>>

(* ts.lock().entry(Utc::now().timestamp()).push(id): the clock is read     *)
(* with the lock held, which the reaper keeps for the whole of its scan.   *)
Stamp(c) ==
    /\ pc[c] = "stamp"
    /\ reaper # "scan"
    /\ ts' = ts \cup {<<now, id[r]>> : r \in Of(c)}
    /\ pc' = [pc EXCEPT ![c] = "send"]
    /\ UNCHANGED <<now, ids, id, wire, pending, chan, got, reaperVars,
                   alive>>

(* send finds a worker and its channel takes the text.  Whether one does   *)
(* is the business of SocketPool. *)
SendSocket(c) ==
    /\ pc[c] = "send"
    /\ wire' = wire \cup {c}
    /\ pc' = [pc EXCEPT ![c] = "done"]
    /\ UNCHANGED <<now, ids, id, pending, ts, chan, got, reaperVars, alive>>

(* send finds no worker, or one whose channel is closed: send_http posts   *)
(* the text in the calling thread. *)
SendHttp(c) ==
    /\ pc[c] = "send"
    /\ pc' = [pc EXCEPT ![c] = "http"]
    /\ UNCHANGED <<now, ids, id, wire, pending, ts, chan, got,
                   reaperVars, alive>>

(* send_http fails: the call returns futures that hold the error and drops *)
(* the receivers; the entries of pending stay. *)
HttpFail(c) ==
    /\ pc[c] = "http"
    /\ pc' = [pc EXCEPT ![c] = "failed"]
    /\ UNCHANGED <<now, ids, id, wire, pending, ts, chan, got, reaperVars,
                   alive>>

-----------------------------------------------------------------------------
(* Answers *)

(* What a server may say of the call c: an output for some of its          *)
(* requests, each a Success or a Failure that echoes the request's id, or  *)
(* one with an id that is not a number.  The answer with no output stands  *)
(* for a text that cannot be parsed. *)
Answers(c) ==
    UNION {[S -> {"Success", "Failure", "BadId"}] : S \in SUBSET Of(c)}

(* handle_response: one output without a numeric id fails the whole text.  *)
Decodes(ans) == \A q \in DOMAIN ans : ans[q] # "BadId"

(* The pending requests whose id is in the answer ans. *)
Hit(ans) == {p \in pending : \E q \in DOMAIN ans : id[q] = id[p]}

(* Mutant: the sender is used but its entry stays in the map.              *)
DeliverKeeps(ans) ==
    LET hit == IF Decodes(ans) THEN Hit(ans) ELSE {}
        is(p, kind) == \E q \in DOMAIN ans : id[q] = id[p] /\ ans[q] = kind
    IN  /\ UNCHANGED pending
        /\ chan' = [r \in Req |-> IF r \in hit
                                  THEN IF is(r, "Success") THEN "ok" ELSE "err"
                                  ELSE chan[r]]
        /\ got' = [r \in Req |->
                     got[r] \cup IF r \in hit
                                 THEN {q \in DOMAIN ans : id[q] = id[r]}
                                 ELSE {}]

(* The common loop of the socket's read_stream and of send_http, with the  *)
(* pending guard held: remove the id, resolve its channel; an id that is   *)
(* not there is only logged. *)
Deliver(ans) ==
    LET hit == IF Decodes(ans) THEN Hit(ans) ELSE {}
        is(p, kind) == \E q \in DOMAIN ans : id[q] = id[p] /\ ans[q] = kind
    IN  /\ pending' = pending \ hit
        /\ chan' = [r \in Req |-> IF r \in hit
                                  THEN IF is(r, "Success") THEN "ok" ELSE "err"
                                  ELSE chan[r]]
        /\ got' = [r \in Req |->
                     got[r] \cup IF r \in hit
                                 THEN {q \in DOMAIN ans : id[q] = id[r]}
                                 ELSE {}]

(* The post of the call c is answered. *)
HttpReply(c) ==
    /\ pc[c] = "http"
    /\ \E ans \in Answers(c) : Deliver(ans)
    /\ pc' = [pc EXCEPT ![c] = "done"]
    /\ UNCHANGED <<now, ids, id, wire, ts, reaperVars, alive>>

(* The post of the call c is answered with a notification.  into_response  *)
(* takes its subscription id for a request id: the request pending under   *)
(* that id, whoever made it, is resolved with the notified result.  An id  *)
(* that no request has does nothing, like the empty answer of HttpReply.   *)
(* (A socket thread looks a notification up among the subscriptions.)      *)
HttpNote(c) ==
    /\ pc[c] = "http"
    /\ \E i \in Notes :
         LET hit == {p \in pending : id[p] = i}
         IN  /\ pending' = pending \ hit
             /\ chan' = [r \in Req |-> IF r \in hit THEN "ok" ELSE chan[r]]
             /\ got' = [r \in Req |-> IF r \in hit THEN got[r] \cup {Notice}
                                                   ELSE got[r]]
    /\ pc' = [pc EXCEPT ![c] = "done"]
    /\ UNCHANGED <<now, ids, id, wire, ts, reaperVars, alive>>

(* A socket thread reads an answer to the call c.  Answers come in any     *)
(* order, at any time, in pieces, more than once or never. *)
SocketReply(c) ==
    /\ c \in wire
    /\ \E ans \in Answers(c) : Deliver(ans)
    /\ UNCHANGED <<now, callVars, ts, reaperVars, alive>>

-----------------------------------------------------------------------------
(* The thread of with_timeout, called the reaper here *)

(* The sleep ends and the clock is read, before ts is locked. *)
Wake ==
    /\ reaper = "sleep"
    /\ reaper' = "lock"
    /\ seen' = now
    /\ UNCHANGED <<now, callVars, pending, ts, chan, got, todo, removed,
                   alive>>

(* Mutant: the keys of ts are looked up instead of the ids.                *)
ExpiredKeys == {p[1] : p \in {q \in ts : seen - q[1] >= Expiry}}

(* Mutant: every noted request counts as expired.                          *)
ExpiredAlways == {p[2] : p \in ts}

(* The ids in the buckets the scan enters. *)
Expired == {p[2] : p \in {q \in ts : seen - q[1] >= Expiry}}

(* ts is locked; it cannot change until the scan ends. *)
Lock ==
    /\ reaper = "lock"
    /\ reaper' = "scan"
    /\ todo' = Expired
    /\ UNCHANGED <<now, callVars, pending, ts, chan, got, seen, removed,
                   alive>>

(* The scan looks one id up in pending; a request still there times out. *)
TimeOut(i) ==
    /\ reaper = "scan"
    /\ i \in todo
    /\ todo' = todo \ {i}
    /\ LET late == {p \in pending : id[p] = i}
       IN  /\ pending' = pending \ late
           /\ chan' = [r \in Req |-> IF r \in late THEN "timeout" ELSE chan[r]]
           /\ removed' = IF late = {} THEN removed ELSE removed \cup {i}
    /\ UNCHANGED <<now, callVars, ts, got, reaper, seen, alive>>

(* The scan is over and the guard of ts is dropped. *)
Unlock ==
    /\ reaper = "scan"
    /\ todo = {}
    /\ reaper' = "purge"
    /\ UNCHANGED <<now, callVars, pending, ts, chan, got, seen, todo,
                   removed, alive>>

(* Mutant: the buckets of the scanned second and before are discarded.     *)
PurgeOld(i) ==
    /\ reaper = "purge"
    /\ i \in removed
    /\ removed' = removed \ {i}
    /\ ts' = {p \in ts : p[1] > seen}
    /\ UNCHANGED <<now, callVars, pending, chan, got, reaper, seen, todo,
                   alive>>

(* timestamps.lock().remove(&rem): `removed` holds request ids, the keys   *)
(* of the map are seconds. *)
Purge(i) ==
    /\ reaper = "purge"
    /\ i \in removed
    /\ removed' = removed \ {i}
    /\ ts' = {p \in ts : p[1] # i}
    /\ UNCHANGED <<now, callVars, pending, chan, got, reaper, seen, todo,
                   alive>>

Sleep ==
    /\ reaper = "purge"
    /\ removed = {}
    /\ reaper' = "sleep"
    /\ UNCHANGED <<now, callVars, pending, ts, chan, got, seen, todo,
                   removed, alive>>

-----------------------------------------------------------------------------
(* The end of the client, the clock *)

(* Drop for Client, when no call borrows it: clearing pending drops every  *)
(* sender. *)
DropClient ==
    /\ alive
    /\ \A c \in Calls : pc[c] \in {"idle", "done", "failed"}
    /\ alive' = FALSE
    /\ pending' = {}
    /\ chan' = [r \in Req |-> IF r \in pending THEN "dropped" ELSE chan[r]]
    /\ UNCHANGED <<now, callVars, ts, got, reaperVars>>

(* The clock.  Past LastIssue it runs Expiry seconds on, once every call   *)
(* that was begun has noted its time. *)
Tick ==
    /\ \/ now < LastIssue
       \/ /\ now < LastIssue + Expiry
          /\ \A c \in Calls : pc[c] \notin {"number", "stamp"}
    /\ now' = now + 1
    /\ UNCHANGED <<callVars, pending, ts, chan, got, reaperVars, alive>>

Next ==
    \/ \E r \in Req : NextId(r)
    \/ \E c \in Calls : \/ Insert(c) \/ Stamp(c) \/ SendSocket(c)
                        \/ SendHttp(c) \/ HttpFail(c) \/ HttpReply(c)
                        \/ HttpNote(c) \/ SocketReply(c)
    \/ Wake \/ Lock \/ Unlock \/ Sleep
    \/ \E i \in 1..MaxId : TimeOut(i) \/ Purge(i)
    \/ DropClient
    \/ Tick

Spec == Init /\ [][Next]_vars

(* Time passes; the reaper is a thread of its own and is scheduled; a call *)
(* that has begun goes on, except that a post may hang.  The lock of ts is *)
(* free whenever the reaper sleeps, so a caller gets it in the end.        *)
Fairness ==
    /\ WF_vars(Tick)
    /\ WF_vars(Wake \/ Lock \/ Unlock \/ Sleep)
    /\ WF_vars(\E i \in 1..MaxId : TimeOut(i) \/ Purge(i))
    /\ \A r \in Req : WF_vars(NextId(r) /\ pc[r[1]] # "idle")
    /\ \A c \in Calls : WF_vars(Insert(c)) /\ SF_vars(Stamp(c))

FairSpec == Spec /\ Fairness

-----------------------------------------------------------------------------
(* Properties *)

(* A caller can only be waiting on a channel whose sender is still in the  *)
(* pending map, and the map holds no sender that was already used: answers *)
(* racing the reaper, repeated answers and a dropped client all leave the  *)
(* two in step. *)
OpenIffPending == \A r \in Req : chan[r] = "open" <=> r \in pending

(* No request is ever given the answer to another one, whatever the order  *)
(* in which threads take ids, insert, and are answered or timed out: so    *)
(* long as no post is answered by a notification (Notes = {}). *)
OwnAnswer == \A r \in Req : got[r] \subseteq {r}

(* A request has one outcome: once its channel is resolved, neither a late *)
(* or repeated answer, nor the reaper, nor the drop of the client changes  *)
(* it. *)
OneOutcome ==
    [][\A r \in Req : chan[r] \in {"ok", "err", "timeout", "dropped"}
                        => chan'[r] = chan[r]]_vars

(* The calls whose thread is past the insertion into ts. *)
Stamped == {c \in Calls \ Batch : pc[c] \in {"send", "http", "done", "failed"}}

(* A request made by Client::request that is still unanswered is known to  *)
(* the reaper: purging after a scan never forgets a live request. *)
TrackedUntilResolved ==
    \A r \in Req : r[1] \in Stamped /\ chan[r] = "open"
                     => \E p \in ts : p[2] = id[r]

(* Only a request of Client::request times out, and never less than ten    *)
(* seconds after it was noted, although the reaper works with a clock read *)
(* before it locked ts; a batch is never timed out. *)
TimeoutJustified ==
    \A r \in Req : chan[r] = "timeout"
                     => /\ r[1] \notin Batch
                        /\ \E p \in ts : /\ p[2] = id[r]
                                         /\ now - p[1] >= Expiry

(* A sender is dropped unused only when the client is dropped: a caller    *)
(* sees a cancelled request only then, never because another request took  *)
(* its slot in the map. *)
CancelledOnlyByDrop == \A r \in Req : chan[r] = "dropped" => ~alive

(* with_timeout never reclaims a timestamp, because what it removes from   *)
(* ts are request ids and the keys of ts are seconds. *)
TimestampsOnlyGrow == [][ts \subseteq ts']_vars

(* Every request of Client::request is resolved in the end, even if its    *)
(* text or its answer is lost or its post hangs: by an answer, the reaper  *)
(* or the drop of the client.  Nothing of the kind holds for a batch. *)
EveryRequestResolves ==
    \A r \in Req : r[1] \notin Batch => (chan[r] = "open" ~> chan[r] # "open")

(* The requests of Client::request. *)
Timed == UNION {Of(c) : c \in Calls \ Batch}

(* A request's age is counted from the second it is under in ts. *)
Noted(r) == {p[1] : p \in {q \in ts : q[2] = id[r]}}

Life == INSTANCE RequestLife WITH noted <- [r \in Req |-> Noted(r)]

(* The machinery of ids, maps and threads implements the life of a         *)
(* request: whatever races in it, a request is issued with its call, noted *)
(* once, and ends once, by its own answer, by a timeout that is due or     *)
(* with the client; and no timestamp is ever taken back.  This too is      *)
(* said of a server that answers no post by a notification (Notes = {}). *)
ImplementsLife == Life!Spec

=============================================================================
