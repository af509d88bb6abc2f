---------------------------- MODULE Subscriptions ---------------------------
(***************************************************************************)
(* Subscriptions: a Pubsub (src/client/streaming/pubsub.rs) first waits    *)
(* for the id of its subscription, then hands the sender of its channel to *)
(* the client under that id; the socket threads look senders up there and  *)
(* feed the notifications of the nodes to them (src/client/mod.rs).        *)
(*                                                                         *)
(* A task sleeps on NotReady until what it has polled last, the future of  *)
(* the id or the channel, or something else it drives wakes it.            *)
(* Pubsub::id, subscribed and done are never read or never changed and are *)
(* left out: a Pubsub does not end.                                        *)
(***************************************************************************)
EXTENDS Integers, Sequences

CONSTANTS
    Streams,    \* the Pubsubs
    Nodes,      \* the hosts, each with one connection
    Reach,      \* Reach[s]: the nodes that the request of s may be sent to
    Ids,        \* the subscription ids that nodes give out
    MaxEvents,  \* MaxEvents[s]: bound on the notifications for s
    None,       \* no stream, no node and no id
    Decodes     \* whether the results of notifications can be decoded

ASSUME SubscriptionsAssumption ==
    /\ Reach \in [Streams -> SUBSET Nodes]
    /\ MaxEvents \in [Streams -> Nat]
    /\ None \notin Streams \cup Nodes \cup Ids
    /\ Decodes \subseteq BOOLEAN

VARIABLES
    state,          \* state[s]: Pubsub::state, with the state of the future
    tx,             \* tx[s]: Pubsub::tx holds the sender of the channel
    notifications,  \* notifications[s]: Pubsub::notifications
    task,           \* task[s]: the task that polls s, or why it sleeps
    subscriptions,  \* Client::subscriptions
    host,           \* host[s]: the node that the request of s was sent to
    conn,           \* conn[s]: the connection it went over is up
    sid,            \* sid[s]: the id of the subscription at that node
    sent,           \* sent[s]: how many notifications of it were sent
    wire,           \* wire[n]: the texts from n to its socket thread
    missed,         \* history: the last notification of s that was dropped
    taken           \* history: the notifications that s took, in order

vars == <<state, tx, notifications, task, subscriptions, host, conn, sid,
          sent, wire, missed, taken>>

(* A task sleeps until the future of the id, or the channel, wakes it; or  *)
(* it has found the channel closed, or a notification that it could not    *)
(* decode, and nothing of the stream's will wake it. *)
Asleep == {"future", "channel", "closed", "undecoded"}

(* The k-th notification of the subscription of s. *)
Event == UNION {{s} \X (1..MaxEvents[s]) : s \in Streams}

(* The texts of a node: the answer to the request of s, or an event under  *)
(* the id of its subscription. *)
Text == [kind : {"id"}, of : Streams]
          \cup [kind : {"event"}, id : Ids, event : Event]

(* The shapes every variable keeps; and a Pubsub that may still get its id *)
(* has the sender it hands over then: expect("Only take this once") cannot *)
(* panic, however often poll is called. *)
TypeOK ==
    /\ state \in [Streams -> {"new", "Waiting", "Answered", "Failed", "Subscribed"}]
    /\ tx \in [Streams -> BOOLEAN]
    /\ notifications \in [Streams -> Seq(Event)]
    /\ task \in [Streams -> {"idle", "run", "stopped"} \cup Asleep]
    /\ subscriptions \in [Ids -> Streams \cup {None}]
    /\ host \in [Streams -> Nodes \cup {None}]
    /\ conn \in [Streams -> BOOLEAN]
    /\ sid \in [Streams -> Ids \cup {None}]
    /\ sent \in [Streams -> Nat]
    /\ wire \in [Nodes -> Seq(Text)]
    /\ missed \in [Streams -> Nat]
    /\ taken \in [Streams -> Seq(Event)]
    /\ \A s \in Streams :
         state[s] \in {"Waiting", "Answered", "Failed"} /\ task[s] # "stopped" => tx[s]

Init ==
    /\ state = [s \in Streams |-> "new"]
    /\ tx = [s \in Streams |-> FALSE]
    /\ notifications = [s \in Streams |-> <<>>]
    /\ task = [s \in Streams |-> "idle"]
    /\ subscriptions = [i \in Ids |-> None]
    /\ host = [s \in Streams |-> None]
    /\ conn = [s \in Streams |-> FALSE]
    /\ sid = [s \in Streams |-> None]
    /\ sent = [s \in Streams |-> 0]
    /\ wire = [n \in Nodes |-> <<>>]
    /\ missed = [s \in Streams |-> 0]
    /\ taken = [s \in Streams |-> <<>>]

(* The tasks after those in S were woken by what w says. *)
Woken(S, w) ==
    [s \in Streams |-> IF s \in S /\ task[s] = w THEN "run" ELSE task[s]]

-----------------------------------------------------------------------------
(* The streams and their users *)

(* A Pubsub that waits for its id and holds the sender of its channel. *)
Pubsub_new(s) ==
    /\ state' = [state EXCEPT ![s] = "Waiting"]
    /\ tx' = [tx EXCEPT ![s] = TRUE]

(* subscribe: a channel, a request that some node gets, a new Pubsub. *)
subscribe(s) ==
    /\ task[s] = "idle"
    /\ \E n \in Reach[s] : host' = [host EXCEPT ![s] = n]
    /\ conn' = [conn EXCEPT ![s] = TRUE]
    /\ Pubsub_new(s)
    /\ task' = [task EXCEPT ![s] = "run"]
    /\ UNCHANGED <<notifications, subscriptions, sid, sent,
                   wire, missed, taken>>

(* The user drops the Pubsub, and the receiver with it.  Nothing takes the *)
(* sender out of the client. *)
Drop(s) ==
    /\ task[s] \in {"run"} \cup Asleep
    /\ task' = [task EXCEPT ![s] = "stopped"]
    /\ notifications' = [notifications EXCEPT ![s] = <<>>]
    /\ tx' = [tx EXCEPT ![s] = FALSE]
    /\ UNCHANGED <<state, subscriptions, host, conn, sid, sent, wire,
                   missed, taken>>

(* poll while the id is awaited. *)
PollWaiting(s) ==
    /\ task[s] = "run"
    /\ state[s] = "Waiting"
    /\ task' = [task EXCEPT ![s] = "future"]
    /\ UNCHANGED <<state, tx, notifications, subscriptions, host, conn, sid,
                   sent, wire, missed, taken>>

(* Mutant: the future is polled where it is, and stays there.              *)
ReplaceKeeps(s) == state' = [state EXCEPT ![s] = "Waiting"]

(* mem::replace(&mut self.state, Subscribed) *)
Replace(s) == state' = [state EXCEPT ![s] = "Subscribed"]

(* poll when there is an error instead of an id: the state is Subscribed   *)
(* by now, and the user polls again or not. *)
PollFailed(s) ==
    /\ task[s] = "run"
    /\ state[s] = "Failed"
    /\ Replace(s)
    /\ UNCHANGED <<tx, notifications, task, subscriptions, host, conn, sid, sent,
                   wire, missed, taken>>

(* Mutant: NotReady after the subscription, as if polled again later.      *)
add_subscription_sleeps(s, i) ==
    /\ subscriptions' = [subscriptions EXCEPT ![i] = s]
    /\ task' = [task EXCEPT ![s] = "closed"]

(* The sender of s is kept under the id i; a sender that was there is      *)
(* dropped, which closes its channel and wakes the receiver. *)
add_subscription(s, i) ==
    /\ subscriptions' = [subscriptions EXCEPT ![i] = s]
    /\ task' = Woken({subscriptions[i]}, "channel")

(* poll when the id is there.  The loop goes on with the channel. *)
PollAnswered(s) ==
    /\ task[s] = "run"
    /\ state[s] = "Answered"
    /\ Replace(s)
    /\ tx' = [tx EXCEPT ![s] = FALSE]
    /\ add_subscription(s, sid[s])
    /\ UNCHANGED <<notifications, host, conn, sid, sent, wire, missed, taken>>

(* poll when there is a notification: it is yielded, and the task polls    *)
(* again; or it cannot be decoded, and poll is not ready although nothing  *)
(* will wake the task. *)
PollEvent(s) ==
    /\ task[s] = "run"
    /\ state[s] = "Subscribed"
    /\ notifications[s] # <<>>
    /\ taken' = [taken EXCEPT ![s] = Append(@, Head(notifications[s]))]
    /\ notifications' = [notifications EXCEPT ![s] = Tail(@)]
    /\ \/ /\ TRUE \in Decodes
          /\ UNCHANGED task
       \/ /\ FALSE \in Decodes
          /\ task' = [task EXCEPT ![s] = "undecoded"]
    /\ UNCHANGED <<state, tx, subscriptions, host, conn, sid, sent, wire,
                   missed>>

(* A sender of the channel of s exists. *)
Open(s) == tx[s] \/ \E i \in Ids : subscriptions[i] = s

(* poll when there is no notification: the channel will wake the task,     *)
(* unless it is closed, which poll takes for not ready too. *)
PollEmpty(s) ==
    /\ task[s] = "run"
    /\ state[s] = "Subscribed"
    /\ notifications[s] = <<>>
    /\ task' = [task EXCEPT ![s] = IF Open(s) THEN "channel" ELSE "closed"]
    /\ UNCHANGED <<state, tx, notifications, subscriptions, host, conn, sid,
                   sent, wire, missed, taken>>

Poll(s) ==
    \/ PollWaiting(s)
    \/ PollFailed(s)
    \/ PollAnswered(s)
    \/ PollEvent(s)
    \/ PollEmpty(s)

(* The task is woken by something else that it drives. *)
Wake(s) ==
    /\ task[s] \in Asleep
    /\ task' = [task EXCEPT ![s] = "run"]
    /\ UNCHANGED <<state, tx, notifications, subscriptions, host, conn,
                   sid, sent, wire, missed, taken>>

(* The request of s is timed out, could not be sent, or is answered with   *)
(* an error. *)
Fail(s) ==
    /\ state[s] = "Waiting"
    /\ state' = [state EXCEPT ![s] = "Failed"]
    /\ task' = Woken({s}, "future")
    /\ UNCHANGED <<tx, notifications, subscriptions, host, conn, sid,
                   sent, wire, missed, taken>>

-----------------------------------------------------------------------------
(* The nodes *)

(* The node accepts the subscription of s, late perhaps, under an id that  *)
(* no subscription it still has goes by: one that went with its connection *)
(* leaves its id to be given out again. *)
Accept(s) ==
    /\ conn[s]
    /\ sid[s] = None
    /\ \E i \in Ids :
         /\ \A r \in Streams : conn[r] /\ host[r] = host[s] => sid[r] # i
         /\ sid' = [sid EXCEPT ![s] = i]
    /\ wire' = [wire EXCEPT ![host[s]] = Append(@, [kind |-> "id", of |-> s])]
    /\ UNCHANGED <<state, tx, notifications, task, subscriptions,
                   host, conn, sent, missed, taken>>

(* The node sends the next notification of the subscription of s. *)
Emit(s) ==
    /\ conn[s]
    /\ sid[s] # None
    /\ sent[s] < MaxEvents[s]
    /\ sent' = [sent EXCEPT ![s] = @ + 1]
    /\ wire' = [wire EXCEPT ![host[s]] =
                  Append(@, [kind |-> "event", id |-> sid[s],
                             event |-> <<s, sent[s] + 1>>])]
    /\ UNCHANGED <<state, tx, notifications, task, subscriptions,
                   host, conn, sid, missed, taken>>

(* The connection to n is lost, with the texts on their way and the        *)
(* subscriptions made over it.  No Pubsub is told. *)
Disconnect(n) ==
    /\ \E s \in Streams : conn[s] /\ host[s] = n
    /\ conn' = [s \in Streams |-> conn[s] /\ host[s] # n]
    /\ wire' = [wire EXCEPT ![n] = <<>>]
    /\ UNCHANGED <<state, tx, notifications, task, subscriptions, host,
                   sid, sent, missed, taken>>

-----------------------------------------------------------------------------
(* The socket threads *)

(* The socket thread of n resolves the future of a request, if the request *)
(* is still pending. *)
ReadId(n) ==
    LET s == Head(wire[n]).of
    IN  /\ wire[n] # <<>>
        /\ Head(wire[n]).kind = "id"
        /\ wire' = [wire EXCEPT ![n] = Tail(@)]
        /\ IF state[s] = "Waiting"
             THEN /\ state' = [state EXCEPT ![s] = "Answered"]
                  /\ task' = Woken({s}, "future")
             ELSE UNCHANGED <<state, task>>
        /\ UNCHANGED <<tx, notifications, subscriptions, host, conn,
                       sid, sent, missed, taken>>

(* Mutant: the receiver is not woken.                                      *)
NotifySilent(s, e) ==
    /\ notifications' = [notifications EXCEPT ![s] = Append(@, e)]
    /\ UNCHANGED task

(* Mutant: the newest notification goes first.                             *)
NotifyFirst(s, e) ==
    /\ notifications' = [notifications EXCEPT ![s] = <<e>> \o @]
    /\ task' = Woken({s}, "channel")

(* unbounded_send: it fails if the receiver was dropped. *)
Notify(s, e) ==
    IF task[s] = "stopped"
      THEN UNCHANGED <<notifications, task>>
      ELSE /\ notifications' = [notifications EXCEPT ![s] = Append(@, e)]
           /\ task' = Woken({s}, "channel")

(* The socket thread of n hands a notification to whoever is registered    *)
(* under its id, and drops it if nobody is. *)
ReadEvent(n) ==
    LET m == Head(wire[n])
        s == subscriptions[m.id]
    IN  /\ wire[n] # <<>>
        /\ m.kind = "event"
        /\ wire' = [wire EXCEPT ![n] = Tail(@)]
        /\ IF s # None
             THEN Notify(s, m.event) /\ UNCHANGED missed
             ELSE /\ missed' = [missed EXCEPT ![m.event[1]] = m.event[2]]
                  /\ UNCHANGED <<notifications, task>>
        /\ UNCHANGED <<state, tx, subscriptions, host, conn, sid,
                       sent, taken>>

Next ==
    \/ \E s \in Streams :
         \/ subscribe(s) \/ Drop(s) \/ Poll(s) \/ Wake(s) \/ Fail(s)
         \/ Accept(s) \/ Emit(s)
    \/ \E n \in Nodes : ReadId(n) \/ ReadEvent(n) \/ Disconnect(n)

Spec == Init /\ [][Next]_vars

(* A task that is awake is run, and the future of an id is resolved, if    *)
(* only by its timeout. *)
Fairness ==
    \A s \in Streams : WF_vars(Poll(s)) /\ WF_vars(Fail(s))

FairSpec == Spec /\ Fairness

-----------------------------------------------------------------------------
(* Properties *)

(* What s took and what is waiting for it. *)
Received(s) == taken[s] \o notifications[s]

(* A stream that shares its id with no other one receives its own events   *)
(* only, from the first one after its registration on, without a gap, in   *)
(* order and once each: what came before the registration is lost, and     *)
(* nothing else is. *)
Contiguous ==
    \A s \in Streams :
      (\A r \in Streams \ {s} : sid[r] # sid[s])
        => \A k \in DOMAIN Received(s) : Received(s)[k] = <<s, missed[s] + k>>

(* Even if two nodes give out the same id, or one gives it out again, no   *)
(* event reaches two streams or one stream twice, and the events of one    *)
(* subscription stay in order wherever they go. *)
OnceInOrder ==
    \A s, r \in Streams : \A j \in DOMAIN Received(s), k \in DOMAIN Received(r) :
      /\ Received(s)[j] = Received(r)[k] => s = r /\ j = k
      /\ s = r /\ j < k /\ Received(s)[j][1] = Received(s)[k][1]
           => Received(s)[j][2] < Received(s)[k][2]

(* No task sleeps on something that has already happened: the wake-up      *)
(* cannot be lost between the registration of the sender and the first     *)
(* look into the channel, nor later; and a channel that was found closed   *)
(* is not opened again. *)
NoLostWakeup ==
    \A s \in Streams :
      /\ task[s] = "future" => state[s] = "Waiting"
      /\ task[s] = "channel" => notifications[s] = <<>> /\ Open(s)
      /\ task[s] = "closed" => notifications[s] = <<>> /\ ~Open(s)

(* A subscriber does not wait for its id for ever.                         *)
SubscriptionSettles ==
    \A s \in Streams :
      state[s] = "Waiting" ~> (state[s] = "Subscribed" \/ task[s] = "stopped")

(* Each notification that reaches a channel is taken, unless the stream is *)
(* dropped or has been put to sleep by one that it could not decode. *)
EventsYielded ==
    \A s \in Streams : \A k \in 1..MaxEvents[s] :
      Len(Received(s)) >= k
        ~> (Len(taken[s]) >= k \/ task[s] \in {"stopped", "undecoded"})

=============================================================================
