------------------------ MODULE SubscriptionsProofs -------------------------
(***************************************************************************)
(* Theorems about Subscriptions, for every set of streams, nodes and ids.  *)
(*                                                                         *)
(* The argument has three layers.  Linked ties the texts on their way and  *)
(* the senders in the client to the subscriptions they belong to; it holds *)
(* together with the types.  NoLostWakeup rests on it.  Flow counts, for   *)
(* each subscription, the notifications that a socket thread has read, and *)
(* says where those before and those after that number are.                *)
(***************************************************************************)
EXTENDS Subscriptions, SequenceTheorems, TLAPS

(* What a stream has got so far. *)
StreamLinks ==
    \A s \in Streams :
      /\ task[s] = "idle" => ~conn[s] /\ sid[s] = None
      /\ conn[s] => host[s] \in Nodes
      /\ state[s] = "Answered" => sid[s] # None

(* A sender in the client is there under the id of its subscription. *)
SenderLinks ==
    \A i \in Ids : subscriptions[i] # None =>
      sid[subscriptions[i]] = i /\ state[subscriptions[i]] = "Subscribed"

(* The text m, on its way from the node n, belongs to a subscription. *)
TextLink(n, m) ==
    /\ m.kind = "id" => sid[m.of] # None
    /\ m.kind = "event" => /\ conn[m.event[1]]
                           /\ host[m.event[1]] = n
                           /\ sid[m.event[1]] = m.id

TextLinks == \A n \in Nodes : \A k \in DOMAIN wire[n] : TextLink(n, wire[n][k])

(* The texts on their way, and the senders, are those of subscriptions. *)
Linked == StreamLinks /\ SenderLinks /\ TextLinks

-----------------------------------------------------------------------------
(* Events and texts *)

(* A notification belongs to a stream, and has a number. *)
LEMMA EventType ==
    /\ \A e \in Event : /\ e[1] \in Streams
                        /\ e[2] \in 1..MaxEvents[e[1]]
                        /\ e = <<e[1], e[2]>>
    /\ \A s \in Streams : \A k \in 1..MaxEvents[s] : <<s, k>> \in Event
  BY DEF Event

(* What is in the texts of a node. *)
LEMMA TextType ==
    /\ \A m \in Text : \/ m.kind = "id" /\ m.of \in Streams
                       \/ m.kind = "event" /\ m.id \in Ids /\ m.event \in Event
    /\ \A s \in Streams : [kind |-> "id", of |-> s] \in Text
    /\ \A i \in Ids, e \in Event : [kind |-> "event", id |-> i, event |-> e] \in Text
  BY DEF Text

(* Tasks that are woken stay tasks; only those that sleep are woken. *)
LEMMA WokenType ==
    ASSUME TypeOK, NEW S, NEW w \in Asleep
    PROVE  /\ Woken(S, w) \in [Streams -> {"idle", "run", "stopped"} \cup Asleep]
           /\ \A s \in Streams : \/ Woken(S, w)[s] = task[s] /\ ~(s \in S /\ task[s] = w)
                                 \/ Woken(S, w)[s] = "run" /\ s \in S /\ task[s] = w
  BY DEF TypeOK, Woken

(* What a socket thread reads first. *)
LEMMA WireHead ==
    ASSUME TypeOK, NEW n \in Nodes, wire[n] # <<>>
    PROVE  /\ Head(wire[n]) \in Text
           /\ 1 \in DOMAIN wire[n] /\ Head(wire[n]) = wire[n][1]
           /\ Tail(wire[n]) \in Seq(Text)
           /\ \A k \in DOMAIN Tail(wire[n]) : /\ k \in Nat
                                              /\ k + 1 \in DOMAIN wire[n]
                                              /\ Tail(wire[n])[k] = wire[n][k + 1]
           /\ \A k \in DOMAIN wire[n] : /\ k \in Nat
                                        /\ k # 1 => k - 1 \in DOMAIN Tail(wire[n])
  <1>1. wire[n] \in Seq(Text) /\ Len(wire[n]) \in Nat \ {0}
    BY EmptySeq DEF TypeOK
  <1>2. /\ Head(wire[n]) \in Text
        /\ Tail(wire[n]) \in Seq(Text)
        /\ Len(Tail(wire[n])) = Len(wire[n]) - 1
        /\ \A i \in 1..Len(Tail(wire[n])) : Tail(wire[n])[i] = wire[n][i + 1]
    BY <1>1, HeadTailProperties
  <1>3. DOMAIN wire[n] = 1..Len(wire[n]) /\ DOMAIN Tail(wire[n]) = 1..(Len(wire[n]) - 1)
    BY <1>1, <1>2
  <1>4. Head(wire[n]) = wire[n][1]
    BY <1>1
  <1> QED  BY <1>1, <1>2, <1>3, <1>4

(* A text that a node sends comes after those on their way. *)
LEMMA WireAppend ==
    ASSUME TypeOK, NEW n \in Nodes, NEW m \in Text,
           wire' = [wire EXCEPT ![n] = Append(@, m)]
    PROVE  /\ wire' \in [Nodes -> Seq(Text)]
           /\ \A x \in Nodes \ {n} : wire'[x] = wire[x]
           /\ Len(wire[n]) \in Nat
           /\ DOMAIN wire[n] = 1..Len(wire[n]) /\ DOMAIN wire'[n] = 1..(Len(wire[n]) + 1)
           /\ \A k \in 1..Len(wire[n]) : wire'[n][k] = wire[n][k]
           /\ wire'[n][Len(wire[n]) + 1] = m
  <1>1. wire[n] \in Seq(Text) /\ wire'[n] = Append(wire[n], m)
    BY DEF TypeOK
  <1>2. wire' \in [Nodes -> Seq(Text)] /\ \A x \in Nodes \ {n} : wire'[x] = wire[x]
    BY <1>1 DEF TypeOK
  <1> QED  BY <1>1, <1>2, AppendProperties

-----------------------------------------------------------------------------
(* Types and links *)

Inv1 == TypeOK /\ Linked

LEMMA InitInv1 == Init => Inv1
  <1> SUFFICES ASSUME Init PROVE Inv1
    OBVIOUS
  <1>1. TypeOK
    BY EmptySeq DEF Init, TypeOK
  <1>2. Linked
    BY SubscriptionsAssumption DEF Init, Linked, StreamLinks, SenderLinks, TextLinks
  <1> QED  BY <1>1, <1>2 DEF Inv1

(* Texts that stay on the wire stay linked while the subscriptions they    *)
(* belong to keep their ids and their connections. *)
LEMMA TextsStay ==
    ASSUME TypeOK, TextLinks,
           \A n \in Nodes : \A k \in DOMAIN wire'[n] :
             \E j \in DOMAIN wire[n] : wire'[n][k] = wire[n][j],
           \A s \in Streams : /\ sid[s] # None => sid'[s] = sid[s]
                              /\ conn[s] => conn'[s] /\ host'[s] = host[s]
    PROVE  TextLinks'
  <1> SUFFICES ASSUME NEW n \in Nodes, NEW k \in DOMAIN wire'[n]
               PROVE  TextLink(n, wire[n][k])'
    BY DEF TextLinks
  <1>1. PICK j \in DOMAIN wire[n] : wire'[n][k] = wire[n][j]
    OBVIOUS
  <1>2. PICK m \in Text : m = wire[n][j]
    BY <1>1 DEF TypeOK
  <1>3. TextLink(n, m)
    BY <1>1, <1>2 DEF TextLinks
  <1>4. TextLink(n, m)'
    <2>1. CASE m.kind = "id" /\ m.of \in Streams
      BY <1>3, <2>1 DEF TextLink
    <2>2. CASE m.kind = "event" /\ m.id \in Ids /\ m.event \in Event
      <3>1. m.event[1] \in Streams
        BY <2>2, EventType
      <3>2. sid[m.event[1]] # None
        BY <1>3, <2>2, SubscriptionsAssumption DEF TextLink
      <3> QED  BY <1>3, <2>2, <3>1, <3>2 DEF TextLink
    <2> QED  BY <2>1, <2>2, TextType
  <1> QED  BY <1>1, <1>2, <1>4

(* The streams and their users change no text and, but for PollAnswered,   *)
(* no sender. *)
LEMMA StreamInv1 ==
    ASSUME Inv1, NEW s \in Streams,
           subscribe(s) \/ Drop(s) \/ PollWaiting(s) \/ PollFailed(s) \/ PollEmpty(s)
             \/ Wake(s) \/ Fail(s)
    PROVE  Inv1'
  <1> USE DEF Inv1, Linked
  <1>0. ASSUME UNCHANGED <<wire, sid>>,
               \A x \in Streams : conn[x] => conn'[x] /\ host'[x] = host[x]
        PROVE  TextLinks'
    BY <1>0, TextsStay
  <1>1. CASE subscribe(s)
    <2>1. PICK n \in Nodes : host' = [host EXCEPT ![s] = n]
      BY <1>1, SubscriptionsAssumption DEF subscribe
    <2>2. TypeOK'
      BY <1>1, <2>1 DEF subscribe, Pubsub_new, TypeOK
    <2>3. ~conn[s] /\ sid[s] = None
      BY <1>1 DEF subscribe, StreamLinks
    <2>4. \A i \in Ids : subscriptions[i] # s
      BY <2>3, SubscriptionsAssumption DEF SenderLinks
    <2>5. \A x \in Streams : conn[x] => conn'[x] /\ host'[x] = host[x]
      BY <1>1, <2>1, <2>3 DEF subscribe, TypeOK
    <2>6. StreamLinks'
      BY <1>1, <2>1 DEF subscribe, Pubsub_new, TypeOK, StreamLinks
    <2>7. SenderLinks'
      BY <1>1, <2>4 DEF subscribe, Pubsub_new, TypeOK, SenderLinks
    <2> QED  BY <1>0, <1>1, <2>2, <2>5, <2>6, <2>7 DEF subscribe
  <1>2. CASE Drop(s)
    <2>1. TypeOK'
      BY <1>2, EmptySeq DEF Drop, Asleep, TypeOK
    <2>2. StreamLinks' /\ SenderLinks'
      BY <1>2 DEF Drop, TypeOK, StreamLinks, SenderLinks
    <2> QED  BY <1>0, <1>2, <2>1, <2>2 DEF Drop
  <1>3. CASE PollWaiting(s) \/ PollEmpty(s) \/ Wake(s)
    <2>1. /\ UNCHANGED <<state, tx, notifications, subscriptions, host, conn,
                         sid, sent, wire, missed, taken>>
          /\ task[s] # "stopped"
          /\ \E t \in {"run"} \cup Asleep : task' = [task EXCEPT ![s] = t]
      BY <1>3 DEF PollWaiting, PollEmpty, Wake, Asleep
    <2>2. TypeOK'
      BY <2>1 DEF TypeOK
    <2>3. \A x \in Streams : task'[x] = "idle" => task[x] = "idle"
      BY <2>1 DEF TypeOK, Asleep
    <2>4. StreamLinks' /\ SenderLinks'
      BY <2>1, <2>3 DEF StreamLinks, SenderLinks
    <2> QED  BY <1>0, <2>1, <2>2, <2>4
  <1>4. CASE PollFailed(s)
    <2>1. TypeOK' /\ StreamLinks' /\ SenderLinks'
      BY <1>4 DEF PollFailed, Replace, TypeOK, StreamLinks, SenderLinks
    <2> QED  BY <1>0, <1>4, <2>1 DEF PollFailed
  <1>5. CASE Fail(s)
    <2>1. /\ Woken({s}, "future") \in [Streams -> {"idle", "run", "stopped"} \cup Asleep]
          /\ \A x \in Streams : /\ task'[x] = "idle" => task[x] = "idle"
                                /\ task[x] = "stopped" => task'[x] = "stopped"
      BY <1>5, WokenType DEF Fail, Asleep
    <2>2. TypeOK'
      BY <1>5, <2>1 DEF Fail, TypeOK
    <2>3. \A x \in Streams : /\ state'[x] = "Answered" => state[x] = "Answered"
                             /\ state[x] = "Subscribed" => state'[x] = "Subscribed"
      BY <1>5 DEF Fail, TypeOK
    <2>4. UNCHANGED <<subscriptions, host, conn, sid, wire>>
      BY <1>5 DEF Fail
    <2>5. StreamLinks'
      BY <2>1, <2>3, <2>4 DEF StreamLinks
    <2>6. SenderLinks'
      BY <2>3, <2>4 DEF TypeOK, SenderLinks
    <2> QED  BY <1>0, <2>2, <2>4, <2>5, <2>6
  <1> QED  BY <1>1, <1>2, <1>3, <1>4, <1>5

(* The sender of s goes where the events of its subscription look for it. *)
LEMMA AnsweredInv1 == ASSUME Inv1, NEW s \in Streams, PollAnswered(s) PROVE Inv1'
  <1> USE DEF Inv1, Linked
  <1>1. sid[s] \in Ids
    BY DEF TypeOK, StreamLinks, PollAnswered
  <1>2. /\ subscriptions' = [subscriptions EXCEPT ![sid[s]] = s]
        /\ state' = [state EXCEPT ![s] = "Subscribed"]
        /\ tx' = [tx EXCEPT ![s] = FALSE]
        /\ task' = Woken({subscriptions[sid[s]]}, "channel")
        /\ UNCHANGED <<notifications, host, conn, sid, sent, wire, missed, taken>>
    BY DEF PollAnswered, Replace, add_subscription
  <1>3. /\ task' \in [Streams -> {"idle", "run", "stopped"} \cup Asleep]
        /\ \A x \in Streams : /\ task'[x] = "idle" => task[x] = "idle"
                              /\ task[x] = "stopped" => task'[x] = "stopped"
    BY <1>2, WokenType DEF Asleep
  <1>4. TypeOK'
    BY <1>1, <1>2, <1>3 DEF TypeOK
  <1>5. StreamLinks'
    BY <1>2, <1>3 DEF TypeOK, StreamLinks
  <1>6. SenderLinks'
    BY <1>1, <1>2 DEF TypeOK, SenderLinks
  <1>7. TextLinks'
    BY <1>2, TextsStay
  <1> QED  BY <1>4, <1>5, <1>6, <1>7

(* A stream takes what is in its channel. *)
LEMMA EventInv1 == ASSUME Inv1, NEW s \in Streams, PollEvent(s) PROVE Inv1'
  <1> USE DEF Inv1, Linked
  <1>1. /\ notifications[s] \in Seq(Event) /\ notifications[s] # <<>>
        /\ taken[s] \in Seq(Event)
    BY DEF TypeOK, PollEvent
  <1>2. Head(notifications[s]) \in Event /\ Tail(notifications[s]) \in Seq(Event)
    BY <1>1, HeadTailProperties
  <1>3. Append(taken[s], Head(notifications[s])) \in Seq(Event)
    BY <1>1, <1>2, AppendProperties
  <1>4. /\ taken' = [taken EXCEPT ![s] = Append(@, Head(notifications[s]))]
        /\ notifications' = [notifications EXCEPT ![s] = Tail(@)]
        /\ task[s] = "run" /\ task' \in {task, [task EXCEPT ![s] = "undecoded"]}
        /\ UNCHANGED <<state, tx, subscriptions, host, conn, sid, sent, wire, missed>>
    BY DEF PollEvent
  <1>5. TypeOK'
    BY <1>2, <1>3, <1>4 DEF TypeOK, Asleep
  <1>6. StreamLinks' /\ SenderLinks'
    BY <1>4 DEF TypeOK, StreamLinks, SenderLinks
  <1>7. TextLinks'
    BY <1>4, TextsStay
  <1> QED  BY <1>5, <1>6, <1>7

(* The node answers the request of s: the answer is the last text.         *)
LEMMA AcceptInv1 == ASSUME Inv1, NEW s \in Streams, Accept(s) PROVE Inv1'
  <1> USE DEF Inv1, Linked
  <1>1. PICK n \in Nodes : n = host[s] /\ conn[s]
    BY DEF Accept, StreamLinks
  <1>2. PICK m \in Text : m = [kind |-> "id", of |-> s]
    BY TextType
  <1>3. /\ wire' = [wire EXCEPT ![n] = Append(@, m)]
        /\ UNCHANGED <<state, tx, notifications, task, subscriptions,
                       host, conn, sent, missed, taken>>
        /\ sid[s] = None
    BY <1>1, <1>2 DEF Accept
  <1>4. /\ wire' \in [Nodes -> Seq(Text)]
        /\ \A x \in Nodes \ {n} : wire'[x] = wire[x]
        /\ Len(wire[n]) \in Nat
        /\ DOMAIN wire[n] = 1..Len(wire[n]) /\ DOMAIN wire'[n] = 1..(Len(wire[n]) + 1)
        /\ \A k \in 1..Len(wire[n]) : wire'[n][k] = wire[n][k]
        /\ wire'[n][Len(wire[n]) + 1] = m
    BY <1>3, WireAppend
  <1>5. PICK i \in Ids : sid' = [sid EXCEPT ![s] = i]
    BY DEF Accept
  <1>6. sid'[s] # None /\ \A x \in Streams : sid[x] # None => sid'[x] = sid[x]
    BY <1>3, <1>5, SubscriptionsAssumption DEF TypeOK
  <1>7. TypeOK'
    BY <1>3, <1>4, <1>5 DEF TypeOK
  <1>8. StreamLinks'
    BY <1>1, <1>3, <1>5, <1>6 DEF StreamLinks, TypeOK
  <1>9. SenderLinks'
    BY <1>3, <1>6, SubscriptionsAssumption DEF SenderLinks, TypeOK
  <1>10. TextLinks'
    <2>1. ASSUME NEW x \in Nodes, NEW k \in DOMAIN wire'[x], wire'[x][k] # m
          PROVE  k \in DOMAIN wire[x] /\ wire'[x][k] = wire[x][k]
      BY <1>4, <2>1
    <2>2. ASSUME NEW x \in Nodes, NEW k \in DOMAIN wire'[x] PROVE TextLink(x, wire[x][k])'
      <3>1. CASE wire'[x][k] = m
        BY <1>2, <1>6, <3>1 DEF TextLink
      <3>2. CASE wire'[x][k] # m
        <4>1. PICK t \in Text : t = wire[x][k] /\ t = wire'[x][k]
          BY <2>1, <3>2 DEF TypeOK
        <4>2. TextLink(x, t)
          BY <2>1, <3>2, <4>1 DEF TextLinks
        <4>3. CASE t.kind = "id" /\ t.of \in Streams
          BY <1>6, <4>1, <4>2, <4>3 DEF TextLink
        <4>4. CASE t.kind = "event" /\ t.id \in Ids /\ t.event \in Event
          <5>1. t.event[1] \in Streams
            BY <4>4, EventType
          <5>2. sid[t.event[1]] # None
            BY <4>2, <4>4, SubscriptionsAssumption DEF TextLink
          <5> QED  BY <1>3, <1>6, <4>1, <4>2, <4>4, <5>1, <5>2 DEF TextLink
        <4> QED  BY <4>3, <4>4, TextType
      <3> QED  BY <3>1, <3>2
    <2> QED  BY <2>2 DEF TextLinks
  <1> QED  BY <1>7, <1>8, <1>9, <1>10

(* The node sends events under the id that it has given to s.              *)
LEMMA EmitInv1 == ASSUME Inv1, NEW s \in Streams, Emit(s) PROVE Inv1'
  <1> USE DEF Inv1, Linked
  <1>1. PICK n \in Nodes : n = host[s] /\ conn[s]
    BY DEF Emit, StreamLinks
  <1>2. sid[s] \in Ids /\ sent[s] \in Nat /\ sent[s] < MaxEvents[s] /\ MaxEvents[s] \in Nat
    BY SubscriptionsAssumption DEF Emit, TypeOK
  <1>3. <<s, sent[s] + 1>> \in Event
    BY <1>2, EventType
  <1>4. PICK m \in Text : m = [kind |-> "event", id |-> sid[s], event |-> <<s, sent[s] + 1>>]
    BY <1>2, <1>3, TextType
  <1>5. /\ wire' = [wire EXCEPT ![n] = Append(@, m)]
        /\ UNCHANGED <<state, tx, notifications, task, subscriptions,
                       host, conn, sid, missed, taken>>
        /\ sent' = [sent EXCEPT ![s] = @ + 1]
    BY <1>1, <1>4 DEF Emit
  <1>6. /\ wire' \in [Nodes -> Seq(Text)]
        /\ \A x \in Nodes \ {n} : wire'[x] = wire[x]
        /\ Len(wire[n]) \in Nat
        /\ DOMAIN wire[n] = 1..Len(wire[n]) /\ DOMAIN wire'[n] = 1..(Len(wire[n]) + 1)
        /\ \A k \in 1..Len(wire[n]) : wire'[n][k] = wire[n][k]
        /\ wire'[n][Len(wire[n]) + 1] = m
    BY <1>5, WireAppend
  <1>7. TypeOK'
    BY <1>2, <1>5, <1>6 DEF TypeOK
  <1>8. StreamLinks' /\ SenderLinks'
    BY <1>5 DEF StreamLinks, SenderLinks
  <1>9. TextLinks'
    <2>1. TextLink(n, m)
      BY <1>1, <1>4 DEF TextLink
    <2>2. ASSUME NEW x \in Nodes, NEW k \in DOMAIN wire'[x] PROVE TextLink(x, wire'[x][k])
      <3>1. CASE wire'[x][k] = m /\ x = n
        BY <2>1, <3>1
      <3>2. CASE k \in DOMAIN wire[x] /\ wire'[x][k] = wire[x][k]
        BY <3>2 DEF TextLinks
      <3> QED  BY <1>6, <3>1, <3>2
    <2>3. UNCHANGED <<sid, conn, host>>
      BY <1>5
    <2>4. ASSUME NEW x \in Nodes, NEW k \in DOMAIN wire'[x] PROVE TextLink(x, wire[x][k])'
      BY <2>2, <2>3 DEF TextLink
    <2> QED  BY <2>4 DEF TextLinks
  <1> QED  BY <1>7, <1>8, <1>9

(* A connection takes its texts with it. *)
LEMMA DisconnectInv1 == ASSUME Inv1, NEW n \in Nodes, Disconnect(n) PROVE Inv1'
  <1> USE DEF Inv1, Linked
  <1>1. /\ conn' = [s \in Streams |-> conn[s] /\ host[s] # n]
        /\ wire' = [wire EXCEPT ![n] = <<>>]
        /\ UNCHANGED <<state, tx, notifications, task, subscriptions, host,
                       sid, sent, missed, taken>>
    BY DEF Disconnect
  <1>2. wire' \in [Nodes -> Seq(Text)]
    BY <1>1, EmptySeq DEF TypeOK
  <1>3. conn' \in [Streams -> BOOLEAN] /\ \A s \in Streams : conn'[s] => conn[s]
    BY <1>1
  <1>4. TypeOK'
    BY <1>1, <1>2, <1>3 DEF TypeOK
  <1>5. StreamLinks' /\ SenderLinks'
    BY <1>1, <1>3 DEF StreamLinks, SenderLinks
  <1>6. TextLinks'
    <2>1. ASSUME NEW x \in Nodes, NEW k \in DOMAIN wire'[x]
          PROVE  TextLink(x, wire[x][k])'
      <3>1. x # n /\ wire'[x] = wire[x]
        BY <1>1 DEF TypeOK
      <3>2. PICK m \in Text : m = wire[x][k] /\ m = wire'[x][k]
        BY <3>1 DEF TypeOK
      <3>3. TextLink(x, m)
        BY <3>1, <3>2 DEF TextLinks
      <3>4. m.kind = "event" => m.event[1] \in Streams
        BY EventType, TextType
      <3>5. m.kind = "event" => conn'[m.event[1]]
        BY <1>1, <3>1, <3>3, <3>4 DEF TextLink
      <3> QED  BY <1>1, <3>2, <3>3, <3>5 DEF TextLink
    <2> QED  BY <2>1 DEF TextLinks
  <1> QED  BY <1>4, <1>5, <1>6

(* A socket thread takes the first text. *)
LEMMA ReadInv1 == ASSUME Inv1, NEW n \in Nodes, ReadId(n) \/ ReadEvent(n) PROVE Inv1'
  <1> USE DEF Inv1, Linked
  <1>1. /\ wire[n] # <<>>
        /\ wire' = [wire EXCEPT ![n] = Tail(@)]
        /\ UNCHANGED <<tx, subscriptions, host, conn, sid, sent, taken>>
    BY DEF ReadId, ReadEvent
  <1>2. PICK m \in Text :
          /\ m = Head(wire[n]) /\ m = wire[n][1] /\ 1 \in DOMAIN wire[n]
          /\ Tail(wire[n]) \in Seq(Text)
          /\ \A k \in DOMAIN Tail(wire[n]) : /\ k + 1 \in DOMAIN wire[n]
                                             /\ Tail(wire[n])[k] = wire[n][k + 1]
    BY <1>1, WireHead
  <1>3. wire' \in [Nodes -> Seq(Text)]
    BY <1>1, <1>2 DEF TypeOK
  <1>4. TextLinks'
    <2>1. \A x \in Nodes : \A k \in DOMAIN wire'[x] :
            \E j \in DOMAIN wire[x] : wire'[x][k] = wire[x][j]
      BY <1>1, <1>2 DEF TypeOK
    <2> QED  BY <1>1, <2>1, TextsStay
  <1>5. CASE ReadId(n)
    <2>1. PICK s \in Streams : s = m.of
      BY <1>2, <1>5, TextType DEF ReadId
    <2>2. sid[s] # None
      BY <1>2, <1>5, <2>1 DEF ReadId, TextLinks, TextLink
    <2>3. /\ \/ UNCHANGED <<state, task>>
             \/ /\ state[s] = "Waiting"
                /\ state' = [state EXCEPT ![s] = "Answered"]
                /\ task' = Woken({s}, "future")
          /\ UNCHANGED <<notifications, missed>>
      BY <1>2, <1>5, <2>1 DEF ReadId
    <2>4. /\ task' \in [Streams -> {"idle", "run", "stopped"} \cup Asleep]
          /\ \A x \in Streams : /\ task'[x] = "idle" => task[x] = "idle"
                                /\ task[x] = "stopped" => task'[x] = "stopped"
      <3>1. CASE UNCHANGED task
        BY <3>1 DEF TypeOK
      <3>2. CASE task' = Woken({s}, "future")
        BY <3>2, WokenType DEF Asleep
      <3> QED  BY <2>3, <3>1, <3>2
    <2>5. state' \in [Streams -> {"new", "Waiting", "Answered", "Failed", "Subscribed"}]
      BY <2>3 DEF TypeOK
    <2>6. \A x \in Streams : /\ state'[x] = "Answered" => sid[x] # None
                             /\ state[x] = "Subscribed" => state'[x] = "Subscribed"
      BY <2>2, <2>3 DEF TypeOK, StreamLinks
    <2>7. TypeOK'
      BY <1>1, <1>3, <2>3, <2>4, <2>5 DEF TypeOK
    <2>8. StreamLinks' /\ SenderLinks'
      BY <1>1, <2>4, <2>6 DEF TypeOK, StreamLinks, SenderLinks
    <2> QED  BY <1>4, <2>7, <2>8
  <1>6. CASE ReadEvent(n)
    <2>1. m.id \in Ids /\ m.event \in Event
      BY <1>2, <1>6, TextType DEF ReadEvent
    <2>2. PICK q \in Streams, v \in Nat : q = m.event[1] /\ v = m.event[2]
      BY <2>1, EventType, SubscriptionsAssumption
    <2>3. PICK s \in Streams \cup {None} : s = subscriptions[m.id]
      BY <2>1 DEF TypeOK
    <2>4. /\ UNCHANGED state
          /\ \/ UNCHANGED <<notifications, task, missed>>
             \/ /\ s \in Streams
                /\ notifications' = [notifications EXCEPT ![s] = Append(@, m.event)]
                /\ task' = Woken({s}, "channel")
                /\ UNCHANGED missed
             \/ /\ missed' = [missed EXCEPT ![q] = v]
                /\ UNCHANGED <<notifications, task>>
      BY <1>2, <1>6, <2>2, <2>3 DEF ReadEvent, Notify
    <2>5. /\ task' \in [Streams -> {"idle", "run", "stopped"} \cup Asleep]
          /\ \A x \in Streams : /\ task'[x] = "idle" => task[x] = "idle"
                                /\ task[x] = "stopped" => task'[x] = "stopped"
      <3>1. CASE UNCHANGED task
        BY <3>1 DEF TypeOK
      <3>2. CASE task' = Woken({s}, "channel")
        BY <3>2, WokenType DEF Asleep
      <3> QED  BY <2>4, <3>1, <3>2
    <2>6. notifications' \in [Streams -> Seq(Event)]
      <3>1. CASE UNCHANGED notifications
        BY <3>1 DEF TypeOK
      <3>2. CASE s \in Streams /\ notifications' = [notifications EXCEPT ![s] = Append(@, m.event)]
        <4>1. Append(notifications[s], m.event) \in Seq(Event)
          BY <2>1, <3>2, AppendProperties DEF TypeOK
        <4> QED  BY <3>2, <4>1 DEF TypeOK
      <3> QED  BY <2>4, <3>1, <3>2
    <2>7. missed' \in [Streams -> Nat]
      BY <2>4 DEF TypeOK
    <2>8. TypeOK'
      BY <1>1, <1>3, <2>4, <2>5, <2>6, <2>7 DEF TypeOK
    <2>9. StreamLinks' /\ SenderLinks'
      BY <1>1, <2>4, <2>5 DEF StreamLinks, SenderLinks
    <2> QED  BY <1>4, <2>8, <2>9
  <1> QED  BY <1>5, <1>6

(* Every step keeps the types and the links. *)
LEMMA NextInv1 == Inv1 /\ [Next]_vars => Inv1'
  <1> SUFFICES ASSUME Inv1, [Next]_vars PROVE Inv1'
    OBVIOUS
  <1>1. ASSUME NEW s \in Streams,
               \/ subscribe(s) \/ Drop(s) \/ Poll(s) \/ Wake(s) \/ Fail(s)
               \/ Accept(s) \/ Emit(s)
        PROVE  Inv1'
    BY <1>1, StreamInv1, AnsweredInv1, EventInv1, AcceptInv1, EmitInv1 DEF Poll
  <1>2. ASSUME NEW n \in Nodes, ReadId(n) \/ ReadEvent(n) \/ Disconnect(n) PROVE Inv1'
    BY <1>2, ReadInv1, DisconnectInv1
  <1>3. CASE UNCHANGED vars
    BY <1>3 DEF vars, Inv1, TypeOK, Linked, StreamLinks, SenderLinks, TextLinks, TextLink
  <1> QED  BY <1>1, <1>2, <1>3 DEF Next

-----------------------------------------------------------------------------
(* Wake-ups *)

(* A stream that sleeps on the future, or on the channel, keeps what it    *)
(* sleeps on in a step that does not concern it. *)
Undisturbed(x) ==
    task'[x] = task[x] =>
      /\ task[x] = "future" => state'[x] = state[x]
      /\ task[x] \in {"channel", "closed"} =>
           notifications'[x] = notifications[x] /\ (Open(x)' <=> Open(x))

LEMMA UndisturbedWakeup ==
    ASSUME NoLostWakeup,
           \A x \in Streams : Undisturbed(x) /\ task'[x] \in {task[x], "run", "stopped", "undecoded"}
    PROVE  NoLostWakeup'
  BY DEF NoLostWakeup, Undisturbed

(* The channel that s sleeps on stays open when another stream puts its    *)
(* sender in the place of its own: s is woken. *)
LEMMA AnsweredWakeup ==
    ASSUME Inv1, NoLostWakeup, NEW s \in Streams, PollAnswered(s)
    PROVE  NoLostWakeup'
  <1>1. sid[s] \in Ids /\ task[s] = "run"
    BY DEF Inv1, Linked, TypeOK, StreamLinks, PollAnswered
  <1>2. /\ subscriptions' = [subscriptions EXCEPT ![sid[s]] = s]
        /\ state' = [state EXCEPT ![s] = "Subscribed"]
        /\ tx' = [tx EXCEPT ![s] = FALSE]
        /\ task' = Woken({subscriptions[sid[s]]}, "channel")
        /\ notifications' = notifications
    BY DEF PollAnswered, Replace, add_subscription
  <1>3. ASSUME NEW x \in Streams PROVE Undisturbed(x) /\ task'[x] \in {task[x], "run"}
    <2>1. \/ task'[x] = task[x] /\ ~(x = subscriptions[sid[s]] /\ task[x] = "channel")
          \/ task'[x] = "run"
      BY <1>2, WokenType DEF Inv1, Asleep
    <2>2. CASE x = s
      BY <1>1, <2>1, <2>2 DEF Undisturbed
    <2>3. CASE x # s
      <3>1. state'[x] = state[x] /\ tx'[x] = tx[x]
        BY <1>2, <2>3 DEF Inv1, TypeOK
      <3>2. ASSUME task[x] = "channel", task'[x] = "channel" PROVE Open(x)'
        <4>1. Open(x)
          BY <3>2 DEF NoLostWakeup
        <4>2. CASE tx[x]
          BY <3>1, <4>2 DEF Open
        <4>3. ASSUME NEW i \in Ids, subscriptions[i] = x PROVE Open(x)'
          <5>1. i # sid[s]
            BY <2>1, <3>2, <4>3
          <5>2. subscriptions'[i] = x
            BY <1>2, <4>3, <5>1 DEF Inv1, TypeOK
          <5> QED  BY <5>2 DEF Open
        <4> QED  BY <4>1, <4>2, <4>3 DEF Open
      <3>3. ASSUME task[x] = "closed" PROVE ~Open(x)'
        <4>1. ~tx[x] /\ \A i \in Ids : subscriptions[i] # x
          BY <3>3 DEF NoLostWakeup, Open
        <4>2. ~tx'[x] /\ \A i \in Ids : subscriptions'[i] # x
          BY <1>1, <1>2, <2>3, <3>1, <4>1 DEF Inv1, TypeOK
        <4> QED  BY <4>2 DEF Open
      <3>4. task[x] = "channel" => Open(x)
        BY DEF NoLostWakeup
      <3>5. task[x] = "closed" => ~Open(x)
        BY DEF NoLostWakeup
      <3> QED  BY <1>2, <2>1, <3>1, <3>2, <3>3, <3>4, <3>5 DEF Undisturbed
    <2> QED  BY <2>2, <2>3
  <1> QED  BY <1>3, UndisturbedWakeup

(* A notification wakes the stream that sleeps on its channel, and a       *)
(* channel that was found closed gets none. *)
LEMMA NotifiedWakeup ==
    ASSUME Inv1, NoLostWakeup, NEW n \in Nodes, ReadEvent(n)
    PROVE  NoLostWakeup'
  <1>1. PICK m \in Text : m = Head(wire[n]) /\ m.kind = "event"
    BY WireHead DEF Inv1, ReadEvent
  <1>2. m.id \in Ids
    BY <1>1, TextType
  <1>3. UNCHANGED <<state, tx, subscriptions>>
    BY DEF ReadEvent
  <1>4. \A x \in Streams : Open(x)' <=> Open(x)
    BY <1>3 DEF Open
  <1>5. CASE UNCHANGED <<notifications, task>>
    BY <1>3, <1>4, <1>5, UndisturbedWakeup DEF Undisturbed
  <1>6. ASSUME NEW s \in Streams, s = subscriptions[m.id],
               notifications' = [notifications EXCEPT ![s] = Append(@, m.event)],
               task' = Woken({s}, "channel")
        PROVE  NoLostWakeup'
    <2>1. Open(s)
      BY <1>2, <1>6 DEF Open
    <2>2. task[s] # "closed"
      BY <2>1 DEF NoLostWakeup
    <2>3. ASSUME NEW x \in Streams PROVE Undisturbed(x) /\ task'[x] \in {task[x], "run"}
      <3>1. \/ task'[x] = task[x] /\ ~(x = s /\ task[x] = "channel")
            \/ task'[x] = "run"
        BY <1>6, WokenType DEF Inv1, Asleep
      <3>2. CASE x = s
        BY <1>3, <2>2, <3>1, <3>2 DEF Undisturbed
      <3>3. CASE x # s
        <4>1. notifications'[x] = notifications[x]
          BY <1>6, <3>3 DEF Inv1, TypeOK
        <4> QED  BY <1>3, <1>4, <3>1, <4>1 DEF Undisturbed
      <3> QED  BY <3>2, <3>3
    <2> QED  BY <2>3, UndisturbedWakeup
  <1>7. /\ subscriptions[m.id] \in Streams \cup {None}
        /\ \/ UNCHANGED <<notifications, task>>
           \/ /\ subscriptions[m.id] # None
              /\ notifications' = [notifications EXCEPT ![subscriptions[m.id]] = Append(@, m.event)]
              /\ task' = Woken({subscriptions[m.id]}, "channel")
    BY <1>1, <1>2 DEF ReadEvent, Notify, Inv1, TypeOK
  <1> QED  BY <1>5, <1>6, <1>7

(* The future that s waits for wakes it when it is resolved. *)
LEMMA ResolvedWakeup ==
    ASSUME Inv1, NoLostWakeup, NEW s \in Streams, state[s] = "Waiting",
           NEW r \in {"Answered", "Failed"},
           state' = [state EXCEPT ![s] = r], task' = Woken({s}, "future"),
           UNCHANGED <<tx, notifications, subscriptions>>
    PROVE  NoLostWakeup'
  <1>1. ASSUME NEW x \in Streams PROVE Undisturbed(x) /\ task'[x] \in {task[x], "run"}
    <2>1. \/ task'[x] = task[x] /\ ~(x = s /\ task[x] = "future")
          \/ task'[x] = "run"
      BY WokenType DEF Inv1, Asleep
    <2>2. x # s => state'[x] = state[x]
      BY DEF Inv1, TypeOK
    <2>3. Open(x)' <=> Open(x)
      BY DEF Open
    <2> QED  BY <2>1, <2>2, <2>3 DEF Undisturbed
  <1> QED  BY <1>1, UndisturbedWakeup

(* Every step keeps NoLostWakeup. *)
LEMMA NextWakeup == Inv1 /\ NoLostWakeup /\ [Next]_vars => NoLostWakeup'
  <1> SUFFICES ASSUME Inv1, NoLostWakeup, [Next]_vars PROVE NoLostWakeup'
    OBVIOUS
  <1>1. ASSUME NEW s \in Streams, \/ subscribe(s) \/ Drop(s) \/ PollFailed(s)
                                  \/ PollEvent(s) \/ Wake(s)
        PROVE  NoLostWakeup'
    <2>1. /\ subscriptions' = subscriptions
          /\ \E t \in {"run", "stopped", "undecoded"} : task' = [task EXCEPT ![s] = t]
          /\ \A x \in Streams \ {s} : /\ state'[x] = state[x]
                                      /\ tx'[x] = tx[x]
                                      /\ notifications'[x] = notifications[x]
      <3>1. subscriptions' = subscriptions
        BY <1>1 DEF subscribe, Drop, PollFailed, PollEvent, Wake
      <3>2. \E t \in {"run", "stopped", "undecoded"} : task' = [task EXCEPT ![s] = t]
        <4>1. CASE task' = task /\ task[s] = "run"
          BY <4>1 DEF Inv1, TypeOK
        <4>2. CASE \E t \in {"run", "stopped", "undecoded"} : task' = [task EXCEPT ![s] = t]
          BY <4>2
        <4> QED  BY <1>1, <4>1, <4>2 DEF subscribe, Drop, PollFailed, PollEvent, Wake
      <3>3. ASSUME NEW x \in Streams \ {s} PROVE state'[x] = state[x] /\ tx'[x] = tx[x]
        BY <1>1 DEF subscribe, Pubsub_new, Drop, PollFailed, Replace, PollEvent, Wake, Inv1, TypeOK
      <3>4. ASSUME NEW x \in Streams \ {s} PROVE notifications'[x] = notifications[x]
        BY <1>1 DEF subscribe, Drop, PollFailed, PollEvent, Wake, Inv1, TypeOK
      <3> QED  BY <3>1, <3>2, <3>3, <3>4
    <2>2. \A x \in Streams \ {s} : Open(x)' <=> Open(x)
      BY <2>1 DEF Open
    <2>3. \A x \in Streams \ {s} : task'[x] = task[x]
      BY <2>1 DEF Inv1, TypeOK
    <2>4. task'[s] \in {"run", "stopped", "undecoded"}
      BY <2>1 DEF Inv1, TypeOK
    <2> QED  BY <2>1, <2>2, <2>3, <2>4 DEF NoLostWakeup
  <1>2. ASSUME NEW s \in Streams, PollWaiting(s) \/ PollEmpty(s) PROVE NoLostWakeup'
    BY <1>2 DEF PollWaiting, PollEmpty, NoLostWakeup, Open, Inv1, TypeOK
  <1>3. ASSUME NEW s \in Streams, Fail(s) PROVE NoLostWakeup'
    BY <1>3, ResolvedWakeup DEF Fail
  <1>4. ASSUME NEW n \in Nodes, ReadId(n) PROVE NoLostWakeup'
    <2>1. PICK m \in Text : m = Head(wire[n]) /\ m.kind = "id"
      BY <1>4, WireHead DEF Inv1, ReadId
    <2>2. m.of \in Streams
      BY <2>1, TextType
    <2>3. CASE UNCHANGED <<state, task>>
      BY <1>4, <2>3 DEF ReadId, NoLostWakeup, Open
    <2>4. CASE UNCHANGED <<state, task>> \/ state[m.of] = "Waiting"
      BY <1>4, <2>1, <2>2, <2>3, <2>4, ResolvedWakeup DEF ReadId
    <2> QED  BY <1>4, <2>1, <2>4 DEF ReadId
  <1>5. CASE \/ UNCHANGED vars
             \/ \E s \in Streams : Accept(s) \/ Emit(s)
             \/ \E n \in Nodes : Disconnect(n)
    <2>1. UNCHANGED <<state, tx, notifications, task, subscriptions>>
      BY <1>5 DEF vars, Accept, Emit, Disconnect
    <2> QED  BY <2>1 DEF NoLostWakeup, Open
  <1> QED  BY <1>1, <1>2, <1>3, <1>4, <1>5, AnsweredWakeup, NotifiedWakeup DEF Next, Poll

-----------------------------------------------------------------------------
(* The flow of notifications.  In what follows p[s] is the number of the   *)
(* last notification of the subscription of s that was read.               *)

(* No other subscription has the id of s. *)
Alone(s) == sid[s] # None /\ \A r \in Streams \ {s} : sid[r] # sid[s]

(* The k-th text on its way from n is the notification v of s. *)
Carries(n, k, s, v) ==
    /\ k \in DOMAIN wire[n]
    /\ wire[n][k].kind = "event"
    /\ wire[n][k].event = <<s, v>>

(* The notifications after the last one that was read, and only those, are *)
(* on their way, in order, as long as there is the connection. *)
Pending(p) ==
    /\ \A s \in Streams : p[s] <= sent[s]
    /\ \A n \in Nodes, k \in Nat, s \in Streams, v \in Nat :
         Carries(n, k, s, v) => p[s] < v /\ v <= sent[s]
    /\ \A n \in Nodes, j, k \in Nat, s \in Streams, v, w \in Nat :
         Carries(n, j, s, v) /\ Carries(n, k, s, w) /\ j < k => v < w
    /\ \A s \in Streams, v \in Nat :
         conn[s] /\ p[s] < v /\ v <= sent[s] => \E k \in Nat : Carries(host[s], k, s, v)

(* Nothing that is not read was received. *)
Seen(p) ==
    \A s \in Streams : \A k \in DOMAIN Received(s) :
      Received(s)[k][2] <= p[Received(s)[k][1]]

(* The client holds the sender of s. *)
Registered(s) == \E i \in Ids : subscriptions[i] = s

(* A stream that is alone misses what is read before its registration and  *)
(* receives what is read later. *)
Gapless(p) ==
    \A s \in Streams : Alone(s) =>
      /\ ~Registered(s) => Received(s) = <<>> /\ missed[s] = p[s]
      /\ Registered(s) =>
           /\ \A k \in DOMAIN Received(s) : Received(s)[k] = <<s, missed[s] + k>>
           /\ task[s] # "stopped" => p[s] = missed[s] + Len(Received(s))

(* Before it has its id a stream has received and missed nothing. *)
Fresh ==
    \A s \in Streams : sid[s] = None =>
      Received(s) = <<>> /\ missed[s] = 0 /\ sent[s] = 0

Receipt(p) == Fresh /\ OnceInOrder /\ Seen(p) /\ Gapless(p)

(* The flow of notifications; with Inv1 it is inductive. *)
Flow == \E p \in [Streams -> Nat] : Pending(p) /\ Receipt(p)

(* What s has received is a sequence of events. *)
LEMMA ReceivedType ==
    ASSUME TypeOK, NEW s \in Streams
    PROVE  /\ Received(s) \in Seq(Event)
           /\ Len(Received(s)) \in Nat /\ DOMAIN Received(s) = 1..Len(Received(s))
           /\ \A k \in DOMAIN Received(s) : /\ Received(s)[k][1] \in Streams
                                            /\ Received(s)[k][2] \in Nat
  <1>1. Received(s) \in Seq(Event)
    BY ConcatProperties DEF TypeOK, Received
  <1>2. \A e \in Event : e[1] \in Streams /\ e[2] \in Nat
    BY EventType, SubscriptionsAssumption
  <1> QED  BY <1>1, <1>2, LenProperties

(* Moving the first element of a sequence to the end of the one before it. *)
LEMMA MoveOver ==
    ASSUME NEW S, NEW t \in Seq(S), NEW q \in Seq(S), q # <<>>
    PROVE  Append(t, Head(q)) \o Tail(q) = t \o q
  <1>1. Head(q) \in S /\ Tail(q) \in Seq(S)
    BY HeadTailProperties
  <1>2. <<Head(q)>> \in Seq(S)
    BY <1>1
  <1>3. Append(t, Head(q)) = t \o <<Head(q)>>
    BY <1>1, AppendIsConcat
  <1>4. <<Head(q)>> \o Tail(q) = q
    <2>1. Len(q) \in Nat \ {0} /\ Head(q) = q[1]
      BY EmptySeq
    <2>2. 1 \in 1..Len(q) /\ Len(q) \in 1..Len(q)
      BY <2>1
    <2>3. SubSeq(q, 1, Len(q)) = <<q[1]>> \o SubSeq(q, 1 + 1, Len(q))
      BY <2>2, SubSeqRecursiveFirst
    <2>4. SubSeq(q, 1, Len(q)) = q
      BY SubSeqFull
    <2>5. Tail(q) = SubSeq(q, 1 + 1, Len(q))
      BY TailIsSubSeq
    <2> QED  BY <2>1, <2>3, <2>4, <2>5
  <1>5. (t \o <<Head(q)>>) \o Tail(q) = t \o (<<Head(q)>> \o Tail(q))
    BY <1>1, <1>2, ConcatAssociative
  <1> QED  BY <1>3, <1>4, <1>5

(* Appending to the second of two sequences. *)
LEMMA AppendAfter ==
    ASSUME NEW S, NEW t \in Seq(S), NEW q \in Seq(S), NEW e \in S
    PROVE  t \o Append(q, e) = Append(t \o q, e)
  <1>1. <<e>> \in Seq(S)
    OBVIOUS
  <1>2. t \o q \in Seq(S)
    BY ConcatProperties
  <1>3. Append(q, e) = q \o <<e>> /\ Append(t \o q, e) = (t \o q) \o <<e>>
    BY <1>2, AppendIsConcat
  <1>4. (t \o q) \o <<e>> = t \o (q \o <<e>>)
    BY <1>1, ConcatAssociative
  <1> QED  BY <1>3, <1>4

(* The first of two sequences is the beginning of both together. *)
LEMMA FirstPart ==
    ASSUME NEW S, NEW t \in Seq(S), NEW q \in Seq(S)
    PROVE  \A k \in DOMAIN t : k \in DOMAIN (t \o q) /\ t[k] = (t \o q)[k]
  <1>1. /\ t \o q \in Seq(S) /\ Len(t \o q) = Len(t) + Len(q)
        /\ \A i \in 1..(Len(t) + Len(q)) :
             (t \o q)[i] = IF i <= Len(t) THEN t[i] ELSE q[i - Len(t)]
    BY ConcatProperties
  <1>2. /\ Len(t) \in Nat /\ Len(q) \in Nat
        /\ DOMAIN t = 1..Len(t) /\ DOMAIN (t \o q) = 1..(Len(t) + Len(q))
    BY <1>1, LenProperties
  <1>3. \A k \in 1..Len(t) : k \in 1..(Len(t) + Len(q)) /\ k <= Len(t)
    BY <1>2
  <1> QED  BY <1>1, <1>2, <1>3

(* Taking a notification out of the channel changes nothing in what was    *)
(* received. *)
LEMMA TakenReceived ==
    ASSUME TypeOK, NEW s \in Streams, PollEvent(s)
    PROVE  \A x \in Streams : Received(x)' = Received(x)
  <1>1. /\ taken[s] \in Seq(Event)
        /\ notifications[s] \in Seq(Event) /\ notifications[s] # <<>>
    BY DEF TypeOK, PollEvent
  <1>2. Append(taken[s], Head(notifications[s])) \o Tail(notifications[s])
          = taken[s] \o notifications[s]
    BY <1>1, MoveOver
  <1>3. /\ taken' = [taken EXCEPT ![s] = Append(taken[s], Head(notifications[s]))]
        /\ notifications' = [notifications EXCEPT ![s] = Tail(notifications[s])]
    BY DEF PollEvent
  <1>4. ASSUME NEW x \in Streams PROVE Received(x)' = Received(x)
    <2>1. CASE x = s
      <3>1. /\ taken'[x] = Append(taken[s], Head(notifications[s]))
            /\ notifications'[x] = Tail(notifications[s])
        BY <1>3, <2>1 DEF TypeOK
      <3> QED  BY <1>2, <2>1, <3>1 DEF Received
    <2>2. CASE x # s
      BY <1>3, <2>2 DEF TypeOK, Received
    <2> QED  BY <2>1, <2>2
  <1> QED  BY <1>4

(* A notification comes after what was received. *)
LEMMA NotifiedReceived ==
    ASSUME TypeOK, NEW s \in Streams, NEW e \in Event,
           notifications' = [notifications EXCEPT ![s] = Append(@, e)],
           UNCHANGED taken
    PROVE  /\ \A x \in Streams \ {s} : Received(x)' = Received(x)
           /\ Received(s)' = Append(Received(s), e)
  <1>1. taken[s] \in Seq(Event) /\ notifications[s] \in Seq(Event)
    BY DEF TypeOK
  <1>2. taken[s] \o Append(notifications[s], e) = Append(taken[s] \o notifications[s], e)
    <2>1. \A t, q \in Seq(Event) : t \o Append(q, e) = Append(t \o q, e)
      BY AppendAfter
    <2> QED  BY <1>1, <2>1
  <1>3. notifications'[s] = Append(notifications[s], e) /\ taken'[s] = taken[s]
    BY DEF TypeOK
  <1>4. \A x \in Streams \ {s} : Received(x)' = Received(x)
    BY DEF TypeOK, Received
  <1> QED  BY <1>2, <1>3, <1>4 DEF Received

(* What a stream loses when it is dropped is the end of what it received. *)
LEMMA DroppedReceived ==
    ASSUME TypeOK, NEW s \in Streams, Drop(s)
    PROVE  /\ \A x \in Streams \ {s} : Received(x)' = Received(x)
           /\ Received(s) = <<>> => Received(s)' = <<>>
           /\ \A k \in DOMAIN Received(s)' : /\ k \in DOMAIN Received(s)
                                             /\ Received(s)'[k] = Received(s)[k]
  <1>1. taken[s] \in Seq(Event) /\ notifications[s] \in Seq(Event)
    BY DEF TypeOK
  <1>2. Received(s)' = taken[s] \o <<>>
    BY DEF TypeOK, Received, Drop
  <1>3. taken[s] \o <<>> = taken[s]
    BY <1>1, ConcatEmptySeq
  <1>4. \A k \in DOMAIN taken[s] :
          /\ k \in DOMAIN (taken[s] \o notifications[s])
          /\ taken[s][k] = (taken[s] \o notifications[s])[k]
    BY <1>1, FirstPart
  <1>5. \A x \in Streams \ {s} : Received(x)' = Received(x)
    BY DEF TypeOK, Received, Drop
  <1>6. taken[s] \o notifications[s] = <<>> => taken[s] = <<>>
    <2>1. Len(taken[s] \o notifications[s]) = Len(taken[s]) + Len(notifications[s])
      BY <1>1, ConcatProperties
    <2>2. Len(taken[s]) \in Nat /\ Len(notifications[s]) \in Nat
      BY <1>1, LenProperties
    <2>3. taken[s] \o notifications[s] = <<>> => Len(taken[s] \o notifications[s]) = 0
      OBVIOUS
    <2>4. taken[s] \o notifications[s] = <<>> => Len(taken[s]) = 0
      BY <2>1, <2>2, <2>3
    <2> QED  BY <1>1, <2>4, EmptySeq
  <1>7. Received(s) = <<>> => Received(s)' = <<>>
    BY <1>2, <1>3, <1>6 DEF Received
  <1> QED  BY <1>2, <1>3, <1>4, <1>5, <1>7 DEF Received

-----------------------------------------------------------------------------
(* What is on its way *)

(* A notification on its way belongs to a subscription over that wire. *)
LEMMA CarriedLink ==
    ASSUME Inv1, NEW n \in Nodes, NEW k, NEW s, NEW v, Carries(n, k, s, v)
    PROVE  /\ s \in Streams /\ v \in Nat /\ k \in Nat /\ k >= 1
           /\ conn[s] /\ host[s] = n /\ sid[s] = wire[n][k].id
  <1>1. wire[n] \in Seq(Text)
    BY DEF Inv1, TypeOK
  <1>2. k \in Nat /\ k >= 1 /\ wire[n][k] \in Text
    BY <1>1 DEF Carries
  <1>3. wire[n][k].event \in Event /\ wire[n][k].event = <<s, v>>
    BY <1>2, TextType DEF Carries
  <1>4. s \in Streams /\ v \in Nat
    BY <1>3, EventType, SubscriptionsAssumption
  <1>5. TextLink(n, wire[n][k])
    BY DEF Inv1, Linked, TextLinks, Carries
  <1> QED  BY <1>2, <1>3, <1>4, <1>5 DEF TextLink, Carries

(* Where nothing is sent or read, and each connection that is up was, or   *)
(* has nothing to carry. *)
LEMMA PendingStays ==
    ASSUME TypeOK, NEW p \in [Streams -> Nat], Pending(p), UNCHANGED sent,
           \A n \in Nodes, k \in Nat, s \in Streams, v \in Nat :
             Carries(n, k, s, v)' => Carries(n, k, s, v),
           \A s \in Streams : conn'[s] /\ sent[s] # 0 =>
             /\ conn[s] /\ host'[s] = host[s]
             /\ \A k \in Nat, v \in Nat :
                  Carries(host[s], k, s, v) => Carries(host[s], k, s, v)'
    PROVE  Pending(p)'
  <1>1. \A s \in Streams : p[s] <= sent'[s]
    BY DEF Pending
  <1>2. \A n \in Nodes, k \in Nat, s \in Streams, v \in Nat :
          Carries(n, k, s, v)' => p[s] < v /\ v <= sent'[s]
    BY DEF Pending
  <1>3. \A n \in Nodes, j, k \in Nat, s \in Streams, v, w \in Nat :
          Carries(n, j, s, v)' /\ Carries(n, k, s, w)' /\ j < k => v < w
    BY DEF Pending
  <1>4. ASSUME NEW s \in Streams, NEW v \in Nat, conn'[s], p[s] < v, v <= sent'[s]
        PROVE  \E k \in Nat : Carries(host[s], k, s, v)'
    <2>1. conn[s] /\ host'[s] = host[s] /\ v <= sent[s]
      BY <1>4 DEF TypeOK
    <2>2. PICK k \in Nat : Carries(host[s], k, s, v)
      BY <1>4, <2>1 DEF Pending
    <2>3. sent[s] # 0
      BY <1>4, <2>1
    <2> QED  BY <1>4, <2>2, <2>3
  <1> QED  BY <1>1, <1>2, <1>3, <1>4 DEF Pending

(* Where the wires do not change: a new stream has nothing to carry. *)
LEMMA SilentPending ==
    ASSUME Inv1, Fresh, NEW p \in [Streams -> Nat], Pending(p), UNCHANGED <<wire, sent>>,
           \/ UNCHANGED <<host, conn>>
           \/ \E s \in Streams : subscribe(s)
    PROVE  Pending(p)'
  <1>1. \A n \in Nodes, k \in Nat, s \in Streams, v \in Nat :
          Carries(n, k, s, v)' => Carries(n, k, s, v)
    BY DEF Carries
  <1>2. ASSUME NEW s \in Streams, conn'[s], sent[s] # 0
        PROVE  conn[s] /\ host'[s] = host[s]
    <2>1. CASE UNCHANGED <<host, conn>>
      BY <1>2, <2>1
    <2>2. ASSUME NEW q \in Streams, subscribe(q) PROVE conn[s] /\ host'[s] = host[s]
      <3>1. sid[q] = None
        BY <2>2 DEF subscribe, Inv1, Linked, StreamLinks
      <3>2. s # q
        BY <1>2, <3>1 DEF Fresh
      <3> QED  BY <1>2, <2>2, <3>2 DEF subscribe, Inv1, TypeOK
    <2> QED  BY <2>1, <2>2
  <1>3. ASSUME NEW s \in Streams, host'[s] = host[s], NEW k \in Nat, NEW v \in Nat,
               Carries(host[s], k, s, v)
        PROVE  Carries(host[s], k, s, v)'
    BY <1>3 DEF Carries
  <1> QED  BY <1>1, <1>2, <1>3, PendingStays DEF Inv1

(* An id is no notification. *)
LEMMA AcceptPending ==
    ASSUME Inv1, NEW p \in [Streams -> Nat], Pending(p), NEW s \in Streams, Accept(s)
    PROVE  Pending(p)'
  <1> DEFINE m == [kind |-> "id", of |-> s]
  <1>1. PICK n \in Nodes : n = host[s] /\ conn[s]
    BY DEF Accept, Inv1, Linked, StreamLinks
  <1>2. /\ wire' = [wire EXCEPT ![n] = Append(@, m)]
        /\ UNCHANGED <<host, conn, sent>>
    BY <1>1 DEF Accept
  <1>3. m \in Text /\ m.kind # "event"
    BY TextType
  <1> HIDE DEF m
  <1>4. ASSUME NEW x \in Nodes, NEW k \in Nat, NEW r \in Streams, NEW v \in Nat
        PROVE  Carries(x, k, r, v)' <=> Carries(x, k, r, v)
    <2>1. CASE x # n
      BY <1>2, <1>3, <2>1, WireAppend DEF Carries, Inv1
    <2>2. CASE x = n
      <3>1. /\ Len(wire[n]) \in Nat
            /\ DOMAIN wire[n] = 1..Len(wire[n]) /\ DOMAIN wire'[n] = 1..(Len(wire[n]) + 1)
            /\ \A i \in 1..Len(wire[n]) : wire'[n][i] = wire[n][i]
            /\ wire'[n][Len(wire[n]) + 1] = m
        BY <1>2, <1>3, WireAppend DEF Inv1
      <3>2. CASE k \in 1..Len(wire[n])
        <4>1. k \in DOMAIN wire[n] /\ k \in DOMAIN wire'[n] /\ wire'[n][k] = wire[n][k]
          BY <3>1, <3>2
        <4> QED  BY <2>2, <4>1 DEF Carries
      <3>3. CASE k \notin 1..Len(wire[n])
        <4>1. ~Carries(n, k, r, v)
          BY <3>1, <3>3 DEF Carries
        <4>2. k \in DOMAIN wire'[n] => wire'[n][k] = m
          BY <3>1, <3>3
        <4>3. ~Carries(n, k, r, v)'
          BY <1>3, <4>2 DEF Carries
        <4> QED  BY <2>2, <4>1, <4>3
      <3> QED  BY <3>2, <3>3
    <2> QED  BY <2>1, <2>2
  <1>5. ASSUME NEW r \in Streams, conn[r], NEW k \in Nat, NEW v \in Nat,
               Carries(host[r], k, r, v)
        PROVE  Carries(host[r], k, r, v)'
    <2>1. PICK x \in Nodes : x = host[r]
      BY <1>5 DEF Inv1, Linked, StreamLinks
    <2>2. Carries(x, k, r, v)'
      BY <1>4, <1>5, <2>1
    <2>3. x = host'[r]
      BY <1>2, <2>1
    <2> QED  BY <2>2, <2>3 DEF Carries
  <1> QED  BY <1>2, <1>4, <1>5, PendingStays DEF Inv1

(* What is lost with a connection is lost for all who used it. *)
LEMMA DisconnectPending ==
    ASSUME Inv1, NEW p \in [Streams -> Nat], Pending(p), NEW n \in Nodes, Disconnect(n)
    PROVE  Pending(p)'
  <1>1. /\ wire' = [wire EXCEPT ![n] = <<>>]
        /\ UNCHANGED <<host, sent>>
        /\ \A s \in Streams : conn'[s] => conn[s] /\ host[s] # n
    BY DEF Disconnect
  <1>2. wire'[n] = <<>> /\ \A x \in Nodes \ {n} : wire'[x] = wire[x]
    BY <1>1 DEF Inv1, TypeOK
  <1>3. ASSUME NEW x \in Nodes, NEW k \in Nat, NEW r \in Streams, NEW v \in Nat,
               Carries(x, k, r, v)'
        PROVE  Carries(x, k, r, v)
    <2>1. CASE x = n
      BY <1>2, <1>3, <2>1 DEF Carries
    <2>2. CASE x # n
      BY <1>2, <1>3, <2>2 DEF Carries
    <2> QED  BY <2>1, <2>2
  <1>4. ASSUME NEW r \in Streams, conn'[r], NEW k \in Nat, NEW v \in Nat,
               Carries(host[r], k, r, v)
        PROVE  Carries(host[r], k, r, v)'
    <2>1. host[r] \in Nodes \ {n} /\ host'[r] = host[r]
      BY <1>1, <1>4 DEF Inv1, Linked, StreamLinks
    <2>2. wire'[host'[r]] = wire[host[r]]
      BY <1>2, <2>1
    <2> QED  BY <1>4, <2>2 DEF Carries
  <1> QED  BY <1>1, <1>3, <1>4, PendingStays DEF Inv1

(* The next notification comes after those that are on their way. *)
LEMMA EmitPending ==
    ASSUME Inv1, NEW p \in [Streams -> Nat], Pending(p), NEW q \in Streams, Emit(q)
    PROVE  Pending(p)'
  <1> DEFINE m == [kind |-> "event", id |-> sid[q], event |-> <<q, sent[q] + 1>>]
  <1>1. PICK n \in Nodes : n = host[q] /\ conn[q]
    BY DEF Emit, Inv1, Linked, StreamLinks
  <1>2. /\ wire' = [wire EXCEPT ![n] = Append(@, m)]
        /\ UNCHANGED <<host, conn>>
        /\ sent' = [sent EXCEPT ![q] = @ + 1]
    BY <1>1 DEF Emit
  <1>3. m \in Text /\ m.kind = "event" /\ m.event = <<q, sent[q] + 1>>
    <2>1. sent[q] + 1 \in 1..MaxEvents[q] /\ sid[q] \in Ids
      <3>1. sent[q] \in Nat /\ MaxEvents[q] \in Nat /\ sid[q] \in Ids \cup {None}
        BY SubscriptionsAssumption DEF Inv1, TypeOK
      <3>2. sent[q] < MaxEvents[q] /\ sid[q] # None
        BY DEF Emit
      <3> QED  BY <3>1, <3>2
    <2>2. <<q, sent[q] + 1>> \in Event
      BY <2>1, EventType
    <2>3. m \in Text
      BY <2>1, <2>2, TextType
    <2> QED  BY <2>3
  <1> HIDE DEF m
  <1>4. /\ sent[q] \in Nat /\ sent'[q] = sent[q] + 1
        /\ \A s \in Streams : sent[s] \in Nat /\ (s # q => sent'[s] = sent[s])
    BY <1>2 DEF Inv1, TypeOK
  <1>5. ASSUME NEW x \in Nodes, NEW k \in Nat, NEW r \in Streams, NEW v \in Nat
        PROVE  /\ Carries(x, k, r, v)' <=>
                    \/ Carries(x, k, r, v)
                    \/ x = n /\ k = Len(wire[n]) + 1 /\ r = q /\ v = sent[q] + 1
               /\ Carries(n, k, r, v) => k <= Len(wire[n])
    <2>1. /\ Len(wire[n]) \in Nat
          /\ DOMAIN wire[n] = 1..Len(wire[n]) /\ DOMAIN wire'[n] = 1..(Len(wire[n]) + 1)
          /\ \A i \in 1..Len(wire[n]) : wire'[n][i] = wire[n][i]
          /\ wire'[n][Len(wire[n]) + 1] = m
      BY <1>2, <1>3, WireAppend DEF Inv1
    <2>2. Carries(n, k, r, v) => k <= Len(wire[n])
      BY <2>1 DEF Carries
    <2>3. CASE x # n
      BY <1>2, <1>3, <2>2, <2>3, WireAppend DEF Carries, Inv1
    <2>4. CASE x = n /\ k # Len(wire[n]) + 1
      <3>1. k \in DOMAIN wire'[n] <=> k \in DOMAIN wire[n]
        BY <2>1, <2>4
      <3>2. k \in DOMAIN wire[n] => wire'[n][k] = wire[n][k]
        BY <2>1
      <3> QED  BY <2>2, <2>4, <3>1, <3>2 DEF Carries
    <2>5. CASE x = n /\ k = Len(wire[n]) + 1
      <3>1. k \in DOMAIN wire'[n] /\ wire'[n][k] = m /\ ~(k \in DOMAIN wire[n])
        BY <2>1, <2>5
      <3>2. <<r, v>> = <<q, sent[q] + 1>> <=> r = q /\ v = sent[q] + 1
        OBVIOUS
      <3> QED  BY <1>3, <2>2, <2>5, <3>1, <3>2 DEF Carries
    <2> QED  BY <2>3, <2>4, <2>5
  <1>6. Len(wire[n]) \in Nat
    BY DEF Inv1, TypeOK
  <1>7. \A s \in Streams : p[s] <= sent'[s]
    BY <1>4 DEF Pending
  <1>8. \A x \in Nodes, k \in Nat, s \in Streams, v \in Nat :
          Carries(x, k, s, v)' => p[s] < v /\ v <= sent'[s]
    BY <1>4, <1>5 DEF Pending
  <1>9. ASSUME NEW x \in Nodes, NEW j \in Nat, NEW k \in Nat, NEW s \in Streams,
               NEW v \in Nat, NEW w \in Nat,
               Carries(x, j, s, v)', Carries(x, k, s, w)', j < k
        PROVE  v < w
    <2>1. Carries(x, j, s, v)
      BY <1>5, <1>6, <1>9
    <2>2. CASE Carries(x, k, s, w)
      BY <1>9, <2>1, <2>2 DEF Pending
    <2>3. CASE s = q /\ w = sent[q] + 1
      BY <1>4, <2>1, <2>3 DEF Pending
    <2> QED  BY <1>5, <1>9, <2>2, <2>3
  <1>10. ASSUME NEW s \in Streams, NEW v \in Nat, conn'[s], p[s] < v, v <= sent'[s]
         PROVE  \E k \in Nat : Carries(host[s], k, s, v)'
    <2>1. PICK x \in Nodes : x = host[s] /\ x = host'[s] /\ conn[s]
      BY <1>2, <1>10 DEF Inv1, Linked, StreamLinks
    <2>2. CASE v <= sent[s]
      <3>1. PICK k \in Nat : Carries(host[s], k, s, v)
        BY <1>10, <2>1, <2>2 DEF Pending
      <3>2. Carries(x, k, s, v)
        BY <2>1, <3>1
      <3>3. Carries(x, k, s, v)'
        BY <1>5, <3>2
      <3> QED  BY <2>1, <3>3 DEF Carries
    <2>3. CASE ~(v <= sent[s])
      <3>1. s = q /\ v = sent[q] + 1
        BY <1>4, <1>10, <2>3
      <3>2. PICK k \in Nat : k = Len(wire[n]) + 1
        BY <1>6
      <3>3. Carries(n, k, s, v)'
        BY <1>5, <3>1, <3>2
      <3>4. n = host'[s]
        BY <1>1, <2>1, <3>1
      <3> QED  BY <3>3, <3>4 DEF Carries
    <2> QED  BY <2>2, <2>3
  <1> QED  BY <1>7, <1>8, <1>9, <1>10 DEF Pending

(* When the first text is read from a wire, the numbers p of the last      *)
(* notifications that were read become r. *)
LEMMA ReadPending ==
    ASSUME Inv1, NEW p \in [Streams -> Nat], Pending(p), NEW n \in Nodes, wire[n] # <<>>,
           wire' = [wire EXCEPT ![n] = Tail(@)], UNCHANGED <<host, conn, sent>>,
           NEW r \in [Streams -> Nat],
           \A s \in Streams : r[s] # p[s] => Carries(n, 1, s, r[s]),
           \A s \in Streams, v \in Nat : Carries(n, 1, s, v) => r[s] = v
    PROVE  Pending(r)'
  <1>1. ASSUME NEW x \in Nodes, NEW k \in Nat, NEW s \in Streams, NEW v \in Nat
        PROVE  /\ x # n => (Carries(x, k, s, v)' <=> Carries(x, k, s, v))
               /\ x = n /\ Carries(x, k, s, v)' => Carries(x, k + 1, s, v)
               /\ x = n /\ Carries(x, k, s, v) /\ k # 1 => Carries(x, k - 1, s, v)'
    <2>1. CASE x # n
      <3>1. wire'[x] = wire[x]
        BY <2>1 DEF Inv1, TypeOK
      <3> QED  BY <2>1, <3>1 DEF Carries
    <2>2. CASE x = n
      <3>1. wire'[n] = Tail(wire[n])
        BY DEF Inv1, TypeOK
      <3>2. /\ \A i \in DOMAIN wire'[n] : /\ i + 1 \in DOMAIN wire[n]
                                          /\ wire'[n][i] = wire[n][i + 1]
            /\ \A i \in DOMAIN wire[n] : i # 1 => i - 1 \in DOMAIN wire'[n]
        <4>1. /\ \A i \in DOMAIN Tail(wire[n]) : /\ i + 1 \in DOMAIN wire[n]
                                                 /\ Tail(wire[n])[i] = wire[n][i + 1]
              /\ \A i \in DOMAIN wire[n] : i # 1 => i - 1 \in DOMAIN Tail(wire[n])
          BY WireHead DEF Inv1
        <4> QED  BY <3>1, <4>1, Zenon
      <3>3. Carries(n, k, s, v)' => Carries(n, k + 1, s, v)
        BY <3>2 DEF Carries
      <3>4. ASSUME Carries(n, k, s, v), k # 1 PROVE Carries(n, k - 1, s, v)'
        <4>1. k - 1 \in DOMAIN wire'[n] /\ (k - 1) + 1 = k
          <5>1. k \in DOMAIN wire[n]
            BY <3>4 DEF Carries
          <5>2. k - 1 \in DOMAIN wire'[n]
            BY <3>2, <3>4, <5>1
          <5> QED  BY <5>2
        <4>2. wire'[n][k - 1] = wire[n][k]
          BY <3>2, <4>1
        <4> QED  BY <3>4, <4>1, <4>2 DEF Carries
      <3> QED  BY <2>2, <3>3, <3>4
    <2> QED  BY <2>1, <2>2
  <1>2. \A s \in Streams : sent[s] \in Nat /\ p[s] \in Nat /\ r[s] \in Nat
    BY DEF Inv1, TypeOK
  <1>3. \A s \in Streams : r[s] <= sent'[s]
    BY <1>2 DEF Pending
  <1>4. ASSUME NEW x \in Nodes, NEW k \in Nat, NEW s \in Streams, NEW v \in Nat,
               Carries(x, k, s, v)'
        PROVE  r[s] < v /\ v <= sent'[s]
    <2>1. PICK j \in Nat : Carries(x, j, s, v) /\ (x = n => j > 1)
      <3>1. CASE x # n
        BY <1>1, <1>4, <3>1
      <3>2. CASE x = n
        <4>1. Carries(n, k + 1, s, v)
          BY <1>1, <1>4, <3>2
        <4>2. k + 1 # 1
          <5>1. wire'[n] \in Seq(Text)
            BY WireHead DEF Inv1, TypeOK
          <5> QED  BY <1>4, <3>2, <5>1 DEF Carries
        <4> QED  BY <3>2, <4>1, <4>2
      <3> QED  BY <3>1, <3>2
    <2>2. p[s] < v /\ v <= sent[s]
      BY <2>1 DEF Pending
    <2>3. CASE r[s] = p[s]
      BY <2>2, <2>3
    <2>4. CASE r[s] # p[s]
      <3>1. Carries(n, 1, s, r[s])
        BY <2>4
      <3>2. x = n
        BY <2>1, <3>1, CarriedLink
      <3> QED  BY <1>2, <2>1, <2>2, <3>1, <3>2 DEF Pending
    <2> QED  BY <2>3, <2>4
  <1>5. ASSUME NEW x \in Nodes, NEW j \in Nat, NEW k \in Nat, NEW s \in Streams,
               NEW v \in Nat, NEW w \in Nat,
               Carries(x, j, s, v)', Carries(x, k, s, w)', j < k
        PROVE  v < w
    <2>1. CASE x # n
      BY <1>1, <1>5, <2>1 DEF Pending
    <2>2. CASE x = n
      <3>1. Carries(x, j + 1, s, v) /\ Carries(x, k + 1, s, w) /\ j + 1 < k + 1
        BY <1>1, <1>5, <2>2
      <3>2. j + 1 \in Nat /\ k + 1 \in Nat
        OBVIOUS
      <3> QED  BY <3>1, <3>2 DEF Pending
    <2> QED  BY <2>1, <2>2
  <1>6. ASSUME NEW s \in Streams, NEW v \in Nat, conn'[s], r[s] < v, v <= sent'[s]
        PROVE  \E k \in Nat : Carries(host[s], k, s, v)'
    <2>1. PICK x \in Nodes : x = host[s] /\ x = host'[s] /\ conn[s]
      BY <1>6 DEF Inv1, Linked, StreamLinks
    <2>2. p[s] < v
      BY <1>2, <1>6 DEF Pending
    <2>3. PICK k \in Nat : Carries(host[s], k, s, v)
      BY <1>6, <2>1, <2>2 DEF Pending
    <2>4. Carries(x, k, s, v) /\ k >= 1
      BY <2>1, <2>3, CarriedLink
    <2>5. CASE x # n
      <3>1. Carries(x, k, s, v)'
        BY <1>1, <2>4, <2>5
      <3> QED  BY <2>1, <3>1 DEF Carries
    <2>6. CASE x = n
      <3>1. k # 1
        BY <1>2, <1>6, <2>4, <2>6
      <3>2. PICK j \in Nat : j = k - 1
        BY <2>4, <3>1
      <3>3. Carries(x, j, s, v)'
        BY <1>1, <2>4, <2>6, <3>1, <3>2
      <3> QED  BY <2>1, <3>3 DEF Carries
    <2> QED  BY <2>5, <2>6
  <1> QED  BY <1>3, <1>4, <1>5, <1>6 DEF Pending

(* The first notification of a subscription on a wire is the one after the *)
(* last that was read. *)
LEMMA NextInLine ==
    ASSUME Inv1, NEW p \in [Streams -> Nat], Pending(p), NEW n \in Nodes,
           NEW s \in Streams, NEW v \in Nat, Carries(n, 1, s, v)
    PROVE  v = p[s] + 1
  <1>1. conn[s] /\ host[s] = n
    BY CarriedLink
  <1>2. p[s] < v /\ v <= sent[s] /\ p[s] \in Nat /\ sent[s] \in Nat
    BY DEF Pending, Inv1, TypeOK
  <1> SUFFICES ASSUME p[s] + 1 < v PROVE FALSE
    BY <1>2
  <1>3. PICK u \in Nat : u = p[s] + 1
    BY <1>2
  <1>4. PICK k \in Nat : Carries(n, k, s, u)
    BY <1>1, <1>2, <1>3 DEF Pending
  <1>5. k >= 1
    BY <1>4, CarriedLink
  <1>6. CASE k = 1
    BY <1>3, <1>4, <1>6 DEF Carries
  <1>7. CASE 1 < k
    <2>1. v < u
      BY <1>4, <1>7 DEF Pending
    <2> QED  BY <1>2, <1>3, <2>1
  <1> QED  BY <1>5, <1>6, <1>7

-----------------------------------------------------------------------------
(* What is received *)

(* Where nothing is read, accepted or registered; a stream that is dropped *)
(* may lose the end of what it received. *)
LEMMA ReceiptStays ==
    ASSUME TypeOK, NEW p \in [Streams -> Nat], Receipt(p),
           UNCHANGED <<subscriptions, sid, missed>>,
           \A s \in Streams :
             /\ sid[s] = None => sent'[s] = sent[s]
             /\ task[s] = "stopped" => task'[s] = "stopped"
             /\ Received(s)' = Received(s) \/ task'[s] = "stopped"
             /\ Received(s) = <<>> => Received(s)' = <<>>
             /\ \A k \in DOMAIN Received(s)' : /\ k \in DOMAIN Received(s)
                                               /\ Received(s)'[k] = Received(s)[k]
    PROVE  Receipt(p)'
  <1>1. Fresh'
    BY DEF Receipt, Fresh
  <1>2. OnceInOrder'
    BY DEF Receipt, OnceInOrder
  <1>3. Seen(p)'
    BY DEF Receipt, Seen
  <1>4. ASSUME NEW s \in Streams, Alone(s)'
        PROVE  /\ ~Registered(s)' => Received(s)' = <<>> /\ missed'[s] = p[s]
               /\ Registered(s)' =>
                    /\ \A k \in DOMAIN Received(s)' : Received(s)'[k] = <<s, missed'[s] + k>>
                    /\ task'[s] # "stopped" => p[s] = missed'[s] + Len(Received(s)')
    <2>1. Alone(s) /\ (Registered(s)' <=> Registered(s)) /\ missed'[s] = missed[s]
      BY <1>4 DEF Alone, Registered
    <2>2. ~Registered(s)' => Received(s)' = <<>> /\ missed'[s] = p[s]
      BY <2>1 DEF Receipt, Gapless
    <2>3. ASSUME Registered(s)', NEW k \in DOMAIN Received(s)'
          PROVE  Received(s)'[k] = <<s, missed'[s] + k>>
      BY <2>1, <2>3 DEF Receipt, Gapless
    <2>4. ASSUME Registered(s)', task'[s] # "stopped"
          PROVE  p[s] = missed'[s] + Len(Received(s)')
      BY <2>1, <2>4 DEF Receipt, Gapless
    <2> QED  BY <2>2, <2>3, <2>4
  <1>5. Gapless(p)'
    BY <1>4 DEF Gapless
  <1> QED  BY <1>1, <1>2, <1>3, <1>5 DEF Receipt

(* The id comes before anything is sent under it. *)
LEMMA AcceptReceipt ==
    ASSUME Inv1, NEW p \in [Streams -> Nat], Pending(p), Receipt(p),
           NEW s \in Streams, Accept(s)
    PROVE  Receipt(p)'
  <1>1. UNCHANGED <<notifications, taken, subscriptions, missed, task, sent>>
    BY DEF Accept
  <1>2. \A x \in Streams : Received(x)' = Received(x) /\ (Registered(x)' <=> Registered(x))
    BY <1>1 DEF Received, Registered
  <1>3. sid[s] = None /\ sid'[s] \in Ids /\ \A x \in Streams \ {s} : sid'[x] = sid[x]
    BY DEF Accept, Inv1, TypeOK
  <1>4. Fresh'
    BY <1>1, <1>2, <1>3, SubscriptionsAssumption DEF Receipt, Fresh
  <1>5. OnceInOrder'
    BY <1>2 DEF Receipt, OnceInOrder
  <1>6. Seen(p)'
    BY <1>2 DEF Receipt, Seen
  <1>7. ~Registered(s) /\ Received(s) = <<>> /\ missed[s] = p[s]
    <2>1. ~Registered(s)
      BY <1>3, SubscriptionsAssumption DEF Registered, Inv1, Linked, SenderLinks
    <2>2. Received(s) = <<>> /\ missed[s] = 0 /\ sent[s] = 0
      BY <1>3 DEF Receipt, Fresh
    <2>3. p[s] = 0
      BY <2>2 DEF Pending
    <2> QED  BY <2>1, <2>2, <2>3
  <1>8. \A x \in Streams \ {s} : Alone(x)' => Alone(x)
    BY <1>3 DEF Alone
  <1>9. Gapless(p)'
    BY <1>1, <1>2, <1>7, <1>8 DEF Receipt, Gapless
  <1> QED  BY <1>4, <1>5, <1>6, <1>9 DEF Receipt

(* From the registration on, what is read is received. *)
LEMMA AnsweredReceipt ==
    ASSUME Inv1, NEW p \in [Streams -> Nat], Receipt(p), NEW s \in Streams, PollAnswered(s)
    PROVE  Receipt(p)'
  <1> DEFINE i == sid[s]
  <1>1. i \in Ids /\ state[s] = "Answered"
    BY DEF PollAnswered, Inv1, TypeOK, Linked, StreamLinks
  <1>2. /\ subscriptions' = [subscriptions EXCEPT ![i] = s]
        /\ task' = Woken({subscriptions[i]}, "channel")
        /\ UNCHANGED <<notifications, taken, sid, missed, sent>>
    BY DEF PollAnswered, add_subscription
  <1>3. subscriptions'[i] = s /\ \A j \in Ids \ {i} : subscriptions'[j] = subscriptions[j]
    BY <1>1, <1>2 DEF Inv1, TypeOK
  <1>4. \A x \in Streams : Received(x)' = Received(x) /\ (Alone(x)' <=> Alone(x))
    BY <1>2 DEF Received, Alone
  <1>5. \A x \in Streams : task[x] = "stopped" => task'[x] = "stopped"
    BY <1>2 DEF Woken
  <1>6. Fresh' /\ OnceInOrder' /\ Seen(p)'
    <2>1. Fresh'
      BY <1>2, <1>4 DEF Receipt, Fresh
    <2>2. OnceInOrder'
      BY <1>4 DEF Receipt, OnceInOrder
    <2>3. Seen(p)'
      BY <1>4 DEF Receipt, Seen
    <2> QED  BY <2>1, <2>2, <2>3
  <1>7. ~Registered(s)
    BY <1>1, SubscriptionsAssumption DEF Registered, Inv1, Linked, SenderLinks
  <1>8. Registered(s)'
    BY <1>1, <1>3 DEF Registered
  <1>9. ASSUME NEW x \in Streams \ {s}, Alone(x) PROVE Registered(x)' <=> Registered(x)
    <2>1. subscriptions[i] # x
      BY <1>1, <1>9, SubscriptionsAssumption DEF Alone, Inv1, Linked, SenderLinks
    <2> QED  BY <1>1, <1>3, <2>1 DEF Registered
  <1>10. ASSUME Alone(s)
         PROVE  /\ Received(s)' = <<>>
                /\ p[s] = missed'[s] + Len(Received(s)')
    <2>1. Received(s) = <<>> /\ missed[s] = p[s]
      BY <1>7, <1>10 DEF Receipt, Gapless
    <2> QED  BY <1>2, <1>4, <2>1
  <1>11. Gapless(p)'
    <2> SUFFICES ASSUME NEW x \in Streams, Alone(x)
                 PROVE  (Alone(x) =>
                           /\ ~Registered(x) => Received(x) = <<>> /\ missed[x] = p[x]
                           /\ Registered(x) =>
                                /\ \A k \in DOMAIN Received(x) :
                                     Received(x)[k] = <<x, missed[x] + k>>
                                /\ task[x] # "stopped" => p[x] = missed[x] + Len(Received(x)))'
      BY <1>4 DEF Gapless
    <2>1. CASE x = s
      BY <1>8, <1>10, <2>1
    <2>2. CASE x # s
      BY <1>2, <1>4, <1>5, <1>9, <2>2 DEF Receipt, Gapless
    <2> QED  BY <2>1, <2>2
  <1> QED  BY <1>6, <1>11 DEF Receipt

(* What a socket thread reads is the notification of a subscription, with  *)
(* its id. *)
LEMMA FirstEvent ==
    ASSUME Inv1, NEW n \in Nodes, wire[n] # <<>>, Head(wire[n]).kind = "event"
    PROVE  \E q \in Streams, v \in Nat, i \in Ids :
             /\ Carries(n, 1, q, v) /\ sid[q] = i /\ <<q, v>> \in Event
             /\ Head(wire[n]).id = i /\ Head(wire[n]).event = <<q, v>>
  <1>1. PICK m \in Text : m = Head(wire[n]) /\ m = wire[n][1] /\ 1 \in DOMAIN wire[n]
    BY WireHead DEF Inv1
  <1>2. m.id \in Ids /\ m.event \in Event /\ m.kind = "event"
    BY <1>1, TextType
  <1>3. PICK q \in Streams, v \in Nat : m.event = <<q, v>>
    BY <1>2, EventType, SubscriptionsAssumption
  <1>4. Carries(n, 1, q, v)
    BY <1>1, <1>2, <1>3 DEF Carries
  <1>5. sid[q] = m.id
    BY <1>1, <1>4, CarriedLink
  <1> QED  BY <1>1, <1>2, <1>3, <1>4, <1>5

(* A notification that nobody is registered for is missed by its stream. *)
LEMMA MissedReceipt ==
    ASSUME Inv1, NEW p \in [Streams -> Nat], Receipt(p),
           NEW q \in Streams, NEW v \in Nat, NEW i \in Ids,
           sid[q] = i, subscriptions[i] = None, v = p[q] + 1,
           missed' = [missed EXCEPT ![q] = v],
           UNCHANGED <<notifications, taken, task, subscriptions, sid, sent>>,
           NEW r \in [Streams -> Nat], r = [p EXCEPT ![q] = v]
    PROVE  Receipt(r)'
  <1>1. \A x \in Streams : /\ Received(x)' = Received(x)
                           /\ Alone(x)' <=> Alone(x)
                           /\ Registered(x)' <=> Registered(x)
    BY DEF Received, Alone, Registered
  <1>2. /\ r[q] = v /\ missed'[q] = v
        /\ \A x \in Streams \ {q} : r[x] = p[x] /\ missed'[x] = missed[x]
    BY DEF Inv1, TypeOK
  <1>3. \A x \in Streams : p[x] <= r[x] /\ p[x] \in Nat /\ r[x] \in Nat
    BY <1>2
  <1>4. Fresh'
    BY <1>1, <1>2, SubscriptionsAssumption DEF Receipt, Fresh
  <1>5. OnceInOrder'
    BY <1>1 DEF Receipt, OnceInOrder
  <1>6. Seen(r)'
    <2> SUFFICES ASSUME NEW x \in Streams, NEW k \in DOMAIN Received(x)
                 PROVE  Received(x)[k][2] <= r[Received(x)[k][1]]
      BY <1>1 DEF Seen
    <2>1. Received(x)[k][1] \in Streams /\ Received(x)[k][2] \in Nat
      BY ReceivedType DEF Inv1
    <2>2. Received(x)[k][2] <= p[Received(x)[k][1]]
      BY DEF Receipt, Seen
    <2> QED  BY <1>3, <2>1, <2>2
  <1>7. ~Registered(q)
    BY SubscriptionsAssumption DEF Registered, Inv1, Linked, SenderLinks
  <1>8. Gapless(r)'
    BY <1>1, <1>2, <1>7 DEF Receipt, Gapless
  <1> QED  BY <1>4, <1>5, <1>6, <1>8 DEF Receipt

(* A notification for a stream that was dropped is lost. *)
LEMMA LostReceipt ==
    ASSUME Inv1, NEW p \in [Streams -> Nat], Receipt(p),
           NEW q \in Streams, NEW v \in Nat, NEW i \in Ids,
           sid[q] = i, subscriptions[i] # None, v = p[q] + 1,
           task[subscriptions[i]] = "stopped",
           UNCHANGED <<notifications, taken, task, subscriptions, sid, sent, missed>>,
           NEW r \in [Streams -> Nat], r = [p EXCEPT ![q] = v]
    PROVE  Receipt(r)'
  <1>1. \A x \in Streams : /\ Received(x)' = Received(x)
                           /\ Alone(x)' <=> Alone(x)
                           /\ Registered(x)' <=> Registered(x)
    BY DEF Received, Alone, Registered
  <1>2. r[q] = v /\ \A x \in Streams \ {q} : r[x] = p[x]
    OBVIOUS
  <1>3. \A x \in Streams : p[x] <= r[x] /\ p[x] \in Nat /\ r[x] \in Nat
    BY <1>2
  <1>4. Fresh'
    BY <1>1 DEF Receipt, Fresh
  <1>5. OnceInOrder'
    BY <1>1 DEF Receipt, OnceInOrder
  <1>6. Seen(r)'
    <2> SUFFICES ASSUME NEW x \in Streams, NEW k \in DOMAIN Received(x)
                 PROVE  Received(x)[k][2] <= r[Received(x)[k][1]]
      BY <1>1 DEF Seen
    <2>1. Received(x)[k][1] \in Streams /\ Received(x)[k][2] \in Nat
      BY ReceivedType DEF Inv1
    <2>2. Received(x)[k][2] <= p[Received(x)[k][1]]
      BY DEF Receipt, Seen
    <2> QED  BY <1>3, <2>1, <2>2
  <1>7. Alone(q) => Registered(q) /\ task[q] = "stopped"
    <2>1. subscriptions[i] \in Streams /\ sid[subscriptions[i]] = i
      BY DEF Inv1, TypeOK, Linked, SenderLinks
    <2> QED  BY <2>1 DEF Alone, Registered
  <1>8. Gapless(r)'
    BY <1>1, <1>2, <1>7 DEF Receipt, Gapless
  <1> QED  BY <1>4, <1>5, <1>6, <1>8 DEF Receipt

(* A notification for a stream that is there is received, after all those  *)
(* of the same subscription. *)
LEMMA DeliveredReceipt ==
    ASSUME Inv1, NEW p \in [Streams -> Nat], Receipt(p),
           NEW q \in Streams, NEW v \in Nat, NEW i \in Ids, <<q, v>> \in Event,
           sid[q] = i, v = p[q] + 1,
           NEW s \in Streams, subscriptions[i] = s, task[s] # "stopped",
           notifications' = [notifications EXCEPT ![s] = Append(@, <<q, v>>)],
           task' = Woken({s}, "channel"),
           UNCHANGED <<taken, subscriptions, sid, sent, missed>>,
           NEW r \in [Streams -> Nat], r = [p EXCEPT ![q] = v]
    PROVE  Receipt(r)'
  <1>1. \A x \in Streams : (Alone(x)' <=> Alone(x)) /\ (Registered(x)' <=> Registered(x))
    BY DEF Alone, Registered
  <1>2. r[q] = v /\ \A x \in Streams \ {q} : r[x] = p[x]
    OBVIOUS
  <1>3. \A x \in Streams : p[x] <= r[x] /\ p[x] \in Nat /\ r[x] \in Nat
    BY <1>2
  <1>4. /\ \A x \in Streams \ {s} : Received(x)' = Received(x)
        /\ Received(s)' = Append(Received(s), <<q, v>>)
    BY NotifiedReceived DEF Inv1
  <1>5. PICK l \in Nat : /\ l = Len(Received(s))
                         /\ DOMAIN Received(s) = 1..l
                         /\ DOMAIN Received(s)' = 1..(l + 1)
                         /\ Len(Received(s)') = l + 1
                         /\ Received(s)'[l + 1] = <<q, v>>
                         /\ \A k \in 1..l : Received(s)'[k] = Received(s)[k]
    <2>1. Received(s) \in Seq(Event) /\ Len(Received(s)) \in Nat
      BY ReceivedType DEF Inv1
    <2>2. PICK t \in Seq(Event), e \in Event : t = Received(s) /\ e = <<q, v>>
      BY <2>1
    <2>3. /\ Len(t) \in Nat /\ DOMAIN t = 1..Len(t)
          /\ Append(t, e) \in Seq(Event) /\ Len(Append(t, e)) = Len(t) + 1
          /\ Append(t, e)[Len(t) + 1] = e
          /\ \A k \in 1..Len(t) : Append(t, e)[k] = t[k]
      BY AppendProperties, LenProperties
    <2>4. DOMAIN Append(t, e) = 1..(Len(t) + 1)
      BY <2>3, LenProperties
    <2>5. Received(s)' = Append(t, e)
      BY <1>4, <2>2
    <2>6. PICK u : u = Received(s)' /\ u = Append(t, e)
      BY <2>5
    <2>7. PICK c \in Nat : /\ c = Len(t) /\ DOMAIN t = 1..c
                           /\ DOMAIN u = 1..(c + 1) /\ Len(u) = c + 1
                           /\ u[c + 1] = e
                           /\ \A k \in 1..c : u[k] = t[k]
      BY <2>3, <2>4, <2>6
    <2>8. /\ c = Len(Received(s))
          /\ DOMAIN Received(s) = 1..c
          /\ DOMAIN Received(s)' = 1..(c + 1)
          /\ Len(Received(s)') = c + 1
          /\ Received(s)'[c + 1] = <<q, v>>
          /\ \A k \in 1..c : Received(s)'[k] = Received(s)[k]
      BY <2>2, <2>6, <2>7, Zenon
    <2> QED  BY <2>8
  <1>6. sid[s] = i /\ Registered(s)
    BY SubscriptionsAssumption DEF Registered, Inv1, Linked, SenderLinks
  <1>7. \A x \in Streams : task[x] = "stopped" <=> task'[x] = "stopped"
    BY DEF Woken
  <1>8. Fresh'
    BY <1>4, <1>6, SubscriptionsAssumption DEF Receipt, Fresh
  <1>9. ASSUME NEW x \in Streams, NEW k \in DOMAIN Received(x)
        PROVE  /\ Received(x)[k][1] \in Streams /\ Received(x)[k][2] \in Nat
               /\ Received(x)[k][2] <= r[Received(x)[k][1]]
               /\ Received(x)[k][1] = q => Received(x)[k][2] < v
    <2>1. Received(x)[k][1] \in Streams /\ Received(x)[k][2] \in Nat
      BY ReceivedType DEF Inv1
    <2>2. Received(x)[k][2] <= p[Received(x)[k][1]]
      BY DEF Receipt, Seen
    <2> QED  BY <1>3, <2>1, <2>2
  <1>10. Seen(r)'
    <2> SUFFICES ASSUME NEW x \in Streams, NEW k \in DOMAIN Received(x)'
                 PROVE  Received(x)'[k][2] <= r[Received(x)'[k][1]]
      BY DEF Seen
    <2>1. CASE x # s
      BY <1>4, <1>9, <2>1
    <2>2. CASE x = s /\ k \in 1..l
      BY <1>5, <1>9, <2>2
    <2>3. CASE x = s /\ k = l + 1
      BY <1>2, <1>5, <2>3
    <2> QED  BY <1>5, <2>1, <2>2, <2>3
  <1>11. OnceInOrder'
    <2> SUFFICES ASSUME NEW x \in Streams, NEW y \in Streams,
                        NEW j \in DOMAIN Received(x)', NEW k \in DOMAIN Received(y)'
                 PROVE  /\ Received(x)'[j] = Received(y)'[k] => x = y /\ j = k
                        /\ x = y /\ j < k /\ Received(x)'[j][1] = Received(x)'[k][1]
                             => Received(x)'[j][2] < Received(x)'[k][2]
      BY DEF OnceInOrder
    <2>1. \/ j \in DOMAIN Received(x) /\ Received(x)'[j] = Received(x)[j]
          \/ x = s /\ j = l + 1 /\ Received(x)'[j] = <<q, v>>
      <3>1. CASE x # s
        BY <1>4, <3>1
      <3>2. CASE x = s /\ j \in 1..l
        BY <1>5, <3>2
      <3>3. CASE x = s /\ j = l + 1
        BY <1>5, <3>3
      <3> QED  BY <1>5, <3>1, <3>2, <3>3
    <2>2. \/ k \in DOMAIN Received(y) /\ Received(y)'[k] = Received(y)[k]
          \/ y = s /\ k = l + 1 /\ Received(y)'[k] = <<q, v>>
      <3>1. CASE y # s
        BY <1>4, <3>1
      <3>2. CASE y = s /\ k \in 1..l
        BY <1>5, <3>2
      <3>3. CASE y = s /\ k = l + 1
        BY <1>5, <3>3
      <3> QED  BY <1>5, <3>1, <3>2, <3>3
    <2>3. CASE /\ j \in DOMAIN Received(x) /\ Received(x)'[j] = Received(x)[j]
               /\ k \in DOMAIN Received(y) /\ Received(y)'[k] = Received(y)[k]
      BY <2>3 DEF Receipt, OnceInOrder
    <2>4. CASE /\ x = s /\ j = l + 1 /\ Received(x)'[j] = <<q, v>>
               /\ k \in DOMAIN Received(y) /\ Received(y)'[k] = Received(y)[k]
      <3>1. Received(y)[k] # <<q, v>>
        BY <1>9, <2>4
      <3>2. ~(x = y /\ j < k)
        BY <1>5, <2>4
      <3> QED  BY <2>4, <3>1, <3>2
    <2>5. CASE /\ j \in DOMAIN Received(x) /\ Received(x)'[j] = Received(x)[j]
               /\ y = s /\ k = l + 1 /\ Received(y)'[k] = <<q, v>>
      BY <1>9, <2>5
    <2>6. CASE /\ x = s /\ j = l + 1 /\ y = s /\ k = l + 1
      BY <2>6
    <2> QED  BY <2>1, <2>2, <2>3, <2>4, <2>5, <2>6
  <1>12. ASSUME NEW x \in Streams, Alone(x)
         PROVE  /\ ~Registered(x) => Received(x)' = <<>> /\ missed[x] = r[x]
                /\ Registered(x) =>
                     /\ \A k \in DOMAIN Received(x)' : Received(x)'[k] = <<x, missed[x] + k>>
                     /\ task[x] # "stopped" => r[x] = missed[x] + Len(Received(x)')
    <2>1. CASE x = q
      <3>1. s = q
        BY <1>6, <1>12, <2>1 DEF Alone
      <3>2. /\ \A k \in 1..l : Received(s)[k] = <<s, missed[s] + k>>
            /\ p[s] = missed[s] + l
        BY <1>5, <1>6, <1>12, <2>1, <3>1 DEF Receipt, Gapless
      <3>3. missed[s] \in Nat /\ v = missed[s] + (l + 1)
        <4>1. missed[s] \in Nat
          BY DEF Inv1, TypeOK
        <4>2. v = p[s] + 1 /\ p[s] = missed[s] + l
          BY <3>1, <3>2
        <4>3. ASSUME NEW a \in Nat, NEW b \in Nat, a = missed[s], b = p[s]
              PROVE  b = a + l => b + 1 = a + (l + 1)
          OBVIOUS
        <4> QED  BY <4>1, <4>2, <4>3
      <3>4. \A k \in 1..(l + 1) : Received(s)'[k] = <<s, missed[s] + k>>
        <4>1. Received(s)'[l + 1] = <<s, missed[s] + (l + 1)>>
          BY <1>5, <3>1, <3>3
        <4>2. \A k \in 1..l : Received(s)'[k] = <<s, missed[s] + k>>
          BY <1>5, <3>2
        <4>3. \A k \in 1..(l + 1) : k \in 1..l \/ k = l + 1
          OBVIOUS
        <4> QED  BY <4>1, <4>2, <4>3
      <3> QED  BY <1>2, <1>5, <1>6, <2>1, <3>1, <3>3, <3>4
    <2>2. CASE x # q
      <3>1. x # s
        BY <1>6, <1>12, <2>2 DEF Alone
      <3> QED  BY <1>2, <1>4, <1>12, <2>2, <3>1 DEF Receipt, Gapless
    <2> QED  BY <2>1, <2>2
  <1>13. Gapless(r)'
    <2>1. missed' = missed
      OBVIOUS
    <2>2. ASSUME NEW x \in Streams, Alone(x)'
          PROVE  /\ ~Registered(x)' => Received(x)' = <<>> /\ missed'[x] = r[x]
                 /\ Registered(x)' =>
                      /\ \A k \in DOMAIN Received(x)' : Received(x)'[k] = <<x, missed'[x] + k>>
                      /\ task'[x] # "stopped" => r[x] = missed'[x] + Len(Received(x)')
      <3>1. Alone(x) /\ (Registered(x)' <=> Registered(x)) /\ missed'[x] = missed[x]
        BY <1>1, <2>1, <2>2
      <3>2. task'[x] # "stopped" => task[x] # "stopped"
        BY <1>7
      <3>3. ~Registered(x)' => Received(x)' = <<>> /\ missed'[x] = r[x]
        BY <1>12, <3>1, Zenon
      <3>4. Registered(x)' =>
              \A k \in DOMAIN Received(x)' : Received(x)'[k] = <<x, missed'[x] + k>>
        BY <1>12, <3>1
      <3>5. Registered(x)' /\ task'[x] # "stopped" => r[x] = missed'[x] + Len(Received(x)')
        BY <1>12, <3>1, <3>2, Zenon
      <3> QED  BY <3>3, <3>4, <3>5, Zenon
    <2> QED  BY <2>2 DEF Gapless
  <1> QED  BY <1>8, <1>10, <1>11, <1>13 DEF Receipt

-----------------------------------------------------------------------------
(* The flow *)

LEMMA InitFlow == Init => Flow
  <1> SUFFICES ASSUME Init PROVE Flow
    OBVIOUS
  <1> DEFINE z == [s \in Streams |-> 0]
  <1>1. z \in [Streams -> Nat] /\ \A s \in Streams : z[s] = 0
    OBVIOUS
  <1>2. TypeOK /\ \A s \in Streams : sent[s] = 0 /\ missed[s] = 0 /\ sid[s] = None
    BY InitInv1 DEF Init, Inv1
  <1>3. \A n \in Nodes, k \in Nat, s \in Streams, v \in Nat : ~Carries(n, k, s, v)
    BY DEF Init, Carries
  <1>4. \A s \in Streams : Received(s) = <<>> /\ DOMAIN Received(s) = {}
    <2>1. ASSUME NEW s \in Streams PROVE Received(s) = <<>>
      <3>1. taken[s] = <<>> /\ notifications[s] = <<>>
        BY DEF Init
      <3>2. <<>> \in Seq(Event) /\ \A t \in Seq(Event) : t \o <<>> = t
        BY EmptySeq, ConcatEmptySeq
      <3>3. taken[s] \o notifications[s] = <<>>
        BY <3>1, <3>2, Zenon
      <3> QED  BY <3>3 DEF Received
    <2>2. \A e : e = <<>> => DOMAIN e = {}
      OBVIOUS
    <2> QED  BY <2>1, <2>2
  <1> HIDE DEF z
  <1>5. Pending(z)
    BY <1>1, <1>2, <1>3 DEF Pending
  <1>6. Receipt(z)
    BY <1>2, <1>4 DEF Receipt, Fresh, OnceInOrder, Seen, Gapless, Alone
  <1> QED  BY <1>1, <1>5, <1>6 DEF Flow

(* One notification is read. *)
LEMMA EventFlow ==
    ASSUME Inv1, Flow, NEW n \in Nodes, ReadEvent(n)
    PROVE  Flow'
  <1>1. PICK p \in [Streams -> Nat] : Pending(p) /\ Receipt(p)
    BY DEF Flow
  <1>2. /\ wire[n] # <<>> /\ Head(wire[n]).kind = "event"
        /\ wire' = [wire EXCEPT ![n] = Tail(@)]
        /\ UNCHANGED <<subscriptions, host, conn, sid, sent, taken>>
    BY DEF ReadEvent
  <1>3. PICK q \in Streams, v \in Nat, i \in Ids :
          /\ Carries(n, 1, q, v) /\ sid[q] = i /\ <<q, v>> \in Event
          /\ Head(wire[n]).id = i /\ Head(wire[n]).event = <<q, v>>
    BY <1>2, FirstEvent
  <1>4. v = p[q] + 1
    BY <1>1, <1>3, NextInLine
  <1>5. PICK r \in [Streams -> Nat] : r = [p EXCEPT ![q] = v]
    OBVIOUS
  <1>6. Pending(r)'
    <2>1. \A s \in Streams : r[s] # p[s] => Carries(n, 1, s, r[s])
      BY <1>3, <1>5
    <2>2. ASSUME NEW s \in Streams, NEW u \in Nat, Carries(n, 1, s, u) PROVE r[s] = u
      BY <1>3, <1>5, <2>2 DEF Carries
    <2> QED  BY <1>1, <1>2, <2>1, <2>2, ReadPending
  <1>7. Receipt(r)'
    <2>1. CASE subscriptions[i] = None
      <3>1. missed' = [missed EXCEPT ![q] = v] /\ UNCHANGED <<notifications, task>>
        BY <1>3, <2>1 DEF ReadEvent
      <3> QED  BY <1>1, <1>2, <1>3, <1>4, <1>5, <2>1, <3>1, MissedReceipt
    <2>2. CASE subscriptions[i] # None /\ task[subscriptions[i]] = "stopped"
      <3>1. UNCHANGED <<notifications, task, missed>>
        BY <1>3, <2>2 DEF ReadEvent, Notify
      <3> QED  BY <1>1, <1>2, <1>3, <1>4, <1>5, <2>2, <3>1, LostReceipt
    <2>3. CASE subscriptions[i] # None /\ task[subscriptions[i]] # "stopped"
      <3>1. PICK s \in Streams : s = subscriptions[i]
        BY <2>3 DEF Inv1, TypeOK
      <3>2. /\ notifications' = [notifications EXCEPT ![s] = Append(@, <<q, v>>)]
            /\ task' = Woken({s}, "channel")
            /\ UNCHANGED missed
        BY <1>3, <2>3, <3>1 DEF ReadEvent, Notify
      <3> QED  BY <1>1, <1>2, <1>3, <1>4, <1>5, <2>3, <3>1, <3>2, DeliveredReceipt
    <2> QED  BY <2>1, <2>2, <2>3
  <1> QED  BY <1>6, <1>7 DEF Flow

(* The answer to a request is read. *)
LEMMA IdFlow ==
    ASSUME Inv1, Flow, NEW n \in Nodes, ReadId(n)
    PROVE  Flow'
  <1>1. PICK p \in [Streams -> Nat] : Pending(p) /\ Receipt(p)
    BY DEF Flow
  <1>2. /\ wire[n] # <<>> /\ Head(wire[n]).kind = "id"
        /\ wire' = [wire EXCEPT ![n] = Tail(@)]
        /\ UNCHANGED <<notifications, taken, subscriptions, host, conn, sid, sent, missed>>
    BY DEF ReadId
  <1>3. \A s \in Streams, v \in Nat : ~Carries(n, 1, s, v)
    BY <1>2, WireHead DEF Inv1, Carries
  <1>4. Pending(p)'
    BY <1>1, <1>2, <1>3, ReadPending
  <1>5. \A s \in Streams : task[s] = "stopped" => task'[s] = "stopped"
    BY DEF ReadId, Woken
  <1>6. \A s \in Streams : Received(s)' = Received(s)
    BY <1>2 DEF Received
  <1>7. Receipt(p)'
    BY <1>1, <1>2, <1>5, <1>6, ReceiptStays DEF Inv1
  <1> QED  BY <1>4, <1>7 DEF Flow

(* A stream is dropped. *)
LEMMA DropFlow ==
    ASSUME Inv1, Flow, NEW s \in Streams, Drop(s)
    PROVE  Flow'
  <1>1. PICK p \in [Streams -> Nat] : Pending(p) /\ Receipt(p)
    BY DEF Flow
  <1>2. /\ UNCHANGED <<subscriptions, host, conn, sid, sent, wire, missed>>
        /\ task' = [task EXCEPT ![s] = "stopped"]
    BY DEF Drop
  <1>3. Pending(p)'
    BY <1>1, <1>2, SilentPending DEF Receipt
  <1>4. /\ task'[s] = "stopped"
        /\ \A x \in Streams : task[x] = "stopped" => task'[x] = "stopped"
    BY <1>2 DEF Inv1, TypeOK
  <1>5. /\ \A x \in Streams \ {s} : Received(x)' = Received(x)
        /\ Received(s) = <<>> => Received(s)' = <<>>
        /\ \A k \in DOMAIN Received(s)' : /\ k \in DOMAIN Received(s)
                                          /\ Received(s)'[k] = Received(s)[k]
    BY DroppedReceived DEF Inv1
  <1>6. Receipt(p)'
    BY <1>1, <1>2, <1>4, <1>5, ReceiptStays DEF Inv1
  <1> QED  BY <1>3, <1>6 DEF Flow

(* The other steps of a stream. *)
LEMMA StreamFlow ==
    ASSUME Inv1, Flow, NEW s \in Streams,
           \/ subscribe(s) \/ PollWaiting(s) \/ PollFailed(s) \/ PollEvent(s)
           \/ PollEmpty(s) \/ Wake(s) \/ Fail(s)
    PROVE  Flow'
  <1>1. PICK p \in [Streams -> Nat] : Pending(p) /\ Receipt(p)
    BY DEF Flow
  <1>2. UNCHANGED <<subscriptions, sid, sent, wire, missed>>
    BY DEF subscribe, PollWaiting, PollFailed, PollEvent, PollEmpty, Wake, Fail
  <1>3. UNCHANGED <<host, conn>> \/ subscribe(s)
    BY DEF subscribe, PollWaiting, PollFailed, PollEvent, PollEmpty, Wake, Fail
  <1>4. Pending(p)'
    BY <1>1, <1>2, <1>3, SilentPending DEF Receipt
  <1>5. \A x \in Streams : task[x] = "stopped" => task'[x] = "stopped"
    BY DEF Inv1, TypeOK, subscribe, PollWaiting, PollFailed, PollEvent, PollEmpty, Wake,
           Fail, Woken, Asleep
  <1>6. \A x \in Streams : Received(x)' = Received(x)
    <2>1. CASE UNCHANGED <<notifications, taken>>
      BY <2>1 DEF Received
    <2>2. CASE PollEvent(s)
      BY <2>2, TakenReceived DEF Inv1
    <2> QED  BY <2>1, <2>2 DEF subscribe, PollWaiting, PollFailed, PollEmpty, Wake, Fail
  <1>7. Receipt(p)'
    BY <1>1, <1>2, <1>5, <1>6, ReceiptStays DEF Inv1
  <1> QED  BY <1>4, <1>7 DEF Flow

(* The sender is handed over. *)
LEMMA AnsweredFlow ==
    ASSUME Inv1, Flow, NEW s \in Streams, PollAnswered(s)
    PROVE  Flow'
  <1>1. PICK p \in [Streams -> Nat] : Pending(p) /\ Receipt(p)
    BY DEF Flow
  <1>2. UNCHANGED <<wire, sent, host, conn>>
    BY DEF PollAnswered
  <1>3. Pending(p)'
    BY <1>1, <1>2, SilentPending DEF Receipt
  <1>4. Receipt(p)'
    BY <1>1, AnsweredReceipt
  <1> QED  BY <1>3, <1>4 DEF Flow

(* A node sends something, or its connection is lost. *)
LEMMA NodeFlow ==
    ASSUME Inv1, Flow,
           \/ \E s \in Streams : Accept(s) \/ Emit(s)
           \/ \E n \in Nodes : Disconnect(n)
    PROVE  Flow'
  <1>1. PICK p \in [Streams -> Nat] : Pending(p) /\ Receipt(p)
    BY DEF Flow
  <1>2. Pending(p)'
    BY <1>1, AcceptPending, EmitPending, DisconnectPending
  <1>3. ASSUME NEW s \in Streams, Accept(s) PROVE Receipt(p)'
    BY <1>1, <1>3, AcceptReceipt
  <1>4. ASSUME (\E s \in Streams : Emit(s)) \/ (\E n \in Nodes : Disconnect(n))
        PROVE  Receipt(p)'
    <2>1. UNCHANGED <<notifications, taken, subscriptions, sid, missed, task>>
      BY <1>4 DEF Emit, Disconnect
    <2>2. \A x \in Streams : sid[x] = None => sent'[x] = sent[x]
      BY <1>4 DEF Emit, Disconnect, Inv1, TypeOK
    <2>3. \A x \in Streams :
            /\ Received(x)' = Received(x)
            /\ task[x] = "stopped" => task'[x] = "stopped"
      BY <2>1 DEF Received
    <2>4. UNCHANGED <<subscriptions, sid, missed>>
      BY <2>1
    <2>5. Receipt(p) /\ TypeOK
      BY <1>1 DEF Inv1
    <2> QED  BY <2>2, <2>3, <2>4, <2>5, ReceiptStays
  <1>5. Receipt(p)'
    BY <1>3, <1>4
  <1> QED  BY <1>2, <1>5 DEF Flow

LEMMA NextFlow == Inv1 /\ Flow /\ [Next]_vars => Flow'
  <1> SUFFICES ASSUME Inv1, Flow, [Next]_vars PROVE Flow'
    OBVIOUS
  <1>1. CASE UNCHANGED vars
    <2>1. PICK p \in [Streams -> Nat] : Pending(p) /\ Receipt(p)
      BY DEF Flow
    <2>2. Pending(p)'
      BY <1>1, <2>1, SilentPending DEF vars, Receipt
    <2>3. \A x \in Streams : Received(x)' = Received(x)
      BY <1>1 DEF vars, Received
    <2>4. Receipt(p)'
      BY <1>1, <2>1, <2>3, ReceiptStays DEF vars, Inv1
    <2> QED  BY <2>2, <2>4 DEF Flow
  <1> QED  BY <1>1, EventFlow, IdFlow, DropFlow, StreamFlow, AnsweredFlow, NodeFlow
           DEF Next, Poll

-----------------------------------------------------------------------------
(* The theorems *)

(* The types, and the links between texts, senders and subscriptions.      *)
THEOREM Links == Spec => []Inv1
  BY InitInv1, NextInv1, PTL DEF Spec

(* Every variable keeps its shape in client/streaming/pubsub.rs and        *)
(* client/mod.rs: in particular only senders of streams are kept. *)
THEOREM TypeCorrect == Spec => []TypeOK
  BY Links, PTL DEF Inv1

(* No wake-up is lost: a task does not sleep in Pubsub::poll on something  *)
(* that has already happened. *)
THEOREM WakeupsKept == Spec => []NoLostWakeup
  <1>1. Init => NoLostWakeup
    BY DEF Init, NoLostWakeup
  <1> QED  BY <1>1, Links, NextWakeup, PTL DEF Spec

(* The notifications that were read are missed or received, in order; the  *)
(* others are on their way. *)
THEOREM FlowKept == Spec => []Flow
  BY Links, InitFlow, NextFlow, PTL DEF Spec

(* A stream that has its id for itself receives its own notifications,     *)
(* from its registration in Client::subscriptions on, without a gap. *)
THEOREM NoGap == Spec => []Contiguous
  <1>1. Inv1 /\ Flow => Contiguous
    <2> SUFFICES ASSUME Inv1, NEW p \in [Streams -> Nat], Receipt(p), NEW s \in Streams,
                        \A r \in Streams \ {s} : sid[r] # sid[s]
                 PROVE  \A k \in DOMAIN Received(s) : Received(s)[k] = <<s, missed[s] + k>>
      BY DEF Flow, Contiguous
    <2>1. CASE sid[s] = None
      BY <2>1 DEF Receipt, Fresh
    <2>2. CASE sid[s] # None
      BY <2>2 DEF Receipt, Gapless, Alone
    <2> QED  BY <2>1, <2>2
  <1> QED  BY <1>1, Links, FlowKept, PTL

(* No notification reaches two streams or one stream twice, or overtakes   *)
(* one of the same subscription, even if nodes give out the same id. *)
THEOREM OnceEach == Spec => []OnceInOrder
  <1>1. Flow => OnceInOrder
    BY DEF Flow, Receipt
  <1> QED  BY <1>1, FlowKept, PTL

=============================================================================
