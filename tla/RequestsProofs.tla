--------------------------- MODULE RequestsProofs ---------------------------
(* The safety properties of Requests, and that it implements RequestLife,  *)
(* for every set of calls, every batch size and every clock. *)
EXTENDS Requests, TLAPS

(* Ids are handed out once: every id is below the counter and no two       *)
(* requests share one. *)
UniqueIds ==
    /\ \A r \in Req : id[r] < ids
    /\ \A p, q \in Req : id[p] # 0 /\ id[p] = id[q] => p = q

(* A request has its id when its call leaves the numbering loop, and       *)
(* appears nowhere else before that. *)
Phases ==
    /\ \A r \in Req : pc[r[1]] = "idle" => id[r] = 0
    /\ \A r \in Req : pc[r[1]] \in {"idle", "number"} => chan[r] = "none"
    /\ \A r \in Req : pc[r[1]] \notin {"idle", "number"} => id[r] # 0
    /\ \A c \in wire : pc[c] = "done"
    /\ \A c \in Batch : pc[c] # "stamp"

(* What ts holds are seconds that have passed, against the ids of requests *)
(* of Client::request. *)
TsFacts ==
    \A p \in ts : /\ p[1] <= now
                  /\ \E r \in Req : r[1] \in Stamped /\ id[r] = p[2]

(* The reaper works on a second that has passed and on ids that are ten    *)
(* seconds old. *)
ReaperFacts ==
    /\ seen <= now
    /\ \A i \in todo : \E p \in ts : p[2] = i /\ now - p[1] >= Expiry

(* Where posts are never answered by notifications, a request is given no  *)
(* answer but its own. *)
AnswerFacts == Notes = {} => OwnAnswer

(* The inductive invariant *)
IInv ==
    /\ TypeOK
    /\ UniqueIds
    /\ Phases
    /\ TsFacts
    /\ ReaperFacts
    /\ OpenIffPending
    /\ AnswerFacts
    /\ TrackedUntilResolved
    /\ TimeoutJustified
    /\ CancelledOnlyByDrop

-----------------------------------------------------------------------------

(* The requests of a call are the requests with its name. *)
LEMMA ReqFacts ==
    /\ \A r \in Req : r[1] \in Calls /\ r \in Of(r[1])
    /\ \A c \in Calls : Of(c) \subseteq Req
    /\ \A c \in Calls : \A r \in Of(c) : r[1] = c
BY RequestsAssumption DEF Req, Of

(* A call of Client::request carries one request. *)
LEMMA OneRequest ==
    ASSUME NEW c \in Calls \ Batch
    PROVE  Of(c) = {<<c, 1>>}
<1>1. Size[c] = 1
    BY RequestsAssumption
<1>2. 1..1 = {1}
    OBVIOUS
<1>3. Of(c) = {c} \X {1}
    BY <1>1, <1>2 DEF Of
<1>4. {c} \X {1} = {<<c, 1>>}
    OBVIOUS
<1> QED BY <1>3, <1>4

LEMMA InitIInv == Init => IInv
<1> SUFFICES ASSUME Init PROVE IInv
    OBVIOUS
<1>1. TypeOK
    BY RequestsAssumption DEF Init, TypeOK, Second, Channel
<1>2. UniqueIds /\ TsFacts /\ ReaperFacts
    BY RequestsAssumption DEF Init, UniqueIds, TsFacts, ReaperFacts
<1>3. Phases
    BY ReqFacts, RequestsAssumption DEF Init, Phases
<1>4. OpenIffPending /\ AnswerFacts /\ TrackedUntilResolved /\ TimeoutJustified
        /\ CancelledOnlyByDrop
    BY DEF Init, OpenIffPending, AnswerFacts, OwnAnswer, TrackedUntilResolved,
           TimeoutJustified, CancelledOnlyByDrop
<1> QED BY <1>1, <1>2, <1>3, <1>4 DEF IInv

LEMMA NextIdIInv ==
    ASSUME IInv, NEW r0 \in Req, NextId(r0)
    PROVE  IInv'
<1> USE DEF NextId, FetchAdd, reaperVars
<1>0. TypeOK BY DEF IInv
<1>1. TypeOK'
    BY <1>0, RequestsAssumption, ReqFacts DEF TypeOK
<1>2. UniqueIds'
    BY <1>0 DEF IInv, UniqueIds, TypeOK
<1>3. Phases'
    BY <1>0, ReqFacts DEF IInv, Phases, TypeOK
<1>4. /\ \A r \in Req : r[1] \in Stamped => id'[r] = id[r]
      /\ Stamped' = Stamped
    BY <1>0, ReqFacts DEF Stamped, TypeOK
<1>5. TsFacts' /\ ReaperFacts'
    BY <1>4 DEF IInv, TsFacts, ReaperFacts
<1>6. OpenIffPending' /\ AnswerFacts' /\ CancelledOnlyByDrop'
    BY DEF IInv, OpenIffPending, AnswerFacts, OwnAnswer, CancelledOnlyByDrop
<1>7. chan[r0] = "none"
    BY DEF IInv, Phases
<1>8. TrackedUntilResolved'
    BY <1>4 DEF IInv, TrackedUntilResolved
<1>9. TimeoutJustified'
    BY <1>0, <1>7 DEF IInv, TimeoutJustified, TypeOK
<1> QED BY <1>1, <1>2, <1>3, <1>5, <1>6, <1>8, <1>9 DEF IInv

LEMMA InsertIInv ==
    ASSUME IInv, NEW c \in Calls, Insert(c)
    PROVE  IInv'
<1> USE DEF Insert, reaperVars
<1>0. TypeOK BY DEF IInv
<1>1. Replaced(c) = {}
    BY <1>0, ReqFacts DEF IInv, Replaced, OpenIffPending, UniqueIds, Phases, TypeOK
<1>2. /\ pending' = pending \cup Of(c)
      /\ \A r \in Req : chan'[r] = IF r \in Of(c) THEN "open" ELSE chan[r]
    BY <1>1
<1>3. \A r \in Of(c) : chan[r] = "none"
    BY ReqFacts DEF IInv, Phases
<1>4. TypeOK'
    BY <1>0, <1>2, ReqFacts DEF TypeOK, Channel
<1>5. UniqueIds' /\ ReaperFacts' /\ AnswerFacts'
    BY DEF IInv, UniqueIds, ReaperFacts, AnswerFacts, OwnAnswer
<1>6. Phases'
    BY <1>0, <1>2, ReqFacts, RequestsAssumption DEF IInv, Phases, TypeOK
<1>7. Stamped' = Stamped
    BY <1>0 DEF Stamped, TypeOK
<1>8. TsFacts'
    BY <1>7 DEF IInv, TsFacts
<1>9. OpenIffPending'
    BY <1>2, <1>3, ReqFacts DEF IInv, OpenIffPending
<1>10. TrackedUntilResolved'
    BY <1>2, <1>7, ReqFacts DEF IInv, TrackedUntilResolved, Stamped
<1>11. TimeoutJustified' /\ CancelledOnlyByDrop'
    BY <1>2 DEF IInv, TimeoutJustified, CancelledOnlyByDrop
<1> QED BY <1>4, <1>5, <1>6, <1>8, <1>9, <1>10, <1>11 DEF IInv

LEMMA StampIInv ==
    ASSUME IInv, NEW c \in Calls, Stamp(c)
    PROVE  IInv'
<1> USE DEF Stamp, reaperVars
<1>0. TypeOK BY DEF IInv
<1>1. c \notin Batch
    BY DEF IInv, Phases
<1> DEFINE r0 == <<c, 1>>
<1>2. Of(c) = {r0}
    BY <1>1, OneRequest
<1> HIDE DEF r0
<1>3. ts' = ts \cup {<<now, id[r0]>>}
    BY <1>2
<1>4. id[r0] \in 1..MaxId /\ r0 \in Req /\ r0[1] = c
    BY <1>0, <1>2, ReqFacts DEF IInv, Phases, TypeOK
<1>5. TypeOK'
    BY <1>0, <1>3, <1>4 DEF TypeOK
<1>6. UniqueIds' /\ OpenIffPending' /\ AnswerFacts' /\ CancelledOnlyByDrop'
    BY DEF IInv, UniqueIds, OpenIffPending, AnswerFacts, OwnAnswer, CancelledOnlyByDrop
<1>7. Phases'
    BY <1>0, ReqFacts, <1>1 DEF IInv, Phases, TypeOK
<1>8. Stamped' = Stamped \cup {c}
    BY <1>0, <1>1 DEF Stamped, TypeOK
<1>9. TsFacts'
    BY <1>0, <1>3, <1>4, <1>8 DEF IInv, TsFacts, TypeOK, Second
<1>10. ReaperFacts'
    BY <1>3 DEF IInv, ReaperFacts
<1>11. TrackedUntilResolved'
    <2> SUFFICES ASSUME NEW r \in Req, r[1] \in Stamped', chan[r] = "open"
                 PROVE  \E p \in ts' : p[2] = id[r]
        BY DEF TrackedUntilResolved
    <2>1. CASE r[1] \in Stamped
        BY <2>1, <1>3 DEF IInv, TrackedUntilResolved
    <2>2. CASE r[1] = c
        <3>1. r = r0
            BY <2>2, <1>2, ReqFacts
        <3>2. <<now, id[r]>> \in ts'
            BY <3>1, <1>3
        <3> QED BY <3>2
    <2> QED BY <2>1, <2>2, <1>8
<1>12. TimeoutJustified'
    BY <1>3 DEF IInv, TimeoutJustified
<1> QED BY <1>5, <1>6, <1>7, <1>9, <1>10, <1>11, <1>12 DEF IInv

(* SendSocket, SendHttp and HttpFail move a call past the insertions and   *)
(* touch no channel. *)
LEMMA SendIInv ==
    ASSUME IInv, NEW c \in Calls, SendSocket(c) \/ SendHttp(c) \/ HttpFail(c)
    PROVE  IInv'
<1> USE DEF SendSocket, SendHttp, HttpFail, reaperVars
<1>0. TypeOK BY DEF IInv
<1>1. TypeOK'
    BY <1>0 DEF TypeOK
<1>2. Stamped' = Stamped
    BY <1>0 DEF Stamped, TypeOK
<1>3. Phases'
    BY <1>0, ReqFacts, RequestsAssumption DEF IInv, Phases, TypeOK
<1>4. UniqueIds' /\ OpenIffPending' /\ AnswerFacts' /\ CancelledOnlyByDrop'
    BY DEF IInv, UniqueIds, OpenIffPending, AnswerFacts, OwnAnswer, CancelledOnlyByDrop
<1>5. TsFacts' /\ ReaperFacts'
    BY <1>2 DEF IInv, TsFacts, ReaperFacts
<1>6. TrackedUntilResolved' /\ TimeoutJustified'
    BY <1>2 DEF IInv, TrackedUntilResolved, TimeoutJustified
<1> QED BY <1>1, <1>3, <1>4, <1>5, <1>6 DEF IInv

(* An answer to a call whose requests have their ids reaches only requests *)
(* of that call that are pending, and each only by its own output. *)
LEMMA DeliverFacts ==
    ASSUME IInv, NEW c \in Calls, pc[c] \notin {"idle", "number"},
           NEW ans \in Answers(c), Deliver(ans)
    PROVE  /\ pending' \subseteq pending
           /\ chan' \in [Req -> Channel]
           /\ got' \in [Req -> SUBSET (Req \cup {Notice})]
           /\ \A r \in Req : \/ chan'[r] = chan[r] /\ (r \in pending' <=> r \in pending)
                             \/ /\ chan'[r] \in {"ok", "err"}
                                /\ r \in pending
                                /\ r \notin pending'
           /\ OwnAnswer => OwnAnswer'
<1>0. TypeOK BY DEF IInv
<1>1. DOMAIN ans \subseteq Of(c)
    BY DEF Answers
<1>2. \A q \in DOMAIN ans : q \in Req /\ id[q] # 0
    BY <1>1, ReqFacts DEF IInv, Phases
<1>3. \A r \in Req : {q \in DOMAIN ans : id[q] = id[r]} \subseteq {r}
    BY <1>2 DEF IInv, UniqueIds
<1>4. \A r \in Req : got'[r] \subseteq got[r] \cup {r}
    BY <1>3 DEF Deliver
<1>5. /\ got' \in [Req -> SUBSET (Req \cup {Notice})]
      /\ OwnAnswer => OwnAnswer'
    <2>1. OwnAnswer => OwnAnswer'
        BY <1>4 DEF OwnAnswer
    <2>2. \A r \in Req : got'[r] \subseteq Req \cup {Notice}
        BY <1>0, <1>4 DEF TypeOK
    <2> QED BY <2>1, <2>2 DEF Deliver
<1>6. /\ pending' \subseteq pending
      /\ chan' \in [Req -> Channel]
    BY <1>0 DEF Deliver, TypeOK, Channel
<1>7. \A r \in Req : \/ chan'[r] = chan[r] /\ (r \in pending' <=> r \in pending)
                     \/ /\ chan'[r] \in {"ok", "err"}
                        /\ r \in pending
                        /\ r \notin pending'
    BY DEF Deliver, Hit
<1> QED BY <1>4, <1>5, <1>6, <1>7

(* Resolving channels by an answer keeps what the invariant says of them. *)
LEMMA ReplyIInv ==
    ASSUME IInv, NEW c \in Calls, HttpReply(c) \/ SocketReply(c)
    PROVE  IInv'
<1> USE DEF HttpReply, SocketReply, reaperVars, callVars
<1>0. TypeOK BY DEF IInv
<1>1. PICK ans \in Answers(c) : Deliver(ans)
    OBVIOUS
<1>2. pc[c] \notin {"idle", "number"}
    BY DEF IInv, Phases
<1>3. /\ pending' \subseteq pending
      /\ chan' \in [Req -> Channel]
      /\ got' \in [Req -> SUBSET (Req \cup {Notice})]
      /\ \A r \in Req : \/ chan'[r] = chan[r] /\ (r \in pending' <=> r \in pending)
                        \/ /\ chan'[r] \in {"ok", "err"}
                           /\ r \in pending
                           /\ r \notin pending'
      /\ OwnAnswer => OwnAnswer'
    BY <1>1, <1>2, DeliverFacts
<1>4. TypeOK'
    BY <1>0, <1>3 DEF TypeOK
<1>5. Stamped' = Stamped
    BY <1>0 DEF Stamped, TypeOK
<1>6. UniqueIds'
    BY DEF IInv, UniqueIds
<1>7. /\ pc' \in [Calls -> {"idle", "number", "stamp", "send", "http",
                            "done", "failed"}]
      /\ \A d \in Calls : d # c => pc'[d] = pc[d]
      /\ pc'[c] = "done" \/ pc' = pc
    BY <1>0 DEF TypeOK
<1>8. Phases'
    <2>1. \A r \in Req : pc'[r[1]] = "idle" => id[r] = 0
        BY <1>7, ReqFacts DEF IInv, Phases
    <2>2. \A r \in Req : pc'[r[1]] \in {"idle", "number"} => chan'[r] = "none"
        BY <1>3, <1>7, ReqFacts DEF IInv, Phases, OpenIffPending
    <2>3. \A r \in Req : pc'[r[1]] \notin {"idle", "number"} => id[r] # 0
        BY <1>2, <1>7, ReqFacts DEF IInv, Phases
    <2>4. /\ \A d \in wire : pc'[d] = "done"
          /\ \A d \in Batch : pc'[d] # "stamp"
        BY <1>0, <1>7, RequestsAssumption DEF IInv, Phases, TypeOK
    <2> QED BY <2>1, <2>2, <2>3, <2>4 DEF Phases
<1>9. TsFacts' /\ ReaperFacts'
    BY <1>5 DEF IInv, TsFacts, ReaperFacts
<1>10. OpenIffPending'
    BY <1>3 DEF IInv, OpenIffPending
<1>11. AnswerFacts'
    BY <1>3 DEF IInv, AnswerFacts
<1>12. TrackedUntilResolved'
    BY <1>3, <1>5 DEF IInv, TrackedUntilResolved
<1>13. TimeoutJustified' /\ CancelledOnlyByDrop'
    BY <1>3 DEF IInv, TimeoutJustified, CancelledOnlyByDrop
<1> QED BY <1>4, <1>6, <1>8, <1>9, <1>10, <1>11, <1>12, <1>13 DEF IInv

(* So does a notification that answers a post, but for whose answers the   *)
(* requests are given. *)
LEMMA HttpNoteIInv ==
    ASSUME IInv, NEW c \in Calls, HttpNote(c)
    PROVE  IInv'
<1> USE DEF HttpNote, reaperVars
<1>0. TypeOK BY DEF IInv
<1>1. PICK i \in Notes :
         LET hit == {p \in pending : id[p] = i}
         IN  /\ pending' = pending \ hit
             /\ chan' = [r \in Req |-> IF r \in hit THEN "ok" ELSE chan[r]]
             /\ got' = [r \in Req |-> IF r \in hit THEN got[r] \cup {Notice}
                                                   ELSE got[r]]
    OBVIOUS
<1>2. /\ pending' \subseteq pending
      /\ chan' \in [Req -> Channel]
      /\ \A r \in Req : \/ chan'[r] = chan[r] /\ (r \in pending' <=> r \in pending)
                        \/ /\ chan'[r] = "ok"
                           /\ r \in pending
                           /\ r \notin pending'
    BY <1>0, <1>1 DEF TypeOK, Channel
<1>3. got' \in [Req -> SUBSET (Req \cup {Notice})]
    <2>1. \A r \in Req : got'[r] \subseteq got[r] \cup {Notice}
        BY <1>1
    <2>2. \A r \in Req : got'[r] \subseteq Req \cup {Notice}
        BY <1>0, <2>1 DEF TypeOK
    <2> QED BY <1>1, <2>2
<1>4. TypeOK'
    BY <1>0, <1>2, <1>3 DEF TypeOK
<1>5. Stamped' = Stamped
    BY <1>0 DEF Stamped, TypeOK
<1>6. UniqueIds'
    BY DEF IInv, UniqueIds
<1>7. Phases'
    <2>1. \A r \in Req : pc'[r[1]] = "idle" => id[r] = 0
        BY <1>0, ReqFacts DEF IInv, Phases, TypeOK
    <2>2. \A r \in Req : pc'[r[1]] \in {"idle", "number"} => chan'[r] = "none"
        BY <1>0, <1>2, ReqFacts DEF IInv, Phases, OpenIffPending, TypeOK
    <2>3. \A r \in Req : pc'[r[1]] \notin {"idle", "number"} => id[r] # 0
        BY <1>0, ReqFacts DEF IInv, Phases, TypeOK
    <2>4. /\ \A d \in wire : pc'[d] = "done"
          /\ \A d \in Batch : pc'[d] # "stamp"
        BY <1>0, RequestsAssumption DEF IInv, Phases, TypeOK
    <2> QED BY <2>1, <2>2, <2>3, <2>4 DEF Phases
<1>8. TsFacts' /\ ReaperFacts'
    BY <1>5 DEF IInv, TsFacts, ReaperFacts
<1>9. OpenIffPending'
    BY <1>2 DEF IInv, OpenIffPending
<1>10. AnswerFacts'
    BY <1>1 DEF AnswerFacts
<1>11. TrackedUntilResolved'
    BY <1>2, <1>5 DEF IInv, TrackedUntilResolved
<1>12. TimeoutJustified' /\ CancelledOnlyByDrop'
    BY <1>2 DEF IInv, TimeoutJustified, CancelledOnlyByDrop
<1> QED BY <1>4, <1>6, <1>7, <1>8, <1>9, <1>10, <1>11, <1>12 DEF IInv

(* Taking the locks, the sleep and the clock change no channel. *)
LEMMA ReaperMovesIInv ==
    ASSUME IInv, Wake \/ Lock \/ Unlock \/ Sleep
    PROVE  IInv'
<1> USE DEF Wake, Lock, Unlock, Sleep, callVars
<1>0. TypeOK BY DEF IInv
<1>1. todo' = todo \/ todo' = Expired
    OBVIOUS
<1>2. Expired \subseteq 1..MaxId
    BY <1>0 DEF Expired, TypeOK
<1>3. TypeOK'
    BY <1>0, <1>1, <1>2 DEF TypeOK
<1>4. ReaperFacts'
    <2>1. seen' <= now
        BY <1>0 DEF IInv, ReaperFacts, TypeOK, Second
    <2>2. \A i \in Expired : \E p \in ts : p[2] = i /\ now - p[1] >= Expiry
        <3> SUFFICES ASSUME NEW p \in ts, seen - p[1] >= Expiry
                     PROVE  now - p[1] >= Expiry
            BY DEF Expired
        <3>1. p[1] \in Int /\ seen \in Int /\ now \in Int /\ Expiry \in Int
            BY <1>0, RequestsAssumption DEF TypeOK, Second
        <3>2. seen <= now
            BY DEF IInv, ReaperFacts
        <3> QED BY <3>1, <3>2
    <2> QED BY <1>1, <2>1, <2>2 DEF IInv, ReaperFacts
<1>5. Stamped' = Stamped
    BY DEF Stamped
<1>6. /\ UniqueIds' /\ Phases' /\ TsFacts' /\ OpenIffPending' /\ AnswerFacts'
      /\ TrackedUntilResolved' /\ TimeoutJustified' /\ CancelledOnlyByDrop'
    BY <1>5 DEF IInv, UniqueIds, Phases, TsFacts, OpenIffPending, AnswerFacts, OwnAnswer,
        TrackedUntilResolved, TimeoutJustified, CancelledOnlyByDrop
<1> QED BY <1>3, <1>4, <1>6 DEF IInv

LEMMA TimeOutIInv ==
    ASSUME IInv, NEW i \in 1..MaxId, TimeOut(i)
    PROVE  IInv'
<1> USE DEF TimeOut, callVars
<1>0. TypeOK BY DEF IInv
<1> DEFINE late == {p \in pending : id[p] = i}
<1>1. /\ pending' = pending \ late
      /\ \A r \in Req : chan'[r] = IF r \in late THEN "timeout" ELSE chan[r]
      /\ chan' \in [Req -> Channel]
      /\ removed' \subseteq removed \cup {i}
      /\ todo' = todo \ {i}
    BY <1>0 DEF TypeOK, Channel
<1>2. TypeOK'
    BY <1>0, <1>1 DEF TypeOK
<1>3. Stamped' = Stamped
    BY DEF Stamped
<1>4. UniqueIds' /\ AnswerFacts' /\ TsFacts'
    BY <1>3 DEF IInv, UniqueIds, AnswerFacts, OwnAnswer, TsFacts
<1>5. ReaperFacts'
    BY <1>1 DEF IInv, ReaperFacts
<1>6. Phases'
    BY <1>0, <1>1 DEF IInv, Phases, OpenIffPending, TypeOK
<1>7. OpenIffPending'
    BY <1>1 DEF IInv, OpenIffPending
<1>8. TrackedUntilResolved'
    BY <1>1, <1>3 DEF IInv, TrackedUntilResolved
<1>9. TimeoutJustified'
    <2> SUFFICES ASSUME NEW r \in Req, r \in late
                 PROVE  /\ r[1] \notin Batch
                        /\ \E p \in ts : p[2] = id[r] /\ now - p[1] >= Expiry
        BY <1>1 DEF IInv, TimeoutJustified
    <2>1. PICK p \in ts : p[2] = i /\ now - p[1] >= Expiry
        BY DEF IInv, ReaperFacts
    <2>2. PICK q \in Req : q[1] \in Stamped /\ id[q] = p[2]
        BY DEF IInv, TsFacts
    <2>3. q = r
        BY <2>1, <2>2 DEF IInv, UniqueIds
    <2> QED BY <2>1, <2>2, <2>3 DEF Stamped
<1>10. CancelledOnlyByDrop'
    BY <1>1 DEF IInv, CancelledOnlyByDrop
<1> QED BY <1>2, <1>4, <1>5, <1>6, <1>7, <1>8, <1>9, <1>10 DEF IInv

(* A request id is no second of the clock: the purge finds nothing. *)
LEMMA PurgeKeeps ==
    ASSUME TypeOK, NEW i \in 1..MaxId, Purge(i)
    PROVE  ts' = ts
<1>1. \A p \in ts : p[1] # i
    BY RequestsAssumption DEF TypeOK, Second
<1> QED BY <1>1 DEF Purge

LEMMA PurgeIInv ==
    ASSUME IInv, NEW i \in 1..MaxId, Purge(i)
    PROVE  IInv'
<1>0. TypeOK BY DEF IInv
<1>1. ts' = ts
    BY <1>0, PurgeKeeps
<1> USE DEF Purge, callVars
<1>2. TypeOK'
    BY <1>0, <1>1 DEF TypeOK
<1>3. Stamped' = Stamped
    BY DEF Stamped
<1>4. /\ UniqueIds' /\ Phases' /\ TsFacts' /\ ReaperFacts' /\ OpenIffPending'
      /\ AnswerFacts' /\ TrackedUntilResolved' /\ TimeoutJustified'
      /\ CancelledOnlyByDrop'
    BY <1>1, <1>3 DEF IInv, UniqueIds, Phases, TsFacts, ReaperFacts,
        OpenIffPending, AnswerFacts, OwnAnswer, TrackedUntilResolved, TimeoutJustified,
        CancelledOnlyByDrop
<1> QED BY <1>2, <1>4 DEF IInv

LEMMA DropClientIInv ==
    ASSUME IInv, DropClient
    PROVE  IInv'
<1> USE DEF DropClient, callVars, reaperVars
<1>0. TypeOK BY DEF IInv
<1>1. \A r \in Req : chan'[r] = IF r \in pending THEN "dropped" ELSE chan[r]
    OBVIOUS
<1>2. TypeOK'
    BY <1>0 DEF TypeOK, Channel
<1>3. Stamped' = Stamped
    BY DEF Stamped
<1>4. UniqueIds' /\ AnswerFacts' /\ TsFacts' /\ ReaperFacts'
    BY <1>3 DEF IInv, UniqueIds, AnswerFacts, OwnAnswer, TsFacts, ReaperFacts
<1>5. Phases'
    BY <1>1 DEF IInv, Phases, OpenIffPending
<1>6. OpenIffPending'
    BY <1>1 DEF IInv, OpenIffPending
<1>7. TrackedUntilResolved' /\ TimeoutJustified'
    BY <1>1, <1>3 DEF IInv, TrackedUntilResolved, TimeoutJustified
<1>8. CancelledOnlyByDrop'
    BY DEF CancelledOnlyByDrop
<1> QED BY <1>2, <1>4, <1>5, <1>6, <1>7, <1>8 DEF IInv

LEMMA TickIInv ==
    ASSUME IInv, Tick
    PROVE  IInv'
<1> USE DEF Tick, callVars, reaperVars
<1>0. TypeOK BY DEF IInv
<1>1. TypeOK'
    BY <1>0, RequestsAssumption DEF TypeOK, Second
<1>2. Stamped' = Stamped
    BY DEF Stamped
<1>3. /\ UniqueIds' /\ Phases' /\ OpenIffPending' /\ AnswerFacts'
      /\ TrackedUntilResolved' /\ CancelledOnlyByDrop'
    BY <1>2 DEF IInv, UniqueIds, Phases, OpenIffPending, AnswerFacts, OwnAnswer,
        TrackedUntilResolved, CancelledOnlyByDrop
<1>4. \A p \in ts : p[1] \in Int
    BY <1>0, RequestsAssumption DEF TypeOK, Second
<1>5. now \in Int /\ now' = now + 1 /\ Expiry \in Int /\ seen \in Int
    BY <1>0, RequestsAssumption DEF TypeOK, Second
<1>6. \A p \in ts : /\ p[1] <= now => p[1] <= now'
                    /\ now - p[1] >= Expiry => now' - p[1] >= Expiry
    BY <1>4, <1>5
<1>7. TsFacts'
    BY <1>2, <1>6 DEF IInv, TsFacts
<1>8. ReaperFacts'
    BY <1>5, <1>6 DEF IInv, ReaperFacts
<1>9. TimeoutJustified'
    BY <1>6 DEF IInv, TimeoutJustified
<1> QED BY <1>1, <1>3, <1>7, <1>8, <1>9 DEF IInv

LEMMA NextIInv == IInv /\ [Next]_vars => IInv'
<1> SUFFICES ASSUME IInv, [Next]_vars PROVE IInv'
    OBVIOUS
<1>1. ASSUME NEW r \in Req, NextId(r) PROVE IInv'
    BY <1>1, NextIdIInv
<1>2. ASSUME NEW c \in Calls, Insert(c) PROVE IInv'
    BY <1>2, InsertIInv
<1>3. ASSUME NEW c \in Calls, Stamp(c) PROVE IInv'
    BY <1>3, StampIInv
<1>4. ASSUME NEW c \in Calls, SendSocket(c) \/ SendHttp(c) \/ HttpFail(c)
      PROVE IInv'
    BY <1>4, SendIInv
<1>5. ASSUME NEW c \in Calls, HttpReply(c) \/ SocketReply(c) PROVE IInv'
    BY <1>5, ReplyIInv
<1>12. ASSUME NEW c \in Calls, HttpNote(c) PROVE IInv'
    BY <1>12, HttpNoteIInv
<1>6. CASE Wake \/ Lock \/ Unlock \/ Sleep
    BY <1>6, ReaperMovesIInv
<1>7. ASSUME NEW i \in 1..MaxId, TimeOut(i) PROVE IInv'
    BY <1>7, TimeOutIInv
<1>8. ASSUME NEW i \in 1..MaxId, Purge(i) PROVE IInv'
    BY <1>8, PurgeIInv
<1>9. CASE DropClient
    BY <1>9, DropClientIInv
<1>10. CASE Tick
    BY <1>10, TickIInv
<1>11. CASE UNCHANGED vars
    BY <1>11 DEF vars, callVars, reaperVars, IInv, TypeOK, UniqueIds, Phases,
        TsFacts, ReaperFacts, Stamped, OpenIffPending, AnswerFacts, OwnAnswer,
        TrackedUntilResolved, TimeoutJustified, CancelledOnlyByDrop
<1> QED
    BY <1>1, <1>2, <1>3, <1>4, <1>5, <1>6, <1>7, <1>8, <1>9, <1>10, <1>11,
       <1>12
    DEF Next

-----------------------------------------------------------------------------

(* The inductive invariant holds in every behaviour of the request         *)
(* machinery. *)
THEOREM Invariant == Spec => []IInv
BY InitIInv, NextIInv, PTL DEF Spec

(* Every variable keeps its type. *)
THEOREM TypeCorrect == Spec => []TypeOK
<1>1. IInv => TypeOK
    BY DEF IInv
<1> QED BY <1>1, Invariant, PTL

(* A channel is open exactly while its sender is in the pending map. *)
THEOREM OpenExactlyWhilePending == Spec => []OpenIffPending
<1>1. IInv => OpenIffPending
    BY DEF IInv
<1> QED BY <1>1, Invariant, PTL

(* No request is given another request's answer, nor what a notification   *)
(* carries, by a server that answers no post with one. *)
THEOREM AnswersMatch ==
    ASSUME Notes = {}
    PROVE  Spec => []OwnAnswer
<1>1. IInv => OwnAnswer
    BY DEF IInv, AnswerFacts
<1> QED BY <1>1, Invariant, PTL

(* The reaper never forgets an unanswered request of Client::request. *)
THEOREM Tracked == Spec => []TrackedUntilResolved
<1>1. IInv => TrackedUntilResolved
    BY DEF IInv
<1> QED BY <1>1, Invariant, PTL

(* No batch is timed out, and no request too early. *)
THEOREM TimeoutsJustified == Spec => []TimeoutJustified
<1>1. IInv => TimeoutJustified
    BY DEF IInv
<1> QED BY <1>1, Invariant, PTL

(* A step never changes the outcome of a request that has one. *)
LEMMA StepKeepsOutcome ==
    ASSUME IInv, [Next]_vars, NEW r \in Req,
           chan[r] \in {"ok", "err", "timeout", "dropped"}
    PROVE  chan'[r] = chan[r]
<1>0. TypeOK /\ OpenIffPending /\ Phases BY DEF IInv
<1>1. r \notin pending
    BY <1>0 DEF OpenIffPending
<1>2. ASSUME NEW c \in Calls, Insert(c) PROVE chan'[r] = chan[r]
    <2>1. r \notin Of(c)
        BY <1>0, <1>2, ReqFacts DEF Insert, Phases
    <2>2. r \notin Replaced(c)
        BY <1>1 DEF Replaced
    <2> QED BY <1>2, <2>1, <2>2 DEF Insert
<1>3. ASSUME NEW c \in Calls, HttpReply(c) \/ SocketReply(c)
      PROVE  chan'[r] = chan[r]
    BY <1>1, <1>3 DEF HttpReply, SocketReply, Deliver, Hit
<1>11. ASSUME NEW c \in Calls, HttpNote(c) PROVE chan'[r] = chan[r]
    BY <1>1, <1>11 DEF HttpNote
<1>4. ASSUME NEW i \in 1..MaxId, TimeOut(i) PROVE chan'[r] = chan[r]
    BY <1>1, <1>4 DEF TimeOut
<1>5. CASE DropClient
    BY <1>1, <1>5 DEF DropClient
<1>6. ASSUME NEW c \in Calls, Stamp(c) \/ SendSocket(c) \/ SendHttp(c) \/ HttpFail(c)
      PROVE  chan'[r] = chan[r]
    BY <1>6 DEF Stamp, SendSocket, SendHttp, HttpFail
<1>7. ASSUME NEW q \in Req, NextId(q) PROVE chan'[r] = chan[r]
    BY <1>7 DEF NextId
<1>8. CASE Wake \/ Lock \/ Unlock \/ Sleep \/ Tick
    BY <1>8 DEF Wake, Lock, Unlock, Sleep, Tick
<1>9. ASSUME NEW i \in 1..MaxId, Purge(i) PROVE chan'[r] = chan[r]
    BY <1>9 DEF Purge
<1>10. CASE UNCHANGED vars
    BY <1>10 DEF vars
<1> QED
    BY <1>2, <1>3, <1>4, <1>5, <1>6, <1>7, <1>8, <1>9, <1>10, <1>11
    DEF Next

(* Late and repeated answers, the reaper and the drop of the client leave  *)
(* the outcome of a resolved request alone. *)
THEOREM OutcomesFinal == Spec => OneOutcome
<1>1. IInv /\ [Next]_vars
        => [\A r \in Req : chan[r] \in {"ok", "err", "timeout", "dropped"}
                             => chan'[r] = chan[r]]_vars
    BY StepKeepsOutcome
<1> QED BY <1>1, Invariant, PTL DEF Spec, OneOutcome

(* No step removes a timestamp: the purge of with_timeout reclaims none. *)
THEOREM TimestampsKept == Spec => TimestampsOnlyGrow
<1>1. TypeOK /\ [Next]_vars => [ts \subseteq ts']_vars
    <2> SUFFICES ASSUME TypeOK, Next PROVE ts \subseteq ts'
        OBVIOUS
    <2>1. ASSUME NEW i \in 1..MaxId, Purge(i) PROVE ts \subseteq ts'
        BY <2>1, PurgeKeeps
    <2>2. ASSUME NEW c \in Calls, Stamp(c) PROVE ts \subseteq ts'
        BY <2>2 DEF Stamp
    <2> QED
        BY <2>1, <2>2 DEF Next, NextId, Insert, SendSocket, SendHttp, HttpFail,
            HttpReply, HttpNote, SocketReply, Wake, Lock, Unlock, Sleep, TimeOut,
            DropClient, Tick
<1> QED BY <1>1, TypeCorrect, PTL DEF Spec, TimestampsOnlyGrow

(* A request is cancelled only by the drop of the client. *)
THEOREM CancelledByDrop == Spec => []CancelledOnlyByDrop
<1>1. IInv => CancelledOnlyByDrop
    BY DEF IInv
<1> QED BY <1>1, Invariant, PTL

-----------------------------------------------------------------------------
(* The refinement of RequestLife *)

(* A call under way keeps the client alive. *)
Borrowed == \A c \in Calls : pc[c] \in {"number", "stamp", "send", "http"} => alive

(* Nothing ends a request before its time is noted. *)
UnsentOpen == \A r \in Req : pc[r[1]] = "stamp" => chan[r] = "open"

(* The inductive invariant of the refinement *)
LInv == IInv /\ Borrowed /\ UnsentOpen

(* The variable `noted` of RequestLife. *)
NotedMap == [r \in Req |-> Noted(r)]

-----------------------------------------------------------------------------

(* What an answer reaches is open and belongs to the call it answers. *)
LEMMA HitFacts ==
    ASSUME IInv, NEW c \in Calls, pc[c] \notin {"idle", "number"},
           NEW ans \in Answers(c), NEW r \in Hit(ans)
    PROVE  /\ r \in Req
           /\ r[1] = c
           /\ chan[r] = "open"
           /\ {q \in DOMAIN ans : id[q] = id[r]} = {r}
<1>0. TypeOK BY DEF IInv
<1>1. r \in pending /\ r \in Req
    BY <1>0 DEF Hit, TypeOK
<1>2. PICK q \in DOMAIN ans : id[q] = id[r]
    BY DEF Hit
<1>3. DOMAIN ans \subseteq Of(c)
    BY DEF Answers
<1>4. \A p \in DOMAIN ans : p \in Req /\ id[p] # 0
    BY <1>3, ReqFacts DEF IInv, Phases
<1>5. \A p \in DOMAIN ans : id[p] = id[r] => p = r
    BY <1>1, <1>4 DEF IInv, UniqueIds
<1>6. q = r
    BY <1>2, <1>5
<1>7. r[1] = c
    BY <1>3, <1>6, ReqFacts
<1>8. chan[r] = "open"
    BY <1>1 DEF IInv, OpenIffPending
<1> QED BY <1>1, <1>2, <1>5, <1>6, <1>7, <1>8

(* A timeout reaches only requests that were noted. *)
LEMMA LateFacts ==
    ASSUME IInv, NEW i \in 1..MaxId, TimeOut(i),
           NEW r \in pending, id[r] = i
    PROVE  /\ r \in Req
           /\ r[1] \in Stamped
           /\ chan[r] = "open"
           /\ \E t \in Noted(r) : now - t >= Expiry
<1>0. r \in Req /\ chan[r] = "open"
    BY DEF IInv, TypeOK, OpenIffPending
<1>1. PICK p \in ts : p[2] = i /\ now - p[1] >= Expiry
    BY DEF IInv, ReaperFacts, TimeOut
<1>2. PICK q \in Req : q[1] \in Stamped /\ id[q] = p[2]
    BY DEF IInv, TsFacts
<1>3. q = r
    BY <1>0, <1>1, <1>2 DEF IInv, UniqueIds
<1>4. p[1] \in Noted(r)
    BY <1>1 DEF Noted
<1> QED BY <1>0, <1>1, <1>2, <1>3, <1>4

LEMMA InitLInv == Init => LInv
BY InitIInv, ReqFacts DEF Init, LInv, Borrowed, UnsentOpen

LEMMA NextLInv ==
    ASSUME Notes = {}
    PROVE  LInv /\ [Next]_vars => LInv'
<1> SUFFICES ASSUME LInv, [Next]_vars PROVE LInv'
    OBVIOUS
<1>0. IInv /\ TypeOK /\ OpenIffPending
    BY DEF LInv, IInv
<1>1. IInv'
    BY <1>0, NextIInv
<1> SUFFICES Borrowed' /\ UnsentOpen'
    BY <1>1 DEF LInv
<1> USE ReqFacts DEF Borrowed, UnsentOpen
<1>2. ASSUME NEW r \in Req, NextId(r) PROVE Borrowed' /\ UnsentOpen'
    BY <1>0, <1>2 DEF LInv, NextId, TypeOK
<1>3. ASSUME NEW c \in Calls, Insert(c) PROVE Borrowed' /\ UnsentOpen'
    <2>1. Borrowed'
        BY <1>0, <1>3 DEF LInv, Insert, TypeOK
    <2>2. Replaced(c) = {}
        BY <1>0, <1>3 DEF Insert, IInv, Replaced, OpenIffPending, UniqueIds, Phases, TypeOK
    <2>3. \A r \in Req : chan'[r] = IF r \in Of(c) THEN "open" ELSE chan[r]
        BY <1>3, <2>2 DEF Insert
    <2>4. \A r \in Req : r[1] # c => pc'[r[1]] = pc[r[1]]
        BY <1>0, <1>3 DEF Insert, TypeOK
    <2>5. UnsentOpen'
        BY <2>3, <2>4 DEF LInv
    <2> QED BY <2>1, <2>5
<1>4. ASSUME NEW c \in Calls,
             Stamp(c) \/ SendSocket(c) \/ SendHttp(c) \/ HttpFail(c)
      PROVE  Borrowed' /\ UnsentOpen'
    BY <1>0, <1>4 DEF LInv, Stamp, SendSocket, SendHttp, HttpFail, TypeOK
<1>5. ASSUME NEW c \in Calls, HttpReply(c) \/ SocketReply(c)
      PROVE  Borrowed' /\ UnsentOpen'
    <2>1. PICK ans \in Answers(c) : Deliver(ans)
        BY <1>5 DEF HttpReply, SocketReply
    <2>2. pc[c] \notin {"idle", "number", "stamp"}
        BY <1>0, <1>5 DEF HttpReply, SocketReply, IInv, Phases
    <2>3. \A r \in Hit(ans) : r[1] = c
        BY <1>0, <2>2, HitFacts
    <2>4. \A r \in Req : r[1] # c => chan'[r] = chan[r]
        BY <2>1, <2>3 DEF Deliver
    <2>5. /\ alive' = alive
          /\ \A d \in Calls : d # c => pc'[d] = pc[d]
          /\ pc' = pc \/ pc'[c] = "done"
        BY <1>0, <1>5 DEF HttpReply, SocketReply, callVars, TypeOK
    <2> QED BY <2>2, <2>4, <2>5 DEF LInv
<1>6. CASE Wake \/ Lock \/ Unlock \/ Sleep \/ Tick
    BY <1>6 DEF LInv, Wake, Lock, Unlock, Sleep, Tick, callVars
<1>7. ASSUME NEW i \in 1..MaxId, TimeOut(i) PROVE Borrowed' /\ UnsentOpen'
    <2>1. \A r \in pending : id[r] = i => r[1] \in Stamped
        BY <1>0, <1>7, LateFacts
    <2>2. \A r \in Req : pc[r[1]] = "stamp" => chan'[r] = chan[r]
        BY <1>7, <2>1 DEF TimeOut, Stamped
    <2> QED BY <1>7, <2>2 DEF LInv, TimeOut, callVars
<1>8. ASSUME NEW i \in 1..MaxId, Purge(i) PROVE Borrowed' /\ UnsentOpen'
    BY <1>8 DEF LInv, Purge, callVars
<1>9. CASE DropClient
    BY <1>0, <1>9 DEF LInv, DropClient, callVars, TypeOK
<1>10. CASE UNCHANGED vars
    BY <1>10 DEF LInv, vars, callVars
<1>11. ASSUME NEW c \in Calls, HttpNote(c) PROVE FALSE
    BY <1>11 DEF HttpNote
<1> QED
    BY <1>2, <1>3, <1>4, <1>5, <1>6, <1>7, <1>8, <1>9, <1>10, <1>11 DEF Next

-----------------------------------------------------------------------------

(* A request without a timestamp that is in ts has no age. *)
LEMMA NotedEmpty ==
    ASSUME IInv, NEW r \in Req, r[1] \notin Stamped
    PROVE  Noted(r) = {}
<1>1. ASSUME NEW p \in ts, p[2] = id[r] PROVE FALSE
    <2>1. PICK q \in Req : q[1] \in Stamped /\ id[q] = p[2]
        BY DEF IInv, TsFacts
    <2>2. id[q] # 0
        BY <2>1, ReqFacts DEF IInv, Phases, Stamped
    <2>3. q = r
        BY <1>1, <2>1, <2>2 DEF IInv, UniqueIds
    <2> QED BY <2>1, <2>3
<1> QED BY <1>1 DEF Noted

(* A step that changes neither ts nor ids leaves every age alone. *)
LEMMA NotedSame ==
    ASSUME ts' = ts, id' = id
    PROVE  NotedMap' = NotedMap
BY DEF NotedMap, Noted

(* Numbering a request stutters: its new id is in no bucket yet. *)
LEMMA NextIdStep ==
    ASSUME LInv, LInv', NEW r0 \in Req, NextId(r0)
    PROVE  UNCHANGED Life!vars
<1>0. IInv /\ IInv' /\ TypeOK
    BY DEF LInv, IInv
<1>1. r0[1] \notin Stamped /\ Stamped' = Stamped
    BY <1>0, ReqFacts DEF NextId, Stamped, TypeOK
<1>2. Noted(r0) = {}
    BY <1>0, <1>1, NotedEmpty
<1>3. Noted(r0)' = {}
    <2>1. \A p \in ts : p[2] < ids
        BY <1>0 DEF IInv, TsFacts, UniqueIds
    <2>2. id'[r0] = ids /\ ids \in Int /\ ts' = ts
        BY <1>0 DEF NextId, TypeOK
    <2>3. \A p \in ts : p[2] # id'[r0]
        BY <1>0, <2>1, <2>2 DEF TypeOK
    <2> QED BY <2>2, <2>3 DEF Noted
<1>4. \A r \in Req : r # r0 => Noted(r)' = Noted(r)
    BY <1>0 DEF NextId, Noted, TypeOK
<1>5. NotedMap' = NotedMap
    BY <1>2, <1>3, <1>4 DEF NotedMap
<1> QED BY <1>5 DEF NextId, Life!vars, NotedMap

(* Inserting the senders of a call issues its requests. *)
LEMMA InsertStep ==
    ASSUME LInv, NEW c \in Calls, Insert(c)
    PROVE  Life!Issue(Of(c))
<1>0. IInv /\ TypeOK
    BY DEF LInv, IInv
<1>1. Replaced(c) = {}
    BY <1>0, ReqFacts DEF Insert, IInv, Replaced, OpenIffPending, UniqueIds, Phases, TypeOK
<1>2. chan' = [r \in Req |-> IF r \in Of(c) THEN "open" ELSE chan[r]]
    BY <1>1 DEF Insert
<1>3. alive /\ \A r \in Of(c) : chan[r] = "none"
    BY <1>0, ReqFacts DEF LInv, Borrowed, Insert, IInv, Phases
<1>4. NotedMap' = NotedMap
    BY NotedSame DEF Insert
<1> QED BY <1>2, <1>3, <1>4 DEF Life!Issue, Insert, NotedMap

(* Stamping notes the one request of the call. *)
LEMMA StampStep ==
    ASSUME LInv, NEW c \in Calls, Stamp(c)
    PROVE  \E r \in Timed : Life!Note(r)
<1>0. IInv /\ TypeOK
    BY DEF LInv, IInv
<1>1. c \in Calls \ Batch /\ c \notin Stamped
    BY <1>0 DEF IInv, Phases, Stamp, Stamped
<1>2. PICK r0 : Of(c) = {r0}
    BY <1>1, OneRequest
<1>3. r0 \in Timed /\ r0 \in Req /\ r0[1] = c
    BY <1>1, <1>2, ReqFacts DEF Timed
<1>4. chan[r0] = "open"
    BY <1>3 DEF LInv, UnsentOpen, Stamp
<1>5. NotedMap[r0] = {} /\ Noted(r0) = {}
    BY <1>0, <1>1, <1>3, NotedEmpty DEF NotedMap
<1>6. ts' = ts \cup {<<now, id[r0]>>} /\ id' = id
    BY <1>2 DEF Stamp
<1>7. Noted(r0)' = {now}
    <2>1. \A q \in ts : q[2] # id[r0]
        BY <1>5 DEF Noted
    <2>2. {q \in ts' : q[2] = id[r0]} = {<<now, id[r0]>>}
        BY <1>6, <2>1
    <2>3. {p[1] : p \in {<<now, id[r0]>>}} = {now}
        OBVIOUS
    <2>4. {p[1] : p \in {q \in ts' : q[2] = id'[r0]}} = {now}
        BY <1>6, <2>2, <2>3
    <2> QED BY <2>4 DEF Noted
<1>8. id[r0] # 0 /\ \A r \in Req : r # r0 => id[r] # id[r0]
    BY <1>0, <1>3 DEF IInv, UniqueIds, Phases, Stamp
<1>9. \A r \in Req : r # r0 => Noted(r)' = Noted(r)
    BY <1>6, <1>8 DEF Noted
<1>10. NotedMap' = [NotedMap EXCEPT ![r0] = {now}]
    BY <1>3, <1>7, <1>9 DEF NotedMap
<1>11. Life!Note(r0)
    BY <1>4, <1>5, <1>10 DEF Life!Note, NotedMap, Stamp
<1> QED BY <1>3, <1>11

(* An answer that is delivered answers what it reaches. *)
LEMMA ReplyStep ==
    ASSUME Notes = {}, LInv, NEW c \in Calls, HttpReply(c) \/ SocketReply(c)
    PROVE  \E S \in SUBSET Req : \E ok \in SUBSET S : Life!Answer(S, ok)
<1>0. IInv /\ TypeOK
    BY DEF LInv, IInv
<1>1. PICK ans \in Answers(c) : Deliver(ans)
    BY DEF HttpReply, SocketReply
<1>2. pc[c] \in {"http", "done"}
    BY <1>0 DEF HttpReply, SocketReply, IInv, Phases
<1> DEFINE S == IF Decodes(ans) THEN Hit(ans) ELSE {}
           ok == {r \in S : \E q \in DOMAIN ans : id[q] = id[r] /\ ans[q] = "Success"}
<1>3. \A r \in S : /\ r \in Req
                   /\ r[1] = c
                   /\ chan[r] = "open"
                   /\ {q \in DOMAIN ans : id[q] = id[r]} = {r}
    BY <1>0, <1>2, HitFacts
<1>4. \A r \in S : r \in Timed => NotedMap[r] # {}
    <2> SUFFICES ASSUME NEW r \in S, r \in Timed
                 PROVE  Noted(r) # {}
        BY <1>3 DEF NotedMap
    <2>1. r[1] \notin Batch
        BY ReqFacts DEF Timed
    <2>2. r[1] \in Stamped
        BY <1>2, <1>3, <2>1 DEF Stamped
    <2>3. \E p \in ts : p[2] = id[r]
        BY <1>0, <1>3, <2>2 DEF IInv, TrackedUntilResolved
    <2> QED BY <2>3 DEF Noted
<1>5. chan' = [r \in Req |-> IF r \in S THEN IF r \in ok THEN "ok" ELSE "err"
                                        ELSE chan[r]]
    BY <1>1 DEF Deliver
<1>6. got' = [r \in Req |-> IF r \in S THEN {r} ELSE got[r]]
    <2>1. got' = [r \in Req |-> got[r] \cup IF r \in S
                                            THEN {q \in DOMAIN ans : id[q] = id[r]}
                                            ELSE {}]
        BY <1>1 DEF Deliver
    <2>2. \A r \in Req : got[r] \subseteq {r}
        BY <1>0 DEF IInv, AnswerFacts, OwnAnswer
    <2>3. \A r \in S : got[r] \cup {q \in DOMAIN ans : id[q] = id[r]} = {r}
        BY <1>3, <2>2
    <2> HIDE DEF S
    <2> QED BY <2>1, <2>3
<1>7. NotedMap' = NotedMap /\ now' = now /\ alive' = alive
    BY NotedSame DEF HttpReply, SocketReply, callVars
<1> HIDE DEF S, ok
<1>8. Life!Answer(S, ok)
    BY <1>3, <1>4, <1>5, <1>6, <1>7 DEF Life!Answer, NotedMap
<1>9. S \in SUBSET Req /\ ok \in SUBSET S
    BY <1>3 DEF ok
<1> QED BY <1>8, <1>9

(* The lookup of an expired id times its request out, or finds nothing. *)
LEMMA TimeOutStep ==
    ASSUME LInv, NEW i \in 1..MaxId, TimeOut(i)
    PROVE  (\E r \in Timed : Life!TimeOut(r)) \/ UNCHANGED Life!vars
<1>0. IInv /\ TypeOK
    BY DEF LInv, IInv
<1> DEFINE late == {p \in pending : id[p] = i}
<1>1. /\ chan' = [r \in Req |-> IF r \in late THEN "timeout" ELSE chan[r]]
      /\ now' = now /\ alive' = alive /\ got' = got
    BY DEF TimeOut
<1>2. NotedMap' = NotedMap
    BY NotedSame DEF TimeOut, callVars
<1>3. CASE late = {}
    <2>1. chan' = chan
        BY <1>0, <1>1, <1>3 DEF TypeOK
    <2> QED BY <1>1, <1>2, <2>1 DEF Life!vars, NotedMap
<1>4. CASE late # {}
    <2>1. PICK r \in pending : id[r] = i
        BY <1>4
    <2>2. /\ r \in Req
          /\ r[1] \in Stamped
          /\ chan[r] = "open"
          /\ \E t \in Noted(r) : now - t >= Expiry
        BY <1>0, <2>1, LateFacts
    <2>3. late = {r}
        BY <1>0, <2>1, <2>2 DEF IInv, UniqueIds, TypeOK
    <2>4. chan' = [chan EXCEPT ![r] = "timeout"]
        BY <1>0, <1>1, <2>2, <2>3 DEF TypeOK
    <2>5. r \in Timed
        BY <2>2, ReqFacts DEF Timed, Stamped
    <2>6. Life!TimeOut(r)
        BY <1>1, <1>2, <2>2, <2>4 DEF Life!TimeOut, NotedMap
    <2> QED BY <2>5, <2>6
<1> QED BY <1>3, <1>4

LEMMA DropStep ==
    ASSUME LInv, DropClient
    PROVE  Life!Drop
<1>1. chan' = [r \in Req |-> IF chan[r] = "open" THEN "dropped" ELSE chan[r]]
    BY DEF LInv, IInv, OpenIffPending, DropClient
<1>2. NotedMap' = NotedMap
    BY NotedSame DEF DropClient, callVars
<1> QED BY <1>1, <1>2 DEF Life!Drop, DropClient, NotedMap

LEMMA TickStep ==
    ASSUME Tick
    PROVE  Life!Tick
<1>1. NotedMap' = NotedMap
    BY NotedSame DEF Tick, callVars
<1> QED BY <1>1 DEF Life!Tick, Tick, NotedMap

(* Sending, the other moves of the reaper and the purge stutter. *)
LEMMA OtherSteps ==
    ASSUME LInv,
           \/ \E c \in Calls : SendSocket(c) \/ SendHttp(c) \/ HttpFail(c)
           \/ Wake \/ Lock \/ Unlock \/ Sleep
           \/ \E i \in 1..MaxId : Purge(i)
           \/ UNCHANGED vars
    PROVE  UNCHANGED Life!vars
<1>1. ts' = ts
    BY PurgeKeeps DEF LInv, IInv, SendSocket, SendHttp, HttpFail, Wake, Lock,
        Unlock, Sleep, vars
<1>2. id' = id /\ now' = now /\ alive' = alive /\ chan' = chan /\ got' = got
    BY DEF SendSocket, SendHttp, HttpFail, Wake, Lock, Unlock, Sleep, Purge,
        vars, callVars
<1>3. NotedMap' = NotedMap
    BY <1>1, <1>2, NotedSame
<1> QED BY <1>2, <1>3 DEF Life!vars, NotedMap

LEMMA InitLife == Init => Life!Init
BY RequestsAssumption DEF Init, Life!Init, Noted

LEMMA NextLife ==
    ASSUME Notes = {}
    PROVE  LInv /\ LInv' /\ [Next]_vars => [Life!Next]_(Life!vars)
<1> SUFFICES ASSUME LInv, LInv', [Next]_vars
             PROVE  Life!Next \/ UNCHANGED Life!vars
    OBVIOUS
<1>1. ASSUME NEW r \in Req, NextId(r) PROVE UNCHANGED Life!vars
    BY <1>1, NextIdStep
<1>2. ASSUME NEW c \in Calls, Insert(c) PROVE Life!Next
    <2>1. Of(c) \in SUBSET Req
        BY ReqFacts
    <2> QED BY <1>2, <2>1, InsertStep DEF Life!Next
<1>3. ASSUME NEW c \in Calls, Stamp(c) PROVE Life!Next
    BY <1>3, StampStep DEF Life!Next
<1>4. ASSUME NEW c \in Calls, HttpReply(c) \/ SocketReply(c) PROVE Life!Next
    BY <1>4, ReplyStep DEF Life!Next
<1>5. ASSUME NEW i \in 1..MaxId, TimeOut(i)
      PROVE  Life!Next \/ UNCHANGED Life!vars
    BY <1>5, TimeOutStep DEF Life!Next
<1>6. CASE DropClient
    BY <1>6, DropStep DEF Life!Next
<1>7. CASE Tick
    BY <1>7, TickStep DEF Life!Next
<1>8. CASE \/ \E c \in Calls : SendSocket(c) \/ SendHttp(c) \/ HttpFail(c)
           \/ Wake \/ Lock \/ Unlock \/ Sleep
           \/ \E i \in 1..MaxId : Purge(i)
           \/ UNCHANGED vars
    BY <1>8, OtherSteps
<1>9. ASSUME NEW c \in Calls, HttpNote(c) PROVE FALSE
    BY <1>9 DEF HttpNote
<1> QED
    BY <1>1, <1>2, <1>3, <1>4, <1>5, <1>6, <1>7, <1>8, <1>9 DEF Next

(* The machinery of ids, maps, locks and threads implements the life of a  *)
(* request: every behaviour of Requests is one of RequestLife, so long as  *)
(* no post is answered by a notification. *)
THEOREM RequestsImplementLife ==
    ASSUME Notes = {}
    PROVE  Spec => ImplementsLife
<1>1. Spec => []LInv
    BY InitLInv, NextLInv, PTL DEF Spec
<1> QED BY <1>1, InitLife, NextLife, PTL DEF Spec, ImplementsLife, Life!Spec

=============================================================================
