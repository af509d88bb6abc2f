---------------------------- MODULE RequestLife -----------------------------
(***************************************************************************)
(* What the client promises of a request, without ids, maps, locks, socket *)
(* threads or a thread that scans for old requests: it is issued, together *)
(* with the others of its call; one made by Client::request is given a     *)
(* time; it then has one end, its own answer, a timeout that is due, or    *)
(* the drop of the client, and keeps it.  Requests implements this.        *)
(***************************************************************************)
EXTENDS Integers

CONSTANTS
    Req,        \* the requests
    Timed,      \* those of Client::request, which can time out
    Expiry      \* after how many seconds they do

VARIABLES
    now,        \* the clock, in seconds
    alive,      \* the client has not been dropped
    chan,       \* chan[r]: what the holder of r's future can see
    got,        \* got[r]: whose answers were handed to r
    noted       \* noted[r]: the seconds that r's age is counted from

vars == <<now, alive, chan, got, noted>>

Init ==
    /\ now \in Nat
    /\ alive = TRUE
    /\ chan = [r \in Req |-> "none"]
    /\ got = [r \in Req |-> {}]
    /\ noted = [r \in Req |-> {}]

(* A call issues its requests, all at once. *)
Issue(S) ==
    /\ alive
    /\ \A r \in S : chan[r] = "none"
    /\ chan' = [r \in Req |-> IF r \in S THEN "open" ELSE chan[r]]
    /\ UNCHANGED <<now, alive, got, noted>>

(* The age of r begins to count, once. *)
Note(r) ==
    /\ chan[r] = "open"
    /\ noted[r] = {}
    /\ noted' = [noted EXCEPT ![r] = {now}]
    /\ UNCHANGED <<now, alive, chan, got>>

(* One text answers the requests in S, each with a result of its own. *)
Answer(S, ok) ==
    /\ \A r \in S : chan[r] = "open" /\ (r \in Timed => noted[r] # {})
    /\ chan' = [r \in Req |-> IF r \in S THEN IF r \in ok THEN "ok" ELSE "err"
                                         ELSE chan[r]]
    /\ got' = [r \in Req |-> IF r \in S THEN {r} ELSE got[r]]
    /\ UNCHANGED <<now, alive, noted>>

(* r is old enough to be given up. *)
TimeOut(r) ==
    /\ chan[r] = "open"
    /\ \E t \in noted[r] : now - t >= Expiry
    /\ chan' = [chan EXCEPT ![r] = "timeout"]
    /\ UNCHANGED <<now, alive, got, noted>>

(* The client is dropped: nobody waits any longer. *)
Drop ==
    /\ alive
    /\ alive' = FALSE
    /\ chan' = [r \in Req |-> IF chan[r] = "open" THEN "dropped" ELSE chan[r]]
    /\ UNCHANGED <<now, got, noted>>

Tick ==
    /\ now' = now + 1
    /\ UNCHANGED <<alive, chan, got, noted>>

Next ==
    \/ \E S \in SUBSET Req : Issue(S) \/ \E ok \in SUBSET S : Answer(S, ok)
    \/ \E r \in Timed : Note(r) \/ TimeOut(r)
    \/ Drop
    \/ Tick

Spec == Init /\ [][Next]_vars

=============================================================================
