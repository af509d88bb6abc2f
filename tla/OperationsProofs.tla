-------------------------- MODULE OperationsProofs --------------------------
(***************************************************************************)
(* Theorems about Operations, for every width of u64, height of the chain, *)
(* size of a batch, contracts and table of tokens.                         *)
(*                                                                         *)
(* A call keeps what it asked for in the order of its subjects (Asked),    *)
(* every answer is the true one or of no use (Answered), and the results   *)
(* are those of the answers (Results).  With that, what the decoders make  *)
(* of a true answer is a matter of one request (DecodedTrue).              *)
(***************************************************************************)
EXTENDS Operations, SequenceTheorems, TLAPS

(* The decoders that do not go through the bytes of their answer. *)
Plain == {"Option", "Vec", "String", "H160", "U256", "u64", "bool", "AddressType"}

(* The states of a call that has made its requests. *)
Live == {"calling", "waiting", "ready", "failed"}

(* A call is one of Ops, with arguments that it takes. *)
Called == out # Idle => op \in Ops /\ args \in Inputs(op)

(* The states of a call, and that its requests are those for its           *)
(* arguments, in order.  *)
Asked ==
    /\ out.st \in {"idle", "panicked"} \cup Live
    /\ out.st \in Live =>
         parts = [i \in DOMAIN Keys(op, args) |->
                    [key |-> Keys(op, args)[i], ans |-> parts[i].ans]]

(* The answer to a request, if there is one, is the true one or of no use. *)
Answered ==
    out.st \in Live =>
      \A i \in DOMAIN parts :
        parts[i].ans \in {Waiting, Failure, Junk, World(op, parts[i].key)}

(* The result r of the i-th request is what its decoder makes of its       *)
(* answer. *)
Result(i, r) ==
    /\ parts[i].ans # Waiting
    /\ \E lucky \in BOOLEAN : r = Decode(op, parts[i].key, parts[i].ans, lucky)

(* A call that the node answers is ready with the results of all requests, *)
(* or failed with one of them. *)
Results ==
    ~Listed(op, args) =>
      /\ out.st = "ready" =>
           /\ out.res = [i \in DOMAIN parts |-> out.res[i]]
           /\ \A i \in DOMAIN parts : Result(i, out.res[i]) /\ out.res[i] # Err
      /\ out.st = "failed" => \E i \in DOMAIN parts : Result(i, Err)

(* For a token of the table there is no future to wait for. *)
NoFuture == Listed(op, args) => out.st \notin {"waiting", "failed"}

(* The inductive invariant. *)
IInv == Called /\ Asked /\ Answered /\ Results /\ NoFuture

-----------------------------------------------------------------------------
(* The steps *)

(* The name of no call is that of an operation of the table. *)
LEMMA NoCall == \A o, x : o.name = "none" => ~Listed(o, x)
  BY DEF Listed

LEMMA InitInv == Init => IInv
  <1> SUFFICES ASSUME Init PROVE IInv
    OBVIOUS
  <1>1. op.name = "none" /\ out = Idle /\ out.st = "idle"
    BY DEF Init, Op, Idle, Outcome
  <1>2. ~Listed(op, args)
    BY <1>1, NoCall
  <1> QED  BY <1>1, <1>2 DEF IInv, Called, Asked, Answered, Results, NoFuture, Live

(* A call begins. *)
LEMMA InvokeInv ==
    ASSUME NEW o \in Ops, IInv, Invoke(o)
    PROVE  IInv'
  <1>1. PICK x \in Inputs(o) :
          /\ op' = o
          /\ args' = x
          /\ parts' = [i \in DOMAIN Keys(o, x) |->
                         [key |-> Keys(o, x)[i], ans |-> Waiting]]
    BY DEF Invoke
  <1>2. out'.st = "calling"
    BY DEF Invoke, Outcome
  <1>3. Called'
    BY <1>1 DEF Called
  <1>4. \A i \in DOMAIN parts' : parts'[i].ans = Waiting
    BY <1>1
  <1>5. Asked'
    BY <1>1, <1>2 DEF Asked, Live
  <1>6. Answered'
    BY <1>4 DEF Answered
  <1>7. Results' /\ NoFuture'
    BY <1>2 DEF Results, NoFuture
  <1> QED  BY <1>3, <1>5, <1>6, <1>7 DEF IInv

(* A call returns, its requests sent or not. *)
LEMMA ReturnInv ==
    ASSUME IInv, Return \/ ReturnUnsent
    PROVE  IInv'
  <1>1. /\ out.st = "calling" /\ op' = op /\ args' = args
        /\ out' = IF Listed(op, args) THEN Now(op, args) ELSE Outcome("waiting", <<>>)
    BY DEF Return, ReturnUnsent, Returns
  <1>2. out'.st = IF Listed(op, args) THEN "ready" ELSE "waiting"
    BY <1>1 DEF Now, Outcome
  <1>3. out # Idle
    BY <1>1 DEF Idle, Outcome
  <1>4. Called' /\ Results' /\ NoFuture'
    BY <1>1, <1>2, <1>3 DEF IInv, Called, Results, NoFuture
  <1>5. parts = [i \in DOMAIN Keys(op, args) |->
                   [key |-> Keys(op, args)[i], ans |-> parts[i].ans]]
    BY <1>1 DEF IInv, Asked, Live
  <1>6. Asked'
    <2>1. CASE Return
      BY <1>1, <1>2, <1>5, <2>1 DEF Return, Asked, Live
    <2>2. CASE ReturnUnsent
      <3>1. parts' = [i \in DOMAIN parts |-> [key |-> parts[i].key, ans |-> Failure]]
        BY <2>2 DEF ReturnUnsent
      <3>2. parts' = [i \in DOMAIN Keys(op, args) |->
                        [key |-> Keys(op, args)[i], ans |-> parts'[i].ans]]
        BY <1>5, <3>1
      <3> QED  BY <1>1, <1>2, <3>2 DEF Asked, Live
    <2> QED  BY <2>1, <2>2
  <1>7. Answered'
    BY <1>1 DEF IInv, Answered, Live, Return, ReturnUnsent
  <1> QED  BY <1>4, <1>6, <1>7 DEF IInv

(* A call panics. *)
LEMMA InvokePanicsInv ==
    ASSUME NEW o \in Ops, IInv, InvokePanics(o)
    PROVE  IInv'
  <1>1. PICK x \in Inputs(o) : op' = o /\ args' = x /\ out' = Outcome("panicked", <<>>)
    BY DEF InvokePanics
  <1>2. out'.st = "panicked"
    BY <1>1 DEF Outcome
  <1> QED  BY <1>1, <1>2 DEF IInv, Called, Asked, Answered, Results, NoFuture, Live

(* A request is answered; those that were answered keep their answers. *)
LEMMA AnswerInv ==
    ASSUME NEW i \in DOMAIN parts, IInv, Answer(i)
    PROVE  IInv'
  <1>1. PICK ans \in {World(op, parts[i].key), Failure, Junk} :
          parts' = [parts EXCEPT ![i].ans = ans]
    BY DEF Answer
  <1>2. parts[i].ans = Waiting /\ op' = op /\ args' = args /\ out' = out
    BY DEF Answer
  <1>3. Called' /\ NoFuture'
    BY <1>2 DEF IInv, Called, NoFuture
  <1>4. CASE out.st \notin Live
    BY <1>2, <1>3, <1>4 DEF IInv, Asked, Answered, Results, Live
  <1>5. CASE out.st \in Live
    <2>1. parts = [j \in DOMAIN Keys(op, args) |->
                     [key |-> Keys(op, args)[j], ans |-> parts[j].ans]]
      BY <1>5 DEF IInv, Asked
    <2>2. /\ DOMAIN parts' = DOMAIN parts
          /\ parts' = [j \in DOMAIN Keys(op, args) |->
                         [key |-> Keys(op, args)[j], ans |-> parts'[j].ans]]
          /\ \A j \in DOMAIN parts : /\ parts'[j].key = parts[j].key
                                     /\ parts'[j].ans = IF j = i THEN ans ELSE parts[j].ans
      BY <1>1, <2>1
    <2>3. Asked'
      BY <1>2, <2>2 DEF IInv, Asked
    <2>4. Answered'
      BY <1>1, <1>2, <1>5, <2>2 DEF IInv, Answered
    <2>5. \A j \in DOMAIN parts : \A r : Result(j, r) => Result(j, r)'
      BY <1>2, <2>2 DEF Result
    <2>6. Results'
      BY <1>2, <2>2, <2>5 DEF IInv, Results
    <2> QED  BY <1>3, <2>3, <2>4, <2>6 DEF IInv
  <1> QED  BY <1>4, <1>5

(* The future looks at the answers. *)
LEMMA PollInv ==
    ASSUME IInv, Poll
    PROVE  IInv'
  <1>1. PICK lucky \in BOOLEAN :
          LET res == [i \in DOMAIN parts |->
                        IF parts[i].ans = Waiting THEN Unready
                        ELSE Decode(op, parts[i].key, parts[i].ans, lucky)]
          IN  \/ /\ \E i \in DOMAIN res : res[i] = Err
                 /\ out' = Outcome("failed", <<>>)
              \/ /\ \A i \in DOMAIN res : res[i] \notin {Err, Unready}
                 /\ out' = Outcome("ready", res)
    BY DEF Poll
  <1> DEFINE res == [i \in DOMAIN parts |->
                        IF parts[i].ans = Waiting THEN Unready
                        ELSE Decode(op, parts[i].key, parts[i].ans, lucky)]
  <1>2. out.st = "waiting" /\ op' = op /\ args' = args /\ parts' = parts
    BY DEF Poll
  <1>3. ~Listed(op, args)
    BY <1>2 DEF IInv, NoFuture
  <1>4. Err # Unready
    BY DEF Err, Unready
  <1>5. out' = Outcome("failed", <<>>) \/ out' = Outcome("ready", res)
    BY <1>1
  <1>6. out'.st \in {"failed", "ready"}
    BY <1>5 DEF Outcome
  <1>7. Called' /\ Asked' /\ Answered' /\ NoFuture'
    <2>1. out # Idle
      BY <1>2 DEF Idle, Outcome
    <2> QED  BY <1>2, <1>3, <1>6, <2>1 DEF IInv, Called, Asked, Answered, NoFuture, Live
  <1>8. CASE /\ \E i \in DOMAIN res : res[i] = Err
             /\ out' = Outcome("failed", <<>>)
    <2>1. PICK i \in DOMAIN parts : res[i] = Err
      BY <1>8
    <2>2. Result(i, Err)'
      BY <1>2, <1>4, <2>1 DEF Result
    <2>3. out'.st = "failed"
      BY <1>8 DEF Outcome
    <2>4. Results'
      BY <1>2, <2>2, <2>3 DEF Results
    <2> QED  BY <1>7, <2>4 DEF IInv
  <1>9. CASE /\ \A i \in DOMAIN res : res[i] \notin {Err, Unready}
             /\ out' = Outcome("ready", res)
    <2>1. out'.st = "ready" /\ out'.res = res
      BY <1>9 DEF Outcome
    <2>2. \A i \in DOMAIN parts : Result(i, res[i])' /\ res[i] # Err
      BY <1>2, <1>9 DEF Result
    <2>3. Results'
      BY <1>2, <2>1, <2>2 DEF Results
    <2> QED  BY <1>7, <2>3 DEF IInv
  <1> QED  BY <1>1, <1>8, <1>9

(* The caller is done. *)
LEMMA TakeInv ==
    ASSUME Take
    PROVE  IInv'
  <1>1. op'.name = "none" /\ out' = Idle /\ out'.st = "idle"
    BY DEF Take, Op, Idle, Outcome
  <1>2. ~Listed(op', args')
    BY <1>1, NoCall
  <1> QED  BY <1>1, <1>2 DEF IInv, Called, Asked, Answered, Results, NoFuture, Live

LEMMA NextInv == IInv /\ [Next]_vars => IInv'
  <1> SUFFICES ASSUME IInv, [Next]_vars PROVE IInv'
    OBVIOUS
  <1>1. CASE UNCHANGED vars
    BY <1>1 DEF vars, IInv, Called, Asked, Answered, Results, Result, NoFuture
  <1> QED  BY <1>1, InvokeInv, InvokePanicsInv, ReturnInv, AnswerInv, PollInv, TakeInv DEF Next

-----------------------------------------------------------------------------
(* What the decoders make of an answer *)

(* Which decoder goes with which method and data. *)
Row(o) ==
    \/ o.de = "Vec" /\ o.method \in {"eth_accounts", "eth_getLogs", "trace_transaction"}
    \/ o.de \in {"u64", "H160", "U256"}
         /\ o.method \in {"eth_coinbase", "eth_blockNumber", "eth_estimateGas", "eth_gasPrice",
                          "eth_getBalance", "eth_getTransactionCount"}
    \/ o.de \in {"bool", "AddressType", "String"} /\ o.method = "eth_getCode"
    \/ o.de = "String" /\ o.method = "eth_call" /\ o.data = "none"
    \/ o.de = "Option"
         /\ o.method \in {"eth_getBlockByHash", "eth_getBlockByNumber", "eth_getTransactionByHash",
                          "eth_getTransactionReceipt"}
    \/ o.de = "f64" /\ o.name = "token_amount_in_eth"
    \/ o.de = "u8" /\ o.name = "token_decimals"
    \/ o.de = "balance" /\ o.method = "eth_call"
         /\ \/ o.name = "token_get_balance" /\ o.data = "0x70a08231"
            \/ o.name = "etherdelta_get_balance" /\ o.data = "0xf7888aec"
    \/ o.de = "text" /\ o.name \in {"token_name", "token_symbol"}

LEMMA Rows == \A o \in Ops : Row(o)
  <1>0. \A n, m, d, t, e : /\ Op(n, m, d, t, e).name = n /\ Op(n, m, d, t, e).method = m
                           /\ Op(n, m, d, t, e).data = d /\ Op(n, m, d, t, e).takes = t
                           /\ Op(n, m, d, t, e).de = e
    BY DEF Op
  <1>1. \A o \in AccountOps : Row(o)
    BY <1>0 DEF AccountOps, Row
  <1>2. \A o \in BlockOps : Row(o)
    BY <1>0 DEF BlockOps, Row
  <1>3. \A o \in CodeAndLogs \cup Traces : Row(o)
    BY <1>0 DEF CodeAndLogs, Traces, Row
  <1>4. \A o \in TransactionOps : Row(o)
    BY <1>0 DEF TransactionOps, Row
  <1>5. \A o \in TokenOps : Row(o)
    BY <1>0 DEF TokenOps, Row
  <1> QED  BY <1>1, <1>2, <1>3, <1>4, <1>5 DEF Ops

(* Nothing is made of an error, or of a text of another type. *)
LEMMA NoUse ==
    ASSUME NEW o \in Ops, NEW k, NEW lucky
    PROVE  Decode(o, k, Failure, lucky) = Err /\ Decode(o, k, Junk, lucky) = Err
  <1>1. Failure.kind = "failure" /\ Junk.kind = "junk"
    BY DEF Failure, Junk, Json
  <1>2. o.de \in Plain \cup {"u8", "f64", "balance", "text"}
    BY Rows DEF Row, Plain
  <1>3. ASSUME NEW val, val.kind \in {"failure", "junk"}
        PROVE  Decode(o, k, val, lucky) = Err
    <2>1. contract_string_var(val) = Err
      BY <1>3 DEF contract_string_var
    <2>4. decimals_u8(val) = Err /\ classify(k[1], val) = Err
      BY <1>3 DEF decimals_u8, classify
    <2>2. de_option(val) = Err /\ de("array", val) = Err /\ de("data", val) = Err
          /\ de("quantity", val) = Err
      BY <1>3 DEF de_option, de
    <2>3. amount_in_eth(k[2], val, lucky) = Err /\ balance_u256(val, lucky) = Err
          /\ de_u64(val) = Err /\ address_is_contract(val) = Err
      BY <1>3, <2>4 DEF amount_in_eth, balance_u256, de_u64, address_is_contract
    <2> QED  BY <1>2, <2>1, <2>2, <2>3, <2>4 DEF Decode, Plain
  <1> QED  BY <1>1, <1>3

(* What is at an address with a contract, and at one without. *)
LEMMA CodeThere ==
    ASSUME NEW a
    PROVE  Deployed(a, <<1>>) = IF HasCode(a) THEN <<1>> ELSE <<>>
  BY DEF Deployed

(* A true answer is decoded to what the chain says. *)
LEMMA DecodedTrue ==
    ASSUME NEW o \in Ops, o.de \in Plain, NEW k, NEW lucky
    PROVE  /\ Decode(o, k, World(o, k), lucky) = Meaning(o, k)
           /\ Meaning(o, k) # Err
  <1>0. \A kind, v : Json(kind, v).kind = kind /\ Json(kind, v).v = v
    BY DEF Json
  <1>1. Row(o)
    BY Rows
  <1>2. \A v : Ok(v) # Err
    BY DEF Ok, Err
  <1>3. None # Err
    BY DEF None, Err
  <1>4. CASE o.de = "Vec"
    <2>1. World(o, k) = Json("array", k)
      BY <1>1, <1>4 DEF Row, World
    <2> QED  BY <1>0, <1>2, <1>4, <2>1 DEF Decode, Meaning, de
  <1>5. CASE o.de \in {"u64", "H160", "U256"}
    <2>1. World(o, k) = Json("quantity", <<Quantity(k)>>)
      BY <1>1, <1>5 DEF Row, World
    <2>2. World(o, k).kind = "quantity" /\ World(o, k).v = <<Quantity(k)>>
      BY <1>0, <2>1
    <2>3. CASE o.de = "u64"
      BY <1>2, <2>2, <2>3 DEF Decode, Meaning, de_u64
    <2>4. CASE o.de \in {"H160", "U256"}
      BY <1>2, <2>2, <2>4 DEF Decode, Meaning, de
    <2> QED  BY <1>5, <2>3, <2>4
  <1>6. CASE o.de \in {"bool", "AddressType"}
    <2>1. World(o, k) = Json("data", Deployed(k[1], <<1>>))
      BY <1>1, <1>6 DEF Row, World
    <2>2. World(o, k).kind = "data" /\ (World(o, k).v # <<>> <=> HasCode(k[1]))
      BY <1>0, <2>1, CodeThere
    <2>3. CASE o.de = "bool"
      BY <1>2, <2>2, <2>3 DEF Decode, Meaning, address_is_contract
    <2>4. CASE o.de = "AddressType"
      BY <2>2, <2>4 DEF Decode, Meaning, classify, Err
    <2> QED  BY <1>6, <2>3, <2>4
  <1>7. CASE o.de = "String"
    <2>1. World(o, k) = Json("data", Deployed(k[1], <<1>>))
      BY <1>1, <1>7 DEF Row, World
    <2> QED  BY <1>0, <1>2, <1>7, <2>1 DEF Decode, Meaning, de
  <1>8. CASE o.de = "Option"
    <2>1. World(o, k) = IF k[1] <= Height THEN Json("object", k) ELSE Json("null", <<>>)
      BY <1>1, <1>8 DEF Row, World
    <2>2. /\ k[1] <= Height => World(o, k).kind = "object" /\ World(o, k).v = k
          /\ ~(k[1] <= Height) => World(o, k).kind = "null"
      BY <1>0, <2>1
    <2> QED  BY <1>2, <1>3, <1>8, <2>2 DEF Decode, Meaning, de_option, de
  <1> QED  BY <1>4, <1>5, <1>6, <1>7, <1>8 DEF Plain

(* A balance is read from an answer that is not empty. *)
LEMMA BalanceRead ==
    ASSUME NEW o \in Ops, o.de = "balance", NEW k, NEW lucky, Readable(o, k)
    PROVE  Decode(o, k, World(o, k), lucky) # Err
  <1>0. \A kind, v : Json(kind, v).kind = kind /\ Json(kind, v).v = v
    BY DEF Json
  <1>1. Row(o)
    BY Rows
  <1>2. \A n : ToWord(n) # <<>>
    BY OperationsAssumption DEF ToWord
  <1>3. \A v : Ok(v) # Err
    BY DEF Ok, Err
  <1>4. World(o, k).kind = "data" /\ World(o, k).v # <<>>
    <2>1. CASE o.name = "token_get_balance"
      <3>1. HasCode(k[1])
        BY <2>1 DEF Readable
      <3>2. World(o, k) = Json("data", Deployed(k[1], ToWord(Balance(o.data, k))))
        BY <1>1, <2>1 DEF Row, World
      <3> QED  BY <1>0, <1>2, <3>1, <3>2 DEF Deployed
    <2>2. CASE o.name = "etherdelta_get_balance"
      <3>1. World(o, k) = Json("data", ToWord(Balance(o.data, k)))
        BY <1>1, <2>2 DEF Row, World
      <3> QED  BY <1>0, <1>2, <3>1
    <2> QED  BY <1>1, <2>1, <2>2 DEF Row
  <1> QED  BY <1>3, <1>4 DEF Decode, balance_u256

-----------------------------------------------------------------------------
(* The order of the requests *)

(* from..to + 1 has both its ends, unless to + 1 wraps. *)
LEMMA WholeRange ==
    ASSUME NEW a \in 0..MaxU64, NEW b \in 0..MaxU64, b # MaxU64
    PROVE  /\ get_block_range(a, b) = [k \in 1..(b - a + 1) |-> <<a + k - 1>>]
           /\ \E n \in Nat : get_block_range(a, b) = [k \in 1..n |-> <<a + k - 1>>]
  <1>1. (b + 1) % (MaxU64 + 1) = b + 1
    <2>1. MaxU64 \in Nat
      BY OperationsAssumption
    <2>2. b + 1 \in 0..MaxU64
      BY <2>1
    <2> QED  BY <2>1, <2>2
  <1>2. b + 1 - a = b - a + 1
    BY OperationsAssumption
  <1>3. get_block_range(a, b) = [k \in 1..(b - a + 1) |-> <<a + k - 1>>]
    BY <1>1, <1>2 DEF get_block_range
  <1>4. CASE a <= b
    <2>1. b - a + 1 \in Nat
      BY <1>4, OperationsAssumption
    <2> QED  BY <1>3, <2>1
  <1>5. CASE b < a
    <2>1. 1..(b - a + 1) = 1..0
      BY <1>5, OperationsAssumption
    <2> QED  BY <1>3, <2>1
  <1> QED  BY <1>3, <1>4, <1>5, OperationsAssumption

(* The requests of a call are those for its subjects, in their order. *)
LEMMA KeysAreSubjects ==
    ASSUME NEW o \in Ops, NEW x \in Inputs(o), ~(o.takes = "range" /\ x[2] = MaxU64)
    PROVE  /\ Keys(o, x) = Subjects(o, x)
           /\ \E n \in Nat : Keys(o, x) = [i \in 1..n |-> Keys(o, x)[i]]
  <1>1. CASE o.takes = "range"
    <2>1. x \in (0..MaxU64) \X (0..MaxU64)
      BY <1>1 DEF Inputs
    <2>2. x[1] \in 0..MaxU64 /\ x[2] \in 0..MaxU64 /\ x[2] # MaxU64
      BY <1>1, <2>1
    <2>3. Keys(o, x) = get_block_range(x[1], x[2])
      BY <1>1 DEF Keys
    <2>4. Subjects(o, x) = [k \in 1..(x[2] - x[1] + 1) |-> <<x[1] + k - 1>>]
      BY <1>1 DEF Subjects
    <2>5. PICK n \in Nat : get_block_range(x[1], x[2]) = [k \in 1..n |-> <<x[1] + k - 1>>]
      BY <2>2, WholeRange
    <2>6. Keys(o, x) = [k \in 1..n |-> Keys(o, x)[k]]
      BY <2>3, <2>5
    <2> QED  BY <2>2, <2>3, <2>4, <2>6, WholeRange
  <1>2. CASE o.takes = "many"
    <2>1. x \in BoundedSeq(0..(Height + 1), MaxBatch)
      BY <1>2 DEF Inputs
    <2>2. \E n \in Nat : DOMAIN x = 1..n
      BY <2>1, OperationsAssumption DEF BoundedSeq, SeqOf
    <2> QED  BY <1>2, <2>2 DEF Keys, Subjects
  <1>3. CASE o.takes = "holder"
    <2>1. x \in Addresses \X {0, 1} \X {0, Latest, Unspecified}
      BY <1>3 DEF Inputs
    <2>2. x = <<x[1], x[2], x[3]>>
      BY <2>1
    <2>3. Keys(o, x) = << <<x[1], x[2], IF x[3] = Unspecified THEN Latest ELSE x[3]>> >>
      BY <1>3 DEF Keys
    <2>4. Subjects(o, x) = IF x[3] = Unspecified THEN << <<x[1], x[2], Latest>> >> ELSE <<x>>
      BY <1>3 DEF Subjects
    <2>5. Keys(o, x) = Subjects(o, x)
      BY <2>2, <2>3, <2>4
    <2> QED  BY <2>3, <2>5
  <1>4. CASE o.takes \notin {"range", "many", "holder"}
    <2>1. Keys(o, x) = <<x>> /\ Subjects(o, x) = <<x>>
      BY <1>4 DEF Keys, Subjects
    <2> QED  BY <2>1
  <1> QED  BY <1>1, <1>2, <1>3, <1>4

-----------------------------------------------------------------------------
(* The theorems *)

(* The inductive invariant of a call holds in every behaviour. *)
THEOREM Invariant == Spec => []IInv
  BY InitInv, NextInv, PTL DEF Spec

(* Batches and single calls of YumClient bring one true result for each    *)
(* subject, in their order, for all operations whose decoder does not go   *)
(* through the bytes of a word. *)
THEOREM PlainResultsTrue == Spec => [](op.de \in Plain => ResultsTrue)
  <1>1. IInv => (op.de \in Plain => ResultsTrue)
    <2> SUFFICES ASSUME IInv, op.de \in Plain, out.st = "ready", ~Listed(op, args),
                        ~(op.takes = "range" /\ args[2] = MaxU64)
                 PROVE  /\ Len(out.res) = Len(Subjects(op, args))
                        /\ \A i \in DOMAIN Subjects(op, args) :
                             out.res[i] = Meaning(op, Subjects(op, args)[i])
      BY DEF ResultsTrue
    <2>1. op \in Ops /\ args \in Inputs(op)
      <3>1. out # Idle
        BY DEF Idle, Outcome
      <3> QED  BY <3>1 DEF IInv, Called
    <2>2. PICK n \in Nat : Keys(op, args) = [i \in 1..n |-> Keys(op, args)[i]]
      BY <2>1, KeysAreSubjects
    <2>3. Keys(op, args) = Subjects(op, args)
      BY <2>1, KeysAreSubjects
    <2>4. /\ DOMAIN parts = 1..n
          /\ \A i \in 1..n : parts[i].key = Subjects(op, args)[i]
      BY <2>2, <2>3 DEF IInv, Asked
    <2>5. ASSUME NEW i \in 1..n
          PROVE  out.res[i] = Meaning(op, Subjects(op, args)[i])
      <3>1. Result(i, out.res[i]) /\ out.res[i] # Err
        BY <2>4 DEF IInv, Results
      <3>2. parts[i].ans \in {Failure, Junk, World(op, parts[i].key)}
        BY <2>4, <3>1 DEF IInv, Answered, Result, Live
      <3>3. PICK lucky \in BOOLEAN :
              out.res[i] = Decode(op, parts[i].key, parts[i].ans, lucky)
        BY <3>1 DEF Result
      <3>4. parts[i].ans = World(op, parts[i].key)
        BY <2>1, <3>1, <3>2, <3>3, NoUse
      <3>5. Decode(op, parts[i].key, World(op, parts[i].key), lucky)
              = Meaning(op, parts[i].key)
        BY <2>1, DecodedTrue
      <3> QED  BY <2>4, <3>3, <3>4, <3>5
    <2>6. Len(out.res) = Len(Subjects(op, args))
      <3>1. out.res = [i \in 1..n |-> out.res[i]]
        BY <2>4 DEF IInv, Results
      <3>2. Len(out.res) = n
        BY <3>1
      <3>3. Subjects(op, args) = [i \in 1..n |-> Subjects(op, args)[i]]
        BY <2>2, <2>3
      <3> QED  BY <3>2, <3>3
    <2> QED  BY <2>2, <2>3, <2>5, <2>6
  <1> QED  BY Invariant, <1>1, PTL

(* A call fails only for a request of its own that was not answered well   *)
(* or whose true answer is of no use, for all operations but               *)
(* token_decimals, token_name and token_symbol. *)
THEOREM FailuresCaused == Spec => [](op.de \notin {"u8", "text"} => FailsForCause)
  <1>1. IInv => (op.de \notin {"u8", "text"} => FailsForCause)
    <2> SUFFICES ASSUME IInv, op.de \notin {"u8", "text", "f64"}, out.st = "failed",
                        \A i \in DOMAIN parts : parts[i].ans \notin {Failure, Junk},
                        \A i \in DOMAIN parts : Readable(op, parts[i].key)
                 PROVE  FALSE
      BY DEF FailsForCause
    <2>1. op \in Ops
      <3>1. out # Idle
        BY DEF Idle, Outcome
      <3> QED  BY <3>1 DEF IInv, Called
    <2>2. ~Listed(op, args)
      BY DEF IInv, NoFuture
    <2>3. PICK i \in DOMAIN parts : Result(i, Err)
      BY <2>2 DEF IInv, Results
    <2>4. parts[i].ans = World(op, parts[i].key)
      BY <2>3 DEF IInv, Answered, Result, Live
    <2>5. PICK lucky \in BOOLEAN : Err = Decode(op, parts[i].key, World(op, parts[i].key), lucky)
      BY <2>3, <2>4 DEF Result
    <2>6. op.de = "balance" \/ op.de \in Plain
      BY <2>1, Rows DEF Row, Plain
    <2>7. CASE op.de = "balance"
      BY <2>1, <2>5, <2>7, BalanceRead
    <2>8. CASE op.de \in Plain
      BY <2>1, <2>5, <2>8, DecodedTrue
    <2> QED  BY <2>6, <2>7, <2>8
  <1> QED  BY Invariant, <1>1, PTL

=============================================================================
