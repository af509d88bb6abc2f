----------------------------- MODULE Operations -----------------------------
(***************************************************************************)
(* The operations of YumClient (src/yum.rs) and of the traits of src/ops:  *)
(* each is one request or a batch of requests, a decoder for the answers   *)
(* and the rule that puts the results together.  For the tokens it knows   *)
(* TokenOps has the answer itself, and asks all the same.                  *)
(*                                                                         *)
(* One call is made after the other; that a request gets its own answer,   *)
(* whoever else is calling, is the business of Requests.  Block numbers,   *)
(* hashes, addresses and amounts are small numbers; a byte has four values *)
(* and a word of the ABI has Word bytes; u64::MAX is MaxU64.               *)
(***************************************************************************)
EXTENDS Integers, Sequences, SequencesExt

CONSTANTS
    MaxU64,     \* u64::MAX
    Word,       \* the number of bytes in a word (32)
    Height,     \* blocks, transactions and receipts up to here exist
    MaxBatch,   \* bound on the requests of one batch
    Tokens,     \* Tokens[a]: what the contract at a returns
    Known       \* Known[a]: a row of non_compliant_tokens

Addresses == DOMAIN Tokens

(* A byte: NUL, a character of one byte, the first and the second byte of  *)
(* one of two. *)
Base == 4

Byte == 0..(Base - 1)

(* A contract returns strings as the ABI says, or in a single word; at an  *)
(* address without a contract a call returns nothing. *)
ASSUME OperationsAssumption ==
    /\ MaxU64 \in Nat /\ Word \in Nat \ {0} /\ Height \in Nat /\ MaxBatch \in Nat
    /\ \A a \in Addresses : /\ Tokens[a].kind \in {"string", "bytes32", "none"}
                            /\ Tokens[a].name \in Seq(Byte)
                            /\ Tokens[a].symbol \in Seq(Byte)
                            /\ Tokens[a].decimals \in 0..(Base ^ Word - 1)
    /\ DOMAIN Known \subseteq Addresses
    /\ 0..(Height + 1) \subseteq Addresses

VARIABLES
    op,         \* the operation that is called
    args,       \* its arguments
    parts,      \* its requests: the key of each, and its answer
    out         \* the results, one for each request; or why there are none

vars == <<op, args, parts, out>>

-----------------------------------------------------------------------------
(* The operations *)

(* An operation: the method and, for eth_call, the data of its requests,   *)
(* what it takes and how it decodes. *)
Op(name, method, data, takes, de) ==
    [name |-> name, method |-> method, data |-> data, takes |-> takes, de |-> de]

AccountOps ==
    { Op("accounts", "eth_accounts", "none", "nothing", "Vec"),
      Op("address_is_contract", "eth_getCode", "none", "at", "bool"),
      Op("block_number", "eth_blockNumber", "none", "nothing", "u64"),
      Op("call", "eth_call", "none", "one", "String"),
      Op("classify_addresses", "eth_getCode", "none", "many", "AddressType"),
      Op("coinbase", "eth_coinbase", "none", "nothing", "H160"),
      Op("estimate_gas", "eth_estimateGas", "none", "one", "U256"),
      Op("gas_price", "eth_gasPrice", "none", "nothing", "U256"),
      Op("get_balance", "eth_getBalance", "none", "at", "U256") }

(* The trait BlockOps, which the block stream uses.  YumClient has the     *)
(* same operations of its own, and so has an older copy of the trait. *)
BlockOps ==
    { Op("get_block_by_hash", "eth_getBlockByHash", "none", "one", "Option"),
      Op("get_block_by_number", "eth_getBlockByNumber", "none", "one", "Option"),
      Op("get_blocks", "eth_getBlockByNumber", "none", "many", "Option"),
      Op("get_block_range", "eth_getBlockByNumber", "none", "range", "Option") }

CodeAndLogs ==
    { Op("get_code", "eth_getCode", "none", "at", "String"),
      Op("get_logs", "eth_getLogs", "none", "one", "Vec"),
      Op("get_logs_n_topics", "eth_getLogs", "none", "many", "Vec") }

(* The trait TransactionOps; YumClient has the same operations of its own. *)
TransactionOps ==
    { Op("get_num_transactions_sent", "eth_getTransactionCount", "none", "at", "u64"),
      Op("get_transaction", "eth_getTransactionByHash", "none", "one", "Option"),
      Op("get_transactions", "eth_getTransactionByHash", "none", "many", "Option"),
      Op("get_transaction_receipt", "eth_getTransactionReceipt", "none", "one", "Option"),
      Op("get_transaction_receipts", "eth_getTransactionReceipt", "none", "many", "Option") }

Traces ==
    { Op("trace_transaction", "trace_transaction", "none", "one", "Vec"),
      Op("trace_transactions", "trace_transaction", "none", "many", "Vec") }

TokenOps ==
    { Op("token_amount_in_eth", "eth_call", "0x313ce567", "amount", "f64"),
      Op("token_decimals", "eth_call", "0x313ce567", "token", "u8"),
      Op("etherdelta_get_balance", "eth_call", "0xf7888aec", "holder", "balance"),
      Op("token_get_balance", "eth_call", "0x70a08231", "holder", "balance"),
      Op("token_name", "eth_call", "0x06fdde03", "token", "text"),
      Op("token_symbol", "eth_call", "0x95d89b41", "token", "text") }

Ops == AccountOps \cup BlockOps \cup CodeAndLogs \cup TransactionOps \cup Traces
         \cup TokenOps

(* Block parameters: a block, the name "latest", or none given. *)
Latest == MaxU64 + 1
Unspecified == MaxU64 + 2

(* What an operation may be called with. *)
Inputs(o) ==
    CASE o.takes = "nothing" -> {<<>>}
      [] o.takes = "one" -> {<<k>> : k \in 0..(Height + 1)}
      [] o.takes = "many" -> BoundedSeq(0..(Height + 1), MaxBatch)
      [] o.takes = "range" -> (0..MaxU64) \X (0..MaxU64)
      [] o.takes = "at" -> Addresses \X {0, Latest}
      [] o.takes = "token" -> {<<a>> : a \in Addresses}
      [] o.takes = "amount" -> Addresses \X {1}
      [] o.takes = "holder" -> Addresses \X {0, 1} \X {0, Latest, Unspecified}

(* Mutant: the end of the range is left out.                               *)
get_block_range_open(a, b) == [k \in 1..(b - a) |-> <<a + k - 1>>]

(* from..to + 1, where to + 1 wraps. *)
get_block_range(a, b) ==
    [k \in 1..(((b + 1) % (MaxU64 + 1)) - a) |-> <<a + k - 1>>]

(* The keys of the requests: what each is about. *)
Keys(o, x) ==
    CASE o.takes = "range" -> get_block_range(x[1], x[2])
      [] o.takes = "many" -> [i \in DOMAIN x |-> <<x[i]>>]
      [] o.takes = "holder" ->
           << <<x[1], x[2], IF x[3] = Unspecified THEN Latest ELSE x[3]>> >>
      [] OTHER -> <<x>>

-----------------------------------------------------------------------------
(* The node *)

Json(kind, v) == [kind |-> kind, v |-> v]

Waiting == Json("waiting", <<>>)
Failure == Json("failure", <<>>)
Junk == Json("junk", <<>>)

(* The word for the number n, and s filled up to whole words. *)
ToWord(n) == [i \in 1..Word |-> (n \div Base ^ (Word - i)) % Base]

Padded(s) ==
    [i \in 1..(Word * ((Len(s) + Word - 1) \div Word)) |->
       IF i <= Len(s) THEN s[i] ELSE 0]

(* The ABI puts the offset and the length of a string before its bytes. *)
Returned(a, s) ==
    CASE Tokens[a].kind = "string" -> ToWord(Word) \o ToWord(Len(s)) \o Padded(s)
      [] Tokens[a].kind = "bytes32" -> Padded(s)
      [] OTHER -> <<>>

HasCode(a) == Tokens[a].kind # "none"

Deployed(a, s) == IF HasCode(a) THEN s ELSE <<>>

(* Some number that tells requests apart, u64 or more. *)
Quantity(k) == FoldLeft(LAMBDA n, x : n + x, 1, k) + IF k = <<>> THEN 0 ELSE MaxU64 - 2

Balance(data, k) == k[1] + k[2] + k[3] + IF data = "0xf7888aec" THEN 1 ELSE 0

(* The true answer to the request of o for the key k. *)
World(o, k) ==
    CASE o.method \in {"eth_accounts", "eth_getLogs", "trace_transaction"} -> Json("array", k)
      [] o.method \in {"eth_coinbase", "eth_blockNumber", "eth_estimateGas", "eth_gasPrice",
                       "eth_getBalance", "eth_getTransactionCount"} -> Json("quantity", <<Quantity(k)>>)
      [] o.method = "eth_getCode" -> Json("data", Deployed(k[1], <<1>>))
      [] o.method = "eth_call" ->
           Json("data",
                CASE o.data = "0x06fdde03" -> Returned(k[1], Tokens[k[1]].name)
                  [] o.data = "0x95d89b41" -> Returned(k[1], Tokens[k[1]].symbol)
                  [] o.data = "0x313ce567" -> Deployed(k[1], ToWord(Tokens[k[1]].decimals))
                  [] o.data = "0x70a08231" -> Deployed(k[1], ToWord(Balance(o.data, k)))
                  [] o.data = "0xf7888aec" -> ToWord(Balance(o.data, k))
                  [] OTHER -> Deployed(k[1], <<1>>))
      [] OTHER -> IF k[1] <= Height THEN Json("object", k) ELSE Json("null", <<>>)

-----------------------------------------------------------------------------
(* The decoders.  What the libraries for numbers do with a value they may  *)
(* refuse is `lucky`. *)

Ok(v) == [tag |-> "Ok", v |-> v]
None == [tag |-> "None", v |-> <<>>]
Err == [tag |-> "Err", v |-> <<>>]
Unready == [tag |-> "Unready", v |-> <<>>]

de(kind, val) == IF val.kind = kind THEN Ok(val.v) ELSE Err

(* Mutant: the type is not an Option.                                      *)
de_option_strict(val) == de("object", val)

(* de::<Option<T>> *)
de_option(val) == IF val.kind = "null" THEN None ELSE de("object", val)

(* low_u64 *)
de_u64(val) ==
    IF val.kind = "quantity" THEN Ok(<<val.v[1] % (MaxU64 + 1)>>) ELSE Err

(* code.len() > 2: there is more than "0x". *)
address_is_contract(val) ==
    IF val.kind = "data" THEN Ok(<<IF val.v # <<>> THEN 1 ELSE 0>>) ELSE Err

(* The decoder keeps the address it was made for. *)
classify(a, val) ==
    IF val.kind = "data" THEN [tag |-> IF val.v # <<>> THEN "Contract" ELSE "Address", v |-> <<a>>]
    ELSE Err

Hex(s) == FoldLeft(LAMBDA n, b : Base * n + b, 0, s)

(* u8::from_str_radix, of a whole word. *)
decimals_u8(val) ==
    IF val.kind = "data" /\ val.v # <<>> /\ Hex(val.v) < Base THEN Ok(<<Hex(val.v)>>) ELSE Err

(* The amount over ten to the decimals, if BigDecimal takes the amount. *)
amount_in_eth(amount, val, lucky) ==
    IF decimals_u8(val) # Err /\ lucky THEN Ok(<<amount>> \o decimals_u8(val).v) ELSE Err

(* U256::from_str, which may or may not take the empty string. *)
balance_u256(val, lucky) ==
    IF val.kind = "data" /\ (val.v # <<>> \/ lucky) THEN Ok(<<Hex(val.v)>>) ELSE Err

(* Bytes in UTF-8: 0 and 1 stand alone, 3 follows 2 and 2 comes before 3. *)
Utf8(s) ==
    /\ \A i \in DOMAIN s : s[i] = 2 => i < Len(s) /\ s[i + 1] = 3
    /\ \A i \in DOMAIN s : s[i] = 3 => i > 1 /\ s[i - 1] = 2

NonZero(b) == b # 0

(* Mutant: the first word that has data is taken for the string.           *)
last_chunk_third(s) == IF Len(s) > 2 * Word THEN SubSeq(s, 2 * Word + 1, 3 * Word) ELSE s

(* chunks(64).last() *)
last_chunk(s) == SubSeq(s, ((Len(s) - 1) \div Word) * Word + 1, Len(s))

(* contract_string_var: the last word, without its NULs. *)
contract_string_var(val) ==
    LET r == SelectSeq(last_chunk(val.v), NonZero)
    IN  IF val.kind = "data" /\ val.v # <<>> /\ Utf8(r) THEN Ok(r) ELSE Err

Decode(o, k, val, lucky) ==
    CASE o.de = "Option" -> de_option(val)
      [] o.de = "Vec" -> de("array", val)
      [] o.de = "String" -> de("data", val)
      [] o.de \in {"H160", "U256"} -> de("quantity", val)
      [] o.de = "u64" -> de_u64(val)
      [] o.de = "bool" -> address_is_contract(val)
      [] o.de = "AddressType" -> classify(k[1], val)
      [] o.de = "u8" -> decimals_u8(val)
      [] o.de = "f64" -> amount_in_eth(k[2], val, lucky)
      [] o.de = "balance" -> balance_u256(val, lucky)
      [] o.de = "text" -> contract_string_var(val)

-----------------------------------------------------------------------------
(* Calls *)

Outcome(st, res) == [st |-> st, res |-> res]

Idle == Outcome("idle", <<>>)

Init ==
    /\ op = Op("none", "none", "none", "nothing", "Vec")
    /\ args = <<>>
    /\ parts = <<>>
    /\ out = Idle

(* The call is about a token of the table. *)
Listed(o, x) ==
    o.name \in {"token_amount_in_eth", "token_decimals", "token_name", "token_symbol"}
      /\ x[1] \in DOMAIN Known

(* YumFuture::Now, from the row of the token. *)
Now(o, x) ==
    LET row == Known[x[1]]
    IN  Outcome("ready", <<Ok(CASE o.name = "token_name" -> row.name
                                [] o.name = "token_symbol" -> row.symbol
                                [] o.name = "token_decimals" -> <<row.decimals>>
                                [] o.name = "token_amount_in_eth" -> <<x[2], row.decimals>>)>>)

(* A call makes its requests and sends them, which may take its time if a  *)
(* post has to be waited for.  The argument of unwrap_or is evaluated in   *)
(* any case, so this is also done for a token of the table. *)
Invoke(o) ==
    /\ out = Idle
    /\ \E x \in Inputs(o) :
         /\ op' = o
         /\ args' = x
         /\ parts' = [i \in DOMAIN Keys(o, x) |-> [key |-> Keys(o, x)[i], ans |-> Waiting]]
    /\ out' = Outcome("calling", <<>>)

(* What a call has in hand when it returns: for a token of the table the   *)
(* value, and else the future. *)
Returns == IF Listed(op, args) THEN Now(op, args) ELSE Outcome("waiting", <<>>)

(* The call returns, its requests being sent; some may be answered. *)
Return ==
    /\ out.st = "calling"
    /\ out' = Returns
    /\ UNCHANGED <<op, args, parts>>

(* The requests cannot be sent: every future is an error, even that of a   *)
(* request which was resolved, by its timeout perhaps, in the meantime. *)
ReturnUnsent ==
    /\ out.st = "calling"
    /\ parts' = [i \in DOMAIN parts |-> [key |-> parts[i].key, ans |-> Failure]]
    /\ out' = Returns
    /\ UNCHANGED <<op, args>>

(* A call that panics before it asks: to + 1 overflows in a build that     *)
(* checks; or BigDecimal does not take the amount of a token of the table, *)
(* whose result is unwrapped. *)
InvokePanics(o) ==
    /\ out = Idle
    /\ \E x \in Inputs(o) :
         /\ \/ o.takes = "range" /\ x[2] = MaxU64
            \/ o.takes = "amount" /\ Listed(o, x)
         /\ op' = o
         /\ args' = x
         /\ parts' = <<>>
         /\ out' = Outcome("panicked", <<>>)

(* The i-th request is answered, in any order and even before the call     *)
(* returns: truly, with an error (a timeout too) or with something that    *)
(* nobody can decode.  What is answered for a token of the table is lost. *)
Answer(i) ==
    /\ parts[i].ans = Waiting
    /\ \E ans \in {World(op, parts[i].key), Failure, Junk} :
         parts' = [parts EXCEPT ![i].ans = ans]
    /\ UNCHANGED <<op, args, out>>

(* The future is polled: it fails with the first request that does, and is *)
(* ready with all of them. *)
Poll ==
    /\ out.st = "waiting"
    /\ \E lucky \in BOOLEAN :
         LET res == [i \in DOMAIN parts |->
                       IF parts[i].ans = Waiting THEN Unready
                       ELSE Decode(op, parts[i].key, parts[i].ans, lucky)]
         IN  \/ /\ \E i \in DOMAIN res : res[i] = Err
                /\ out' = Outcome("failed", <<>>)
             \/ /\ \A i \in DOMAIN res : res[i] \notin {Err, Unready}
                /\ out' = Outcome("ready", res)
    /\ UNCHANGED <<op, args, parts>>

(* The caller is done with the outcome. *)
Take ==
    /\ out.st \in {"ready", "failed", "panicked"}
    /\ op' = Op("none", "none", "none", "nothing", "Vec")
    /\ args' = <<>>
    /\ parts' = <<>>
    /\ out' = Idle

Next ==
    \/ \E o \in Ops : Invoke(o) \/ InvokePanics(o)
    \/ Return \/ ReturnUnsent
    \/ \E i \in DOMAIN parts : Answer(i)
    \/ Poll
    \/ Take

Spec == Init /\ [][Next]_vars

-----------------------------------------------------------------------------
(* Properties *)

(* What is left of a string: all of it, if it fits into a word, and else   *)
(* the bytes that spill into its last word; NULs never. *)
Piece(s) ==
    LET last == IF s = <<>> THEN 0 ELSE ((Len(s) - 1) % Word) + 1
    IN  SelectSeq(SubSeq(s, Len(s) - last + 1, Len(s)), NonZero)

Text(o, a) == IF o.name = "token_name" THEN Tokens[a].name ELSE Tokens[a].symbol

(* A true answer is of use for the operation. *)
Readable(o, k) ==
    CASE o.de = "text" -> HasCode(k[1]) /\ Utf8(Piece(Text(o, k[1])))
      [] o.de \in {"u8", "f64"} -> HasCode(k[1]) /\ Tokens[k[1]].decimals < Base
      [] o.name = "token_get_balance" -> HasCode(k[1])
      [] OTHER -> TRUE

(* What the chain says of the key k; of a number that is returned as a u64 *)
(* its low 64 bits, of a string its Piece. *)
Meaning(o, k) ==
    CASE o.de = "Option" -> IF k[1] <= Height THEN Ok(k) ELSE None
      [] o.de = "bool" -> Ok(<<IF HasCode(k[1]) THEN 1 ELSE 0>>)
      [] o.de = "AddressType" -> [tag |-> IF HasCode(k[1]) THEN "Contract" ELSE "Address",
                                  v |-> <<k[1]>>]
      [] o.de = "u64" -> Ok(<<Quantity(k) % (MaxU64 + 1)>>)
      [] o.de = "u8" -> Ok(<<Tokens[k[1]].decimals>>)
      [] o.de = "f64" -> Ok(<<k[2], Tokens[k[1]].decimals>>)
      [] o.de = "balance" -> Ok(<<Balance(o.data, k)>>)
      [] o.de = "text" -> Ok(Piece(Text(o, k[1])))
      [] OTHER -> Ok(World(o, k).v)

(* What a call is about, in the order its results have to come in. *)
Subjects(o, x) ==
    CASE o.takes = "range" -> [k \in 1..(x[2] - x[1] + 1) |-> <<x[1] + k - 1>>]
      [] o.takes = "many" -> [k \in DOMAIN x |-> <<x[k]>>]
      [] o.takes = "holder" /\ x[3] = Unspecified -> << <<x[1], x[2], Latest>> >>
      [] OTHER -> <<x>>

(* A call that succeeds has one result for each of its subjects, in their  *)
(* order whatever the order of the answers, and each says what the chain   *)
(* says: an absent block is None, an address has its own class, a range    *)
(* has both its ends, a string is whole if it fits into a word.  Left out  *)
(* are the range up to u64::MAX and the tokens of the table. *)
ResultsTrue ==
    out.st = "ready" /\ ~Listed(op, args) /\ ~(op.takes = "range" /\ args[2] = MaxU64)
      => LET keys == Subjects(op, args)
         IN  /\ Len(out.res) = Len(keys)
             /\ \A i \in DOMAIN keys : Readable(op, keys[i])
                                         => out.res[i] = Meaning(op, keys[i])

(* A call fails only for a request of its own that was not sent or not     *)
(* answered well, or whose true answer is of no use: one absent block or   *)
(* transaction does not fail a batch.  An amount may fail by itself. *)
FailsForCause ==
    out.st = "failed" =>
      \/ \E i \in DOMAIN parts : \/ parts[i].ans \in {Failure, Junk}
                                 \/ ~Readable(op, parts[i].key)
      \/ op.de = "f64"

=============================================================================
