---------------------------- MODULE MCOperations ----------------------------
(* Contracts of every kind, with strings of no word to three words.        *)
EXTENDS Operations

Contract(kind, name, symbol, decimals) ==
    [kind |-> kind, name |-> name, symbol |-> symbol, decimals |-> decimals]

MCTokens ==
    [a \in 0..7 |->
       CASE a = 0 -> Contract("none", <<>>, <<>>, 0)
         [] a = 1 -> Contract("bytes32", <<1, 1>>, <<1>>, 3)
         [] a = 2 -> Contract("string", <<1, 2, 3>>, <<1, 1>>, 2)
         [] a = 3 -> Contract("string", <<>>, <<1, 1, 1, 1>>, 4)
         [] a = 4 -> Contract("string", <<1, 1, 2, 3, 1>>, <<0, 1, 0>>, 1)
         [] a = 5 -> Contract("bytes32", <<2, 3>>, <<3, 1>>, 15)
         [] a = 6 -> Contract("string", <<2, 3, 1, 0, 1, 1>>, <<2>>, 0)
         [] a = 7 -> Contract("none", <<>>, <<>>, 0)]

MCKnown ==
    [a \in {0, 1} |-> [name |-> <<1, 1, 1>>, symbol |-> <<1>>, decimals |-> a]]

=============================================================================
