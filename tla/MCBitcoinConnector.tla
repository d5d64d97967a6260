------------------------- MODULE MCBitcoinConnector -------------------------
(***************************************************************************)
(* TLC instance of BitcoinConnector: a chain of two blocks, the second     *)
(* with a transaction.                                                     *)
(***************************************************************************)
EXTENDS BitcoinConnector

CONSTANTS b0, b1, t

MCBlock == {b0, b1}
MCParent == (b0 :> None) @@ (b1 :> b0)
MCTxsOf == (b0 :> << >>) @@ (b1 :> << t >>)
MCChain == << b0, b1 >>

\* The node by its address and the daemon by a name; or the node alone.
MCConf == {[addr |-> Node, literal |-> TRUE], [addr |-> Self, literal |-> FALSE]}
MCNodeOnly == {[addr |-> Node, literal |-> TRUE]}

=============================================================================
