------------------------------ MODULE MCQuery ------------------------------
(* Query with the history entries of two contexts, and a history that is      *)
(* empty or full of lines of the query's.                                     *)
EXTENDS Query
MCEntries == {Context, Foreign} \X Lines
MCPushed == {<<Context, 1>>, <<Foreign, 0>>}
MCHistories ==
  {<<[i \in 0..HISTORY_SIZE - 1 |-> NoEntry], HISTORY_SIZE, 0>>,
   <<[i \in 0..HISTORY_SIZE - 1 |-> <<Context, i>>], 0, HISTORY_SIZE>>}
=============================================================================
