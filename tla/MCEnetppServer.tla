--------------------------- MODULE MCEnetppServer ---------------------------
(***************************************************************************)
(* TLC instances of EnetppServer.                                          *)
(***************************************************************************)
EXTENDS EnetppServer

BudgetOf(connect, disconnect, send, close, clear, accept, receive) ==
  [kind \in Kinds |->
     CASE kind = "connect" -> connect [] kind = "disconnect" -> disconnect
       [] kind = "send" -> send       [] kind = "close" -> close
       [] kind = "clear" -> clear     [] kind = "accept" -> accept
       [] kind = "receive" -> receive]

FullBudget  == BudgetOf(1, 1, 1, 1, 0, 1, 1)
StaleBudget == BudgetOf(2, 0, 0, 1, 0, 1, 0)
ClearBudget == BudgetOf(0, 0, 0, 0, 1, 1, 0)
=============================================================================
