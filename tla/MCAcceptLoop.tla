---------------------------- MODULE MCAcceptLoop ---------------------------
(* Both programs; the chat server also with too few descriptors for three  *)
(* clients, so that it fails.                                              *)
EXTENDS AcceptLoop, TLC

BothPrograms ==
  {[program |-> "chat", limit |-> 3], [program |-> "chat", limit |-> 4],
   [program |-> "proxy", limit |-> 4]}
=============================================================================
