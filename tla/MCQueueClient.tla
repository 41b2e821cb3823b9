---------------------------- MODULE MCQueueClient ----------------------------
(* TLC instance of QueueClient: two consumers, three or four connections.  *)
EXTENDS QueueClient, TLC

CONSTANTS c1, c2
MCConsumers == {c1, c2}
Symmetric == Permutations(MCConsumers)
=============================================================================
