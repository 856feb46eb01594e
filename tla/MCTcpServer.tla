------------------------------ MODULE MCTcpServer ------------------------------
(* Instances of TcpServer for TLC: queues of two, so that they fill up. *)
EXTENDS TcpServer
=============================================================================
