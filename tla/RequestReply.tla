------------------------------ MODULE RequestReply ------------------------------
(***************************************************************************)
(* What the TCP server of a strand promises its clients (the protocol that *)
(* tcp_server_run, main/src/net.c 678-762, carries out): clients are served*)
(* one after the other; each gets the answer to its own command, or        *)
(* "timeout", or nothing if its connection ends before.                    *)
(***************************************************************************)
EXTENDS Integers, Sequences

Timeout == -1     \* the string "timeout"
Nothing == -2     \* no reply: the connection failed or was closed

VARIABLES
  client,   \* the client being served, by number, 0 for none
  replies   \* what each client served so far got, by number

Connect == client = 0 /\ client' = Len(replies) + 1 /\ UNCHANGED replies

Reply == /\ client # 0
         /\ \E r \in {client, Timeout, Nothing} : replies' = Append(replies, r)
         /\ client' = 0

Init == client = 0 /\ replies = <<>>

Spec == Init /\ [][Connect \/ Reply]_<<client, replies>>
=============================================================================
