----------------------------- MODULE MCTcpClient -----------------------------
(* Model values for TcpClient. *)
EXTENDS TcpClient
=============================================================================
