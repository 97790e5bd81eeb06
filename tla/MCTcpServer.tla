---------------------------- MODULE MCTcpServer ----------------------------
(* The server on small numbers; the .cfg files say which. *)
EXTENDS TcpServerTable
=============================================================================
