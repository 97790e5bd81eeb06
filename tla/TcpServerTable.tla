--------------------------- MODULE TcpServerTable ----------------------------
(* TcpServer implements ConnTable. *)
EXTENDS TcpServer

(* the connections as ConnTable sees them *)
Table == INSTANCE ConnTable
           WITH Slots <- Conns, Listen <- sock_fd, NoFd <- NO_FD,
                table <- [c \in Conns |-> conn[c].conn_fd], pending <- Active

(* process_events over a list that shares its links with the free list     *)
(* comes to the same as handling each member of a set once, with slots and *)
(* descriptors that never clash.                                           *)
TableImplemented == Table!Spec

==============================================================================
