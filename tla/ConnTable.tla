------------------------------ MODULE ConnTable ------------------------------
(***************************************************************************)
(* What the event loop and the connection pool promise together, without   *)
(* lists, cursors, handlers or buffers: a table of slots, each free or     *)
(* with a descriptor of its own, and the slots of the connections that the *)
(* last epoll_wait reported and that process_events has yet to handle.     *)
(* Module TcpServer implements it (TcpServerTable!TableImplemented).       *)
(***************************************************************************)
CONSTANTS Slots, Fds, Listen, NoFd

VARIABLES
    table,     \* the descriptor of a slot, NoFd if it is free
    pending    \* the slots reported and not yet handled

vars == <<table, pending>>

Used == {c \in Slots : table[c] # NoFd}

Init == table = [c \in Slots |-> NoFd] /\ pending = {}

(* init_network_mod: the listening socket gets a slot of the empty table *)
Start ==
    /\ Used = {}
    /\ \E c \in Slots : table' = [table EXCEPT ![c] = Listen]
    /\ UNCHANGED pending

(* epoll_wait: only when all connections of the last batch are handled *)
Report ==
    /\ pending = {}
    /\ pending' \in (SUBSET Used) \ {{}}
    /\ UNCHANGED table

(* While the listening socket is handled, a new descriptor gets a free     *)
(* slot, which is not part of the batch.                                   *)
Accept ==
    /\ \E c \in pending : table[c] = Listen
    /\ \E c \in Slots \ (Used \cup pending), fd \in Fds :
          /\ \A d \in Slots : table[d] # fd
          /\ table' = [table EXCEPT ![c] = fd]
    /\ UNCHANGED pending

(* A reported connection is handled once, and is closed then or stays. The *)
(* listening socket stays.                                                 *)
Handled(c) ==
    /\ c \in pending
    /\ pending' = pending \ {c}
    /\ \/ UNCHANGED table
       \/ table[c] \in Fds /\ table' = [table EXCEPT ![c] = NoFd]

Next == Start \/ Report \/ Accept \/ \E c \in Slots : Handled(c)

Spec == Init /\ [][Next]_vars

==============================================================================
