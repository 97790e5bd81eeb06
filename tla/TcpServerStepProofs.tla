------------------------- MODULE TcpServerStepProofs ------------------------
(***************************************************************************)
(* The steps of TcpServer that run no handler keep the inductive           *)
(* invariant: waiting for events, start-up, clients and failures. Then     *)
(* every step of TcpServer is a step of ConnTable, or changes nothing      *)
(* there.                                                                  *)
(***************************************************************************)
EXTENDS TcpServerHandlerProofs, TcpServerTable

-----------------------------------------------------------------------------
(* a registered descriptor that is ready leads to the connection that owns it *)
LEMMA ReadyOwned ==
    ASSUME IInv, NEW fd \in Ready
    PROVE  /\ fd \in Fds \cup {sock_fd} /\ epoll[fd].ptr \in Conns
           /\ conn[epoll[fd].ptr].conn_fd = fd /\ InUse(epoll[fd].ptr)
           /\ Revents(fd) # {} /\ Revents(fd) \in SUBSET Events
           /\ Revents(fd) \subseteq conn[epoll[fd].ptr].events
           /\ fd = sock_fd => backlog > 0
<1>1. fd \in Fds \cup {sock_fd} /\ Revents(fd) # {}
  BY DEF Ready
<1>2. epoll[fd] \in Interest /\ Revents(fd) \subseteq epoll[fd].events
  BY <1>1 DEF Revents, IInv, TypeOK
<1>3. epoll[fd].ptr \in Conns /\ conn[epoll[fd].ptr].conn_fd = fd
  BY <1>1, <1>2 DEF IInv, EpollInv, Interest
<1>4. InUse(epoll[fd].ptr)
  BY <1>1, <1>3, SMTT(30), Zenon DEF InUse, Fds, sock_fd, NO_FD
<1>5. Revents(fd) \subseteq conn[epoll[fd].ptr].events
  BY <1>2, <1>3, <1>4 DEF IInv, SlotsInv, SlotInv
<1>6. fd = sock_fd => backlog > 0
  BY <1>1 DEF Revents, Readable, Writable
<1> QED
  BY <1>1, <1>2, <1>3, <1>4, <1>5, <1>6 DEF Interest

LEMMA PollIInv == CountLaws /\ IInv /\ epoll_polling => IInv'
<1> SUFFICES ASSUME CountLaws, IInv, epoll_polling PROVE IInv'
  OBVIOUS
<1>1. PICK fds \in SUBSET Ready : fds # {} /\
        \E order \in Bijection(1 .. Cardinality(fds), fds) :
            PushActive(order, Cardinality(fds))
  BY DEF epoll_polling
<1>2. PICK n : n = Cardinality(fds)
  OBVIOUS
<1>3. PICK order \in Bijection(1 .. n, fds) : PushActive(order, n)
  BY <1>1, <1>2
<1> DEFINE reported == [i \in 1 .. n |-> epoll[order[i]].ptr]
           position(c) == CHOOSE i \in 1 .. n : reported[i] = c
           hit == {reported[i] : i \in 1 .. n}
<1>4. /\ next' = [c \in Conns |-> IF c \notin hit THEN next[c]
                                  ELSE IF position(c) = 1 THEN active_conns
                                  ELSE reported[position(c) - 1]]
      /\ conn' = [c \in Conns |-> IF c \notin hit THEN conn[c]
                                  ELSE [conn[c] EXCEPT !.active_events =
                                            Revents(order[position(c)])]]
      /\ active_conns' = reported[n]
      /\ active_conn' = reported[n]
  BY <1>3, Zenon DEF PushActive
<1>5. n \in Nat /\ n >= 1
  <2>1. fds \in SUBSET (Fds \cup {sock_fd})
    BY DEF Ready
  <2>2. Cardinality(fds) \in Nat /\ Cardinality(fds) # 0
    BY <1>1, <2>1, Zenon DEF CountLaws
  <2> QED
    BY <1>2, <2>2
<1>6. \A i \in 1 .. n : order[i] \in Ready
  BY <1>1 DEF Bijection, Injection, Surjection
<1>7. \A i, j \in 1 .. n : order[i] = order[j] => i = j
  BY DEF Bijection, Injection, IsInjective
<1>8. \A i \in 1 .. n : reported[i] = epoll[order[i]].ptr
  BY SMTT(30), Zenon
<1>9. \A i \in 1 .. n : /\ reported[i] \in Conns /\ InUse(reported[i])
                        /\ conn[reported[i]].conn_fd = order[i]
                        /\ Revents(order[i]) # {} /\ Revents(order[i]) \in SUBSET Events
                        /\ Revents(order[i]) \subseteq conn[reported[i]].events
                        /\ order[i] = sock_fd => backlog > 0
  BY <1>8, <1>6, ReadyOwned, SMTT(30), Zenon
<1>10. \A i, j \in 1 .. n : reported[i] = reported[j] => i = j
  BY <1>7, <1>9, SMTT(30), Zenon
<1>11. \A c \in hit : position(c) \in 1 .. n /\ reported[position(c)] = c
  BY SMTT(30), Zenon
<1>12. \A i \in 1 .. n : position(reported[i]) = i
  BY <1>10, <1>11, SMTT(30), Zenon
<1>14. hit \subseteq Conns
  BY <1>9
<1>13. Cardinality(hit) = n
  <2>1. reported \in Bijection(1 .. n, hit)
    BY <1>10 DEF Bijection, Injection, Surjection, IsInjective
  <2> HIDE DEF reported, hit
  <2> QED
    BY <1>5, <1>14, <2>1, ZenonT(30) DEF CountLaws
<1> HIDE DEF reported, position, hit
<1>15. /\ pc = "poll" /\ pc' = "read" /\ UNCHANGED <<connection_pool, req, kernel, memory>>
       /\ active_conn = NULL /\ active_conns = NULL
  BY DEF epoll_polling, IInv, CursorInv
<1>16. conn' = [c \in Conns |-> conn'[c]] /\ next' = [c \in Conns |-> next'[c]]
  BY <1>4
<1>17. /\ \A c \in hit : conn'[c] = [conn[c] EXCEPT !.active_events =
                                         Revents(order[position(c)])]
       /\ \A c \in Conns \ hit : conn'[c] = conn[c] /\ next'[c] = next[c]
  BY <1>14, <1>4
<1>18. \A c \in hit : position(c) = 1 => next'[c] = NULL
  <2> TAKE c \in hit
  <2> HAVE position(c) = 1
  <2>1. next'[c] = active_conns
    BY <1>4, <1>14
  <2> QED
    BY <1>15, <2>1
<1>19. \A c \in hit : position(c) # 1 =>
          position(c) - 1 \in 1 .. n /\ next'[c] = reported[position(c) - 1]
  <2> TAKE c \in hit
  <2> HAVE position(c) # 1
  <2>1. position(c) \in 1 .. n
    BY <1>11
  <2>2. position(c) - 1 \in 1 .. n
    BY <1>5, <2>1
  <2>3. next'[c] = reported[position(c) - 1]
    BY <1>4, <1>14
  <2> QED
    BY <2>2, <2>3
<1>20. \A c \in hit : /\ InUse(c) /\ conn[c].conn_fd = order[position(c)]
                      /\ Revents(order[position(c)]) # {}
                      /\ Revents(order[position(c)]) \in SUBSET Events
                      /\ Revents(order[position(c)]) \subseteq conn[c].events
                      /\ conn[c].conn_fd = sock_fd => backlog > 0
  <2> TAKE c \in hit
  <2>1. PICK i \in 1 .. n : i = position(c) /\ reported[i] = c
    BY <1>11
  <2> QED
    BY <1>9, <2>1
<1>21. Active = {}
  <2>1. Active \in SUBSET Conns
    BY SMTT(30), Zenon DEF Active
  <2> QED
    BY <1>15, <2>1, ListHead, SMTT(30), Zenon DEF IInv, ActiveListSound
<1>22. \A c \in Conns : conn[c] \in ConnRecord
  BY DEF IInv, TypeOK
<1>23. \A c \in hit : /\ conn'[c].active_events = Revents(order[position(c)])
                      /\ conn'[c].conn_fd = conn[c].conn_fd
                      /\ conn'[c].events = conn[c].events
                      /\ conn'[c].dead_events = conn[c].dead_events
                      /\ conn'[c].add_events = conn[c].add_events
                      /\ conn'[c].close = conn[c].close
                      /\ conn'[c].request = conn[c].request
                      /\ conn'[c].read_event_handler = conn[c].read_event_handler
                      /\ conn'[c] \in ConnRecord
  <2> TAKE c \in hit
  <2>1. PICK ev \in SUBSET Events : ev = Revents(order[position(c)])
    BY <1>20
  <2>2. conn'[c] = [conn[c] EXCEPT !.active_events = ev] /\ conn[c] \in ConnRecord
    BY <1>14, <1>17, <1>22, <2>1
  <2> QED
    BY <2>1, <2>2, SMTT(30), Zenon DEF ConnRecord
<1>24. Active' = hit /\ \A c \in Conns : InUse(c)' <=> InUse(c)
  <2>1. \A c \in hit : conn'[c].active_events # {}
    BY <1>20, <1>23
  <2>2. \A c \in Conns \ hit : conn'[c].active_events = {}
    BY <1>17, <1>21, SMTT(30), Zenon DEF Active
  <2> QED
    <3>1. \A c \in Conns : conn'[c].conn_fd = conn[c].conn_fd
      BY <1>17, <1>23
    <3>2. Active' = hit
      BY <1>14, <2>1, <2>2, SMTT(30), Zenon DEF Active
    <3> QED
      BY <3>1, <3>2 DEF InUse
<1>25. reported[n] \in hit /\ hit \subseteq Conns
  BY <1>5, <1>9, SMTT(30), Zenon DEF hit
<1>26. TypeOK'
  <2>1. conn' \in [Conns -> ConnRecord]
    <3>1. \A c \in Conns : conn'[c] \in ConnRecord
      BY <1>17, <1>22, <1>23
    <3> QED
      BY <1>16, <3>1
  <2>2. next' \in [Conns -> Conns \cup {NULL}]
    <3>1. \A c \in hit : next'[c] \in Conns \cup {NULL}
      BY <1>9, <1>18, <1>19
    <3>2. \A c \in Conns \ hit : next'[c] \in Conns \cup {NULL}
      BY <1>17 DEF IInv, TypeOK
    <3> QED
      BY <1>16, <3>1, <3>2, SMTT(30), Zenon
  <2> QED
    BY <1>4, <1>15, <1>25, <2>1, <2>2, SMTT(30), Zenon DEF IInv, TypeOK, kernel, memory
<1>27. CursorInv'
  BY <1>4, <1>15, <1>24, <1>25 DEF CursorInv
<1>28. SlotsInv'
  <2> SUFFICES ASSUME NEW c \in Conns PROVE SlotInv(c)'
    BY DEF SlotsInv
  <2>1. SlotInv(c) /\ Quiet(c)
    BY <1>15, SMTT(30), Zenon DEF IInv, SlotsInv, Quiet, Conns, NULL
  <2>2. CASE c \in hit
    <3>1. /\ InUse(c)' <=> InUse(c)
          /\ Client(c)' <=> Client(c)
      BY <1>23, <2>2 DEF InUse, Client
    <3> QED
      BY <1>20, <1>15, <1>23, <2>1, <2>2, <3>1, ZenonT(30) DEF SlotInv, kernel
  <2>3. CASE c \notin hit
    BY <1>17, <1>15, <2>1, <2>3, SameSlot, SMTT(30), Zenon DEF kernel
  <2> QED
    BY <2>2, <2>3
<1>29. EpollInv'
  <2>1. \A c \in Conns : conn'[c].conn_fd = conn[c].conn_fd
    BY <1>17, <1>23
  <2>2. \A fd \in Fds \cup {sock_fd} : epoll[fd].ptr \in Conns \cup {NULL}
    BY SMTT(30), Zenon DEF IInv, TypeOK, Interest
  <2> QED
    BY <1>15, <2>1, <2>2, SMTT(30), Zenon DEF IInv, EpollInv, kernel
<1>30. BacklogInv'
  BY <1>20, <1>15, <1>23, <1>24, SMTT(30), Zenon DEF BacklogInv, kernel
<1>31. FreeListSound'
  <2>1. Free' = Free /\ Free \in SUBSET Conns
    BY <1>24 DEF Free
  <2>2. \A c \in Free : next'[c] = next[c]
    BY <1>17, <1>20 DEF Free
  <2>3. IsList(next, Free, connection_pool)
    BY <1>15, SMTT(30), Zenon DEF IInv, FreeListSound
  <2>4. IsList(next', Free, connection_pool)
    BY <2>2, <2>3, SameList, SMTT(30), Zenon
  <2> QED
    BY <1>15, <2>1, <2>4 DEF FreeListSound
<1>32. ActiveListSound'
  <2> DEFINE pos == [c \in hit |-> position(c)]
  <2>1. pos \in [hit -> 1 .. Cardinality(hit)]
    BY <1>11, <1>13
  <2>2. \A c, d \in hit : pos[c] = pos[d] => c = d
    BY <1>11
  <2>3. pos[reported[n]] = Cardinality(hit)
    BY <1>5, <1>12, <1>13, <1>25, SMTT(30), Zenon
  <2>4. ASSUME NEW c \in hit
        PROVE  IF pos[c] = 1 THEN next'[c] = NULL
               ELSE next'[c] \in hit /\ pos[next'[c]] = pos[c] - 1
    <3>1. CASE position(c) = 1
      BY <1>18, <3>1
    <3>2. CASE position(c) # 1
      <4>1. position(c) - 1 \in 1 .. n /\ next'[c] = reported[position(c) - 1]
        BY <1>19, <3>2
      <4>2. next'[c] \in hit
        BY <4>1 DEF hit
      <4> QED
        BY <1>12, <3>2, <4>1, <4>2
    <3> QED
      BY <3>1, <3>2
  <2> HIDE DEF pos
  <2>5. IsList(next', hit, reported[n])
    BY <1>25, <2>1, <2>2, <2>3, <2>4, SMTT(30), Zenon DEF IsList
  <2> QED
    BY <1>4, <1>20, <1>24, <1>25, <2>5, SMTT(30), Zenon DEF ActiveListSound
<1> QED
  BY <1>26, <1>27, <1>28, <1>29, <1>30, <1>31, <1>32, SMTT(30), Zenon DEF IInv

(* Start-up: connection_pool_init links the slots 1, 2, ... in order and    *)
(* the listening socket takes the first of them.                            *)
LEMMA InitialFreeList ==
    ASSUME CountLaws, size > 0
    PROVE  /\ IsList([connection_pool_init EXCEPT ![1] = NULL], Conns \ {1},
                     connection_pool_init[1])
           /\ [connection_pool_init EXCEPT ![1] = NULL] \in [Conns -> Conns \cup {NULL}]
           /\ connection_pool_init[1] \in Conns \cup {NULL}
<1> DEFINE nx == [connection_pool_init EXCEPT ![1] = NULL]
           N == CONNECTIONS
           S == Conns \ {1}
           pos == [c \in S |-> N - c + 1]
<1>1. N \in Nat /\ N >= 2
  BY SizesAssumption DEF size
<1>2. 1 \in Conns /\ Conns = 1 .. N
  BY <1>1 DEF Conns
<1>3. S = 2 .. N
  BY <1>1, <1>2
<1>4. Cardinality(S) = N - 1
  <2> DEFINE f == [i \in 1 .. N - 1 |-> i + 1]
  <2>1. N - 1 \in Nat /\ S \in SUBSET Conns
    BY <1>1
  <2>2. \A c \in S : c - 1 \in 1 .. N - 1 /\ f[c - 1] = c
    BY <1>1, <1>3
  <2>3. f \in [1 .. N - 1 -> S]
    BY <1>1, <1>3
  <2>4. \A i, j \in 1 .. N - 1 : f[i] = f[j] => i = j
    BY <1>1
  <2>5. f \in Bijection(1 .. N - 1, S)
    BY <2>2, <2>3, <2>4, Zenon DEF Bijection, Injection, Surjection, IsInjective
  <2> HIDE DEF f, S, N
  <2> QED
    BY <2>1, <2>5, Zenon DEF CountLaws
<1>5. connection_pool_init[1] = 2 /\ 2 \in S
  BY <1>1, <1>2, <1>3 DEF connection_pool_init
<1>6. \A c \in S : nx[c] = IF c = N THEN NULL ELSE c + 1
  BY <1>2 DEF connection_pool_init
<1>7. pos \in [S -> 1 .. Cardinality(S)]
  BY <1>1, <1>3, <1>4
<1>8. \A c, d \in S : pos[c] = pos[d] => c = d
  BY <1>1, <1>3
<1>9. pos[2] = Cardinality(S)
  BY <1>1, <1>4, <1>5
<1>10. ASSUME NEW c \in S
       PROVE  IF pos[c] = 1 THEN nx[c] = NULL ELSE nx[c] \in S /\ pos[nx[c]] = pos[c] - 1
  <2>1. CASE c = N
    <3>1. pos[c] = 1
      BY <1>1, <2>1
    <3> QED
      BY <1>6, <2>1, <3>1
  <2>2. CASE c # N
    <3>1. pos[c] # 1 /\ c + 1 \in S /\ pos[c + 1] = pos[c] - 1
      BY <1>1, <1>3, <2>2
    <3> QED
      BY <1>6, <2>2, <3>1
  <2> QED
    BY <2>1, <2>2
<1>11. nx \in [Conns -> Conns \cup {NULL}]
  BY <1>1, <1>2 DEF connection_pool_init
<1> HIDE DEF pos, S, nx
<1>12. IsList(nx, S, 2)
  BY <1>5, <1>7, <1>8, <1>9, <1>10 DEF IsList
<1> QED
  BY <1>5, <1>11, <1>12 DEF S, nx

(* the record of the listening socket's connection *)
ListenConn == add_event(NewConn(sock_fd), {EV_READ_EVENT}, "tcp_server_accept")

LEMMA ListenConnFields ==
    LET r == ListenConn
    IN  /\ r \in ConnRecord
        /\ r.conn_fd = sock_fd /\ r.events = {EV_READ_EVENT} /\ r.active_events = {}
        /\ r.dead_events = {} /\ r.add_events = {} /\ ~r.close /\ r.request = "NULL"
        /\ r.read_event_handler = "tcp_server_accept"
  BY Zenon DEF ListenConn, add_event, NewConn, ConnRecord, Events, EV_READ_EVENT, EV_WRITE_EVENT

LEMMA InitNetworkIInv == CountLaws /\ IInv /\ init_network_mod => IInv'
<1> SUFFICES ASSUME CountLaws, IInv, init_network_mod PROVE IInv'
  OBVIOUS
<1>1. PICK r : r = ListenConn
  OBVIOUS
<1>2. /\ pc = "init" /\ pc' = "poll" /\ size > 0
      /\ connection_pool' = connection_pool_init[1]
      /\ next' = [connection_pool_init EXCEPT ![1] = NULL]
      /\ conn' = [conn EXCEPT ![1] = r]
      /\ epoll' = [epoll EXCEPT ![sock_fd] = Registered(1, r.events)]
      /\ pools' = pools + 1
      /\ UNCHANGED <<active_conn, active_conns, req, sock, backlog, leaked, failures>>
  BY <1>1 DEF init_network_mod, ListenConn
<1>3. /\ r \in ConnRecord
      /\ r.conn_fd = sock_fd /\ r.events = {EV_READ_EVENT} /\ r.active_events = {}
      /\ r.dead_events = {} /\ r.add_events = {} /\ ~r.close /\ r.request = "NULL"
      /\ r.read_event_handler = "tcp_server_accept"
  BY <1>1, ListenConnFields
<1>4. 1 \in Conns /\ NULL \notin Conns
  BY <1>2, SizesAssumption, SMTT(30), Zenon DEF Conns, NULL, size
<1>5. /\ active_conn = NULL /\ active_conns = NULL
      /\ \A c \in Conns : ~InUse(c) /\ conn[c] = FreeConn
  BY <1>2, SMTT(30), Zenon DEF IInv, CursorInv, SlotsInv, SlotInv
<1>6. \A c \in Conns : conn'[c] = IF c = 1 THEN r ELSE FreeConn
  BY <1>2, <1>5, SMTT(30), Zenon DEF IInv, TypeOK
<1>7. Free' = Conns \ {1} /\ Active' = {} /\ Active = {}
  BY <1>3, <1>4, <1>5, <1>6, SMTT(30), Zenon
  DEF Free, Active, InUse, FreeConn, NewConn, sock_fd, NO_FD
<1>8. \A fd \in Fds \cup {sock_fd} : epoll[fd].ptr = NULL /\ epoll[fd].events = {}
  <2> TAKE fd \in Fds \cup {sock_fd}
  <2>1. epoll[fd].ptr \in Conns \cup {NULL}
    BY SMTT(30), Zenon DEF IInv, TypeOK, Interest
  <2>2. epoll[fd].ptr \in Conns => conn[epoll[fd].ptr].conn_fd = NO_FD
    BY <1>5 DEF FreeConn, NewConn
  <2>3. fd # NO_FD
    BY SMTT(30), Zenon DEF Fds, sock_fd, NO_FD
  <2> QED
    BY <1>4, <2>1, <2>2, <2>3 DEF IInv, EpollInv
<1>9. /\ epoll' \in [Fds \cup {sock_fd} -> Interest]
      /\ epoll'[sock_fd].ptr = 1 /\ epoll'[sock_fd].events = {EV_READ_EVENT}
      /\ \A fd \in Fds : epoll'[fd] = epoll[fd]
  <2>1. Registered(1, r.events) = [ptr |-> 1, events |-> {EV_READ_EVENT}]
    BY <1>3 DEF Registered, EV_READ_EVENT, EV_WRITE_EVENT
  <2>2. Registered(1, r.events) \in Interest
    BY <1>4, <2>1 DEF Interest, Events
  <2>3. sock_fd \notin Fds
    BY DEF sock_fd, Fds
  <2> QED
    BY <1>2, <2>1, <2>2, <2>3, SMTT(30), Zenon DEF IInv, TypeOK
<1>10. /\ IsList(next', Conns \ {1}, connection_pool')
       /\ next' \in [Conns -> Conns \cup {NULL}]
       /\ connection_pool' \in Conns \cup {NULL}
  BY <1>2, InitialFreeList, SMTT(30), Zenon
<1>11. TypeOK'
  <2>1. conn \in [Conns -> ConnRecord]
    BY DEF IInv, TypeOK
  <2>2. conn' \in [Conns -> ConnRecord]
    <3>1. r \in ConnRecord /\ conn' = [conn EXCEPT ![1] = r]
      BY <1>2, <1>3
    <3> QED
      BY <2>1, <3>1, ZenonT(30)
  <2>3. pools' \in Int
    BY <1>2 DEF IInv, TypeOK
  <2> QED
    BY <1>2, <1>9, <1>10, <2>2, <2>3, SMTT(30), Zenon DEF IInv, TypeOK
<1>12. CursorInv'
  BY <1>2, <1>5 DEF CursorInv
<1>13. SlotsInv'
  <2> SUFFICES ASSUME NEW c \in Conns PROVE SlotInv(c)'
    BY SMTT(30), Zenon DEF SlotsInv
  <2>1. CASE c = 1
    <3>1. conn'[c] = r
      BY <1>6, <2>1
    <3>2. InUse(c)' /\ ~Client(c)'
      BY <1>3, <3>1, SMTT(30), Zenon DEF InUse, Client, sock_fd, NO_FD
    <3> QED
      BY <1>3, <1>9, <2>1, <3>1, <3>2, SMTT(30), Zenon DEF SlotInv
  <2>2. CASE c # 1
    <3>1. conn'[c] = FreeConn /\ FreeConn.conn_fd = NO_FD /\ NO_FD # sock_fd
      BY <1>6, <2>2 DEF FreeConn, NewConn, sock_fd, NO_FD
    <3>2. ~InUse(c)' /\ ~Client(c)'
      BY <3>1, SMTT(30), Zenon DEF InUse, Client
    <3>3. FreeConn.dead_events = {} /\ FreeConn.add_events = {} /\ ~FreeConn.close
      BY SMTT(30), Zenon DEF FreeConn, NewConn
    <3> QED
      BY <3>1, <3>2, <3>3, SMTT(30), Zenon DEF SlotInv
  <2> QED
    BY <2>1, <2>2, SMTT(30), Zenon
<1>14. EpollInv'
  <2>1. \A fd \in Fds : ~sock[fd].open
    BY <1>8 DEF IInv, EpollInv
  <2> QED
    BY <1>2, <1>3, <1>4, <1>6, <1>8, <1>9, <2>1, SMTT(30), Zenon DEF EpollInv
<1>15. BacklogInv'
  BY <1>7 DEF BacklogInv
<1>16. FreeListSound'
  BY <1>7, <1>10, SMTT(30), Zenon DEF FreeListSound
<1>17. ActiveListSound'
  BY <1>2, <1>5, <1>7, EmptyList, SMTT(30), Zenon DEF ActiveListSound
<1> QED
  BY <1>11, <1>12, <1>13, <1>14, <1>15, <1>16, <1>17 DEF IInv

LEMMA BacklogType == IInv => backlog \in Int /\ backlog >= backlog
  BY DEF IInv, TypeOK

(* What the clients do leaves the server's state alone. *)
LEMMA PeerIInv ==
    ASSUME IInv, NEW fd \in Fds, NEW s \in SockRecord, s.open, Peer(fd, s)
    PROVE  IInv'
<1>1. /\ UNCHANGED <<pc, active_conn, active_conns, connection_pool, next, conn, req>>
      /\ UNCHANGED <<epoll, backlog, pools, leaked, failures>>
      /\ sock[fd].open /\ sock' = [sock EXCEPT ![fd] = s]
  BY DEF Peer, loop, server, memory
<1>2. sock' \in [Fds -> SockRecord]
  BY <1>1 DEF IInv, TypeOK
<1>3. \A g \in Fds : sock'[g].open = sock[g].open
  BY <1>1, SMTT(30), Zenon DEF IInv, TypeOK, SockRecord
<1>4. TypeOK'
  BY <1>1, <1>2 DEF IInv, TypeOK
<1> QED
  BY <1>1, <1>3, <1>4, BacklogType, SameServerIInv

LEMMA ClientsIInv == IInv /\ Clients => IInv'
<1> SUFFICES ASSUME IInv, Clients PROVE IInv'
  OBVIOUS
<1>1. CASE ClientConnects
  <2>1. /\ UNCHANGED <<pc, active_conn, active_conns, connection_pool, next, conn, req>>
        /\ UNCHANGED <<epoll, sock, pools, leaked, failures>>
        /\ backlog < MAX_BACKLOG /\ backlog' = backlog + 1
    BY <1>1 DEF ClientConnects, loop, server, memory
  <2>2. backlog' \in 0 .. MAX_BACKLOG /\ backlog' > 0
    BY <2>1, SizesAssumption, SMTT(30), Zenon DEF IInv, TypeOK
  <2>3. TypeOK'
    BY <2>1, <2>2 DEF IInv, TypeOK
  <2> QED
    BY <2>1, <2>3, BacklogType, SameServerIInv
<1>2. ASSUME NEW fd \in Fds,
             ClientSends(fd) \/ ClientReceives(fd) \/ ClientCloses(fd) \/ ClientResets(fd)
      PROVE  IInv'
  <2>1. sock[fd] \in SockRecord
    BY DEF IInv, TypeOK
  <2>2. sock[fd].open
    BY <1>2 DEF ClientSends, ClientReceives, ClientCloses, ClientResets, Peer
  <2>3. \E s \in SockRecord : s.open /\ Peer(fd, s)
    <3>1. CASE ClientSends(fd)
      <4> DEFINE s == [sock[fd] EXCEPT !.rx = @ + 1]
      <4>1. s \in SockRecord /\ s.open
        BY <2>1, <2>2 DEF SockRecord
      <4>2. Peer(fd, s)
        BY <3>1, SMTT(30), Zenon DEF ClientSends
      <4> HIDE DEF s
      <4> QED
        BY <4>1, <4>2
    <3>2. CASE ClientReceives(fd)
      <4> DEFINE s == [sock[fd] EXCEPT !.tx = @ + 1]
      <4>1. s \in SockRecord /\ s.open
        BY <2>1, <2>2 DEF SockRecord
      <4>2. Peer(fd, s)
        BY <3>2 DEF ClientReceives
      <4> HIDE DEF s
      <4> QED
        BY <4>1, <4>2
    <3>3. CASE ClientCloses(fd)
      <4> DEFINE s == [sock[fd] EXCEPT !.peer = "eof"]
      <4>1. s \in SockRecord /\ s.open
        BY <2>1, <2>2 DEF SockRecord
      <4>2. Peer(fd, s)
        BY <3>3 DEF ClientCloses
      <4> HIDE DEF s
      <4> QED
        BY <4>1, <4>2
    <3>4. CASE ClientResets(fd)
      <4> DEFINE s == [sock[fd] EXCEPT !.peer = "reset"]
      <4>1. s \in SockRecord /\ s.open
        BY <2>1, <2>2 DEF SockRecord
      <4>2. Peer(fd, s)
        BY <3>4 DEF ClientResets
      <4> HIDE DEF s
      <4> QED
        BY <4>1, <4>2
    <3> QED
      BY <1>2, <3>1, <3>2, <3>3, <3>4
  <2> QED
    BY <2>3, PeerIInv
<1> QED
  BY <1>1, <1>2 DEF Clients

(* a start that failed, and steps that change nothing *)
LEMMA SameStateIInv ==
    ASSUME IInv, pc' = pc \/ (pc = "init" /\ pc' = "exit"),
           UNCHANGED <<active_conn, active_conns, server, kernel, memory>>
    PROVE  IInv'
<1>1. /\ UNCHANGED <<active_conn, active_conns, connection_pool, next, conn, req>>
      /\ UNCHANGED <<epoll, sock, backlog, pools, leaked, failures>>
  BY SMTT(30), Zenon DEF server, kernel, memory
<1>2. TypeOK'
  BY <1>1 DEF IInv, TypeOK
<1> QED
  BY <1>1, <1>2, BacklogType, SameServerIInv, SMTT(30), Zenon

(* IInv is inductive: one step per action. *)
LEMMA NextIInv == CountLaws /\ IInv /\ [Next]_vars => IInv'
<1> SUFFICES ASSUME CountLaws, IInv, [Next]_vars PROVE IInv'
  OBVIOUS
<1>1. CASE UNCHANGED vars \/ Ended
  BY <1>1, SameStateIInv DEF Ended, vars, loop, server, kernel, memory
<1>2. CASE InitNetworkFails
  BY <1>2, SameStateIInv DEF InitNetworkFails
<1>3. CASE init_network_mod
  BY <1>3, InitNetworkIInv
<1>4. CASE Loop
  <2>1. CASE epoll_polling
    BY <2>1, PollIInv
  <2>2. CASE tcp_server_accept
    BY <2>2, AcceptIInv
  <2>3. CASE tcp_server_recv
    BY <2>3, RecvIInv
  <2>4. CASE WriteEvent
    BY <2>4, WriteIInv
  <2>5. CASE NoReadEvent \/ NullHandlerCalled \/ NoWriteEvent
    <3>1. /\ UNCHANGED <<active_conn, active_conns, connection_pool, next, conn, req>>
          /\ UNCHANGED <<epoll, sock, backlog, pools, leaked, failures>>
          /\ pc \in {"read", "write"} /\ pc' \in {"write", "clean", "crashed"}
      BY <2>5, SMTT(30), Zenon
         DEF NoReadEvent, NullHandlerCalled, NoWriteEvent, server, kernel, memory
    <3>2. /\ backlog' \in 0 .. MAX_BACKLOG /\ failures' \in 0 .. MAX_FAIL
          /\ pools' \in Int /\ leaked' \in Nat
      BY <3>1, SMTT(30), Zenon DEF IInv, TypeOK
    <3> QED
      BY <3>1, <3>2, IdleIInv, SMTT(30), Zenon
  <2>6. CASE CloseActive
    BY <2>6, CloseIInv
  <2>7. CASE KeepActive
    BY <2>7, KeepIInv
  <2> QED
    BY <1>4, <2>1, <2>2, <2>3, <2>4, <2>5, <2>6, <2>7, SMTT(30), Zenon DEF Loop
<1>5. CASE Clients
  BY <1>5, ClientsIInv
<1> QED
  BY <1>1, <1>2, <1>3, <1>4, <1>5 DEF Next

-----------------------------------------------------------------------------
(* TcpServer implements ConnTable, for every number of connections and     *)
(* descriptors: each step is a step of ConnTable or changes none of its    *)
(* variables.                                                              *)

(* ConnTable's variables, as TcpServer's state gives them *)
Slot == [c \in Conns |-> conn[c].conn_fd]

LEMMA SlotFd ==
    /\ \A c \in Conns : Slot[c] = conn[c].conn_fd
    /\ Slot \in [Conns -> {conn[c].conn_fd : c \in Conns}]
    /\ Table!Used = {c \in Conns : InUse(c)}
  BY DEF Slot, Table!Used, InUse

(* a step that changes neither a descriptor nor a reported event *)
LEMMA SameTable ==
    ASSUME \A c \in Conns : /\ conn'[c].conn_fd = conn[c].conn_fd
                            /\ conn'[c].active_events = conn[c].active_events
    PROVE  UNCHANGED Table!vars
<1>1. Slot' = Slot
  BY DEF Slot
<1>2. Active' = Active
  BY SMTT(30), Zenon DEF Active
<1> QED
  BY <1>1, <1>2 DEF Slot, Table!vars

LEMMA UpdateSameTable ==
    ASSUME IInv, active_conn \in Conns, NEW y, Handled(Context(active_conn), y), Update(y)
    PROVE  UNCHANGED Table!vars
<1>1. \A c \in Conns : conn'[c] = IF c = active_conn THEN y.c ELSE conn[c]
  BY SMTT(30), Zenon DEF Update, IInv, TypeOK
<1>2. /\ y.c.conn_fd = conn[active_conn].conn_fd
      /\ y.c.active_events = conn[active_conn].active_events
  BY DEF Handled, Context
<1> QED
  BY <1>1, <1>2, SameTable, SMTT(30), Zenon

LEMMA RecvSameTable == IInv /\ tcp_server_recv => UNCHANGED Table!vars
<1> SUFFICES ASSUME IInv, tcp_server_recv PROVE UNCHANGED Table!vars
  BY SMTT(30), Zenon
<1>1. CASE RequestInitFails
  BY <1>1, SameTable DEF RequestInitFails, server
<1>2. CASE RecvCloses \/ RecvAgain \/ RecvBytes
  <2>1. active_conn \in Conns /\ Client(active_conn)
    BY ReceivingClient, SMTT(30), Zenon DEF tcp_server_recv
  <2> QED
    BY <1>2, <2>1, RecvHandled, UpdateSameTable
<1> QED
  BY <1>1, <1>2 DEF tcp_server_recv

LEMMA WriteSameTable == IInv /\ WriteEvent => UNCHANGED Table!vars
<1> SUFFICES ASSUME IInv, WriteEvent PROVE UNCHANGED Table!vars
  OBVIOUS
<1>1. active_conn \in Conns /\ Client(active_conn)
  BY ActiveInUse DEF WriteEvent, SlotInv, Client, EV_READ_EVENT, EV_WRITE_EVENT
<1>2. Handled(Context(active_conn), tcp_server_send(Context(active_conn)))
  BY <1>1, ContextType, SendHandled
<1> QED
  BY <1>1, <1>2, UpdateSameTable, SMTT(30), Zenon DEF WriteEvent

(* epoll_wait: nothing of the last batch is left (CursorInv), and what is   *)
(* reported is in use.                                                      *)
LEMMA PollReportsTable == CountLaws /\ IInv /\ epoll_polling => Table!Report
<1> SUFFICES ASSUME CountLaws, IInv, epoll_polling PROVE Table!Report
  OBVIOUS
<1>1. /\ pc = "poll" /\ pc' = "read" /\ IInv'
  BY PollIInv DEF epoll_polling
<1>2. Active = {}
  <2>1. Active \in SUBSET Conns
    BY DEF Active
  <2> QED
    BY <1>1, <2>1, ListHead DEF IInv, ActiveListSound, CursorInv
<1>3. \A c \in Conns : conn'[c].conn_fd = conn[c].conn_fd
  <2> SUFFICES ASSUME NEW c \in Conns PROVE conn'[c].conn_fd = conn[c].conn_fd
    OBVIOUS
  <2>1. \E ev : conn'[c] = conn[c] \/ conn'[c] = [conn[c] EXCEPT !.active_events = ev]
    <3>1. PICK order, n : PushActive(order, n)
      BY DEF epoll_polling
    <3> DEFINE reported == [i \in 1 .. n |-> epoll[order[i]].ptr]
               position(d) == CHOOSE i \in 1 .. n : reported[i] = d
               hit == {reported[i] : i \in 1 .. n}
    <3>2. conn' = [d \in Conns |-> IF d \notin hit THEN conn[d]
                                   ELSE [conn[d] EXCEPT !.active_events =
                                             Revents(order[position(d)])]]
      BY <3>1, ZenonT(30) DEF PushActive
    <3> HIDE DEF reported, position, hit
    <3> QED
      BY <3>2, Zenon
  <2>2. conn[c] \in ConnRecord
    BY SMTT(30), Zenon DEF IInv, TypeOK
  <2> QED
    BY <2>1, <2>2 DEF ConnRecord
<1>4. Active' # {} /\ \A c \in Active' : c \in Conns /\ InUse(c)'
  BY <1>1 DEF IInv, CursorInv, ActiveListSound, Active
<1>5. Active' \in (SUBSET Table!Used) \ {{}}
  <2>1. \A c \in Active' : c \in Conns /\ InUse(c)
    BY <1>3, <1>4 DEF InUse
  <2>2. Active' \subseteq Table!Used
    BY <2>1, SlotFd
  <2> QED
    BY <1>4, <2>2
<1>6. Slot' = Slot
  BY <1>3 DEF Slot
<1> QED
  BY <1>2, <1>5, <1>6 DEF Table!Report, Slot

(* tcp_get_connection takes a slot that is not in use, and accept a         *)
(* descriptor that no connection has.                                       *)
LEMMA AcceptTable == IInv /\ tcp_server_accept => Table!Accept \/ UNCHANGED Table!vars
<1> SUFFICES ASSUME IInv, tcp_server_accept PROVE Table!Accept \/ UNCHANGED Table!vars
  OBVIOUS
<1>1. CASE AcceptFails \/ AcceptRefused
  BY <1>1, SameTable, SMTT(30), Zenon DEF AcceptFails, AcceptRefused, server
<1>2. active_conn \in Active /\ active_conn \in Conns /\ conn[active_conn].conn_fd = sock_fd
  BY ActiveInUse, ZenonT(30) DEF tcp_server_accept, Reading, SlotInv, Client
<1>3. ASSUME connection_pool # NULL
      PROVE  connection_pool \in Conns /\ conn[connection_pool] = FreeConn /\ ~InUse(connection_pool)
  <2>1. connection_pool \in Free
    BY <1>3, ListHead DEF tcp_server_accept, Reading, IInv, FreeListSound, Free
  <2> QED
    BY <2>1, ZenonT(30) DEF Free, IInv, SlotsInv, SlotInv
<1>4. CASE AcceptUndone
  <2>1. conn' = conn
    BY <1>3, <1>4, SMTT(30), Zenon DEF AcceptUndone, IInv, TypeOK
  <2> QED
    BY <2>1, SameTable, SMTT(30), Zenon
<1>5. CASE Accepted
  <2>1. PICK c : c = connection_pool
    OBVIOUS
  <2>2. PICK fd \in FreeFds : conn' = [conn EXCEPT ![c] = AcceptedConn(fd)]
    BY <1>5, <2>1, ZenonT(30) DEF Accepted, AcceptedConn
  <2>3. c \in Conns /\ conn[c] = FreeConn /\ ~InUse(c)
    BY <1>3, <1>5, <2>1 DEF Accepted
  <2>4. fd \in Fds /\ ~sock[fd].open
    BY SMTT(30), Zenon DEF FreeFds
  <2>5. AcceptedConn(fd).conn_fd = fd /\ AcceptedConn(fd).active_events = {}
    BY <2>4, AcceptedConnFields, SMTT(30), Zenon
  <2>6. conn'[c] = AcceptedConn(fd) /\ \A d \in Conns : d # c => conn'[d] = conn[d]
    BY <2>2, <2>3, SMTT(30), Zenon DEF IInv, TypeOK
  <2>7. c \notin Active
    BY <2>3, SMTT(30), Zenon DEF Active, FreeConn, NewConn
  <2>8. Active' = Active
    <3>1. \A d \in Conns : d \in Active' <=> d \in Active
      BY <2>5, <2>6, <2>7, SMTT(30), Zenon DEF Active
    <3> QED
      BY <3>1, SMTT(30), Zenon DEF Active
  <2>9. \A d \in Conns : conn[d].conn_fd # fd
    BY <2>4 DEF IInv, SlotsInv, SlotInv, Client, InUse, Fds, sock_fd, NO_FD
  <2>10. Slot' = [Slot EXCEPT ![c] = fd]
    BY <2>3, <2>5, <2>6, ZenonT(30) DEF Slot
  <2>11. c \in Conns \ (Table!Used \cup Active)
    BY <2>3, <2>7, SlotFd, SMTT(30), Zenon
  <2>12. \A d \in Conns : Slot[d] # fd
    BY <2>9 DEF Slot
  <2>13. \E d \in Active : Slot[d] = sock_fd
    BY <1>2 DEF Slot
  <2> QED
    BY <2>4, <2>8, <2>10, <2>11, <2>12, <2>13, SMTT(30), Zenon DEF Table!Accept, Slot
<1> QED
  BY <1>1, <1>4, <1>5 DEF tcp_server_accept

LEMMA CloseTable == IInv /\ CloseActive => \E c \in Conns : Table!Handled(c)
<1> SUFFICES ASSUME IInv, CloseActive PROVE \E c \in Conns : Table!Handled(c)
  BY SMTT(30), Zenon
<1>1. PICK a : a = active_conn
  OBVIOUS
<1>2. /\ a \in Conns /\ a \in Active /\ InUse(a) /\ conn[a].close /\ SlotInv(a)
      /\ conn[a] \in ConnRecord
  BY <1>1, ActiveInUse, SMTT(30), Zenon DEF CloseActive
<1>3. conn[a].conn_fd \in Fds
  BY <1>2, SMTT(30), ZenonT(30) DEF SlotInv, Client, InUse, ConnRecord
<1>4. conn'[a] = FreeConn /\ \A d \in Conns : d # a => conn'[d] = conn[d]
  BY <1>1, <1>2, SMTT(30), Zenon DEF CloseActive, IInv, TypeOK
<1>5. Active' = Active \ {a}
  <2>1. FreeConn.active_events = {}
    BY SMTT(30), Zenon DEF FreeConn, NewConn
  <2> QED
    BY <1>2, <1>4, <2>1, SMTT(30), ZenonT(30) DEF Active
<1>6. Slot' = [Slot EXCEPT ![a] = NO_FD]
  <2>1. FreeConn.conn_fd = NO_FD
    BY DEF FreeConn, NewConn
  <2> QED
    BY <1>2, <1>4, <2>1, ZenonT(30) DEF Slot
<1>7. Slot[a] \in Fds
  BY <1>2, <1>3, SMTT(30), Zenon DEF Slot
<1>8. Table!Handled(a)
  BY <1>2, <1>5, <1>6, <1>7, SMTT(30), Zenon DEF Table!Handled, Slot
<1> QED
  BY <1>2, <1>8

LEMMA KeepTable == IInv /\ KeepActive => \E c \in Conns : Table!Handled(c)
<1> SUFFICES ASSUME IInv, KeepActive PROVE \E c \in Conns : Table!Handled(c)
  OBVIOUS
<1>1. PICK a : a = active_conn
  OBVIOUS
<1>2. /\ a \in Conns /\ a \in Active /\ SlotInv(a) /\ conn[a] \in ConnRecord
  BY <1>1, ActiveInUse DEF KeepActive
<1>3. conn' = [conn EXCEPT ![a] = KeptConn(conn[a])]
  BY <1>1, ZenonT(30) DEF KeepActive, KeptConn
<1>4. KeptConn(conn[a]).conn_fd = conn[a].conn_fd /\ KeptConn(conn[a]).active_events = {}
  <2>1. EV_READ_EVENT \notin conn[a].add_events
    BY <1>2, SMTT(30), Zenon DEF SlotInv
  <2> QED
    BY <1>2, <2>1, KeptConnFields, SMTT(30), Zenon
<1>5. conn'[a] = KeptConn(conn[a]) /\ \A d \in Conns : d # a => conn'[d] = conn[d]
  BY <1>2, <1>3, SMTT(30), Zenon DEF IInv, TypeOK
<1>6. Active' = Active \ {a}
  BY <1>2, <1>4, <1>5, ZenonT(30) DEF Active
<1>7. Slot' = Slot
  <2>1. \A d \in Conns : conn'[d].conn_fd = conn[d].conn_fd
    BY <1>4, <1>5, SMTT(30), ZenonT(30)
  <2> QED
    BY <2>1, ZenonT(30) DEF Slot
<1>8. Table!Handled(a)
  BY <1>2, <1>6, <1>7 DEF Table!Handled, Slot
<1> QED
  BY <1>2, <1>8

LEMMA StartTable == IInv /\ init_network_mod => Table!Start
<1> SUFFICES ASSUME IInv, init_network_mod PROVE Table!Start
  BY SMTT(30), Zenon
<1>1. conn' = [conn EXCEPT ![1] = ListenConn]
  BY SMTT(30), Zenon DEF init_network_mod, ListenConn
<1>2. 1 \in Conns
  BY SizesAssumption, SMTT(30), Zenon DEF init_network_mod, Conns, size
<1>3. \A c \in Conns : ~InUse(c) /\ conn[c] = FreeConn
  BY DEF init_network_mod, IInv, CursorInv, SlotsInv, SlotInv
<1>4. conn'[1] = ListenConn /\ \A d \in Conns : d # 1 => conn'[d] = conn[d]
  BY <1>1, <1>2 DEF IInv, TypeOK
<1>5. ListenConn.conn_fd = sock_fd /\ ListenConn.active_events = {}
  BY ListenConnFields, SMTT(30), Zenon
<1>6. Active' = Active
  <2>0. FreeConn.active_events = {}
    BY DEF FreeConn, NewConn
  <2>1. conn[1].active_events = {}
    BY <1>2, <1>3, <2>0, Zenon
  <2>2. \A d \in Conns : conn'[d].active_events = conn[d].active_events
    BY <1>4, <1>5, <2>1, Zenon
  <2> QED
    BY <2>2, Zenon DEF Active
<1>7. Slot' = [Slot EXCEPT ![1] = sock_fd]
  BY <1>2, <1>4, <1>5, ZenonT(30) DEF Slot
<1>8. Table!Used = {}
  BY <1>3, SlotFd, SMTT(30), Zenon
<1> QED
  BY <1>2, <1>6, <1>7, <1>8, ZenonT(30) DEF Table!Start, Slot

LEMMA StepTable == CountLaws /\ IInv /\ [Next]_vars => [Table!Next]_(Table!vars)
<1> SUFFICES ASSUME CountLaws, IInv, [Next]_vars PROVE Table!Next \/ UNCHANGED Table!vars
  OBVIOUS
<1>1. CASE init_network_mod
  BY <1>1, StartTable, SMTT(30), Zenon DEF Table!Next
<1>2. CASE epoll_polling
  BY <1>2, PollReportsTable, SMTT(30), Zenon DEF Table!Next
<1>3. CASE tcp_server_accept
  BY <1>3, AcceptTable, SMTT(30), Zenon DEF Table!Next
<1>4. CASE tcp_server_recv
  BY <1>4, RecvSameTable, SMTT(30), Zenon
<1>5. CASE WriteEvent
  BY <1>5, WriteSameTable, SMTT(30), Zenon
<1>6. CASE CloseActive
  BY <1>6, CloseTable, SMTT(30), Zenon DEF Table!Next
<1>7. CASE KeepActive
  BY <1>7, KeepTable, SMTT(30), Zenon DEF Table!Next
<1>8. CASE InitNetworkFails \/ NoReadEvent \/ NullHandlerCalled \/ NoWriteEvent
  <2>1. conn' = conn
    BY <1>8, SMTT(30), Zenon
       DEF InitNetworkFails, NoReadEvent, NullHandlerCalled, NoWriteEvent, server
  <2> QED
    BY <2>1, SameTable, SMTT(30), Zenon
<1>9. CASE Clients
  <2>1. conn' = conn
    BY <1>9, SMTT(30), Zenon
       DEF Clients, ClientConnects, ClientSends, ClientReceives, ClientCloses, ClientResets,
                Peer, server
  <2> QED
    BY <2>1, SameTable, SMTT(30), Zenon
<1>10. CASE Ended \/ UNCHANGED vars
  <2>1. conn' = conn
    BY <1>10, SMTT(30), Zenon DEF Ended, vars, server
  <2> QED
    BY <2>1, SameTable, SMTT(30), Zenon
<1> QED
  BY <1>1, <1>2, <1>3, <1>4, <1>5, <1>6, <1>7, <1>8, <1>9, <1>10, SMTT(30), Zenon DEF Next, Loop

=============================================================================
