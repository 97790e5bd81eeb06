-------------------------- MODULE TcpServerProofs ---------------------------
(***************************************************************************)
(* Theorems about TcpServer, for every number of connections and           *)
(* descriptors and every buffer size: the inductive invariant and what     *)
(* follows from it for the lists, epoll and the descriptors; that          *)
(* TcpServer implements ConnTable; and, from a second inductive invariant  *)
(* on top of the first, what holds of requests, responses and memory       *)
(* pools.                                                                  *)
(***************************************************************************)
EXTENDS TcpServerStepProofs, FiniteSetTheorems

LEMMA SlotsFinite ==
    ASSUME NEW S \in SUBSET Conns
    PROVE  IsFiniteSet(S) /\ Cardinality(S) \in Nat
<1>1. IsFiniteSet(Conns)
  BY SizesAssumption, FS_Interval DEF Conns
<1>2. IsFiniteSet(S)
  BY <1>1, FS_Subset
<1> QED
  BY <1>2, FS_CardinalityType

LEMMA CountLawsHold == CountLaws
<1>1. Cardinality({}) = 0
  BY FS_EmptySet
<1>2. ASSUME NEW S \in SUBSET Conns
      PROVE  /\ Cardinality(S) \in Nat /\ (Cardinality(S) = 0 => S = {})
             /\ \A c \in Conns \ S : Cardinality(S \cup {c}) = Cardinality(S) + 1
             /\ \A c \in S : Cardinality(S \ {c}) = Cardinality(S) - 1
             /\ \A n \in Nat : Bijection(1 .. n, S) # {} => Cardinality(S) = n
  <2>1. IsFiniteSet(S) /\ Cardinality(S) \in Nat
    BY SlotsFinite
  <2>2. Cardinality(S) = 0 => S = {}
    BY <2>1, FS_EmptySet
  <2>3. \A c \in Conns \ S : Cardinality(S \cup {c}) = Cardinality(S) + 1
    BY <2>1, FS_AddElement, Zenon
  <2>4. \A c \in S : Cardinality(S \ {c}) = Cardinality(S) - 1
    BY <2>1, FS_RemoveElement, Zenon
  <2>5. ASSUME NEW n \in Nat, Bijection(1 .. n, S) # {}
        PROVE  Cardinality(S) = n
    <3>1. IsFiniteSet(1 .. n) /\ Cardinality(1 .. n) = n
      BY FS_Interval
    <3>2. ExistsBijection(1 .. n, S)
      BY <2>5, Zenon DEF ExistsBijection
    <3> QED
      BY <3>1, <3>2, FS_Bijection, Zenon
  <2> QED
    BY <2>1, <2>2, <2>3, <2>4, <2>5, ZenonT(30)
<1>3. ASSUME NEW S \in SUBSET (Fds \cup {sock_fd})
      PROVE  Cardinality(S) \in Nat /\ (Cardinality(S) = 0 => S = {})
  <2>1. IsFiniteSet(Fds)
    BY SizesAssumption, FS_Interval DEF Fds
  <2>2. IsFiniteSet(Fds \cup {sock_fd})
    BY <2>1, FS_AddElement
  <2>3. IsFiniteSet(S)
    BY <2>2, FS_Subset
  <2> QED
    BY <2>3, FS_CardinalityType, FS_EmptySet, SMTT(30), Zenon
<1> QED
  BY <1>1, <1>2, <1>3, Zenon DEF CountLaws

-----------------------------------------------------------------------------
(* The inductive invariant holds in every reachable state: every handler   *)
(* of the event loop, every step of a client and every failure of a system *)
(* call keeps it.                                                          *)
THEOREM Invariance == Spec => []IInv
<1>1. Init => IInv
  BY InitIInv, CountLawsHold
<1>2. IInv /\ [Next]_vars => IInv'
  BY NextIInv, CountLawsHold
<1> QED
  BY <1>1, <1>2, PTL DEF Spec

-----------------------------------------------------------------------------
(* What follows for the server, whatever the number of connections and     *)
(* descriptors, the sizes and the bounds are.                              *)

(* Every pointer, field and counter keeps its type in every reachable      *)
(* state of the event loop.                                                *)
THEOREM TypeCorrect == Spec => []TypeOK
<1>1. IInv => TypeOK
  BY SMTT(30), Zenon DEF IInv
<1> QED
  BY <1>1, Invariance, PTL

(* The free list always holds exactly the slots that are not in use, once  *)
(* each: tcp_get_connection and tcp_free_connection neither lose a slot    *)
(* nor hand one out twice.                                                 *)
THEOREM FreeListCorrect == Spec => []FreeListSound
<1>1. IInv => FreeListSound
  BY SMTT(30), Zenon DEF IInv
<1> QED
  BY <1>1, Invariance, PTL

(* process_events' walk over the active list meets every reported          *)
(* connection exactly once although handlers take slots from, and closing  *)
(* returns them to, a free list that uses the same next field.             *)
THEOREM ActiveListCorrect == Spec => []ActiveListSound
<1>1. IInv => ActiveListSound
  BY SMTT(30), Zenon DEF IInv
<1> QED
  BY <1>1, Invariance, PTL

(* epoll's registrations and the connections' events agree, so an event is *)
(* only ever delivered to the connection that owns the descriptor.         *)
THEOREM EpollCorrect == Spec => []EpollMirrorsConns
<1>1. IInv => EpollMirrorsConns
  <2> SUFFICES ASSUME IInv PROVE EpollMirrorsConns
    OBVIOUS
  <2>1. ASSUME NEW c \in Conns, InUse(c)
        PROVE  /\ epoll[conn[c].conn_fd] = [ptr |-> c, events |-> conn[c].events]
               /\ EV_READ_EVENT \in conn[c].events
    <3>1. conn[c].conn_fd \in Fds \cup {sock_fd}
      BY <2>1, FdType
    <3>2. epoll[conn[c].conn_fd] \in Interest
      BY <3>1 DEF IInv, TypeOK
    <3>3. SlotInv(c)
      BY SlotOf, Zenon
    <3>4. /\ epoll[conn[c].conn_fd].ptr = c /\ epoll[conn[c].conn_fd].events = conn[c].events
          /\ EV_READ_EVENT \in conn[c].events
      BY <2>1, <3>3, ZenonT(30) DEF SlotInv
    <3> QED
      BY <3>2, <3>4 DEF Interest
  <2> QED
    BY <2>1, Zenon DEF EpollMirrorsConns, IInv, EpollInv
<1> QED
  BY <1>1, Invariance, PTL

(* Every open client socket has exactly one connection and every           *)
(* connection has an open socket: no error path of tcp_server_accept and   *)
(* no close in process_events leaks a descriptor or closes one twice.      *)
THEOREM DescriptorsCorrect == Spec => []DescriptorsOwned
<1>1. IInv => DescriptorsOwned
  <2> SUFFICES ASSUME IInv, NEW fd \in Fds
               PROVE  Cardinality({c \in Conns : conn[c].conn_fd = fd})
                        = (IF sock[fd].open THEN 1 ELSE 0)
    BY DEF DescriptorsOwned
  <2> DEFINE Owners == {c \in Conns : conn[c].conn_fd = fd}
  <2>1. fd # NO_FD /\ fd # sock_fd
    BY SMTT(30), Zenon DEF Fds, NO_FD, sock_fd
  <2>2. \A c \in Owners : sock[fd].open /\ epoll[fd].ptr = c
    <3> TAKE c \in Owners
    <3>1. InUse(c) /\ Client(c) /\ SlotInv(c)
      BY <2>1, SlotOf DEF Client, InUse
    <3> QED
      BY <3>1 DEF SlotInv
  <2>3. CASE sock[fd].open
    <3>1. epoll[fd].ptr \in Owners
      BY <2>3 DEF IInv, EpollInv, TypeOK, Interest
    <3>2. Owners = {epoll[fd].ptr}
      BY <2>2, <3>1
    <3> HIDE DEF Owners
    <3>3. Cardinality(Owners) = 1
      BY <3>2, FS_Singleton, Zenon
    <3> QED
      BY <2>3, <3>3 DEF Owners
  <2>4. CASE ~sock[fd].open
    <3>1. Owners = {}
      BY <2>2, <2>4
    <3> HIDE DEF Owners
    <3>2. Cardinality(Owners) = 0
      BY <3>1, FS_EmptySet
    <3>3. (IF sock[fd].open THEN 1 ELSE 0) = 0
      BY <2>4
    <3> QED
      BY <3>2, <3>3, ZenonT(30) DEF Owners
  <2> QED
    BY <2>3, <2>4
<1> QED
  BY <1>1, Invariance, PTL

(* The event loop over intrusive lists and a reused array of connections   *)
(* implements ConnTable: process_events handles every connection that      *)
(* epoll_wait reported exactly once, also when handlers close connections  *)
(* and hand slots and descriptors out again within the batch.              *)
THEOREM Refinement == Spec => TableImplemented
<1>1. Init => Table!Init
  BY DEF Init, Table!Init, Active, FreeConn, NewConn
<1>2. IInv /\ [Next]_vars => [Table!Next]_(Table!vars)
  BY StepTable, CountLawsHold
<1>3. Spec => []IInv
  BY Invariance
<1> QED
  BY <1>1, <1>2, <1>3, PTL DEF Spec, TableImplemented, Table!Spec

-----------------------------------------------------------------------------
(* Requests, responses and memory pools: the second inductive invariant    *)
(* says of every connection at every point of process_events which events  *)
(* will be registered when the loop waits.                                 *)

(* what the end of the loop body will register *)
Watched(k) == (k.events \ k.dead_events) \cup k.add_events

(* A connection k with the request r, whose socket shows its peer: unsent  *)
(* bytes are watched, and so is a request that has filled its buffer,      *)
(* unless its response is out; the write handler is set exactly while      *)
(* writing is registered; and only a full request is closed on a client    *)
(* that is still there.                                                    *)
ReqOK(k, r, peer) ==
    /\ k.request = "NULL" => r = NoReq
    /\ ~k.close =>
          /\ k.write_event_handler = "tcp_server_send"
                <=> EV_WRITE_EVENT \in k.events \ k.dead_events
          /\ r.pend > 0 => EV_WRITE_EVENT \in Watched(k)
          /\ k.request = "live" /\ r.room = 0 =>
                r.finish \/ EV_WRITE_EVENT \in Watched(k)
    /\ k.close /\ peer = "up" =>
          /\ k.request = "live" /\ r.room = 0
          /\ r.finish \/ EV_WRITE_EVENT \in k.events

SlotReq(c) ==
    /\ ~Client(c) => /\ conn[c].request = "NULL" /\ req[c] = NoReq
                     /\ conn[c].write_event_handler = "NULL"
    /\ Client(c) => ReqOK(conn[c], req[c], sock[conn[c].conn_fd].peer)

ReqInv == \A c \in Conns : SlotReq(c)

ContextOK(x) == ReqOK(x.c, x.r, x.s.peer)

(* a context in which tcp_server_recv may run the parser *)
Fresh(x) ==
    /\ x.c.request = "live" /\ ~x.c.close
    /\ x.c.dead_events = {} /\ x.c.add_events = {}
    /\ x.c.write_event_handler = "tcp_server_send" <=> EV_WRITE_EVENT \in x.c.events

-----------------------------------------------------------------------------
(* The handlers. *)

(* the three ways out of the write loop *)
LEMMA BrokenFields ==
    ASSUME NEW x \in ContextRecord, x.c.request # "NULL", x.s.peer = "reset"
    PROVE  LET y == tcp_server_send(x)
           IN  /\ y.c.close /\ y.c.request = x.c.request
               /\ y.r.finish /\ y.s = x.s
  BY Zenon DEF tcp_server_send, CloseConn, ContextRecord, ConnRecord, ReqRecord

LEMMA BlocksFields ==
    ASSUME NEW x \in ContextRecord, x.c.request # "NULL", x.s.peer # "reset", x.r.pend > x.s.tx
    PROVE  LET y == tcp_server_send(x)
           IN  /\ y.c.close = x.c.close /\ y.c.request = x.c.request
               /\ y.c.events = x.c.events /\ y.c.dead_events = x.c.dead_events
               /\ y.c.add_events = {EV_WRITE_EVENT}
               /\ y.c.write_event_handler = x.c.write_event_handler
               /\ y.r.finish = x.r.finish /\ y.r.room = x.r.room
               /\ y.s.peer = x.s.peer /\ y.s.lost = x.s.lost
<1>1. tcp_server_send(x) = SendBlocks(x)
  BY DEF tcp_server_send
<1> QED
  BY <1>1 DEF SendBlocks, ContextRecord, ConnRecord, ReqRecord, SockRecord

LEMMA CompletesFields ==
    ASSUME NEW x \in ContextRecord, x.c.request # "NULL", x.s.peer # "reset",
           ~ (x.r.pend > x.s.tx)
    PROVE  LET y == tcp_server_send(x)
           IN  /\ y.c.close = x.c.close /\ y.c.request = x.c.request
               /\ y.c.events = x.c.events /\ y.c.add_events = x.c.add_events
               /\ IF EV_WRITE_EVENT \in x.c.events
                  THEN /\ y.c.dead_events = {EV_WRITE_EVENT}
                       /\ y.c.write_event_handler = "NULL"
                  ELSE /\ y.c.dead_events = x.c.dead_events
                       /\ y.c.write_event_handler = x.c.write_event_handler
               /\ y.r.finish /\ y.r.room = x.r.room /\ y.r.pend = 0
               /\ y.s.peer = x.s.peer /\ y.s.lost = x.s.lost
<1>1. tcp_server_send(x) = SendCompletes(x)
  BY DEF tcp_server_send
<1> DEFINE y == SendCompletes(x)
<1>2. /\ y.c.close = x.c.close /\ y.c.request = x.c.request
      /\ y.c.events = x.c.events /\ y.c.add_events = x.c.add_events
      /\ IF EV_WRITE_EVENT \in x.c.events
         THEN y.c.dead_events = {EV_WRITE_EVENT} /\ y.c.write_event_handler = "NULL"
         ELSE /\ y.c.dead_events = x.c.dead_events
              /\ y.c.write_event_handler = x.c.write_event_handler
  BY DEF SendCompletes, ContextRecord, ConnRecord
<1>3. y.r.finish /\ y.r.room = x.r.room /\ y.r.pend = 0
  BY Zenon DEF SendCompletes, ContextRecord, ReqRecord
<1>4. y.s.peer = x.s.peer /\ y.s.lost = x.s.lost
  BY DEF SendCompletes, ContextRecord, SockRecord
<1> QED
  BY <1>1, <1>2, <1>3, <1>4, SMTT(30), Zenon

LEMMA SendReqOK ==
    ASSUME NEW x \in ContextRecord, ContextOK(x)
    PROVE  ContextOK(tcp_server_send(x)) /\ tcp_server_send(x).s.lost = x.s.lost
<1> DEFINE y == tcp_server_send(x)
<1> SUFFICES ContextOK(y) /\ y.s.lost = x.s.lost
  OBVIOUS
<1>1. CASE x.c.request = "NULL"
  BY <1>1 DEF tcp_server_send
<1>2. CASE x.c.request # "NULL" /\ x.s.peer = "reset"
  <2>1. y.c.close /\ y.c.request = x.c.request /\ y.s = x.s
    BY <1>2, BrokenFields
  <2> QED
    BY <1>2, <2>1 DEF ContextOK, ReqOK
<1>3. CASE x.c.request # "NULL" /\ x.s.peer # "reset" /\ x.r.pend > x.s.tx
  <2>1. /\ y.c.close = x.c.close /\ y.c.request = x.c.request
        /\ y.c.events = x.c.events /\ y.c.dead_events = x.c.dead_events
        /\ y.c.add_events = {EV_WRITE_EVENT}
        /\ y.c.write_event_handler = x.c.write_event_handler
        /\ y.r.finish = x.r.finish /\ y.r.room = x.r.room
        /\ y.s.peer = x.s.peer /\ y.s.lost = x.s.lost
    BY <1>3, BlocksFields, SMTT(30), Zenon
  <2> HIDE DEF y
  <2> QED
    BY <1>3, <2>1, ZenonT(30) DEF ContextOK, ReqOK, Watched
<1>4. CASE x.c.request # "NULL" /\ x.s.peer # "reset" /\ ~ (x.r.pend > x.s.tx)
  <2>1. /\ y.c.close = x.c.close /\ y.c.request = x.c.request
        /\ y.c.events = x.c.events
        /\ IF EV_WRITE_EVENT \in x.c.events
           THEN /\ y.c.dead_events = {EV_WRITE_EVENT}
                /\ y.c.write_event_handler = "NULL"
           ELSE /\ y.c.dead_events = x.c.dead_events
                /\ y.c.write_event_handler = x.c.write_event_handler
        /\ y.r.finish /\ y.r.room = x.r.room /\ y.r.pend = 0
        /\ y.s.peer = x.s.peer /\ y.s.lost = x.s.lost
    BY <1>4, CompletesFields, SMTT(30), Zenon
  <2> HIDE DEF y
  <2>2. ~ (y.r.pend > 0)
    BY <2>1, SMTT(30), Zenon
  <2>3. ~y.c.close => (y.c.write_event_handler = "tcp_server_send"
                         <=> EV_WRITE_EVENT \in y.c.events \ y.c.dead_events)
    BY <2>1, SMTT(30), Zenon DEF ContextOK, ReqOK
  <2>4. y.c.close /\ y.s.peer = "up" => y.c.request = "live" /\ y.r.room = 0
    BY <2>1, SMTT(30), Zenon DEF ContextOK, ReqOK
  <2> QED
    BY <1>4, <2>1, <2>2, <2>3, <2>4, SMTT(30), Zenon DEF ContextOK, ReqOK
<1> QED
  BY <1>1, <1>2, <1>3, <1>4, SMTT(30), Zenon

LEMMA FinishReqOK ==
    ASSUME NEW x \in ContextRecord, Fresh(x)
    PROVE  LET z == tcp_request_finish(x)
           IN  /\ ContextOK(z)
               /\ z.s.lost /\ ~x.s.lost => x.r.finish
<1> DEFINE g == [x EXCEPT !.r = tcp_respone_generate(x.r)]
           y == tcp_server_send(g)
           z == tcp_request_finish(x)
           k == [y.c EXCEPT !.request = "NULL"]
           s == [y.s EXCEPT !.lost = @ \/ (y.r.pend > 0 /\ ~y.c.close)]
<1> SUFFICES ContextOK(z) /\ (z.s.lost /\ ~x.s.lost => x.r.finish)
  OBVIOUS
<1>1. /\ g \in ContextRecord /\ g.c = x.c /\ g.s = x.s
      /\ g.r.finish = x.r.finish
  BY GenerateType DEF ContextRecord, tcp_respone_generate, ReqRecord
<1>2. y \in ContextRecord
  BY <1>1, SendHandled DEF Handled
<1>3. z = IF y.r.finish THEN [c |-> k, r |-> NoReq, s |-> s] ELSE y
  BY Zenon DEF tcp_request_finish
<1> HIDE DEF g
<1>4. /\ k.request = "NULL" /\ k.close = y.c.close /\ k.events = y.c.events
      /\ k.dead_events = y.c.dead_events /\ k.add_events = y.c.add_events
      /\ k.write_event_handler = y.c.write_event_handler
      /\ s.peer = y.s.peer
      /\ s.lost = (y.s.lost \/ (y.r.pend > 0 /\ ~y.c.close))
  <2> HIDE DEF y
  <2> QED
    BY <1>2, Zenon DEF ContextRecord, ConnRecord, SockRecord
<1>5. /\ x.c.request = "live" /\ ~x.c.close
      /\ x.c.dead_events = {} /\ x.c.add_events = {}
      /\ x.c.write_event_handler = "tcp_server_send" <=> EV_WRITE_EVENT \in x.c.events
  BY DEF Fresh
<1>6. NoReq.pend = 0 /\ ~ (NoReq.pend > 0)
  BY DEF NoReq, NewReq
<1>7. CASE x.s.peer = "reset"
  <2>1. y.c.close /\ y.r.finish /\ y.s = x.s
    BY <1>1, <1>5, <1>7, BrokenFields, SMTT(30), Zenon
  <2> HIDE DEF y, k, s
  <2>2. z.c = k /\ z.r = NoReq /\ z.s = s
    BY <1>3, <2>1
  <2>3. ContextOK(z)
    BY <1>4, <1>7, <2>1, <2>2, ZenonT(30) DEF ContextOK, ReqOK
  <2> QED
    BY <1>4, <2>1, <2>2, <2>3, ZenonT(30)
<1>8. CASE x.s.peer # "reset" /\ g.r.pend > g.s.tx
  <2>1. /\ ~y.c.close /\ y.c.request = "live"
        /\ y.c.events = x.c.events /\ y.c.dead_events = {}
        /\ y.c.add_events = {EV_WRITE_EVENT}
        /\ y.c.write_event_handler = x.c.write_event_handler
        /\ y.r.finish = x.r.finish /\ y.s.lost = x.s.lost
    BY <1>1, <1>5, <1>8, BlocksFields, SMTT(30), Zenon
  <2> HIDE DEF y, k, s, z
  <2>2. ContextOK(y)
    BY <1>5, <2>1, SMTT(30), Zenon DEF ContextOK, ReqOK, Watched
  <2>3. CASE ~y.r.finish
    BY <1>3, <2>1, <2>2, <2>3, SMTT(30), Zenon
  <2>4. CASE y.r.finish
    <3>1. z.c = k /\ z.r = NoReq /\ z.s = s
      BY <1>3, <2>4, SMTT(30), Zenon
    <3>2. ContextOK(z)
      BY <1>4, <1>5, <1>6, <2>1, <3>1, SMTT(30), Zenon DEF ContextOK, ReqOK
    <3> QED
      BY <2>1, <2>4, <3>2, SMTT(30), Zenon
  <2> QED
    BY <2>3, <2>4, SMTT(30), Zenon
<1>9. CASE x.s.peer # "reset" /\ ~ (g.r.pend > g.s.tx)
  <2>1. /\ ~y.c.close /\ y.c.events = x.c.events
        /\ IF EV_WRITE_EVENT \in x.c.events
           THEN /\ y.c.dead_events = {EV_WRITE_EVENT}
                /\ y.c.write_event_handler = "NULL"
           ELSE /\ y.c.dead_events = {}
                /\ y.c.write_event_handler = x.c.write_event_handler
        /\ y.r.finish /\ y.r.pend = 0 /\ y.s.lost = x.s.lost
    BY <1>1, <1>5, <1>9, CompletesFields, SMTT(30), Zenon
  <2> HIDE DEF y, k, s, z
  <2>2. z.c = k /\ z.r = NoReq /\ z.s = s
    BY <1>3, <2>1, SMTT(30), Zenon
  <2>3. k.write_event_handler = "tcp_server_send"
          <=> EV_WRITE_EVENT \in k.events \ k.dead_events
    BY <1>4, <1>5, <2>1, SMTT(30), Zenon
  <2>4. ContextOK(z)
    BY <1>4, <1>6, <2>1, <2>2, <2>3, SMTT(30), Zenon DEF ContextOK, ReqOK
  <2>5. ~ (y.r.pend > 0)
    BY <2>1, SMTT(30), Zenon
  <2> QED
    BY <1>4, <2>1, <2>2, <2>4, <2>5, ZenonT(30)
<1> QED
  BY <1>7, <1>8, <1>9, SMTT(30), Zenon

LEMMA ProcessReqOK ==
    ASSUME NEW x \in ContextRecord, Fresh(x), x.r.pend > 0 => EV_WRITE_EVENT \in x.c.events,
           NEW ret, NEW alloc
    PROVE  LET z == tcp_request_process(x, ret, alloc)
           IN  /\ ContextOK(z)
               /\ z.s.lost /\ ~x.s.lost => x.r.finish
<1> DEFINE m == [x EXCEPT !.r = [x.r EXCEPT !.room = BUFFER_MIN_SIZE]]
           e == [x EXCEPT !.r = [x.r EXCEPT !.error = TRUE]]
<1>1. CASE ret = "OK" /\ x.r.room # 0
  BY <1>1, SMTT(30), Zenon DEF tcp_request_process, ContextOK, ReqOK, Fresh, Watched
<1>2. CASE ret = "OK" /\ x.r.room = 0 /\ alloc
  <2>1. tcp_request_process(x, ret, alloc) = m
    BY <1>2 DEF tcp_request_process
  <2>2. /\ m.c = x.c /\ m.s = x.s /\ m.r.pend = x.r.pend /\ m.r.room = BUFFER_MIN_SIZE
        /\ BUFFER_MIN_SIZE # 0
    BY SizesAssumption DEF ContextRecord, ReqRecord
  <2> HIDE DEF m
  <2> QED
    BY <2>1, <2>2 DEF ContextOK, ReqOK, Fresh, Watched
<1>3. CASE ret = "DONE"
  <2>1. tcp_request_process(x, ret, alloc) = tcp_request_finish(x)
    BY <1>3 DEF tcp_request_process
  <2> QED
    BY <2>1, FinishReqOK
<1>4. CASE ret # "DONE" /\ ~ (ret = "OK" /\ (x.r.room # 0 \/ alloc))
  <2>1. tcp_request_process(x, ret, alloc) = tcp_request_finish(e)
    BY <1>4 DEF tcp_request_process
  <2>2. e \in ContextRecord /\ e.c = x.c /\ e.s = x.s /\ e.r.finish = x.r.finish
    BY Zenon DEF ContextRecord, ReqRecord
  <2> HIDE DEF e
  <2>3. Fresh(e)
    BY <2>2, SMTT(30), Zenon DEF Fresh
  <2> QED
    BY <2>1, <2>2, <2>3, FinishReqOK
<1> QED
  BY <1>1, <1>2, <1>3, <1>4, SMTT(30), Zenon


-----------------------------------------------------------------------------
(* The slots. *)

LEMMA SameReq ==
    ASSUME NEW c \in Conns, SlotReq(c), req'[c] = req[c],
           conn'[c].conn_fd = conn[c].conn_fd, conn'[c].events = conn[c].events,
           conn'[c].dead_events = conn[c].dead_events,
           conn'[c].add_events = conn[c].add_events, conn'[c].close = conn[c].close,
           conn'[c].write_event_handler = conn[c].write_event_handler,
           conn'[c].request = conn[c].request,
           Client(c) => (sock'[conn[c].conn_fd].peer = "up" => sock[conn[c].conn_fd].peer = "up")
    PROVE  SlotReq(c)'
<1>1. Client(c)' <=> Client(c)
  BY SMTT(30), Zenon DEF Client, InUse
<1>2. CASE Client(c)
  <2>1. ReqOK(conn[c], req[c], sock[conn[c].conn_fd].peer)
    BY <1>2, SMTT(30), Zenon DEF SlotReq
  <2>2. ReqOK(conn'[c], req[c], sock'[conn[c].conn_fd].peer)
    BY <1>2, <2>1, SMTT(30), Zenon DEF ReqOK, Watched
  <2> QED
    BY <1>1, <1>2, <2>2, SMTT(30), Zenon DEF SlotReq
<1>3. CASE ~Client(c)
  BY <1>1, <1>3, SMTT(30), Zenon DEF SlotReq
<1> QED
  BY <1>2, <1>3, SMTT(30), Zenon

LiveReqs == {c \in Conns : conn[c].request = "live"}
Used     == {c \in Conns : InUse(c)}

LEMMA Counted ==
    /\ IsFiniteSet(Used) /\ Cardinality(Used) \in Nat
    /\ IsFiniteSet(LiveReqs) /\ Cardinality(LiveReqs) \in Nat
  BY SlotsFinite DEF Used, LiveReqs

(* steps after which the same slots are in use, with the same requests *)
LEMMA SamePools ==
    ASSUME IInv, PoolsAccounted, Used' = Used, LiveReqs' = LiveReqs,
           UNCHANGED <<pools, leaked>>, failures' >= failures, failures' \in Nat
    PROVE  PoolsAccounted'
<1>1. leaked \in Nat /\ failures \in Nat
  BY DEF IInv, TypeOK
<1>2. /\ pools = Cardinality(Used) + Cardinality(LiveReqs) + leaked
      /\ leaked <= failures
  BY DEF PoolsAccounted, Used, LiveReqs
<1>3. pools' = Cardinality(Used') + Cardinality(LiveReqs') + leaked' /\ leaked' <= failures'
  BY <1>1, <1>2, SMTT(30), Zenon
<1> QED
  BY <1>3 DEF PoolsAccounted, Used, LiveReqs

(* tcp_request_finish drops bytes of a response only of a left-over request *)
LostStep ==
    \A fd \in Fds : ~sock[fd].lost /\ sock'[fd].lost => req[epoll[fd].ptr].finish

(* Steps that run a handler on the active connection. *)
LEMMA UpdateReq ==
    ASSUME IInv, ReqInv, PoolsAccounted, NEW y, Handled(Context(active_conn), y), Update(y),
           active_conn \in Conns, Client(active_conn), ContextOK(y),
           y.s.lost /\ ~sock[conn[active_conn].conn_fd].lost => req[active_conn].finish,
           failures' \in Nat, failures' >= failures
    PROVE  ReqInv' /\ PoolsAccounted' /\ LostStep
<1>1. PICK a : a = active_conn
  OBVIOUS
<1>2. PICK fd : fd = conn[a].conn_fd
  BY ZenonT(30)
<1>3. a \in Conns /\ Client(a) /\ InUse(a) /\ fd \in Fds /\ epoll[fd].ptr = a
  BY <1>1, <1>2, FdType, SlotOf, SMTT(30), Zenon DEF Client, SlotInv
<1>4. y.c.conn_fd = fd /\ y.c \in ConnRecord
  BY <1>1, <1>2, SMTT(30), Zenon DEF Handled, Context, ContextRecord
<1>5. /\ conn' = [conn EXCEPT ![a] = y.c] /\ req' = [req EXCEPT ![a] = y.r]
      /\ sock' = [sock EXCEPT ![fd] = y.s] /\ leaked' = leaked
      /\ pools' = pools + (IF y.c.request = "live" THEN 1 ELSE 0)
                        - (IF conn[a].request = "live" THEN 1 ELSE 0)
  BY <1>1, <1>4, SMTT(30), Zenon DEF Update
<1>6. /\ conn'[a] = y.c /\ \A c \in Conns : c # a => conn'[c] = conn[c]
      /\ req'[a] = y.r /\ \A c \in Conns : c # a => req'[c] = req[c]
      /\ sock'[fd] = y.s /\ \A g \in Fds : g # fd => sock'[g] = sock[g]
  BY <1>3, <1>5, SMTT(30), Zenon DEF IInv, TypeOK
<1>7. ReqInv'
  <2> SUFFICES ASSUME NEW c \in Conns PROVE SlotReq(c)'
    BY SMTT(30), Zenon DEF ReqInv
  <2>1. CASE c = a
    <3>1. Client(a)'
      BY <1>2, <1>3, <1>4, <1>6, SMTT(30), Zenon DEF Client, InUse
    <3>2. ReqOK(conn'[a], req'[a], sock'[conn'[a].conn_fd].peer)
      BY <1>4, <1>6, SMTT(30), Zenon DEF ContextOK
    <3> QED
      BY <2>1, <3>1, <3>2, SMTT(30), Zenon DEF SlotReq
  <2>2. CASE c # a
    <3>1. Client(c) => sock'[conn[c].conn_fd] = sock[conn[c].conn_fd]
      BY <1>2, <1>3, <1>6, <2>2, FdType, OtherFd, SMTT(30), Zenon DEF Client
    <3>2. SlotReq(c) /\ conn'[c] = conn[c] /\ req'[c] = req[c]
      BY <1>6, <2>2, SMTT(30), Zenon DEF ReqInv
    <3> QED
      BY <3>1, <3>2, SameReq, SMTT(30), Zenon
  <2> QED
    BY <2>1, <2>2, SMTT(30), Zenon
<1>8. LostStep
  BY <1>1, <1>2, <1>3, <1>6, SMTT(30), Zenon DEF LostStep
<1>9. PoolsAccounted'
  <2>1. Used' = Used
    BY <1>2, <1>3, <1>4, <1>6, SMTT(30), Zenon DEF Used, InUse
  <2>2. pools \in Int /\ leaked \in Nat /\ failures \in Nat
    BY SMTT(30), Zenon DEF IInv, TypeOK
  <2>3. /\ pools = Cardinality(Used) + Cardinality(LiveReqs) + leaked
        /\ leaked <= failures
    BY SMTT(30), Zenon DEF PoolsAccounted, Used, LiveReqs
  <2>4. Cardinality(LiveReqs') = Cardinality(LiveReqs)
          + (IF y.c.request = "live" THEN 1 ELSE 0) - (IF conn[a].request = "live" THEN 1 ELSE 0)
    <3>1. \A c \in Conns : c # a => (c \in LiveReqs' <=> c \in LiveReqs)
      BY <1>6 DEF LiveReqs
    <3>2. /\ a \in LiveReqs' <=> y.c.request = "live"
          /\ a \in LiveReqs <=> conn[a].request = "live"
      BY <1>3, <1>6 DEF LiveReqs
    <3>3. LiveReqs \subseteq Conns /\ LiveReqs' \subseteq Conns
      BY DEF LiveReqs
    <3>4. CASE y.c.request = "live" /\ conn[a].request # "live"
      <4>1. LiveReqs' = LiveReqs \cup {a} /\ a \notin LiveReqs
        BY <1>3, <3>1, <3>2, <3>3, <3>4, SMTT(30), Zenon
      <4>2. Cardinality(LiveReqs \cup {a}) = Cardinality(LiveReqs) + 1
        BY <4>1, Counted, FS_AddElement, ZenonT(30)
      <4> QED
        BY <3>4, <4>1, <4>2, Counted, SMTT(30), Zenon
    <3>5. CASE y.c.request # "live" /\ conn[a].request = "live"
      <4>1. LiveReqs' = LiveReqs \ {a} /\ a \in LiveReqs
        BY <1>3, <3>1, <3>2, <3>3, <3>5, SMTT(30), Zenon
      <4>2. Cardinality(LiveReqs \ {a}) = Cardinality(LiveReqs) - 1
        BY <4>1, Counted, FS_RemoveElement, ZenonT(30)
      <4> QED
        BY <3>5, <4>1, <4>2, Counted, SMTT(30), Zenon
    <3>6. CASE y.c.request = "live" <=> conn[a].request = "live"
      <4>1. LiveReqs' = LiveReqs
        BY <1>3, <3>1, <3>2, <3>3, <3>6, SMTT(30), Zenon
      <4> QED
        BY <3>6, <4>1, Counted, SMTT(30), Zenon
    <3> QED
      BY <3>4, <3>5, <3>6, SMTT(30), Zenon
  <2>5. pools' = Cardinality(Used') + Cardinality(LiveReqs') + leaked'
    BY <1>5, <2>1, <2>2, <2>3, <2>4, Counted, SMTT(30), Zenon
  <2>6. leaked' <= failures'
    BY <1>5, <2>2, <2>3
  <2> QED
    BY <2>5, <2>6, SMTT(30), Zenon DEF PoolsAccounted, Used, LiveReqs
<1> QED
  BY <1>7, <1>8, <1>9, SMTT(30), Zenon

(* Steps that change neither a connection, its request nor a socket. *)
LEMMA IdleReq ==
    ASSUME IInv, ReqInv, UNCHANGED <<conn, req, sock>>
    PROVE  ReqInv' /\ LostStep /\ Used' = Used /\ LiveReqs' = LiveReqs
<1>1. ReqInv'
  BY SameReq DEF ReqInv
<1>2. LostStep
  BY DEF LostStep
<1>3. Used' = Used /\ LiveReqs' = LiveReqs
  BY DEF Used, LiveReqs, InUse
<1> QED
  BY <1>1, <1>2, <1>3, SMTT(30), Zenon


(* the context in which tcp_server_recv reads *)
LEMMA RecvContextFresh ==
    ASSUME IInv, ReqInv, active_conn \in Conns, Client(active_conn), pc = "read"
    PROVE  LET x == RecvContext
           IN  /\ x \in ContextRecord /\ Fresh(x)
               /\ x.r.pend > 0 => EV_WRITE_EVENT \in x.c.events
               /\ x.r.room = 0 => x.r.finish \/ EV_WRITE_EVENT \in x.c.events
               /\ x.s = sock[conn[active_conn].conn_fd]
               /\ x.r.finish => req[active_conn].finish
<1> DEFINE a == active_conn
           x == Context(a)
           z == [c |-> [x.c EXCEPT !.request = "live"], r |-> NewReq, s |-> x.s]
<1>1. /\ conn[a] \in ConnRecord /\ SlotInv(a)
      /\ ReqOK(conn[a], req[a], sock[conn[a].conn_fd].peer)
  BY SlotOf, SMTT(30), Zenon DEF ReqInv, SlotReq
<1>2. conn[a].dead_events = {} /\ conn[a].add_events = {} /\ ~conn[a].close
  BY <1>1, SMTT(30), Zenon DEF SlotInv, Quiet, Client
<1>3. /\ conn[a].write_event_handler = "tcp_server_send" <=> EV_WRITE_EVENT \in conn[a].events
      /\ req[a].pend > 0 => EV_WRITE_EVENT \in conn[a].events
      /\ conn[a].request = "live" /\ req[a].room = 0
            => req[a].finish \/ EV_WRITE_EVENT \in conn[a].events
  BY <1>1, <1>2 DEF ReqOK, Watched
<1>4. x.c = conn[a] /\ x.r = req[a] /\ x.s = sock[conn[a].conn_fd]
  BY DEF Context
<1>5. RecvContext \in ContextRecord
  BY RecvContextHandled, SMTT(30), Zenon
<1>6. CASE conn[a].request = "NULL"
  <2>1. RecvContext = z
    BY <1>4, <1>6 DEF RecvContext
  <2>2. /\ z.c.request = "live" /\ z.c.close = conn[a].close /\ z.c.events = conn[a].events
        /\ z.c.dead_events = conn[a].dead_events /\ z.c.add_events = conn[a].add_events
        /\ z.c.write_event_handler = conn[a].write_event_handler
    BY <1>1, <1>4, Zenon DEF ConnRecord
  <2>3. /\ z.r.pend = 0 /\ z.r.room # 0 /\ ~z.r.finish
    BY SizesAssumption DEF NewReq, req_buffer_size
  <2>4. z.s = sock[conn[a].conn_fd]
    BY <1>4
  <2> HIDE DEF z
  <2>5. ~ (z.r.pend > 0)
    BY <2>3
  <2> QED
    BY <1>2, <1>3, <1>5, <2>1, <2>2, <2>3, <2>4, <2>5, SMTT(30), Zenon DEF Fresh
<1>7. CASE conn[a].request # "NULL"
  <2>1. RecvContext = x /\ conn[a].request = "live"
    BY <1>1, <1>2, <1>4, <1>7, SMTT(30), Zenon DEF RecvContext, ConnRecord
  <2> HIDE DEF x
  <2> QED
    BY <1>2, <1>3, <1>4, <1>5, <2>1, SMTT(30), Zenon DEF Fresh
<1> QED
  BY <1>6, <1>7, SMTT(30), Zenon

LEMMA RecvReq ==
    ASSUME IInv, ReqInv, PoolsAccounted, tcp_server_recv
    PROVE  ReqInv' /\ PoolsAccounted' /\ LostStep
<1> DEFINE x == RecvContext
           fd == conn[active_conn].conn_fd
<1>1. pc = "read" /\ active_conn \in Conns /\ Client(active_conn)
  BY ReceivingClient, SMTT(30), Zenon DEF tcp_server_recv, Reading
<1>2. /\ x \in ContextRecord /\ Fresh(x)
      /\ x.r.pend > 0 => EV_WRITE_EVENT \in x.c.events
      /\ x.r.room = 0 => x.r.finish \/ EV_WRITE_EVENT \in x.c.events
      /\ x.s = sock[fd]
      /\ x.r.finish => req[active_conn].finish
      /\ Handled(Context(active_conn), x)
  BY <1>1, RecvContextFresh, RecvContextHandled
<1>3. failures \in Nat /\ (Fail \/ UNCHANGED failures => failures' \in Nat /\ failures' >= failures)
  BY DEF IInv, TypeOK, Fail
<1>4. CASE RequestInitFails
  <2>1. UNCHANGED <<conn, req, sock>> /\ Fail
    BY <1>4 DEF RequestInitFails, server, kernel
  <2>2. ReqInv' /\ LostStep /\ Used' = Used /\ LiveReqs' = LiveReqs
    BY <2>1, IdleReq
  <2>3. CASE UNCHANGED <<pools, leaked>>
    BY <1>3, <2>1, <2>2, <2>3, SamePools, SMTT(30), Zenon
  <2>4. CASE pools' = pools + 1 /\ leaked' = leaked + 1
    <3>1. /\ pools = Cardinality(Used) + Cardinality(LiveReqs) + leaked
          /\ leaked <= failures
      BY DEF PoolsAccounted, Used, LiveReqs
    <3>2. leaked \in Nat /\ failures' = failures + 1
      BY <2>1 DEF IInv, TypeOK, Fail
    <3>3. /\ pools' = Cardinality(Used') + Cardinality(LiveReqs') + leaked'
          /\ leaked' <= failures'
      BY <1>3, <2>2, <2>4, <3>1, <3>2, Counted, SMTT(30), Zenon
    <3>4. PoolsAccounted'
      BY <3>3, SMTT(30), Zenon DEF PoolsAccounted, Used, LiveReqs
    <3> QED
      BY <2>2, <3>4
  <2> QED
    BY <1>4, <2>3, <2>4 DEF RequestInitFails
<1>5. ASSUME NEW y, Handled(Context(active_conn), y), Update(y), ContextOK(y),
             y.s.lost /\ ~x.s.lost => x.r.finish, Fail \/ UNCHANGED failures
      PROVE  ReqInv' /\ PoolsAccounted' /\ LostStep
  <2>1. y.s.lost /\ ~sock[fd].lost => req[active_conn].finish
    BY <1>2, <1>5
  <2>2. failures' \in Nat /\ failures' >= failures
    BY <1>3, <1>5, SMTT(30), Zenon
  <2> QED
    BY <1>1, <1>5, <2>1, <2>2, UpdateReq, SMTT(30), Zenon
<1>6. CASE RecvCloses
  <2> DEFINE y == [x EXCEPT !.c = CloseConn(x.c)]
  <2>1. x.r.room = 0 \/ x.s.peer # "up"
    BY <1>6 DEF RecvCloses
  <2>2. Update(y) /\ UNCHANGED failures
    BY <1>6 DEF RecvCloses
  <2>3. Handled(Context(active_conn), y)
    BY <1>2, CloseConnHandled, HandledTransitive, ZenonT(30)
  <2>4. /\ y.c.close /\ y.c.request = x.c.request /\ y.c.events = x.c.events
        /\ y.r = x.r /\ y.s = x.s
    BY <1>2, ZenonT(30) DEF CloseConn, ContextRecord, ConnRecord
  <2> HIDE DEF y
  <2>5. ContextOK(y)
    BY <1>2, <2>1, <2>4, SMTT(30), Zenon DEF ContextOK, ReqOK, Fresh
  <2> QED
    BY <1>5, <2>2, <2>3, <2>4, <2>5, SMTT(30), Zenon
<1>7. CASE RecvAgain
  <2>1. x.r.room # 0
    BY <1>2, <1>7, SMTT(30), Zenon DEF RecvAgain, ContextRecord, ReqRecord
  <2>2. ContextOK(x)
    BY <1>2, <2>1 DEF ContextOK, ReqOK, Fresh, Watched
  <2> QED
    BY <1>2, <1>5, <1>7, <2>2, SMTT(30), Zenon DEF RecvAgain
<1>8. CASE RecvBytes
  <2> DEFINE n == IF x.s.rx < x.r.room THEN x.s.rx ELSE x.r.room
             z(type) == [c |-> x.c,
                         r |-> [x.r EXCEPT !.room = @ - n, !.type = type],
                         s |-> [x.s EXCEPT !.rx = @ - n]]
  <2>1. n \in Nat /\ x.s.rx - n \in Nat /\ x.r.room - n \in Nat
    BY <1>2 DEF ContextRecord, ReqRecord, SockRecord
  <2>2. PICK p \in protocol_parse(x.r.type) : RecvParsed(p)
    BY <1>8 DEF RecvBytes
  <2>3. PICK alloc \in BOOLEAN :
              /\ Update(tcp_request_process(z(p.type), p.ret, alloc))
              /\ Fail \/ UNCHANGED failures
    BY <2>2, Zenon DEF RecvParsed
  <2>4. p.type \in Types
    BY <1>2, SizesAssumption, ZenonT(30) DEF protocol_parse, ContextRecord, ReqRecord, Types
  <2>5. PICK w : w = z(p.type)
    BY Zenon
  <2>6. /\ w.r \in ReqRecord /\ w.r.pend = x.r.pend /\ w.r.finish = x.r.finish
    BY <1>2, <2>1, <2>4, <2>5, ZenonT(30) DEF ContextRecord, ReqRecord
  <2>7. w.s \in SockRecord /\ w.s.open = x.s.open /\ w.s.lost = x.s.lost
    BY <1>2, <2>1, <2>5, ZenonT(30) DEF ContextRecord, SockRecord
  <2>8. w \in ContextRecord /\ w.c = x.c
    BY <1>2, <2>5, <2>6, <2>7, SMTT(30), Zenon DEF ContextRecord
  <2>9. Handled(x, w) /\ Fresh(w)
    BY <1>2, <2>7, <2>8, SMTT(30), Zenon DEF Handled, Fresh
  <2>10. PICK y : y = tcp_request_process(w, p.ret, alloc)
    BY SMTT(30), Zenon
  <2>11. Handled(Context(active_conn), y)
    BY <1>2, <2>8, <2>9, <2>10, ProcessHandled, HandledTransitive, SMTT(30), Zenon
  <2>12. ContextOK(y) /\ (y.s.lost /\ ~w.s.lost => w.r.finish)
    BY <1>2, <2>6, <2>8, <2>9, <2>10, ProcessReqOK, ZenonT(30)
  <2>13. Update(y) /\ (Fail \/ UNCHANGED failures)
    BY <2>3, <2>5, <2>10, ZenonT(30)
  <2> HIDE DEF x
  <2> QED
    BY <1>5, <2>6, <2>7, <2>11, <2>12, <2>13, ZenonT(30)
<1> QED
  BY <1>4, <1>6, <1>7, <1>8, SMTT(30), Zenon DEF tcp_server_recv

LEMMA WriteReq ==
    ASSUME IInv, ReqInv, PoolsAccounted, WriteEvent
    PROVE  ReqInv' /\ PoolsAccounted' /\ LostStep
<1> DEFINE x == Context(active_conn)
<1>1. /\ pc = "write" /\ UNCHANGED failures
      /\ EV_WRITE_EVENT \in conn[active_conn].active_events
      /\ Update(tcp_server_send(x))
  BY SMTT(30), Zenon DEF WriteEvent
<1>2. active_conn \in Conns /\ Client(active_conn)
  BY <1>1, ActiveInUse, SMTT(30), Zenon DEF SlotInv, Client, EV_READ_EVENT, EV_WRITE_EVENT
<1>3. x \in ContextRecord /\ Handled(x, tcp_server_send(x))
  BY <1>2, ContextType, SendHandled, SMTT(30), Zenon
<1>4. ContextOK(x) /\ x.s = sock[conn[active_conn].conn_fd]
  BY <1>2, SMTT(30), Zenon DEF ReqInv, SlotReq, ContextOK, Context
<1>5. ContextOK(tcp_server_send(x)) /\ tcp_server_send(x).s.lost = x.s.lost
  BY <1>3, <1>4, SendReqOK, SMTT(30), Zenon
<1>6. failures' \in Nat /\ failures' >= failures
  BY <1>1 DEF IInv, TypeOK
<1> HIDE DEF x
<1>7. x = Context(active_conn)
  BY DEF x
<1> QED
  BY <1>1, <1>2, <1>3, <1>4, <1>5, <1>6, <1>7, UpdateReq, SMTT(30), Zenon

-----------------------------------------------------------------------------
(* Steps that take, free and keep connections. *)

LEMMA AcceptReq ==
    ASSUME IInv, ReqInv, PoolsAccounted, tcp_server_accept
    PROVE  ReqInv' /\ PoolsAccounted' /\ LostStep
<1>1. pc = "read"
  BY DEF tcp_server_accept, Reading
<1>2. failures \in Nat /\ (Fail => failures' \in Nat /\ failures' >= failures)
      /\ failures >= failures
  BY SMTT(30), Zenon DEF IInv, TypeOK, Fail
<1>3. connection_pool # NULL => /\ connection_pool \in Conns /\ ~InUse(connection_pool)
                                /\ conn[connection_pool] = FreeConn
  <2>1. connection_pool # NULL => connection_pool \in Free
    BY <1>1, ListHead, SMTT(30), Zenon DEF IInv, FreeListSound, Free
  <2> QED
    BY <2>1, SMTT(30), Zenon DEF Free, IInv, SlotsInv, SlotInv
<1>4. CASE AcceptFails \/ AcceptRefused \/ AcceptUndone
  <2>1. conn' = conn
    BY <1>3, <1>4, SMTT(30), Zenon
       DEF AcceptFails, AcceptRefused, AcceptUndone, server, IInv, TypeOK
  <2>2. /\ UNCHANGED <<req, sock, pools, leaked>> /\ (Fail \/ UNCHANGED failures)
    BY <1>4 DEF AcceptFails, AcceptRefused, AcceptUndone, server, kernel
  <2>3. ReqInv' /\ LostStep /\ Used' = Used /\ LiveReqs' = LiveReqs
    BY <2>1, <2>2, IdleReq
  <2> QED
    BY <1>2, <2>2, <2>3, SamePools, SMTT(30), Zenon
<1>5. CASE Accepted
  <2>1. PICK c : c = connection_pool
    OBVIOUS
  <2>2. PICK fd \in FreeFds :
          /\ conn' = [conn EXCEPT ![c] = AcceptedConn(fd)]
          /\ sock' = [sock EXCEPT ![fd] = NewSock]
    BY <1>5, <2>1, ZenonT(30) DEF Accepted, AcceptedConn
  <2>3. /\ c \in Conns /\ ~InUse(c) /\ conn[c] = FreeConn
        /\ pools' = pools + 1 /\ UNCHANGED <<req, leaked, failures>>
    BY <1>3, <1>5, <2>1 DEF Accepted
  <2>4. fd \in Fds /\ ~sock[fd].open
    BY DEF FreeFds
  <2>5. PICK r : r = AcceptedConn(fd)
    BY SMTT(30), Zenon
  <2>6. /\ r.conn_fd = fd /\ r.events = {EV_READ_EVENT} /\ ~r.close /\ r.request = "NULL"
    BY <2>4, <2>5, AcceptedConnFields, SMTT(30), Zenon
  <2>7. r.write_event_handler = "NULL" /\ EV_WRITE_EVENT \notin r.events
    BY <2>5, <2>6, SMTT(30), Zenon
       DEF AcceptedConn, add_event, NewConn, EV_READ_EVENT, EV_WRITE_EVENT
  <2>8. /\ conn'[c] = r /\ \A d \in Conns : d # c => conn'[d] = conn[d]
        /\ sock'[fd] = NewSock /\ \A g \in Fds : g # fd => sock'[g] = sock[g]
    BY <2>2, <2>3, <2>4, <2>5, SMTT(30), Zenon DEF IInv, TypeOK
  <2>9. \A d \in Conns : Client(d) => conn[d].conn_fd # fd /\ conn[d].conn_fd \in Fds
    BY <2>4, SlotOf, FdType, SMTT(30), Zenon DEF SlotInv
  <2>10. ReqInv'
    <3> SUFFICES ASSUME NEW d \in Conns PROVE SlotReq(d)'
      BY SMTT(30), Zenon DEF ReqInv
    <3>1. CASE d = c
      <4>1. req[c] = NoReq /\ NoReq.pend = 0
        <5>1. req[c] = NoReq
          BY <2>3 DEF ReqInv, SlotReq, Client
        <5>2. NoReq.pend = 0
          BY DEF NoReq, NewReq
        <5> QED
          BY <5>1, <5>2, SMTT(30), Zenon
      <4>2. Client(c)'
        BY <2>4, <2>6, <2>8, SMTT(30), Zenon DEF Client, InUse, Fds, sock_fd, NO_FD
      <4>3. ReqOK(r, NoReq, sock'[fd].peer)
        BY <2>6, <2>7, <4>1, SMTT(30), Zenon DEF ReqOK
      <4> QED
        BY <2>3, <2>6, <2>8, <3>1, <4>1, <4>2, <4>3, SMTT(30), Zenon DEF SlotReq
    <3>2. CASE d # c
      <4>1. SlotReq(d) /\ conn'[d] = conn[d] /\ req'[d] = req[d]
        BY <2>3, <2>8, <3>2, SMTT(30), Zenon DEF ReqInv
      <4>2. Client(d) => sock'[conn[d].conn_fd] = sock[conn[d].conn_fd]
        BY <2>8, <2>9, SMTT(30), Zenon
      <4> QED
        BY <4>1, <4>2, SameReq, SMTT(30), Zenon
    <3> QED
      BY <3>1, <3>2, SMTT(30), Zenon
  <2>11. LostStep
    BY <2>8 DEF LostStep, NewSock
  <2>12. PoolsAccounted'
    <3>1. Used' = Used \cup {c} /\ c \notin Used
      BY <2>3, <2>4, <2>6, <2>8, SMTT(30), Zenon DEF Used, InUse, Fds, sock_fd, NO_FD
    <3>2. LiveReqs' = LiveReqs
      BY <2>3, <2>6, <2>8 DEF LiveReqs, FreeConn, NewConn
    <3>3. Cardinality(Used') = Cardinality(Used) + 1
      BY <3>1, Counted, FS_AddElement, ZenonT(30)
    <3>4. /\ pools = Cardinality(Used) + Cardinality(LiveReqs) + leaked
          /\ leaked <= failures /\ leaked \in Nat
      BY DEF PoolsAccounted, Used, LiveReqs, IInv, TypeOK
    <3>5. /\ pools' = Cardinality(Used') + Cardinality(LiveReqs') + leaked'
          /\ leaked' <= failures'
      BY <2>3, <3>2, <3>3, <3>4, Counted, SMTT(30), Zenon
    <3> QED
      BY <3>5 DEF PoolsAccounted, Used, LiveReqs
  <2> QED
    BY <2>10, <2>11, <2>12
<1> QED
  BY <1>4, <1>5, SMTT(30), Zenon DEF tcp_server_accept

LEMMA CloseReq ==
    ASSUME IInv, ReqInv, PoolsAccounted, CloseActive
    PROVE  ReqInv' /\ PoolsAccounted' /\ LostStep
<1>1. PICK a : a = active_conn
  OBVIOUS
<1>2. PICK fd : fd = conn[a].conn_fd
  BY Zenon
<1>3. /\ a \in Conns /\ InUse(a) /\ conn[a].close /\ SlotInv(a) /\ conn[a] \in ConnRecord
  BY <1>1, ActiveInUse, SMTT(30), Zenon DEF CloseActive
<1>4. fd \in Fds /\ Client(a)
  BY <1>2, <1>3, FdType, SMTT(30), Zenon DEF SlotInv, Client
<1>5. /\ sock' = [sock EXCEPT ![fd] = ClosedSock]
      /\ conn' = [conn EXCEPT ![a] = FreeConn]
      /\ req' = [req EXCEPT ![a] = NoReq]
      /\ pools' = pools - FreedPools(conn[a])
      /\ UNCHANGED <<leaked, failures>>
  BY <1>1, <1>2, SMTT(30), Zenon DEF CloseActive
<1>6. /\ conn'[a] = FreeConn /\ \A d \in Conns : d # a => conn'[d] = conn[d]
      /\ req'[a] = NoReq /\ \A d \in Conns : d # a => req'[d] = req[d]
      /\ sock'[fd] = ClosedSock /\ \A g \in Fds : g # fd => sock'[g] = sock[g]
  BY <1>3, <1>4, <1>5 DEF IInv, TypeOK
<1>7. ReqInv'
  <2> SUFFICES ASSUME NEW d \in Conns PROVE SlotReq(d)'
    BY SMTT(30), Zenon DEF ReqInv
  <2>1. CASE d = a
    BY <1>6, <2>1, SMTT(30), Zenon DEF SlotReq, Client, InUse, FreeConn, NewConn
  <2>2. CASE d # a
    <3>1. Client(d) => sock'[conn[d].conn_fd] = sock[conn[d].conn_fd]
      BY <1>2, <1>3, <1>6, <2>2, FdType, OtherFd, SMTT(30), Zenon DEF Client
    <3>2. SlotReq(d) /\ conn'[d] = conn[d] /\ req'[d] = req[d]
      BY <1>6, <2>2, SMTT(30), Zenon DEF ReqInv
    <3> QED
      BY <3>1, <3>2, SameReq, SMTT(30), Zenon
  <2> QED
    BY <2>1, <2>2
<1>8. LostStep
  BY <1>6, SMTT(30), Zenon DEF LostStep, ClosedSock
<1>9. PoolsAccounted'
  <2>1. Used' = Used \ {a} /\ a \in Used
    BY <1>3, <1>6 DEF Used, InUse, FreeConn, NewConn
  <2>2. Cardinality(Used') = Cardinality(Used) - 1
    BY <2>1, Counted, FS_RemoveElement, ZenonT(30)
  <2>3. /\ pools = Cardinality(Used) + Cardinality(LiveReqs) + leaked
        /\ leaked <= failures /\ leaked \in Nat
    BY DEF PoolsAccounted, Used, LiveReqs, IInv, TypeOK
  <2>4. Cardinality(LiveReqs') = Cardinality(LiveReqs) - (FreedPools(conn[a]) - 1)
    <3>1. CASE conn[a].request = "NULL"
      <4>1. LiveReqs' = LiveReqs
        BY <1>3, <1>6, <3>1 DEF LiveReqs, FreeConn, NewConn
      <4> QED
        BY <3>1, <4>1, Counted, SMTT(30), Zenon DEF FreedPools
    <3>2. CASE conn[a].request # "NULL"
      <4>1. conn[a].request = "live"
        BY <1>3, <3>2, SMTT(30), Zenon DEF SlotInv, ConnRecord
      <4>2. LiveReqs' = LiveReqs \ {a} /\ a \in LiveReqs
        <5>1. FreeConn.request = "NULL"
          BY SMTT(30), Zenon DEF FreeConn, NewConn
        <5>2. conn'[a].request # "live"
          BY <1>6, <5>1
        <5> QED
          BY <1>3, <1>6, <4>1, <5>2, ZenonT(30) DEF LiveReqs
      <4>3. Cardinality(LiveReqs') = Cardinality(LiveReqs) - 1
        BY <4>2, Counted, FS_RemoveElement, ZenonT(30)
      <4> QED
        BY <3>2, <4>3, SMTT(30), Zenon DEF FreedPools
    <3> QED
      BY <3>1, <3>2, SMTT(30), Zenon
  <2>5. /\ pools' = Cardinality(Used') + Cardinality(LiveReqs') + leaked'
        /\ leaked' <= failures'
    BY <1>5, <2>2, <2>3, <2>4, Counted, SMTT(30), Zenon DEF FreedPools
  <2> QED
    BY <2>5 DEF PoolsAccounted, Used, LiveReqs
<1> QED
  BY <1>7, <1>8, <1>9

LEMMA KeptConnWrites ==
    ASSUME NEW r \in ConnRecord
    PROVE  KeptConn(r).write_event_handler
             = IF EV_WRITE_EVENT \in r.add_events THEN "tcp_server_send"
               ELSE r.write_event_handler
<1> DEFINE d == del_event(r)
           e == add_event(d, r.add_events, "tcp_server_send")
<1>1. d \in ConnRecord /\ d.write_event_handler = r.write_event_handler
  BY Zenon DEF del_event, ConnRecord, Events
<1> HIDE DEF d
<1>2. /\ e.write_event_handler = IF EV_WRITE_EVENT \in r.add_events THEN "tcp_server_send"
                                 ELSE d.write_event_handler
      /\ [e EXCEPT !.add_events = {}, !.active_events = {}].write_event_handler
            = e.write_event_handler
  BY <1>1, ZenonT(30) DEF add_event, ConnRecord
<1> QED
  BY <1>1, <1>2 DEF KeptConn, d

LEMMA KeepReq ==
    ASSUME IInv, ReqInv, PoolsAccounted, KeepActive
    PROVE  ReqInv' /\ PoolsAccounted' /\ LostStep
<1>1. PICK a : a = active_conn
  OBVIOUS
<1>2. /\ a \in Conns /\ InUse(a) /\ ~conn[a].close /\ SlotInv(a) /\ conn[a] \in ConnRecord
      /\ EV_READ_EVENT \notin conn[a].add_events
  BY <1>1, ActiveInUse DEF KeepActive, SlotInv
<1>3. PICK k : k = KeptConn(conn[a])
  BY SMTT(30), Zenon
<1>4. /\ k.conn_fd = conn[a].conn_fd
      /\ k.events = (conn[a].events \ conn[a].dead_events) \cup conn[a].add_events
      /\ k.dead_events = {} /\ k.add_events = {}
      /\ k.close = conn[a].close /\ k.request = conn[a].request
      /\ k.write_event_handler = IF EV_WRITE_EVENT \in conn[a].add_events
                                 THEN "tcp_server_send" ELSE conn[a].write_event_handler
  BY <1>2, <1>3, KeptConnFields, KeptConnWrites, SMTT(30), Zenon
<1>5. /\ conn' = [conn EXCEPT ![a] = k]
      /\ UNCHANGED <<req, sock, pools, leaked, failures>>
  BY <1>1, <1>3, ZenonT(30) DEF KeepActive, KeptConn, memory
<1>6. conn'[a] = k /\ \A d \in Conns : d # a => conn'[d] = conn[d]
  BY <1>2, <1>5 DEF IInv, TypeOK
<1>7. ReqInv'
  <2> SUFFICES ASSUME NEW d \in Conns PROVE SlotReq(d)'
    BY Zenon DEF ReqInv
  <2>1. SlotReq(d) /\ req'[d] = req[d] /\ sock' = sock
    BY <1>5, SMTT(30), Zenon DEF ReqInv
  <2>2. CASE d = a /\ ~Client(a)
    <3>1. conn[a].add_events = {}
      BY <1>2, <2>2, SMTT(30), Zenon DEF SlotInv, Client
    <3>2. ~Client(a)'
      BY <1>4, <1>6, <2>2, SMTT(30), Zenon DEF Client, InUse
    <3> QED
      BY <1>4, <1>6, <2>1, <2>2, <3>1, <3>2, SMTT(30), Zenon DEF SlotReq
  <2>3. CASE d = a /\ Client(a)
    <3>1. ReqOK(conn[a], req[a], sock[conn[a].conn_fd].peer)
      BY <2>1, <2>3, SMTT(30), Zenon DEF SlotReq
    <3>2. ReqOK(k, req[a], sock[conn[a].conn_fd].peer)
      <4>1. EV_WRITE_EVENT \in k.events <=> EV_WRITE_EVENT \in Watched(conn[a])
        BY <1>4 DEF Watched
      <4>2. EV_WRITE_EVENT \in Watched(k) <=> EV_WRITE_EVENT \in Watched(conn[a])
        BY <1>4, <4>1, SMTT(30), Zenon DEF Watched
      <4>3. k.write_event_handler = "tcp_server_send"
              <=> EV_WRITE_EVENT \in k.events \ k.dead_events
        BY <1>2, <1>4, <3>1 DEF ReqOK
      <4>4. ~conn[a].close /\ ~k.close /\ k.request = conn[a].request
        BY <1>2, <1>4, ZenonT(30)
      <4> QED
        BY <3>1, <4>2, <4>3, <4>4, ZenonT(30) DEF ReqOK
    <3>3. Client(a)'
      BY <1>4, <1>6, <2>3, SMTT(30), Zenon DEF Client, InUse
    <3> QED
      BY <1>4, <1>6, <2>1, <2>3, <3>2, <3>3, SMTT(30), Zenon DEF SlotReq
  <2>4. CASE d # a
    BY <1>6, <2>1, <2>4, SameReq, SMTT(30), Zenon
  <2> QED
    BY <2>2, <2>3, <2>4
<1>8. LostStep
  BY <1>5, SMTT(30), Zenon DEF LostStep
<1>9. Used' = Used /\ LiveReqs' = LiveReqs
  BY <1>2, <1>4, <1>6, SMTT(30), Zenon DEF Used, LiveReqs, InUse
<1>10. PoolsAccounted'
  <2>1. failures' \in Nat /\ failures' >= failures
    BY <1>5, SMTT(30), Zenon DEF IInv, TypeOK
  <2> QED
    BY <1>5, <1>9, <2>1, SamePools, SMTT(30), Zenon
<1> QED
  BY <1>7, <1>8, <1>10


-----------------------------------------------------------------------------
(* The other steps of the server and of its clients. *)

(* the step leaves every field of the slot but active_events as it is *)
SameButActive(c) ==
    /\ conn'[c].conn_fd = conn[c].conn_fd
    /\ conn'[c].events = conn[c].events
    /\ conn'[c].dead_events = conn[c].dead_events
    /\ conn'[c].add_events = conn[c].add_events
    /\ conn'[c].close = conn[c].close
    /\ conn'[c].request = conn[c].request
    /\ conn'[c].write_event_handler = conn[c].write_event_handler

LEMMA FailuresType == IInv => failures \in Nat /\ failures >= failures
  BY SMTT(30), Zenon DEF IInv, TypeOK

LEMMA QuietStep ==
    ASSUME IInv, ReqInv, PoolsAccounted,
           \A c \in Conns : SameButActive(c),
           \A c \in Conns : 
                Client(c) /\ sock'[conn[c].conn_fd].peer = "up" => sock[conn[c].conn_fd].peer = "up",
           UNCHANGED <<req, pools, leaked, failures>>
    PROVE  ReqInv' /\ PoolsAccounted'
<1>1. \A c \in Conns : Client(c)' <=> Client(c)
  BY Zenon DEF SameButActive, Client, InUse
<1>2. ReqInv'
  <2> SUFFICES ASSUME NEW c \in Conns PROVE SlotReq(c)'
    BY Zenon DEF ReqInv
  <2>1. SlotReq(c) /\ SameButActive(c) /\ (Client(c)' <=> Client(c)) /\ req' = req
    BY <1>1, Zenon DEF ReqInv
  <2>2. CASE ~Client(c)
    BY <2>1, <2>2, ZenonT(30) DEF SlotReq, SameButActive
  <2>3. CASE Client(c)
    <3>1. ReqOK(conn[c], req[c], sock[conn[c].conn_fd].peer)
      BY <2>1, <2>3, ZenonT(30) DEF SlotReq
    <3>2. ReqOK(conn'[c], req[c], sock'[conn[c].conn_fd].peer)
      <4>1. PICK m : m = conn'[c]
        BY Zenon
      <4>2. /\ m.events = conn[c].events /\ m.dead_events = conn[c].dead_events
            /\ m.add_events = conn[c].add_events /\ m.close = conn[c].close
            /\ m.request = conn[c].request
            /\ m.write_event_handler = conn[c].write_event_handler
        BY <2>1, <4>1, Zenon DEF SameButActive
      <4>3. sock'[conn[c].conn_fd].peer = "up" => sock[conn[c].conn_fd].peer = "up"
        BY <2>3, Zenon
      <4>4. ReqOK(m, req[c], sock'[conn[c].conn_fd].peer)
        BY <3>1, <4>2, <4>3, ZenonT(30) DEF ReqOK, Watched
      <4> QED
        BY <4>1, <4>4, ZenonT(30)
    <3> QED
      BY <2>1, <2>3, <3>2, ZenonT(30) DEF SlotReq, SameButActive
  <2> QED
    BY <2>2, <2>3, Zenon
<1>3. Used' = Used /\ LiveReqs' = LiveReqs
  BY ZenonT(30) DEF Used, LiveReqs, InUse, SameButActive
<1>4. failures' \in Nat /\ failures' >= failures
  BY FailuresType, ZenonT(30)
<1> QED
  BY <1>2, <1>3, <1>4, SamePools, SMTT(30), Zenon

LEMMA SameConns ==
    ASSUME IInv, ReqInv, PoolsAccounted, UNCHANGED <<conn, req, pools, leaked, failures, sock>>
    PROVE  ReqInv' /\ PoolsAccounted' /\ LostStep
<1>1. LostStep
  BY Zenon DEF LostStep
<1>2. \A c \in Conns : SameButActive(c)
  BY Zenon DEF SameButActive
<1> QED
  BY <1>1, <1>2, QuietStep, SMTT(30), Zenon

LEMMA PollReq ==
    ASSUME IInv, ReqInv, PoolsAccounted, epoll_polling
    PROVE  ReqInv' /\ PoolsAccounted' /\ LostStep
<1>1. UNCHANGED <<req, pools, leaked, failures, sock>>
  BY DEF epoll_polling, kernel, memory
<1>2. \A c \in Conns : SameButActive(c)
  <2>1. PICK order, n : PushActive(order, n)
    BY DEF epoll_polling
  <2> DEFINE reported == [i \in 1 .. n |-> epoll[order[i]].ptr]
             position(c) == CHOOSE i \in 1 .. n : reported[i] = c
             hit == {reported[i] : i \in 1 .. n}
             revents(c) == Revents(order[position(c)])
  <2>0. conn' = [c \in Conns |-> IF c \notin hit THEN conn[c]
                                 ELSE [conn[c] EXCEPT !.active_events = revents(c)]]
    BY <2>1, Zenon DEF PushActive
  <2> HIDE DEF hit, revents
  <2>2. \A c \in Conns : \E ev : conn'[c] = conn[c] \/ conn'[c] = [conn[c] EXCEPT !.active_events = ev]
    BY <2>0, Zenon
  <2> TAKE c \in Conns
  <2>3. PICK ev : conn'[c] = conn[c] \/ conn'[c] = [conn[c] EXCEPT !.active_events = ev]
    BY <2>2, ZenonT(30)
  <2>4. conn[c] \in ConnRecord
    BY DEF IInv, TypeOK
  <2> QED
    BY <2>3, <2>4, SMTT(30), Zenon DEF ConnRecord, SameButActive
<1>3. LostStep
  BY <1>1, SMTT(30), Zenon DEF LostStep
<1> QED
  BY <1>1, <1>2, <1>3, QuietStep, ZenonT(30)

LEMMA InitNetworkReq ==
    ASSUME IInv, ReqInv, PoolsAccounted, init_network_mod
    PROVE  ReqInv' /\ PoolsAccounted' /\ LostStep
<1>1. PICK r : r = ListenConn
  OBVIOUS
<1>2. /\ pc = "init" /\ size > 0 /\ conn' = [conn EXCEPT ![1] = r]
      /\ pools' = pools + 1 /\ UNCHANGED <<req, sock, leaked, failures>>
  BY <1>1 DEF init_network_mod, ListenConn
<1>3. r.conn_fd = sock_fd /\ r.request = "NULL" /\ r.write_event_handler = "NULL"
  BY <1>1, ZenonT(30) DEF ListenConn, add_event, NewConn, EV_READ_EVENT, EV_WRITE_EVENT
<1>4. 1 \in Conns
  BY <1>2, SizesAssumption, SMTT(30), Zenon DEF Conns, size
<1>5. \A c \in Conns : ~InUse(c) /\ ~Client(c) /\ conn[c] = FreeConn
  BY <1>2, SMTT(30), Zenon DEF IInv, CursorInv, SlotsInv, SlotInv, Client
<1>6. conn'[1] = r /\ \A c \in Conns : c # 1 => conn'[c] = conn[c]
  BY <1>2, <1>4, SMTT(30), Zenon DEF IInv, TypeOK
<1>7. \A c \in Conns : ~Client(c)'
  BY <1>3, <1>5, <1>6, SMTT(30), Zenon DEF Client, InUse
<1>8. ReqInv'
  BY <1>2, <1>3, <1>5, <1>6, <1>7, SMTT(30), Zenon DEF ReqInv, SlotReq
<1>9. LostStep
  BY <1>2, SMTT(30), Zenon DEF LostStep
<1>10. PoolsAccounted'
  <2>1. Used' = Used \cup {1} /\ 1 \notin Used
    BY <1>3, <1>4, <1>5, <1>6, SMTT(30), Zenon DEF Used, InUse, sock_fd, NO_FD
  <2>2. LiveReqs' = LiveReqs
    BY <1>3, <1>4, <1>5, <1>6, SMTT(30), Zenon DEF LiveReqs, FreeConn, NewConn
  <2>3. Cardinality(Used') = Cardinality(Used) + 1
    BY <2>1, Counted, FS_AddElement, ZenonT(30)
  <2>4. /\ pools = Cardinality(Used) + Cardinality(LiveReqs) + leaked
        /\ leaked <= failures /\ leaked \in Nat
    BY DEF PoolsAccounted, Used, LiveReqs, IInv, TypeOK
  <2>5. /\ pools' = Cardinality(Used') + Cardinality(LiveReqs') + leaked'
        /\ leaked' <= failures'
    BY <1>2, <2>2, <2>3, <2>4, Counted, SMTT(30), Zenon
  <2> QED
    BY <2>5 DEF PoolsAccounted, Used, LiveReqs
<1> QED
  BY <1>8, <1>9, <1>10

LEMMA PeerReq ==
    ASSUME IInv, ReqInv, PoolsAccounted, NEW fd \in Fds, NEW s, Peer(fd, s),
           s.peer = "up" => sock[fd].peer = "up", s.lost = sock[fd].lost
    PROVE  ReqInv' /\ PoolsAccounted' /\ LostStep
<1>1. /\ UNCHANGED <<conn, req, pools, leaked, failures>>
      /\ sock' = [sock EXCEPT ![fd] = s]
  BY SMTT(30), Zenon DEF Peer, server, memory
<1>2. sock'[fd] = s /\ \A g \in Fds : g # fd => sock'[g] = sock[g]
  BY <1>1, SMTT(30), Zenon DEF IInv, TypeOK
<1>3. \A g \in Fds : sock'[g].peer = "up" => sock[g].peer = "up"
  BY <1>2, SMTT(30), Zenon
<1>4. \A c \in Conns : Client(c) => conn[c].conn_fd \in Fds
  BY FdType, SMTT(30), Zenon DEF Client
<1>5. LostStep
  BY <1>2 DEF LostStep
<1>6. \A c \in Conns : SameButActive(c)
  BY <1>1, ZenonT(30) DEF SameButActive
<1>7. \A c \in Conns :
        Client(c) /\ sock'[conn[c].conn_fd].peer = "up" => sock[conn[c].conn_fd].peer = "up"
  BY <1>3, <1>4, ZenonT(30)
<1> QED
  BY <1>1, <1>5, <1>6, <1>7, QuietStep, SMTT(30), Zenon

LEMMA ClientsReq ==
    ASSUME IInv, ReqInv, PoolsAccounted, Clients
    PROVE  ReqInv' /\ PoolsAccounted' /\ LostStep
<1>1. CASE ClientConnects
  BY <1>1, SameConns, SMTT(30), Zenon DEF ClientConnects, server, memory
<1>2. ASSUME NEW fd \in Fds,
             ClientSends(fd) \/ ClientReceives(fd) \/ ClientCloses(fd) \/ ClientResets(fd)
      PROVE  ReqInv' /\ PoolsAccounted' /\ LostStep
  <2>1. sock[fd] \in SockRecord
    BY SMTT(30), Zenon DEF IInv, TypeOK
  <2>2. \E s : Peer(fd, s) /\ (s.peer = "up" => sock[fd].peer = "up") /\ s.lost = sock[fd].lost
    <3>1. CASE ClientSends(fd)
      <4> DEFINE s == [sock[fd] EXCEPT !.rx = @ + 1]
      <4>1. s.peer = sock[fd].peer /\ s.lost = sock[fd].lost
        BY <2>1 DEF SockRecord
      <4>2. Peer(fd, s)
        BY <3>1, SMTT(30), Zenon DEF ClientSends
      <4> HIDE DEF s
      <4> QED
        BY <4>1, <4>2, SMTT(30), Zenon
    <3>2. CASE ClientReceives(fd)
      <4> DEFINE s == [sock[fd] EXCEPT !.tx = @ + 1]
      <4>1. s.peer = sock[fd].peer /\ s.lost = sock[fd].lost
        BY <2>1 DEF SockRecord
      <4>2. Peer(fd, s)
        BY <3>2, SMTT(30), Zenon DEF ClientReceives
      <4> HIDE DEF s
      <4> QED
        BY <4>1, <4>2
    <3>3. CASE ClientCloses(fd)
      <4> DEFINE s == [sock[fd] EXCEPT !.peer = "eof"]
      <4>1. s.peer # "up" /\ s.lost = sock[fd].lost
        BY <2>1 DEF SockRecord
      <4>2. Peer(fd, s)
        BY <3>3, SMTT(30), Zenon DEF ClientCloses
      <4> HIDE DEF s
      <4> QED
        BY <4>1, <4>2, SMTT(30), Zenon
    <3>4. CASE ClientResets(fd)
      <4> DEFINE s == [sock[fd] EXCEPT !.peer = "reset"]
      <4>1. s.peer # "up" /\ s.lost = sock[fd].lost
        BY <2>1 DEF SockRecord
      <4>2. Peer(fd, s)
        BY <3>4, SMTT(30), Zenon DEF ClientResets
      <4> HIDE DEF s
      <4> QED
        BY <4>1, <4>2
    <3> QED
      BY <1>2, <3>1, <3>2, <3>3, <3>4, ZenonT(30)
  <2> QED
    BY <2>2, PeerReq, SMTT(30), Zenon
<1> QED
  BY <1>1, <1>2, SMTT(30), Zenon DEF Clients

LEMMA InitReq == Init => ReqInv /\ PoolsAccounted
<1> SUFFICES ASSUME Init PROVE ReqInv /\ PoolsAccounted
  BY SMTT(30), Zenon
<1>1. \A c \in Conns : conn[c] = FreeConn /\ req[c] = NoReq
  BY SMTT(30), Zenon DEF Init
<1>2. \A c \in Conns : ~InUse(c) /\ ~Client(c) /\ conn[c].request = "NULL"
                       /\ conn[c].write_event_handler = "NULL"
  BY <1>1, SMTT(30), Zenon DEF InUse, Client, FreeConn, NewConn
<1>3. ReqInv
  BY <1>1, <1>2, SMTT(30), Zenon DEF ReqInv, SlotReq
<1>4. Used = {} /\ LiveReqs = {}
  BY <1>2, SMTT(30), Zenon DEF Used, LiveReqs
<1>5. Cardinality(Used) = 0 /\ Cardinality(LiveReqs) = 0
  BY <1>4, FS_EmptySet, SMTT(30), Zenon
<1>6. pools = 0 /\ leaked = 0 /\ failures = 0
  BY SMTT(30), Zenon DEF Init
<1>7. PoolsAccounted
  BY <1>5, <1>6, SMTT(30), Zenon DEF PoolsAccounted, Used, LiveReqs
<1> QED
  BY <1>3, <1>7, SMTT(30), Zenon

(* ReqInv and PoolsAccounted are inductive relative to IInv: one step per  *)
(* action.                                                                 *)
LEMMA NextReqInv ==
    ASSUME IInv, ReqInv, PoolsAccounted, [Next]_vars
    PROVE  ReqInv' /\ PoolsAccounted' /\ LostStep
<1>1. CASE UNCHANGED vars \/ Ended
  BY <1>1, SameConns, SMTT(30), Zenon DEF Ended, vars, server, kernel, memory
<1>2. CASE InitNetworkFails
  BY <1>2, SameConns, SMTT(30), Zenon DEF InitNetworkFails, server, kernel, memory
<1>3. CASE init_network_mod
  BY <1>3, InitNetworkReq, SMTT(30), Zenon
<1>4. CASE Loop
  <2>1. CASE epoll_polling
    BY <2>1, PollReq
  <2>2. CASE tcp_server_accept
    BY <2>2, AcceptReq
  <2>3. CASE tcp_server_recv
    BY <2>3, RecvReq
  <2>4. CASE WriteEvent
    BY <2>4, WriteReq
  <2>5. CASE NoReadEvent \/ NullHandlerCalled \/ NoWriteEvent
    BY <2>5, SameConns, SMTT(30), ZenonT(30)
       DEF NoReadEvent, NullHandlerCalled, NoWriteEvent, server, kernel, memory
  <2>6. CASE CloseActive
    BY <2>6, CloseReq
  <2>7. CASE KeepActive
    BY <2>7, KeepReq
  <2> QED
    BY <1>4, <2>1, <2>2, <2>3, <2>4, <2>5, <2>6, <2>7, SMTT(30), Zenon DEF Loop
<1>5. CASE Clients
  BY <1>5, ClientsReq
<1> QED
  BY <1>1, <1>2, <1>3, <1>4, <1>5, SMTT(30), Zenon DEF Next

-----------------------------------------------------------------------------
RInv == IInv /\ ReqInv /\ PoolsAccounted

(* In every reachable state every connection will be registered for the    *)
(* events its request needs, whatever the handlers, the clients and the    *)
(* failures of system calls did before.                                    *)
THEOREM RequestInvariance == Spec => []RInv
<1>1. Init => RInv
  BY InitIInv, InitReq, CountLawsHold, SMTT(30), Zenon DEF RInv
<1>2. RInv /\ [Next]_vars => RInv'
  BY NextIInv, NextReqInv, CountLawsHold, SMTT(30), Zenon DEF RInv
<1> QED
  BY <1>1, <1>2, PTL DEF Spec

(* The live memory pools are those of the connections in use, of their     *)
(* requests, and at most one for every failure: every other path through   *)
(* tcp_server_accept, tcp_request_init, tcp_request_finish and             *)
(* tcp_free_connection creates and destroys pools in pairs.                *)
THEOREM PoolsCorrect == Spec => []PoolsAccounted
<1>1. RInv => PoolsAccounted
  BY SMTT(30), Zenon DEF RInv
<1> QED
  BY <1>1, RequestInvariance, PTL

(* When process_events waits, unsent bytes of a response are watched, and  *)
(* a connection is registered for writing exactly if its write handler is  *)
(* set: the handler that process_events calls without a test is not NULL   *)
(* unless a batch was reported before it was cleared.                      *)
THEOREM ResponsesWatched == Spec => []PendingResponseIsWatched
<1>1. RInv => PendingResponseIsWatched
  <2> SUFFICES ASSUME RInv, pc = "poll", NEW c \in Conns, InUse(c)
               PROVE  /\ req[c].pend > 0 => EV_WRITE_EVENT \in conn[c].events
                      /\ EV_WRITE_EVENT \in conn[c].events
                            <=> conn[c].write_event_handler = "tcp_server_send"
    BY DEF PendingResponseIsWatched
  <2>1. SlotInv(c) /\ SlotReq(c)
    BY DEF RInv, IInv, SlotsInv, ReqInv
  <2>2. Quiet(c)
    BY NullNoSlot, SMTT(30), Zenon DEF Quiet, RInv, IInv, CursorInv
  <2>3. conn[c].dead_events = {} /\ conn[c].add_events = {} /\ ~conn[c].close
    BY <2>1, <2>2, SMTT(30), Zenon DEF SlotInv
  <2>4. CASE Client(c)
    <3>1. ReqOK(conn[c], req[c], sock[conn[c].conn_fd].peer)
      BY <2>1, <2>4, ZenonT(30) DEF SlotReq
    <3> QED
      BY <2>3, <3>1, ZenonT(30) DEF ReqOK, Watched
  <2>5. CASE ~Client(c)
    <3>1. conn[c].conn_fd = sock_fd
      BY <2>5, SMTT(30), Zenon DEF Client
    <3>2. EV_WRITE_EVENT \notin conn[c].events /\ conn[c].write_event_handler = "NULL"
      BY <2>1, <2>5, <3>1, ZenonT(30) DEF SlotInv, SlotReq, EV_READ_EVENT, EV_WRITE_EVENT
    <3>3. req[c] = NoReq
      BY <2>1, <2>5 DEF SlotReq
    <3>4. NoReq.pend = 0
      BY SMTT(30), Zenon DEF NoReq, NewReq
    <3> QED
      BY <3>2, <3>3, <3>4
  <2> QED
    BY <2>4, <2>5, SMTT(30), Zenon
<1> QED
  BY <1>1, RequestInvariance, PTL

(* tcp_server_recv closes the connection of a client that is still there   *)
(* only when its request has filled the buffer and its response was held   *)
(* up.                                                                     *)
THEOREM CutOffExplained == Spec => []CutOffOnlyAfterBackpressure
<1>1. RInv => CutOffOnlyAfterBackpressure
  BY DEF RInv, ReqInv, SlotReq, ReqOK, CutOffOnlyAfterBackpressure
<1> QED
  BY <1>1, RequestInvariance, PTL

(* tcp_request_finish drops bytes of a response that its client waits for  *)
(* only when a left-over request's finish flag was set already.            *)
THEOREM LossExplained == Spec => LostOnlyIfLeftOver
<1>1. RInv /\ [Next]_vars =>
        [\A fd \in Fds : ~sock[fd].lost /\ sock'[fd].lost => req[epoll[fd].ptr].finish]_vars
  BY NextReqInv DEF RInv, LostStep
<1> QED
  BY <1>1, RequestInvariance, PTL DEF Spec, LostOnlyIfLeftOver
-----------------------------------------------------------------------------
(* The write handler that process_events calls. The third invariant says   *)
(* when it is NULL in spite of a write event; it is inductive relative to  *)
(* RInv.                                                                   *)
CallsNull(k) == EV_WRITE_EVENT \in k.active_events /\ k.write_event_handler = "NULL"

AfterRead(k) ==
    /\ k.active_events = Events /\ k.dead_events = {EV_WRITE_EVENT}
    /\ k.request = "NULL" /\ ~k.close

NullInv ==
    /\ pc \in {"write", "crashed"} /\ CallsNull(conn[active_conn]) => AfterRead(conn[active_conn])
    /\ pc = "crashed" => CallsNull(conn[active_conn])

(* before the read handler runs, a reported write event has its handler *)
LEMMA ReadHooked ==
    ASSUME IInv, ReqInv, pc = "read"
    PROVE  ~CallsNull(conn[active_conn])
<1> DEFINE a == active_conn
<1>1. a \in Conns /\ InUse(a) /\ SlotInv(a) /\ SlotReq(a)
  BY ActiveInUse, SMTT(30), Zenon DEF ReqInv
<1>2. CASE ~Client(a)
  <2>1. conn[a].active_events \subseteq {EV_READ_EVENT}
    BY <1>1, <1>2, ZenonT(30) DEF SlotInv, Client
  <2> QED
    BY <2>1, ZenonT(30) DEF CallsNull, EV_READ_EVENT, EV_WRITE_EVENT
<1>3. CASE Client(a)
  <2>1. /\ conn[a].active_events \subseteq conn[a].events
        /\ conn[a].dead_events = {} /\ ~conn[a].close
    BY <1>1, ZenonT(30) DEF SlotInv, Quiet
  <2>2. conn[a].write_event_handler = "tcp_server_send"
          <=> EV_WRITE_EVENT \in conn[a].events \ conn[a].dead_events
    BY <1>1, <1>3, <2>1, ZenonT(30) DEF SlotReq, ReqOK
  <2> QED
    BY <2>1, <2>2, ZenonT(30) DEF CallsNull
<1> QED
  BY <1>2, <1>3

LEMMA AcceptNull ==
    ASSUME IInv, ReqInv, tcp_server_accept
    PROVE  NullInv'
<1>1. /\ pc = "read" /\ pc' = "write" /\ active_conn' = active_conn
      /\ AcceptFails \/ AcceptRefused \/ AcceptUndone \/ Accepted
  BY ZenonT(30) DEF tcp_server_accept, Reading
<1>2. active_conn \in Conns /\ InUse(active_conn)
  BY <1>1, ActiveInUse, SMTT(30), Zenon
<1>3. connection_pool # NULL => connection_pool # active_conn
  <2>1. connection_pool # NULL => connection_pool \in Free
    BY <1>1, ListHead, SMTT(30), Zenon DEF IInv, FreeListSound, Free
  <2> QED
    BY <1>2, <2>1, ZenonT(30) DEF Free
<1>4. conn' = conn \/ \E r : connection_pool # NULL /\ conn' = [conn EXCEPT ![connection_pool] = r]
  BY <1>1, ZenonT(30) DEF AcceptFails, AcceptRefused, AcceptUndone, Accepted, server
<1>5. conn'[active_conn] = conn[active_conn]
  BY <1>2, <1>3, <1>4, SMTT(30), Zenon DEF IInv, TypeOK
<1>6. ~CallsNull(conn[active_conn])
  BY <1>1, ReadHooked
<1>7. ~CallsNull(conn'[active_conn'])
  BY <1>1, <1>5, <1>6, ZenonT(30)
<1> QED
  BY <1>1, <1>7, ZenonT(30) DEF NullInv

LEMMA RecvNull ==
    ASSUME IInv, ReqInv, tcp_server_recv
    PROVE  NullInv'
<1> DEFINE x == RecvContext
           a == active_conn
<1>1. /\ pc = "read" /\ pc' = "write" /\ active_conn' = a
      /\ EV_READ_EVENT \in conn[a].active_events
      /\ a \in Conns /\ Client(a)
  BY ReceivingClient, SMTT(30), Zenon DEF tcp_server_recv, Reading
<1>2. /\ x \in ContextRecord /\ Fresh(x) /\ Handled(Context(a), x)
  BY <1>1, RecvContextFresh, RecvContextHandled
<1>3. Hooked(x.c) /\ x.c \in ConnRecord
  BY <1>2, ZenonT(30) DEF Fresh, Hooked, ContextRecord
<1>4. SlotInv(a) /\ InUse(a) /\ conn[a] \in ConnRecord
  BY <1>1, ActiveInUse, SMTT(30), Zenon
<1> HIDE DEF x
<1>5. ASSUME NEW y, Handled(Context(a), y), Update(y), Unhooked(y.c)
      PROVE  NullInv'
  <2>1. /\ y.c.active_events = conn[a].active_events /\ y.c.events = conn[a].events
    BY <1>5, ZenonT(30) DEF Handled, Context
  <2>2. conn'[a] = y.c
    BY <1>1, <1>5, ZenonT(30) DEF Update, IInv, TypeOK
  <2>3. conn[a].active_events \subseteq conn[a].events /\ conn[a].active_events \subseteq Events
    BY <1>4, ZenonT(30) DEF SlotInv, ConnRecord
  <2>4. CallsNull(y.c) => AfterRead(y.c)
    <3> SUFFICES ASSUME CallsNull(y.c) PROVE AfterRead(y.c)
      OBVIOUS
    <3>1. y.c.dead_events = {EV_WRITE_EVENT} /\ y.c.request = "NULL" /\ ~y.c.close
      BY <1>5, <2>1, <2>3, ZenonT(30) DEF CallsNull, Unhooked
    <3>2. y.c.active_events = Events
      BY <1>1, <2>1, <2>3, ZenonT(30) DEF CallsNull, Events
    <3> QED
      BY <3>1, <3>2, ZenonT(30) DEF AfterRead
  <2>5. CallsNull(conn'[active_conn']) => AfterRead(conn'[active_conn'])
    BY <1>1, <2>2, <2>4, ZenonT(30)
  <2> QED
    BY <1>1, <2>5, ZenonT(30) DEF NullInv
<1>6. CASE RequestInitFails
  <2>1. conn' = conn
    BY <1>6 DEF RequestInitFails, server
  <2>2. ~CallsNull(conn'[active_conn'])
    BY <1>1, <2>1, ReadHooked, ZenonT(30)
  <2> QED
    BY <1>1, <2>2, ZenonT(30) DEF NullInv
<1>7. CASE RecvCloses
  <2> DEFINE y == [x EXCEPT !.c = CloseConn(x.c)]
  <2>1. Update(y)
    BY <1>7, ZenonT(30) DEF RecvCloses, x
  <2>2. Handled(Context(a), y)
    BY <1>2, CloseConnHandled, HandledTransitive, ZenonT(30)
  <2>3. y.c = CloseConn(x.c)
    BY <1>2, ZenonT(30) DEF ContextRecord
  <2>4. /\ CloseConn(x.c).events = x.c.events
        /\ CloseConn(x.c).write_event_handler = x.c.write_event_handler
    BY <1>3, ZenonT(30) DEF CloseConn, ConnRecord
  <2>5. Unhooked(CloseConn(x.c))
    BY <1>3, <2>4, ZenonT(30) DEF Unhooked, Hooked
  <2> HIDE DEF y
  <2> QED
    BY <1>5, <2>1, <2>2, <2>3, <2>5, ZenonT(30)
<1>8. CASE RecvAgain
  <2>1. Update(x) /\ Unhooked(x.c)
    BY <1>3, <1>8, ZenonT(30) DEF RecvAgain, Unhooked, Hooked, x
  <2> QED
    BY <1>2, <1>5, <2>1, ZenonT(30)
<1>9. CASE RecvBytes
  <2> DEFINE n == IF x.s.rx < x.r.room THEN x.s.rx ELSE x.r.room
             z(type) == [c |-> x.c,
                         r |-> [x.r EXCEPT !.room = @ - n, !.type = type],
                         s |-> [x.s EXCEPT !.rx = @ - n]]
  <2>1. n \in Nat /\ x.s.rx - n \in Nat /\ x.r.room - n \in Nat
    BY <1>2 DEF ContextRecord, ReqRecord, SockRecord
  <2>2. PICK p \in protocol_parse(x.r.type) : RecvParsed(p)
    BY <1>9 DEF RecvBytes, x
  <2>3. PICK alloc \in BOOLEAN : Update(tcp_request_process(z(p.type), p.ret, alloc))
    BY <2>2, Zenon DEF RecvParsed, x
  <2>4. p.type \in Types
    BY <1>2, SizesAssumption, ZenonT(30) DEF protocol_parse, ContextRecord, ReqRecord, Types
  <2>5. PICK w : w = z(p.type)
    BY Zenon
  <2>6. w.r \in ReqRecord
    BY <1>2, <2>1, <2>4, <2>5, ZenonT(30) DEF ContextRecord, ReqRecord
  <2>7. w.s \in SockRecord /\ w.s.open = x.s.open
    BY <1>2, <2>1, <2>5, ZenonT(30) DEF ContextRecord, SockRecord
  <2>8. w \in ContextRecord /\ w.c = x.c
    BY <1>2, <2>5, <2>6, <2>7, SMTT(30), Zenon DEF ContextRecord
  <2>9. Handled(x, w)
    BY <1>2, <2>7, <2>8, SMTT(30), Zenon DEF Handled
  <2>10. PICK y : y = tcp_request_process(w, p.ret, alloc)
    BY SMTT(30), Zenon
  <2>11. Handled(Context(a), y)
    BY <1>2, <2>8, <2>9, <2>10, ProcessHandled, HandledTransitive, SMTT(30), Zenon
  <2>12. Unhooked(y.c)
    BY <1>3, <2>8, <2>10, ProcessUnhooked, ZenonT(30)
  <2>13. Update(y)
    BY <2>3, <2>5, <2>10, ZenonT(30)
  <2> QED
    BY <1>5, <2>11, <2>12, <2>13, ZenonT(30)
<1> QED
  BY <1>6, <1>7, <1>8, <1>9, ZenonT(30) DEF tcp_server_recv

LEMMA NextNullInv ==
    ASSUME IInv, ReqInv, NullInv, [Next]_vars
    PROVE  NullInv'
<1>1. ASSUME pc' = pc, active_conn' = active_conn, conn' = conn
      PROVE  NullInv'
  BY <1>1, ZenonT(30) DEF NullInv
<1>2. ASSUME pc' \notin {"write", "crashed"}
      PROVE  NullInv'
  BY <1>2, ZenonT(30) DEF NullInv
<1>3. CASE UNCHANGED vars \/ Ended
  BY <1>1, <1>3, ZenonT(30) DEF Ended, vars, loop, server
<1>4. CASE Clients
  BY <1>1, <1>4, ZenonT(30)
     DEF Clients, ClientConnects, ClientSends, ClientReceives, ClientCloses, ClientResets,
         Peer, loop, server
<1>5. CASE InitNetworkFails \/ init_network_mod
  BY <1>2, <1>5, ZenonT(30) DEF InitNetworkFails, init_network_mod
<1>6. CASE epoll_polling
  BY <1>2, <1>6, SMTT(30), ZenonT(30) DEF epoll_polling
<1>7. CASE tcp_server_accept
  BY <1>7, AcceptNull
<1>8. CASE tcp_server_recv
  BY <1>8, RecvNull
<1>9. CASE NoReadEvent
  <2>1. pc = "read" /\ pc' = "write" /\ active_conn' = active_conn /\ conn' = conn
    BY <1>9, ZenonT(30) DEF NoReadEvent, server
  <2>2. ~CallsNull(conn'[active_conn'])
    BY <2>1, ReadHooked, ZenonT(30)
  <2> QED
    BY <2>1, <2>2, ZenonT(30) DEF NullInv
<1>10. CASE NullHandlerCalled
  <2>1. /\ pc = "write" /\ active_conn' = active_conn /\ conn' = conn
        /\ CallsNull(conn[active_conn])
    BY <1>10, ZenonT(30) DEF NullHandlerCalled, CallsNull, server
  <2>2. CallsNull(conn'[active_conn']) /\ AfterRead(conn'[active_conn'])
    BY <2>1, ZenonT(30) DEF NullInv
  <2> QED
    BY <2>2, ZenonT(30) DEF NullInv
<1>11. CASE WriteEvent \/ NoWriteEvent
  BY <1>2, <1>11, ZenonT(30) DEF WriteEvent, NoWriteEvent
<1>12. CASE CloseActive \/ KeepActive
  <2>1. pc' = "poll" \/ pc' = "read"
    BY <1>12, ZenonT(30) DEF CloseActive, KeepActive, NextActive
  <2> QED
    BY <1>2, <2>1, ZenonT(30)
<1> QED
  BY <1>3, <1>4, <1>5, <1>6, <1>7, <1>8, <1>9, <1>10, <1>11, <1>12, ZenonT(30) DEF Next, Loop

(* When process_events calls a NULL write handler, the same batch reported *)
(* both events of the connection, its read handler had just sent the last  *)
(* byte and finished the request, and nothing had failed on the            *)
(* connection: no other path through the handlers leads there.             *)
THEOREM NullHandlerExplained == Spec => []NullHandlerOnlyAfterRead
<1>1. Init => NullInv
  BY ZenonT(30) DEF Init, NullInv
<1>2. RInv /\ NullInv /\ [Next]_vars => NullInv'
  BY NextNullInv, ZenonT(30) DEF RInv
<1>3. NullInv => NullHandlerOnlyAfterRead
  BY ZenonT(30) DEF NullInv, AfterRead, NullHandlerOnlyAfterRead
<1> QED
  BY <1>1, <1>2, <1>3, RequestInvariance, PTL DEF Spec

=============================================================================
