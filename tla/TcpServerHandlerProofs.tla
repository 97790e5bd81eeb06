----------------------- MODULE TcpServerHandlerProofs -----------------------
(***************************************************************************)
(* The inductive invariant of TcpServer: it holds initially, and the steps *)
(* that run a handler keep it. The lemmas say what the handlers leave      *)
(* alone, and what pushing onto and popping from a list threaded through   *)
(* next does.                                                              *)
(***************************************************************************)
EXTENDS TcpServer, TLAPS

ContextRecord == [c : ConnRecord, r : ReqRecord, s : SockRecord]

-----------------------------------------------------------------------------
(* The handlers keep their context well-typed and leave alone what ties a  *)
(* connection to its descriptor.                                           *)

(* what a handler running on x may leave in y *)
Handled(x, y) ==
    /\ y \in ContextRecord
    /\ y.c.conn_fd = x.c.conn_fd /\ y.c.events = x.c.events
    /\ y.c.active_events = x.c.active_events
    /\ y.c.read_event_handler = x.c.read_event_handler
    /\ y.s.open = x.s.open
    /\ ((EV_READ_EVENT \in x.c.dead_events => x.c.close)
            => (EV_READ_EVENT \in y.c.dead_events => y.c.close))
    /\ (EV_READ_EVENT \notin x.c.add_events => EV_READ_EVENT \notin y.c.add_events)

LEMMA CloseConnHandled ==
    ASSUME NEW x \in ContextRecord
    PROVE  Handled(x, [x EXCEPT !.c = CloseConn(x.c)])
  BY Zenon DEF Handled, ContextRecord, ConnRecord, ReqRecord, SockRecord, CloseConn, Events,
         EV_READ_EVENT, EV_WRITE_EVENT

LEMMA SendHandled ==
    ASSUME NEW x \in ContextRecord
    PROVE  Handled(x, tcp_server_send(x))
<1>1. CASE x.c.request = "NULL"
  BY <1>1 DEF Handled, tcp_server_send
<1>2. CASE x.c.request # "NULL" /\ x.s.peer = "reset"
  BY <1>2, ZenonT(30)
     DEF tcp_server_send, Handled, ContextRecord, ConnRecord, ReqRecord, SockRecord,
              CloseConn, Events, EV_READ_EVENT, EV_WRITE_EVENT
<1>3. CASE x.c.request # "NULL" /\ x.s.peer # "reset" /\ x.r.pend > x.s.tx
  <2>1. x.r.pend - x.s.tx \in Nat
    BY <1>3 DEF ContextRecord, ReqRecord, SockRecord
  <2>2. tcp_server_send(x) = SendBlocks(x)
    BY <1>3 DEF tcp_server_send
  <2> QED
    BY <2>1, <2>2 DEF SendBlocks, Handled, ContextRecord, ConnRecord, ReqRecord,
                      SockRecord, Events, EV_READ_EVENT, EV_WRITE_EVENT
<1>4. CASE x.c.request # "NULL" /\ x.s.peer # "reset" /\ ~(x.r.pend > x.s.tx)
  <2> DEFINE y == SendCompletes(x)
  <2>1. x.s.tx - x.r.pend \in Nat
    BY <1>4 DEF ContextRecord, ReqRecord, SockRecord
  <2>2. tcp_server_send(x) = y
    BY <1>4 DEF tcp_server_send
  <2>3. y.r \in ReqRecord
    BY Zenon DEF SendCompletes, ContextRecord, ReqRecord
  <2>4. y.s \in SockRecord /\ y.s.open = x.s.open
    BY <2>1 DEF SendCompletes, ContextRecord, SockRecord
  <2>5. /\ y.c \in ConnRecord
        /\ y.c.conn_fd = x.c.conn_fd /\ y.c.events = x.c.events
        /\ y.c.active_events = x.c.active_events
        /\ y.c.read_event_handler = x.c.read_event_handler
        /\ y.c.request = x.c.request /\ y.c.close = x.c.close
        /\ y.c.add_events = x.c.add_events
        /\ EV_READ_EVENT \in y.c.dead_events => EV_READ_EVENT \in x.c.dead_events
    BY Zenon DEF SendCompletes, ContextRecord, ConnRecord, Events, EV_READ_EVENT, EV_WRITE_EVENT
  <2>6. y \in ContextRecord
    BY <2>3, <2>4, <2>5 DEF SendCompletes, ContextRecord
  <2> QED
    BY <2>2, <2>4, <2>5, <2>6 DEF Handled
<1> QED
  BY <1>1, <1>2, <1>3, <1>4

LEMMA HandledTransitive ==
    ASSUME NEW x, NEW y, NEW z, Handled(x, y), Handled(y, z)
    PROVE  Handled(x, z)
  BY DEF Handled

(* changing only the request is no more than a handler may do *)
LEMMA RequestHandled ==
    ASSUME NEW x \in ContextRecord, NEW r \in ReqRecord
    PROVE  Handled(x, [x EXCEPT !.r = r])
  BY DEF Handled, ContextRecord

LEMMA NewReqType == NewReq \in ReqRecord /\ NoReq \in ReqRecord
  BY SizesAssumption, Zenon
  DEF NewReq, NoReq, ReqRecord, req_buffer_size, Types

LEMMA GenerateType ==
    ASSUME NEW r \in ReqRecord
    PROVE  tcp_respone_generate(r) \in ReqRecord
  BY SizesAssumption DEF tcp_respone_generate, ReqRecord

LEMMA FinishHandled ==
    ASSUME NEW x \in ContextRecord
    PROVE  Handled(x, tcp_request_finish(x))
<1> DEFINE g == [x EXCEPT !.r = tcp_respone_generate(x.r)]
           y == tcp_server_send(g)
           z == [c |-> [y.c EXCEPT !.request = "NULL"],
                 r |-> NoReq,
                 s |-> [y.s EXCEPT !.lost = @ \/ (y.r.pend > 0 /\ ~y.c.close)]]
<1>1. Handled(x, g) /\ g \in ContextRecord
  BY GenerateType, RequestHandled DEF ContextRecord, Handled
<1>2. Handled(x, y)
  BY <1>1, SendHandled, HandledTransitive
<1> HIDE DEF y
<1>3. y \in ContextRecord
  BY <1>2 DEF Handled
<1>4. z.s \in SockRecord /\ z.s.open = y.s.open
  BY <1>3, Zenon DEF ContextRecord, SockRecord
<1>5. /\ z.c \in ConnRecord /\ z.c.request = "NULL"
      /\ z.c.conn_fd = y.c.conn_fd /\ z.c.events = y.c.events
      /\ z.c.active_events = y.c.active_events
      /\ z.c.read_event_handler = y.c.read_event_handler
      /\ z.c.close = y.c.close /\ z.c.dead_events = y.c.dead_events
      /\ z.c.add_events = y.c.add_events
  BY <1>3 DEF ContextRecord, ConnRecord
<1>6. z \in ContextRecord
  BY <1>4, <1>5, NewReqType DEF ContextRecord
<1>7. Handled(y, z)
  BY <1>4, <1>5, <1>6 DEF Handled
<1> QED
  BY <1>2, <1>7, HandledTransitive DEF tcp_request_finish, y

LEMMA ProcessHandled ==
    ASSUME NEW x \in ContextRecord, NEW ret, NEW alloc
    PROVE  Handled(x, tcp_request_process(x, ret, alloc))
<1>1. [x.r EXCEPT !.room = BUFFER_MIN_SIZE] \in ReqRecord
  BY SizesAssumption DEF ContextRecord, ReqRecord
<1>2. [x.r EXCEPT !.error = TRUE] \in ReqRecord
  BY Zenon DEF ContextRecord, ReqRecord
<1>3. Handled(x, x)
  BY DEF Handled
<1>4. Handled(x, [x EXCEPT !.r = [x.r EXCEPT !.room = BUFFER_MIN_SIZE]])
  BY <1>1, RequestHandled
<1>5. Handled(x, tcp_request_finish(x))
  BY FinishHandled
<1> DEFINE e == [x EXCEPT !.r = [x.r EXCEPT !.error = TRUE]]
<1>6. Handled(x, e) /\ e \in ContextRecord
  BY <1>2, RequestHandled, Zenon DEF Handled
<1>7. Handled(x, tcp_request_finish(e))
  BY <1>6, FinishHandled, HandledTransitive
<1> QED
  BY <1>3, <1>4, <1>5, <1>7 DEF tcp_request_process

(* A write handler that the read handler has cleared although writing is   *)
(* registered: the response is out, its request destroyed, and the         *)
(* registration about to be removed.                                       *)
Unhooked(k) ==
    EV_WRITE_EVENT \in k.events /\ k.write_event_handler = "NULL" =>
        k.dead_events = {EV_WRITE_EVENT} /\ k.request = "NULL" /\ ~k.close

(* what tcp_server_recv starts from: the handler is set while registered *)
Hooked(k) ==
    /\ k.request = "live" /\ ~k.close
    /\ EV_WRITE_EVENT \in k.events => k.write_event_handler # "NULL"

LEMMA FinishUnhooked ==
    ASSUME NEW x \in ContextRecord, Hooked(x.c)
    PROVE  Unhooked(tcp_request_finish(x).c)
<1> DEFINE g == [x EXCEPT !.r = tcp_respone_generate(x.r)]
           y == tcp_server_send(g)
           k == [y.c EXCEPT !.request = "NULL"]
           z == tcp_request_finish(x)
<1> SUFFICES Unhooked(z.c)
  OBVIOUS
<1>1. g \in ContextRecord /\ g.c = x.c
  BY GenerateType, RequestHandled DEF ContextRecord, Handled
<1>2. y \in ContextRecord
  BY <1>1, SendHandled DEF Handled
<1>3. z.c = IF y.r.finish THEN k ELSE y.c
  BY Zenon DEF tcp_request_finish
<1>4. /\ x.c \in ConnRecord /\ x.c.request = "live" /\ ~x.c.close
      /\ EV_WRITE_EVENT \in x.c.events => x.c.write_event_handler # "NULL"
  BY DEF Hooked, ContextRecord
<1> HIDE DEF g
<1>5. /\ k.request = "NULL" /\ k.close = y.c.close /\ k.events = y.c.events
      /\ k.dead_events = y.c.dead_events /\ k.write_event_handler = y.c.write_event_handler
  <2> HIDE DEF y
  <2> QED
    BY <1>2, Zenon DEF ContextRecord, ConnRecord
<1>6. CASE g.s.peer = "reset" \/ g.r.pend > g.s.tx
  <2>1. y.c = CloseConn(g.c) \/ y.c = [g.c EXCEPT !.add_events = {EV_WRITE_EVENT}]
    BY <1>1, <1>4, <1>6, Zenon DEF tcp_server_send, SendBlocks
  <2> HIDE DEF y, k, z
  <2>2. y.c.events = x.c.events /\ y.c.write_event_handler = x.c.write_event_handler
    <3>1. /\ CloseConn(x.c).events = x.c.events
          /\ CloseConn(x.c).write_event_handler = x.c.write_event_handler
      BY <1>4, Zenon DEF CloseConn, ConnRecord
    <3> DEFINE d == [x.c EXCEPT !.add_events = {EV_WRITE_EVENT}]
    <3>2. d.events = x.c.events /\ d.write_event_handler = x.c.write_event_handler
      BY <1>4, Zenon DEF ConnRecord
    <3> HIDE DEF d
    <3>3. y.c = CloseConn(x.c) \/ y.c = d
      BY <1>1, <2>1 DEF d
    <3> QED
      BY <3>1, <3>2, <3>3
  <2>3. z.c.events = x.c.events /\ z.c.write_event_handler = x.c.write_event_handler
    BY <1>3, <1>5, <2>2, ZenonT(30)
  <2> QED
    BY <1>4, <2>3, ZenonT(30) DEF Unhooked
<1>7. CASE ~ (g.s.peer = "reset" \/ g.r.pend > g.s.tx)
  <2>1. y = SendCompletes(g)
    BY <1>1, <1>4, <1>7 DEF tcp_server_send
  <2> HIDE DEF y, k, z
  <2>2. y.r.finish
    <3>1. SendCompletes(g).r.finish
      BY <1>1, Zenon DEF SendCompletes, ContextRecord, ReqRecord
    <3> QED
      BY <2>1, <3>1
  <2>3. /\ y.c.events = x.c.events /\ y.c.close = x.c.close
        /\ EV_WRITE_EVENT \in x.c.events => y.c.dead_events = {EV_WRITE_EVENT}
    <3>1. LET d == SendCompletes(g).c
          IN  /\ d.events = g.c.events /\ d.close = g.c.close
              /\ EV_WRITE_EVENT \in g.c.events => d.dead_events = {EV_WRITE_EVENT}
      BY <1>1, SMTT(30), Zenon DEF SendCompletes, ContextRecord, ConnRecord
    <3> QED
      BY <1>1, <2>1, <3>1
  <2>4. z.c = k
    BY <1>3, <2>2, ZenonT(30)
  <2>5. /\ z.c.events = x.c.events /\ z.c.request = "NULL" /\ z.c.close = x.c.close
        /\ z.c.dead_events = y.c.dead_events
    BY <1>5, <2>3, <2>4, ZenonT(30)
  <2> QED
    BY <1>4, <2>3, <2>5, ZenonT(30) DEF Unhooked
<1> QED
  BY <1>6, <1>7

LEMMA ProcessUnhooked ==
    ASSUME NEW x \in ContextRecord, Hooked(x.c), NEW ret, NEW alloc
    PROVE  Unhooked(tcp_request_process(x, ret, alloc).c)
<1> DEFINE m == [x EXCEPT !.r = [x.r EXCEPT !.room = BUFFER_MIN_SIZE]]
           e == [x EXCEPT !.r = [x.r EXCEPT !.error = TRUE]]
           z == tcp_request_process(x, ret, alloc)
<1>1. m.c = x.c
  BY DEF ContextRecord
<1>2. e \in ContextRecord /\ e.c = x.c
  BY Zenon DEF ContextRecord, ReqRecord
<1>3. z = x \/ z = m \/ z = tcp_request_finish(x) \/ z = tcp_request_finish(e)
  BY DEF tcp_request_process
<1> HIDE DEF m, e, z
<1>4. Unhooked(x.c)
  BY DEF Hooked, Unhooked
<1>5. Unhooked(tcp_request_finish(x).c) /\ Unhooked(tcp_request_finish(e).c)
  BY <1>2, FinishUnhooked, ZenonT(30)
<1>6. Unhooked(z.c)
  BY <1>1, <1>3, <1>4, <1>5, ZenonT(30)
<1> QED
  BY <1>6 DEF z

-----------------------------------------------------------------------------
(* Lists. *)

(* What the proofs use of the sizes of finite sets: the empty set has none, *)
(* a set of slots or descriptors has a size, which an element more or less  *)
(* changes by one, and a numbered set is as large as its numbers. It is     *)
(* proved in TcpServerProofs, the only module that needs the library's      *)
(* theorems.                                                                *)
CountLaws ==
    /\ Cardinality({}) = 0
    /\ \A S \in SUBSET Conns :
          /\ Cardinality(S) \in Nat /\ (Cardinality(S) = 0 => S = {})
          /\ \A c \in Conns \ S : Cardinality(S \cup {c}) = Cardinality(S) + 1
          /\ \A c \in S : Cardinality(S \ {c}) = Cardinality(S) - 1
          /\ \A n \in Nat : Bijection(1 .. n, S) # {} => Cardinality(S) = n
    /\ \A S \in SUBSET (Fds \cup {sock_fd}) :
          Cardinality(S) \in Nat /\ (Cardinality(S) = 0 => S = {})

LEMMA NullNoSlot == NULL \notin Conns
  BY DEF Conns, NULL

LEMMA EmptyList == ASSUME CountLaws, NEW nx PROVE IsList(nx, {}, NULL)
<1>1. Cardinality({}) = 0
  BY DEF CountLaws
<1>2. [c \in {} |-> 1] \in [{} -> 1 .. 0]
  OBVIOUS
<1> QED
  BY <1>1, <1>2, Zenon DEF IsList

(* a list depends on the links of its own slots only *)
LEMMA SameList ==
    ASSUME NEW nx, NEW ny, NEW S, NEW head, IsList(nx, S, head),
           \A c \in S : ny[c] = nx[c]
    PROVE  IsList(ny, S, head)
  BY DEF IsList

LEMMA ListHead ==
    ASSUME NEW nx, NEW S \in SUBSET Conns, NEW head, IsList(nx, S, head)
    PROVE  /\ head = NULL <=> S = {}
           /\ head # NULL => head \in S
  BY NullNoSlot DEF IsList

(* taking the head of a list *)
LEMMA ListPop ==
    ASSUME CountLaws, NEW nx, NEW ny, NEW S \in SUBSET Conns, NEW head \in S, IsList(nx, S, head),
           \A c \in S \ {head} : ny[c] = nx[c]
    PROVE  IsList(ny, S \ {head}, nx[head]) /\ nx[head] # head
<1> DEFINE n == Cardinality(S)
           T == S \ {head}
<1>1. n \in Nat /\ Cardinality(T) = n - 1 /\ Cardinality(T) \in Nat /\ NULL \notin S
  BY NullNoSlot DEF CountLaws
<1>2. PICK pos \in [S -> 1 .. n] :
        /\ \A c, d \in S : pos[c] = pos[d] => c = d
        /\ pos[head] = n
        /\ \A c \in S : IF pos[c] = 1 THEN nx[c] = NULL
                        ELSE nx[c] \in S /\ pos[nx[c]] = pos[c] - 1
  BY DEF IsList
<1> HIDE DEF n
<1> DEFINE q == [c \in T |-> pos[c]]
<1>3. \A c \in T : pos[c] \in 1 .. (n - 1)
  BY <1>1, <1>2
<1>4. q \in [T -> 1 .. Cardinality(T)]
  BY <1>1, <1>3
<1>5. \A c, d \in T : q[c] = q[d] => c = d
  BY <1>2
<1>6. \A c \in T : IF q[c] = 1 THEN ny[c] = NULL
                   ELSE ny[c] \in T /\ q[ny[c]] = q[c] - 1
  <2> SUFFICES ASSUME NEW c \in T, pos[c] # 1
               PROVE  nx[c] \in T /\ pos[nx[c]] = pos[c] - 1
    BY <1>2
  <2>1. nx[c] \in S /\ pos[nx[c]] = pos[c] - 1
    BY <1>2
  <2>2. nx[c] # head
    BY <1>1, <1>2, <1>3, <2>1
  <2> QED
    BY <2>1, <2>2
<1>7. IF T = {} THEN nx[head] = NULL ELSE nx[head] \in T /\ q[nx[head]] = Cardinality(T)
  <2>1. CASE T = {}
    <3>0. Cardinality({}) = 0
      BY Zenon DEF CountLaws
    <3>1. n = 1
      BY <2>1, <1>1, <3>0
    <3> QED
      BY <2>1, <3>1, <1>2
  <2>2. CASE T # {}
    <3>1. PICK c \in T : TRUE
      BY <2>2
    <3>2. n # 1
      BY <3>1, <1>1, <1>3
    <3>3. nx[head] \in S /\ pos[nx[head]] = n - 1
      BY <3>2, <1>2
    <3>4. nx[head] # head
      BY <3>3, <1>1, <1>2
    <3> QED
      BY <2>2, <3>3, <3>4, <1>1
  <2> QED
    BY <2>1, <2>2
<1>8. nx[head] # head
  BY <1>1, <1>7 DEF Conns, NULL
<1> HIDE DEF q
<1> QED
  BY <1>4, <1>5, <1>6, <1>7, <1>8, Zenon DEF IsList

(* pushing a slot on a list *)
LEMMA ListPush ==
    ASSUME CountLaws, NEW nx, NEW ny, NEW S \in SUBSET Conns, NEW head, IsList(nx, S, head),
           NEW c \in Conns, c \notin S, ny[c] = head, \A d \in S : ny[d] = nx[d]
    PROVE  IsList(ny, S \cup {c}, c)
<1> DEFINE n == Cardinality(S)
           T == S \cup {c}
<1>1. n \in Nat /\ Cardinality(T) = n + 1 /\ NULL \notin S
  BY NullNoSlot DEF CountLaws
<1>2. PICK pos \in [S -> 1 .. n] :
        /\ \A d, e \in S : pos[d] = pos[e] => d = e
        /\ IF S = {} THEN head = NULL ELSE head \in S /\ pos[head] = n
        /\ \A d \in S : IF pos[d] = 1 THEN nx[d] = NULL
                        ELSE nx[d] \in S /\ pos[nx[d]] = pos[d] - 1
  BY DEF IsList
<1>3. S = {} <=> n = 0
  BY Zenon DEF CountLaws
<1> HIDE DEF n
<1> DEFINE q == [d \in T |-> IF d = c THEN n + 1 ELSE pos[d]]
<1>4. q \in [T -> 1 .. Cardinality(T)]
  BY <1>1, <1>2
<1>5. \A d, e \in T : q[d] = q[e] => d = e
  BY <1>1, <1>2
<1>6. q[c] = Cardinality(T) /\ T # {} /\ c \in T
  BY <1>1, SMTT(30), Zenon
<1>7. \A d \in T : IF q[d] = 1 THEN ny[d] = NULL ELSE ny[d] \in T /\ q[ny[d]] = q[d] - 1
  <2> SUFFICES ASSUME NEW d \in T
               PROVE  IF q[d] = 1 THEN ny[d] = NULL ELSE ny[d] \in T /\ q[ny[d]] = q[d] - 1
    BY Zenon
  <2>1. CASE d = c
    BY <2>1, <1>1, <1>2, <1>3
  <2>2. CASE d # c
    BY <2>2, <1>1, <1>2
  <2> QED
    BY <2>1, <2>2
<1> HIDE DEF q
<1> QED
  BY <1>4, <1>5, <1>6, <1>7, Zenon DEF IsList

-----------------------------------------------------------------------------
(* The inductive invariant. *)

(* process_events has not started on the connection in this iteration *)
Quiet(c) == c # active_conn \/ pc = "read"

CursorInv ==
    /\ pc \in {"read", "write", "clean", "crashed"} =>
          active_conn \in Conns /\ active_conn \in Active
    /\ pc \in {"init", "exit", "poll"} => active_conn = NULL /\ active_conns = NULL
    /\ pc \in {"init", "exit"} => \A c \in Conns : ~InUse(c)

SlotInv(c) ==
    /\ ~InUse(c) => conn[c] = FreeConn
    /\ InUse(c) => /\ epoll[conn[c].conn_fd].ptr = c
                   /\ epoll[conn[c].conn_fd].events = conn[c].events
                   /\ EV_READ_EVENT \in conn[c].events
                   /\ conn[c].active_events \subseteq conn[c].events
    /\ Client(c) => /\ sock[conn[c].conn_fd].open
                    /\ conn[c].read_event_handler = "tcp_server_recv"
    /\ conn[c].conn_fd = sock_fd =>
          /\ conn[c].read_event_handler = "tcp_server_accept"
          /\ conn[c].events = {EV_READ_EVENT}
          /\ conn[c].active_events \subseteq {EV_READ_EVENT}
          /\ conn[c].dead_events = {} /\ conn[c].add_events = {} /\ ~conn[c].close
    /\ Quiet(c) => conn[c].dead_events = {} /\ conn[c].add_events = {} /\ ~conn[c].close
    /\ EV_READ_EVENT \in conn[c].dead_events => conn[c].close
    /\ EV_READ_EVENT \notin conn[c].add_events

SlotsInv == \A c \in Conns : SlotInv(c)

EpollInv ==
    /\ \A fd \in Fds \cup {sock_fd} :
          /\ epoll[fd].ptr = NULL => epoll[fd].events = {}
          /\ epoll[fd].ptr # NULL => conn[epoll[fd].ptr].conn_fd = fd
    /\ \A fd \in Fds : sock[fd].open => epoll[fd].ptr # NULL

BacklogInv ==
    \A c \in Conns :
        conn[c].conn_fd = sock_fd /\ c \in Active /\ Quiet(c) => backlog > 0

IInv == /\ TypeOK /\ CursorInv /\ SlotsInv /\ EpollInv /\ BacklogInv
        /\ FreeListSound /\ ActiveListSound

LEMMA InitIInv == CountLaws /\ Init => IInv
<1> SUFFICES ASSUME CountLaws, Init PROVE IInv
  OBVIOUS
<1>1. TypeOK
  <2>1. FreeConn \in ConnRecord
    BY DEF FreeConn, NewConn, ConnRecord, Events
  <2>2. NoReq \in ReqRecord /\ ClosedSock \in SockRecord /\ Unregistered \in Interest
    BY NewReqType DEF ClosedSock, SockRecord, Unregistered, Interest
  <2> QED
    BY <2>1, <2>2, SizesAssumption DEF Init, TypeOK
<1>2. \A c \in Conns : conn[c] = FreeConn /\ ~InUse(c) /\ c \notin Active /\ next[c] = NULL
  BY DEF Init, InUse, Active, FreeConn, NewConn
<1>3. CursorInv
  BY <1>2, SMTT(30), Zenon DEF Init, CursorInv
<1>4. SlotsInv
  BY <1>2 DEF SlotsInv, SlotInv, Client, InUse, FreeConn, NewConn, sock_fd, NO_FD
<1>5. EpollInv
  BY DEF Init, EpollInv, Unregistered, ClosedSock
<1>6. BacklogInv
  BY <1>2 DEF BacklogInv
<1>7. FreeListSound /\ ActiveListSound
  <2>1. Active = {}
    BY <1>2 DEF Active
  <2> QED
    BY <2>1, EmptyList, SMTT(30), Zenon DEF FreeListSound, ActiveListSound, Init
<1> QED
  BY <1>1, <1>3, <1>4, <1>5, <1>6, <1>7 DEF IInv

(* Steps that change neither the connections nor the kernel. *)
LEMMA IdleIInv ==
    ASSUME IInv, UNCHANGED <<connection_pool, next, conn, req, epoll, sock>>,
           UNCHANGED <<active_conn, active_conns>>,
           pc \in {"read", "write"}, pc' \in {"write", "clean", "crashed"},
           backlog' \in 0 .. MAX_BACKLOG, failures' \in 0 .. MAX_FAIL,
           pools' \in Int, leaked' \in Nat,
           backlog' = backlog \/ conn[active_conn].conn_fd = sock_fd
    PROVE  IInv'
<1>1. TypeOK'
  BY DEF IInv, TypeOK
<1>2. CursorInv'
  BY SMTT(30), Zenon DEF IInv, CursorInv, Active
<1>3. SlotsInv'
  BY DEF IInv, SlotsInv, SlotInv, Client, InUse, Quiet
<1>4. EpollInv'
  BY DEF IInv, EpollInv
<1>5. BacklogInv'
  <2> SUFFICES ASSUME NEW c \in Conns, conn[c].conn_fd = sock_fd, c \in Active, Quiet(c)'
               PROVE  backlog' > 0
    BY DEF BacklogInv, Active
  <2>1. c # active_conn /\ Quiet(c)
    BY DEF Quiet
  <2>2. active_conn \in Conns
    BY SMTT(30), Zenon DEF IInv, CursorInv
  <2>3. conn[active_conn].conn_fd # sock_fd
    BY <2>1, <2>2 DEF IInv, SlotsInv, SlotInv, InUse, sock_fd, NO_FD
  <2> QED
    BY <2>1, <2>3 DEF IInv, BacklogInv
<1>6. FreeListSound'
  <2>1. Free' = Free
    BY DEF Free, InUse
  <2>2. pc \notin {"init", "exit"}
    BY SMTT(30), Zenon
  <2> QED
    BY <2>1, <2>2 DEF IInv, FreeListSound, IsList
<1>7. ActiveListSound'
  <2>1. Active' = Active
    BY DEF Active
  <2> QED
    BY <2>1 DEF IInv, ActiveListSound, IsList, InUse
<1> QED
  BY <1>1, <1>2, <1>3, <1>4, <1>5, <1>6, <1>7 DEF IInv

(* what the invariant says of one slot, and of two *)
LEMMA SlotOf ==
    ASSUME IInv, NEW c \in Conns
    PROVE  SlotInv(c) /\ conn[c] \in ConnRecord
  BY DEF IInv, SlotsInv, TypeOK

LEMMA FdsDistinct == \A g \in Fds : g # NO_FD /\ g # sock_fd
  BY SizesAssumption DEF Fds, NO_FD, sock_fd

LEMMA FdType ==
    ASSUME IInv, NEW c \in Conns
    PROVE  /\ InUse(c) => conn[c].conn_fd \in Fds \cup {sock_fd}
           /\ Client(c) => conn[c].conn_fd \in Fds
  BY SlotOf DEF ConnRecord, InUse, Client

LEMMA OtherFd ==
    ASSUME IInv, NEW c \in Conns, NEW d \in Conns, InUse(c), InUse(d), c # d
    PROVE  conn[d].conn_fd # conn[c].conn_fd
<1>1. epoll[conn[c].conn_fd].ptr = c /\ epoll[conn[d].conn_fd].ptr = d
  BY SlotOf, SMTT(30), Zenon DEF SlotInv
<1> QED
  BY <1>1, SMTT(30), Zenon

(* a slot that a step leaves alone *)
LEMMA SameSlot ==
    ASSUME NEW c \in Conns, SlotInv(c), conn'[c] = conn[c], Quiet(c)' => Quiet(c),
           InUse(c) => epoll'[conn[c].conn_fd] = epoll[conn[c].conn_fd],
           Client(c) => sock'[conn[c].conn_fd].open = sock[conn[c].conn_fd].open
    PROVE  SlotInv(c)'
<1>1. (InUse(c)' <=> InUse(c)) /\ (Client(c)' <=> Client(c))
  BY DEF InUse, Client
<1> QED
  BY <1>1, SMTT(30), Zenon DEF SlotInv

(* a step that changes neither a connection, a list nor a registration *)
LEMMA SameServerIInv ==
    ASSUME IInv, TypeOK', pc' = pc \/ (pc = "init" /\ pc' = "exit"),
           UNCHANGED <<active_conn, active_conns, connection_pool, next, conn, epoll>>,
           \A fd \in Fds : sock'[fd].open = sock[fd].open,
           backlog' >= backlog
    PROVE  IInv'
<1>1. \A c \in Conns : /\ InUse(c)' <=> InUse(c)
                       /\ Client(c)' <=> Client(c)
                       /\ c \in Active' <=> c \in Active
  BY SMTT(30), Zenon DEF InUse, Client, Active
<1>2. Free' = Free /\ Active' = Active
  BY <1>1 DEF Free, Active
<1>3. \A c \in Conns : Quiet(c)' => Quiet(c)
  BY SMTT(30), Zenon DEF Quiet
<1>4. CursorInv'
  BY <1>1, <1>2, SMTT(30), Zenon DEF IInv, CursorInv
<1>5. SlotsInv'
  <2> SUFFICES ASSUME NEW c \in Conns PROVE SlotInv(c)'
    BY DEF SlotsInv
  <2>1. SlotInv(c)
    BY DEF IInv, SlotsInv
  <2>2. Client(c) => conn[c].conn_fd \in Fds
    BY FdType
  <2> QED
    BY <2>1, <2>2, <1>3, SameSlot
<1>6. EpollInv'
  BY DEF IInv, EpollInv
<1>7. BacklogInv'
  <2> SUFFICES ASSUME NEW c \in Conns, conn[c].conn_fd = sock_fd, c \in Active, Quiet(c)
               PROVE  backlog' > 0
    BY <1>2, <1>3 DEF BacklogInv
  <2>1. backlog > 0
    BY DEF IInv, BacklogInv
  <2>2. backlog \in Int /\ backlog' \in Int
    BY DEF IInv, TypeOK
  <2> QED
    BY <2>1, <2>2
<1>8. FreeListSound'
  BY <1>2, SMTT(30), Zenon DEF IInv, FreeListSound
<1>9. ActiveListSound'
  <2>1. \A c \in Active : InUse(c)
    BY SMTT(30), Zenon DEF IInv, ActiveListSound
  <2>2. \A c \in Active' : InUse(c)'
    BY <1>1, <1>2, <2>1 DEF Active
  <2> QED
    BY <1>2, <2>2 DEF IInv, ActiveListSound
<1> QED
  BY <1>4, <1>5, <1>6, <1>7, <1>8, <1>9 DEF IInv

(* Steps that run a handler on the active connection. *)
LEMMA UpdateIInv ==
    ASSUME IInv, NEW y, Handled(Context(active_conn), y), Update(y),
           Client(active_conn), UNCHANGED <<active_conn, active_conns>>,
           pc \in {"read", "write"}, pc' \in {"write", "clean"},
           failures' \in 0 .. MAX_FAIL
    PROVE  IInv'
<1> DEFINE a == active_conn
           fd == conn[a].conn_fd
<1>1. a \in Conns /\ a \in Active /\ InUse(a)
  BY DEF IInv, CursorInv, Client
<1>2. fd \in Fds
  BY <1>1, SMTT(30), Zenon DEF IInv, TypeOK, ConnRecord, Client, InUse
<1>3. /\ y.c \in ConnRecord /\ y.r \in ReqRecord /\ y.s \in SockRecord
      /\ y.c.conn_fd = fd /\ y.c.events = conn[a].events
      /\ y.c.active_events = conn[a].active_events
      /\ y.c.read_event_handler = conn[a].read_event_handler
      /\ y.s.open = sock[fd].open
      /\ EV_READ_EVENT \in y.c.dead_events => y.c.close
      /\ EV_READ_EVENT \notin y.c.add_events
  <2>1. SlotInv(a)
    BY <1>1, SMTT(30), Zenon DEF IInv, SlotsInv
  <2>2. /\ EV_READ_EVENT \in conn[a].dead_events => conn[a].close
        /\ EV_READ_EVENT \notin conn[a].add_events
    BY <1>1, <2>1, ZenonT(30) DEF SlotInv
  <2> QED
    BY <2>2 DEF Handled, Context, ContextRecord
<1>4. /\ conn' = [conn EXCEPT ![a] = y.c] /\ req' = [req EXCEPT ![a] = y.r]
      /\ sock' = [sock EXCEPT ![fd] = y.s] /\ pools' \in Int
      /\ UNCHANGED <<connection_pool, next, epoll, backlog, leaked>>
  BY <1>3 DEF Update, IInv, TypeOK
<1>5. TypeOK'
  BY <1>3, <1>4, Zenon DEF IInv, TypeOK
<1>6. /\ conn'[a] = y.c
      /\ \A c \in Conns : c # a => conn'[c] = conn[c]
  BY <1>1, <1>4, SMTT(30), Zenon DEF IInv, TypeOK
<1>7. \A c \in Conns : /\ InUse(c)' <=> InUse(c)
                       /\ Client(c)' <=> Client(c)
                       /\ c \in Active' <=> c \in Active
                       /\ conn'[c].conn_fd = conn[c].conn_fd
  BY <1>1, <1>3, <1>6, SMTT(30), ZenonT(30) DEF InUse, Client, Active
<1>8. \A g \in Fds : sock'[g].open = sock[g].open
  BY <1>2, <1>3, <1>4, SMTT(30), Zenon DEF IInv, TypeOK
<1>9. CursorInv'
  BY <1>1, <1>7, Zenon DEF IInv, CursorInv
<1>10. SlotsInv'
  <2> SUFFICES ASSUME NEW c \in Conns PROVE SlotInv(c)'
    BY DEF SlotsInv
  <2>1. CASE c = a
    <3>1. SlotInv(a)
      BY <1>1 DEF IInv, SlotsInv
    <3>2. fd # sock_fd /\ ~Quiet(a)'
      BY <1>2, SMTT(30), Zenon DEF Fds, sock_fd, Quiet
    <3>3. /\ InUse(a)' /\ epoll'[fd] = epoll[fd] /\ sock'[fd].open = sock[fd].open
          /\ conn'[a].conn_fd = fd
      BY <1>1, <1>2, <1>4, <1>7, <1>8, SMTT(30), Zenon
    <3>4. /\ epoll[fd].ptr = a /\ epoll[fd].events = conn[a].events
          /\ EV_READ_EVENT \in conn[a].events
          /\ conn[a].active_events \subseteq conn[a].events
          /\ sock[fd].open /\ conn[a].read_event_handler = "tcp_server_recv"
      BY <3>1, <1>1, SMTT(30), Zenon DEF SlotInv
    <3>5. conn'[a].events = conn[a].events /\ conn'[a].active_events = conn[a].active_events
      BY <1>3, <1>6
    <3>6. sock'[fd].open
      BY <3>3, <3>4, Zenon
    <3>7. /\ epoll'[conn'[a].conn_fd].ptr = a
          /\ epoll'[conn'[a].conn_fd].events = conn'[a].events
          /\ EV_READ_EVENT \in conn'[a].events
          /\ conn'[a].active_events \subseteq conn'[a].events
          /\ sock'[conn'[a].conn_fd].open
      BY <3>3, <3>4, <3>5, <3>6, ZenonT(30)
    <3>8. /\ conn'[a].conn_fd # sock_fd
          /\ conn'[a].read_event_handler = "tcp_server_recv"
          /\ EV_READ_EVENT \in conn'[a].dead_events => conn'[a].close
          /\ EV_READ_EVENT \notin conn'[a].add_events
      BY <3>2, <3>3, <3>4, <1>3, <1>6, SMTT(30), Zenon
    <3> QED
      BY <2>1, <3>2, <3>3, <3>7, <3>8, Zenon DEF SlotInv
  <2>2. CASE c # a
    <3>1. SlotInv(c) /\ conn'[c] = conn[c] /\ Quiet(c)
      BY <2>2, <1>6 DEF IInv, SlotsInv, Quiet
    <3>2. Client(c) => conn[c].conn_fd \in Fds
      BY FdType, SMTT(30), Zenon
    <3> QED
      BY <3>1, <3>2, <1>4, <1>8, SameSlot, ZenonT(30)
  <2> QED
    BY <2>1, <2>2
<1>11. EpollInv'
  BY <1>4, <1>7, <1>8, SMTT(30), Zenon DEF IInv, EpollInv, TypeOK, Interest
<1>12. BacklogInv'
  BY <1>2, <1>4, <1>6, <1>7, SMTT(30), Zenon DEF IInv, BacklogInv, Quiet, Fds, sock_fd
<1>13. FreeListSound'
  <2>1. Free' = Free
    BY <1>7 DEF Free
  <2>2. pc \notin {"init", "exit"}
    BY SMTT(30), Zenon
  <2> QED
    BY <2>1, <2>2, <1>4, SMTT(30), Zenon DEF IInv, FreeListSound, IsList
<1>14. ActiveListSound'
  <2>1. Active' = Active
    BY <1>7, SMTT(30), Zenon DEF Active
  <2>2. \A c \in Active : InUse(c)'
    BY <1>7 DEF IInv, ActiveListSound, Active
  <2> QED
    BY <2>1, <2>2, <1>4, SMTT(30), Zenon DEF IInv, ActiveListSound, IsList
<1> QED
  BY <1>5, <1>9, <1>10, <1>11, <1>12, <1>13, <1>14 DEF IInv

LEMMA ActiveInUse ==
    ASSUME IInv, pc \in {"read", "write", "clean"}
    PROVE  /\ active_conn \in Conns /\ active_conn \in Active /\ InUse(active_conn)
           /\ conn[active_conn] \in ConnRecord /\ SlotInv(active_conn)
<1>1. active_conn \in Conns /\ active_conn \in Active
  BY DEF IInv, CursorInv
<1>2. InUse(active_conn)
  BY <1>1, SMTT(30), Zenon DEF IInv, ActiveListSound
<1> QED
  BY <1>1, <1>2 DEF IInv, TypeOK, SlotsInv

LEMMA ContextType ==
    ASSUME IInv, active_conn \in Conns, Client(active_conn)
    PROVE  Context(active_conn) \in ContextRecord
  BY DEF IInv, TypeOK, Context, ContextRecord, ConnRecord, Client, InUse

LEMMA RecvContextHandled ==
    ASSUME IInv, active_conn \in Conns, Client(active_conn)
    PROVE  /\ RecvContext \in ContextRecord
           /\ Handled(Context(active_conn), RecvContext)
<1> DEFINE x == Context(active_conn)
           z == [c |-> [x.c EXCEPT !.request = "live"], r |-> NewReq, s |-> x.s]
<1>1. x \in ContextRecord
  BY ContextType
<1> HIDE DEF x
<1>2. /\ z.c \in ConnRecord /\ z.c.request = "live"
      /\ z.c.conn_fd = x.c.conn_fd /\ z.c.events = x.c.events
      /\ z.c.active_events = x.c.active_events
      /\ z.c.read_event_handler = x.c.read_event_handler
      /\ z.c.close = x.c.close /\ z.c.dead_events = x.c.dead_events
      /\ z.c.add_events = x.c.add_events
  BY <1>1 DEF ContextRecord, ConnRecord
<1>3. z \in ContextRecord /\ z.s = x.s
  BY <1>1, <1>2, NewReqType DEF ContextRecord
<1>4. Handled(x, z)
  BY <1>2, <1>3 DEF Handled
<1>5. Handled(x, x)
  BY <1>1 DEF Handled
<1> QED
  BY <1>1, <1>3, <1>4, <1>5 DEF RecvContext, x

(* whatever read returns, tcp_server_recv does what a handler may do *)
LEMMA RecvHandled ==
    ASSUME IInv, active_conn \in Conns, Client(active_conn), RecvCloses \/ RecvAgain \/ RecvBytes
    PROVE  \E y : /\ Handled(Context(active_conn), y) /\ Update(y)
                  /\ Fail \/ UNCHANGED failures
<1> DEFINE x == RecvContext
<1>1. x \in ContextRecord /\ Handled(Context(active_conn), x)
  BY RecvContextHandled
<1>2. CASE RecvCloses
  <2>1. Handled(Context(active_conn), [x EXCEPT !.c = CloseConn(x.c)])
    BY <1>1, CloseConnHandled, HandledTransitive, ZenonT(30)
  <2> QED
    BY <1>2, <2>1 DEF RecvCloses
<1>3. CASE RecvAgain
  BY <1>1, <1>3 DEF RecvAgain
<1>4. CASE RecvBytes
  <2> DEFINE n == IF x.s.rx < x.r.room THEN x.s.rx ELSE x.r.room
             z(type) == [c |-> x.c,
                         r |-> [x.r EXCEPT !.room = @ - n, !.type = type],
                         s |-> [x.s EXCEPT !.rx = @ - n]]
  <2>1. /\ n \in Nat /\ x.s.rx - n \in Nat /\ x.r.room - n \in Nat
    BY <1>1 DEF ContextRecord, ReqRecord, SockRecord
  <2>2. PICK p \in protocol_parse(x.r.type) : RecvParsed(p)
    BY <1>4 DEF RecvBytes
  <2>3. PICK alloc \in BOOLEAN :
              /\ Update(tcp_request_process(z(p.type), p.ret, alloc))
              /\ Fail \/ UNCHANGED failures
    BY <2>2, Zenon DEF RecvParsed
  <2>4. p.type \in Types
    BY <1>1, SizesAssumption, ZenonT(30) DEF protocol_parse, ContextRecord, ReqRecord, Types
  <2>5. z(p.type).r \in ReqRecord
    BY <1>1, <2>1, <2>4, Zenon DEF ContextRecord, ReqRecord
  <2>6. z(p.type).s \in SockRecord /\ z(p.type).s.open = x.s.open
    BY <1>1, <2>1 DEF ContextRecord, SockRecord
  <2>7. z(p.type) \in ContextRecord /\ z(p.type).c = x.c
    BY <1>1, <2>5, <2>6 DEF ContextRecord
  <2>8. Handled(x, z(p.type))
    BY <2>6, <2>7 DEF Handled
  <2>9. Handled(Context(active_conn), tcp_request_process(z(p.type), p.ret, alloc))
    BY <1>1, <2>7, <2>8, ProcessHandled, HandledTransitive, SMTT(30), Zenon
  <2> QED
    BY <2>3, <2>9
<1> QED
  BY <1>2, <1>3, <1>4

LEMMA ReceivingClient ==
    ASSUME IInv, Reading("tcp_server_recv")
    PROVE  active_conn \in Conns /\ Client(active_conn)
  BY ActiveInUse DEF Reading, SlotInv, Client

LEMMA RecvIInv == IInv /\ tcp_server_recv => IInv'
<1> SUFFICES ASSUME IInv, tcp_server_recv PROVE IInv'
  OBVIOUS
<1>1. pc = "read" /\ pc' = "write" /\ UNCHANGED <<active_conn, active_conns>>
  BY DEF tcp_server_recv, Reading
<1>2. active_conn \in Conns /\ Client(active_conn)
  BY ReceivingClient DEF tcp_server_recv
<1>3. ASSUME Fail \/ UNCHANGED failures PROVE failures' \in 0 .. MAX_FAIL
  BY <1>3, SizesAssumption DEF Fail, IInv, TypeOK
<1>4. CASE RequestInitFails
  <2>1. UNCHANGED <<connection_pool, next, conn, req, epoll, sock, backlog>> /\ Fail
    BY <1>4 DEF RequestInitFails, server, kernel
  <2>2. pools' \in Int /\ leaked' \in Nat
    BY <1>4 DEF RequestInitFails, IInv, TypeOK
  <2>3. backlog' \in 0 .. MAX_BACKLOG
    BY <2>1 DEF IInv, TypeOK
  <2> QED
    BY <1>1, <1>3, <2>1, <2>2, <2>3, IdleIInv, SMTT(30), Zenon
<1>5. CASE RecvCloses \/ RecvAgain \/ RecvBytes
  BY <1>1, <1>2, <1>3, <1>5, RecvHandled, UpdateIInv, SMTT(30), Zenon
<1> QED
  BY <1>4, <1>5 DEF tcp_server_recv

LEMMA WriteIInv == IInv /\ WriteEvent => IInv'
<1> SUFFICES ASSUME IInv, WriteEvent PROVE IInv'
  OBVIOUS
<1>1. /\ pc = "write" /\ pc' = "clean" /\ UNCHANGED <<active_conn, active_conns, failures>>
      /\ EV_WRITE_EVENT \in conn[active_conn].active_events
      /\ Update(tcp_server_send(Context(active_conn)))
  BY SMTT(30), Zenon DEF WriteEvent
<1>2. active_conn \in Conns /\ Client(active_conn)
  BY <1>1, ActiveInUse DEF SlotInv, Client, EV_READ_EVENT, EV_WRITE_EVENT
<1>3. Handled(Context(active_conn), tcp_server_send(Context(active_conn)))
  BY <1>2, ContextType, SendHandled, SMTT(30), Zenon
<1>4. failures' \in 0 .. MAX_FAIL
  BY <1>1 DEF IInv, TypeOK
<1> QED
  BY <1>1, <1>2, <1>3, <1>4, UpdateIInv, SMTT(30), Zenon

-----------------------------------------------------------------------------
(* The read handler of the listening socket. *)

(* the record of an accepted connection *)
AcceptedConn(fd) == add_event(NewConn(fd), {EV_READ_EVENT}, "tcp_server_recv")

LEMMA AcceptedConnFields ==
    ASSUME NEW fd \in Fds
    PROVE  LET r == AcceptedConn(fd)
           IN  /\ r \in ConnRecord
               /\ r.conn_fd = fd /\ r.events = {EV_READ_EVENT} /\ r.active_events = {}
               /\ r.dead_events = {} /\ r.add_events = {} /\ ~r.close
               /\ r.read_event_handler = "tcp_server_recv" /\ r.request = "NULL"
  BY Zenon DEF AcceptedConn, add_event, NewConn, ConnRecord, Events, EV_READ_EVENT, EV_WRITE_EVENT

LEMMA AcceptedIInv ==
    ASSUME CountLaws, IInv, Accepted, pc = "read", pc' = "write", backlog > 0,
           conn[active_conn].conn_fd = sock_fd, UNCHANGED <<active_conn, active_conns>>
    PROVE  IInv'
<1>0. PICK c : c = connection_pool
  OBVIOUS
<1>1. PICK fd \in FreeFds :
        /\ connection_pool' = next[c]
        /\ next' = [next EXCEPT ![c] = NULL]
        /\ conn' = [conn EXCEPT ![c] = AcceptedConn(fd)]
        /\ epoll' = [epoll EXCEPT ![fd] = Registered(c, AcceptedConn(fd).events)]
        /\ sock' = [sock EXCEPT ![fd] = NewSock]
  BY <1>0, ZenonT(30) DEF Accepted, AcceptedConn
<1>2. /\ c \in Conns /\ ~InUse(c) /\ conn[c] = FreeConn
      /\ IsList(next, Free, c) /\ c \in Free
      /\ backlog' = backlog - 1 /\ pools' = pools + 1 /\ UNCHANGED <<req, leaked, failures>>
  <2>1. connection_pool \in Free
    BY ListHead DEF Accepted, IInv, FreeListSound, Free
  <2> QED
    BY <1>0, <2>1, ZenonT(30) DEF FreeListSound, Accepted, Free, IInv, SlotsInv, SlotInv
<1>3. active_conn \in Conns /\ InUse(active_conn) /\ c # active_conn
  BY <1>2, ActiveInUse
<1>4. fd \in Fds /\ ~sock[fd].open
  BY SMTT(30), Zenon DEF FreeFds
<1>5. epoll[fd].ptr = NULL
  <2> SUFFICES ASSUME epoll[fd].ptr # NULL PROVE FALSE
    BY SMTT(30), Zenon
  <2>1. epoll[fd].ptr \in Conns /\ conn[epoll[fd].ptr].conn_fd = fd
    BY <1>4, SMTT(30), Zenon DEF IInv, TypeOK, Interest, EpollInv
  <2> QED
    BY <1>4, <2>1 DEF IInv, SlotsInv, SlotInv, Client, InUse, Fds, sock_fd, NO_FD
<1> DEFINE r == AcceptedConn(fd)
<1>6. /\ r \in ConnRecord
      /\ r.conn_fd = fd /\ r.events = {EV_READ_EVENT} /\ r.active_events = {}
      /\ r.dead_events = {} /\ r.add_events = {} /\ ~r.close
      /\ r.read_event_handler = "tcp_server_recv" /\ r.request = "NULL"
  BY <1>4, AcceptedConnFields, ZenonT(30)
<1> HIDE DEF r
<1>7. Registered(c, r.events) = [ptr |-> c, events |-> {EV_READ_EVENT}]
  BY <1>6, SMTT(30), ZenonT(30) DEF Registered
<1>8. /\ conn'[c] = r /\ \A d \in Conns : d # c => conn'[d] = conn[d]
      /\ next' \in [Conns -> Conns \cup {NULL}]
      /\ next'[c] = NULL /\ \A d \in Conns : d # c => next'[d] = next[d]
  BY <1>1, <1>2, SMTT(30), Zenon DEF IInv, TypeOK, r
<1>9. /\ epoll'[fd].ptr = c /\ epoll'[fd].events = {EV_READ_EVENT}
      /\ \A g \in Fds \cup {sock_fd} : g # fd => epoll'[g] = epoll[g]
      /\ sock'[fd].open /\ \A g \in Fds : g # fd => sock'[g] = sock[g]
  BY <1>1, <1>4, <1>7, SMTT(30), Zenon DEF IInv, TypeOK, NewSock, r
<1>10. /\ InUse(c)' /\ Client(c)' /\ c \notin Active'
       /\ \A d \in Conns : d # c => /\ InUse(d)' <=> InUse(d)
                                    /\ Client(d)' <=> Client(d)
                                    /\ d \in Active' <=> d \in Active
  <2>1. fd # NO_FD /\ fd # sock_fd
    BY <1>4, FdsDistinct, Zenon
  <2>2. InUse(c)' /\ Client(c)' /\ c \notin Active'
    BY <1>6, <1>8, <2>1, ZenonT(30) DEF InUse, Client, Active
  <2> QED
    BY <1>8, <2>2, ZenonT(30) DEF InUse, Client, Active
<1>11. c \notin Active
  <2>1. FreeConn.active_events = {}
    BY SMTT(30), Zenon DEF FreeConn, NewConn
  <2> QED
    BY <1>2, <2>1, ZenonT(30) DEF Active
<1>12. \A d \in Conns : InUse(d) => conn[d].conn_fd # fd
  <2> SUFFICES ASSUME NEW d \in Conns, InUse(d), conn[d].conn_fd = fd PROVE FALSE
    OBVIOUS
  <2>1. SlotInv(d)
    BY SMTT(30), Zenon DEF IInv, SlotsInv
  <2>2. epoll[fd].ptr = d
    BY <2>1, ZenonT(30) DEF SlotInv
  <2> QED
    BY <2>2, <1>5, NullNoSlot, ZenonT(30)
<1>13. TypeOK'
  <2>1. NewSock \in SockRecord /\ Registered(c, r.events) \in Interest
    BY <1>2, <1>7, SizesAssumption, SMTT(30), Zenon DEF NewSock, SockRecord, Interest, Events
  <2>2. backlog' \in 0 .. MAX_BACKLOG
    <3>1. backlog \in 0 .. MAX_BACKLOG /\ backlog > 0
      BY ZenonT(30) DEF IInv, TypeOK
    <3> QED
      BY <1>2, <3>1, SizesAssumption, SMTT(30)
  <2>3. conn' \in [Conns -> ConnRecord]
    BY <1>1, <1>6, Zenon DEF IInv, TypeOK, r
  <2>4. epoll' \in [Fds \cup {sock_fd} -> Interest] /\ sock' \in [Fds -> SockRecord]
    BY <1>1, <2>1, Zenon DEF IInv, TypeOK, r
  <2> QED
    BY <1>1, <1>2, <1>8, <2>2, <2>3, <2>4, SMTT(30), Zenon DEF IInv, TypeOK
<1>14. CursorInv'
  BY <1>3, <1>10 DEF IInv, CursorInv
<1>15. SlotsInv'
  <2> SUFFICES ASSUME NEW d \in Conns PROVE SlotInv(d)'
    BY DEF SlotsInv
  <2>1. CASE d = c
    <3>1. fd # sock_fd
      BY <1>4 DEF Fds, sock_fd
    <3> QED
      BY <2>1, <3>1, <1>6, <1>8, <1>9, <1>10, Zenon DEF SlotInv
  <2>2. CASE d # c
    <3>1. SlotInv(d) /\ conn'[d] = conn[d] /\ (Quiet(d)' => Quiet(d))
      BY <2>2, <1>8 DEF IInv, SlotsInv, Quiet
    <3>2. InUse(d) => conn[d].conn_fd # fd /\ conn[d].conn_fd \in Fds \cup {sock_fd}
      BY <1>12 DEF IInv, TypeOK, ConnRecord, InUse
    <3>3. Client(d) => conn[d].conn_fd # fd /\ conn[d].conn_fd \in Fds
      BY <3>2, SMTT(30), Zenon DEF Client
    <3> QED
      BY <2>2, <3>1, <3>2, <3>3, <1>9, <1>10, ZenonT(30) DEF SlotInv
  <2> QED
    BY <2>1, <2>2
<1>16. EpollInv'
  <2>1. \A g \in Fds \cup {sock_fd} : epoll[g].ptr # NULL => epoll[g].ptr # c
    BY <1>2 DEF IInv, EpollInv, InUse, NO_FD, Fds, sock_fd
  <2>2. \A g \in Fds \cup {sock_fd} : epoll[g].ptr \in Conns \cup {NULL}
    BY SMTT(30), Zenon DEF IInv, TypeOK, Interest
  <2>3. ASSUME NEW g \in Fds \cup {sock_fd}
        PROVE  /\ epoll'[g].ptr = NULL => epoll'[g].events = {}
               /\ epoll'[g].ptr # NULL => conn'[epoll'[g].ptr].conn_fd = g
    <3>1. CASE g = fd
      BY <3>1, <1>2, <1>6, <1>8, <1>9, SMTT(30), Zenon DEF NULL, Conns
    <3>2. CASE g # fd
      BY <3>2, <2>1, <2>2, <1>8, <1>9, SMTT(30), Zenon DEF IInv, EpollInv
    <3> QED
      BY <3>1, <3>2, SMTT(30), Zenon
  <2>4. ASSUME NEW g \in Fds, sock'[g].open PROVE epoll'[g].ptr # NULL
    <3>1. c # NULL
      BY <1>2, SMTT(30), Zenon DEF NULL, Conns
    <3>2. g # fd => epoll[g].ptr # NULL
      BY <2>4, <1>9, ZenonT(30) DEF IInv, EpollInv
    <3> QED
      BY <1>9, <3>1, <3>2, ZenonT(30)
  <2> QED
    BY <2>3, <2>4, SMTT(30), Zenon DEF EpollInv
<1>17. BacklogInv'
  <2> SUFFICES ASSUME NEW d \in Conns, conn'[d].conn_fd = sock_fd, d \in Active', Quiet(d)'
               PROVE  FALSE
    BY SMTT(30), Zenon DEF BacklogInv
  <2>1. d # c /\ d # active_conn
    BY <1>10, SMTT(30), Zenon DEF Quiet
  <2>2. conn[d].conn_fd = sock_fd
    BY <2>1, <1>8, SMTT(30), Zenon
  <2> QED
    BY <2>1, <2>2, <1>3, SMTT(30), Zenon DEF IInv, SlotsInv, SlotInv, InUse, sock_fd, NO_FD
<1>18. FreeListSound'
  <2>1. Free' = Free \ {c}
    BY <1>2, <1>10 DEF Free
  <2>3. IsList(next', Free \ {c}, next[c])
    BY <1>2, <1>8, ListPop, ZenonT(30) DEF Free
  <2> QED
    BY <2>1, <2>3, <1>1, SMTT(30), Zenon DEF FreeListSound
<1>19. ActiveListSound'
  <2>1. Active' = Active
    BY <1>10, <1>11, SMTT(30), Zenon DEF Active
  <2>2. IsList(next', Active, active_conn)
    BY <1>8, <1>11, SameList, SMTT(30), Zenon DEF IInv, ActiveListSound, Active
  <2>3. \A d \in Active : InUse(d)'
    BY <1>10, <1>11 DEF IInv, ActiveListSound, Active
  <2> QED
    BY <2>1, <2>2, <2>3, SMTT(30), Zenon DEF ActiveListSound, IsList
<1> QED
  BY <1>13, <1>14, <1>15, <1>16, <1>17, <1>18, <1>19 DEF IInv

LEMMA AcceptIInv == CountLaws /\ IInv /\ tcp_server_accept => IInv'
<1> SUFFICES ASSUME CountLaws, IInv, tcp_server_accept PROVE IInv'
  BY SMTT(30), Zenon
<1>1. /\ pc = "read" /\ pc' = "write" /\ UNCHANGED <<active_conn, active_conns>>
      /\ conn[active_conn].read_event_handler = "tcp_server_accept"
  BY SMTT(30), Zenon DEF tcp_server_accept, Reading
<1>2. active_conn \in Active /\ active_conn \in Conns /\ conn[active_conn].conn_fd = sock_fd
  BY <1>1, ActiveInUse, ZenonT(30) DEF SlotInv, Client
<1>3. backlog > 0
  BY <1>1, <1>2, SMTT(30), Zenon DEF IInv, BacklogInv, Quiet
<1>4. /\ backlog - 1 \in 0 .. MAX_BACKLOG /\ backlog \in 0 .. MAX_BACKLOG
      /\ failures \in 0 .. MAX_FAIL
  BY <1>3, SizesAssumption, SMTT(30), Zenon DEF IInv, TypeOK
<1>5. Fail => failures' \in 0 .. MAX_FAIL
  BY <1>4, SizesAssumption, SMTT(30), Zenon DEF Fail
<1>6. CASE AcceptFails \/ AcceptRefused
  <2>1. /\ UNCHANGED <<connection_pool, next, conn, req, epoll, sock, pools, leaked>>
        /\ backlog' \in 0 .. MAX_BACKLOG /\ failures' \in 0 .. MAX_FAIL
    BY <1>4, <1>5, <1>6, SMTT(30), Zenon DEF AcceptFails, AcceptRefused, server, kernel
  <2>2. pools' \in Int /\ leaked' \in Nat
    BY <2>1, SMTT(30), Zenon DEF IInv, TypeOK
  <2> QED
    BY <1>1, <1>2, <2>1, <2>2, IdleIInv, SMTT(30), Zenon
<1>7. CASE AcceptUndone
  <2>1. connection_pool \in Free
    BY <1>1, <1>7, ListHead, SMTT(30), Zenon DEF AcceptUndone, IInv, FreeListSound, Free
  <2>2. conn[connection_pool] = FreeConn /\ connection_pool \in Conns
    BY <2>1, SMTT(30), Zenon DEF Free, IInv, SlotsInv, SlotInv
  <2>3. conn' = conn
    BY <1>7, <2>2, SMTT(30), Zenon DEF AcceptUndone, IInv, TypeOK
  <2>4. /\ UNCHANGED <<connection_pool, next, conn, req, epoll, sock, pools, leaked>>
        /\ backlog' \in 0 .. MAX_BACKLOG /\ failures' \in 0 .. MAX_FAIL
    BY <1>4, <1>5, <1>7, <2>3, SMTT(30), Zenon DEF AcceptUndone
  <2>5. pools' \in Int /\ leaked' \in Nat
    BY <2>4 DEF IInv, TypeOK
  <2> QED
    BY <1>1, <1>2, <2>4, <2>5, IdleIInv
<1>8. CASE Accepted
  BY <1>1, <1>2, <1>3, <1>8, AcceptedIInv, SMTT(30), Zenon
<1> QED
  BY <1>6, <1>7, <1>8 DEF tcp_server_accept

-----------------------------------------------------------------------------
(* Leaving the active connection: whatever is active lies ahead. *)
LEMMA NextActiveInv ==
    ASSUME CountLaws, IInv, pc = "clean", NextActive(next[active_conn]),
           Active' = Active \ {active_conn},
           \A c \in Active \ {active_conn} : next'[c] = next[c] /\ InUse(c)'
    PROVE  /\ ActiveListSound' /\ CursorInv'
           /\ active_conn' \in Conns \cup {NULL} /\ active_conns' \in Conns \cup {NULL}
           /\ pc' \in {"poll", "read"}
           /\ \A c \in Conns : Quiet(c)'
<1> DEFINE n == next[active_conn]
<1>1. active_conn \in Active /\ Active \in SUBSET Conns
  BY ActiveInUse DEF Active
<1>2. IsList(next', Active', active_conn')
  BY <1>1, ListPop, Zenon DEF IInv, ActiveListSound, NextActive
<1>3. active_conn' = n /\ pc' = (IF n = NULL THEN "poll" ELSE "read")
  BY SMTT(30), Zenon DEF NextActive
<1>4. n \in Conns \cup {NULL} /\ (n # NULL => n \in Active')
  BY <1>1, <1>2, <1>3, ListHead, SMTT(30), Zenon DEF IInv, TypeOK
<1>5. ActiveListSound'
  BY <1>2, SMTT(30), Zenon DEF ActiveListSound
<1>6. CursorInv'
  <2>1. n = NULL => active_conns' = NULL
    BY SMTT(30), Zenon DEF NextActive
  <2> QED
    BY <1>3, <1>4, <2>1, SMTT(30), Zenon DEF CursorInv
<1>7. active_conns' \in Conns \cup {NULL}
  BY SMTT(30), Zenon DEF NextActive, IInv, TypeOK
<1>8. \A c \in Conns : Quiet(c)'
  BY <1>3 DEF Quiet, Conns, NULL
<1> QED
  BY <1>3, <1>4, <1>5, <1>6, <1>7, <1>8, SMTT(30), Zenon

LEMMA CloseIInv == CountLaws /\ IInv /\ CloseActive => IInv'
<1> SUFFICES ASSUME CountLaws, IInv, CloseActive PROVE IInv'
  OBVIOUS
<1>1. PICK a : a = active_conn
  BY SMTT(30), Zenon
<1>2. /\ a \in Conns /\ a \in Active /\ InUse(a) /\ conn[a].close /\ SlotInv(a)
      /\ conn[a] \in ConnRecord /\ pc = "clean" /\ a \notin Free
  BY <1>1, ActiveInUse DEF CloseActive, Free
<1>3. PICK fd : fd = conn[a].conn_fd
  BY SMTT(30), Zenon
<1>4. fd \in Fds /\ fd # sock_fd /\ Client(a)
  BY <1>2, <1>3, ZenonT(30) DEF SlotInv, Client, InUse, ConnRecord
<1>5. /\ NextActive(next[active_conn])
      /\ sock' = [sock EXCEPT ![fd] = ClosedSock]
      /\ epoll' = [epoll EXCEPT ![fd] = Unregistered]
      /\ conn' = [conn EXCEPT ![a] = FreeConn]
      /\ req' = [req EXCEPT ![a] = NoReq]
      /\ next' = [next EXCEPT ![a] = connection_pool]
      /\ connection_pool' = a
      /\ pools' = pools - FreedPools(conn[a])
      /\ UNCHANGED <<backlog, leaked, failures>>
  BY <1>1, <1>3, SMTT(30), Zenon DEF CloseActive, AfterClosed, FreedNext
<1>6. /\ conn'[a] = FreeConn /\ \A d \in Conns : d # a => conn'[d] = conn[d]
      /\ next'[a] = connection_pool /\ \A d \in Conns : d # a => next'[d] = next[d]
      /\ epoll'[fd] = Unregistered
      /\ \A g \in Fds \cup {sock_fd} : g # fd => epoll'[g] = epoll[g]
      /\ sock'[fd] = ClosedSock /\ \A g \in Fds : g # fd => sock'[g] = sock[g]
  BY <1>2, <1>4, <1>5, SMTT(30), Zenon DEF IInv, TypeOK
<1>7. /\ ~InUse(a)' /\ ~Client(a)' /\ a \notin Active'
      /\ \A d \in Conns : d # a => /\ InUse(d)' <=> InUse(d)
                                   /\ Client(d)' <=> Client(d)
                                   /\ d \in Active' <=> d \in Active
  <2>1. FreeConn.conn_fd = NO_FD /\ FreeConn.active_events = {}
    BY SMTT(30), Zenon DEF FreeConn, NewConn
  <2>2. ~InUse(a)' /\ ~Client(a)' /\ a \notin Active'
    BY <1>6, <2>1, ZenonT(30) DEF InUse, Client, Active
  <2> QED
    BY <1>6, <2>2, ZenonT(30) DEF InUse, Client, Active
<1>8. Active' = Active \ {a} /\ Free' = Free \cup {a}
  BY <1>2, <1>7, ZenonT(30) DEF Active, Free
<1>9. \A d \in Active \ {a} : next'[d] = next[d] /\ InUse(d)'
  BY <1>6, <1>7, SMTT(30), ZenonT(30) DEF Active, IInv, ActiveListSound
<1>10. /\ ActiveListSound' /\ CursorInv'
       /\ active_conn' \in Conns \cup {NULL} /\ active_conns' \in Conns \cup {NULL}
       /\ pc' \in {"poll", "read"}
       /\ \A d \in Conns : Quiet(d)'
  BY <1>1, <1>2, <1>5, <1>8, <1>9, NextActiveInv, SMTT(30), Zenon
<1>11. \A d \in Conns : InUse(d) /\ d # a => conn[d].conn_fd # fd
  BY <1>2, <1>3, OtherFd, SMTT(30), Zenon
<1>12. TypeOK'
  <2>1. FreeConn \in ConnRecord /\ NoReq \in ReqRecord /\ ClosedSock \in SockRecord
        /\ Unregistered \in Interest
    BY NewReqType, ZenonT(30)
       DEF FreeConn, NewConn, ConnRecord, ClosedSock, SockRecord, Unregistered,
       Interest, Events
  <2>2. pools' \in Int
    BY <1>5 DEF FreedPools, IInv, TypeOK
  <2>3. /\ conn' \in [Conns -> ConnRecord] /\ req' \in [Conns -> ReqRecord]
        /\ epoll' \in [Fds \cup {sock_fd} -> Interest] /\ sock' \in [Fds -> SockRecord]
        /\ next' \in [Conns -> Conns \cup {NULL}]
    BY <1>5, <2>1, Zenon DEF IInv, TypeOK
  <2> QED
    BY <1>2, <1>5, <1>10, <2>2, <2>3, SMTT(30), Zenon DEF IInv, TypeOK
<1>13. SlotsInv'
  <2> SUFFICES ASSUME NEW d \in Conns PROVE SlotInv(d)'
    BY SMTT(30), Zenon DEF SlotsInv
  <2>1. CASE d = a
    <3>1. conn'[a] = FreeConn /\ ~InUse(a)' /\ ~Client(a)'
      BY <1>6, <1>7, ZenonT(30) DEF Client
    <3>2. FreeConn.conn_fd # sock_fd
      BY SMTT(30), Zenon DEF FreeConn, NewConn, sock_fd, NO_FD
    <3>3. FreeConn.dead_events = {} /\ FreeConn.add_events = {} /\ ~FreeConn.close
      BY SMTT(30), Zenon DEF FreeConn, NewConn
    <3> QED
      BY <2>1, <3>1, <3>2, <3>3, SMTT(30), Zenon DEF SlotInv
  <2>2. CASE d # a
    <3>1. SlotInv(d) /\ conn'[d] = conn[d] /\ Quiet(d)
      BY <2>2, <1>1, <1>6, SMTT(30), Zenon DEF IInv, SlotsInv, Quiet
    <3>2. InUse(d) => conn[d].conn_fd # fd /\ conn[d].conn_fd \in Fds \cup {sock_fd}
      BY <2>2, <1>11, FdType, SMTT(30), Zenon
    <3>3. Client(d) => conn[d].conn_fd # fd /\ conn[d].conn_fd \in Fds
      BY <3>2, SMTT(30), Zenon DEF Client
    <3> QED
      BY <3>1, <3>2, <3>3, <1>6, SameSlot, ZenonT(30)
  <2> QED
    BY <2>1, <2>2
<1>14. EpollInv'
  <2>1. \A g \in Fds \cup {sock_fd} : epoll[g].ptr = a => g = fd
    BY <1>2, <1>3, SMTT(30), Zenon DEF IInv, EpollInv, NULL, Conns
  <2>2. \A g \in Fds \cup {sock_fd} : epoll[g].ptr \in Conns \cup {NULL}
    BY SMTT(30), Zenon DEF IInv, TypeOK, Interest
  <2>3. ASSUME NEW g \in Fds \cup {sock_fd}
        PROVE  /\ epoll'[g].ptr = NULL => epoll'[g].events = {}
               /\ epoll'[g].ptr # NULL => conn'[epoll'[g].ptr].conn_fd = g
    <3>1. CASE g = fd
      BY <3>1, <1>6, SMTT(30), Zenon DEF Unregistered
    <3>2. CASE g # fd
      BY <3>2, <2>1, <2>2, <1>6, SMTT(30), Zenon DEF IInv, EpollInv
    <3> QED
      BY <3>1, <3>2, SMTT(30), Zenon
  <2>4. ASSUME NEW g \in Fds, sock'[g].open PROVE epoll'[g].ptr # NULL
    <3>1. \A h \in Fds : sock[h].open => epoll[h].ptr # NULL
      BY SMTT(30), Zenon DEF IInv, EpollInv
    <3> QED
      BY <2>4, <1>6, <3>1, SMTT(30), Zenon DEF ClosedSock
  <2> QED
    BY <2>3, <2>4, SMTT(30), Zenon DEF EpollInv
<1>15. BacklogInv'
  <2> SUFFICES ASSUME NEW d \in Conns, conn'[d].conn_fd = sock_fd, d \in Active'
               PROVE  backlog > 0
    BY <1>5, SMTT(30), Zenon DEF BacklogInv
  <2>1. d # a /\ d \in Active /\ conn[d].conn_fd = sock_fd
    BY <1>6, <1>7, Zenon
  <2> QED
    BY <2>1, <1>1, SMTT(30), Zenon DEF IInv, BacklogInv, Quiet
<1>16. FreeListSound'
  <2>1. IsList(next, Free, connection_pool)
    BY <1>2, SMTT(30), Zenon DEF IInv, FreeListSound
  <2>2. IsList(next', Free \cup {a}, a)
    BY <1>2, <1>6, <2>1, ListPush, SMTT(30), Zenon DEF Free
  <2> QED
    BY <1>5, <1>8, <2>2, SMTT(30), Zenon DEF FreeListSound
<1> QED
  BY <1>10, <1>12, <1>13, <1>14, <1>15, <1>16 DEF IInv

(* what the end of the loop body makes of a connection that stays *)
KeptConn(r) ==
    [add_event(del_event(r), r.add_events, "tcp_server_send")
        EXCEPT !.add_events = {}, !.active_events = {}]

LEMMA KeptConnFields ==
    ASSUME NEW r \in ConnRecord, EV_READ_EVENT \notin r.add_events
    PROVE  LET k == KeptConn(r)
           IN  /\ k \in ConnRecord
               /\ k.conn_fd = r.conn_fd
               /\ k.events = (r.events \ r.dead_events) \cup r.add_events
               /\ k.active_events = {} /\ k.dead_events = {} /\ k.add_events = {}
               /\ k.close = r.close /\ k.request = r.request
               /\ k.read_event_handler = r.read_event_handler
<1> DEFINE d == del_event(r)
           e == add_event(d, r.add_events, "tcp_server_send")
           k == KeptConn(r)
<1>1. /\ d \in ConnRecord /\ d.events = r.events \ r.dead_events /\ d.dead_events = {}
      /\ d.conn_fd = r.conn_fd /\ d.close = r.close /\ d.request = r.request
      /\ d.read_event_handler = r.read_event_handler
  BY Zenon DEF del_event, ConnRecord, Events
<1> HIDE DEF d
<1>2. /\ e \in ConnRecord /\ e.events = d.events \cup r.add_events
      /\ e.dead_events = d.dead_events
      /\ e.conn_fd = d.conn_fd /\ e.close = d.close /\ e.request = d.request
      /\ e.read_event_handler = d.read_event_handler
  BY <1>1, ZenonT(30) DEF add_event, ConnRecord, Events
<1> HIDE DEF e
<1>3. k = [e EXCEPT !.add_events = {}, !.active_events = {}]
  BY DEF KeptConn, e, d
<1>4. /\ k \in ConnRecord /\ k.events = e.events /\ k.dead_events = e.dead_events
      /\ k.conn_fd = e.conn_fd /\ k.close = e.close /\ k.request = e.request
      /\ k.read_event_handler = e.read_event_handler
      /\ k.add_events = {} /\ k.active_events = {}
  BY <1>2, <1>3, ZenonT(30) DEF ConnRecord
<1> QED
  BY <1>1, <1>2, <1>4

LEMMA KeepIInv == CountLaws /\ IInv /\ KeepActive => IInv'
<1> SUFFICES ASSUME CountLaws, IInv, KeepActive PROVE IInv'
  OBVIOUS
<1>1. PICK a : a = active_conn
  OBVIOUS
<1>2. /\ a \in Conns /\ a \in Active /\ InUse(a) /\ ~conn[a].close /\ SlotInv(a)
      /\ conn[a] \in ConnRecord /\ pc = "clean"
  BY <1>1, ActiveInUse DEF KeepActive
<1>3. PICK k : k = KeptConn(conn[a])
  BY SMTT(30), Zenon
<1>4. /\ k \in ConnRecord
      /\ k.conn_fd = conn[a].conn_fd
      /\ k.events = (conn[a].events \ conn[a].dead_events) \cup conn[a].add_events
      /\ k.active_events = {} /\ k.dead_events = {} /\ k.add_events = {}
      /\ ~k.close /\ k.request = conn[a].request
      /\ k.read_event_handler = conn[a].read_event_handler
  <2>1. EV_READ_EVENT \notin conn[a].add_events
    BY <1>2 DEF SlotInv
  <2> QED
    BY <1>2, <1>3, <2>1, KeptConnFields, SMTT(30), Zenon
<1>5. EV_READ_EVENT \in k.events /\ k.events \in SUBSET Events
  BY <1>2, <1>4, ZenonT(30) DEF SlotInv, ConnRecord
<1>6. PICK fd : fd = conn[a].conn_fd
  BY ZenonT(30)
<1>7. fd \in Fds \cup {sock_fd}
  BY <1>2, <1>6 DEF InUse, ConnRecord
<1>8. /\ NextActive(next[active_conn])
      /\ conn' = [conn EXCEPT ![a] = k]
      /\ epoll' = [epoll EXCEPT ![fd] = [ptr |-> a, events |-> k.events]]
      /\ UNCHANGED <<connection_pool, next, req, sock, backlog, pools, leaked, failures>>
  BY <1>1, <1>3, <1>4, <1>5, <1>6, ZenonT(30) DEF KeepActive, KeptConn, Registered, memory
<1>9. /\ conn'[a] = k /\ \A d \in Conns : d # a => conn'[d] = conn[d]
      /\ epoll'[fd].ptr = a /\ epoll'[fd].events = k.events
      /\ \A g \in Fds \cup {sock_fd} : g # fd => epoll'[g] = epoll[g]
  BY <1>2, <1>7, <1>8, SMTT(30), Zenon DEF IInv, TypeOK
<1>10. /\ a \notin Active'
       /\ \A d \in Conns : /\ InUse(d)' <=> InUse(d)
                           /\ Client(d)' <=> Client(d)
                           /\ conn'[d].conn_fd = conn[d].conn_fd
                           /\ d # a => (d \in Active' <=> d \in Active)
  BY <1>4, <1>9, SMTT(30), Zenon DEF InUse, Client, Active
<1>11. Active' = Active \ {a} /\ Free' = Free
  BY <1>10, Zenon DEF Active, Free
<1>12. \A d \in Active \ {a} : next'[d] = next[d] /\ InUse(d)'
  BY <1>8, <1>10, ZenonT(30) DEF Active, IInv, ActiveListSound
<1>13. /\ ActiveListSound' /\ CursorInv'
       /\ active_conn' \in Conns \cup {NULL} /\ active_conns' \in Conns \cup {NULL}
       /\ pc' \in {"poll", "read"}
       /\ \A d \in Conns : Quiet(d)'
  BY <1>1, <1>2, <1>8, <1>11, <1>12, NextActiveInv, SMTT(30), Zenon
<1>14. \A d \in Conns : InUse(d) /\ d # a => conn[d].conn_fd # fd
  BY <1>2, <1>6, OtherFd, SMTT(30), Zenon
<1>15. TypeOK'
  <2>1. [ptr |-> a, events |-> k.events] \in Interest
    BY <1>2, <1>5, Zenon DEF Interest
  <2>2. conn' \in [Conns -> ConnRecord] /\ epoll' \in [Fds \cup {sock_fd} -> Interest]
    BY <1>4, <1>8, <2>1, ZenonT(30) DEF IInv, TypeOK
  <2> QED
    BY <1>8, <1>13, <2>2, SMTT(30), Zenon DEF IInv, TypeOK
<1>16. SlotsInv'
  <2> SUFFICES ASSUME NEW d \in Conns PROVE SlotInv(d)'
    BY DEF SlotsInv
  <2>1. CASE d = a
    <3>1. fd = sock_fd => k.events = {EV_READ_EVENT}
      BY <1>2, <1>4, <1>6, ZenonT(30) DEF SlotInv
    <3>2. /\ k.active_events \subseteq k.events
          /\ fd = sock_fd => k.read_event_handler = "tcp_server_accept"
      BY <1>2, <1>4, <1>6, Zenon DEF SlotInv
    <3>3. /\ InUse(a)'
          /\ Client(a)' => sock'[fd].open /\ k.read_event_handler = "tcp_server_recv"
      BY <1>2, <1>4, <1>6, <1>8, <1>10, ZenonT(30) DEF SlotInv
    <3> QED
      BY <2>1, <3>1, <3>2, <3>3, <1>4, <1>5, <1>6, <1>9, ZenonT(30) DEF SlotInv
  <2>2. CASE d # a
    <3>1. SlotInv(d) /\ conn'[d] = conn[d] /\ Quiet(d)
      BY <2>2, <1>1, <1>9, SMTT(30), Zenon DEF IInv, SlotsInv, Quiet
    <3>2. InUse(d) => conn[d].conn_fd # fd /\ conn[d].conn_fd \in Fds \cup {sock_fd}
      BY <2>2, <1>14, FdType
    <3>3. InUse(d) => epoll'[conn[d].conn_fd] = epoll[conn[d].conn_fd]
      BY <3>2, <1>9, SMTT(30), Zenon
    <3>4. sock' = sock
      BY <1>8, SMTT(30), Zenon
    <3> QED
      BY <3>1, <3>3, <3>4, SameSlot, ZenonT(30)
  <2> QED
    BY <2>1, <2>2
<1>17. EpollInv'
  <2>1. \A g \in Fds \cup {sock_fd} : epoll[g].ptr \in Conns \cup {NULL}
    BY DEF IInv, TypeOK, Interest
  <2>2. ASSUME NEW g \in Fds \cup {sock_fd}
        PROVE  /\ epoll'[g].ptr = NULL => epoll'[g].events = {}
               /\ epoll'[g].ptr # NULL => conn'[epoll'[g].ptr].conn_fd = g
    <3>1. CASE g = fd
      BY <3>1, <1>2, <1>6, <1>9, <1>10, SMTT(30), Zenon DEF NULL, Conns
    <3>2. CASE g # fd
      <4>1. /\ epoll[g].ptr = NULL => epoll[g].events = {}
            /\ epoll[g].ptr # NULL => conn[epoll[g].ptr].conn_fd = g
        BY SMTT(30), Zenon DEF IInv, EpollInv
      <4>2. epoll'[g] = epoll[g]
        BY <3>2, <1>9, <1>10, ZenonT(30)
      <4> QED
        BY <2>1, <1>9, <1>10, <4>1, <4>2, SMTT(30), Zenon
    <3> QED
      BY <3>1, <3>2
  <2>3. ASSUME NEW g \in Fds, sock'[g].open PROVE epoll'[g].ptr # NULL
    BY <2>3, <1>2, <1>8, <1>9, SMTT(30), Zenon DEF IInv, EpollInv, NULL, Conns
  <2> QED
    BY <2>2, <2>3 DEF EpollInv
<1>18. BacklogInv'
  <2> SUFFICES ASSUME NEW d \in Conns, conn'[d].conn_fd = sock_fd, d \in Active'
               PROVE  backlog > 0
    BY <1>8, SMTT(30), Zenon DEF BacklogInv
  <2>1. d # a /\ d \in Active /\ conn[d].conn_fd = sock_fd
    BY <1>10, ZenonT(30)
  <2> QED
    BY <2>1, <1>1 DEF IInv, BacklogInv, Quiet
<1>19. FreeListSound'
  <2>1. IsList(next, Free, connection_pool)
    BY <1>2 DEF IInv, FreeListSound
  <2> QED
    BY <1>8, <1>11, <2>1, SMTT(30), Zenon DEF FreeListSound
<1> QED
  BY <1>13, <1>15, <1>16, <1>17, <1>18, <1>19 DEF IInv

=============================================================================
