------------------------------ MODULE TcpServer ------------------------------
(***************************************************************************)
(* The network server of Xpipe: the single-threaded event loop             *)
(* (net_event.c over net_epoll.c) together with the connection and request *)
(* life cycle it drives (tcp_server.c), started by init_network_mod        *)
(* (network.c).                                                            *)
(*                                                                         *)
(* One iteration of process_events is split where other parties can act:   *)
(* after epoll_wait, and after each handler call, since sockets change     *)
(* under the loop's feet.  Everything between two system calls is atomic.  *)
(*                                                                         *)
(* The protocol parser is represented by the set of results it may return  *)
(* (protocol_parse below); byte counts are in units of CONSTANT sizes.     *)
(***************************************************************************)
EXTENDS Integers, FiniteSets, Functions

CONSTANTS
    CONNECTIONS,       \* "connections N": slots of the connection pool
    NFDS,              \* descriptors the process may have for client sockets
    request_buf_size,  \* "request_buffer_size N"
    BUFFER_MIN_SIZE, BUFFER_MAX_SIZE,
    OK_LEN, ERROR_LEN, \* lengths of the two responses, "ok" and "error"
    TX_SIZE,           \* space of a socket's send buffer
    MAX_RX,            \* bound: unread client bytes queued on one socket
    MAX_BACKLOG,       \* the accept queue of the listening socket
    MAX_PEND,          \* bound: a client stops sending at so many unsent bytes
    MAX_FAIL,          \* bound: system calls and allocations that fail
    RequestTypes       \* the types of the requests that clients send

ASSUME SizesAssumption ==
    /\ CONNECTIONS \in Nat /\ NFDS \in Nat
    /\ request_buf_size \in Nat
    /\ BUFFER_MIN_SIZE \in Nat \ {0} /\ BUFFER_MAX_SIZE \in Nat
    /\ BUFFER_MIN_SIZE <= BUFFER_MAX_SIZE
    /\ OK_LEN \in Nat \ {0} /\ ERROR_LEN \in Nat \ {0} /\ TX_SIZE \in Nat
    /\ MAX_RX \in Nat /\ MAX_BACKLOG \in Nat /\ MAX_PEND \in Nat /\ MAX_FAIL \in Nat
    /\ RequestTypes \subseteq {"PUT_T", "GET_T"}

VARIABLES
    pc,              \* where the process is in process_events
    active_conn,     \* process_events' cursor
    active_conns,    \* event_driver->active_conns
    connection_pool, \* server->connection_pool, the head of the free list
    next,            \* conn->next, shared by the free list and the active list
    conn,            \* the other fields of the slots (tcp_connection_t)
    req,             \* what conn->request points to (tcp_request_t)
    epoll,           \* the kernel's interest list
    sock,            \* the kernel's view of the client sockets
    backlog,         \* clients waiting to be accepted
    pools,           \* live memory pools of connections and requests
    leaked,          \* live memory pools that nothing points to
    failures         \* failures injected so far

server  == <<connection_pool, next, conn, req>>
kernel  == <<epoll, sock, backlog>>
memory  == <<pools, leaked, failures>>
loop    == <<pc, active_conn, active_conns>>
vars    == <<loop, server, kernel, memory>>

Conns == 1 .. CONNECTIONS
NULL  == 0
Fds   == 1 .. NFDS
sock_fd == 0           \* the listening socket
NO_FD   == -1

EV_READ_EVENT  == "read"
EV_WRITE_EVENT == "write"
Events == {EV_READ_EVENT, EV_WRITE_EVENT}

(* event_driver->size: how many events one epoll_wait may return *)
size == CONNECTIONS \div 2

(* pro->type; GET_T stands for the types that have no response yet *)
Types == {"UNKNOW", "PUT_T", "GET_T"}

-----------------------------------------------------------------------------
(* The records. *)

ConnRecord ==
    [conn_fd : Fds \cup {sock_fd, NO_FD},
     events : SUBSET Events, active_events : SUBSET Events,
     dead_events : SUBSET Events, add_events : SUBSET Events,
     close : BOOLEAN,
     read_event_handler : {"NULL", "tcp_server_accept", "tcp_server_recv"},
     write_event_handler : {"NULL", "tcp_server_send"},
     request : {"NULL", "live"}]

(* room is end - last of the last request buffer; pend is last - buffer of *)
(* the response buffer.                                                    *)
ReqRecord ==
    [room : Nat, type : Types, pend : Nat, finish : BOOLEAN, error : BOOLEAN]

(* peer: what reading meets once the queued bytes are consumed. lost: some *)
(* bytes of a response were thrown away; their client waits in vain.       *)
SockRecord ==
    [open : BOOLEAN, rx : Nat, tx : Nat, peer : {"up", "eof", "reset"}, lost : BOOLEAN]

Interest == [ptr : Conns \cup {NULL}, events : SUBSET Events]

(* tcp_get_connection's memset and assignments *)
NewConn(fd) ==
    [conn_fd |-> fd, events |-> {}, active_events |-> {}, dead_events |-> {},
     add_events |-> {}, close |-> FALSE,
     read_event_handler |-> "NULL", write_event_handler |-> "NULL",
     request |-> "NULL"]

(* The fields of a free slot are not read before tcp_get_connection clears *)
(* them: all free slots are alike.                                         *)
FreeConn == NewConn(NO_FD)

req_buffer_size ==
    IF request_buf_size < BUFFER_MIN_SIZE THEN BUFFER_MIN_SIZE
    ELSE IF request_buf_size > BUFFER_MAX_SIZE THEN BUFFER_MAX_SIZE
    ELSE request_buf_size

(* tcp_request_init and protocol_init *)
NewReq ==
    [room |-> req_buffer_size, type |-> "UNKNOW", pend |-> 0,
     finish |-> FALSE, error |-> FALSE]

(* the memory of a request that does not exist: nothing reads it *)
NoReq == [NewReq EXCEPT !.room = 0]

NewSock    == [open |-> TRUE, rx |-> 0, tx |-> TX_SIZE, peer |-> "up", lost |-> FALSE]
ClosedSock == [open |-> FALSE, rx |-> 0, tx |-> 0, peer |-> "up", lost |-> FALSE]

Unregistered == [ptr |-> NULL, events |-> {}]

(* a slot handed out by tcp_get_connection and not yet given back *)
InUse(c)  == conn[c].conn_fd # NO_FD
Client(c) == InUse(c) /\ conn[c].conn_fd # sock_fd

-----------------------------------------------------------------------------
(* Handlers, as functions of a context x: the connection x.c, its request  *)
(* x.r and its socket x.s.                                                 *)

Context(c) == [c |-> conn[c], r |-> req[c], s |-> sock[conn[c].conn_fd]]

CloseConn_KeepsOpen(c) == [c EXCEPT !.dead_events = Events]
CloseConn_ClearsHandler(c) ==
    [c EXCEPT !.dead_events = Events, !.close = TRUE, !.write_event_handler = "NULL"]

(* tcp_server_recv on end of file or error, tcp_server_send on error *)
CloseConn(c) == [c EXCEPT !.dead_events = Events, !.close = TRUE]

(* write reports EAGAIN: what fits is sent, the rest waits for EPOLLOUT *)
SendBlocks_NoInterest(x) == [x EXCEPT !.r.pend = @ - x.s.tx, !.s.tx = 0]
SendBlocks_Finishes(x) ==
    [x EXCEPT !.c.add_events = {EV_WRITE_EVENT}, !.r.finish = TRUE,
              !.r.pend = @ - x.s.tx, !.s.tx = 0]
SendBlocks(x) ==
    [c |-> [x.c EXCEPT !.add_events = {EV_WRITE_EVENT}],
     r |-> [x.r EXCEPT !.pend = @ - x.s.tx],
     s |-> [x.s EXCEPT !.tx = 0]]

(* the whole response is out *)
SendCompletes(x) ==
    [c |-> IF EV_WRITE_EVENT \in x.c.events
           THEN [x.c EXCEPT !.dead_events = {EV_WRITE_EVENT},
                            !.write_event_handler = "NULL"]
           ELSE x.c,
     r |-> [x.r EXCEPT !.pend = 0, !.finish = TRUE],
     s |-> [x.s EXCEPT !.tx = @ - x.r.pend]]

(* The write loop of tcp_server_send goes on until the response is out,    *)
(* the socket's buffer is full, or the connection is found broken.         *)
tcp_server_send(x) ==
    IF x.c.request = "NULL" THEN x
    ELSE IF x.s.peer = "reset"
         THEN [c |-> CloseConn(x.c), r |-> [x.r EXCEPT !.finish = TRUE], s |-> x.s]
    ELSE IF x.r.pend > x.s.tx THEN SendBlocks(x) ELSE SendCompletes(x)

(* Only PUT has a response; it is appended to what is still unsent. *)
tcp_respone_generate(r) ==
    IF r.type # "PUT_T" THEN r
    ELSE [r EXCEPT !.pend = @ + (IF r.error THEN ERROR_LEN ELSE OK_LEN)]

(* a finished request is destroyed with its pool, sent or not *)
tcp_request_finish(x) ==
    LET y == tcp_server_send([x EXCEPT !.r = tcp_respone_generate(x.r)])
    IN  IF y.r.finish
        THEN [c |-> [y.c EXCEPT !.request = "NULL"],
              r |-> NoReq,
              s |-> [y.s EXCEPT !.lost = @ \/ (y.r.pend > 0 /\ ~y.c.close)]]
        ELSE y

(* protocol_parse: it may return any result, may learn the request's type, *)
(* and never finishes a request whose type it does not know.               *)
protocol_parse(type) ==
    {p \in [type : {type} \cup RequestTypes, ret : {"OK", "DONE", "ERROR"}] :
        p.ret = "DONE" => p.type # "UNKNOW"}

tcp_request_process_OneBuffer(x, ret, alloc) ==
    IF ret = "OK" THEN x
    ELSE IF ret = "DONE" THEN tcp_request_finish(x)
    ELSE tcp_request_finish([x EXCEPT !.r.error = TRUE])

(* alloc: whether pmalloc finds memory for another request buffer *)
tcp_request_process(x, ret, alloc) ==
    IF ret = "OK" /\ x.r.room # 0 THEN x
    ELSE IF ret = "OK" /\ alloc
         THEN [x EXCEPT !.r = [x.r EXCEPT !.room = BUFFER_MIN_SIZE]]
    ELSE IF ret = "DONE" THEN tcp_request_finish(x)
    ELSE tcp_request_finish([x EXCEPT !.r = [x.r EXCEPT !.error = TRUE]])

-----------------------------------------------------------------------------
(* epoll *)

Registered_AlwaysWrite(c, events) ==
    IF events = {} THEN Unregistered ELSE [ptr |-> c, events |-> Events]

(* epoll_add_event and epoll_del_event leave conn->events registered *)
Registered(c, events) ==
    IF events = {} THEN Unregistered ELSE [ptr |-> c, events |-> events]

add_event(r, events, handler) ==
    [r EXCEPT !.events = @ \cup events,
              !.read_event_handler =
                  IF EV_READ_EVENT \in events THEN handler ELSE @,
              !.write_event_handler =
                  IF EV_WRITE_EVENT \in events THEN handler ELSE @]

del_event_KeepsEvents(r) == [r EXCEPT !.dead_events = {}]
del_event(r) == [r EXCEPT !.events = @ \ r.dead_events, !.dead_events = {}]

Readable(fd) == IF fd = sock_fd THEN backlog > 0
                ELSE sock[fd].rx > 0 \/ sock[fd].peer # "up"
Writable(fd) == fd # sock_fd /\ (sock[fd].tx > 0 \/ sock[fd].peer = "reset")

Revents(fd) ==
    epoll[fd].events \cap ((IF Readable(fd) THEN {EV_READ_EVENT} ELSE {})
                           \cup (IF Writable(fd) THEN {EV_WRITE_EVENT} ELSE {}))

Ready == {fd \in Fds \cup {sock_fd} : Revents(fd) # {}}

(* epoll_wait reports everything that is ready, or some `size' of it, in   *)
(* any order.                                                              *)
epoll_wait(fds) ==
    /\ fds \in SUBSET Ready
    /\ fds = Ready \/ Cardinality(fds) = size
    /\ Cardinality(fds) <= size

(* The reported connections are pushed on the active list in this order,   *)
(* so that the last of them becomes its head.                              *)
PushActive(order, n) ==
    LET reported == [i \in 1 .. n |-> epoll[order[i]].ptr]
        position(c) == CHOOSE i \in 1 .. n : reported[i] = c
        hit == {reported[i] : i \in 1 .. n}
    IN  /\ next' = [c \in Conns |-> IF c \notin hit THEN next[c]
                                    ELSE IF position(c) = 1 THEN active_conns
                                    ELSE reported[position(c) - 1]]
        /\ conn' = [c \in Conns |-> IF c \notin hit THEN conn[c]
                                    ELSE [conn[c] EXCEPT !.active_events =
                                              Revents(order[position(c)])]]
        /\ active_conns' = reported[n]
        /\ active_conn' = reported[n]

(* A wait that times out or is interrupted changes nothing.                *)
epoll_polling ==
    /\ pc = "poll"
    /\ \E fds \in SUBSET Ready :
         /\ epoll_wait(fds) /\ fds # {}
         /\ \E order \in Bijection(1 .. Cardinality(fds), fds) :
              PushActive(order, Cardinality(fds))
    /\ pc' = "read"
    /\ UNCHANGED <<connection_pool, req, kernel, memory>>

-----------------------------------------------------------------------------
(* The read handlers. *)

Reading(handler) ==
    /\ pc = "read"
    /\ EV_READ_EVENT \in conn[active_conn].active_events
    /\ conn[active_conn].read_event_handler = handler
    /\ pc' = "write"
    /\ UNCHANGED <<active_conn, active_conns>>

Fail == failures < MAX_FAIL /\ failures' = failures + 1

FreeFds == {fd \in Fds : ~sock[fd].open}

AcceptFails_OffByOne ==
    /\ Cardinality(FreeFds) <= 1
    /\ UNCHANGED <<server, kernel, memory>>

(* accept fails: no descriptor is left, or any other error *)
AcceptFails ==
    /\ \/ FreeFds = {} /\ UNCHANGED failures
       \/ Fail
    /\ UNCHANGED <<server, kernel, pools, leaked>>

AcceptRefused_NotClosed ==
    /\ connection_pool = NULL
    /\ \E fd \in FreeFds : sock' = [sock EXCEPT ![fd] = NewSock]
    /\ backlog' = backlog - 1
    /\ UNCHANGED <<server, epoll, memory>>
AcceptRefused_NotTaken ==
    /\ FreeFds # {} /\ connection_pool = NULL
    /\ UNCHANGED <<server, kernel, memory>>

(* The socket is accepted and closed again: set_nonblock fails, the pool   *)
(* is empty, or tcp_get_connection gets no memory pool.                    *)
AcceptRefused ==
    /\ FreeFds # {}
    /\ \/ connection_pool = NULL /\ UNCHANGED failures
       \/ Fail
    /\ backlog' = backlog - 1
    /\ UNCHANGED <<server, epoll, sock, pools, leaked>>

(* add_event fails: the slot is taken, then freed again *)
AcceptUndone ==
    /\ FreeFds # {} /\ connection_pool # NULL
    /\ Fail
    /\ backlog' = backlog - 1
    /\ conn' = [conn EXCEPT ![connection_pool] = FreeConn]
    /\ UNCHANGED <<connection_pool, next, req, epoll, sock, pools, leaked>>

(* the kernel hands out the lowest free descriptor *)
Accepted ==
    /\ connection_pool # NULL
    /\ \E fd \in FreeFds :
         /\ \A other \in FreeFds : fd <= other
         /\ LET c == connection_pool
                r == add_event(NewConn(fd), {EV_READ_EVENT}, "tcp_server_recv")
            IN  /\ connection_pool' = next[c]
                /\ next' = [next EXCEPT ![c] = NULL]
                /\ conn' = [conn EXCEPT ![c] = r]
                /\ epoll' = [epoll EXCEPT ![fd] = Registered(c, r.events)]
                /\ sock' = [sock EXCEPT ![fd] = NewSock]
    /\ backlog' = backlog - 1
    /\ pools' = pools + 1
    /\ UNCHANGED <<req, leaked, failures>>

tcp_server_accept ==
    /\ Reading("tcp_server_accept")
    /\ AcceptFails \/ AcceptRefused \/ AcceptUndone \/ Accepted

(* tcp_request_init fails, before or after it has created its pool; the    *)
(* pool is not destroyed and the connection stays as it was.               *)
RequestInitFails ==
    /\ conn[active_conn].request = "NULL"
    /\ Fail
    /\ \/ UNCHANGED <<pools, leaked>>
       \/ pools' = pools + 1 /\ leaked' = leaked + 1
    /\ UNCHANGED <<server, kernel>>

(* The context in which tcp_server_recv reads: with a request *)
RecvContext ==
    LET x == Context(active_conn)
    IN  IF x.c.request = "NULL"
        THEN [c |-> [x.c EXCEPT !.request = "live"], r |-> NewReq, s |-> x.s]
        ELSE x

(* write the context back; a pool was created or destroyed with a request *)
Update(x) ==
    LET had == conn[active_conn].request = "live"
        has == x.c.request = "live"
    IN  /\ conn' = [conn EXCEPT ![active_conn] = x.c]
        /\ req' = [req EXCEPT ![active_conn] = x.r]
        /\ sock' = [sock EXCEPT ![x.c.conn_fd] = x.s]
        /\ pools' = pools + (IF has THEN 1 ELSE 0) - (IF had THEN 1 ELSE 0)
        /\ UNCHANGED <<connection_pool, next, epoll, backlog, leaked>>

(* read returns 0, at the end of the stream or for want of room, or an     *)
(* error                                                                   *)
RecvCloses ==
    LET x == RecvContext
    IN  /\ x.r.room = 0 \/ (x.s.rx = 0 /\ x.s.peer # "up")
        /\ Update([x EXCEPT !.c = CloseConn(x.c)])
        /\ UNCHANGED failures

(* EAGAIN: the reported bytes are not there after all *)
RecvAgain == RecvContext.r.room > 0 /\ Fail /\ Update(RecvContext)

(* read returns bytes, and the parser the result p on them *)
RecvParsed(p) ==
    LET x == RecvContext
        n == IF x.s.rx < x.r.room THEN x.s.rx ELSE x.r.room
        z == [c |-> x.c,
              r |-> [x.r EXCEPT !.room = @ - n, !.type = p.type],
              s |-> [x.s EXCEPT !.rx = @ - n]]
    IN  /\ n > 0
        /\ \/ /\ Update(tcp_request_process(z, p.ret, TRUE))
              /\ UNCHANGED failures
           \/ /\ p.ret = "OK" /\ z.r.room = 0 /\ Fail
              /\ Update(tcp_request_process(z, p.ret, FALSE))

RecvBytes == \E p \in protocol_parse(RecvContext.r.type) : RecvParsed(p)

tcp_server_recv ==
    /\ Reading("tcp_server_recv")
    /\ RequestInitFails \/ RecvCloses \/ RecvAgain \/ RecvBytes

NoReadEvent ==
    /\ pc = "read"
    /\ EV_READ_EVENT \notin conn[active_conn].active_events
    /\ pc' = "write"
    /\ UNCHANGED <<active_conn, active_conns, server, kernel, memory>>

-----------------------------------------------------------------------------
(* The write handler. It is called whatever it is. *)

WriteEvent ==
    /\ pc = "write"
    /\ EV_WRITE_EVENT \in conn[active_conn].active_events
    /\ conn[active_conn].write_event_handler = "tcp_server_send"
    /\ Update(tcp_server_send(Context(active_conn)))
    /\ pc' = "clean"
    /\ UNCHANGED <<active_conn, active_conns, failures>>

(* A call through a NULL write_event_handler ends the process. *)
NullHandlerCalled ==
    /\ pc = "write"
    /\ EV_WRITE_EVENT \in conn[active_conn].active_events
    /\ conn[active_conn].write_event_handler = "NULL"
    /\ pc' = "crashed"
    /\ UNCHANGED <<active_conn, active_conns, server, kernel, memory>>

NoWriteEvent ==
    /\ pc = "write"
    /\ EV_WRITE_EVENT \notin conn[active_conn].active_events
    /\ pc' = "clean"
    /\ UNCHANGED <<active_conn, active_conns, server, kernel, memory>>

-----------------------------------------------------------------------------
(* The end of the loop body: dead events, close, new events, next. *)

NextActive(c) ==
    /\ active_conn' = c
    /\ pc' = IF c = NULL THEN "poll" ELSE "read"
    /\ active_conns' = IF c = NULL THEN NULL ELSE active_conns

FreedNext_AfterHead(c) == [next EXCEPT ![c] = c]

(* tcp_free_connection pushes the slot on the free list ... *)
FreedNext(c) == [next EXCEPT ![c] = connection_pool]

FreedPools_ConnOnly(r) == 1

(* ... and destroys the pools of the connection and of its request. *)
FreedPools(r) == IF r.request = "NULL" THEN 1 ELSE 2

AfterClosed_Late(c) == connection_pool

(* process_events reads the closed connection's next before it frees it *)
AfterClosed(c) == next[c]

(* close, then tcp_free_connection; the kernel forgets a closed descriptor *)
CloseActive ==
    LET c == active_conn
        r == conn[c]
    IN  /\ pc = "clean" /\ r.close
        /\ NextActive(AfterClosed(c))
        /\ sock' = [sock EXCEPT ![r.conn_fd] = ClosedSock]
        /\ epoll' = [epoll EXCEPT ![r.conn_fd] = Unregistered]
        /\ conn' = [conn EXCEPT ![c] = FreeConn]
        /\ req' = [req EXCEPT ![c] = NoReq]
        /\ next' = FreedNext(c)
        /\ connection_pool' = c
        /\ pools' = pools - FreedPools(r)
        /\ UNCHANGED <<backlog, leaked, failures>>

KeepActive ==
    LET c == active_conn
        r == [add_event(del_event(conn[c]), conn[c].add_events, "tcp_server_send")
                EXCEPT !.add_events = {}, !.active_events = {}]
    IN  /\ pc = "clean" /\ ~conn[c].close
        /\ NextActive(next[c])
        /\ conn' = [conn EXCEPT ![c] = r]
        /\ epoll' = [epoll EXCEPT ![r.conn_fd] = Registered(c, r.events)]
        /\ UNCHANGED <<connection_pool, next, req, sock, backlog, memory>>

-----------------------------------------------------------------------------
(* Start-up: init_network_mod. The descriptors and the memory of a failed  *)
(* start go with the process.                                              *)

InitNetworkFails ==
    /\ pc = "init"
    /\ pc' = "exit"
    /\ UNCHANGED <<active_conn, active_conns, server, kernel, memory>>

connection_pool_init_NoEnd == [c \in Conns |-> c + 1]

(* the slots of the array, linked in order *)
connection_pool_init ==
    [c \in Conns |-> IF c = CONNECTIONS THEN NULL ELSE c + 1]

(* The listening socket takes the first slot (is_listen, which only a      *)
(* debug message reads, is left out). epoll_create fails for size 0, that  *)
(* is, for fewer than two connections.                                     *)
init_network_mod ==
    /\ pc = "init" /\ size > 0
    /\ pc' = "poll"
    /\ LET c == 1
           r == add_event(NewConn(sock_fd), {EV_READ_EVENT}, "tcp_server_accept")
       IN  /\ connection_pool' = connection_pool_init[c]
           /\ next' = [connection_pool_init EXCEPT ![c] = NULL]
           /\ conn' = [conn EXCEPT ![c] = r]
           /\ epoll' = [epoll EXCEPT ![sock_fd] = Registered(c, r.events)]
    /\ pools' = pools + 1
    /\ UNCHANGED <<active_conn, active_conns, req, sock, backlog, leaked, failures>>

-----------------------------------------------------------------------------
(* The clients, and the kernel on their behalf. *)

Running == pc \notin {"init", "exit", "crashed"}

Peer(fd, s) ==
    /\ Running
    /\ sock[fd].open
    /\ sock' = [sock EXCEPT ![fd] = s]
    /\ UNCHANGED <<loop, server, epoll, backlog, memory>>

ClientConnects ==
    /\ Running
    /\ backlog < MAX_BACKLOG
    /\ backlog' = backlog + 1
    /\ UNCHANGED <<loop, server, epoll, sock, memory>>

ClientSends(fd) ==
    LET owed == req[epoll[fd].ptr].pend
    IN  /\ sock[fd].open /\ sock[fd].peer = "up"
        /\ sock[fd].rx < MAX_RX
        /\ owed < MAX_PEND
        /\ Peer(fd, [sock[fd] EXCEPT !.rx = @ + 1])

(* the client reads some of the response *)
ClientReceives(fd) ==
    /\ sock[fd].peer # "reset" /\ sock[fd].tx < TX_SIZE
    /\ Peer(fd, [sock[fd] EXCEPT !.tx = @ + 1])

ClientCloses(fd) ==
    /\ sock[fd].peer = "up"
    /\ Peer(fd, [sock[fd] EXCEPT !.peer = "eof"])

ClientResets(fd) ==
    /\ sock[fd].peer # "reset"
    /\ Peer(fd, [sock[fd] EXCEPT !.peer = "reset"])

-----------------------------------------------------------------------------

Init ==
    /\ pc = "init" /\ active_conn = NULL /\ active_conns = NULL
    /\ connection_pool = NULL
    /\ next = [c \in Conns |-> NULL]
    /\ conn = [c \in Conns |-> FreeConn]
    /\ req = [c \in Conns |-> NoReq]
    /\ epoll = [fd \in Fds \cup {sock_fd} |-> Unregistered]
    /\ sock = [fd \in Fds |-> ClosedSock]
    /\ backlog = 0 /\ pools = 0 /\ leaked = 0 /\ failures = 0

Loop == \/ epoll_polling
        \/ tcp_server_accept \/ tcp_server_recv \/ NoReadEvent
        \/ WriteEvent \/ NullHandlerCalled \/ NoWriteEvent
        \/ CloseActive \/ KeepActive

Clients == \/ ClientConnects
           \/ \E fd \in Fds : \/ ClientSends(fd) \/ ClientReceives(fd)
                              \/ ClientCloses(fd) \/ ClientResets(fd)

Ended == pc \in {"exit", "crashed"} /\ UNCHANGED vars

Next == InitNetworkFails \/ init_network_mod \/ Loop \/ Clients \/ Ended

Spec == Init /\ [][Next]_vars

-----------------------------------------------------------------------------
(* Every field, pointer and counter keeps its type; a pointer is NULL or a *)
(* slot of the connection array.                                           *)
TypeOK ==
    /\ pc \in {"init", "poll", "read", "write", "clean", "exit", "crashed"}
    /\ active_conn \in Conns \cup {NULL}
    /\ active_conns \in Conns \cup {NULL}
    /\ connection_pool \in Conns \cup {NULL}
    /\ next \in [Conns -> Conns \cup {NULL}]
    /\ conn \in [Conns -> ConnRecord]
    /\ req \in [Conns -> ReqRecord]
    /\ epoll \in [Fds \cup {sock_fd} -> Interest]
    /\ sock \in [Fds -> SockRecord]
    /\ backlog \in 0 .. MAX_BACKLOG /\ failures \in 0 .. MAX_FAIL
    /\ pools \in Int /\ leaked \in Nat

(* nx links exactly the slots of S, each once, into a list that starts at  *)
(* head and ends: pos numbers them from the end of the list.               *)
IsList(nx, S, head) ==
    \E pos \in [S -> 1 .. Cardinality(S)] :
        /\ \A c, d \in S : pos[c] = pos[d] => c = d
        /\ IF S = {} THEN head = NULL
           ELSE head \in S /\ pos[head] = Cardinality(S)
        /\ \A c \in S : IF pos[c] = 1 THEN nx[c] = NULL
                        ELSE nx[c] \in S /\ pos[nx[c]] = pos[c] - 1

Free   == {c \in Conns : ~InUse(c)}
Active == {c \in Conns : conn[c].active_events # {}}

(* Free list and active list share conn->next, yet the free list ends and  *)
(* holds exactly the slots that are not in use: tcp_get_connection never   *)
(* hands out a slot that is being served, and loses none.                  *)
FreeListSound == pc \notin {"init", "exit"} => IsList(next, Free, connection_pool)

(* The rest of a batch of events survives what the handlers of earlier     *)
(* events do: from process_events' cursor on, the active list holds        *)
(* exactly the reported connections not yet handled, all of them in use.   *)
ActiveListSound ==
    IsList(next, Active, active_conn) /\ \A c \in Active : InUse(c)

(* conn->events is what the kernel has registered for the descriptor, with *)
(* the right connection behind data.ptr: no event is ever delivered to a   *)
(* slot that was freed or reused, and reading is never switched off.       *)
EpollMirrorsConns ==
    Running =>
    /\ \A c \in Conns : InUse(c) =>
          /\ epoll[conn[c].conn_fd] = [ptr |-> c, events |-> conn[c].events]
          /\ EV_READ_EVENT \in conn[c].events
    /\ \A fd \in Fds \cup {sock_fd} :
          epoll[fd].ptr # NULL => conn[epoll[fd].ptr].conn_fd = fd

(* Every open client socket belongs to exactly one connection and every    *)
(* connection's socket is open, whatever error path accept and close took. *)
DescriptorsOwned ==
    \A fd \in Fds :
        Cardinality({c \in Conns : conn[c].conn_fd = fd})
            = (IF sock[fd].open THEN 1 ELSE 0)

(* Memory pools are created and destroyed in pairs on every path: the live *)
(* ones are those of the connections in use, of their requests, and the    *)
(* ones a failed tcp_request_init left behind.                             *)
PoolsAccounted ==
    /\ pools = Cardinality({c \in Conns : InUse(c)})
               + Cardinality({c \in Conns : conn[c].request = "live"}) + leaked
    /\ leaked <= failures

(* Whenever the loop waits, a connection that owes its client bytes is     *)
(* registered for writing, and write readiness always finds its handler.   *)
PendingResponseIsWatched ==
    pc = "poll" => \A c \in Conns : InUse(c) =>
        /\ req[c].pend > 0 => EV_WRITE_EVENT \in conn[c].events
        /\ EV_WRITE_EVENT \in conn[c].events
              <=> conn[c].write_event_handler = "tcp_server_send"

(* process_events calls a NULL write handler only when both events of a    *)
(* connection were reported at once and the read handler, called first,    *)
(* has sent off the response that had blocked and destroyed its request:   *)
(* neither a write event alone nor one of a closed connection leads there. *)
NullHandlerOnlyAfterRead ==
    pc = "crashed" =>
        /\ conn[active_conn].active_events = Events
        /\ conn[active_conn].dead_events = {EV_WRITE_EVENT}
        /\ conn[active_conn].request = "NULL" /\ ~conn[active_conn].close

(* tcp_request_finish throws away bytes of a response that a client still  *)
(* waits for only if the request was a left-over one, whose finish flag an *)
(* earlier response, completed from the write handler, had already set.    *)
LostOnlyIfLeftOver ==
    [][\A fd \in Fds :
          ~sock[fd].lost /\ sock'[fd].lost => req[epoll[fd].ptr].finish]_vars

(* tcp_server_recv closes the connection of a client that is still there   *)
(* only when its request filled the buffer to the last byte and its        *)
(* response could not be sent at once.                                     *)
CutOffOnlyAfterBackpressure ==
    \A c \in Conns : Client(c) /\ conn[c].close /\ sock[conn[c].conn_fd].peer = "up" =>
        /\ conn[c].request = "live" /\ req[c].room = 0
        /\ req[c].finish \/ EV_WRITE_EVENT \in conn[c].events

(* tcp_server_recv logs "Client ... has closed." when read returns 0 and   *)
(* closes the connection: the client did close (or reset) it.              *)
ClosedOnlyByClient ==
    \A c \in Conns : Client(c) /\ conn[c].close => sock[conn[c].conn_fd].peer # "up"

-----------------------------------------------------------------------------
(* Fairness. The main loop calls process_events forever, and epoll_wait    *)
(* returns when a descriptor is ready. The kernel puts a level-triggered   *)
(* entry it has reported at the end of its ready list, so no ready         *)
(* descriptor is passed over for ever even if more than `size' are ready.  *)
PollReports(fd) ==
    /\ epoll_polling
    /\ epoll[fd].ptr # NULL
    /\ conn'[epoll[fd].ptr].active_events # {}

Fairness ==
    /\ WF_vars(Loop)
    /\ \A fd \in Fds \cup {sock_fd} : SF_vars(PollReports(fd))

LiveSpec == Spec /\ Fairness

(* A socket whose client has gone is closed and its slot given back.       *)
GoneClientsReleased ==
    \A fd \in Fds : (sock[fd].open /\ sock[fd].peer # "up")
                       ~> (~sock[fd].open \/ pc = "crashed")

(* A full accept queue is worked off, whether or not slots are left, if    *)
(* the process has a descriptor to accept with. Without one, accept fails  *)
(* in every turn of the loop and the queue stays full: until a client      *)
(* leaves, when listening goes on.                                         *)
BacklogDrains ==
    (backlog = MAX_BACKLOG /\ FreeFds # {})
        ~> (backlog < MAX_BACKLOG \/ pc = "crashed")

=============================================================================
