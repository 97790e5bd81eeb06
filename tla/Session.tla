------------------------------- MODULE Session -------------------------------
(***************************************************************************)
(* The server (module TcpServer) with the parser (module Protocol) in it,  *)
(* and clients that send real requests, a byte at a time, each when the    *)
(* one before is answered. What TcpServer leaves open, the result of       *)
(* protocol_parse, is computed here from the bytes that were read.         *)
(***************************************************************************)
EXTENDS TcpServer, Sequences, SequencesExt

CONSTANTS
    Names,       \* the type of each known name
    Requests,    \* what clients ask: sequences of bytes that begin with a name
    MAX_TEXT     \* bound: a client with so many bytes in a request asks no more

VARIABLES
    text,     \* the bytes in the buffers of a connection's request
    pro,      \* the protocol_t of a connection's request
    wire,     \* the bytes on a socket that are not yet read
    todo,     \* the bytes of its request that a client has not yet sent
    asked,    \* the last request of a client, <<>> at first
    answers,  \* the responses generated since
    stale     \* bytes of an earlier request were still there when it was asked

session == <<text, pro, wire, todo, asked, answers, stale>>
svars   == <<vars, session>>

(* Only the operators of Protocol are used; none of the requests has a     *)
(* length in two buffers, so nothing behind a buffer is read.              *)
P == INSTANCE Protocol
       WITH Bytes <- {}, REQ_BUF <- req_buffer_size, Behind <- {<<>>},
            MAX_READ <- MAX_RX, MAX_BYTES <- MAX_TEXT, bytes <- <<>>, ret <- "OK"

fd_of(c) == conn[c].conn_fd

-----------------------------------------------------------------------------
(* The server's side. *)

(* The bytes and the parser's state that tcp_server_recv goes on from:     *)
(* those of tcp_request_init if there is no request.                       *)
TextOf(c) == IF conn[c].request = "NULL" THEN <<>> ELSE text[c]
ProOf(c)  == IF conn[c].request = "NULL" THEN P!NewPro ELSE pro[c]

(* what is left of them when the request may have been destroyed *)
Keep(c, t, p) ==
    /\ text' = [text EXCEPT ![c] = IF conn'[c].request = "NULL" THEN <<>> ELSE t]
    /\ pro'  = [pro EXCEPT ![c] = IF conn'[c].request = "NULL" THEN P!NewPro ELSE p]

(* PROTOCOL_OK and PROTOCOL_DONE; tcp_request_process takes any other      *)
(* result for an error.                                                    *)
ResultOf(parsed) ==
    [type |-> parsed.pro.type,
     ret  |-> IF parsed.ret \in {"OK", "DONE"} THEN parsed.ret ELSE "ERROR"]

(* tcp_respone_generate for a request that ended with ret (or for which    *)
(* there was no further buffer); request->error is never reset.            *)
Answer(r, p) ==
    IF p.type = "PUT_T" THEN <<IF p.ret = "DONE" /\ ~r.error THEN "ok" ELSE "error">> ELSE <<>>

(* tcp_server_recv when read returns bytes *)
SessionRecvBytes ==
    LET c  == active_conn
        fd == fd_of(c)
        n  == Min({sock[fd].rx, RecvContext.r.room})
        s  == TextOf(c) \o SubSeq(wire[fd], 1, n)
        parsed == P!protocol_parse(ProOf(c), s, Len(TextOf(c)) + 1, <<>>)
        p  == ResultOf(parsed)
    IN  /\ RecvParsed(p)
        /\ wire' = [wire EXCEPT ![fd] = SubSeq(@, n + 1, Len(@))]
        /\ answers' = [answers EXCEPT ![fd] =
               IF p.ret = "OK" /\ UNCHANGED failures THEN @
               ELSE @ \o Answer(RecvContext.r, p)]
        /\ Keep(c, s, parsed.pro)
        /\ UNCHANGED <<todo, asked, stale>>

SessionRecv ==
    /\ Reading("tcp_server_recv")
    /\ \/ RequestInitFails /\ UNCHANGED session
       \/ /\ RecvCloses \/ RecvAgain
          /\ Keep(active_conn, TextOf(active_conn), ProOf(active_conn))
          /\ UNCHANGED <<wire, todo, asked, answers, stale>>
       \/ SessionRecvBytes

(* The next client on the descriptor finds nothing of this one. *)
SessionClose ==
    LET c  == active_conn
        fd == fd_of(c)
    IN  /\ CloseActive
        /\ text' = [text EXCEPT ![c] = <<>>]
        /\ pro' = [pro EXCEPT ![c] = P!NewPro]
        /\ wire' = [wire EXCEPT ![fd] = <<>>]
        /\ todo' = [todo EXCEPT ![fd] = <<>>]
        /\ asked' = [asked EXCEPT ![fd] = <<>>]
        /\ answers' = [answers EXCEPT ![fd] = <<>>]
        /\ stale' = [stale EXCEPT ![fd] = FALSE]

-----------------------------------------------------------------------------
(* The client's side. *)

(* The responses that a request should have: "ok" if it is a well-formed   *)
(* PUT, "error" if it is an ill-formed one; other types have none yet.     *)
Expected(request) ==
    LET w == CHOOSE w \in DOMAIN Names : IsPrefix(w \o P!CRLF, request)
    IN  IF Names[w] # "PUT_T" THEN <<>>
        ELSE <<IF P!IsRequest(request, FALSE) THEN "ok" ELSE "error">>

(* all of the last request has been read, and the server is not at it *)
Served(fd) == todo[fd] = <<>> /\ wire[fd] = <<>> /\ pc = "poll"

(* A client asks when it has its answer, all of which has left the server. *)
(* It does not wait for an answer to a request that has none.              *)
ClientAsks(fd) ==
    LET c == epoll[fd].ptr
    IN  /\ Running /\ sock[fd].open /\ sock[fd].peer = "up"
        /\ Served(fd) /\ req[c].pend = 0 /\ ~sock[fd].lost
        /\ asked[fd] # <<>> => Len(answers[fd]) >= Len(Expected(asked[fd]))
        /\ Len(text[c]) < MAX_TEXT
        /\ \E request \in Requests :
             /\ asked' = [asked EXCEPT ![fd] = request]
             /\ todo' = [todo EXCEPT ![fd] = request]
        /\ answers' = [answers EXCEPT ![fd] = <<>>]
        /\ stale' = [stale EXCEPT ![fd] = text[c] # <<>>]
        /\ UNCHANGED <<vars, text, pro, wire>>

SendByte(fd) ==
    /\ todo[fd] # <<>>
    /\ ClientSends(fd)
    /\ wire' = [wire EXCEPT ![fd] = Append(@, Head(todo[fd]))]
    /\ todo' = [todo EXCEPT ![fd] = Tail(@)]
    /\ UNCHANGED <<text, pro, asked, answers, stale>>

-----------------------------------------------------------------------------

SessionInit ==
    /\ Init
    /\ text = [c \in Conns |-> <<>>] /\ pro = [c \in Conns |-> P!NewPro]
    /\ wire = [fd \in Fds |-> <<>>] /\ todo = [fd \in Fds |-> <<>>]
    /\ asked = [fd \in Fds |-> <<>>] /\ answers = [fd \in Fds |-> <<>>]
    /\ stale = [fd \in Fds |-> FALSE]

SessionLoop ==
    \/ /\ \/ epoll_polling \/ tcp_server_accept \/ NoReadEvent
          \/ WriteEvent \/ NullHandlerCalled \/ NoWriteEvent \/ KeepActive
       /\ UNCHANGED session
    \/ SessionRecv \/ SessionClose

SessionClients ==
    \/ /\ \/ ClientConnects
          \/ \E fd \in Fds : ClientReceives(fd) \/ ClientCloses(fd) \/ ClientResets(fd)
       /\ UNCHANGED session
    \/ \E fd \in Fds : ClientAsks(fd) \/ SendByte(fd)

SessionNext ==
    \/ (InitNetworkFails \/ init_network_mod \/ Ended) /\ UNCHANGED session
    \/ SessionLoop \/ SessionClients

SessionSpec == SessionInit /\ [][SessionNext]_svars

(* The server's fairness is TcpServer's. A client sends what it has begun  *)
(* and reads what it gets.                                                 *)
FairSessions ==
    /\ SessionSpec /\ Fairness
    /\ \A fd \in Fds : WF_svars(SendByte(fd)) /\ WF_vars(ClientReceives(fd))

-----------------------------------------------------------------------------
(* The parser returns nothing that TcpServer does not allow for: what is   *)
(* checked and proved of TcpServer holds of the server with its parser.    *)
ServerImplemented == Spec

(* process_events calls the write handler after the read handler that may  *)
(* have set it to NULL. A client that waits for its answers cannot bring   *)
(* this about, unless its request finds the remains of an earlier one: the *)
(* parser then answers a part of it, while the client is still sending.    *)
NullHandlerOnlyIfStale == pc = "crashed" => stale[fd_of(active_conn)]

(* A client that waits for its answers gets exactly the right ones, each   *)
(* once and not before the server has read all of the request, in whatever *)
(* pieces: unless memory runs out, or the request finds the remains of an  *)
(* earlier one, which stay behind a response that blocked.                 *)
AnsweredAsAsked ==
    \A fd \in Fds :
        asked[fd] # <<>> /\ ~stale[fd] /\ failures = 0 =>
            /\ answers[fd] # <<>> => todo[fd] = <<>> /\ wire[fd] = <<>>
            /\ answers[fd] \in {<<>>, Expected(asked[fd])}
            /\ Served(fd) => answers[fd] = Expected(asked[fd])

(* A request is answered in the end, and the whole response goes to the    *)
(* socket, unless the connection is closed, with the same exceptions.      *)
RequestsAnswered ==
    \A fd \in Fds :
        (asked[fd] # <<>> /\ Expected(asked[fd]) # <<>> /\ ~stale[fd])
            ~> \/ answers[fd] # <<>> /\ req[epoll[fd].ptr].pend = 0
               \/ ~sock[fd].open \/ sock[fd].peer # "up"

=============================================================================
