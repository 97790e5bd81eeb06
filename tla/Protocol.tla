------------------------------ MODULE Protocol ------------------------------
(***************************************************************************)
(* The incremental parser of requests (src/net/protocol.c), fed by         *)
(* tcp_server_recv with whatever the socket holds and the last buffer of   *)
(* the request has room for. A byte is one of a few representatives; a     *)
(* pointer is an index into the bytes of the request, which lie in a first *)
(* buffer of REQ_BUF bytes and further ones of BUFFER_MIN_SIZE bytes.      *)
(***************************************************************************)
EXTENDS Integers, Sequences

CONSTANTS
    Bytes,        \* what a client may send: CR, LF and some of the others
    Names,        \* the type of each known name: Names[<<"P">>] = "PUT_T"
    REQ_BUF, BUFFER_MIN_SIZE,
    Behind,       \* digits that may lie in memory behind a buffer
    MAX_READ, MAX_BYTES   \* bounds: bytes of a read, bytes of a request

CR == "CR"
LF == "LF"
Digits == {"0", "1", "2"}
Upper  == {"P", "G", "Q"}

is_blank(c)  == c \in {CR, LF, " "}
is_digit(c)  == c \in Digits
IsHeader(c)  == is_digit(c) \/ c \in Upper \cup {"h", ";", "_", "="}

ASSUME ProtocolAssumption ==
    /\ {REQ_BUF, BUFFER_MIN_SIZE} \subseteq Nat \ {0}
    /\ Behind # {} /\ Behind \subseteq Seq(Digits)
    /\ \A w \in DOMAIN Names : w \in Seq(Upper) \ {<<>>} /\ Names[w] # "UNKNOW"

VARIABLES
    bytes,    \* bytes read for the request
    pro,      \* the protocol_t of the request
    ret       \* what the parser returned last; the request goes on if "OK"

vars == <<bytes, pro, ret>>

States == {"start", "type", "type_cr", "type_lf", "headers", "headers_cr", "headers_lf",
           "data_len", "data_len_cr", "data_len_lf", "data"}
Errors == {"type_invalid", "only_cr", "type_not_found", "headers_invalid",
           "data_len_invalid", "needless_data", "ERROR"}
Types  == {"UNKNOW"} \cup {Names[w] : w \in DOMAIN Names}

ProRecord == [type : Types, state : States, start : Nat, end : Nat, tmp_data_len : Nat]

(* protocol_init. (The pointers to headers and data serve debug messages   *)
(* only, and are left out.)                                                *)
NewPro == [type |-> "UNKNOW", state |-> "start", start |-> 0, end |-> 0, tmp_data_len |-> 0]

BufferOf(i) == IF i <= REQ_BUF THEN 1
               ELSE 2 + (i - REQ_BUF - 1) \div BUFFER_MIN_SIZE

(* b->end of a buffer *)
EndOf(b) == REQ_BUF + (b - 1) * BUFFER_MIN_SIZE

(* the token last delimited begins in one buffer and ends in another *)
Split(x) == x.start < x.end /\ BufferOf(x.start) # BufferOf(x.end)

Value(d) == CASE d = "0" -> 0 [] d = "1" -> 1 [] d = "2" -> 2

(* x_atoi *)
Number(digits) ==
    LET value[n \in 0 .. Len(digits)] ==
            IF n = 0 THEN 0 ELSE 10 * value[n - 1] + Value(digits[n])
    IN  value[Len(digits)]

-----------------------------------------------------------------------------
(* One turn of the parser's loop, on byte i of s. x is protocol_t with the *)
(* local variables state and data_len in the place of the saved ones; an   *)
(* error is returned in `ret'.                                             *)

Goto(x, state) == [x EXCEPT !.state = state]
Error(x, e)    == [x EXCEPT !.ret = e]

(* pro->end - pro->start is the length of the name only inside a buffer:   *)
(* between two it is larger than any name.                                 *)
FindType(x, s) ==
    LET name == SubSeq(s, x.start, x.end - 1)
    IN  IF ~Split(x) /\ name \in DOMAIN Names
        THEN [x EXCEPT !.type = Names[name], !.state = "type_lf"]
        ELSE Error(x, "type_not_found")

(* x_atoi reads on behind the buffer when pro->end is in the next one. (The *)
(* '\0' goes to p - 1: the CR, or the last byte of the buffer_t, a NULL.)   *)
Length(x, s, behind) ==
    Number(IF Split(x) THEN SubSeq(s, x.start, EndOf(BufferOf(x.start))) \o behind
           ELSE SubSeq(s, x.start, x.end - 1))

ReadLength(x, s, behind) ==
    LET n == Length(x, s, behind)
    IN  IF n = 0 THEN Error(x, "data_len_invalid")
        ELSE [x EXCEPT !.tmp_data_len = n, !.state = "data_len_lf"]

FirstData_Uncounted(x) == Goto(x, "data")
FirstData(x) == [x EXCEPT !.tmp_data_len = @ - 1, !.state = "data"]

Data_OneMore(x) == IF x.tmp_data_len = -1 THEN Error(x, "needless_data")
                   ELSE [x EXCEPT !.tmp_data_len = @ - 1]
Data(x) == IF x.tmp_data_len = 0 THEN Error(x, "needless_data")
           ELSE [x EXCEPT !.tmp_data_len = @ - 1]

Turn(x, s, i, behind) ==
    LET c == s[i]
    IN  IF x.ret # "OK" THEN x ELSE
        CASE x.state = "start" ->
             IF is_blank(c) THEN x
             ELSE IF c \in Upper THEN [x EXCEPT !.start = i, !.state = "type"]
             ELSE Error(x, "type_invalid")
        [] x.state = "type" ->
             IF c = CR THEN [x EXCEPT !.end = i, !.state = "type_cr"]
             ELSE IF c \in Upper THEN x ELSE Error(x, "type_invalid")
        [] x.state = "type_cr" ->
             IF c = LF THEN FindType(x, s) ELSE Error(x, "only_cr")
        [] x.state \in {"type_lf", "headers"} ->
             IF c = CR THEN Goto(x, "headers_cr")
             ELSE IF IsHeader(c) THEN Goto(x, "headers") ELSE Error(x, "headers_invalid")
        [] x.state = "headers_cr" ->
             IF c = LF THEN Goto(x, "headers_lf") ELSE Error(x, "ERROR")
        [] x.state = "headers_lf" ->
             IF x.type # "PUT_T" THEN Error(x, "needless_data")
             ELSE IF is_digit(c) THEN [x EXCEPT !.start = i, !.state = "data_len"]
             ELSE Error(x, "data_len_invalid")
        [] x.state = "data_len" ->
             IF c = CR THEN [x EXCEPT !.end = i, !.state = "data_len_cr"]
             ELSE IF is_digit(c) THEN x ELSE Error(x, "data_len_invalid")
        [] x.state = "data_len_cr" ->
             IF c = LF THEN ReadLength(x, s, behind) ELSE Error(x, "only_cr")
        [] x.state = "data_len_lf" -> FirstData(x)
        [] x.state = "data" -> Data(x)

(* the parser's state in the loop: that of protocol_t, and no error yet *)
Begun(x) == [type |-> x.type, state |-> x.state, start |-> x.start, end |-> x.end,
             tmp_data_len |-> x.tmp_data_len, ret |-> "OK"]

Loop_TypeReset(x, s, first, behind) ==
    LET turns[i \in first - 1 .. Len(s)] ==
            IF i = first - 1 THEN Begun([x EXCEPT !.type = "UNKNOW"])
            ELSE Turn(turns[i - 1], s, i, behind)
    IN  turns[Len(s)]

(* the loop, over the bytes of s from `first' on *)
Loop(x, s, first, behind) ==
    LET turns[i \in first - 1 .. Len(s)] ==
            IF i = first - 1 THEN Begun(x)
            ELSE Turn(turns[i - 1], s, i, behind)
    IN  turns[Len(s)]

Done_AnyLength(x) ==
    \/ x.type \notin {"UNKNOW", "PUT_T"} /\ x.state = "headers_lf"
    \/ x.type = "PUT_T" /\ x.state = "data"
Done(x) ==
    \/ x.type \notin {"UNKNOW", "PUT_T"} /\ x.state = "headers_lf"
    \/ x.type = "PUT_T" /\ x.state = "data" /\ x.tmp_data_len = 0

Saved_NoLength(x) == [type |-> x.type, state |-> x.state, start |-> x.start, end |-> x.end,
                      tmp_data_len |-> 0]

(* state and data_len are saved for the next call *)
Saved(x) == [type |-> x.type, state |-> x.state, start |-> x.start, end |-> x.end,
             tmp_data_len |-> x.tmp_data_len]

(* they are not when the request is at its end; the rest was written in place *)
Unsaved(x, old) == [old EXCEPT !.type = x.type, !.start = x.start, !.end = x.end]

protocol_parse(old, s, first, behind) ==
    LET x == Loop(old, s, first, behind)
    IN  IF x.ret # "OK" THEN [pro |-> Unsaved(x, old), ret |-> x.ret]
        ELSE IF Done(x) THEN [pro |-> Unsaved(x, old), ret |-> "DONE"]
        ELSE [pro |-> Saved(x), ret |-> "OK"]

-----------------------------------------------------------------------------

(* Bytes read before, and the parser's state: those of tcp_request_init if *)
(* tcp_request_finish has released the last request.                       *)
Before == IF ret = "OK" THEN bytes ELSE <<>>
Parser_Stale == pro
Parser == IF ret = "OK" THEN pro ELSE NewPro

Room(n) == EndOf(BufferOf(n + 1)) - n

(* read puts a piece of what the client sent into the last buffer, at most *)
(* as much as it has room for; tcp_request_process chains another buffer   *)
(* when it is full and the request goes on.                                *)
tcp_server_recv(piece, behind) ==
    LET s == Before \o piece
        parsed == protocol_parse(Parser, s, Len(Before) + 1, behind)
    IN  /\ Len(piece) <= Room(Len(Before))
        /\ Len(s) <= MAX_BYTES
        /\ bytes' = s
        /\ ret' = parsed.ret
        /\ pro' = parsed.pro

Init == bytes = <<>> /\ pro = NewPro /\ ret = "OK"

(* the client closes, read returns 0, and the next client starts anew *)
ClientCloses == bytes' = <<>> /\ pro' = NewPro /\ ret' = "OK"

Next == \/ \E n \in 1 .. MAX_READ : \E piece \in [1 .. n -> Bytes], behind \in Behind :
              tcp_server_recv(piece, behind)
        \/ ClientCloses

Spec == Init /\ [][Next]_vars

-----------------------------------------------------------------------------
(* What a request is, without a parser: blanks, a known name, CR LF,       *)
(* headers, CR LF, and for PUT a length, CR LF and that many bytes.        *)

CRLF == <<CR, LF>>
From(s, i) == SubSeq(s, i, Len(s))
IsStart(p, s) == Len(p) <= Len(s) /\ \A i \in DOMAIN p : p[i] = s[i]
All(s, P(_)) == \A i \in DOMAIN s : P(s[i])

(* the data of a PUT with its length, whole or (if part) its beginning *)
IsData(s, part) ==
    \E d \in 0 .. Len(s) :
        LET digits == SubSeq(s, 1, d)  rest == From(s, d + 1)
        IN  /\ All(digits, is_digit)
            /\ \/ part /\ rest = <<>>
               \/ part /\ d > 0 /\ rest = <<CR>>
               \/ /\ d > 0 /\ Number(digits) > 0
                  /\ IsStart(CRLF, rest)
                  /\ \/ Len(rest) - 2 = Number(digits)
                     \/ part /\ Len(rest) - 2 < Number(digits)

IsRest(s, type, part) ==
    \E h \in 0 .. Len(s) :
        LET rest == From(s, h + 1)
        IN  /\ All(SubSeq(s, 1, h), IsHeader)
            /\ \/ part /\ IsStart(rest, CRLF)
               \/ type # "PUT_T" /\ rest = CRLF
               \/ type = "PUT_T" /\ IsStart(CRLF, rest) /\ IsData(From(rest, 3), part)

IsRequest(s, part) ==
    \E b \in 0 .. Len(s), w \in DOMAIN Names :
        LET line == w \o CRLF  rest == From(s, b + 1)
        IN  /\ All(SubSeq(s, 1, b), is_blank)
            /\ \/ part /\ IsStart(rest, line)
               \/ IsStart(line, rest) /\ IsRest(From(rest, Len(line) + 1), Names[w], part)

-----------------------------------------------------------------------------
(* Every field keeps its type; in particular data_len, a size_t that the   *)
(* parser counts down, never passes zero.                                  *)
TypeOK ==
    /\ bytes \in Seq(Bytes)
    /\ ret \in {"OK", "DONE"} \cup Errors
    /\ pro \in ProRecord

(* PROTOCOL_DONE is returned only for a complete request, with nothing     *)
(* behind it, in whatever pieces it was read, unless the length of its     *)
(* data lies in two buffers.                                               *)
DoneIsRequest ==
    ret = "DONE" /\ ~Split(pro) => IsRequest(bytes, FALSE)

(* A complete request is answered as soon as its last byte is read: the    *)
(* parser never waits for more of it and never refuses it, unless its name *)
(* or its length lies in two buffers.                                      *)
RequestIsDone ==
    IsRequest(bytes, FALSE) /\ ~Split(pro) => ret = "DONE"

(* An error is returned only for bytes that no further bytes could turn    *)
(* into a request, with the same exception.                                *)
RefusedIsNoRequest ==
    ret \in Errors /\ ~Split(pro) => ~IsRequest(bytes, TRUE)

(* Parsing a request in pieces comes to the same as parsing its bytes at   *)
(* once: what protocol_parse saves between two reads is all that it needs. *)
PiecesDoNotMatter ==
    ret = "OK" =>
        \E behind \in Behind :
            LET x == Loop(NewPro, bytes, 1, behind)
            IN  x.ret = "OK" /\ pro = Saved(x)

(* "Type not found." is the error for a name that is none of the known     *)
(* ones.                                                                   *)
TypeNotFoundIsUnknown ==
    ret = "type_not_found" => SubSeq(bytes, pro.start, pro.end - 1) \notin DOMAIN Names

=============================================================================
