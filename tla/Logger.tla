------------------------------- MODULE Logger --------------------------------
(***************************************************************************)
(* The logger (src/logger.c) on a file_t (module XFile): the program, and  *)
(* sig_term_handler when it interrupts it, write lines with file_write.    *)
(* The bytes of a line are its pieces (time, level, error, message, LF),   *)
(* the length of the line is computed with the numbers of the code. A file *)
(* that was not opened by a log command is read and written at offsets.    *)
(***************************************************************************)
EXTENDS XFile

CONSTANTS
    LOG_CONTENT_MAX_LEN, TIME_LEN, LevelLen, \* info_str, cache_log_time, level_str
    ErrLen,          \* lengths of strerror(err), 0: err = 0
    MsgLen, TermLen, \* lengths of messages, and of that of sig_term_handler
    Offsets,         \* arguments `offset'
    MAX_LINES, MAX_CALLS  \* bounds: lines of the program, calls with an offset

VARIABLES
    level,     \* logger->level
    lines,     \* the lines that file_write was called with, and who called it
    fate       \* "ok", or "undefined" after a write behind the end of info_str

vars == <<fvars, level, lines, fate>>

LOG_LEVEL_ERROR == 1
LOG_LEVEL_WARN  == 2
LOG_LEVEL_STDOUT == 5
Levels == 1 .. 4   \* of lines

ASSUME LoggerAssumption ==
    /\ LOG_CONTENT_MAX_LEN \in Nat /\ TIME_LEN \in Nat \ {0} /\ TermLen \in Nat
    /\ \A l \in Levels : LevelLen[l] \in Nat
    /\ ErrLen \subseteq Nat /\ MsgLen \subseteq Nat /\ Offsets \subseteq Nat

-----------------------------------------------------------------------------
(* log_core_writer *)

max_len(l) == LOG_CONTENT_MAX_LEN - LevelLen[l] - 1

Prefix(l, err) == TIME_LEN + LevelLen[l] + (IF err = 0 THEN 0 ELSE err + 3)

(* p - info_str in the end; n is what vsnprintf returns. max_len leaves no *)
(* room for the time and the error that are in info_str already.           *)
LineLen(l, err, n) == Prefix(l, err) + (IF n < max_len(l) THEN n ELSE max_len(l) - 1) + 1

Pieces(l, err) ==
    <<"time", "level">> \o (IF err = 0 THEN <<>> ELSE <<"error">>) \o <<"message", "LF">>

(* the bytes of the line with number i *)
Line(i, l, err) == [k \in DOMAIN Pieces(l, err) |-> <<i, Pieces(l, err)[k]>>]

log_core_writer(t, l, err, n) ==
    LET line == Line(Len(lines) + 1, l, err)
    IN  /\ file_write(t, line, FL_DEFAULT_OFFSET)
        /\ lines' = Append(lines, [by |-> t, line |-> line])
        /\ fate' \in IF LineLen(l, err, n) > LOG_CONTENT_MAX_LEN
                     THEN {"ok", "undefined"} ELSE {"ok"}
        /\ UNCHANGED level

(* log_error, log_warn, log_info, log_debug, on a logger that is not NULL *)
Logs(t, l, err, n) ==
    IF l = LOG_LEVEL_ERROR \/ level >= l THEN log_core_writer(t, l, err, n)
    ELSE UNCHANGED vars

log_create == level \in 1 .. LOG_LEVEL_STDOUT

-----------------------------------------------------------------------------

Calls == Len(SelectSeq(lines, LAMBDA r : r.by = "main"))

LogLine ==
    /\ append /\ Calls < MAX_LINES /\ ~Running("main") /\ MayRun("main")
    /\ \E l \in Levels, err \in ErrLen, n \in MsgLen : Logs("main", l, err, n)

(* at any moment, once (SA_RESETHAND) *)
sig_term_handler ==
    /\ append /\ \A i \in DOMAIN lines : lines[i].by # "handler"
    /\ Logs("handler", LOG_LEVEL_WARN, 0, TermLen)

UseAtOffset ==
    /\ ~append /\ Calls < MAX_CALLS
    /\ \E at \in Offsets \cup {FL_DEFAULT_OFFSET}, size \in 1 .. 2 :
          LET buf == [k \in 1 .. size |-> <<Len(lines) + 1, k>>]
          IN  /\ file_read("main", size, at) \/ file_write("main", buf, at)
              /\ lines' = Append(lines, [by |-> "main", line |-> buf])
    /\ UNCHANGED <<level, fate>>

WriteOrRead == (\E t \in Thread : read(t) \/ write(t)) /\ UNCHANGED <<level, lines, fate>>

Init ==
    /\ file_open /\ log_create /\ lines = <<>> /\ fate = "ok"

Idling ==
    /\ ~Running("main") /\ ~Running("handler")
    /\ Calls = (IF append THEN MAX_LINES ELSE MAX_CALLS) /\ UNCHANGED vars

Undefined == fate = "undefined" /\ UNCHANGED vars

Next ==
    \/ fate = "ok" /\ (LogLine \/ sig_term_handler \/ UseAtOffset \/ WriteOrRead \/ Idling)
    \/ Undefined

Spec == Init /\ [][Next]_vars

-----------------------------------------------------------------------------

(* The calls and the file keep their types; what a call has left to write  *)
(* is the end of its buffer.                                               *)
TypeOK ==
    /\ append \in BOOLEAN /\ sought \in BOOLEAN /\ {pos, offset} \subseteq Nat
    /\ log_create /\ fate \in {"ok", "undefined"}
    /\ \A t \in Thread :
          /\ call[t].pc \in {"read", "write", "returned"} /\ call[t].ret \in {"OK", "XPE_ERROR"}
          /\ call[t].op = "write" => call[t].written + call[t].size = Len(call[t].buf)

(* the pieces of line i that are in the file *)
Written(i) ==
    {k \in DOMAIN lines[i].line : \E j \in DOMAIN bytes : bytes[j] = lines[i].line[k]}

(* how a byte of the file and a later one are related: the lines of one    *)
(* caller in their order, the pieces of a line in theirs and each once,    *)
(* and nothing between two pieces of the handler's line                    *)
InOrder(j1, j2) ==
    LET i == bytes[j1][1]
    IN  /\ lines[i].by = lines[bytes[j2][1]].by => i <= bytes[j2][1]
        /\ i = bytes[j2][1] =>
              /\ \A k1, k2 \in DOMAIN lines[i].line :
                    bytes[j1] = lines[i].line[k1] /\ bytes[j2] = lines[i].line[k2] => k1 < k2
              /\ lines[i].by = "handler" => \A j \in j1 .. j2 : bytes[j][1] = i

(* Whatever short writes, failures and interruptions there are, every line *)
(* is in the log file at most once, from its beginning, in the order of    *)
(* the calls, and whole if file_write did not fail; nothing else is in the *)
(* file. The handler's line may be inside one of the program, but is       *)
(* itself in one piece.                                                    *)
LogInOrder ==
    append =>
        /\ \A j \in DOMAIN bytes : /\ bytes[j][1] \in DOMAIN lines
                                  /\ \E k \in DOMAIN lines[bytes[j][1]].line :
                                        bytes[j] = lines[bytes[j][1]].line[k]
        /\ \A i \in DOMAIN lines :
              LET w == Written(i)
              IN  /\ \A k \in w : 1 .. k \subseteq w
                  /\ \A t \in Thread : /\ ~Running(t) /\ call[t].ret = "OK"
                                       /\ call[t].buf = lines[i].line
                                       => w = DOMAIN lines[i].line
        /\ \A j1, j2 \in DOMAIN bytes : j1 < j2 => InOrder(j1, j2)

==============================================================================
