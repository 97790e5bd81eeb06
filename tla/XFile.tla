-------------------------------- MODULE XFile --------------------------------
(***************************************************************************)
(* Files that are read and written at an offset (src/xfile.c): a file_t    *)
(* with its copy of the position, the file behind it, and the calls of     *)
(* file_read and file_write in progress, one of the program and one of a   *)
(* signal handler that interrupts it.                                      *)
(***************************************************************************)
EXTENDS Integers, Sequences

CONSTANTS
    Junk      \* an offset that an uninitialised file_t may hold

ASSUME XFileAssumption == Junk \subseteq Nat

VARIABLES
    bytes,     \* contents of the file
    pos,       \* position of the fd
    append,    \* was it opened with FL_APPEND?
    offset,    \* f->offset
    sought,    \* history: has lseek ever been called?
    call       \* the calls: what is left to do, and the arguments

fvars == <<bytes, pos, append, offset, sought, call>>

Thread == {"main", "handler"}
FL_DEFAULT_OFFSET == -1

Idle == [pc |-> "returned", buf |-> <<>>, at |-> FL_DEFAULT_OFFSET, written |-> 0, size |-> 0,
         ret |-> "OK", op |-> "none"]
Running(t) == call[t].pc # "returned"

(* the handler runs to its end before the program goes on *)
MayRun(t) == t = "main" => ~Running("handler")

(* file_open, or cmd_log_set, which fills in a file_t with FL_APPEND       *)
(* itself; both leave f->offset uninitialised. A file that is not for      *)
(* appending may be read and written here, as the two functions allow.     *)
file_open ==
    /\ bytes = <<>> /\ pos = 0 /\ append \in BOOLEAN
    /\ offset \in Junk /\ sought = FALSE
    /\ call = [t \in Thread |-> Idle]

Return(t, ret) == call' = [call EXCEPT ![t].pc = "returned", ![t].ret = ret]

(* the beginning of both functions: lseek, unless f->offset is there already *)
Seek(t, c) ==
    \/ /\ c.at \in {FL_DEFAULT_OFFSET, offset}
       /\ call' = [call EXCEPT ![t] = c]
       /\ UNCHANGED <<bytes, pos, append, offset, sought>>
    \/ /\ c.at \notin {FL_DEFAULT_OFFSET, offset}
       /\ call' = [call EXCEPT ![t] = c]
       /\ pos' = c.at /\ offset' = c.at /\ sought' = TRUE
       /\ UNCHANGED <<bytes, append>>
    \/ /\ c.at \notin {FL_DEFAULT_OFFSET, offset}
       /\ call' = [call EXCEPT ![t] = [c EXCEPT !.pc = "returned", !.ret = "XPE_ERROR"]]
       /\ UNCHANGED <<bytes, pos, append, offset, sought>>

file_read(t, size, at) ==
    /\ ~Running(t) /\ MayRun(t)
    /\ Seek(t, [Idle EXCEPT !.pc = "read", !.op = "read", !.size = size, !.at = at])

file_write(t, buf, at) ==
    /\ ~Running(t) /\ MayRun(t)
    /\ Seek(t, [Idle EXCEPT !.pc = "write", !.op = "write", !.buf = buf, !.size = Len(buf),
                            !.at = at])

(* read(2), up to the end of the file *)
read(t) ==
    /\ call[t].pc = "read" /\ MayRun(t)
    /\ \/ LET data == SubSeq(bytes, pos + 1, IF pos + call[t].size < Len(bytes)
                                             THEN pos + call[t].size ELSE Len(bytes))
          IN  /\ offset' = offset + Len(data) /\ pos' = pos + Len(data)
              /\ call' = [call EXCEPT ![t].pc = "returned", ![t].buf = data]
              /\ UNCHANGED <<bytes, append, sought>>
       \/ Return(t, "XPE_ERROR") /\ UNCHANGED <<bytes, pos, append, offset, sought>>

(* write(2): n of the bytes, at the position or at the end of the file *)
Zero == <<0, 0>>
Overwritten(data, at) ==
    [i \in 1 .. (IF at + Len(data) > Len(bytes) THEN at + Len(data) ELSE Len(bytes)) |->
        IF i \in at + 1 .. at + Len(data) THEN data[i - at]
        ELSE IF i <= Len(bytes) THEN bytes[i] ELSE Zero]

Data_FromStart(c, n) == SubSeq(c.buf, 1, n)
Data(c, n) == SubSeq(c.buf, c.written + 1, c.written + n)

Advanced_Not(n) == offset
Advanced(n) == offset + n

Left_All(c, n) == c.size
Left(c, n) == c.size - n

write(t) ==
    /\ call[t].pc = "write" /\ MayRun(t)
    /\ \/ \E n \in 0 .. call[t].size :
            LET at == IF append THEN Len(bytes) ELSE pos
            IN  /\ n = 0 => call[t].size = 0
                /\ bytes' = Overwritten(Data(call[t], n), at)
                /\ pos' = at + n /\ offset' = Advanced(n)
                /\ call' = [call EXCEPT ![t].written = @ + n, ![t].size = Left(call[t], n),
                                        ![t].pc = IF n = call[t].size THEN "returned" ELSE @]
                /\ UNCHANGED <<append, sought>>
       \/ Return(t, "XPE_ERROR") /\ UNCHANGED <<bytes, pos, append, offset, sought>>

-----------------------------------------------------------------------------
(* A call with an offset that has returned without an error has read or    *)
(* written the bytes there, whatever calls with and without offset, short  *)
(* writes and failures went before it: f->offset is never a stale copy of  *)
(* the position. Before the first lseek it is an uninitialised one.        *)
AtOffset ==
    \A t \in Thread :
        LET c == call[t]
        IN  ~append /\ sought /\ ~Running(t) /\ c.ret = "OK" /\ c.at # FL_DEFAULT_OFFSET =>
                \A i \in DOMAIN c.buf : c.at + i <= Len(bytes) /\ c.buf[i] = bytes[c.at + i]

==============================================================================
