------------------------------ MODULE ConfFile ------------------------------
(***************************************************************************)
(* The parser of the configuration file (src/conf_file.c) with the         *)
(* commands of the two modules that it calls (src/xpipe.c, src/net/        *)
(* network.c), and the growing array of a command's words. A character is  *)
(* one of a few representatives, and the words of the configuration are    *)
(* short (constant Word).                                                  *)
(***************************************************************************)
EXTENDS Integers, Sequences, SequencesExt

CONSTANTS
    Word,        \* how modules, commands and values are spelled here
    Files,       \* the contents the file may have
    BUFF,        \* bytes of a file_read
    NARGS,       \* elements for which cmd_args has memory at first
    UINT,        \* number of values of an uint_t
    xpipe_install_dir_path

LF == "LF"
is_blank(c)  == c \in {LF, " "}
is_letter(c) == c \in {"m", "n"}
is_digit(c)  == c \in {"0", "1"}

A == INSTANCE DynamicArray WITH Junk <- <<"?">>, NULL <- <<>>

ASSUME ConfAssumption ==
    /\ {BUFF, NARGS, UINT} \subseteq Nat \ {0}
    /\ \A w \in DOMAIN Word : Word[w] # <<>>

VARIABLES
    file,     \* the contents of the file
    offset,   \* how much of it was read
    x         \* the variables of conf_file_parser, and what it fills in

vars == <<file, offset, x>>

Modules == {"main", "net"}
NULL == [null |-> TRUE]   \* no mod_conf, no logger

(* commands[] of the modules, up to conf_command_null *)
Command(mod, name) == [mod |-> mod, name |-> name]
main_commands == <<Command(0, "daemon"), Command(0, "pid"), Command(1, "log")>>
net_commands ==
    <<Command(0, "listen"), Command(0, "connections"), Command(0, "nodelay"),
      Command(0, "request_buffer_size")>>
commands == [main |-> main_commands, net |-> net_commands]

-----------------------------------------------------------------------------
(* Values *)

is_positive_integer(w) ==
    /\ w # <<>> /\ w[1] # "0"
    /\ \A i \in DOMAIN w : is_digit(w[i])

(* atoi, kept in an uint_t *)
x_atoi(w) ==
    FoldLeft(LAMBDA n, d : 10 * n + (IF d = "1" THEN 1 ELSE 0), 0, w) % UINT

make_full_file_name(name) ==
    xpipe_install_dir_path
        \o (IF Last(xpipe_install_dir_path) = "/" THEN <<>> ELSE <<"/">>) \o name

FileName(arg) == IF arg # <<>> /\ arg[1] = "/" THEN arg ELSE make_full_file_name(arg)

Levels == {"error", "warn", "info", "debug", "stdout"}

create_main_loc_conf == [daemon |-> FALSE, pid_file |-> Word["default_pid_file"]]
create_net_mod_conf ==
    [port |-> 0, conns |-> 0, nodelay |-> FALSE, request_buffer_size |-> 0]
create_conf == [main |-> create_main_loc_conf, net |-> create_net_mod_conf]

Error(y) == [y EXCEPT !.ret = "ERROR"]

-----------------------------------------------------------------------------
(* The commands, on the configuration y of module y.mod and its args. *)

nargs(y) == A!nelts(y.cmd_args)
Arg(y, i) == A!dynamic_array_get_ix(y.cmd_args, i)
Set(y, field, value) == [y EXCEPT !.conf[y.mod][field] = value]

cmd_daemon_set(y) ==
    IF nargs(y) # 2 THEN Error(y)
    ELSE Set(y, "daemon", Arg(y, 1) # Word["off"])

cmd_pid_set(y) ==
    IF nargs(y) # 2 THEN Error(y)
    ELSE Set(y, "pid_file", FileName(Arg(y, 1)))

(* The file is opened for appending, and created if need be, before the    *)
(* level is looked at; files are not part of this module.                  *)
cmd_log_set(y) ==
    LET level == {l \in Levels : Word[l] = Arg(y, 2)}
    IN  IF nargs(y) # 3 \/ level = {} THEN Error(y)
        ELSE [y EXCEPT !.logger[y.mod] =
                [file |-> FileName(Arg(y, 1)), level |-> CHOOSE l \in level : TRUE]]

NumberSet(y, field) ==
    IF nargs(y) # 2 \/ ~is_positive_integer(Arg(y, 1)) THEN Error(y)
    ELSE Set(y, field, x_atoi(Arg(y, 1)))

cmd_listen_set(y)              == NumberSet(y, "port")
cmd_connecions_set(y)          == NumberSet(y, "conns")
cmd_request_buffer_size_set(y) == NumberSet(y, "request_buffer_size")

cmd_nodelay_set(y) ==
    IF nargs(y) # 1 THEN Error(y) ELSE Set(y, "nodelay", TRUE)

set(y, command) ==
    CASE command = "daemon" -> cmd_daemon_set(y)
      [] command = "pid" -> cmd_pid_set(y)
      [] command = "log" -> cmd_log_set(y)
      [] command = "listen" -> cmd_listen_set(y)
      [] command = "connections" -> cmd_connecions_set(y)
      [] command = "nodelay" -> cmd_nodelay_set(y)
      [] command = "request_buffer_size" -> cmd_request_buffer_size_set(y)

-----------------------------------------------------------------------------
(* Look-up. A module's own commands are those before the first with `mod'. *)

conf_file_get_sys_mod(name) == {m \in Modules : Word[m] = name}

Own(m) == {i \in DOMAIN commands[m] : \A j \in 1 .. i : commands[m][j].mod = 0}

conf_file_get_command(m, name) ==
    {commands[m][i].name : i \in {j \in Own(m) : Word[commands[m][j].name] = name}}

(* mod_cmds, which conf_file_init builds *)
conf_file_get_global_cmd(name) ==
    {c.name : c \in {d \in Range(commands["main"]) : d.mod = 1 /\ Word[d.name] = name}}

-----------------------------------------------------------------------------
(* The parser: one turn of its loop on character c. Fields of y are its    *)
(* variables (key: the k characters in it), the mod_conf and the logger of *)
(* the modules, and as history the text without its comments.              *)

NewParser ==
    [state |-> "out", old_state |-> "out", key |-> <<>>, line |-> 1, blocks |-> 0,
     mod |-> "main", cmd_args |-> A!dynamic_array_create(NARGS),
     conf |-> [m \in Modules |-> NULL], logger |-> [m \in Modules |-> NULL],
     plain |-> <<>>, ret |-> "reading"]

Goto(y, state) == [y EXCEPT !.state = state]
AddToKey(y, state, c) == [y EXCEPT !.state = state, !.key = Append(@, c)]

Comment_Out(y, old_state) == [y EXCEPT !.state = "comment", !.old_state = "out"]
Comment(y, old_state) == [y EXCEPT !.state = "comment", !.old_state = old_state]

(* case sw_mod_name_end *)
ModNameEnd(y) ==
    LET mod == conf_file_get_sys_mod(y.key)
    IN  IF mod = {} THEN Error(y)
        ELSE LET m == CHOOSE m \in mod : TRUE
             IN  [y EXCEPT !.mod = m, !.conf[m] = create_conf[m],
                           !.key = <<>>, !.blocks = @ + 1]

(* the word in key becomes the next element of cmd_args *)
PushArg_KeyKept(y) == [y EXCEPT !.cmd_args = A!dynamic_array_push(@, y.key)]
PushArg(y) ==
    [y EXCEPT !.cmd_args = A!dynamic_array_push(@, y.key), !.key = <<>>]

(* case sw_command_end, CMD_END *)
CommandEnd(y) ==
    LET name  == Arg(y, 0)
        found == IF conf_file_get_command(y.mod, name) # {}
                 THEN conf_file_get_command(y.mod, name) ELSE conf_file_get_global_cmd(name)
    IN  IF found = {} THEN Error(y)
        ELSE set(Goto(y, "mod_block"), CHOOSE c \in found : TRUE)

Turn(y, c) ==
    CASE y.state = "out" ->
           IF c = "#" THEN Comment(y, "out")
           ELSE IF is_letter(c) THEN AddToKey(y, "mod_name", c)
           ELSE IF is_blank(c) THEN y ELSE Error(y)
      [] y.state = "comment" -> IF c = LF THEN Goto(y, y.old_state) ELSE y
      [] y.state = "mod_name" ->
           IF is_letter(c) \/ is_digit(c) \/ c \in {"_", "-"} THEN AddToKey(y, "mod_name", c)
           ELSE IF is_blank(c) THEN ModNameEnd(Goto(y, "mod_name_end_blank"))
           ELSE IF c = "{" THEN ModNameEnd(Goto(y, "mod_block"))
           ELSE IF c = "#" THEN ModNameEnd(Comment(y, "mod_name_end_blank"))
           ELSE Error(y)
      [] y.state = "mod_name_end_blank" ->
           IF c = "{" THEN Goto(y, "mod_block") ELSE IF is_blank(c) THEN y ELSE Error(y)
      [] y.state = "mod_block" ->
           IF c = "#" THEN Comment(y, "mod_block")
           ELSE IF is_blank(c) THEN y
           ELSE IF is_letter(c)
                THEN [AddToKey(y, "command", c) EXCEPT
                        !.cmd_args = A!dynamic_array_create(NARGS)]
           ELSE IF c = "}" THEN Goto(y, "out") ELSE Error(y)
      [] y.state = "command" ->
           IF is_blank(c) THEN Goto(PushArg(y), "command_blank")
           ELSE IF c = ";" THEN CommandEnd(PushArg(y)) ELSE AddToKey(y, "command", c)
      [] y.state = "command_blank" ->
           IF c = ";" THEN CommandEnd(y)
           ELSE IF is_blank(c) THEN y ELSE AddToKey(y, "command", c)

Loop(y, s) ==
    FoldLeft(LAMBDA z, c :
                 IF z.ret # "reading" THEN z
                 ELSE LET t == Turn(z, c)
                      IN  [t EXCEPT !.line = IF c = LF THEN @ + 1 ELSE @,
                                    !.plain = IF t.state = "comment" THEN @ ELSE Append(@, c)],
             y, s)

-----------------------------------------------------------------------------

Unread == Len(file) - offset

(* one round of READ_CONF_FILE *)
ReadFile ==
    LET n == IF Unread < BUFF THEN Unread ELSE BUFF
    IN  /\ x.ret = "reading" /\ n > 0
        /\ x' = Loop(x, SubSeq(file, offset + 1, offset + n))
        /\ offset' = offset + n
        /\ UNCHANGED file

EndOfFile ==
    /\ x.ret = "reading" /\ Unread = 0
    /\ x' = [x EXCEPT !.ret = IF x.state = "out" THEN "OK" ELSE "ERROR"]
    /\ UNCHANGED <<file, offset>>

(* the file cannot be opened or read, or a pool has no more memory *)
ReadFails ==
    /\ x.ret = "reading"
    /\ x' = [x EXCEPT !.ret = "FAILED"]
    /\ UNCHANGED <<file, offset>>

Init == file \in Files /\ offset = 0 /\ x = NewParser

Returned == x.ret # "reading" /\ UNCHANGED vars

Next == ReadFile \/ EndOfFile \/ ReadFails \/ Returned

Spec == Init /\ [][Next]_vars
-----------------------------------------------------------------------------
(* What a configuration means, without a state machine: a sequence of      *)
(* blocks, each a module's name and commands in braces. A comment stands   *)
(* where a block or a command might begin, or right behind a name.         *)

Behind(s, n) == SubSeq(s, n + 1, Len(s))
Has(s, c) == \E i \in DOMAIN s : s[i] = c
FirstOf(s, c) == CHOOSE i \in DOMAIN s : s[i] = c /\ \A j \in 1 .. i - 1 : s[j] # c

(* the longest beginning of s of which all characters are in class P *)
Span(s, P(_)) ==
    SubSeq(s, 1, CHOOSE n \in 0 .. Len(s) : /\ \A i \in 1 .. n : P(s[i])
                                           /\ n < Len(s) => ~P(s[n + 1]))

IsNameChar(c) == is_letter(c) \/ is_digit(c) \/ c \in {"_", "-"}
IsNoBlank(c)  == ~is_blank(c)

Unblank(s) == Behind(s, Len(Span(s, is_blank)))

RECURSIVE Skip(_)
Skip(s) ==
    LET t == Unblank(s)
    IN  IF t # <<>> /\ t[1] = "#" /\ Has(t, LF) THEN Skip(Behind(t, FirstOf(t, LF))) ELSE t

RECURSIVE Words(_)
Words(s) ==
    LET t == Unblank(s)
        w == Span(t, IsNoBlank)
    IN  IF t = <<>> THEN <<>> ELSE <<w>> \o Words(Behind(t, Len(w)))

Invalid == Error(NewParser)

CommandOf(mod, word) ==
    {c \in {"daemon", "pid", "listen", "connections", "nodelay", "request_buffer_size", "log"} :
        /\ Word[c] = word
        /\ c = "log" \/ \E d \in Range(commands[mod]) : d.name = c}

RECURSIVE Blocks(_, _)
RECURSIVE Body(_, _, _)

Blocks(s, meaning) ==
    LET t == Skip(s)
        name == Span(t, IsNameChar)
        rest == Behind(t, Len(name))
        open == IF rest # <<>> /\ rest[1] = "#" /\ Has(rest, LF)
                THEN Unblank(Behind(rest, FirstOf(rest, LF))) ELSE Unblank(rest)
        mod == {m \in Modules : Word[m] = name}
    IN  IF t = <<>> THEN meaning
        ELSE IF mod = {} \/ open = <<>> \/ open[1] # "{" THEN Invalid
        ELSE LET m == CHOOSE m \in mod : TRUE
             IN  Body(Tail(open), m, [meaning EXCEPT !.conf[m] = create_conf[m]])

Body(s, m, meaning) ==
    LET t == Skip(s)
        words == Words(SubSeq(t, 1, FirstOf(t, ";") - 1))
        done == set([meaning EXCEPT !.mod = m,
                                    !.cmd_args = [elts |-> words, nalloc |-> Len(words)]],
                    CHOOSE c \in CommandOf(m, words[1]) : TRUE)
    IN  IF t = <<>> THEN Invalid
        ELSE IF t[1] = "}" THEN Blocks(Tail(t), meaning)
        ELSE IF ~is_letter(t[1]) \/ ~Has(t, ";") THEN Invalid
        ELSE IF CommandOf(m, words[1]) = {} \/ done.ret = "ERROR" THEN Invalid
        ELSE Body(Behind(t, FirstOf(t, ";")), m, done)

Meaning(s) == Blocks(s, NewParser)

-----------------------------------------------------------------------------
(* The parser's variables keep their types. Between two blocks no word is  *)
(* half read, and inside one the module's configuration exists: commands   *)
(* never store through a NULL mod_conf.                                    *)
TypeOK ==
    /\ offset \in 0 .. Len(file)
    /\ x.ret \in {"reading", "OK", "ERROR", "FAILED"}
    /\ x.state \in {"out", "comment", "mod_name", "mod_name_end_blank", "mod_block",
                    "command", "command_blank"}
    /\ nargs(x) <= x.cmd_args.nalloc
    /\ x.ret = "reading" /\ x.state \in {"out", "mod_block", "command_blank"} => x.key = <<>>
    /\ x.ret = "reading" /\ x.state \in {"mod_block", "command", "command_blank"} =>
          x.conf[x.mod] # NULL

(* conf_file_parser accepts exactly the files that are configurations, and *)
(* leaves the modules with what the file says: the last block of a module  *)
(* counts, with the last command of a kind in it, and a log command stays  *)
(* in force when the module's block is repeated.                           *)
ParsedAsWritten ==
    x.ret \in {"OK", "ERROR"} =>
        LET m == Meaning(file)
        IN  IF x.ret = "OK" THEN m.ret = "reading" /\ x.conf = m.conf /\ x.logger = m.logger
            ELSE m.ret = "ERROR"

(* A comment may stand before any block or command and behind a name, and  *)
(* means no more than the end of its line: without the comments the parser *)
(* is in the same state, with the same line number for its messages.       *)
CommentsDoNotMatter ==
    x.ret = "reading" /\ x.state # "comment" =>
        LET y == Loop(NewParser, x.plain)
        IN  \A f \in DOMAIN x \ {"old_state"} : y[f] = x[f]

=============================================================================
