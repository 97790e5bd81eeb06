------------------------------- MODULE Startup -------------------------------
(***************************************************************************)
(* Starting, running and stopping the program (src/xpipe.c and             *)
(* src/mod_manager.c, and what src/net/network.c does at start-up and in a *)
(* turn of the main loop), started again and again from an installation:   *)
(* the processes share the pid file, the port and the default log file.    *)
(* What conf_file_parser (module ConfFile) makes of the configuration file *)
(* is a member of Confs: the file may be edited between two starts.        *)
(***************************************************************************)
EXTENDS Naturals, Sequences, FiniteSets

CONSTANTS
    Confs,   \* [main, net: does the module have a block?  main_log, net_log: and
             \*  a log command in it?  daemon, conns, port: as in the mod_confs]
    Pid,     \* the pids, as sequences of digits, in the order the kernel gives them
    MAX_STARTS   \* bound: with so many processes alive, the program is not started again

ASSUME StartupAssumption ==
    /\ Pid \in Seq(Seq(STRING) \ {<<>>})
    /\ \A c \in Confs : /\ {c.main, c.net, c.main_log, c.net_log, c.daemon} \subseteq BOOLEAN
                        /\ {c.conns, c.port} \subseteq Nat
                        /\ (c.main_log => c.main) /\ (c.net_log => c.net)

VARIABLES
    proc,          \* the processes started so far
    pid_file,      \* contents of the pid file
    default_log,   \* does default_logger_full_path exist?
    written        \* history: the processes that wrote into the pid file, with their port

vars == <<proc, pid_file, default_log, written>>

NULL == "NULL"
Gone == {"exited", "crashed"}
Steps == {"conf_file_parser", "create_default_logger", "sys_modules_prepare", "init_main_mod",
          "init_network_mod", "process_daemon", "exit", "open_pid_file", "write_pid",
          "while", "process_mod", "epoll_wait"}

Alive(p) == proc[p].pc \notin Gone
At(p, pc) == proc[p].pc = pc
conf(p) == proc[p].conf

(* A process: conf and logger are the modules' (main, net), stop and       *)
(* default_logger are fields of xpipe_resource, handler tells whether      *)
(* sig_term_handler is set up, port is what its socket is bound to.        *)
NoConf == [main |-> FALSE, net |-> FALSE, main_log |-> FALSE, net_log |-> FALSE,
           daemon |-> FALSE, conns |-> 0, port |-> 0]
Process ==
    [pc |-> "conf_file_parser", conf |-> NoConf, stop |-> FALSE, handler |-> FALSE,
     default_logger |-> NULL, logger |-> [main |-> NULL, net |-> NULL],
     listening |-> FALSE]

Becomes(p, r) == proc' = [proc EXCEPT ![p] = r] /\ UNCHANGED <<pid_file, default_log, written>>
Goto(p, pc)   == Becomes(p, [proc[p] EXCEPT !.pc = pc])
Leave(p, how) == Becomes(p, [Process EXCEPT !.pc = how])   \* the memory is gone as well
Error(p) == Leave(p, "exited")                             \* main returns XPE_ERROR

-----------------------------------------------------------------------------
(* main *)

Start ==
    /\ Len(proc) < Len(Pid)
    /\ Cardinality({p \in DOMAIN proc : Alive(p)}) < MAX_STARTS
    /\ proc' = Append(proc, Process)
    /\ UNCHANGED <<pid_file, default_log, written>>

(* timer_init and conf_file_parser; a log command creates its file *)
conf_file_parser(p) ==
    /\ At(p, "conf_file_parser")
    /\ \/ \E c \in Confs :
            Becomes(p, [proc[p] EXCEPT
              !.pc = "create_default_logger", !.conf = c,
              !.logger = [main |-> IF c.main_log THEN "main" ELSE NULL,
                          net |-> IF c.net_log THEN "net" ELSE NULL]])
       \/ Error(p)

(* Without a log command in `main' a logger for the default file is made,  *)
(* but not stored in default_logger. The file is opened, not created.      *)
create_default_logger(p) ==
    /\ At(p, "create_default_logger")
    /\ IF proc[p].logger.main # NULL
       THEN Becomes(p, [proc[p] EXCEPT !.pc = "sys_modules_prepare",
                                       !.default_logger = proc[p].logger.main])
       ELSE (default_log /\ Goto(p, "sys_modules_prepare")) \/ Error(p)

sys_modules_prepare_NoDefault(p) ==
    /\ At(p, "sys_modules_prepare")
    /\ Goto(p, "init_main_mod") \/ Error(p)

(* ... or no memory for the pool of a module *)
sys_modules_prepare(p) ==
    /\ At(p, "sys_modules_prepare")
    /\ \/ LET l == proc[p].logger
              default(own) == IF own = NULL THEN proc[p].default_logger ELSE own
          IN  Becomes(p, [proc[p] EXCEPT !.pc = "init_main_mod",
                            !.logger = [main |-> default(l.main), net |-> default(l.net)]])
       \/ Error(p)

(* setup_signals: SIGHUP and SIGPIPE are ignored, SIGTERM is handled *)
init_main_mod(p) ==
    /\ At(p, "init_main_mod")
    /\ Becomes(p, [proc[p] EXCEPT !.pc = "init_network_mod", !.handler = TRUE])

(* EADDRINUSE; port 0 lets the kernel choose a free one *)
PortTaken(port) ==
    /\ port # 0
    /\ \E q \in DOMAIN proc : proc[q].listening /\ conf(q).port = port

init_network_mod_NoCrash(p) ==
    /\ At(p, "init_network_mod")
    /\ Becomes(p, [proc[p] EXCEPT !.pc = "process_daemon"])

(* The first use of cf is after an allocation. epoll_create refuses size 0. *)
init_network_mod(p) ==
    /\ At(p, "init_network_mod")
    /\ \/ ~conf(p).net /\ Leave(p, "crashed")
       \/ /\ conf(p).net
          /\ conf(p).conns \div 2 > 0
          /\ ~PortTaken(conf(p).port)
          /\ Becomes(p, [proc[p] EXCEPT !.pc = "process_daemon", !.listening = TRUE])
       \/ Error(p)

(* A failed fork cannot be told from the parent's side of a fork. *)
process_daemon(p) ==
    /\ At(p, "process_daemon")
    /\ \/ ~conf(p).main /\ Leave(p, "crashed")
       \/ conf(p).main /\ ~conf(p).daemon /\ Goto(p, "while")
       \/ /\ conf(p).main /\ conf(p).daemon
          /\ Len(proc) < Len(Pid)
          /\ proc' = Append([proc EXCEPT ![p].pc = "exit"],
                            [proc[p] EXCEPT !.pc = "open_pid_file"])
          /\ UNCHANGED <<pid_file, default_log, written>>
       \/ conf(p).main /\ conf(p).daemon /\ Goto(p, "exit")

exit(p) == At(p, "exit") /\ Leave(p, "exited")

(* setsid, /dev/null for the standard files, FL_WRONLY|FL_CREATE *)
open_pid_file(p) == At(p, "open_pid_file") /\ (Goto(p, "write_pid") \/ Error(p))

(* n digits of the pid go over the beginning of the file *)
PidWritten(p, n) ==
    /\ pid_file' = SubSeq(Pid[p], 1, n) \o SubSeq(pid_file, n + 1, Len(pid_file))
    /\ written' = Append(written, [by |-> p, port |-> conf(p).port])
    /\ UNCHANGED default_log

write_pid_Short(p) ==
    /\ At(p, "write_pid")
    /\ \E n \in 0 .. Len(Pid[p]) :
          PidWritten(p, n) /\ proc' = [proc EXCEPT ![p].pc = "while"]

write_pid(p) ==
    /\ At(p, "write_pid")
    /\ \E n \in 0 .. Len(Pid[p]) :
          /\ PidWritten(p, n)
          /\ proc' = [proc EXCEPT ![p] =
                        IF n = Len(Pid[p]) THEN [@ EXCEPT !.pc = "while"]
                        ELSE [Process EXCEPT !.pc = "exited"]]

-----------------------------------------------------------------------------
(* system_modules_working *)

while(p) ==
    /\ At(p, "while")
    /\ IF proc[p].stop THEN Leave(p, "exited") ELSE Goto(p, "process_mod")

process_network_mod(p) == At(p, "process_mod") /\ Goto(p, "epoll_wait")

(* epoll_wait returns: the network layer (module TcpServer) handles the    *)
(* events that came, or none came for a second.                            *)
process_events(p) == At(p, "epoll_wait") /\ Goto(p, "while")

epoll_timeout_Never(p) == FALSE /\ process_events(p)
epoll_timeout(p) == process_events(p)

(* sig_term_handler, once (SA_RESETHAND); epoll_wait returns with EINTR.   *)
SIGTERM_Again(p) ==
    /\ Alive(p)
    /\ IF ~proc[p].handler THEN Leave(p, "exited")
       ELSE Becomes(p, [proc[p] EXCEPT !.stop = TRUE,
                                       !.pc = IF @ = "epoll_wait" THEN "while" ELSE @])

SIGTERM(p) ==
    /\ Alive(p)
    /\ IF ~proc[p].handler THEN Leave(p, "exited")
       ELSE Becomes(p, [proc[p] EXCEPT !.stop = TRUE, !.handler = FALSE,
                                       !.pc = IF @ = "epoll_wait" THEN "while" ELSE @])

SIGKILL(p) == Alive(p) /\ Leave(p, "exited")

-----------------------------------------------------------------------------

Init == proc = <<>> /\ pid_file = <<>> /\ default_log \in BOOLEAN /\ written = <<>>

main(p) ==
    \/ conf_file_parser(p) \/ create_default_logger(p) \/ sys_modules_prepare(p)
    \/ init_main_mod(p) \/ init_network_mod(p)
    \/ process_daemon(p) \/ exit(p) \/ open_pid_file(p) \/ write_pid(p)
    \/ while(p) \/ process_network_mod(p) \/ epoll_timeout(p)

(* all pids are used up *)
Ended == Len(proc) = Len(Pid) /\ (\A p \in DOMAIN proc : ~Alive(p)) /\ UNCHANGED vars

Next ==
    \/ Start \/ Ended
    \/ \E p \in DOMAIN proc : main(p) \/ process_events(p) \/ SIGTERM(p) \/ SIGKILL(p)

(* The kernel runs every process that is ready, and epoll_wait returns when *)
(* its second is over.                                                      *)
Spec ==
    /\ Init /\ [][Next]_vars
    /\ \A p \in DOMAIN Pid : WF_vars(p \in DOMAIN proc /\ main(p))

-----------------------------------------------------------------------------
(* A process is in one of the steps of main or gone. Only a process that   *)
(* is not gone holds a port, and sig_term_handler runs once.               *)
TypeOK ==
    /\ \A i \in DOMAIN pid_file : \E p \in DOMAIN proc : i <= Len(Pid[p]) /\ pid_file[i] = Pid[p][i]
    /\ \A p \in DOMAIN proc :
          /\ proc[p].pc \in Steps \cup Gone
          /\ proc[p].conf \in Confs \cup {NoConf}
          /\ proc[p].listening => Alive(p) /\ proc[p].conf.net
          /\ ~(proc[p].handler /\ proc[p].stop)

Serving(p) == proc[p].pc \in {"while", "process_mod", "epoll_wait"}

(* No check in main looks whether `main' and `net' have a block in the     *)
(* configuration: a process crashes exactly if it gets as far as the first *)
(* use of a block that is missing, and it starts to serve only with both,  *)
(* with two connections at least, and listening.                           *)
CrashOnlyIfBlockMissing ==
    [][\A p \in DOMAIN proc :
          /\ proc'[p].pc = "crashed" /\ Alive(p) => ~conf(p).main \/ ~conf(p).net
          /\ proc'[p].pc = "while" /\ ~Serving(p) =>
                conf(p).main /\ conf(p).net /\ conf(p).conns >= 2 /\ proc[p].listening]_vars

IsStart(p, s) == Len(p) <= Len(s) /\ \A i \in DOMAIN p : p[i] = s[i]

(* process_daemon writes the pid file after the port is bound and does not *)
(* truncate it. Still, whatever second starts on the port, short writes    *)
(* and kills there are, it begins with the pid of the daemon that serves   *)
(* on the port, unless a daemon that was configured with another port      *)
(* wrote it later. Behind the pid there may be the end of a longer one:    *)
(* the file as a whole need not name the daemon.                           *)
ServerPidInFile ==
    \A p \in DOMAIN proc :
        Serving(p) /\ conf(p).daemon =>
            \E i \in DOMAIN written :
               /\ written[i].by = p
               /\ \A j \in i + 1 .. Len(written) :
                     conf(p).port = 0 \/ written[j].port # conf(p).port
               /\ i = Len(written) => IsStart(Pid[p], pid_file)

(* Once the modules are prepared a module logs into the file of its own    *)
(* log command or else into that of `main'. When neither has a log command *)
(* nothing is logged, although the program then starts only if it can open *)
(* the default log file.                                                   *)
LoggedAsConfigured ==
    \A p \in DOMAIN proc :
        Serving(p) =>
            /\ proc[p].logger =
                 [main |-> IF conf(p).main_log THEN "main" ELSE NULL,
                  net |-> IF conf(p).net_log THEN "net"
                          ELSE IF conf(p).main_log THEN "main" ELSE NULL]
            /\ conf(p).main_log \/ default_log

(* A process that has handled SIGTERM ends, even if the signal came before *)
(* the main loop or between the test of stop and epoll_wait: then it is    *)
(* the timeout of epoll_wait that ends the wait.                           *)
StopsOnTerm ==
    \A p \in DOMAIN Pid : (p \in DOMAIN proc /\ proc[p].stop) ~> (p \in DOMAIN proc /\ ~Alive(p))

=============================================================================
