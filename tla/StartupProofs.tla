---------------------------- MODULE StartupProofs ----------------------------
(***************************************************************************)
(* Proofs about Startup, for every set of configurations and every number  *)
(* of processes.                                                           *)
(***************************************************************************)
EXTENDS Startup, SequenceTheorems, TLAPS

(* the steps with loggers for all modules, with the handler set up, and    *)
(* with a port                                                             *)
Prepared == {"init_main_mod", "init_network_mod", "process_daemon", "exit", "open_pid_file",
             "write_pid", "while", "process_mod", "epoll_wait"}
Handling == Prepared \ {"init_main_mod"}
Bound == Handling \ {"init_network_mod"}
Working == {"while", "process_mod", "epoll_wait"}

ProcessType ==
    [pc : Steps \cup Gone, conf : Confs \cup {NoConf}, stop : BOOLEAN, handler : BOOLEAN,
     default_logger : {NULL, "main"},
     logger : [main : {NULL, "main"}, net : {NULL, "main", "net"}], listening : BOOLEAN]

MainLogger(c) == IF c.main_log THEN "main" ELSE NULL
OwnLogger(c)  == [main |-> MainLogger(c), net |-> IF c.net_log THEN "net" ELSE NULL]
AnyLogger(c)  == [main |-> MainLogger(c), net |-> IF c.net_log THEN "net" ELSE MainLogger(c)]

(* what holds of a process in itself, log tells whether the default file   *)
(* exists                                                                  *)
Logging(r, log) ==
    /\ r.pc \in {"conf_file_parser", "create_default_logger"} => r.default_logger = NULL
    /\ r.pc \in {"create_default_logger", "sys_modules_prepare"} => r.logger = OwnLogger(r.conf)
    /\ r.pc = "sys_modules_prepare" => r.default_logger = MainLogger(r.conf)
    /\ r.pc \in Prepared => r.logger = AnyLogger(r.conf)
    /\ r.pc \in Prepared \cup {"sys_modules_prepare"} => r.conf.main_log \/ log

Standing(r) ==
    /\ r.pc \in Steps \ {"conf_file_parser"} => r.conf \in Confs
    /\ r.listening <=> r.pc \in Bound
    /\ r.pc \in Bound => r.conf.net /\ r.conf.conns >= 2
    /\ r.pc \in {"open_pid_file", "write_pid"} => r.conf.main /\ r.conf.daemon
    /\ r.pc \in Working => r.conf.main
    /\ r.handler \/ r.stop => r.pc \in Handling
    /\ ~(r.handler /\ r.stop)

Sound(r, log) == r \in ProcessType /\ Logging(r, log) /\ Standing(r)

(* A port belongs to one process, or to a parent in exit and its child. *)
Holds(r) == r.listening /\ r.pc # "exit"
SamePort(r, s) == r.conf.port = s.conf.port /\ r.conf.port # 0

ProcsInv ==
    /\ proc \in Seq(ProcessType) /\ Len(proc) <= Len(Pid)
    /\ \A p \in DOMAIN proc : Sound(proc[p], default_log)

PortInv ==
    \A p, q \in DOMAIN proc :
        p # q /\ Holds(proc[p]) /\ Holds(proc[q]) => ~SamePort(proc[p], proc[q])

FileInv ==
    /\ pid_file \in Seq(STRING) /\ written \in Seq([by : Nat, port : Nat])
    /\ \A i \in DOMAIN pid_file : \E p \in DOMAIN proc : i <= Len(Pid[p]) /\ pid_file[i] = Pid[p][i]

IInv == ProcsInv /\ PortInv /\ FileInv /\ ServerPidInFile

-----------------------------------------------------------------------------
(* Append adds one index. *)
LEMMA AppendDomain ==
    ASSUME NEW S, NEW s \in Seq(S), NEW e \in S
    PROVE  /\ Append(s, e) \in Seq(S) /\ Len(Append(s, e)) = Len(s) + 1
           /\ DOMAIN Append(s, e) = DOMAIN s \cup {Len(s) + 1} /\ Len(s) + 1 \notin DOMAIN s
           /\ Append(s, e)[Len(s) + 1] = e /\ \A i \in DOMAIN s : Append(s, e)[i] = s[i]
  BY AppendProperties

(* A new process, and one that is gone, are sound. *)
LEMMA ProcessSound ==
    ASSUME NEW log, NEW how \in Gone
    PROVE  Sound(Process, log) /\ Sound([Process EXCEPT !.pc = how], log)
  BY Zenon
     DEF Sound, Process, ProcessType, NoConf, Logging, Standing, Steps, Gone, Prepared, Handling,
         Bound, Working, NULL

(* Initially there is no process. *)
LEMMA InitIInv == Init => IInv
  <1> SUFFICES ASSUME Init PROVE IInv
    OBVIOUS
  <1>1. proc = <<>> /\ pid_file = <<>> /\ written = <<>> /\ default_log \in BOOLEAN
    BY DEF Init
  <1>2. Len(Pid) \in Nat
    BY StartupAssumption
  <1> QED  BY <1>1, <1>2 DEF IInv, ProcsInv, PortInv, FileInv, ServerPidInFile

(* One process changes, without touching the pid file. It gets a port only *)
(* if nobody has it, and does not begin to serve as a daemon.              *)
LEMMA OneProcess ==
    ASSUME IInv, NEW p \in DOMAIN proc, NEW r, Sound(r, default_log), Becomes(p, r),
           Holds(r) => \/ Holds(proc[p]) /\ r.conf = proc[p].conf
                       \/ ~PortTaken(r.conf.port),
           r.pc \in Working /\ r.conf.daemon => proc[p].pc \in Working /\ r.conf = proc[p].conf
    PROVE  IInv'
  <1>1. /\ proc' = [proc EXCEPT ![p] = r]
        /\ pid_file' = pid_file /\ written' = written /\ default_log' = default_log
    BY DEF Becomes
  <1>2. proc \in Seq(ProcessType) /\ r \in ProcessType
    BY DEF IInv, ProcsInv, Sound
  <1>3. /\ proc' \in Seq(ProcessType) /\ Len(proc') = Len(proc) /\ DOMAIN proc' = DOMAIN proc
        /\ proc'[p] = r /\ \A q \in DOMAIN proc : q # p => proc'[q] = proc[q]
    BY <1>1, <1>2, ExceptSeq
  <1>4. ProcsInv'
    <2>1. \A q \in DOMAIN proc' : Sound(proc'[q], default_log')
      BY <1>1, <1>3 DEF IInv, ProcsInv
    <2> QED  BY <2>1, <1>3 DEF IInv, ProcsInv
  <1>5. PortInv'
    <2> SUFFICES ASSUME NEW q \in DOMAIN proc, NEW q2 \in DOMAIN proc, q # q2,
                        Holds(proc'[q]), Holds(proc'[q2])
                 PROVE  ~SamePort(proc'[q], proc'[q2])
      BY <1>3 DEF PortInv
    <2>1. CASE q # p /\ q2 # p
      BY <2>1, <1>3 DEF IInv, PortInv
    <2>2. CASE q = p
      BY <2>2, <1>3 DEF IInv, PortInv, PortTaken, Holds, SamePort, conf
    <2>3. CASE q2 = p
      BY <2>3, <1>3 DEF IInv, PortInv, PortTaken, Holds, SamePort, conf
    <2> QED  BY <2>1, <2>2, <2>3
  <1>6. FileInv'
    BY <1>1, <1>3 DEF IInv, FileInv
  <1>7. ServerPidInFile'
    <2> SUFFICES ASSUME NEW q \in DOMAIN proc, proc'[q].pc \in Working, proc'[q].conf.daemon
                 PROVE  \E i \in DOMAIN written :
                           /\ written[i].by = q
                           /\ \A j \in i + 1 .. Len(written) :
                                 proc'[q].conf.port = 0 \/ written[j].port # proc'[q].conf.port
                           /\ i = Len(written) => IsStart(Pid[q], pid_file)
      BY <1>1, <1>3 DEF ServerPidInFile, Serving, Working, conf
    <2>1. proc[q].pc \in Working /\ proc'[q].conf = proc[q].conf
      BY <1>3
    <2> QED  BY <2>1 DEF IInv, ServerPidInFile, Serving, Working, conf
  <1> QED  BY <1>4, <1>5, <1>6, <1>7 DEF IInv

(* A process that ends, in whatever step, leaves the others alone. *)
LEMMA LeaveIInv ==
    ASSUME IInv, NEW p \in DOMAIN proc, NEW how \in Gone, Leave(p, how)
    PROVE  IInv'
  <1> DEFINE r == [Process EXCEPT !.pc = how]
  <1>1. r.pc = how /\ r.listening = FALSE
    BY DEF Process
  <1>2. r.pc \notin Working /\ ~Holds(r)
    BY <1>1 DEF Gone, Working, Holds
  <1>3. Sound(r, default_log) /\ Becomes(p, r)
    BY ProcessSound DEF Leave
  <1> HIDE DEF r
  <1> QED  BY <1>2, <1>3, OneProcess

LEMMA ErrorIInv ==
    ASSUME IInv, NEW p \in DOMAIN proc, Error(p)
    PROVE  IInv'
  BY LeaveIInv DEF Error, Gone

(* The facts about the record of a process. *)
LEMMA ProcFacts ==
    ASSUME IInv, NEW p \in DOMAIN proc
    PROVE  /\ Sound(proc[p], default_log) /\ proc[p] \in ProcessType
           /\ p \in Nat /\ p \in DOMAIN Pid /\ Pid[p] \in Seq(STRING)
  BY StartupAssumption DEF IInv, ProcsInv, Sound

(* A step that only goes on, to a step pc. *)
LEMMA GotoIInv ==
    ASSUME IInv, NEW p \in DOMAIN proc, NEW pc \in Steps, Goto(p, pc),
           Sound([proc[p] EXCEPT !.pc = pc], default_log),
           pc \in Bound \ {"exit"} => proc[p].pc \in Bound \ {"exit"},
           pc \in Working /\ proc[p].conf.daemon => proc[p].pc \in Working
    PROVE  IInv'
  <1> DEFINE r == [proc[p] EXCEPT !.pc = pc]
  <1>1. r.pc = pc /\ r.conf = proc[p].conf /\ r.listening = proc[p].listening
    BY ProcFacts DEF ProcessType
  <1>2. Holds(r) => Holds(proc[p])
    BY <1>1, ProcFacts DEF Holds, Sound, Standing
  <1>3. Becomes(p, r)
    BY DEF Goto
  <1> HIDE DEF r
  <1> QED  BY <1>1, <1>2, <1>3, OneProcess, Zenon DEF r

-----------------------------------------------------------------------------
(* The steps of main before the port is bound. *)

LEMMA ParserIInv ==
    ASSUME IInv, NEW p \in DOMAIN proc, conf_file_parser(p)
    PROVE  IInv'
  <1>1. CASE Error(p)
    BY <1>1, ErrorIInv
  <1>2. ASSUME NEW c \in Confs,
               Becomes(p, [proc[p] EXCEPT
                             !.pc = "create_default_logger", !.conf = c,
                             !.logger = [main |-> IF c.main_log THEN "main" ELSE NULL,
                                         net |-> IF c.net_log THEN "net" ELSE NULL]])
        PROVE  IInv'
    <2> DEFINE r == [proc[p] EXCEPT
                       !.pc = "create_default_logger", !.conf = c,
                       !.logger = [main |-> IF c.main_log THEN "main" ELSE NULL,
                                   net |-> IF c.net_log THEN "net" ELSE NULL]]
    <2>1. /\ r \in ProcessType /\ r.pc = "create_default_logger" /\ r.conf = c
          /\ r.logger = OwnLogger(c) /\ r.listening = proc[p].listening
          /\ r.stop = proc[p].stop /\ r.handler = proc[p].handler
          /\ r.default_logger = proc[p].default_logger
      BY ProcFacts, ZenonT(30) DEF ProcessType, OwnLogger, MainLogger, Steps
    <2>2. Becomes(p, r)
      BY <1>2
    <2>3. proc[p].pc = "conf_file_parser"
      BY Zenon DEF conf_file_parser, At
    <2> HIDE DEF r
    <2>4. /\ ~proc[p].listening /\ ~proc[p].handler /\ ~proc[p].stop
          /\ proc[p].default_logger = NULL
      BY <2>3, ProcFacts
         DEF Sound, Logging, Standing, ProcessType, Prepared, Handling, Bound
    <2>5. Sound(r, default_log) /\ ~Holds(r) /\ r.pc \notin Working
      BY <2>1, <2>4 DEF Sound, Logging, Standing, Prepared, Handling, Bound, Working, Holds
    <2> QED  BY <2>2, <2>5, OneProcess
  <1> QED  BY <1>1, <1>2, Zenon DEF conf_file_parser

LEMMA DefaultLoggerIInv ==
    ASSUME IInv, NEW p \in DOMAIN proc, create_default_logger(p)
    PROVE  IInv'
  <1> DEFINE q == proc[p]
  <1>0. /\ q.pc = "create_default_logger" /\ q \in ProcessType /\ Sound(q, default_log)
        /\ q.logger = OwnLogger(q.conf) /\ q.default_logger = NULL /\ ~q.listening
        /\ ~q.handler /\ ~q.stop /\ q.conf \in Confs
    BY ProcFacts DEF create_default_logger, At, Sound, Logging, Standing, ProcessType, Steps,
                     Prepared, Handling, Bound
  <1>1. CASE Error(p)
    BY <1>1, ErrorIInv
  <1>2. CASE /\ q.logger.main # NULL
             /\ Becomes(p, [q EXCEPT !.pc = "sys_modules_prepare",
                                     !.default_logger = q.logger.main])
    <2> DEFINE r == [q EXCEPT !.pc = "sys_modules_prepare", !.default_logger = q.logger.main]
    <2>1. q.logger.main = MainLogger(q.conf) /\ q.conf.main_log
      BY <1>0, <1>2 DEF OwnLogger, MainLogger
    <2>2. /\ r \in ProcessType /\ r.pc = "sys_modules_prepare" /\ r.conf = q.conf
          /\ r.logger = q.logger /\ r.listening = q.listening
          /\ r.stop = q.stop /\ r.handler = q.handler
          /\ r.default_logger = MainLogger(q.conf)
      BY <1>0, <2>1, ZenonT(30) DEF ProcessType, Steps, MainLogger
    <2> HIDE DEF r
    <2>3. Sound(r, default_log) /\ ~Holds(r) /\ r.pc \notin Working
      BY <1>0, <2>1, <2>2 DEF Sound, Logging, Standing, Prepared, Handling, Bound, Working, Holds
    <2> QED  BY <1>2, <2>3, OneProcess, Zenon DEF r
  <1>3. CASE q.logger.main = NULL /\ default_log /\ Goto(p, "sys_modules_prepare")
    <2> DEFINE r == [q EXCEPT !.pc = "sys_modules_prepare"]
    <2>1. MainLogger(q.conf) = NULL
      BY <1>0, <1>3 DEF OwnLogger
    <2>2. /\ r \in ProcessType /\ r.pc = "sys_modules_prepare" /\ r.conf = q.conf
          /\ r.logger = q.logger /\ r.listening = q.listening
          /\ r.stop = q.stop /\ r.handler = q.handler
          /\ r.default_logger = q.default_logger
      BY <1>0 DEF ProcessType, Steps
    <2> HIDE DEF r
    <2>3. Sound(r, default_log)
      BY <1>0, <1>3, <2>1, <2>2 DEF Sound, Logging, Standing, Prepared, Handling, Bound, Working
    <2> QED  BY <1>3, <2>3, GotoIInv, Zenon DEF r, Steps, Prepared, Handling, Bound, Working
  <1> QED  BY <1>1, <1>2, <1>3 DEF create_default_logger

LEMMA PrepareIInv ==
    ASSUME IInv, NEW p \in DOMAIN proc, sys_modules_prepare(p)
    PROVE  IInv'
  <1> DEFINE q == proc[p]
             default(own) == IF own = NULL THEN q.default_logger ELSE own
             l == [main |-> default(q.logger.main), net |-> default(q.logger.net)]
             r == [q EXCEPT !.pc = "init_main_mod", !.logger = l]
  <1>0. /\ q.pc = "sys_modules_prepare" /\ q \in ProcessType
        /\ q.logger = OwnLogger(q.conf) /\ q.default_logger = MainLogger(q.conf) /\ ~q.listening
        /\ ~q.handler /\ ~q.stop /\ q.conf \in Confs /\ (q.conf.main_log \/ default_log)
    BY ProcFacts DEF sys_modules_prepare, At, Sound, Logging, Standing, ProcessType, Steps,
                     Prepared, Handling, Bound
  <1>1. CASE Error(p)
    BY <1>1, ErrorIInv
  <1>2. CASE Becomes(p, r)
    <2>1. l = AnyLogger(q.conf)
      BY <1>0 DEF OwnLogger, AnyLogger, MainLogger, NULL
    <2>2. AnyLogger(q.conf) \in [main : {NULL, "main"}, net : {NULL, "main", "net"}]
      BY DEF AnyLogger, MainLogger
    <2> HIDE DEF l
    <2>3. /\ r \in ProcessType /\ r.pc = "init_main_mod" /\ r.conf = q.conf
          /\ r.logger = l /\ r.listening = q.listening
          /\ r.stop = q.stop /\ r.handler = q.handler
      BY <1>0, <2>1, <2>2, Zenon DEF ProcessType, Steps
    <2> HIDE DEF r
    <2>4. Sound(r, default_log) /\ ~Holds(r) /\ r.pc \notin Working
      BY <1>0, <2>1, <2>3 DEF Sound, Logging, Standing, Prepared, Handling, Bound, Working, Holds
    <2> QED  BY <1>2, <2>4, OneProcess
  <1> QED  BY <1>1, <1>2 DEF sys_modules_prepare

LEMMA SignalsIInv ==
    ASSUME IInv, NEW p \in DOMAIN proc, init_main_mod(p)
    PROVE  IInv'
  <1> DEFINE q == proc[p]
             r == [q EXCEPT !.pc = "init_network_mod", !.handler = TRUE]
  <1>0. /\ q.pc = "init_main_mod" /\ q \in ProcessType /\ q.logger = AnyLogger(q.conf)
        /\ ~q.listening /\ ~q.stop /\ q.conf \in Confs /\ (q.conf.main_log \/ default_log)
    BY ProcFacts DEF init_main_mod, At, Sound, Logging, Standing, ProcessType, Steps,
                     Prepared, Handling, Bound
  <1>1. /\ r \in ProcessType /\ r.pc = "init_network_mod" /\ r.conf = q.conf
        /\ r.logger = q.logger /\ r.listening = q.listening /\ r.stop = q.stop
    BY <1>0, Zenon DEF ProcessType, Steps
  <1>2. Becomes(p, r)
    BY DEF init_main_mod
  <1> HIDE DEF r
  <1>3. Sound(r, default_log) /\ ~Holds(r) /\ r.pc \notin Working
    BY <1>0, <1>1 DEF Sound, Logging, Standing, Prepared, Handling, Bound, Working, Holds
  <1> QED  BY <1>2, <1>3, OneProcess

(* The port: only one that no process listens on. *)
LEMMA NetworkIInv ==
    ASSUME IInv, NEW p \in DOMAIN proc, init_network_mod(p)
    PROVE  IInv'
  <1> DEFINE q == proc[p]
             r == [q EXCEPT !.pc = "process_daemon", !.listening = TRUE]
  <1>0. /\ q.pc = "init_network_mod" /\ q \in ProcessType /\ q.logger = AnyLogger(q.conf)
        /\ ~q.listening /\ q.conf \in Confs /\ (q.conf.main_log \/ default_log)
        /\ ~(q.handler /\ q.stop)
    BY ProcFacts DEF init_network_mod, At, Sound, Logging, Standing, ProcessType, Steps,
                     Prepared, Handling, Bound
  <1>1. CASE Error(p)
    BY <1>1, ErrorIInv
  <1>2. CASE Leave(p, "crashed")
    BY <1>2, LeaveIInv DEF Gone
  <1>3. CASE /\ conf(p).net /\ conf(p).conns \div 2 > 0 /\ ~PortTaken(conf(p).port)
             /\ Becomes(p, r)
    <2>1. q.conf.net /\ q.conf.conns >= 2 /\ ~PortTaken(q.conf.port)
      <3>1. q.conf.conns \in Nat
        BY <1>0, StartupAssumption
      <3> QED  BY <3>1, <1>3 DEF conf
    <2>2. /\ r \in ProcessType /\ r.pc = "process_daemon" /\ r.conf = q.conf
          /\ r.logger = q.logger /\ r.listening
          /\ r.stop = q.stop /\ r.handler = q.handler
      BY <1>0, Zenon DEF ProcessType, Steps
    <2> HIDE DEF r
    <2>3. Sound(r, default_log) /\ r.pc \notin Working
      BY <1>0, <2>1, <2>2 DEF Sound, Logging, Standing, Prepared, Handling, Bound, Working
    <2> QED  BY <1>3, <2>1, <2>2, <2>3, OneProcess
  <1> QED  BY <1>1, <1>2, <1>3 DEF init_network_mod

-----------------------------------------------------------------------------
(* The steps with a port. *)

(* In a step with a port, going on to another one keeps a process sound if *)
(* what the new step asks of the configuration holds.                      *)
LEMMA GoingOn ==
    ASSUME IInv, NEW p \in DOMAIN proc, proc[p].pc \in Bound, NEW pc \in Bound,
           pc \in {"open_pid_file", "write_pid"} => proc[p].conf.main /\ proc[p].conf.daemon,
           pc \in Working => proc[p].conf.main
    PROVE  Sound([proc[p] EXCEPT !.pc = pc], default_log)
  <1> DEFINE q == proc[p]
             r == [q EXCEPT !.pc = pc]
  <1>0. /\ q \in ProcessType /\ q.logger = AnyLogger(q.conf)
        /\ q.listening /\ q.conf \in Confs /\ (q.conf.main_log \/ default_log)
        /\ q.conf.net /\ q.conf.conns >= 2 /\ ~(q.handler /\ q.stop)
    BY ProcFacts DEF Sound, Logging, Standing, ProcessType, Steps, Prepared, Handling, Bound
  <1>1. /\ r \in ProcessType /\ r.pc = pc /\ r.conf = q.conf
        /\ r.logger = q.logger /\ r.listening = q.listening
        /\ r.stop = q.stop /\ r.handler = q.handler
    BY <1>0, ZenonT(30) DEF ProcessType, Steps, Prepared, Handling, Bound
  <1> HIDE DEF r
  <1>2. Logging(r, default_log)
    BY <1>0, <1>1 DEF Logging, Prepared, Handling, Bound
  <1>3. Standing(r)
    BY <1>0, <1>1 DEF Standing, Prepared, Handling, Bound, Steps
  <1> QED  BY <1>1, <1>2, <1>3 DEF Sound, r

LEMMA LoopIInv ==
    ASSUME IInv, NEW p \in DOMAIN proc,
           while(p) \/ process_network_mod(p) \/ process_events(p)
    PROVE  IInv'
  <1>1. CASE Leave(p, "exited")
    BY <1>1, LeaveIInv DEF Gone
  <1>2. ASSUME NEW pc \in Working, Goto(p, pc), proc[p].pc \in Working
        PROVE  IInv'
    <2>1. Sound([proc[p] EXCEPT !.pc = pc], default_log)
      BY <1>2, GoingOn, ProcFacts, Zenon DEF Sound, Standing, Working, Bound, Handling, Prepared
    <2> QED  BY <1>2, <2>1, GotoIInv, Zenon DEF Working, Bound, Handling, Prepared, Steps
  <1> QED
    BY <1>1, <1>2 DEF while, process_network_mod, process_events, At, Working

LEMMA ExitIInv ==
    ASSUME IInv, NEW p \in DOMAIN proc, exit(p) \/ SIGKILL(p)
    PROVE  IInv'
  BY LeaveIInv DEF exit, SIGKILL, Gone

LEMMA OpenIInv ==
    ASSUME IInv, NEW p \in DOMAIN proc, open_pid_file(p)
    PROVE  IInv'
  <1>1. CASE Error(p)
    BY <1>1, ErrorIInv
  <1>2. CASE Goto(p, "write_pid")
    <2>1. proc[p].pc = "open_pid_file"
      BY DEF open_pid_file, At
    <2>2. proc[p].conf.main /\ proc[p].conf.daemon
      BY <2>1, ProcFacts DEF Sound, Standing
    <2>3. Sound([proc[p] EXCEPT !.pc = "write_pid"], default_log)
      BY <2>1, <2>2, GoingOn DEF Bound, Handling, Prepared, Working
    <2> QED  BY <1>2, <2>1, <2>3, GotoIInv, Zenon DEF Working, Bound, Handling, Prepared, Steps
  <1> QED  BY <1>1, <1>2 DEF open_pid_file

LEMMA TermIInv ==
    ASSUME IInv, NEW p \in DOMAIN proc, SIGTERM(p)
    PROVE  IInv'
  <1> DEFINE q == proc[p]
             pc == IF q.pc = "epoll_wait" THEN "while" ELSE q.pc
             r == [q EXCEPT !.stop = TRUE, !.handler = FALSE, !.pc = pc]
  <1>1. CASE Leave(p, "exited")
    BY <1>1, LeaveIInv DEF Gone
  <1>2. CASE q.handler /\ Becomes(p, r)
    <2>1. q \in ProcessType /\ Sound(q, default_log) /\ q.pc \in Handling
      BY <1>2, ProcFacts DEF Sound, Standing
    <2>2. /\ pc \in Handling /\ (pc \in Working <=> q.pc \in Working)
          /\ q.pc \notin Working => pc = q.pc
          /\ pc \in Bound \ {"exit"} <=> q.pc \in Bound \ {"exit"}
          /\ pc \in Bound <=> q.pc \in Bound
      BY <2>1 DEF Working, Handling, Bound, Prepared
    <2> HIDE DEF pc
    <2>3. /\ r \in ProcessType /\ r.pc = pc /\ r.conf = q.conf
          /\ r.logger = q.logger /\ r.listening = q.listening
          /\ r.stop = TRUE /\ r.handler = FALSE
      BY <2>1, <2>2, ZenonT(30) DEF ProcessType, Steps, Handling, Prepared
    <2> HIDE DEF r
    <2>4. Logging(r, default_log)
      BY <2>1, <2>2, <2>3 DEF Sound, Logging, Handling, Prepared
    <2>5. Standing(r)
      BY <2>1, <2>2, <2>3 DEF Sound, Standing, Handling, Prepared, Bound, Working, Steps
    <2>6. Holds(r) => Holds(q)
      BY <2>1, <2>2, <2>3 DEF Sound, Standing, Holds, Bound
    <2> QED  BY <1>2, <2>2, <2>3, <2>4, <2>5, <2>6, OneProcess DEF Sound
  <1> QED  BY <1>1, <1>2 DEF SIGTERM

(* A new process has no port and does not serve. *)
LEMMA StartIInv == IInv /\ Start => IInv'
  <1> SUFFICES ASSUME IInv, Start PROVE IInv'
    OBVIOUS
  <1> DEFINE n == Len(proc) + 1
  <1>1. /\ proc \in Seq(ProcessType) /\ Len(proc) < Len(Pid) /\ proc' = Append(proc, Process)
        /\ pid_file' = pid_file /\ written' = written /\ default_log' = default_log
    BY DEF Start, IInv, ProcsInv
  <1>2. Sound(Process, default_log) /\ Process \in ProcessType
    BY ProcessSound DEF Sound, Gone
  <1>3. ~Holds(Process) /\ Process.pc \notin Working
    BY DEF Process, Holds, Working
  <1>4. /\ proc' \in Seq(ProcessType) /\ Len(proc') = n /\ DOMAIN proc' = DOMAIN proc \cup {n}
        /\ n \notin DOMAIN proc
        /\ proc'[n] = Process /\ \A q \in DOMAIN proc : proc'[q] = proc[q]
    BY <1>1, <1>2, AppendProperties
  <1>5. ProcsInv'
    <2>1. \A q \in DOMAIN proc' : Sound(proc'[q], default_log')
      BY <1>1, <1>2, <1>4 DEF IInv, ProcsInv
    <2>2. Len(proc') <= Len(Pid)
      BY <1>1, <1>4, StartupAssumption
    <2> QED  BY <2>1, <2>2, <1>4 DEF ProcsInv
  <1>6. PortInv'
    BY <1>3, <1>4 DEF IInv, PortInv
  <1>7. FileInv'
    BY <1>1, <1>4 DEF IInv, FileInv
  <1>8. ServerPidInFile'
    BY <1>1, <1>3, <1>4 DEF IInv, ServerPidInFile, Serving, Working, conf
  <1> QED  BY <1>5, <1>6, <1>7, <1>8 DEF IInv

(* A process that changes while another one is added *)
LEMMA AppendExcept ==
    ASSUME NEW S, NEW s \in Seq(S), NEW p \in DOMAIN s, NEW a \in S, NEW b \in S,
           NEW t, t = Append([s EXCEPT ![p] = a], b)
    PROVE  /\ t \in Seq(S) /\ Len(t) = Len(s) + 1
           /\ DOMAIN t = DOMAIN s \cup {Len(s) + 1} /\ Len(s) + 1 \notin DOMAIN s
           /\ t[Len(s) + 1] = b /\ t[p] = a /\ \A q \in DOMAIN s : q # p => t[q] = s[q]
  <1> DEFINE mid == [s EXCEPT ![p] = a]
  <1>1. /\ mid \in Seq(S) /\ Len(mid) = Len(s) /\ DOMAIN mid = DOMAIN s /\ mid[p] = a
        /\ \A q \in DOMAIN s : q # p => mid[q] = s[q]
    BY ExceptSeq
  <1>2. t = Append(mid, b)
    OBVIOUS
  <1> HIDE DEF mid
  <1> QED  BY <1>1, <1>2, AppendDomain

(* fork: the parent keeps the port until it exits, and the child has it *)
LEMMA ForkIInv ==
    ASSUME IInv, NEW p \in DOMAIN proc, NEW parent, NEW child, NEW n,
           n \notin DOMAIN proc, DOMAIN proc' = DOMAIN proc \cup {n},
           proc' \in Seq(ProcessType), Len(proc') <= Len(Pid),
           proc'[n] = child, proc'[p] = parent,
           \A q \in DOMAIN proc : q # p => proc'[q] = proc[q],
           Sound(parent, default_log), parent.pc = "exit",
           Sound(child, default_log), child.pc = "open_pid_file",
           child.conf = proc[p].conf, Holds(child) => Holds(proc[p]),
           UNCHANGED <<pid_file, default_log, written>>
    PROVE  IInv'
  <1>1. pid_file' = pid_file /\ default_log' = default_log /\ written' = written
    OBVIOUS
  <1>2. ProcsInv'
    <2>1. \A q \in DOMAIN proc' : Sound(proc'[q], default_log')
      BY <1>1 DEF IInv, ProcsInv
    <2> QED  BY <2>1 DEF ProcsInv
  <1>3. ~Holds(parent)
    BY DEF Holds
  <1>4. PortInv'
    <2> SUFFICES ASSUME NEW q \in DOMAIN proc', NEW q2 \in DOMAIN proc', q # q2,
                        Holds(proc'[q]), Holds(proc'[q2])
                 PROVE  ~SamePort(proc'[q], proc'[q2])
      BY DEF PortInv
    <2>1. q # p /\ q2 # p
      BY <1>3
    <2>2. CASE q # n /\ q2 # n
      BY <2>1, <2>2 DEF IInv, PortInv
    <2>3. CASE q = n
      <3>1. q2 \in DOMAIN proc /\ proc'[q2] = proc[q2] /\ Holds(proc[p]) /\ Holds(proc[q2])
        BY <2>1, <2>3
      <3>2. ~SamePort(proc[p], proc[q2])
        BY <2>1, <3>1 DEF IInv, PortInv
      <3> QED  BY <2>3, <3>1, <3>2 DEF SamePort
    <2>4. CASE q2 = n
      <3>1. q \in DOMAIN proc /\ proc'[q] = proc[q] /\ Holds(proc[p]) /\ Holds(proc[q])
        BY <2>1, <2>4
      <3>2. ~SamePort(proc[q], proc[p])
        BY <2>1, <3>1 DEF IInv, PortInv
      <3> QED  BY <2>4, <3>1, <3>2 DEF SamePort
    <2> QED  BY <2>2, <2>3, <2>4
  <1>5. FileInv'
    BY <1>1 DEF IInv, FileInv
  <1>6. ServerPidInFile'
    <2>1. ASSUME NEW q \in DOMAIN proc', proc'[q].pc \in Working
          PROVE  q \in DOMAIN proc /\ proc'[q] = proc[q]
      BY <2>1 DEF Working
    <2> QED  BY <1>1, <2>1 DEF IInv, ServerPidInFile, Serving, conf, Working
  <1> QED  BY <1>2, <1>4, <1>5, <1>6 DEF IInv

LEMMA DaemonIInv ==
    ASSUME IInv, NEW p \in DOMAIN proc, process_daemon(p)
    PROVE  IInv'
  <1>0. proc[p].pc = "process_daemon"
    BY SMTT(30), Zenon DEF process_daemon, At
  <1>1. CASE Leave(p, "crashed")
    BY <1>1, LeaveIInv DEF Gone
  <1>2. CASE conf(p).main /\ ~conf(p).daemon /\ Goto(p, "while")
    <2>1. Sound([proc[p] EXCEPT !.pc = "while"], default_log)
      BY <1>0, <1>2, GoingOn, SMTT(30), Zenon DEF conf, Bound, Handling, Prepared, Working
    <2> QED  BY <1>0, <1>2, <2>1, GotoIInv, Zenon
       DEF conf, Bound, Handling, Prepared, Working, Steps
  <1>3. CASE Goto(p, "exit")
    <2>1. Sound([proc[p] EXCEPT !.pc = "exit"], default_log)
      BY <1>0, GoingOn, SMTT(30), Zenon DEF Bound, Handling, Prepared, Working
    <2> QED  BY <1>0, <1>3, <2>1, GotoIInv, Zenon DEF Bound, Handling, Prepared, Working, Steps
  <1>4. CASE /\ conf(p).main /\ conf(p).daemon
             /\ Len(proc) < Len(Pid)
             /\ proc' = Append([proc EXCEPT ![p].pc = "exit"],
                               [proc[p] EXCEPT !.pc = "open_pid_file"])
             /\ UNCHANGED <<pid_file, default_log, written>>
    <2> DEFINE parent == [proc[p] EXCEPT !.pc = "exit"]
               child  == [proc[p] EXCEPT !.pc = "open_pid_file"]
               n == Len(proc) + 1
    <2>1. Sound(parent, default_log) /\ Sound(child, default_log)
      BY <1>0, <1>4, GoingOn, Zenon DEF conf, Bound, Handling, Prepared, Working
    <2>2. /\ parent.pc = "exit" /\ child.pc = "open_pid_file" /\ child.conf = proc[p].conf
          /\ child.listening = proc[p].listening
      BY ProcFacts DEF ProcessType
    <2>3. proc \in Seq(ProcessType) /\ parent \in ProcessType /\ child \in ProcessType
      BY <2>1 DEF Sound, IInv, ProcsInv
    <2>4. proc' = Append([proc EXCEPT ![p] = parent], child)
      BY <1>4
    <2>5. Holds(child) => Holds(proc[p])
      BY <1>0, <2>2, SMTT(30), Zenon DEF Holds
    <2> HIDE DEF parent, child
    <2>6. /\ proc' \in Seq(ProcessType) /\ Len(proc') = n
          /\ DOMAIN proc' = DOMAIN proc \cup {n} /\ n \notin DOMAIN proc
          /\ proc'[n] = child /\ proc'[p] = parent
          /\ \A q \in DOMAIN proc : q # p => proc'[q] = proc[q]
      BY <2>3, <2>4, AppendExcept, SMTT(30), Zenon
    <2>7. Len(proc') <= Len(Pid)
      BY <1>4, <2>3, <2>6, StartupAssumption
    <2> HIDE DEF n
    <2> QED  BY <1>4, <2>1, <2>2, <2>5, <2>6, <2>7, ForkIInv, Zenon
  <1> QED  BY <1>1, <1>2, <1>3, <1>4 DEF process_daemon

(* The first n elements of s written over the beginning of t: each element *)
(* is still where it was, and all of s is a prefix.                        *)
LEMMA Overwrite ==
    ASSUME NEW s \in Seq(STRING), NEW t \in Seq(STRING), NEW n \in 0 .. Len(s),
           NEW u
    PROVE  u = SubSeq(s, 1, n) \o SubSeq(t, n + 1, Len(t)) =>
           /\ u \in Seq(STRING)
           /\ \A i \in DOMAIN u : \/ i \in DOMAIN s /\ u[i] = s[i]
                                  \/ i \in DOMAIN t /\ u[i] = t[i]
           /\ n = Len(s) => IsStart(s, u)
  <1> DEFINE a == SubSeq(s, 1, n)
             b == SubSeq(t, n + 1, Len(t))
  <1>0. n \in Nat /\ Len(s) \in Nat /\ Len(t) \in Nat /\ n <= Len(s)
    OBVIOUS
  <1>1. a \in Seq(STRING) /\ Len(a) = n /\ \A i \in 1 .. n : a[i] = s[i]
    <2>1. \A i \in 1 .. n : s[i] \in STRING
      BY <1>0
    <2> QED  BY <1>0, <2>1, SubSeqProperties
  <1>2. /\ b \in Seq(STRING) /\ Len(b) = (IF n + 1 <= Len(t) THEN Len(t) - n ELSE 0)
        /\ \A i \in 1 .. Len(t) - n : b[i] = t[n + i]
    <2>1. \A i \in n + 1 .. Len(t) : t[i] \in STRING
      BY <1>0
    <2> QED  BY <1>0, <2>1, SubSeqProperties
  <1>3. /\ a \o b \in Seq(STRING) /\ Len(a \o b) = n + Len(b)
        /\ \A i \in 1 .. n + Len(b) : (a \o b)[i] = IF i <= n THEN a[i] ELSE b[i - n]
    <2> HIDE DEF a, b
    <2> QED  BY <1>1, <1>2, ConcatProperties, ZenonT(30)
  <1>4. ASSUME u = a \o b
        PROVE  /\ u \in Seq(STRING)
               /\ \A i \in DOMAIN u : \/ i \in DOMAIN s /\ u[i] = s[i]
                                      \/ i \in DOMAIN t /\ u[i] = t[i]
               /\ n = Len(s) => IsStart(s, u)
    <2> HIDE DEF a, b
    <2>1. /\ u \in Seq(STRING) /\ Len(u) = n + Len(b)
          /\ \A i \in 1 .. n + Len(b) : u[i] = IF i <= n THEN a[i] ELSE b[i - n]
      BY <1>3, <1>4
    <2>2. ASSUME NEW i \in 1 .. n PROVE u[i] = s[i]
      <3>1. i \in 1 .. n + Len(b) /\ i <= n
        BY <1>0, <1>2
      <3> QED  BY <1>1, <2>1, <3>1
    <2>3. ASSUME NEW i \in DOMAIN u, i > n PROVE i \in DOMAIN t /\ u[i] = t[i]
      <3>1. i \in Nat /\ n + 1 <= Len(t) /\ i <= Len(t) /\ i - n \in 1 .. Len(t) - n
        BY <1>0, <1>2, <2>1, <2>3, SMTT(30), Zenon
      <3>2. u[i] = b[i - n] /\ b[i - n] = t[n + (i - n)]
        BY <1>0, <1>2, <2>1, <2>3, <3>1, SMTT(30), Zenon
      <3>3. n + (i - n) = i
        BY <1>0, <3>1, SMTT(30), Zenon
      <3> QED  BY <3>1, <3>2, <3>3
    <2>4. ASSUME NEW i \in DOMAIN u, ~(i > n) PROVE i \in DOMAIN s /\ u[i] = s[i]
      <3>1. i \in 1 .. n /\ i \in DOMAIN s
        BY <1>0, <2>1, <2>4
      <3> QED  BY <2>2, <3>1
    <2>5. ASSUME n = Len(s) PROVE IsStart(s, u)
      <3>1. Len(s) <= Len(u)
        BY <1>0, <1>2, <2>1, <2>5
      <3> QED  BY <1>0, <2>2, <2>5, <3>1 DEF IsStart
    <2> QED  BY <2>1, <2>3, <2>4, <2>5
  <1> QED  BY <1>4, Zenon

(* The pid file is written: its last writer is p. Every other daemon that  *)
(* serves holds a port, and so does p: they are not the same.              *)
LEMMA WriteIInv ==
    ASSUME IInv, NEW p \in DOMAIN proc, write_pid(p)
    PROVE  IInv'
  <1> DEFINE q0 == proc[p]
             on == [proc[p] EXCEPT !.pc = "while"]
             off == [Process EXCEPT !.pc = "exited"]
             w == [by |-> p, port |-> conf(p).port]
             N == Len(written)
  <1>1. PICK n \in 0 .. Len(Pid[p]) :
          PidWritten(p, n) /\ proc' = [proc EXCEPT ![p] = IF n = Len(Pid[p]) THEN on ELSE off]
    BY Zenon DEF write_pid
  <1> DEFINE r == IF n = Len(Pid[p]) THEN on ELSE off
  <1>a. pid_file' = SubSeq(Pid[p], 1, n) \o SubSeq(pid_file, n + 1, Len(pid_file))
    BY <1>1 DEF PidWritten
  <1>b. written' = Append(written, w)
    BY <1>1 DEF PidWritten
  <1>2. default_log' = default_log /\ proc' = [proc EXCEPT ![p] = r]
    BY <1>1 DEF PidWritten
  <1>3. /\ q0.pc = "write_pid" /\ q0 \in ProcessType /\ q0.listening /\ q0.conf \in Confs
        /\ q0.conf.main /\ q0.conf.port \in Nat
        /\ p \in Nat /\ p \in DOMAIN Pid /\ Pid[p] \in Seq(STRING)
    <2>1. /\ q0.pc = "write_pid" /\ q0 \in ProcessType /\ q0.listening /\ q0.conf \in Confs
          /\ q0.conf.main
      BY ProcFacts DEF write_pid, At, Sound, Standing, Steps, Bound, Handling, Prepared
    <2> QED  BY <2>1, ProcFacts, StartupAssumption
  <1>4. Sound(on, default_log) /\ Sound(off, default_log)
    <2>1. Sound(on, default_log)
      BY <1>3, GoingOn DEF Bound, Handling, Prepared, Working
    <2> QED  BY <2>1, ProcessSound DEF Gone
  <1>5. /\ on.pc = "while" /\ on.conf = q0.conf /\ off.pc = "exited" /\ ~off.listening
    BY <1>3 DEF Process, ProcessType
  <1> HIDE DEF on, off
  <1>6. /\ Sound(r, default_log) /\ r \in ProcessType
        /\ Holds(r) => r.conf = q0.conf
        /\ r.pc \in Working => n = Len(Pid[p]) /\ r.conf = q0.conf
    BY <1>4, <1>5 DEF Sound, Holds, Working
  <1> HIDE DEF r
  <1>7. Holds(q0)
    BY <1>3 DEF Holds
  <1>8. /\ proc' \in Seq(ProcessType) /\ Len(proc') = Len(proc) /\ DOMAIN proc' = DOMAIN proc
        /\ proc'[p] = r /\ \A q \in DOMAIN proc : q # p => proc'[q] = proc[q]
    <2>1. proc \in Seq(ProcessType)
      BY DEF IInv, ProcsInv
    <2> QED  BY <1>2, <1>6, <2>1, ExceptSeq
  <1>9. ProcsInv'
    <2>1. \A q \in DOMAIN proc' : Sound(proc'[q], default_log')
      BY <1>2, <1>6, <1>8 DEF IInv, ProcsInv
    <2> QED  BY <2>1, <1>8 DEF IInv, ProcsInv
  <1>10. PortInv'
    <2> SUFFICES ASSUME NEW q \in DOMAIN proc, NEW q2 \in DOMAIN proc, q # q2,
                        Holds(proc'[q]), Holds(proc'[q2])
                 PROVE  ~SamePort(proc'[q], proc'[q2])
      BY <1>8 DEF PortInv
    <2>1. \A x \in {q, q2} : Holds(proc[x]) /\ proc'[x].conf = proc[x].conf
      BY <1>6, <1>7, <1>8
    <2>2. ~SamePort(proc[q], proc[q2])
      BY <2>1 DEF IInv, PortInv
    <2> QED  BY <2>1, <2>2 DEF SamePort
  <1>11. /\ pid_file' \in Seq(STRING)
         /\ \A i \in DOMAIN pid_file' : \/ i \in DOMAIN Pid[p] /\ pid_file'[i] = Pid[p][i]
                                        \/ i \in DOMAIN pid_file /\ pid_file'[i] = pid_file[i]
         /\ n = Len(Pid[p]) => IsStart(Pid[p], pid_file')
    <2>1. pid_file \in Seq(STRING)
      BY DEF IInv, FileInv
    <2>2. Pid[p] \in Seq(STRING) /\ n \in 0 .. Len(Pid[p])
      BY <1>3
    <2>3. \A u : u = SubSeq(Pid[p], 1, n) \o SubSeq(pid_file, n + 1, Len(pid_file)) =>
             /\ u \in Seq(STRING)
             /\ \A i \in DOMAIN u : \/ i \in DOMAIN Pid[p] /\ u[i] = Pid[p][i]
                                    \/ i \in DOMAIN pid_file /\ u[i] = pid_file[i]
             /\ n = Len(Pid[p]) => IsStart(Pid[p], u)
      BY <2>1, <2>2, Overwrite, ZenonT(30)
    <2> QED  BY <1>a, <2>3, Zenon
  <1>12. /\ written' \in Seq([by : Nat, port : Nat]) /\ Len(written') = N + 1 /\ N \in Nat
         /\ DOMAIN written' = DOMAIN written \cup {N + 1} /\ DOMAIN written = 1 .. N
         /\ written'[N + 1] = w /\ \A i \in DOMAIN written : written'[i] = written[i]
    <2>0. PICK S : S = [by : Nat, port : Nat]
      BY Zenon
    <2>1. written \in Seq(S)
      BY <2>0 DEF IInv, FileInv
    <2>2. w \in S
      BY <2>0, <1>3 DEF conf
    <2> HIDE DEF w
    <2>3. N \in Nat /\ DOMAIN written = 1 .. N
      BY <2>1
    <2>4. /\ written' \in Seq(S) /\ Len(written') = N + 1
          /\ DOMAIN written' = DOMAIN written \cup {N + 1}
          /\ written'[N + 1] = w /\ \A i \in DOMAIN written : written'[i] = written[i]
      BY <1>b, <2>1, <2>2, AppendDomain
    <2> QED  BY <2>0, <2>3, <2>4, Zenon
  <1>13. FileInv'
    <2>1. ASSUME NEW i \in DOMAIN pid_file'
          PROVE  \E q \in DOMAIN proc : i <= Len(Pid[q]) /\ pid_file'[i] = Pid[q][i]
      <3>1. CASE i \in DOMAIN Pid[p] /\ pid_file'[i] = Pid[p][i]
        BY <1>3, <3>1
      <3>2. CASE i \in DOMAIN pid_file /\ pid_file'[i] = pid_file[i]
        BY <3>2 DEF IInv, FileInv
      <3> QED  BY <1>11, <3>1, <3>2
    <2> QED  BY <1>8, <1>11, <1>12, <2>1 DEF FileInv
  <1>14. ServerPidInFile'
    <2> SUFFICES ASSUME NEW q \in DOMAIN proc, proc'[q].pc \in Working, proc'[q].conf.daemon
                 PROVE  \E i \in DOMAIN written' :
                           /\ written'[i].by = q
                           /\ \A j \in i + 1 .. Len(written') :
                                 proc'[q].conf.port = 0 \/ written'[j].port # proc'[q].conf.port
                           /\ i = Len(written') => IsStart(Pid[q], pid_file')
      BY <1>8 DEF ServerPidInFile, Serving, Working, conf
    <2>1. CASE q = p
      <3>1. IsStart(Pid[p], pid_file')
        BY <1>6, <1>8, <1>11, <2>1
      <3>2. N + 1 \in DOMAIN written' /\ written'[N + 1].by = p /\ N + 1 + 1 .. Len(written') = {}
        BY <1>12
      <3> QED  BY <2>1, <3>1, <3>2
    <2>2. CASE q # p
      <3>1. proc'[q] = proc[q]
        BY <1>8, <2>2, SMTT(30), Zenon
      <3>2. PICK i \in DOMAIN written :
               /\ written[i].by = q
               /\ \A j \in i + 1 .. Len(written) :
                     proc[q].conf.port = 0 \/ written[j].port # proc[q].conf.port
        BY <3>1 DEF IInv, ServerPidInFile, Serving, Working, conf
      <3>3. proc[q].conf.port = 0 \/ q0.conf.port # proc[q].conf.port
        <4>1. Holds(proc[q])
          BY <3>1, ProcFacts DEF Sound, Standing, Holds, Working, Bound, Handling, Prepared
        <4>2. ~SamePort(proc[q], proc[p])
          BY <1>7, <2>2, <4>1 DEF IInv, PortInv
        <4> QED  BY <4>2, SMTT(30), Zenon DEF SamePort
      <3>4. written'[N + 1].port = q0.conf.port
        BY <1>12 DEF conf
      <3>5. i \in DOMAIN written' /\ written'[i].by = q /\ i # Len(written')
        BY <1>12, <3>2, SMTT(30), Zenon
      <3>6. ASSUME NEW j \in i + 1 .. Len(written')
            PROVE  proc[q].conf.port = 0 \/ written'[j].port # proc[q].conf.port
        <4>1. CASE j = N + 1
          BY <3>3, <3>4, <4>1
        <4>2. CASE j # N + 1
          <5>1. j \in i + 1 .. Len(written) /\ j \in DOMAIN written
            BY <1>12, <3>2, <4>2
          <5> QED  BY <1>12, <3>2, <5>1, Zenon
        <4> QED  BY <4>1, <4>2
      <3> QED  BY <3>1, <3>5, <3>6
    <2> QED  BY <2>1, <2>2
  <1> QED  BY <1>9, <1>10, <1>13, <1>14 DEF IInv

-----------------------------------------------------------------------------
(* Every step preserves the invariant. *)
LEMMA NextIInv == IInv /\ [Next]_vars => IInv'
  <1> SUFFICES ASSUME IInv, [Next]_vars PROVE IInv'
    BY SMTT(30)
  <1>1. CASE UNCHANGED vars
    BY <1>1 DEF vars, IInv, ProcsInv, PortInv, FileInv, ServerPidInFile, Serving, conf
  <1>2. CASE Start
    BY <1>2, StartIInv
  <1>3. CASE Ended
    BY <1>1, <1>3 DEF Ended
  <1>4. ASSUME NEW p \in DOMAIN proc, main(p) \/ process_events(p) \/ SIGTERM(p) \/ SIGKILL(p)
        PROVE  IInv'
    <2>1. CASE conf_file_parser(p)
      BY <2>1, ParserIInv
    <2>2. CASE create_default_logger(p)
      BY <2>2, DefaultLoggerIInv
    <2>3. CASE sys_modules_prepare(p)
      BY <2>3, PrepareIInv
    <2>4. CASE init_main_mod(p)
      BY <2>4, SignalsIInv
    <2>5. CASE init_network_mod(p)
      BY <2>5, NetworkIInv
    <2>6. CASE process_daemon(p)
      BY <2>6, DaemonIInv
    <2>7. CASE exit(p) \/ SIGKILL(p)
      BY <2>7, ExitIInv
    <2>8. CASE open_pid_file(p)
      BY <2>8, OpenIInv
    <2>9. CASE write_pid(p)
      BY <2>9, WriteIInv
    <2>10. CASE while(p) \/ process_network_mod(p) \/ process_events(p)
      BY <2>10, LoopIInv
    <2>11. CASE epoll_timeout(p)
      BY <2>10, <2>11 DEF epoll_timeout
    <2>12. CASE SIGTERM(p)
      BY <2>12, TermIInv
    <2> QED  BY <1>4, <2>1, <2>2, <2>3, <2>4, <2>5, <2>6, <2>7, <2>8, <2>9, <2>10, <2>11, <2>12
             DEF main
  <1> QED  BY <1>1, <1>2, <1>3, <1>4 DEF Next

(* IInv, the inductive invariant, holds in every reachable state.          *)
THEOREM Invariance == Spec => []IInv
  BY InitIInv, NextIInv, PTL DEF Spec

(* Every process is in a step of main or gone, only one that is not gone   *)
(* listens, and sig_term_handler runs once (TypeOK): for all               *)
(* configurations and pids, however often the program is started.          *)
THEOREM TypeCorrect == Spec => []TypeOK
  <1>1. IInv => TypeOK
    <2> SUFFICES ASSUME IInv, NEW p \in DOMAIN proc
                 PROVE  /\ proc[p].pc \in Steps \cup Gone /\ proc[p].conf \in Confs \cup {NoConf}
                        /\ proc[p].listening => Alive(p) /\ proc[p].conf.net
                        /\ ~(proc[p].handler /\ proc[p].stop)
      BY DEF TypeOK, IInv, FileInv
    <2>1. proc[p] \in ProcessType /\ Standing(proc[p])
      BY ProcFacts DEF Sound
    <2> QED  BY <2>1 DEF ProcessType, Standing, Alive, Gone, Bound, Handling, Prepared
  <1> QED  BY <1>1, Invariance, PTL

(* The pid file begins with the pid of the daemon that serves on the port  *)
(* (ServerPidInFile), however many processes are started, stopped and      *)
(* killed around process_daemon, and however short their writes are.       *)
THEOREM PidFileCorrect == Spec => []ServerPidInFile
  <1>1. IInv => ServerPidInFile
    BY DEF IInv
  <1> QED  BY <1>1, Invariance, PTL

(* A module of a process that serves logs where sys_modules_prepare should *)
(* have it log (LoggedAsConfigured), for every configuration.              *)
THEOREM LoggersCorrect == Spec => []LoggedAsConfigured
  <1>1. IInv => LoggedAsConfigured
    <2> SUFFICES ASSUME IInv, NEW p \in DOMAIN proc, Serving(p)
                 PROVE  /\ proc[p].logger = AnyLogger(conf(p))
                        /\ conf(p).main_log \/ default_log
      BY DEF LoggedAsConfigured, AnyLogger, MainLogger
    <2> QED  BY ProcFacts DEF Serving, Sound, Logging, Prepared, conf
  <1> QED  BY <1>1, Invariance, PTL

-----------------------------------------------------------------------------
(* What CrashOnlyIfBlockMissing says of the step of one process: what it   *)
(* crashes of, and with what it starts to serve.                           *)
Equipped(p) == conf(p).main /\ conf(p).net /\ conf(p).conns >= 2 /\ proc[p].listening
Justified(p) ==
    /\ proc'[p].pc = "crashed" /\ Alive(p) => ~conf(p).main \/ ~conf(p).net
    /\ proc'[p].pc = "while" /\ ~Serving(p) => Equipped(p)

(* A step of q to r is justified for all processes if it is for q. *)
LEMMA BecomesJustified ==
    ASSUME IInv, NEW p \in DOMAIN proc, NEW q \in DOMAIN proc, NEW r,
           proc' = [proc EXCEPT ![q] = r],
           r.pc = "crashed" => ~conf(q).main \/ ~conf(q).net,
           r.pc = "while" => Serving(q) \/ Equipped(q)
    PROVE  Justified(p)
  <1>1. proc'[p] = IF p = q THEN r ELSE proc[p]
    BY DEF IInv, ProcsInv
  <1> QED  BY <1>1 DEF Justified, Alive, Gone, Serving

LEMMA LeaveJustified ==
    ASSUME IInv, NEW p \in DOMAIN proc, NEW q \in DOMAIN proc, NEW how \in Gone, Leave(q, how),
           how = "crashed" => ~conf(q).main \/ ~conf(q).net
    PROVE  Justified(p)
  <1> DEFINE r == [Process EXCEPT !.pc = how]
  <1>1. r.pc = how /\ proc' = [proc EXCEPT ![q] = r]
    BY DEF Process, Leave, Becomes
  <1> HIDE DEF r
  <1> QED  BY <1>1, BecomesJustified, Zenon DEF Gone

LEMMA GotoJustified ==
    ASSUME IInv, NEW p \in DOMAIN proc, NEW q \in DOMAIN proc, NEW pc \in Steps, NEW r,
           proc' = [proc EXCEPT ![q] = r], r.pc = pc,
           pc = "while" => Serving(q) \/ Equipped(q)
    PROVE  Justified(p)
  BY BecomesJustified, Zenon DEF Steps

(* a process that has its port has what it needs to serve *)
LEMMA BoundEquipped ==
    ASSUME IInv, NEW q \in DOMAIN proc, proc[q].pc \in Bound, conf(q).main
    PROVE  Equipped(q)
  BY ProcFacts DEF Sound, Standing, Equipped, conf

LEMMA StepJustified ==
    ASSUME IInv, NEW p \in DOMAIN proc, NEW q \in DOMAIN proc,
           main(q) \/ process_events(q) \/ SIGTERM(q) \/ SIGKILL(q)
    PROVE  Justified(p)
  <1>0. proc[q] \in ProcessType
    BY ProcFacts
  <1>1. CASE Error(q) \/ Leave(q, "exited")
    BY <1>1, LeaveJustified DEF Error, Gone
  <1>2. ASSUME NEW pc \in Steps, Goto(q, pc), pc = "while" => Serving(q) \/ Equipped(q)
        PROVE  Justified(p)
    <2> DEFINE r == [proc[q] EXCEPT !.pc = pc]
    <2>1. r.pc = pc /\ proc' = [proc EXCEPT ![q] = r]
      BY <1>0, <1>2 DEF ProcessType, Goto, Becomes
    <2> HIDE DEF r
    <2> QED  BY <1>2, <2>1, GotoJustified, Zenon
  <1>3. CASE conf_file_parser(q)
    <2>1. ASSUME NEW c \in Confs,
                 Becomes(q, [proc[q] EXCEPT
                               !.pc = "create_default_logger", !.conf = c,
                               !.logger = [main |-> IF c.main_log THEN "main" ELSE NULL,
                                           net |-> IF c.net_log THEN "net" ELSE NULL]])
          PROVE  Justified(p)
      <3> DEFINE r == [proc[q] EXCEPT
                         !.pc = "create_default_logger", !.conf = c,
                         !.logger = [main |-> IF c.main_log THEN "main" ELSE NULL,
                                     net |-> IF c.net_log THEN "net" ELSE NULL]]
      <3>1. r.pc = "create_default_logger"
        BY <1>0 DEF ProcessType
      <3>2. proc' = [proc EXCEPT ![q] = r]
        BY <2>1 DEF Becomes
      <3> HIDE DEF r
      <3> QED  BY <3>1, <3>2, GotoJustified, Zenon DEF Steps
    <2> QED  BY <1>1, <1>3, <2>1, Zenon DEF conf_file_parser
  <1>4. CASE create_default_logger(q)
    <2>1. CASE Becomes(q, [proc[q] EXCEPT !.pc = "sys_modules_prepare",
                                          !.default_logger = proc[q].logger.main])
      <3> DEFINE r == [proc[q] EXCEPT !.pc = "sys_modules_prepare",
                                      !.default_logger = proc[q].logger.main]
      <3>1. r.pc = "sys_modules_prepare" /\ proc' = [proc EXCEPT ![q] = r]
        BY <1>0, <2>1 DEF ProcessType, Becomes
      <3> HIDE DEF r
      <3> QED  BY <3>1, GotoJustified, Zenon DEF Steps
    <2> QED  BY <1>1, <1>2, <1>4, <2>1 DEF create_default_logger, Steps
  <1>5. CASE sys_modules_prepare(q)
    <2> DEFINE default(own) == IF own = NULL THEN proc[q].default_logger ELSE own
               l == [main |-> default(proc[q].logger.main), net |-> default(proc[q].logger.net)]
               r == [proc[q] EXCEPT !.pc = "init_main_mod", !.logger = l]
    <2>1. CASE Becomes(q, r)
      <3>1. r.pc = "init_main_mod" /\ proc' = [proc EXCEPT ![q] = r]
        BY <1>0, <2>1 DEF ProcessType, Becomes
      <3> HIDE DEF r
      <3> QED  BY <3>1, GotoJustified, Zenon DEF Steps
    <2> QED  BY <1>1, <1>5, <2>1 DEF sys_modules_prepare
  <1>6. CASE init_main_mod(q)
    <2> DEFINE r == [proc[q] EXCEPT !.pc = "init_network_mod", !.handler = TRUE]
    <2>1. r.pc = "init_network_mod" /\ proc' = [proc EXCEPT ![q] = r]
      BY <1>0, <1>6 DEF ProcessType, Becomes, init_main_mod
    <2> HIDE DEF r
    <2> QED  BY <2>1, GotoJustified, Zenon DEF Steps
  <1>7. CASE init_network_mod(q)
    <2> DEFINE r == [proc[q] EXCEPT !.pc = "process_daemon", !.listening = TRUE]
    <2>1. CASE ~conf(q).net /\ Leave(q, "crashed")
      BY <2>1, LeaveJustified DEF Gone
    <2>2. CASE Becomes(q, r)
      <3>1. r.pc = "process_daemon" /\ proc' = [proc EXCEPT ![q] = r]
        BY <1>0, <2>2 DEF ProcessType, Becomes
      <3> HIDE DEF r
      <3> QED  BY <3>1, GotoJustified, Zenon DEF Steps
    <2> QED  BY <1>1, <1>7, <2>1, <2>2 DEF init_network_mod
  <1>8. CASE process_daemon(q)
    <2>0. proc[q].pc \in Bound
      BY <1>8 DEF process_daemon, At, Bound, Handling, Prepared
    <2>1. CASE ~conf(q).main /\ Leave(q, "crashed")
      BY <2>1, LeaveJustified DEF Gone
    <2>2. CASE conf(q).main /\ Goto(q, "while")
      BY <1>2, <2>0, <2>2, BoundEquipped DEF Steps
    <2>3. CASE Goto(q, "exit")
      BY <1>2, <2>3 DEF Steps
    <2>4. CASE proc' = Append([proc EXCEPT ![q].pc = "exit"],
                              [proc[q] EXCEPT !.pc = "open_pid_file"])
      <3> DEFINE parent == [proc[q] EXCEPT !.pc = "exit"]
                 child  == [proc[q] EXCEPT !.pc = "open_pid_file"]
      <3>1. proc \in Seq(ProcessType) /\ parent \in ProcessType /\ child \in ProcessType
        BY <1>0, SMTT(30), Zenon DEF IInv, ProcsInv, ProcessType, Steps
      <3>2. parent.pc = "exit" /\ proc' = Append([proc EXCEPT ![q] = parent], child)
        BY <1>0, <2>4 DEF ProcessType
      <3> HIDE DEF parent, child
      <3>3. proc'[q] = parent /\ (p # q => proc'[p] = proc[p])
        BY <3>1, <3>2, AppendExcept
      <3> QED  BY <3>2, <3>3 DEF Justified, Alive, Gone, Serving
    <2> QED  BY <1>8, <2>1, <2>2, <2>3, <2>4, SMTT(30), Zenon DEF process_daemon
  <1>9. CASE exit(q) \/ SIGKILL(q)
    BY <1>1, <1>9 DEF exit, SIGKILL
  <1>10. CASE open_pid_file(q)
    BY <1>1, <1>2, <1>10, SMTT(30), Zenon DEF open_pid_file, Steps
  <1>11. CASE write_pid(q)
    <2> DEFINE on == [proc[q] EXCEPT !.pc = "while"]
               off == [Process EXCEPT !.pc = "exited"]
    <2>1. PICK n \in 0 .. Len(Pid[q]) :
             proc' = [proc EXCEPT ![q] = IF n = Len(Pid[q]) THEN on ELSE off]
      BY <1>11, Zenon DEF write_pid
    <2>2. on.pc = "while" /\ off.pc = "exited"
      BY <1>0 DEF ProcessType, Process
    <2>3. Equipped(q)
      <3>1. proc[q].pc = "write_pid"
        BY <1>11, SMTT(30), Zenon DEF write_pid, At
      <3>2. proc[q].pc \in Bound /\ conf(q).main
        BY <3>1, ProcFacts DEF Sound, Standing, Bound, Handling, Prepared, conf
      <3> QED  BY <3>2, BoundEquipped
    <2> HIDE DEF on, off
    <2> QED  BY <2>1, <2>2, <2>3, BecomesJustified, Zenon
  <1>12. CASE while(q) \/ process_network_mod(q) \/ process_events(q) \/ epoll_timeout(q)
    <2>1. Serving(q)
      BY <1>12 DEF while, process_network_mod, process_events, epoll_timeout, At, Serving
    <2> QED  BY <1>1, <1>2, <1>12, <2>1
             DEF while, process_network_mod, process_events, epoll_timeout, Steps
  <1>13. CASE SIGTERM(q)
    <2> DEFINE r == [proc[q] EXCEPT !.stop = TRUE, !.handler = FALSE,
                                    !.pc = IF @ = "epoll_wait" THEN "while" ELSE @]
    <2>1. CASE Becomes(q, r)
      <3>1. /\ r.pc = IF proc[q].pc = "epoll_wait" THEN "while" ELSE proc[q].pc
            /\ proc' = [proc EXCEPT ![q] = r]
        BY <1>0, <2>1 DEF ProcessType, Becomes
      <3>2. proc[q].pc # "crashed"
        BY <1>13 DEF SIGTERM, Alive, Gone
      <3> HIDE DEF r
      <3> QED  BY <3>1, <3>2, BecomesJustified, Zenon DEF Serving
    <2> QED  BY <1>1, <1>13, <2>1, SMTT(30), Zenon DEF SIGTERM
  <1> QED  BY <1>3, <1>4, <1>5, <1>6, <1>7, <1>8, <1>9, <1>10, <1>11, <1>12, <1>13, SMTT(30),
     Zenon DEF main

(* For every configuration file: main crashes only of a missing block, and *)
(* a process serves only with both blocks, two connections and a port      *)
(* (CrashOnlyIfBlockMissing).                                              *)
THEOREM CrashesCorrect == Spec => CrashOnlyIfBlockMissing
  <1>1. ASSUME IInv, [Next]_vars, NEW p \in DOMAIN proc PROVE Justified(p)
    <2>1. CASE UNCHANGED vars \/ Ended
      BY <1>1, <2>1 DEF vars, Ended, Justified, Alive, Gone, Serving
    <2>2. CASE Start
      <3>1. proc \in Seq(ProcessType) /\ Process \in ProcessType /\ proc' = Append(proc, Process)
        BY <1>1, <2>2, ProcessSound DEF Start, IInv, ProcsInv, Sound, Gone
      <3>2. proc'[p] = proc[p]
        BY <1>1, <3>1, AppendDomain
      <3> QED  BY <3>2 DEF Justified, Alive, Gone, Serving
    <2>3. ASSUME NEW q \in DOMAIN proc,
                 main(q) \/ process_events(q) \/ SIGTERM(q) \/ SIGKILL(q)
          PROVE  Justified(p)
      BY <1>1, <2>3, StepJustified
    <2> QED  BY <1>1, <2>1, <2>2, <2>3 DEF Next
  <1> DEFINE Body == \A p \in DOMAIN proc :
                 /\ proc'[p].pc = "crashed" /\ Alive(p) => ~conf(p).main \/ ~conf(p).net
                 /\ proc'[p].pc = "while" /\ ~Serving(p) =>
                       conf(p).main /\ conf(p).net /\ conf(p).conns >= 2 /\ proc[p].listening
  <1>2. IInv /\ [Next]_vars => [Body]_vars
    BY <1>1 DEF Justified, Equipped
  <1>3. CrashOnlyIfBlockMissing <=> [][Body]_vars
    BY DEF CrashOnlyIfBlockMissing
  <1> HIDE DEF Body
  <1>4. Spec => [][Next]_vars
    BY PTL DEF Spec
  <1> QED  BY <1>2, <1>3, <1>4, Invariance, PTL
==============================================================================
