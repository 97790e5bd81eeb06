------------------------------ MODULE MCStartup ------------------------------
EXTENDS Startup

Conf(m, main_log, daemon, net, net_log, conns, port) ==
    [main |-> m, main_log |-> main_log, daemon |-> daemon,
     net |-> net, net_log |-> net_log, conns |-> conns, port |-> port]

(* daemons with and without loggers and with another port, a program in    *)
(* the foreground, too few connections, and a missing block                *)
MCConfs ==
    {Conf(TRUE, TRUE, TRUE, TRUE, FALSE, 2, 80), Conf(TRUE, FALSE, TRUE, TRUE, TRUE, 2, 0),
     Conf(TRUE, FALSE, FALSE, TRUE, TRUE, 3, 80), Conf(TRUE, TRUE, FALSE, TRUE, FALSE, 1, 80),
     Conf(FALSE, FALSE, FALSE, TRUE, FALSE, 2, 80), Conf(TRUE, FALSE, TRUE, FALSE, FALSE, 0, 0)}

(* the second daemon has a shorter pid than the first: pids wrap around *)
MCPid == <<<<"1", "0">>, <<"1", "1">>, <<"7">>, <<"8">>>>
==============================================================================
