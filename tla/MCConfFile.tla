----------------------------- MODULE MCConfFile -----------------------------
(***************************************************************************)
(* Two letters spell all words: modules m and n; in both "m" and "mm" are  *)
(* commands of the module, and "n" is the log command. Files are made of   *)
(* up to MAX_TOKENS of the Tokens.                                         *)
(***************************************************************************)
EXTENDS ConfFile

CONSTANT MAX_TOKENS

MCWord ==
    [main |-> <<"m">>, net |-> <<"n">>,
     daemon |-> <<"m">>, pid |-> <<"m", "m">>, log |-> <<"n">>,
     listen |-> <<"m">>, connections |-> <<"m", "m">>, nodelay |-> <<"m", "n">>,
     request_buffer_size |-> <<"n", "m">>,
     off |-> <<"0">>, default_pid_file |-> <<"/", "n">>,
     error |-> <<"m">>, warn |-> <<"n">>, info |-> <<"m", "n">>, debug |-> <<"n", "n">>,
     stdout |-> <<"1">>]

MCDir == <<"/", "m">>

Tokens ==
    {<<"m">>, <<" ">>, <<"{">>, <<"}">>, <<"m", "{">>, <<"}", "n", "{">>, <<"#", "}", LF>>,
     <<"m", "m", " ", "1", "0", ";">>, <<"m", " ", "0", " ", ";">>,
     <<"n", " ", "/", " ", "n", ";">>, <<"m", "n", ";">>}

MCFiles ==
    {FlattenSeq(ts) : ts \in UNION {[1 .. n -> Tokens] : n \in 0 .. MAX_TOKENS}}
=============================================================================
