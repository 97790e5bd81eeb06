------------------------------ MODULE MCLogger -------------------------------
EXTENDS Logger

(* " [ERROR] ", " [WARN] ", " [INFO] ", " [DEBUG] " *)
MCLevelLen == <<9, 8, 8, 9>>
==============================================================================
