SPECIFICATION Spec
CONSTANTS
    Confs <- MCConfs
    Pid <- MCPid
    MAX_STARTS = 2
INVARIANTS
    TypeOK
    ServerPidInFile
    LoggedAsConfigured
PROPERTIES
    CrashOnlyIfBlockMissing
    StopsOnTerm
