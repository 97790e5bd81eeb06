SPECIFICATION Spec
CONSTANTS
    Word <- MCWord
    Files <- MCFiles
    BUFF = 6
    NARGS = 1
    UINT = 10
    xpipe_install_dir_path <- MCDir
    MAX_TOKENS = 5
INVARIANTS
    TypeOK
    ParsedAsWritten
    CommentsDoNotMatter
