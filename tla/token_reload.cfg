CONSTANTS
    p1 = p1
    p2 = p2
    Proc = {p1, p2}
    NoProc = NoProc
    NoPath = NoPath
    MaxIssued = 4
    MaxWait = 2
    Configs <- MCConfigs
    Path <- MCPath
    Cwd <- MCCwd
    Dirs <- MCDirs
    Links <- MCLinks
    Fold <- MCFold
    NonAscii = {"u"}
SPECIFICATION FairSpec
INVARIANTS
    FilesKept
    LoginKept
    RefreshedOnce
    OneListener
PROPERTIES
    ListensWithFile
    CommandsEnd
