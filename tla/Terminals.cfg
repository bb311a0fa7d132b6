SPECIFICATION TerminalsSpec
CONSTANTS
    cli = cli
    u1 = u1
    e1 = e1
    o1 = o1
    o2 = o2
    Ptys = {cli}
    Leasing = {cli}
    Openings = {o1, o2}
    NoPty = NoPty
    None = None
    MaxDisposals = 1
    Turns = {u1}
    TurnEnvs = {e1}
    Envs = {e1, NoEnv}
    NoEnv = NoEnv
    NoProc = NoProc
    MaxProcs = 2
    MaxPools = 2
    MaxEditions = 1
    Callers <- AllCallers
INVARIANTS NoStrayTerminal NothingOutlivesDisposal KillIsKept LeasesBalance NoStrayServer
PROPERTIES UsedServerStays
SYMMETRY OpeningSymmetry
CHECK_DEADLOCK FALSE
