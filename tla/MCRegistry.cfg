SPECIFICATION Spec
CONSTANTS
    home = home
    a = a
    pat = pat
    p1 = p1
    p2 = p2
    NoValue = NoValue
    Torn = Torn
    Db <- MCDb
    Cli <- MCCli
    Command <- MCCommand
    MaxStarts = 2
SYMMETRY Symmetry
CHECK_DEADLOCK FALSE
INVARIANTS CommandsKept ServedCurrent
