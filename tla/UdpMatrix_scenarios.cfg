\* Every pair of bind addresses and options, every topology, with and without connect.
CONSTANTS
    Scenarios <- MatrixScenarios
    SINGLE_PKTS = 2
    DUAL_PAIRS = 2
    MANY_SENDERS = 3
    Intruders <- Neighbours
    None = None
SPECIFICATION Spec
INVARIANTS TypeOK PinnedHearsItsPeer RowIsRight
PROPERTY ScenarioEnds
CHECK_DEADLOCK FALSE
