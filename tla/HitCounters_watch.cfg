\* Nested and parallel programs, and a watcher that fails and is restarted.
CONSTANTS
    c1 = c1
    c2 = c2
    Cpus = {c1, c2}
    All = All
    SlotSets <- BothMaps
    MaxHits = 3
    MaxDepth = 2
    MaxTroubles = 2
SPECIFICATION Spec
INVARIANTS TypeOK NoHitLost ReadIsRecent NeverGoesBack
PROPERTY ShownInTheEnd
