\* Two creates at a time, two containers in all, one folder that they
\* share, a plan that goes up and down; one fault and one crash.
SPECIFICATION Spec
CONSTANTS
    Workers = {w1, w2}
    Containers = {c1, c2}
    Folders = {f1}
    Limits = {1, 2}
    MaxLimit = 2
    None = none
    MaxFaults = 1
    MaxCrashes = 1
SYMMETRY Symmetry
INVARIANTS
    NoOrphan
    RowIsReal
    NoOrphanFolder
    QuotaOvershoot
