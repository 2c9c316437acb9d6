CONSTANTS
    Reports = {r1, r2}
    Checks = {c1, c2}
SPECIFICATION FairSpec
INVARIANTS
    HealthInv
    RollupIsWorst
PROPERTIES
    ReportsEnd
