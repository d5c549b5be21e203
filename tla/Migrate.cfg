SPECIFICATION FairSpec
CONSTANTS
    Runners = {p1, p2, p3}
    NVersions = 3
INVARIANTS MigrateTypeOK AppliedInOrder OkIsMigrated SomeRunFinishes
PROPERTIES RunsEnd
