SPECIFICATION FairSpec
CONSTANTS
    Updaters = {u1, u2}
    MaxCommit = 2
    Migrating <- MCMigrating
    When <- MCWhen
INVARIANTS
    DeployInv
    CodeHasItsSchema
PROPERTIES
    DoneIsDeployed
    NoRollback
    NothingStaysBehind
