SPECIFICATION FairSpec
CONSTANTS
    u = u
    t1 = t1
    t2 = t2
    None = None
    Users <- MCUsers
    Tabs <- MCTabs
    MaxTokens = 2
    BornDead = TRUE
INVARIANT TypeOK
INVARIANT RefreshHasAccess
PROPERTY RequestsSettle
CHECK_DEADLOCK FALSE
