CONSTANTS
    Handlers = {"pit"}
    Values = {0, 1}
    Delays = {1, 5}
    Sub = 2
    CycleMax = 3
    PoolSize = 3
    Slack = 2
    Irqs = {1}
    MaxCost = 1
SPECIFICATION FairSpec
INVARIANTS
    TypeOK
    PoolIntact
    NoOversleep
PROPERTIES
    ImplementsAgenda
    EventsRun
