SPECIFICATION MCSpec
CONSTANTS
    WindowTicks = 4
    BackDate = 2
    MinPark = 1
    MaxPark = 4
    Busy = 1
    Late = 1
    MaxTime = 18
    Coalesce = 1
    CadenceSlack = 1
    TimerSlack = 1
    MaxGap = 3
    BufferReports = 2
    CapTime = 5
    MaxReports = 3
    MaxPerTick = 2
    MaxMessages = 1
    MaxErrors = 1
    MaxDelay = 1
    Confirm = 2
    AnchorEvery = 2
    ConfigEvery = 1
    ReportEvery = 1
    Escalation = 2
    Places = {1, 2}
    MaxTicks = 4
    MaxHappenings = 3
    Wrap = 2
    WarnInterval = 1
    TickInterval = 2
    ResendInterval = 2
    HeartbeatInterval = 2
    Budget = 2
    SinkSets = {{"jsonl", "kafka"}, {"udp", "jsonl"}}
    ShipTime = 3
    MaxDrops = 2
    MaxBatches = 2
    MaxFailures = 2
    Width = 2
    Buckets = 2
    TrueLatencies = {0, 6}
    ClockSkew = 1
    StallAfter = 0
    LogEvery = 1
    HeartbeatEvery = 2
    FeedTime = 2
    MaxDatagrams = 2
INVARIANTS
    WindowIsTimely
    CadenceIsBounded
    ReportsAreTimely
    ContextIsTrue
    SinksAreServed
    FeedIsAccounted
PROPERTIES
    WarningsAreTimely
CHECK_DEADLOCK FALSE
