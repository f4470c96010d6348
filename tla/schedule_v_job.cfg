SPECIFICATION ScheduledLiveSpec
CONSTANTS
    Schedules = {s1}
    ScheduleTypes = {"INTERVAL"}
    RunLimits = {0}
    Tickers = {t1}
    Deliveries = {}
    MaxScheduleFailures = 2
    MaxPosts = 2
    MaxTicks = 2
CHECK_DEADLOCK FALSE
PROPERTY ClaimGetsJob
