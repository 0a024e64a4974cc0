SPECIFICATION JobsSpec
CONSTANTS
    u1 = u1
    u2 = u2
    t1 = t1
    t2 = t2
    Users = {u1, u2}
    Tasks = {t1, t2}
    Recipients <- Shared
    Day = 4
    At <- Mails
    Zone <- Zones
    ServerZone = 1
    Start = 4
    Horizon = 18
    RemindedUsers = {u1, u2}
    RemindedTasks = {t1}
    Creator <- ByFirst
    Assignees <- ToSecond
    MinuteLen = 2
    MaxDelay = 0
    ServerOffset = 3
    Behind = 4
    Ahead = 5
    Minutes = 5
    MaxFailures = 1
INVARIANTS  MailEveryDayOnServerDate
PROPERTIES  MailOnceADay
CHECK_DEADLOCK FALSE
