\* One coroutine awaits IOScheduler::schedule() and is never resumed
SPECIFICATION Spec
CONSTANTS
  IOThreads = {io}
  Clients = {t1}
  Coros = {c1}
  None = None
  MaxAwaits = 1
PROPERTY ScheduleResumes
CHECK_DEADLOCK FALSE
