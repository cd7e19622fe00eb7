\* Two clients, a table of two, four jobs, one restart.
SPECIFICATION FairSpec
CONSTANTS
  Clients = {c1, c2}
  Names = {"push"}
  Keep = 2
  RestartDelay = 1
  None = None
  MaxJobs = 4
  MaxSecond = 1
  MaxLives = 2
INVARIANTS RetainedAreNewest AnswerIsOwnJob GoneOnlyWhenOutnumbered
PROPERTIES PollNeverGoesBack PollerLearns
