\* Three jobs, one of which neither exits nor times out, and room for one
\* finished entry; a program with pipes of one unit, one unit kept of up to two;
\* four file commands among three steps of other processes; the output of one
\* job and the log of two days, with a budget of one.
SPECIFICATION AgentSpec
CONSTANTS
  JobIds = {j1, j2, j3}
  NoJob = NoJob
  Endless = {j1}
  Unlimited = {j1}
  Retained = 1
  MaxNow = 1
  MaxDeaths = 1
  PipeSize = 1
  Limit = 1
  MaxInput = 2
  MaxOutput = 2
  Paths <- ChainAndOne
  MaxOps = 4
  MaxOthers = 3
  Outputs = {o1}
  DayLength = 2
  Retention = 2
  MaxTotal = 1
  MaxSize = 1
  MaxHours = 2
  MaxStuck = 1
INVARIANT RunningIsCounted
PROPERTY StopsInTheEnd
PROPERTY OutcomeIsKept
INVARIANT AnswerIsExact
PROPERTY ExecAnswers
PROPERTY OkIsTrue
PROPERTY UsageComesDown
PROPERTY RemovedRightly
CHECK_DEADLOCK FALSE
