CONSTANTS
  Flags <- MCFlags
  Durations = {1, 3}
SPECIFICATION FairSpec
INVARIANTS TypeOK SandboxesAreDeleted StatsDescribeRun SummaryShowsTheRuns
PROPERTY EndsWhenInterrupted
