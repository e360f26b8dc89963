SPECIFICATION TriggersSpec
CONSTANTS
  p1 = p1 p2 = p2 r1 = r1 r2 = r2 All = All
  Runners = {p1, p2} Relationships = {r1}
  CronLinks <- BothLevels DueTimes <- OnceAtThree IdleLinks <- IdleOnly
  RelationLimit = 1 IdleLimit = 1
  Period = 2 MarkerGap = 5 Window = 6 IdleAfter = 6 Timeout = 2 Jitter = 1
  MaxMessages <- OneTalks Horizon = 14
INVARIANTS FiresOnceWhenSteady FewDuplicates NudgesApart SilenceGetsNudge
SYMMETRY Symmetric
CHECK_DEADLOCK FALSE
