SPECIFICATION Spec
CONSTANTS
  MaxTries = 3
  MaxPolls = 9
  MaxErrors = 3
  Intervals <- AskedIntervals
INVARIANTS
  PollsNoFasterThanAsked
