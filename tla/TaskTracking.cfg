SPECIFICATION FairSpec
CONSTANTS
  Task = {t1}
  Worker = {w1, w2, w3}
  MaxRedeliveries = 2
  MaxFaults = 1
  MaxCrashes = 1
  MaxPurges = 1
INVARIANTS TypeOK SettledTellsAnOutcome PendingIsWaiting
PROPERTIES TerminalIsFinal SentIsRecorded
CHECK_DEADLOCK FALSE
