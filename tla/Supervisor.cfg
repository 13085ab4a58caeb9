SPECIFICATION FairSpec
CONSTANTS
  Modes = {"auto", "fentry", "kprobes"}
  MaxSignals = 3
INVARIANTS
  ExitTellsOutcome
  GateHeld
PROPERTIES
  TwoInterruptsLeave
  ReportReturns
  EndedChildNoticed
