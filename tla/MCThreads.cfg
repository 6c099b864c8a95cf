SPECIFICATION SuiteSpec
CONSTANTS
  f1 = f1
  f2 = f2
  Worker = {w1, w2}
  Owner = {o1, o2}
  MaxTasks = 2
  NumSlots = 2
  Frame <- MCFrame
  BlankFrame <- MCBlank
INVARIANTS Types SlotOwnership NoLostWakeup NoIdleWorker PagesAreShownAndRouted ShellIsInStep
PROPERTIES ImplementsChannel NeverHangs OnlyHeldAnswered WillsArePaired WhatBeginsEnds
