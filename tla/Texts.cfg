SPECIFICATION MCSpec

CONSTANTS
  FieldTexts <- SmallTexts
  Files <- SmallFiles
  Leftovers <- SomeLeftovers
  Numbers <- SomeNumbers
  Presses <- SomePresses
  Monitors = {m1, m2}
  MaxHandles = 6

INVARIANTS
  FieldFound
  OptionsAsWritten
  AutoAsWritten
  CommandUnderstood
  ButtonsKeepMeaning
  NumbersComeBack
  OneMonitorSafe

PROPERTY DayToldTruly

CHECK_DEADLOCK FALSE
