SPECIFICATION Spec
CONSTANTS
  Images <- Both
  Sections <- XncdSections
  Handler <- XncdHandler
  Hook <- HookPc
  FlashEntry <- GuestVa
  Guest <- GuestText
  LanceServer <- ServerVa
  TickMod = 2
  BootFlash = {TRUE}
  MaxSp = 8
CHECK_DEADLOCK FALSE
INVARIANT FetchesAreFresh
INVARIANT HandlerSurvives
INVARIANT EntersWhole
INVARIANT EdgeKept
PROPERTY Resumes
PROPERTY EdgeAnswered
