SPECIFICATION WebSpec
CONSTANTS
  Profiles <- MCProfiles
  MaxReductions = 1
  Users = {"ada", "bo"}
  MaxSessions = 2
  Texts = {"", "a"}
  NoText = ""
  Keys = {"first", "second"}
  Multiple = {"second"}
  Options = {"a", "b"}
  MaxPages = 2
  MaxInputs = 3
  Contents = {"a", "blank"}
  Blank = "blank"
  NoEdit = "no edit"
  MaxSaves = 2
INVARIANTS WebTypeOK RefusalsAreStale LinksLand NoForeignData SavedIsShown NothingLost
PROPERTIES GuardsSettle ExpiredOnlyDead DeadSessionEndsAtLogin SignInLands TableSettles EditsAreKept
CHECK_DEADLOCK FALSE
