SPECIFICATION MCSpec
CONSTANTS
  Callers = {c1, c2}
  Senders = {c1, c2}
  Reqs = {c1, c2}
  Buttons = {"left", "right"}
  Layouts <- MCLayouts
  Frames <- MCFrames
  ZeroArea = {"g"}
  MaxLog = 1
  MaxCalls = 3
  MaxChanges = 3
  MaxNavs = 1
  Urls = {"x", "y"}
  Globs <- MCGlobs
  Filters <- MCFilters
  Observers = {o1}
  Registrars = {n1}
  EventCap = 2
  ObserveCap = 1
  HarCap = 1
  MaxHandlers = 1
  MaxSent = 2
SYMMETRY Interchangeable
INVARIANTS
  
  ActsOnWhatWasSeen
  
  NoPausedForgotten
  BooksAgree
  ObservedOnce
CHECK_DEADLOCK FALSE
