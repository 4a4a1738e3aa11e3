SPECIFICATION Spec
CONSTANTS
  NoProc = NoProc
  Absent = 0
  p1 = p1
  p2 = p2
  Procs = {p1, p2}
  Listers = {p1}
  Path = {1, 2}
  Version = {1, 2}
  Filters <- ListFilters
  Changes = {"write", "edit", "add", "commit", "reset", "restore", "checkout", "invalidate", "refreshing"}
  MaxChanges = 2
ACTION_CONSTRAINT PagesApart
CHECK_DEADLOCK FALSE
INVARIANTS DirtyServed CursorStable NoneSkipped
