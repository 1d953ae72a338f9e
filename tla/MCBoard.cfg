SPECIFICATION Spec
CONSTANTS
  again = again
  fix = fix
  lead = lead
  inner = inner
  Titles <- AllTitles
  Slug <- SlugOf
  Unreadable <- BadTitles
  DefaultColumns <- Kanban
  Outside = "."
  MaxAdds = 3
INVARIANTS
  TasksStay
  NumbersDistinct
CHECK_DEADLOCK FALSE
