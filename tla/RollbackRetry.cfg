CONSTANTS
  Names <- SharedTmp
  Tmp <- ToTmp
  Content = {c1, c2}
  Image = {i1, i2}
  c1 = c1
  c2 = c2
  i1 = i1
  i2 = i2
  Down <- TwoMigrations
  Budgets <- RetryBudgets
  Past <- NoPast
  NoFile = NoFile
  Partial = Partial
  Unread = Unread
  Lost = Lost
  None = None
SPECIFICATION FairSpec
PROPERTIES
  RetryCompletes
CHECK_DEADLOCK FALSE
