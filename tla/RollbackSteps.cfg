CONSTANTS
  Names <- SharedTmp
  Tmp <- ToTmp
  Content = {c1, c2}
  Image = {i1, i2}
  c1 = c1
  c2 = c2
  i1 = i1
  i2 = i2
  Down <- TwoMigrations
  Budgets <- StepsBudgets
  Past <- NoPast
  NoFile = NoFile
  Partial = Partial
  Unread = Unread
  Lost = Lost
  None = None
SPECIFICATION Spec
SYMMETRY Symmetry
INVARIANTS
  TypeOK
  SuccessIsWhole
  PromptsNeverPartial
PROPERTIES
  RefusedChangesNothing
  NeverBelowTarget
CHECK_DEADLOCK FALSE
