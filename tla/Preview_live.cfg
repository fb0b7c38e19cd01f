SPECIFICATION FairSpec
CONSTANTS
  Words <- MCWords
  Budgets <- MCBudgets
INVARIANTS
  TypeOK
  PreviewIsReplaced
  PreviewIsCurrent
PROPERTIES
  PromptKept
  SuppressionEnds
