SPECIFICATION Spec
CONSTANTS
  MaxProviders = 3
  MaxRecords = 4
INVARIANTS TypeOK TableIsConfirmed PreviewFromFirst AnswerIsHeard DeletedWhenReplaced
CHECK_DEADLOCK FALSE
