SPECIFICATION Spec
CONSTANTS
  NumTables = 2
  MaxVersion = 3
  MaxJournal = 3
INVARIANTS TypeOK CommittedSurvives RecoveryExact
