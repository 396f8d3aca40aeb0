SPECIFICATION Spec
CONSTANTS
  TransactionCash <- MCTransactionCash
  Importable <- MCImportable
  Journals <- MCJournals
  Histories <- MCHistories
  Gross = {110}
  Fees = {0, 7}
  MaxJournal = 2
  MaxExecutions = 6
INVARIANTS
  CashIsExplained
  ImportedOnce
  CorrectedOnce
  DoublePostingIsRefused
CHECK_DEADLOCK FALSE
