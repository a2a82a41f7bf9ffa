CONSTANTS
  Entries <- MCEntries
  e1 = e1
  e2 = e2
  MAX_SUBMISSIONS = 1
  ATTEMPTS = 2
  MaxCrashes = 1
SPECIFICATION FairSpec
INVARIANTS
  OneHolder
  SavedIsKept
  SettledComesBackExcused
PROPERTIES
  EveryEntryLeaves
