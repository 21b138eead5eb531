CONSTANTS
  Jid = {1, 2, 3}
  Events <- MCEvents
  MaxReads = 2
SPECIFICATION Spec
INVARIANTS TablesOK OneCopy MergeKeeps MarksConverge LastIsNewest ClientsCatchUp
PROPERTY PagesMeet
