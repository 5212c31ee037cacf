CONSTANTS
  Key = {"ann", "bob"}
  NoKey = "none"
  Name <- MCName
  KeyOf <- MCKeyOf
  FirstFiles <- MCFirstFiles
  Score = {0, 3}
  MaxHumans = 2
  MaxMatches = 2
SPECIFICATION RankingSpec
INVARIANTS
  RankingTypeOK
  TotalsMakeSense
PROPERTIES
  RestartsAreWhole
