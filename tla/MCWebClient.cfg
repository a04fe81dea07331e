SPECIFICATION Spec
CONSTANTS
  file1 = file1
  file2 = file2
  ana = ana
  eva = eva
  Nobody = Nobody
  NoFile = NoFile
  Files <- MCFiles
  NumChunks <- MCNumChunks
  Users <- MCUsers
  Members <- MCMembers
  MaxDeletes = 2
  MaxFlows = 3
  MaxClicks = 3
  MaxReports = 1
SYMMETRY Alike
INVARIANTS
  TypeOK
  ActsForTheDisplayed
  RestingPageIsTrue
  SpinnersHaveFlows
\* When the user has done all he will, and the flows are over, nothing is left to do.
CHECK_DEADLOCK FALSE
