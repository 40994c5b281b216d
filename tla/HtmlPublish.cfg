CONSTANTS
  Names = {"index.html", "design.html", "api/index.html"}
  Index = "index.html"
  Api = {"api/index.html"}
  MaxEdits = 2
  MaxFaults = 2
SPECIFICATION FairSpec
INVARIANTS
  OnlyCheckedFiles
  UpToDateIsWhole
PROPERTIES
  ReplacedWhole
  Converges
CHECK_DEADLOCK FALSE
