SPECIFICATION FairAccountSpec
CONSTANTS
  Null = Null
  ToolName = {"bash", "view"}
  Shell = "bash"
  RawSlack = 2
  MaxAsks = 2
  MaxRemarks = 2
  Requests <- MCRequests
  SourcePath <- MCSourcePath
  Path = {"src", "judge", "odd"}
  Undecidable = {"odd"}
  MaxWrites = 1
INVARIANTS AccountIsTrue OnlyVerifiedLeaves
PROPERTIES CancelledReports
CHECK_DEADLOCK FALSE
