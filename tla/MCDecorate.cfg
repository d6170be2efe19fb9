CONSTANTS
  Apps <- Mixed
  Inst <- InstanceOf
  Lists <- Reads
  JobReads <- JobLists
  Named = FALSE
  NoTag = ""
SPECIFICATION Spec
INVARIANTS OnlyTwinsUnsettled TotalsCurrent ReportIsBelieved
PROPERTIES FoundIsKept
