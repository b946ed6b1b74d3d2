SPECIFICATION Spec
CONSTANTS
  c1 = c1
  c2 = c2
  None = None
  Loading = Loading
  Kept = Kept
  Mailboxes <- Boxes
  First <- MailA
  Messages <- Mails
  Queries <- Searches
  Everything = "all"
  Labels <- Marks
  LabelOf <- OfA
  Tagged <- Pairs
  Home <- HomeOf
  Hits <- Matching
  Calls <- TwoCalls
  PageSize = 1
  ChunkSize = 1
  MaxClicks = 4
  MaxChanges = 3
  MaxRuns = 1
  MaxFaults = 1
SYMMETRY Symmetry
INVARIANTS
  ListIsOfView
  DetailIsSelected
  ReportedIsDone
  OneMessagePerDialog
  DraftsAreScoped
PROPERTIES
  DraftKept
CHECK_DEADLOCK FALSE
