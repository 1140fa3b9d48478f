SPECIFICATION FairSpec
CONSTANTS
  Unresolved = Unresolved
  InboxNames = {"INBOX", "Inbox", "inbox", "inBox"}
  FolderNames = {"Folders/Work", "Folders/Old"}
  RootNames = {"INBOX", "Inbox", "inbox", "inBox", "Archive", "All Mail"}
  AggregateNames = {"All Mail"}
  Source = "Folders/Work"
  Requests <- MCRequests
  Listings <- MCListings
  N = 2
PROPERTY
  HonoursContract
