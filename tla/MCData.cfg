SPECIFICATION Spec
CONSTANTS
  Browsers = {a, b, c}
  Nobody = nobody
  MaxPeriods = 2
  MaxByte = 2
  WeakModulus = 3
  BlockLength = 2
  MaxFileLength = 4
  Clients = {a, b}
  BlockCount = 2
  Contents = {x, y}
  Zeros = zeros
  Threshold = 50
  MaxEdits = 1
  Threads = {a, b}
  Hosts = {"h1"}
  Directories = {"data", "other"}
  DefaultDirectory = "data"
  MaxKeys = 2
  Requests = {a, b}
  PartCount = 2
  Settings = {"one", "other"}
  MaxUnits = 3
  MaxItems = 2
  MaxTabCommands = 1
  Heights = {24, 255}
  Width = 3
  MaximumHosts = 2
  Probers = {a, b}
  LocalUploads = {a, b}
  LocalChunks = 3
  MaxRepeats = 1
  Downloads = {a, b}
  AtOnce = 1
  MaxPieces = 1
SYMMETRY Symmetry
INVARIANTS
  TypeOK
  SharesAreKeptApart
  FilesArrive
  CredentialsAreSafe
  PoolIsSafe
  StreamsAreTransparent
  CompleteIsComplete
PROPERTIES
  DestinationIsSafe
\* A file that has been scanned, sent or refused leaves nothing to do.
CHECK_DEADLOCK FALSE
