SPECIFICATION Spec
CONSTANTS
  Lengths <- MCLengths
  CpuFlags <- MCCpuFlags
  KernelX <- MCKernelX
  KernelY <- MCKernelY
  Ids = {1, 2, 3, 6, 7, 12, 14}
  Searches = {s1}
  MaxCheck = 1
  HashExponent = 0
  HeapSizes = {1, 2, 3, 4, 5}
  PointIds = {1, 2, 3, 4}
  Values = {1, 2, 3, 4}
  MaxDist = 99
  MaxOffered = 6
  TextFiles <- MCTextFiles
  ThreadNums = {1, 2, 3}
  Dimension = 2
  Garbage = "?"
  Blobs <- MCBlobs
  Queries <- MCQueries
  Results <- MCResults
  MajorVersions = {1, 2}
  Alphabet = {"$", "#", ":", "|", "_", "x"}
  MaxQuery = 6
  Served <- MCServed
  Names <- MCNames
  Vectors <- MCVectors
  MaxDistance = 99
  MetaItems <- MCMetaItems
  MaxItems = 4
  BlockSizes = {1, 3}
  Capacity = 4
  FileSaves = {"files"}
  AddDuringSave = FALSE
  Quantizers <- MCQuantizers
  QueryVectors <- MCQueryVectors
  Jobs <- MCJobs
  NoImprovementLimit = 2
  FarDist = 999
  MaxSize = 1000
  ChannelCapacity = 1
  MaxCrashes = 1
  RerunIterates = FALSE
  RecoverFinished = FALSE
INVARIANT KernelsAgree
INVARIANT ContainersExact
INVARIANT LinesRead
INVARIANT MessagesUnderstood
INVARIANT MetadataKept
INVARIANT QuantizedExact
INVARIANT NoneLeftWaiting
INVARIANT AssignedToNearest
INVARIANT OutputsComplete
CHECK_DEADLOCK FALSE
