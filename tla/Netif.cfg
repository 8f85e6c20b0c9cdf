SPECIFICATION Spec
CONSTANTS
  Ip = {0, 1, 2}
  NoIp = 0
  Net = {0, 1, 2}
  NoNet = 0
  Config <- Configs
  NtpLists <- Lists
  AnyOrder = FALSE
  NULL = NULL
INVARIANTS
  TypeOK
  
  IpAgrees
  BlobSetsBoth
  StartedRuns
PROPERTIES
  ClientTellsBlob
