\* With three entries to a block and three blocks, a directory of two names needs
\* a second block and the last block runs out; three inodes run out too.  Process
\* 1 is the superuser; the mode of inode 2, and only its, may refuse process 2.
\* The texts of /proc have one or two bytes and are read byte by byte.
SPECIFICATION ProcSpec
CONSTANTS
  NInodes = 3
  NBlocks = 3
  BlockEntries = 3
  Paths <- MCPaths
  NewPaths <- MCNewPaths
  MayDeny = {2}
  Devs = {0}
  Proc = {1, 2}
  MaxText = 2
  MaxCount = 1
  Super = {1}
INVARIANTS
  LinkCountsExact
  RefsExact
  NamespaceIsTree
  LoneReaderSeesOneText
\* free_block panics after a failed mkdir.
CHECK_DEADLOCK FALSE
