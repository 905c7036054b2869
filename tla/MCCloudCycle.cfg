\* Four files, one that crashes the decoder, one read or given up by chance.
SPECIFICATION FairSpec
CONSTANTS
  NSources = 4
  Broken = {1}
  Erratic = {2}
  Window = 3
  MaxItems = 2
  ReceiptLimit = 2
  Reply <- Anything
  NFiles = 2
  NoTx = NoTx
  MaxStops = 2
INVARIANTS LeavesSettled AppliedOnce LotsDisjoint
PROPERTIES SourcesRead LotsSettled
