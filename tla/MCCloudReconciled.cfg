\* One cycle that stops on an uncertain write.
SPECIFICATION FairSpec
CONSTANTS
  NSources = 1
  Broken = {}
  Erratic = {}
  Window = 3
  MaxItems = 2
  ReceiptLimit = 2
  Reply <- Accepted
  NFiles = 2
  NoTx = NoTx
  MaxStops = 1
PROPERTY Reconciled
