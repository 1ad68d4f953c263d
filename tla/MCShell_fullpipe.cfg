SPECIFICATION FairSpec
CONSTANTS
  Cap = 2
  MaxPipes = 3
  Names = {"f", "locked"}
  Unopenable = {"locked"}
  NoFile = NoFile
  Lines <- FullPipe
PROPERTIES LineReturns
CHECK_DEADLOCK FALSE
