SPECIFICATION FairReceiptSpec
CONSTANTS
  a = a  b = b
  Clients <- Pair  Authors <- Two  Limit = 2  Batch = 1  MaxFlight = 3
INVARIANTS ReceiptsAreTrue
PROPERTIES ReceiptsArrive
