\* Two stocks per push: five prices and ten levels of price and volume each.
CONSTANTS
  Symbols = {sh}
  QueueCap = 1
  MaxNet = 1
  MaxBatch = 2
  RecordLen = 110
SPECIFICATION Spec
PROPERTY ActiveStocksDecoded
