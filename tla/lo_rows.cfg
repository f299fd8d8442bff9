\* The scheduler, the host, and two requests of the Box at a time.
SPECIFICATION FairSpec
CONSTANTS
  ticker = ticker
  host = host
  box1 = box1
  box2 = box2
  Tickers = {ticker}
  Hosts = {host}
  Boxes = {box1, box2}
INVARIANTS OnlyAcksCrossTheOrder CommandAgrees
PROPERTIES EverybodyReturns
