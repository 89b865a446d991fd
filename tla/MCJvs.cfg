SPECIFICATION Spec
CONSTANTS
  Plays <- PlaysValue
  Places <- PlacesValue
  MaxMsgs = 2
  MaxCoins = 1
  MaxFrame = 2
  Autostarts = {TRUE, FALSE}
  CoinAfter = 0
  Period = 2
  Press = 1
  Byte = 16
  AckSize = 32
  Reports = 3
  IdentLen = 5
  FeatureLen = 5
  Width = 4
  Requests <- RequestsValue
INVARIANTS JvsSound GameSeesPlayer
