CONSTANTS
  bitcoin = bitcoin
  ethereum = ethereum
  unsupported = unsupported
  blank = blank
  amount = amount
  Accounts <- MCAccounts
  Broken = {unsupported}
  Edits = {blank, amount}
  Blank = blank
  Copies = {0, 1, 2}
  MaxLeaked = 1
  Settings <- MCSettings
SPECIFICATION FormFairSpec
INVARIANTS
  StatusFits
  NothingLost
PROPERTIES
  Settles
