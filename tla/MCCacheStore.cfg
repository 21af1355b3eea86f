SPECIFICATION FairSpec
CONSTANTS
  k1 = k1
  k2 = k2
  g1 = g1
  g2 = g2
  None = None
  Keys = {k1, k2}
  Guests = {g1, g2}
  Pieces = 2
  Saves <- TheSaves
  BlockIDs <- AllBlockIDs
  BlockID <- TheBlockIDs
  Bytes <- TheBytes
  Size <- TheSizes
  RestoreKeys <- TheRestoreKeys
  Behind <- TheClocks
  Faults = {"crash", "cut", "tornReserve", "tornEvict"}
  MaxFaults = 1
  MaxLate = 1
INVARIANT ArchiveIsWhole
PROPERTY ContractSpec
PROPERTY PublishesOwnUpload
PROPERTY KeyComesBack
