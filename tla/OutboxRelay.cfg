\* Two fair relays over two rows.
SPECIFICATION FairSpec
CONSTANTS
  Rows = {1, 2}
  Relays = {a, b}
INVARIANTS
  OutboxInv
  NothingLostOrInvented
  NoDuplicateWithoutFault
PROPERTIES
  EveryRowPublished
