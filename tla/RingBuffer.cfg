SPECIFICATION FairSpec
CONSTANTS
  Capacity = 8
  HeaderSize = 2
  Base = 3
  Modulus = 16
  MaxRead = 5
  Messages <- MCMessages
INVARIANTS NoRace
PROPERTIES ImplementsQueue DrainsWhenQuiet
CHECK_DEADLOCK FALSE
