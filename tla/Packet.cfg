\* One connection lost while two threads encode three packets each.
SPECIFICATION Spec
CONSTANTS
  Emitters = {"parts", "texts"}
  Sendable <- SendableOnce
  MaxLosses = 1
  NoMessage <- Null
  AcceptMessage <- accept_root
  FromJson <- from_json
INVARIANTS
  TypeOK
  DecodedWasEmitted
  DecodedInOrder
  NothingMissing
