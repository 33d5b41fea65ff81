SPECIFICATION AmlSpec
CONSTANTS
  Firmwares <- MCFirmwares
  MAX_BATTERIES = 3
  MAX_EC_FIELDS = 2
  INT_RANGE = 256
  UINT_RANGE = 64
  MAX_ELEMENTS = 5
INVARIANT FieldsKnown
CHECK_DEADLOCK FALSE
