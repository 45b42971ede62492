SPECIFICATION GeneralSpec
CONSTANTS
  Processes = {0, 1}
  Mappings <- HolesMappings
INVARIANTS
  HolesAreCaught
