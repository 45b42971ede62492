SPECIFICATION GeneralSpec
CONSTANTS
  Processes = {0, 1}
  Mappings <- MCMappings
INVARIANTS
  RefusedOrTiled GridsAreMade KeepsOwners
