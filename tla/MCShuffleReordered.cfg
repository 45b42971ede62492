SPECIFICATION ShuffleSpec
CONSTANTS
  Proc <- MCProc
  Contexts <- ReorderedContexts
  Programs <- ReorderedPrograms
  Unset = Unset
  SerializableTypes = {"MoleculeLJ", "Particle"}
  FixedSizeTypes = {"MoleculeLJ"}
  repetitions = 2
  cyclic_block = 4
INVARIANTS
  Shuffled
