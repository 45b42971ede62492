SPECIFICATION ShuffleSpec
CONSTANTS
  Proc <- MCProc
  Contexts <- ManyBlocksContexts
  Programs <- ManyBlocksPrograms
  Unset = Unset
  SerializableTypes = {"MoleculeLJ", "Particle"}
  FixedSizeTypes = {"MoleculeLJ"}
  repetitions = 2
  cyclic_block = 4
INVARIANTS
  Shuffled
