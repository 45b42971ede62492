SPECIFICATION ShuffleSpec
CONSTANTS
  Proc <- MCProc
  Contexts <- MCContexts
  Programs <- MCPrograms
  Unset = Unset
  SerializableTypes = {"MoleculeLJ", "Particle"}
  FixedSizeTypes = {"MoleculeLJ"}
  repetitions = 2
  cyclic_block = 4
INVARIANTS
  BufferIsPermutation MessagesFit AwaitedAreSent Shuffled ExtentsFit StatusTellsData
PROPERTIES
  NoOverwrite
