SPECIFICATION Spec
CONSTANTS
  s1 = s1  s2 = s2  m1 = m1  m2 = m2  f1 = f1  f2 = f2
  Objects = {s1, s2, m1, m2}
  Smart = {m1, m2}
  Imports = {f1, f2}
  Files <- MCFiles
  Program = "server"
  NoFile = "none"
  NoObject = "no object"
  Exports <- MCExports
  Native <- MCNative
  Platforms <- MCPlatforms
  InitialDisk <- MCInitialDisk
  Replacements <- MCReplacements
  Requested <- MCRequested
  Asked <- MCAsked
  Live = 2
  PointerBits = 64
  Entities <- MCEntities
  Contents <- MCContents
  Entity <- MCEntityOf
  SectionOf <- MCSectionOf
  SectionNames <- MCSections
  Wanted <- MCWanted
  Aliases <- MCAliases
  Unseen <- MCUnseen
  Locals <- MCLocals
INVARIANTS
  LoaderReferences
  LoadedAsReported
  ImportKeepsLoaded
  SymbolsAreListed
  LookupMeant
SYMMETRY MCSymmetry
CHECK_DEADLOCK FALSE
