SPECIFICATION DatabaseSpec
CONSTANTS
  Recording = {rec1, rec2}
  Revision = {r1, r2, r3}
  c1 = c1
  c2 = c2
  Call <- MCProgram
  Program <- MCProgram
  Namespace = {"core", "phonetics"}
  Label = {"0.1", "0.2"}
  Content = {"words", "ipa", "ipa with tones"}
  Installed <- MCInstalled
  NoRevision = NoRevision
  NoVersion = NoVersion
INVARIANTS
  NumberedChain
  OkIsStored
  RequiredIsPublished
  LibraryRefusalIsGenuine
PROPERTIES
  ConcurrentIsJustified
  ImplementsHistory
  CallReturns
