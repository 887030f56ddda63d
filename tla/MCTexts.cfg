SPECIFICATION Spec
CONSTANTS
  Alphabet <- MCAlphabet
  MaxLen <- MCMaxLen
  HashLen = 2
INVARIANTS
  TagIsSemver
  NothingToEscape
  OneDirectoryPerHash
