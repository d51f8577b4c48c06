CONSTANTS
  Writers = {server, command}
  Readers = {query, download}
  Payloads = {old, new}
  MaxFaults = 2
SPECIFICATION Spec
INVARIANTS
  NeverTorn
  ReadersSeeWholeFiles
PROPERTY ImplementsAtomicFile
