SPECIFICATION Spec
CONSTANTS
  laptop = laptop
  guest = guest
  Device <- MCDevice
  Passphrase <- MCPassphrase
  RecordKey <- MCRecordKey
  a = a
  b = b
  Text = {a, b}
  Version = {1, 2}
  NoBlob = NoBlob
  Garbage = Garbage
  MaxPuts = 3
SYMMETRY Symmetry
INVARIANTS AnswersStayTrue ReadsAreWrites ListIsWhatWasAccepted
PROPERTY ImplementsRegister
