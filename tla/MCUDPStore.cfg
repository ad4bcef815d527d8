\* Two clients, three commands between them and one fault.
SPECIFICATION FairSpec
CONSTANTS
  Clients = {c1, c2}
  a = a  b = b
  Names = {a, b}
  bye = bye  long = long  empty = empty
  Contents = {bye, long, empty}
  Uploads = {long, empty}
  WordsOf <- MCWordsOf
  Cut <- MCCut
  NoWord = NoWord
  Garbage = Garbage
  Absent = Absent
  Safe = Safe
  Stored <- MCStored
  Unwritable = {}
  MaxShown = 1
  MaxCommands = 3
  MaxFaults = 1
INVARIANTS
  TypeOK
  StoreIsMine
  AnswersMatch
  EndsOnExit
PROPERTIES
  Answered
CHECK_DEADLOCK FALSE
