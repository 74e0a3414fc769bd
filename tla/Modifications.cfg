SPECIFICATION Spec
CONSTANTS
  ann = ann
  joe = joe
  Users = {ann, joe}
  adPhonebook = {joe}
  phonebookUsers = {ann}
  Texts <- MCTexts
  Null = Null
  TextAsId <- MCTextAsId
  Containing <- MCContaining
  Starting <- MCStarting
  Digit = {"2"}
  Centralized <- MCCentralized
  Modifications <- AllModifications
  Imports <- MCImports
  s1 = s1
  s2 = s2
  Slots = {s1, s2}
  MaxId = 2
  None = None
SYMMETRY MCSymmetry
PROPERTY ModifyIsAsDocumented
CHECK_DEADLOCK FALSE
