CONSTANTS
  None = None
  Name = "web"
  Literals <- MCLiterals
  Templates <- MCTemplates
  Firmware = {"", "ovmf"}
  First <- MCFirst
  MaxEdits = 2
SPECIFICATION Spec
CHECK_DEADLOCK FALSE
PROPERTIES
  TakenStays
  Settled
