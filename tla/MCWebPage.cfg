CONSTANTS
  flash_messages = "flash_messages"
  validator_report = "validator_report"
  library_select_div = "library_select_div"
  Elem <- Elements
  Shown = {"validator_report", "library_select_div"}
  Array = {1, 2, 3, 4, 5, 6}
  Request = {1, 2, 3, 4, 5, 6}
  Accordion <- TwoAccordions
  Library = {"l1"}
  MaxCalls = 2
SPECIFICATION Spec
INVARIANTS
  TypeOK
  NoStall
  ActiveCount
PROPERTIES
  Settles
