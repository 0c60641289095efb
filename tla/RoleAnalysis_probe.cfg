CONSTANTS
  Controls = {
    {"WRITE_ENABLE"},
    {"ENABLE", "WRITE_MODE"},
    {"ENABLE", "WRITE_ENABLE"},
    {"READ_ENABLE", "WRITE_ENABLE"},
    {"ENABLE", "WRITE_MASK"},
    {"ENABLE", "WRITE_MODE", "WRITE_MASK"},
    {"ENABLE", "WRITE_ENABLE", "WRITE_MASK"},
    {"WRITE_ENABLE", "BYTE_ENABLE_SIGNAL"},
    {"ENABLE", "WRITE_MODE", "BYTE_ENABLE_SIGNAL"},
    {"ENABLE", "BYTE_ENABLE_SIGNAL"}}
  DataWidths = {1, 8, 16, 32}
  AddressWidths = {2, 4, 8}
  Styles = {"zero", "hold", "through"}
SPECIFICATION Spec
INVARIANTS TypeOK WidePortsTold TrueRolesPass NoAccessMissed PlainMemoriesRecognised PassedOver
CHECK_DEADLOCK FALSE
