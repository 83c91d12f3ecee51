SPECIFICATION Spec
CONSTANTS
  MaxGen = 3
  Foreign = {1}
  Requirements = {{}, {"usb"}, {"hid"}, {"usb", "ccid", "pcsc"}}
  WaitsForReader = TRUE
INVARIANTS
  TypeOK
  OwnDeviceAndReader
  ReadyAsDemanded
  RestartClean
