SPECIFICATION Spec
CONSTANTS
  BitLeds = {"micmute"}
  ByteLeds = {"usb_backlight"}
  Triggered = {"micmute"}
  Brightness = {0, 300}
  Requests <- MCRequests
  PlMin = 8
  PlMax <- MCPlMax
  Firmware <- MCFirmware
  None = None
INVARIANT TypeOK
INVARIANT SettingsShowAsStored
INVARIANT LedsSettle
