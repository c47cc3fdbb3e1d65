SPECIFICATION Spec
CONSTANTS
  window = window
  panel = panel
  banner = banner
  loose = loose
  Widgets <- MCWidgets
  Owners <- MCOwners
  Banners = {banner, loose}
  Roots = {panel}
  MainWindows = {window}
  MaxLoads = 2
  CallsFail = FALSE
PROPERTIES
  FailedStartUnloads
CHECK_DEADLOCK FALSE
