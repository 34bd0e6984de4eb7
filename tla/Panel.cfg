CONSTANTS
  None = None
  Controllers <- SomeControllers
  Lists <- SomeLists
  MaxPopups = 3
  MaxMessages = 2
  Period = 1
SPECIFICATION Spec
INVARIANTS
  PopupsAgree
  AgesAreFresh
  PanelMatchesPopup
  ShowsTheReport
  SignalsMatchGetters
