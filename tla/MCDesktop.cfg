CONSTANTS
  Width = 4
  Height = 2
  TitleH = 1
  CloseBox <- MCCloseBox
  LoginButton <- MCLoginButton
  Terminal <- MCTerminal
  Files <- MCFiles
  Settings <- MCSettings
  Dock <- MCDock
  MaxWindows = 3
  Password <- MCPassword
  PassMax = 3
  Printable = {"n", "a"}
  Other = {"tab"}
  MaxKeys = 5
  Beyond = 1
SPECIFICATION Spec
INVARIANTS TypeOK ClickHitsSeen OneActive DragFollows
PROPERTIES OnlyDraggedMoves ClosedBySight PasswordOpens
