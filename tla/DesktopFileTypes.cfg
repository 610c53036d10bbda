SPECIFICATION Spec
CONSTANTS
  Chars = {"a", "2", "7", "m", "g", "h"}
  BufferSize = 4
  LineSize = 2
  Handler <- MCHandler
  Profiles <- MCProfiles
  NotesSize = 1
  InputSize = 1
  Rows = 3
  Keys = {"a", "2", "7", "m", "g", "h", "space", "enter", "back", "esc",
          "break", "f8", "f9", "f10"}
  Commands <- MCCommands
  Width = 1024
  Height = 768
  Points <- MCPoints
  MaxInputs = 4
PROPERTY LauncherRoutes
CHECK_DEADLOCK FALSE
