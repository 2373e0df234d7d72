SPECIFICATION LogSpec
CONSTANTS
  Logs = {"akispace", "akispace-agent"}
  MaxBufferLines = 2
  MaxLines = 4
PROPERTY
  LinesReachFile
