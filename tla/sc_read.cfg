SPECIFICATION Spec
CONSTANTS
  Words = {"x", "y"}
  UsedKeys = {"_port1", "_send_buffer_size1", "_database_name"}
  MaxLines = 3
  MaxWords = 2
  MaxTokens = 13
CHECK_DEADLOCK FALSE
INVARIANTS
  LastLineWins
