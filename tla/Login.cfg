SPECIFICATION LiveSpec
CONSTANTS
  vkCredentialAttemptLimit = 4
  MaxSolves = 3
  MaxGuesses = 2
INVARIANTS
  OnePromptAfterCancel
PROPERTIES
  ImplementsLogin
  ConversationEnds
