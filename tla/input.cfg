SPECIFICATION Spec
CONSTANTS
  vi_dev_count = 2
  VI_QNUM = 2
  KEVENT_Q_CAP = 3
  Payload <- MCPayload
  MaxSeq = 4
  INPUT_Q_SIZE = 4
  PollMax = 2
  SHELL_MAX_LINE = 3
  KeyEvent <- MCKeyEvent
  Console <- MCConsole
  None = None
  MaxTyped = 3
  MaxMoves = 1
INVARIANTS NoForgottenEvent KeysArriveInOrder LossKeepsOrder
PROPERTIES ImplementsQueue BurstIsConsumed
