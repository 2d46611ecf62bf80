SPECIFICATION Spec
CONSTANTS
  ByteBits = 1
  RAM_BASE = 16
  RAM_SIZE = 16
  UART_BASE = 4
  UART_SIZE = 2
  TIMER_BASE = 8
  TIMER_SIZE = 6
  DeviceWords = {0, 9, 255}
  Cases <- MCCases
PROPERTY SrawCorrect
CHECK_DEADLOCK FALSE
