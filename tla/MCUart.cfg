SPECIFICATION FairUartSpec
CONSTANTS
    Byte = {1, 2}
    UART_FIFO_SIZE = 3
    MaxTyped = 5
INVARIANT UartTypeOK
PROPERTIES
    RefinesSerialLine
    ThreNotLost
    InputMoves
