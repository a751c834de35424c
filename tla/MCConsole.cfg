SPECIFICATION MCSpec
VIEW Live
CONSTANTS
  Readers = {r1}
  Writers = {w1, w2}
  Letters = {"x"}
  Bytes = {b1, b2}
  INPUT_BUF_SIZE = 2
  UART_TX_BUF_SIZE = 2
  UINT = 4
  UINT64 = 4
  MaxRead = 2
  Handler = Handler
  None = None
INVARIANTS
  SleepersMustWait
PROPERTIES
  ImplementsLineInput
  ImplementsTxFifo
  OutputMoves
