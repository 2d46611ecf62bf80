-------------------------------- MODULE Uart --------------------------------
(***************************************************************************)
(* The 16550-style UART: src/src/devices/uart.c.  The main loop polls the  *)
(* host (uart_handle_host_input), the guest reads and writes registers     *)
(* (bus.c forwards 8-bit accesses).  The ring buffer of received bytes is  *)
(* modelled as it is, DLAB, IER and the THRE latch too; registers that     *)
(* only hold what was written (dll, dlm, mcr, scr, the rest of lcr and     *)
(* fcr) are left out, and so are tx_fifo, tx_head, tx_tail and tx_count,   *)
(* which nothing ever changes from 0.                                      *)
(***************************************************************************)
EXTENDS Integers, Sequences

CONSTANTS Byte,             \* what can be typed on the host
          UART_FIFO_SIZE,   \* 16 in the code
          MaxTyped          \* bound: bytes typed in one behaviour

ASSUME UartAssumption == /\ UART_FIFO_SIZE \in Nat \ {0}
                         /\ MaxTyped \in Nat

VARIABLES uart,    \* uart_t
          iir,     \* what the last read of IIR returned
          stdin,   \* typed on the host, not yet read
          gone     \* history: taken out of the FIFO, in order

uartVars == <<uart, iir, stdin, gone>>

\* The bits of ier that are used.
UART_IER_RX_AVAILABLE == 0
UART_IER_THR_EMPTY    == 1
Ier == SUBSET {UART_IER_RX_AVAILABLE, UART_IER_THR_EMPTY}

NoByte == 0    \* memory of a fresh uart_t
Index  == 0..(UART_FIFO_SIZE - 1)

UartType == [rx_fifo  : [Index -> Byte \cup {NoByte}],
             rx_head  : Index,
             rx_tail  : Index,
             rx_count : 0..UART_FIFO_SIZE,
             thre_pending : BOOLEAN,
             ier  : Ier,
             dlab : BOOLEAN]

---------------------------------------------------------------------------

uart_init == [rx_fifo  |-> [i \in Index |-> NoByte],
              rx_head  |-> 0,
              rx_tail  |-> 0,
              rx_count |-> 0,
              thre_pending |-> FALSE,
              ier  |-> {},
              dlab |-> FALSE]

\* The bytes in the FIFO, oldest first.
Contents(u) ==
    [i \in 1..u.rx_count |-> u.rx_fifo[(u.rx_tail + i - 1) % UART_FIFO_SIZE]]

\* The host types a byte.
HostTypes(b) == /\ Len(stdin) + uart.rx_count + Len(gone) < MaxTyped
                /\ stdin' = Append(stdin, b)
                /\ UNCHANGED <<uart, iir, gone>>

\* Mutant: the full FIFO is not checked.
InputIntoFullFifo ==
    /\ stdin # <<>>
    /\ uart' = [uart EXCEPT !.rx_fifo[uart.rx_head] = Head(stdin),
                            !.rx_head = (@ + 1) % UART_FIFO_SIZE,
                            !.rx_count = @ + 1]
    /\ stdin' = Tail(stdin)
    /\ UNCHANGED <<iir, gone>>

\* Mutant: the FIFO counts as full one byte early.
InputStopsEarly ==
    /\ uart.rx_count # UART_FIFO_SIZE - 1
    /\ stdin # <<>>
    /\ uart' = [uart EXCEPT !.rx_fifo[uart.rx_head] = Head(stdin),
                            !.rx_head = (@ + 1) % UART_FIFO_SIZE,
                            !.rx_count = @ + 1]
    /\ stdin' = Tail(stdin)
    /\ UNCHANGED <<iir, gone>>

\* Nothing is read from the host while the FIFO is full or stdin is empty.
uart_handle_host_input ==
    /\ uart.rx_count # UART_FIFO_SIZE
    /\ stdin # <<>>
    /\ uart' = [uart EXCEPT !.rx_fifo[uart.rx_head] = Head(stdin),
                            !.rx_head = (@ + 1) % UART_FIFO_SIZE,
                            !.rx_count = @ + 1]
    /\ stdin' = Tail(stdin)
    /\ UNCHANGED <<iir, gone>>

---------------------------------------------------------------------------
(* uart_read8 *)

\* Offset 0: the divisor latch if DLAB is set, else the receive buffer.
ReadData ==
    /\ ~uart.dlab
    /\ uart.rx_count # 0
    /\ gone' = Append(gone, uart.rx_fifo[uart.rx_tail])
    /\ uart' = [uart EXCEPT !.rx_tail = (@ + 1) % UART_FIFO_SIZE,
                            !.rx_count = @ - 1]
    /\ UNCHANGED <<iir, stdin>>

\* Mutant: any read of IIR clears the THRE latch.
AnyReadClearsThre ==
    LET rx  == UART_IER_RX_AVAILABLE \in uart.ier /\ uart.rx_count > 0
        thr == ~rx /\ UART_IER_THR_EMPTY \in uart.ier /\ uart.thre_pending
    IN  /\ iir' = CASE rx -> "rx" [] thr -> "thr" [] OTHER -> "none"
        /\ uart' = [uart EXCEPT !.thre_pending = FALSE]
        /\ UNCHANGED <<stdin, gone>>

\* Received data is reported before THRE, and only a report of THRE clears
\* the latch.
ReadIIR ==
    LET rx  == UART_IER_RX_AVAILABLE \in uart.ier /\ uart.rx_count > 0
        thr == ~rx /\ UART_IER_THR_EMPTY \in uart.ier /\ uart.thre_pending
    IN  /\ iir' = CASE rx -> "rx" [] thr -> "thr" [] OTHER -> "none"
        /\ uart' = [uart EXCEPT !.thre_pending = @ /\ ~thr]
        /\ UNCHANGED <<stdin, gone>>

---------------------------------------------------------------------------
(* uart_write8 *)

\* Offset 0 without DLAB: the byte is printed at once, so the transmit
\* holding register is empty again.
WriteTHR ==
    /\ ~uart.dlab
    /\ uart' = [uart EXCEPT !.thre_pending = TRUE]
    /\ UNCHANGED <<iir, stdin, gone>>

\* Offset 1 without DLAB.
WriteIER(value) ==
    /\ ~uart.dlab
    /\ LET kept == uart.thre_pending /\ UART_IER_THR_EMPTY \in value
           edge == UART_IER_THR_EMPTY \in value \ uart.ier
       IN  uart' = [uart EXCEPT !.ier = value, !.thre_pending = kept \/ edge]
    /\ UNCHANGED <<iir, stdin, gone>>

\* Mutant: rx_count survives the clear.
ClearRxKeepsCount ==
    /\ uart' = [uart EXCEPT !.rx_head = 0, !.rx_tail = 0]
    /\ gone' = gone \o Contents(uart)
    /\ UNCHANGED <<iir, stdin>>

\* FCR with the clear-receive bit.
ClearRx ==
    /\ uart' = [uart EXCEPT !.rx_head = 0, !.rx_tail = 0, !.rx_count = 0]
    /\ gone' = gone \o Contents(uart)
    /\ UNCHANGED <<iir, stdin>>

WriteLCR(dlab) ==
    /\ uart' = [uart EXCEPT !.dlab = dlab]
    /\ UNCHANGED <<iir, stdin, gone>>

---------------------------------------------------------------------------

Guest == \/ ReadData \/ ReadIIR \/ WriteTHR \/ ClearRx
         \/ \E value \in Ier : WriteIER(value)
         \/ \E dlab \in BOOLEAN : WriteLCR(dlab)

UartInit == uart = uart_init /\ iir = "none" /\ stdin = <<>> /\ gone = <<>>

UartNext == (\E b \in Byte : HostTypes(b)) \/ uart_handle_host_input \/ Guest

UartSpec == UartInit /\ [][UartNext]_uartVars

\* The main loop polls the host every 1000 steps, for ever.
FairUartSpec == UartSpec /\ WF_uartVars(uart_handle_host_input)

---------------------------------------------------------------------------
(* Properties.                                                             *)

\* The indices stay inside the ring and agree with the count.
UartTypeOK ==
    /\ uart \in UartType
    /\ iir \in {"none", "rx", "thr"}
    /\ stdin \in Seq(Byte)
    /\ uart.rx_head = (uart.rx_tail + uart.rx_count) % UART_FIFO_SIZE

\* The ring buffer implements the abstract serial line: no byte is lost,
\* repeated or reordered, also when the ring wraps, is full or is cleared.
Line == INSTANCE SerialLine WITH Capacity <- UART_FIFO_SIZE, queue <- Contents(uart)
RefinesSerialLine == Line!LineSpec

\* A pending THRE is withdrawn only by reporting it or by disabling it.
ThreWithdrawn ==
    uart.thre_pending /\ ~uart'.thre_pending =>
        iir' = "thr" \/ UART_IER_THR_EMPTY \notin uart'.ier
ThreNotLost == [][ThreWithdrawn]_uartVars

\* If the FIFO has room again and again, every byte typed leaves the host.
InputMoves ==
    []<>(uart.rx_count < UART_FIFO_SIZE) => []<>(stdin = <<>>)
=============================================================================
