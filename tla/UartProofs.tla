----------------------------- MODULE UartProofs -----------------------------
(***************************************************************************)
(* Proofs about module Uart, for every FIFO size and every set of bytes:   *)
(* the ring buffer of uart.c is a queue, so the device implements the      *)
(* serial line, and the THRE latch is not lost.                            *)
(***************************************************************************)
EXTENDS Uart, SequenceTheorems, TLAPS

\* What a slot of the ring can hold.
Slot == Byte \cup {NoByte}

\* The registers apart from the ring changed at most.
SameRing(u, v) ==
    /\ v.rx_fifo = u.rx_fifo /\ v.rx_head = u.rx_head
    /\ v.rx_tail = u.rx_tail /\ v.rx_count = u.rx_count

---------------------------------------------------------------------------
(* Arithmetic of the ring.                                                 *)

\* An index that runs past the end of the ring at most once.
LEMMA RingIndex ==
    ASSUME NEW x \in 0..(2 * UART_FIFO_SIZE - 1)
    PROVE  /\ x % UART_FIFO_SIZE \in Index
           /\ x % UART_FIFO_SIZE
                = IF x < UART_FIFO_SIZE THEN x ELSE x - UART_FIFO_SIZE
<1>1. UART_FIFO_SIZE \in Nat /\ UART_FIFO_SIZE > 0 /\ x \in Nat
  BY UartAssumption
<1>2. CASE x < UART_FIFO_SIZE
  BY <1>1, <1>2 DEF Index
<1>3. CASE x >= UART_FIFO_SIZE
  <2>1. x - UART_FIFO_SIZE \in 0..(UART_FIFO_SIZE - 1)
    BY <1>1, <1>3
  <2>2. x % UART_FIFO_SIZE = x - UART_FIFO_SIZE
    BY <1>1, <2>1
  <2> QED
    BY <1>1, <1>3, <2>1, <2>2 DEF Index
<1> QED
  BY <1>1, <1>2, <1>3

\* The indices of a well-formed ring, and what a step does to them.
LEMMA RingStep ==
    ASSUME NEW tail \in Index, NEW count \in 0..UART_FIFO_SIZE
    PROVE  /\ (tail + count) % UART_FIFO_SIZE \in Index
           /\ (tail + 1) % UART_FIFO_SIZE \in Index
           /\ (((tail + count) % UART_FIFO_SIZE) + 1) % UART_FIFO_SIZE
                = (tail + (count + 1)) % UART_FIFO_SIZE
           /\ count # 0 =>
                (((tail + 1) % UART_FIFO_SIZE) + (count - 1)) % UART_FIFO_SIZE
                  = (tail + count) % UART_FIFO_SIZE
<1> DEFINE N == UART_FIFO_SIZE
<1>1. N \in Nat /\ N > 0 /\ tail \in 0..(N - 1) /\ count \in 0..N
  BY UartAssumption DEF Index
<1> HIDE DEF N
<1> QED
  BY <1>1 DEF Index, N

---------------------------------------------------------------------------
(* UartTypeOK is inductive: the count guards of the two ends of the ring   *)
(* are what keeps rx_count inside 0..UART_FIFO_SIZE.                       *)

\* The initial state.
LEMMA UartInitType == UartInit => UartTypeOK
<1> SUFFICES ASSUME UartInit
             PROVE  UartTypeOK
  OBVIOUS
<1>1. 0 \in Index /\ 0 \in 0..UART_FIFO_SIZE /\ (0 + 0) % UART_FIFO_SIZE = 0
  BY UartAssumption DEF Index
<1>2. uart_init \in UartType
  BY <1>1 DEF uart_init, UartType, Ier
<1> QED
  BY <1>1, <1>2 DEF UartInit, UartTypeOK, uart_init

\* Every step keeps the ring well formed.
LEMMA UartTypeStep ==
    ASSUME UartTypeOK, [UartNext]_uartVars
    PROVE  UartTypeOK'
<1>0. /\ uart \in UartType /\ stdin \in Seq(Byte)
      /\ uart.rx_head = (uart.rx_tail + uart.rx_count) % UART_FIFO_SIZE
      /\ uart.rx_head \in Index /\ uart.rx_tail \in Index
      /\ uart.rx_count \in 0..UART_FIFO_SIZE
      /\ UART_FIFO_SIZE \in Nat /\ UART_FIFO_SIZE > 0
  BY UartAssumption DEF UartTypeOK, UartType
<1>1. ASSUME NEW b \in Byte, HostTypes(b)
      PROVE  UartTypeOK'
  <2>1. Append(stdin, b) \in Seq(Byte)
    BY <1>0, AppendProperties
  <2> QED
    BY <1>1, <2>1 DEF HostTypes, UartTypeOK
<1>2. CASE uart_handle_host_input
  <2>1. Head(stdin) \in Byte /\ Tail(stdin) \in Seq(Byte)
    BY <1>0, <1>2, HeadTailProperties DEF uart_handle_host_input
  <2>2. /\ (uart.rx_head + 1) % UART_FIFO_SIZE \in Index
        /\ (uart.rx_head + 1) % UART_FIFO_SIZE
             = (uart.rx_tail + (uart.rx_count + 1)) % UART_FIFO_SIZE
        /\ uart.rx_count + 1 \in 0..UART_FIFO_SIZE
    BY <1>0, <1>2, RingStep DEF uart_handle_host_input
  <2>3. /\ uart' \in UartType
        /\ uart'.rx_head = (uart.rx_head + 1) % UART_FIFO_SIZE
        /\ uart'.rx_tail = uart.rx_tail
        /\ uart'.rx_count = uart.rx_count + 1
    BY <1>0, <1>2, <2>1, <2>2 DEF uart_handle_host_input, UartType
  <2> QED
    BY <1>2, <2>1, <2>2, <2>3 DEF uart_handle_host_input, UartTypeOK
<1>3. CASE ReadData
  <2>1. /\ (uart.rx_tail + 1) % UART_FIFO_SIZE \in Index
        /\ uart.rx_head = (((uart.rx_tail + 1) % UART_FIFO_SIZE) + (uart.rx_count - 1))
                            % UART_FIFO_SIZE
        /\ uart.rx_count - 1 \in 0..UART_FIFO_SIZE
    BY <1>0, <1>3, RingStep DEF ReadData
  <2>2. /\ uart' \in UartType
        /\ uart'.rx_head = uart.rx_head
        /\ uart'.rx_tail = (uart.rx_tail + 1) % UART_FIFO_SIZE
        /\ uart'.rx_count = uart.rx_count - 1
    BY <1>0, <1>3, <2>1 DEF ReadData, UartType
  <2> QED
    BY <1>3, <2>1, <2>2 DEF ReadData, UartTypeOK
<1>4. CASE ClearRx
  <2>1. 0 \in Index /\ 0 \in 0..UART_FIFO_SIZE /\ (0 + 0) % UART_FIFO_SIZE = 0
    BY <1>0 DEF Index
  <2>2. uart' \in UartType /\ uart'.rx_head = 0 /\ uart'.rx_tail = 0 /\ uart'.rx_count = 0
    BY <1>0, <1>4, <2>1 DEF ClearRx, UartType
  <2> QED
    BY <1>4, <2>1, <2>2 DEF ClearRx, UartTypeOK
<1>5. CASE ReadIIR
  <2>1. PICK thre \in BOOLEAN : uart' = [uart EXCEPT !.thre_pending = thre]
    BY <1>0, <1>5 DEF ReadIIR, UartType
  <2>2. SameRing(uart, uart') /\ uart' \in UartType
    BY <1>0, <2>1 DEF SameRing, UartType
  <2>3. iir' \in {"none", "rx", "thr"} /\ stdin' = stdin
    BY <1>5 DEF ReadIIR
  <2> QED
    BY <1>0, <2>2, <2>3 DEF UartTypeOK, SameRing
<1>6. ASSUME \/ WriteTHR
             \/ \E value \in Ier : WriteIER(value)
             \/ \E dlab \in BOOLEAN : WriteLCR(dlab)
      PROVE  UartTypeOK'
  <2>1. SameRing(uart, uart') /\ uart' \in UartType
    BY <1>0, <1>6 DEF SameRing, UartType, WriteTHR, WriteIER, WriteLCR
  <2>2. iir' = iir /\ stdin' = stdin
    BY <1>6 DEF WriteTHR, WriteIER, WriteLCR
  <2> QED
    BY <1>0, <2>1, <2>2 DEF UartTypeOK, SameRing
<1>7. CASE UNCHANGED uartVars
  BY <1>7 DEF uartVars, UartTypeOK
<1> QED
  BY <1>1, <1>2, <1>3, <1>4, <1>5, <1>6, <1>7 DEF UartNext, Guest

\* The indices of the ring stay inside it and agree with the count, for every
\* FIFO size: rx_count and the two indices cannot drift apart.
THEOREM UartTypeCorrect == UartSpec => []UartTypeOK
BY UartInitType, UartTypeStep, PTL DEF UartSpec

---------------------------------------------------------------------------
(* The ring is a queue.                                                    *)

WellFormedRing(u) ==
    u \in UartType /\ u.rx_head = (u.rx_tail + u.rx_count) % UART_FIFO_SIZE

\* The contents are a sequence of rx_count bytes.
LEMMA ContentsSeq ==
    ASSUME NEW u, WellFormedRing(u)
    PROVE  /\ Contents(u) \in Seq(Slot)
           /\ Len(Contents(u)) = u.rx_count
           /\ \A i \in 1..u.rx_count :
                 Contents(u)[i] = u.rx_fifo[(u.rx_tail + i - 1) % UART_FIFO_SIZE]
<1>1. /\ u.rx_count \in 0..UART_FIFO_SIZE /\ u.rx_tail \in 0..(UART_FIFO_SIZE - 1)
      /\ u.rx_fifo \in [Index -> Slot]
      /\ UART_FIFO_SIZE \in Nat
  BY UartAssumption DEF WellFormedRing, UartType, Index, Slot
<1>2. \A i \in 1..u.rx_count : u.rx_tail + i - 1 \in 0..(2 * UART_FIFO_SIZE - 1)
  BY <1>1
<1>3. \A i \in 1..u.rx_count : u.rx_fifo[(u.rx_tail + i - 1) % UART_FIFO_SIZE] \in Slot
  BY <1>1, <1>2, RingIndex
<1>4. Contents(u) \in [1..u.rx_count -> Slot]
  BY <1>3 DEF Contents
<1>5. Contents(u) \in Seq(Slot)
  BY <1>1, <1>4, SeqDef
<1>6. DOMAIN Contents(u) = 1..u.rx_count /\ DOMAIN Contents(u) = 1..Len(Contents(u))
  BY <1>4, <1>5, LenProperties
<1>7. Len(Contents(u)) \in Nat
  BY <1>5, LenProperties
<1>8. Len(Contents(u)) = u.rx_count
  BY <1>1, <1>6, <1>7
<1> QED
  BY <1>5, <1>8 DEF Contents

\* Storing at rx_head appends, also when the index wraps.
LEMMA ContentsAppend ==
    ASSUME NEW u, WellFormedRing(u), NEW b \in Slot, u.rx_count # UART_FIFO_SIZE,
           NEW v, WellFormedRing(v),
           v.rx_fifo = [u.rx_fifo EXCEPT ![u.rx_head] = b],
           v.rx_tail = u.rx_tail, v.rx_count = u.rx_count + 1
    PROVE  Contents(v) = Append(Contents(u), b)
<1> DEFINE n == u.rx_count
           at(i) == (u.rx_tail + i - 1) % UART_FIFO_SIZE
<1>1. /\ n \in 0..(UART_FIFO_SIZE - 1) /\ u.rx_tail \in 0..(UART_FIFO_SIZE - 1)
      /\ u.rx_fifo \in [Index -> Slot]
      /\ UART_FIFO_SIZE \in Nat /\ UART_FIFO_SIZE > 0
      /\ u.rx_head \in Index
      /\ u.rx_head = (u.rx_tail + n) % UART_FIFO_SIZE
  BY UartAssumption DEF WellFormedRing, UartType, Index, Slot
<1>2. \A i \in 1..n : at(i) \in Index /\ at(i) # u.rx_head
  <2> SUFFICES ASSUME NEW i \in 1..n
               PROVE  at(i) \in Index /\ at(i) # u.rx_head
    OBVIOUS
  <2>1. /\ u.rx_tail + i - 1 \in 0..(2 * UART_FIFO_SIZE - 1)
        /\ u.rx_tail + n \in 0..(2 * UART_FIFO_SIZE - 1)
    BY <1>1
  <2>2. at(i) = IF u.rx_tail + i - 1 < UART_FIFO_SIZE THEN u.rx_tail + i - 1
                ELSE u.rx_tail + i - 1 - UART_FIFO_SIZE
    BY <1>1, <2>1, RingIndex
  <2>3. u.rx_head = IF u.rx_tail + n < UART_FIFO_SIZE THEN u.rx_tail + n
                    ELSE u.rx_tail + n - UART_FIFO_SIZE
    BY <1>1, <2>1, RingIndex
  <2>4. at(i) # u.rx_head
    BY <1>1, <2>2, <2>3
  <2> QED
    BY <2>1, <2>4, RingIndex
<1>3. at(n + 1) = u.rx_head
  BY <1>1
<1> HIDE DEF at
<1>4. /\ Contents(u) \in Seq(Slot) /\ Len(Contents(u)) = n
      /\ \A i \in 1..n : Contents(u)[i] = u.rx_fifo[at(i)]
  BY ContentsSeq DEF at
<1>5. /\ Contents(v) \in Seq(Slot) /\ Len(Contents(v)) = n + 1
      /\ \A i \in 1..(n + 1) : Contents(v)[i] = v.rx_fifo[at(i)]
  <2>1. /\ Contents(v) \in Seq(Slot) /\ Len(Contents(v)) = v.rx_count
        /\ \A i \in 1..v.rx_count :
              Contents(v)[i] = v.rx_fifo[(v.rx_tail + i - 1) % UART_FIFO_SIZE]
    BY ContentsSeq
  <2> QED
    BY <2>1, Zenon DEF at
<1>6. /\ Append(Contents(u), b) \in Seq(Slot)
      /\ Len(Append(Contents(u), b)) = n + 1
      /\ \A i \in 1..n : Append(Contents(u), b)[i] = Contents(u)[i]
      /\ Append(Contents(u), b)[n + 1] = b
  BY <1>4, AppendProperties
<1>7. \A i \in 1..(n + 1) : Contents(v)[i] = Append(Contents(u), b)[i]
  <2>1. v.rx_fifo[at(n + 1)] = b
    BY <1>1, <1>3
  <2>2. \A i \in 1..n : v.rx_fifo[at(i)] = u.rx_fifo[at(i)]
    BY <1>1, <1>2
  <2> QED
    BY <1>1, <1>4, <1>5, <1>6, <2>1, <2>2
<1> QED
  BY <1>5, <1>6, <1>7, SeqEqual

\* Moving rx_tail on takes the oldest byte out.
LEMMA ContentsTail ==
    ASSUME NEW u, WellFormedRing(u), u.rx_count # 0,
           NEW v, WellFormedRing(v),
           v.rx_fifo = u.rx_fifo,
           v.rx_tail = (u.rx_tail + 1) % UART_FIFO_SIZE, v.rx_count = u.rx_count - 1
    PROVE  /\ Contents(u) # <<>>
           /\ Head(Contents(u)) = u.rx_fifo[u.rx_tail]
           /\ Contents(v) = Tail(Contents(u))
<1> DEFINE n == u.rx_count
<1>1. /\ n \in 1..UART_FIFO_SIZE /\ u.rx_tail \in 0..(UART_FIFO_SIZE - 1)
      /\ UART_FIFO_SIZE \in Nat /\ UART_FIFO_SIZE > 0
  BY UartAssumption DEF WellFormedRing, UartType, Index
<1>2. /\ Contents(u) \in Seq(Slot) /\ Len(Contents(u)) = n
      /\ \A i \in 1..n :
            Contents(u)[i] = u.rx_fifo[(u.rx_tail + i - 1) % UART_FIFO_SIZE]
  BY ContentsSeq
<1>3. /\ Contents(v) \in Seq(Slot) /\ Len(Contents(v)) = n - 1
      /\ \A i \in 1..(n - 1) :
            Contents(v)[i] = v.rx_fifo[(v.rx_tail + i - 1) % UART_FIFO_SIZE]
  BY ContentsSeq
<1>4. Contents(u) # <<>>
  BY <1>1, <1>2, EmptySeq
<1>5. /\ Tail(Contents(u)) \in Seq(Slot)
      /\ Len(Tail(Contents(u))) = n - 1
      /\ \A i \in 1..(n - 1) : Tail(Contents(u))[i] = Contents(u)[i + 1]
  BY <1>2, <1>4, HeadTailProperties
<1>6. Head(Contents(u)) = u.rx_fifo[u.rx_tail]
  <2>1. (u.rx_tail + 1 - 1) % UART_FIFO_SIZE = u.rx_tail
    BY <1>1
  <2>2. Head(Contents(u)) = Contents(u)[1]
    BY <1>2, <1>4
  <2>3. Contents(u)[1] = u.rx_fifo[(u.rx_tail + 1 - 1) % UART_FIFO_SIZE]
    BY <1>1, <1>2
  <2> QED
    BY <2>1, <2>2, <2>3
<1>7. \A i \in 1..(n - 1) : Contents(v)[i] = Tail(Contents(u))[i]
  <2> SUFFICES ASSUME NEW i \in 1..(n - 1)
               PROVE  Contents(v)[i] = Tail(Contents(u))[i]
    OBVIOUS
  <2>1. u.rx_tail + i \in 0..(2 * UART_FIFO_SIZE - 1) /\ i \in 1..UART_FIFO_SIZE
    BY <1>1
  <2>2. (v.rx_tail + i - 1) % UART_FIFO_SIZE = (u.rx_tail + (i + 1) - 1) % UART_FIFO_SIZE
    <3>1. (((u.rx_tail + 1) % UART_FIFO_SIZE) + (i - 1)) % UART_FIFO_SIZE
            = (u.rx_tail + i) % UART_FIFO_SIZE
      <4>1. u.rx_tail \in Index /\ i \in 0..UART_FIFO_SIZE /\ i # 0
        BY <1>1, <2>1 DEF Index
      <4> QED
        BY <4>1, RingStep
    <3>2. v.rx_tail \in Int
      BY <1>1
    <3> QED
      BY <1>1, <3>1, <3>2
  <2>3. Contents(v)[i] = u.rx_fifo[(u.rx_tail + (i + 1) - 1) % UART_FIFO_SIZE]
    BY <1>3, <2>2
  <2>4. Contents(u)[i + 1] = u.rx_fifo[(u.rx_tail + (i + 1) - 1) % UART_FIFO_SIZE]
    <3>1. i + 1 \in 1..n
      BY <1>1
    <3> QED
      BY <1>2, <3>1
  <2> QED
    BY <1>5, <2>3, <2>4
<1> QED
  BY <1>3, <1>4, <1>5, <1>6, <1>7, SeqEqual

\* An empty ring has no contents.
LEMMA ContentsEmpty ==
    ASSUME NEW u, WellFormedRing(u), u.rx_count = 0
    PROVE  Contents(u) = <<>>
BY ContentsSeq, EmptySeq

\* What leaves the ring alone leaves its contents alone.
LEMMA ContentsSame ==
    ASSUME NEW u, NEW v, SameRing(u, v)
    PROVE  Contents(v) = Contents(u)
BY DEF SameRing, Contents

---------------------------------------------------------------------------
(* The refinement: the FIFO of the device is the queue of the line.        *)

\* A fresh UART is an empty line.
LEMMA LineInitially == UartInit => Line!LineInit
<1> SUFFICES ASSUME UartInit
             PROVE  Line!LineInit
  OBVIOUS
<1>1. WellFormedRing(uart) /\ uart.rx_count = 0
  BY UartInitType DEF UartInit, UartTypeOK, WellFormedRing, uart_init
<1> QED
  BY <1>1, ContentsEmpty DEF UartInit, Line!LineInit

\* Every step of the device is a step of the line or changes nothing of it.
LEMMA LineStep ==
    ASSUME UartTypeOK, UartTypeOK', [UartNext]_uartVars
    PROVE  [Line!LineNext]_(Line!lineVars)
<1>0. /\ WellFormedRing(uart) /\ WellFormedRing(uart')
      /\ stdin \in Seq(Byte)
      /\ uart.rx_count \in 0..UART_FIFO_SIZE
      /\ UART_FIFO_SIZE \in Nat
  BY UartAssumption DEF UartTypeOK, WellFormedRing, UartType
<1>1. ASSUME NEW b \in Byte, HostTypes(b)
      PROVE  Line!LineNext
  <2>1. Line!Type(b)
    BY <1>1 DEF HostTypes, Line!Type
  <2> QED
    BY <2>1 DEF Line!LineNext
<1>2. CASE uart_handle_host_input
  <2>1. Head(stdin) \in Slot
    BY <1>0, <1>2, HeadTailProperties DEF uart_handle_host_input, Slot
  <2>2. /\ uart'.rx_fifo = [uart.rx_fifo EXCEPT ![uart.rx_head] = Head(stdin)]
        /\ uart'.rx_tail = uart.rx_tail /\ uart'.rx_count = uart.rx_count + 1
    BY <1>0, <1>2 DEF uart_handle_host_input, WellFormedRing, UartType
  <2>3. Contents(uart') = Append(Contents(uart), Head(stdin))
    BY <1>0, <1>2, <2>1, <2>2, ContentsAppend DEF uart_handle_host_input
  <2>4. Len(Contents(uart)) < UART_FIFO_SIZE
    BY <1>0, <1>2, ContentsSeq DEF uart_handle_host_input
  <2>5. Line!Receive
    BY <1>2, <2>3, <2>4 DEF uart_handle_host_input, Line!Receive
  <2> QED
    BY <2>5 DEF Line!LineNext
<1>3. CASE ReadData
  <2>1. /\ uart'.rx_fifo = uart.rx_fifo
        /\ uart'.rx_tail = (uart.rx_tail + 1) % UART_FIFO_SIZE
        /\ uart'.rx_count = uart.rx_count - 1
        /\ uart.rx_count # 0
    BY <1>0, <1>3 DEF ReadData, WellFormedRing, UartType
  <2>2. /\ Contents(uart) # <<>>
        /\ Head(Contents(uart)) = uart.rx_fifo[uart.rx_tail]
        /\ Contents(uart') = Tail(Contents(uart))
    BY <1>0, <2>1, ContentsTail
  <2>3. Line!Deliver
    BY <1>3, <2>2 DEF ReadData, Line!Deliver
  <2> QED
    BY <2>3 DEF Line!LineNext
<1>4. CASE ClearRx
  <2>1. uart'.rx_count = 0
    BY <1>0, <1>4 DEF ClearRx, WellFormedRing, UartType
  <2>2. Contents(uart') = <<>>
    BY <1>0, <2>1, ContentsEmpty
  <2>3. Line!Discard
    BY <1>4, <2>2 DEF ClearRx, Line!Discard
  <2> QED
    BY <2>3 DEF Line!LineNext
<1>5. ASSUME \/ ReadIIR \/ WriteTHR
             \/ \E value \in Ier : WriteIER(value)
             \/ \E dlab \in BOOLEAN : WriteLCR(dlab)
      PROVE  UNCHANGED Line!lineVars
  <2>1. SameRing(uart, uart')
    BY <1>0, <1>5
       DEF SameRing, WellFormedRing, UartType, ReadIIR, WriteTHR, WriteIER, WriteLCR
  <2>2. Contents(uart') = Contents(uart)
    BY <2>1, ContentsSame
  <2>3. stdin' = stdin /\ gone' = gone
    BY <1>5 DEF ReadIIR, WriteTHR, WriteIER, WriteLCR
  <2> QED
    BY <2>2, <2>3 DEF Line!lineVars
<1>6. CASE UNCHANGED uartVars
  BY <1>6 DEF uartVars, Line!lineVars, Contents
<1> QED
  BY <1>1, <1>2, <1>3, <1>4, <1>5, <1>6 DEF UartNext, Guest

\* The UART implements the serial line for every FIFO size: no byte typed on
\* the host is lost, repeated or reordered on its way through the ring buffer,
\* whether the ring wraps, is full or is cleared.
THEOREM UartImplementsSerialLine == UartSpec => RefinesSerialLine
BY LineInitially, LineStep, UartInitType, UartTypeStep, PTL
   DEF UartSpec, RefinesSerialLine, Line!LineSpec

---------------------------------------------------------------------------
(* The THRE latch.                                                         *)

\* Only a reported or a disabled THRE is withdrawn.
LEMMA ThreStep ==
    ASSUME UartTypeOK, [UartNext]_uartVars
    PROVE  [ThreWithdrawn]_uartVars
<1>0. uart \in UartType
  BY DEF UartTypeOK
<1>1. CASE ReadIIR
  <2> DEFINE rx  == UART_IER_RX_AVAILABLE \in uart.ier /\ uart.rx_count > 0
             thr == ~rx /\ UART_IER_THR_EMPTY \in uart.ier /\ uart.thre_pending
  <2>1. /\ iir' = CASE rx -> "rx" [] thr -> "thr" [] OTHER -> "none"
        /\ uart' = [uart EXCEPT !.thre_pending = @ /\ ~thr]
    BY <1>1 DEF ReadIIR
  <2>2. uart'.thre_pending = (uart.thre_pending /\ ~thr)
    BY <1>0, <2>1 DEF UartType
  <2>3. thr => ~rx
    OBVIOUS
  <2> HIDE DEF rx, thr
  <2>4. thr => iir' = "thr"
    BY <2>1, <2>3
  <2> QED
    BY <2>2, <2>4 DEF ThreWithdrawn
<1>2. ASSUME NEW value \in Ier, WriteIER(value)
      PROVE  ThreWithdrawn
  BY <1>0, <1>2 DEF WriteIER, ThreWithdrawn, UartType, Ier
<1>3. ASSUME \/ \E b \in Byte : HostTypes(b)
             \/ uart_handle_host_input \/ ReadData \/ ClearRx \/ WriteTHR
             \/ \E dlab \in BOOLEAN : WriteLCR(dlab)
      PROVE  uart.thre_pending => uart'.thre_pending
  BY <1>0, <1>3
     DEF HostTypes, uart_handle_host_input, ReadData, ClearRx, WriteTHR, WriteLCR, UartType
<1> QED
  BY <1>1, <1>2, <1>3 DEF UartNext, Guest, ThreWithdrawn

\* A transmit interrupt the guest waits for is withdrawn only by reporting it
\* in IIR or by disabling it, whatever else is read or written in between.
THEOREM ThreIsNotLost == UartSpec => ThreNotLost
BY ThreStep, UartInitType, UartTypeStep, PTL DEF UartSpec, ThreNotLost
=============================================================================
