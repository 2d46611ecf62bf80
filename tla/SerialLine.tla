----------------------------- MODULE SerialLine -----------------------------
(***************************************************************************)
(* What the UART promises of host input: the bytes typed on the host reach *)
(* the guest in order, each once; at most Capacity of them wait inside the *)
(* device, and when it is full the others wait on the host.  Only a guest  *)
(* that asks for it (FCR) loses the waiting bytes.                         *)
(***************************************************************************)
EXTENDS Integers, Sequences

CONSTANTS Byte, Capacity

VARIABLES stdin,   \* typed on the host, not yet read by the device
          queue,   \* in the device
          gone     \* delivered to the guest, or discarded by it

lineVars == <<stdin, queue, gone>>

LineInit == stdin = <<>> /\ queue = <<>> /\ gone = <<>>

Type(b) == /\ stdin' = Append(stdin, b)
           /\ UNCHANGED <<queue, gone>>

Receive == /\ Len(queue) < Capacity
           /\ stdin # <<>>
           /\ queue' = Append(queue, Head(stdin))
           /\ stdin' = Tail(stdin)
           /\ UNCHANGED gone

Deliver == /\ queue # <<>>
           /\ gone' = Append(gone, Head(queue))
           /\ queue' = Tail(queue)
           /\ UNCHANGED stdin

Discard == /\ gone' = gone \o queue
           /\ queue' = <<>>
           /\ UNCHANGED stdin

LineNext == (\E b \in Byte : Type(b)) \/ Receive \/ Deliver \/ Discard
LineSpec == LineInit /\ [][LineNext]_lineVars
=============================================================================
