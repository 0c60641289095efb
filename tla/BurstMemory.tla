---------------------------- MODULE BurstMemory ----------------------------
(***************************************************************************)
(* What a memory behind a burst bus promises: one burst at a time, each    *)
(* beat served atomically, in burst order, from or to the memory of that   *)
(* moment.  Clock cycles, pipelining and address counters do not exist     *)
(* here.  AxiSlave128 implements this specification.                       *)
(***************************************************************************)
EXTENDS Bursts

CONSTANTS
  MaxLen,     \* bound: largest burst length field (one less than the beats)
  Ids,        \* transaction identifiers
  Bytes,      \* byte lanes of a block
  Data        \* values of a byte

Word == [Bytes -> Data]

NoBurst == [op |-> "none", id |-> 0]
NoEvent == [kind |-> "none"]

VARIABLES
  mem,    \* contents of the memory
  burst,  \* the burst being served
  left,   \* blocks the burst has still to visit
  event   \* the last transfer between master and memory

vars == <<mem, burst, left, event>>

Init ==
  /\ mem \in [Blocks -> Word]
  /\ burst = NoBurst
  /\ left = <<>>
  /\ event = NoEvent

Accept(op, kind, id, addr, len) ==
  /\ burst = NoBurst
  /\ burst' = [op |-> op, id |-> id]
  /\ left' = BurstBlocks(addr, len, 0)
  /\ event' = [kind |-> kind, id |-> id]
  /\ UNCHANGED mem

ReadBeat ==
  /\ burst.op = "read"
  /\ event' = [kind |-> "R", id |-> burst.id, data |-> mem[Head(left)], last |-> Len(left) = 1]
  /\ left' = Tail(left)
  /\ burst' = IF Len(left) = 1 THEN NoBurst ELSE burst
  /\ UNCHANGED mem

WriteBeat(word, strobe) ==
  /\ burst.op = "write"
  /\ mem' = [mem EXCEPT ![Head(left)] =
               [b \in Bytes |-> IF b \in strobe THEN word[b] ELSE @[b]]]
  /\ event' = [kind |-> "W", data |-> word, strb |-> strobe]
  /\ left' = Tail(left)
  /\ burst' = IF Len(left) = 1 THEN [burst EXCEPT !.op = "respond"] ELSE burst

Respond ==
  /\ burst.op = "respond"
  /\ event' = [kind |-> "B", id |-> burst.id]
  /\ burst' = NoBurst
  /\ UNCHANGED <<mem, left>>

\* A reset drops the burst and leaves the memory as the beats served so far made it.
Abort ==
  /\ burst' = NoBurst
  /\ left' = <<>>
  /\ event' = NoEvent
  /\ UNCHANGED mem

Next ==
  \/ \E id \in Ids, addr \in Blocks, len \in 0 .. MaxLen :
       Accept("read", "AR", id, addr, len) \/ Accept("write", "AW", id, addr, len)
  \/ ReadBeat
  \/ \E word \in Word, strobe \in SUBSET Bytes : WriteBeat(word, strobe)
  \/ Respond
  \/ Abort

Spec == Init /\ [][Next]_vars
=============================================================================
