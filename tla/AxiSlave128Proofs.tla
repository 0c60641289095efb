------------------------- MODULE AxiSlave128Proofs -------------------------
(***************************************************************************)
(* Proofs about the memory behind the AXI bus, for every size of the       *)
(* memory, every length of a burst and every width of the bus.             *)
(***************************************************************************)
EXTENDS AxiSlave128, NumberLemmas

-----------------------------------------------------------------------------
(* Where the beats of a burst lie. *)

LEMMA SmallMod ==
  ASSUME NEW x \in Blocks
  PROVE  x % NumBlocks = x
<1>1. x = NumBlocks * 0 + x /\ x \in 0 .. NumBlocks - 1 /\ x \in Nat
  BY SizeAssumption DEF Blocks
<1>2. QED
  BY <1>1, SizeAssumption, ModUnique

LEMMA FirstBeat ==
  ASSUME NEW addr \in Blocks, NEW len \in Nat
  PROVE  BeatBlock(addr, len, 0) = addr
<1>1. CASE len \in {1, 3}
  BY <1>1, SizeAssumption DEF BeatBlock, Blocks
<1>2. CASE len \notin {1, 3}
  BY <1>2, SmallMod DEF BeatBlock, Blocks
<1>3. QED
  BY <1>1, <1>2

LEMMA BeatInMemory ==
  ASSUME NEW addr \in Blocks, NEW len \in Nat, NEW k \in Nat
  PROVE  BeatBlock(addr, len, k) \in Blocks
<1>1. CASE len = 1
  BY <1>1, SizeAssumption DEF BeatBlock, Blocks
<1>2. CASE len = 3
  BY <1>2, SizeAssumption DEF BeatBlock, Blocks
<1>3. CASE len \notin {1, 3}
  BY <1>3, SizeAssumption, DivMod DEF BeatBlock, Blocks
<1>4. QED
  BY <1>1, <1>2, <1>3

\* The address counter of the slave, stepping from block a at beat k of the burst.
Stepped(a, len, k) ==
  IF a % 4 = 3 /\ k \in 0 .. 2 /\ len = 3 THEN a - 3
  ELSE IF a % 2 = 1 /\ k = 0 /\ len = 1 THEN a - 1
  ELSE (a + 1) % NumBlocks

LEMMA SteppedInMemory ==
  ASSUME NEW a \in Blocks, NEW len \in Nat, NEW k \in Nat
  PROVE  Stepped(a, len, k) \in Blocks
<1>1. a + 1 \in Nat /\ NumBlocks \in Nat \ {0}
  BY SizeAssumption DEF Blocks
<1>2. (a + 1) % NumBlocks \in 0 .. NumBlocks - 1
  BY <1>1, DivMod
<1>3. a % 4 = 3 => a - 3 \in 0 .. NumBlocks - 1
  BY SizeAssumption DEF Blocks
<1>4. a % 2 = 1 => a - 1 \in 0 .. NumBlocks - 1
  BY SizeAssumption DEF Blocks
<1>5. QED
  BY <1>2, <1>3, <1>4 DEF Stepped, Blocks

LEMMA SteppedIsNextBeat ==
  ASSUME NEW addr \in Blocks, NEW len \in Nat, NEW k \in Nat, k < len
  PROVE  Stepped(BeatBlock(addr, len, k), len, k) = BeatBlock(addr, len, k + 1)
<1> DEFINE a == BeatBlock(addr, len, k)
           b == BeatBlock(addr, len, k + 1)
<1>1. CASE len = 1
  <2>1. k = 0
    BY <1>1
  <2>2. a = addr - (addr % 2) + ((addr + 0) % 2) /\ b = addr - (addr % 2) + ((addr + 1) % 2)
    BY <1>1, <2>1 DEF BeatBlock
  <2>3. a = addr /\ addr \in Nat /\ addr < NumBlocks
    BY <2>2, SizeAssumption DEF Blocks
  <2>4. CASE addr % 2 = 1
    BY <1>1, <2>1, <2>2, <2>3, <2>4 DEF Stepped
  <2>5. CASE addr % 2 = 0
    <3>1. b = addr + 1 /\ addr + 1 \in Blocks
      BY <2>2, <2>3, <2>5, SizeAssumption DEF Blocks
    <3>2. QED
      BY <1>1, <2>1, <2>3, <2>5, <3>1, SmallMod DEF Stepped
  <2>6. QED
    BY <2>3, <2>4, <2>5
<1>2. CASE len = 3
  <2>1. k \in 0 .. 2
    BY <1>2
  <2>2. /\ a = addr - (addr % 4) + ((addr + k) % 4)
        /\ b = addr - (addr % 4) + ((addr + (k + 1)) % 4)
    BY <1>2 DEF BeatBlock
  <2>3. addr \in Nat /\ addr < NumBlocks
    BY SizeAssumption DEF Blocks
  <2>4. a \in Nat /\ a < NumBlocks
    BY <2>1, <2>2, <2>3, SizeAssumption
  <2>5. CASE a % 4 = 3
    <3>1. b = a - 3
      BY <2>1, <2>2, <2>3, <2>5
    <3>2. QED
      BY <1>2, <2>1, <2>5, <3>1 DEF Stepped
  <2>6. CASE a % 4 # 3
    <3>1. b = a + 1
      BY <2>1, <2>2, <2>3, <2>6
    <3>2. a + 1 \in Blocks
      BY <2>4, <2>6, SizeAssumption DEF Blocks
    <3>3. Stepped(a, len, k) = (a + 1) % NumBlocks
      BY <1>2, <2>6 DEF Stepped
    <3>4. QED
      BY <3>1, <3>2, <3>3, SmallMod
  <2>7. QED
    BY <2>5, <2>6
<1>3. CASE len \notin {1, 3}
  <2>1. a = (addr + k) % NumBlocks /\ b = (addr + (k + 1)) % NumBlocks
    BY <1>3 DEF BeatBlock
  <2>2. Stepped(a, len, k) = (a + 1) % NumBlocks
    BY <1>3 DEF Stepped
  <2>3. addr + k \in Nat /\ addr + (k + 1) = (addr + k) + 1
    BY SizeAssumption DEF Blocks
  <2>4. QED
    BY <2>1, <2>2, <2>3, SizeAssumption, NextMod
<1>4. QED
  BY <1>1, <1>2, <1>3

-----------------------------------------------------------------------------
(* What every cycle of the bus delivers. *)

LEMMA InputFacts ==
  ASSUME NEW i \in Inputs
  PROVE  /\ i.ar.valid \in BOOLEAN /\ i.ar.id \in Ids
         /\ i.ar.addr \in Blocks /\ i.ar.len \in 0 .. MaxLen
         /\ i.aw.valid \in BOOLEAN /\ i.aw.id \in Ids
         /\ i.aw.addr \in Blocks /\ i.aw.len \in 0 .. MaxLen
         /\ i.w.valid \in BOOLEAN /\ i.w.data \in Word /\ i.w.strb \in Strobes
         /\ i.rready \in BOOLEAN /\ i.bready \in BOOLEAN
<1>1. IdleRequest.valid = FALSE /\ IdleRequest.id \in Ids
      /\ IdleRequest.addr \in Blocks /\ IdleRequest.len \in 0 .. MaxLen
  BY SizeAssumption DEF IdleRequest, Blocks
<1>2. IdleBeat.valid = FALSE /\ IdleBeat.data \in Word /\ IdleBeat.strb \in Strobes
  BY SizeAssumption DEF IdleBeat, ZeroWord, Word, Strobes
<1>3. i.ar \in Request \cup {IdleRequest} /\ i.aw \in Request \cup {IdleRequest}
  BY DEF Inputs
<1>4. i.w \in Beat \cup {IdleBeat} /\ i.rready \in BOOLEAN /\ i.bready \in BOOLEAN
  BY DEF Inputs
<1>5. QED
  BY <1>1, <1>2, <1>3, <1>4 DEF Request, Beat

-----------------------------------------------------------------------------
(* The inductive invariant. *)

\* A beat on the bus is the word its block holds.
OfferIsCurrent ==
  rvalid => cur_state = "READ" /\ ~read_dly /\ mem_dout = mem[mem_addr]

\* The address counter and the step counter of the open burst agree.
CountersAgree ==
  /\ cur_state = "READ" => /\ read_step <= arlen
                           /\ mem_addr = BeatBlock(start, arlen, read_step)
  /\ cur_state = "WRITE" => /\ write_step <= awlen
                            /\ mem_addr = BeatBlock(start, awlen, write_step)

\* A step counter is zero unless its own burst is open.
CountersReset ==
  /\ cur_state # "READ" => read_step = 0
  /\ cur_state \notin {"WRITE", "WRITE_RESP"} => write_step = 0

IInv == TypeOK /\ OfferIsCurrent /\ CountersAgree /\ CountersReset

LEMMA InitIInv == Init => IInv
<1> SUFFICES ASSUME Init PROVE IInv
  OBVIOUS
<1>1. TypeOK
  <2>1. ZeroWord \in Word /\ 0 \in Blocks /\ 0 \in 0 .. MaxLen /\ 0 \in 0 .. MaxLen + 1
    BY SizeAssumption DEF ZeroWord, Word, Blocks
  <2>2. mem \in [Blocks -> Word]
    BY DEF Init
  <2>3. QED
    BY <2>1, <2>2, SizeAssumption DEF Init, TypeOK
<1>2. QED
  BY <1>1 DEF Init, IInv, OfferIsCurrent, CountersAgree, CountersReset

LEMMA ResetIInv == IInv /\ Reset => IInv'
<1> SUFFICES ASSUME IInv, Reset PROVE IInv'
  OBVIOUS
<1>1. TypeOK'
  <2>1. 0 \in Blocks /\ 0 \in 0 .. MaxLen /\ 0 \in 0 .. MaxLen + 1
    BY SizeAssumption DEF Blocks
  <2>2. QED
    BY <2>1, SizeAssumption DEF Reset, TypeOK, IInv
<1>2. QED
  BY <1>1 DEF Reset, IInv, OfferIsCurrent, CountersAgree, CountersReset

\* The memory keeps its shape, and answers with the word at the address it uses.
LEMMA MemoryStep ==
  ASSUME IInv, NEW i \in Inputs, Memory(i)
  PROVE  /\ mem' \in [Blocks -> Word] /\ mem_dout' \in Word /\ addr_holding' \in Blocks
         /\ cur_state # "WRITE" => UNCHANGED mem
         /\ cur_state = "READ" => mem_dout' = mem[mem_addr]
<1> DEFINE enabled == cur_state = "READ" \/ BeatTaken(i)
           addr    == IF enabled THEN mem_addr ELSE addr_holding
           strobe  == IF BeatTaken(i) THEN i.w.strb ELSE {}
           written == {b \in Bytes : b \div BitsPerByte \in strobe}
           merged  == [b \in Bytes |-> IF b \in written THEN i.w.data[b] ELSE mem[addr][b]]
<1>1. addr \in Blocks /\ mem \in [Blocks -> Word] /\ addr_holding' = addr
  BY DEF IInv, TypeOK, Memory
<1>2. ZeroWord \in Word /\ i.w.data \in Word
  BY SizeAssumption, InputFacts DEF ZeroWord, Word
<1>3. mem[addr] \in Word
  BY <1>1
<1>4. merged \in Word
  BY <1>2, <1>3 DEF Word
<1>5. CASE strobe = {}
  BY <1>1, <1>3, <1>5 DEF Memory
<1>6. CASE strobe # {}
  <2>1. mem_dout' = ZeroWord /\ mem' = [mem EXCEPT ![addr] = merged]
    BY <1>6 DEF Memory
  <2>2. cur_state = "WRITE"
    BY <1>6 DEF BeatTaken, wready
  <2>3. QED
    BY <1>1, <1>2, <1>4, <2>1, <2>2
<1>7. cur_state = "READ" => strobe = {} /\ addr = mem_addr
  BY DEF BeatTaken, wready
<1>8. cur_state # "WRITE" => strobe = {}
  BY DEF BeatTaken, wready
<1>9. CASE cur_state = "READ"
  BY <1>1, <1>3, <1>5, <1>7, <1>9 DEF Memory
<1>10. QED
  BY <1>5, <1>6, <1>8, <1>9

LEMMA IdleIInv ==
  ASSUME IInv, NEW i \in Inputs, Clock(i), cur_state = "IDLE"
  PROVE  IInv'
<1>1. TypeOK /\ ~rvalid /\ read_step = 0 /\ write_step = 0
  BY DEF IInv, OfferIsCurrent, CountersReset
<1>2. ~ReadTaken(i) /\ ~BeatTaken(i)
  BY <1>1 DEF ReadTaken, BeatTaken, wready
<1>3. cur_state' = IF i.ar.valid THEN "READ" ELSE IF i.aw.valid THEN "WRITE" ELSE "IDLE"
  BY DEF Clock, next_state
<1>4. /\ arid' = i.ar.id /\ arlen' = i.ar.len /\ awid' = i.aw.id /\ awlen' = i.aw.len
      /\ arlen' \in 0 .. MaxLen /\ awlen' \in 0 .. MaxLen
  BY InputFacts DEF Clock, Latch
<1>5. read_step' = 0 /\ write_step' = 0 /\ rvalid' = FALSE /\ read_dly' \in BOOLEAN
  BY <1>1, <1>2, InputFacts DEF Clock, CountRead, CountWrite, Valid, arready
<1>6. /\ mem_addr' = IF i.ar.valid THEN i.ar.addr
                     ELSE IF i.aw.valid THEN i.aw.addr ELSE mem_addr
      /\ start' = IF i.ar.valid THEN i.ar.addr
                  ELSE IF i.aw.valid THEN i.aw.addr ELSE start
  BY <1>2 DEF Clock, Address, Observe, arready, awready
<1>7. mem_addr' \in Blocks /\ start' \in Blocks
  BY <1>1, <1>6, InputFacts DEF TypeOK
<1>8. TypeOK'
  BY <1>1, <1>3, <1>4, <1>5, <1>7, MemoryStep, InputFacts, SizeAssumption DEF Clock, TypeOK
<1>9. CountersAgree'
  <2>1. CASE cur_state' = "READ"
    <3>1. mem_addr' = start' /\ start' \in Blocks /\ arlen' \in Nat
      BY <1>3, <1>4, <1>6, <1>7, <2>1
    <3>2. mem_addr' = BeatBlock(start', arlen', 0)
      BY <3>1, FirstBeat
    <3>3. QED
      BY <1>4, <1>5, <2>1, <3>2 DEF CountersAgree
  <2>2. CASE cur_state' = "WRITE"
    <3>1. mem_addr' = start' /\ start' \in Blocks /\ awlen' \in Nat
      BY <1>3, <1>4, <1>6, <1>7, <2>2
    <3>2. mem_addr' = BeatBlock(start', awlen', 0)
      BY <3>1, FirstBeat
    <3>3. QED
      BY <1>4, <1>5, <2>2, <3>2 DEF CountersAgree
  <2>3. QED
    BY <2>1, <2>2 DEF CountersAgree
<1>10. OfferIsCurrent' /\ CountersReset'
  BY <1>5 DEF OfferIsCurrent, CountersReset
<1>11. QED
  BY <1>8, <1>9, <1>10 DEF IInv

\* The address counter takes the step Stepped describes when a beat goes over the bus.
LEMMA AddressStep ==
  ASSUME IInv, NEW i \in Inputs, Address(i), cur_state # "IDLE", NEW len, NEW k,
         \/ cur_state = "READ" /\ len = arlen /\ k = read_step
         \/ cur_state = "WRITE" /\ len = awlen /\ k = write_step
  PROVE  mem_addr' = IF BeatTaken(i) \/ ReadTaken(i) THEN Stepped(mem_addr, len, k) ELSE mem_addr
<1>1. mem_addr \in Nat /\ k \in Nat
  BY SizeAssumption DEF IInv, TypeOK, Blocks
<1>2. wrap2_1 <=> mem_addr % 2 = 1 /\ k = 0 /\ len = 1
  BY DEF wrap2_1, At
<1>3. wrap4 <=> mem_addr % 4 = 3 /\ k \in 0 .. 2 /\ len = 3
  BY DEF wrap4, At
<1>4. QED
  BY <1>1, <1>2, <1>3 DEF Address, Stepped

LEMMA ReadIInv ==
  ASSUME IInv, NEW i \in Inputs, Clock(i), cur_state = "READ"
  PROVE  IInv'
<1>1. /\ TypeOK /\ write_step = 0 /\ read_step \in Nat /\ arlen \in 0 .. MaxLen /\ MaxLen \in Nat
      /\ read_step <= arlen /\ mem_addr = BeatBlock(start, arlen, read_step)
      /\ rvalid => ~read_dly /\ mem_dout = mem[mem_addr]
  BY SizeAssumption DEF IInv, TypeOK, OfferIsCurrent, CountersAgree, CountersReset
<1>2. ~BeatTaken(i)
  BY DEF BeatTaken, wready
<1>3. cur_state' = IF read_over /\ ReadTaken(i) THEN "IDLE" ELSE "READ"
  BY DEF Clock, next_state
<1>4. UNCHANGED <<arid, arlen, awid, awlen, start, mem>>
  BY MemoryStep DEF Clock, Latch, Observe, latches, arready, awready
<1>5. write_step' = 0 /\ mem_dout' = mem[mem_addr]
  BY <1>1, <1>2, MemoryStep DEF Clock, CountWrite
<1>6. read_step' = IF cur_state' = "IDLE" THEN 0
                   ELSE IF ReadTaken(i) THEN read_step + 1 ELSE read_step
  BY <1>3 DEF Clock, CountRead
<1>7. mem_addr' = IF ReadTaken(i) THEN Stepped(mem_addr, arlen, read_step) ELSE mem_addr
  BY <1>2, AddressStep DEF Clock
<1>8. read_dly' \in BOOLEAN /\ rvalid' \in BOOLEAN
      /\ read_dly' = ReadTaken(i) /\ rvalid' = (read_dly \/ (rvalid /\ ~i.rready))
  BY <1>1, InputFacts DEF Clock, Valid, arready, ReadTaken, TypeOK
<1>9. TypeOK'
  <2>1. mem_addr' \in Blocks
    BY <1>1, <1>7, SteppedInMemory DEF TypeOK
  <2>2. read_step' \in 0 .. MaxLen
    BY <1>1, <1>3, <1>6 DEF read_over
  <2>3. QED
    BY <1>1, <1>3, <1>4, <1>5, <1>8, <2>1, <2>2, MemoryStep DEF Clock, TypeOK
<1>10. OfferIsCurrent'
  <2> SUFFICES ASSUME rvalid' PROVE cur_state' = "READ" /\ ~read_dly' /\ mem_dout' = mem'[mem_addr']
    BY DEF OfferIsCurrent
  <2>1. ~ReadTaken(i)
    BY <1>1, <1>8, InputFacts DEF ReadTaken
  <2>2. QED
    BY <1>3, <1>4, <1>5, <1>7, <1>8, <2>1
<1>11. CountersAgree'
  <2> SUFFICES ASSUME cur_state' = "READ"
               PROVE  read_step' <= arlen /\ mem_addr' = BeatBlock(start, arlen, read_step')
    BY <1>3, <1>4 DEF CountersAgree
  <2>1. CASE ReadTaken(i)
    <3>1. read_step < arlen /\ read_step' = read_step + 1 /\ start \in Blocks /\ arlen \in Nat
      BY <1>1, <1>3, <1>6, <2>1 DEF read_over, TypeOK
    <3>2. QED
      BY <1>1, <1>7, <2>1, <3>1, SteppedIsNextBeat
  <2>2. CASE ~ReadTaken(i)
    BY <1>1, <1>6, <1>7, <2>2
  <2>3. QED
    BY <2>1, <2>2
<1>12. CountersReset'
  BY <1>3, <1>5, <1>6 DEF CountersReset
<1>13. QED
  BY <1>9, <1>10, <1>11, <1>12 DEF IInv

LEMMA WriteIInv ==
  ASSUME IInv, NEW i \in Inputs, Clock(i), cur_state = "WRITE"
  PROVE  IInv'
<1>1. /\ TypeOK /\ ~rvalid /\ read_step = 0 /\ write_step \in Nat
      /\ awlen \in 0 .. MaxLen /\ MaxLen \in Nat
      /\ write_step <= awlen /\ mem_addr = BeatBlock(start, awlen, write_step)
  BY SizeAssumption DEF IInv, TypeOK, OfferIsCurrent, CountersAgree, CountersReset
<1>2. ~ReadTaken(i)
  BY <1>1 DEF ReadTaken
<1>3. cur_state' = IF write_over /\ BeatTaken(i) THEN "WRITE_RESP" ELSE "WRITE"
  BY DEF Clock, next_state
<1>4. UNCHANGED <<arid, arlen, awid, awlen, start>>
  BY DEF Clock, Latch, Observe, latches, arready, awready
<1>5. read_step' = 0 /\ ~rvalid' /\ ~read_dly'
  BY <1>1, <1>2, <1>3 DEF Clock, CountRead, Valid, arready
<1>6. write_step' = IF BeatTaken(i) THEN write_step + 1 ELSE write_step
  BY <1>3 DEF Clock, CountWrite
<1>7. mem_addr' = IF BeatTaken(i) THEN Stepped(mem_addr, awlen, write_step) ELSE mem_addr
  BY <1>2, AddressStep DEF Clock
<1>8. TypeOK'
  <2>1. mem_addr' \in Blocks
    BY <1>1, <1>7, SteppedInMemory DEF TypeOK
  <2>2. write_step' \in 0 .. MaxLen + 1
    BY <1>1, <1>6
  <2>3. rvalid' \in BOOLEAN /\ read_dly' \in BOOLEAN
    BY <1>1, <1>2 DEF Clock, Valid, arready
  <2>4. QED
    BY <1>1, <1>3, <1>4, <1>5, <2>1, <2>2, <2>3, MemoryStep DEF Clock, TypeOK
<1>9. CountersAgree'
  <2> SUFFICES ASSUME cur_state' = "WRITE"
               PROVE  write_step' <= awlen /\ mem_addr' = BeatBlock(start, awlen, write_step')
    BY <1>3, <1>4 DEF CountersAgree
  <2>1. CASE BeatTaken(i)
    <3>1. write_step < awlen /\ write_step' = write_step + 1 /\ start \in Blocks /\ awlen \in Nat
      BY <1>1, <1>3, <1>6, <2>1 DEF write_over, TypeOK
    <3>2. QED
      BY <1>1, <1>7, <2>1, <3>1, SteppedIsNextBeat
  <2>2. CASE ~BeatTaken(i)
    BY <1>1, <1>6, <1>7, <2>2
  <2>3. QED
    BY <2>1, <2>2
<1>10. OfferIsCurrent' /\ CountersReset'
  BY <1>3, <1>5 DEF OfferIsCurrent, CountersReset
<1>11. QED
  BY <1>8, <1>9, <1>10 DEF IInv

LEMMA ResponseIInv ==
  ASSUME IInv, NEW i \in Inputs, Clock(i), cur_state = "WRITE_RESP"
  PROVE  IInv'
<1>1. TypeOK /\ ~rvalid /\ read_step = 0
  BY DEF IInv, OfferIsCurrent, CountersReset
<1>2. ~ReadTaken(i) /\ ~BeatTaken(i)
  BY <1>1 DEF ReadTaken, BeatTaken, wready
<1>3. cur_state' = IF i.bready THEN "IDLE" ELSE "WRITE_RESP"
  BY DEF Clock, next_state
<1>4. UNCHANGED <<arid, arlen, awid, awlen, start, mem_addr>>
  BY <1>2 DEF Clock, Latch, Observe, Address, latches, arready, awready
<1>5. read_step' = 0 /\ rvalid' = FALSE /\ read_dly' = FALSE
  BY <1>1, <1>2, <1>3 DEF Clock, CountRead, Valid, arready
<1>6. write_step' = IF cur_state' = "IDLE" THEN 0 ELSE write_step
  BY <1>2, <1>3 DEF Clock, CountWrite
<1>7. write_step' \in 0 .. MaxLen + 1
  BY <1>1, <1>6, SizeAssumption DEF TypeOK
<1>8. TypeOK'
  BY <1>1, <1>3, <1>4, <1>5, <1>7, MemoryStep, SizeAssumption DEF Clock, TypeOK
<1>9. OfferIsCurrent' /\ CountersAgree' /\ CountersReset'
  BY <1>3, <1>5, <1>6 DEF OfferIsCurrent, CountersAgree, CountersReset
<1>10. QED
  BY <1>8, <1>9 DEF IInv

LEMMA StepIInv == IInv /\ [Next]_vars => IInv'
<1> SUFFICES ASSUME IInv, [Next]_vars PROVE IInv'
  OBVIOUS
<1>1. CASE Reset
  BY <1>1, ResetIInv
<1>2. ASSUME NEW i \in Inputs, Clock(i) PROVE IInv'
  <2>1. cur_state \in {"IDLE", "READ", "WRITE", "WRITE_RESP"}
    BY DEF IInv, TypeOK
  <2>2. QED
    BY <1>2, <2>1, IdleIInv, ReadIInv, WriteIInv, ResponseIInv
<1>3. CASE UNCHANGED vars
  BY <1>3 DEF vars, latches, IInv, TypeOK, OfferIsCurrent, CountersAgree, CountersReset
<1>4. QED
  BY <1>1, <1>2, <1>3 DEF Next

LEMMA InvariantHolds == Spec => []IInv
<1>1. QED
  BY InitIInv, StepIInv, PTL DEF Spec

-----------------------------------------------------------------------------
(* Theorems. *)

\* The registers keep their widths whatever the bus does: neither the step counters of the
\* slave nor its address counter leave their range, resets in the middle of a burst included.
THEOREM TypeCorrect == Spec => []TypeOK
<1>1. IInv => TypeOK
  BY DEF IInv
<1>2. QED
  BY <1>1, InvariantHolds, PTL

\* A read beat the master does not take stays on the bus unchanged, for every width of the
\* bus and every contents of the memory: the memory re-reads the same block in each cycle.
THEOREM OfferStable == Spec => OfferedBeatStable
<1> DEFINE Kept == rvalid /\ cur_state' = "READ" /\ read_step' = read_step =>
                     rvalid' /\ mem_dout' = mem_dout /\ rlast' = rlast
<1>1. ASSUME IInv, [Next]_vars PROVE [Kept]_vars
  <2>1. CASE Reset
    BY <2>1 DEF Reset
  <2>2. ASSUME NEW i \in Inputs, Clock(i),
               rvalid, cur_state' = "READ", read_step' = read_step
        PROVE  rvalid' /\ mem_dout' = mem_dout /\ rlast' = rlast
    <3>1. cur_state = "READ" /\ ~read_dly /\ mem_dout = mem[mem_addr] /\ read_step \in Nat
      BY <1>1, <2>2, SizeAssumption DEF IInv, OfferIsCurrent, TypeOK
    <3>2. ~ReadTaken(i)
      BY <2>2, <3>1 DEF Clock, CountRead, next_state
    <3>3. rvalid'
      BY <2>2, <3>2 DEF Clock, Valid, ReadTaken
    <3>4. mem_dout' = mem_dout
      BY <1>1, <2>2, <3>1, MemoryStep DEF Clock
    <3>5. arlen' = arlen
      BY <2>2, <3>1 DEF Clock, Latch, latches
    <3>6. QED
      BY <2>2, <3>3, <3>4, <3>5 DEF rlast, read_over
  <2>3. QED
    BY <1>1, <2>1, <2>2 DEF Next
<1>2. QED
  BY <1>1, InvariantHolds, PTL DEF Spec, OfferedBeatStable

-----------------------------------------------------------------------------
(* The bus and the memory behind it implement BurstMemory. *)

\* The master writes whole blocks, and the strobe the memory uses for a byte is one of those
\* of the bus.  For parts of a block the claim is false: the memory applies the strobe of
\* byte b \div BitsPerByte to byte b.
WholeBlocks ==
  /\ ~PartialStrobes
  /\ \A b \in Bytes : b \div BitsPerByte \in Bytes

Left ==
  CASE cur_state = "READ" -> BurstBlocks(start, arlen, read_step)
    [] cur_state = "WRITE" -> BurstBlocks(start, awlen, write_step)
    [] OTHER -> <<>>

LEMMA BlocksLeft ==
  ASSUME NEW addr \in Blocks, NEW len \in Nat, NEW k \in Nat, k <= len
  PROVE  /\ Len(BurstBlocks(addr, len, k)) = len + 1 - k
         /\ Head(BurstBlocks(addr, len, k)) = BeatBlock(addr, len, k)
         /\ Tail(BurstBlocks(addr, len, k)) = BurstBlocks(addr, len, k + 1)
<1> DEFINE s == BurstBlocks(addr, len, k)
           t == BurstBlocks(addr, len, k + 1)
<1>1. len + 1 - k \in Nat /\ len + 1 - (k + 1) \in Nat
  OBVIOUS
<1>2. \A j \in 1 .. len + 1 - k : s[j] = BeatBlock(addr, len, k + j - 1) /\ s[j] \in Blocks
  BY BeatInMemory DEF BurstBlocks
<1>3. s \in Seq(Blocks) /\ Len(s) = len + 1 - k
  BY <1>1, <1>2 DEF BurstBlocks
<1>4. Head(s) = BeatBlock(addr, len, k)
  <2>1. s[1] = BeatBlock(addr, len, k + 1 - 1) /\ k + 1 - 1 = k
    BY <1>2
  <2>2. QED
    BY <1>3, <2>1
<1>5. t \in Seq(Blocks) /\ Len(t) = len + 1 - (k + 1)
  BY <1>1, BeatInMemory DEF BurstBlocks
<1>6. \A j \in 1 .. len - k : t[j] = s[j + 1]
  <2> TAKE j \in 1 .. len - k
  <2>1. t[j] = BeatBlock(addr, len, (k + 1) + j - 1)
    BY DEF BurstBlocks
  <2>2. s[j + 1] = BeatBlock(addr, len, k + (j + 1) - 1)
    BY <1>2
  <2>3. QED
    BY <2>1, <2>2, (k + 1) + j - 1 = k + (j + 1) - 1
<1> HIDE DEF s, t
<1>7. Tail(s) = t
  BY <1>3, <1>5, <1>6
<1>8. QED
  BY <1>3, <1>4, <1>7 DEF s, t

LEMMA NoneLeft ==
  ASSUME NEW addr, NEW len \in Nat
  PROVE  BurstBlocks(addr, len, len + 1) = <<>>
BY DEF BurstBlocks

LEMMA AbstractBlocks ==
  \A addr, len, k : Abstract!BurstBlocks(addr, len, k) = BurstBlocks(addr, len, k)
BY DEF Abstract!BurstBlocks, BurstBlocks, Abstract!BeatBlock, BeatBlock

LEMMA InitRefined == Init => Abstract!Init
BY DEF Init, Abstract!Init, Burst, Abstract!NoBurst, Abstract!NoEvent, Abstract!Blocks, Blocks,
       Abstract!Word, Word

LEMMA ResetRefined == Reset => Abstract!Abort
BY DEF Reset, Abstract!Abort, Burst, Abstract!NoBurst, Abstract!NoEvent

LEMMA IdleRefined ==
  ASSUME IInv, NEW i \in Inputs, Clock(i), cur_state = "IDLE"
  PROVE  [Abstract!Next]_Abstract!vars
<1>1. ~ReadTaken(i) /\ ~BeatTaken(i) /\ read_step = 0 /\ write_step = 0 /\ UNCHANGED mem
  BY MemoryStep DEF IInv, OfferIsCurrent, CountersReset, ReadTaken, BeatTaken, wready, Clock
<1>2. Burst = [op |-> "none", id |-> 0] /\ Left = <<>>
  BY DEF Burst, Left
<1>3. /\ arid' = i.ar.id /\ arlen' = i.ar.len /\ awid' = i.aw.id /\ awlen' = i.aw.len
      /\ cur_state' = IF i.ar.valid THEN "READ" ELSE IF i.aw.valid THEN "WRITE" ELSE "IDLE"
  BY DEF Clock, Latch, next_state
<1>4. read_step' = 0 /\ write_step' = 0
  BY <1>1 DEF Clock, CountRead, CountWrite
<1>5. CASE i.ar.valid
  <2>1. start' = i.ar.addr /\ event' = [kind |-> "AR", id |-> i.ar.id]
    BY <1>5 DEF Clock, Observe, arready
  <2>2. Burst' = [op |-> "read", id |-> i.ar.id]
    BY <1>3, <1>5 DEF Burst
  <2>3. Left' = Abstract!BurstBlocks(i.ar.addr, i.ar.len, 0)
    BY <1>3, <1>4, <1>5, <2>1, AbstractBlocks DEF Left
  <2>4. Abstract!Accept("read", "AR", i.ar.id, i.ar.addr, i.ar.len)
    BY <1>1, <1>2, <2>1, <2>2, <2>3 DEF Abstract!Accept, Abstract!NoBurst, Left
  <2>5. QED
    BY <2>4, InputFacts DEF Abstract!Next, Abstract!Blocks, Blocks
<1>6. CASE ~i.ar.valid /\ i.aw.valid
  <2>1. start' = i.aw.addr /\ event' = [kind |-> "AW", id |-> i.aw.id]
    BY <1>6 DEF Clock, Observe, arready, awready
  <2>2. Burst' = [op |-> "write", id |-> i.aw.id]
    BY <1>3, <1>6 DEF Burst
  <2>3. Left' = Abstract!BurstBlocks(i.aw.addr, i.aw.len, 0)
    BY <1>3, <1>4, <1>6, <2>1, AbstractBlocks DEF Left
  <2>4. Abstract!Accept("write", "AW", i.aw.id, i.aw.addr, i.aw.len)
    BY <1>1, <1>2, <2>1, <2>2, <2>3 DEF Abstract!Accept, Abstract!NoBurst, Left
  <2>5. QED
    BY <2>4, InputFacts DEF Abstract!Next, Abstract!Blocks, Blocks
<1>7. CASE ~i.ar.valid /\ ~i.aw.valid
  <2>1. event' = event /\ cur_state' = "IDLE"
    BY <1>1, <1>3, <1>7 DEF Clock, Observe, arready, awready, bvalid
  <2>2. Burst' = Burst /\ Left' = Left
    BY <1>2, <2>1 DEF Burst, Left
  <2>3. QED
    BY <1>1, <2>1, <2>2 DEF Abstract!vars, Left
<1>8. QED
  BY <1>5, <1>6, <1>7

LEMMA ReadRefined ==
  ASSUME IInv, NEW i \in Inputs, Clock(i), cur_state = "READ"
  PROVE  [Abstract!Next]_Abstract!vars
<1>1. /\ read_step \in Nat /\ arlen \in Nat /\ start \in Blocks /\ read_step <= arlen
      /\ mem_addr = BeatBlock(start, arlen, read_step)
      /\ rvalid => mem_dout = mem[mem_addr]
  BY SizeAssumption DEF IInv, TypeOK, OfferIsCurrent, CountersAgree
<1>2. Burst = [op |-> "read", id |-> arid] /\ Left = BurstBlocks(start, arlen, read_step)
  BY DEF Burst, Left
<1> DEFINE n == Len(Left)
<1>3. /\ n = arlen + 1 - read_step /\ n \in Nat
      /\ Head(Left) = mem_addr
      /\ Tail(Left) = BurstBlocks(start, arlen, read_step + 1)
  <2>1. arlen + 1 - read_step \in Nat
    BY <1>1
  <2>2. /\ Len(BurstBlocks(start, arlen, read_step)) = arlen + 1 - read_step
        /\ Head(BurstBlocks(start, arlen, read_step)) = mem_addr
        /\ Tail(BurstBlocks(start, arlen, read_step)) = BurstBlocks(start, arlen, read_step + 1)
    BY <1>1, BlocksLeft
  <2>3. QED
    BY <1>2, <2>1, <2>2
<1> HIDE DEF n
<1>4. /\ cur_state' = IF read_over /\ ReadTaken(i) THEN "IDLE" ELSE "READ"
      /\ UNCHANGED <<arid, arlen, start, mem>> /\ ~BeatTaken(i)
  BY MemoryStep DEF Clock, Latch, Observe, latches, arready, awready, next_state, BeatTaken, wready
<1>5. read_step' = IF cur_state' = "IDLE" THEN 0
                   ELSE IF ReadTaken(i) THEN read_step + 1 ELSE read_step
  BY <1>4 DEF Clock, CountRead
<1>6. CASE ReadTaken(i)
  <2>1. event' = [kind |-> "R", id |-> arid, data |-> mem[Head(Left)], last |-> Len(Left) = 1]
    <3>1. event' = [kind |-> "R", id |-> arid, data |-> mem_dout, last |-> rlast]
      BY <1>6 DEF Clock, Observe, arready, awready
    <3>2. rlast = (n = 1)
      BY <1>1, <1>6, <1>3 DEF rlast, read_over, ReadTaken, IInv, TypeOK
    <3>3. mem_dout = mem[Head(Left)]
      BY <1>1, <1>6, <1>3 DEF ReadTaken
    <3>4. QED
      BY <3>1, <3>2, <3>3 DEF n
  <2>2. Left' = Tail(Left) /\ Burst' = IF Len(Left) = 1 THEN Abstract!NoBurst ELSE Burst
    <3>1. CASE read_over
      <4>1. Tail(Left) = <<>> /\ n = 1
        BY <1>1, <1>3, <3>1, NoneLeft DEF read_over
      <4>2. Left' = <<>> /\ Burst' = Abstract!NoBurst
        BY <1>4, <1>6, <3>1 DEF Left, Burst, Abstract!NoBurst
      <4>3. QED
        BY <4>1, <4>2 DEF n
    <3>2. CASE ~read_over
      <4>1. n # 1
        BY <1>1, <1>3, <3>2 DEF read_over
      <4>2. cur_state' = "READ" /\ read_step' = read_step + 1
        BY <1>4, <1>5, <1>6, <3>2
      <4>3. Left' = Tail(Left) /\ Burst' = Burst
        BY <1>2, <1>4, <1>3, <4>2 DEF Left, Burst
      <4>4. QED
        BY <4>1, <4>3 DEF n
    <3>3. QED
      BY <3>1, <3>2
  <2>3. Abstract!ReadBeat
    BY <1>2, <1>4, <2>1, <2>2 DEF Abstract!ReadBeat, Left
  <2>4. QED
    BY <2>3 DEF Abstract!Next
<1>7. CASE ~ReadTaken(i)
  <2>1. event' = event
    BY <1>4, <1>7 DEF Clock, Observe, arready, awready, bvalid
  <2>2. Burst' = Burst /\ Left' = Left
    BY <1>2, <1>4, <1>5, <1>7 DEF Burst, Left
  <2>3. QED
    BY <1>4, <2>1, <2>2 DEF Abstract!vars, Left
<1>8. QED
  BY <1>6, <1>7

LEMMA WriteRefined ==
  ASSUME WholeBlocks, IInv, NEW i \in Inputs, Clock(i), cur_state = "WRITE"
  PROVE  [Abstract!Next]_Abstract!vars
<1>1. /\ write_step \in Nat /\ awlen \in Nat /\ start \in Blocks /\ write_step <= awlen
      /\ mem_addr = BeatBlock(start, awlen, write_step) /\ ~rvalid
      /\ mem \in [Blocks -> Word] /\ mem_addr \in Blocks
  BY SizeAssumption DEF IInv, TypeOK, OfferIsCurrent, CountersAgree
<1>2. Burst = [op |-> "write", id |-> awid] /\ Left = BurstBlocks(start, awlen, write_step)
  BY DEF Burst, Left
<1> DEFINE n == Len(Left)
<1>3. /\ n = awlen + 1 - write_step /\ n \in Nat
      /\ Head(Left) = mem_addr
      /\ Tail(Left) = BurstBlocks(start, awlen, write_step + 1)
  <2>1. awlen + 1 - write_step \in Nat
    BY <1>1
  <2>2. /\ Len(BurstBlocks(start, awlen, write_step)) = awlen + 1 - write_step
        /\ Head(BurstBlocks(start, awlen, write_step)) = mem_addr
        /\ Tail(BurstBlocks(start, awlen, write_step)) = BurstBlocks(start, awlen, write_step + 1)
    BY <1>1, BlocksLeft
  <2>3. QED
    BY <1>2, <2>1, <2>2
<1> HIDE DEF n
<1>4. /\ cur_state' = IF write_over /\ BeatTaken(i) THEN "WRITE_RESP" ELSE "WRITE"
      /\ UNCHANGED <<awid, awlen, start>> /\ ~ReadTaken(i)
  BY <1>1 DEF Clock, Latch, Observe, latches, arready, awready, next_state, ReadTaken
<1>5. write_step' = IF BeatTaken(i) THEN write_step + 1 ELSE write_step
  BY <1>4 DEF Clock, CountWrite
<1>6. CASE BeatTaken(i)
  <2> DEFINE word == i.w.data
             strobe == i.w.strb
             merged == [b \in Bytes |-> IF b \in strobe THEN word[b] ELSE mem[mem_addr][b]]
  <2>1. event' = [kind |-> "W", data |-> word, strb |-> strobe]
    BY <1>4, <1>6 DEF Clock, Observe, arready, awready
  <2>2. word \in Word /\ strobe \in {{}, Bytes}
    BY InputFacts DEF Strobes, WholeBlocks
  <2>3. mem' = [mem EXCEPT ![mem_addr] = merged]
    <3>1. CASE strobe = {}
      <4>1. merged = mem[mem_addr]
        BY <1>1, <3>1 DEF Word
      <4>2. mem' = mem
        BY <1>6, <3>1 DEF Clock, Memory
      <4>3. QED
        BY <1>1, <4>1, <4>2
    <3>2. CASE strobe # {}
      <4>1. {b \in Bytes : b \div BitsPerByte \in strobe} = strobe
        BY <2>2, <3>2 DEF WholeBlocks
      <4>2. QED
        BY <1>6, <3>2, <4>1 DEF Clock, Memory
    <3>3. QED
      BY <3>1, <3>2
  <2>4. Left' = Tail(Left) /\ Burst' = IF n = 1 THEN [Burst EXCEPT !.op = "respond"] ELSE Burst
    <3>1. CASE write_over
      <4>1. Tail(Left) = <<>> /\ n = 1
        BY <1>1, <1>3, <3>1, NoneLeft DEF write_over
      <4>2. Left' = <<>> /\ Burst' = [op |-> "respond", id |-> awid]
        BY <1>4, <1>6, <3>1 DEF Left, Burst
      <4>3. QED
        BY <1>2, <4>1, <4>2
    <3>2. CASE ~write_over
      <4>1. n # 1
        BY <1>1, <1>3, <3>2 DEF write_over
      <4>2. cur_state' = "WRITE" /\ write_step' = write_step + 1
        BY <1>4, <1>5, <1>6, <3>2
      <4>3. Left' = Tail(Left) /\ Burst' = Burst
        BY <1>2, <1>3, <1>4, <4>2 DEF Left, Burst
      <4>4. QED
        BY <4>1, <4>3
    <3>3. QED
      BY <3>1, <3>2
  <2>5. Abstract!WriteBeat(word, strobe)
    BY <1>2, <1>3, <2>1, <2>3, <2>4 DEF Abstract!WriteBeat, Left, n
  <2>6. word \in Abstract!Word /\ strobe \in SUBSET Bytes
    BY <2>2 DEF Abstract!Word, Word
  <2>7. QED
    BY <2>5, <2>6 DEF Abstract!Next
<1>7. CASE ~BeatTaken(i)
  <2>1. event' = event
    BY <1>4, <1>7 DEF Clock, Observe, arready, awready, bvalid
  <2>2. mem' = mem
    BY <1>7 DEF Clock, Memory
  <2>3. Burst' = Burst /\ Left' = Left
    BY <1>2, <1>4, <1>5, <1>7 DEF Burst, Left
  <2>4. QED
    BY <2>1, <2>2, <2>3 DEF Abstract!vars, Left
<1>8. QED
  BY <1>6, <1>7

LEMMA ResponseRefined ==
  ASSUME IInv, NEW i \in Inputs, Clock(i), cur_state = "WRITE_RESP"
  PROVE  [Abstract!Next]_Abstract!vars
<1>1. ~ReadTaken(i) /\ ~BeatTaken(i) /\ UNCHANGED <<mem, awid>>
  BY MemoryStep DEF IInv, OfferIsCurrent, ReadTaken, BeatTaken, wready, Clock, Latch, latches
<1>2. Burst = [op |-> "respond", id |-> awid] /\ Left = <<>>
  BY DEF Burst, Left
<1>3. cur_state' = IF i.bready THEN "IDLE" ELSE "WRITE_RESP"
  BY DEF Clock, next_state
<1>4. CASE i.bready
  <2>1. event' = [kind |-> "B", id |-> awid]
    BY <1>1, <1>4 DEF Clock, Observe, arready, awready, bvalid
  <2>2. Burst' = Abstract!NoBurst /\ Left' = Left
    BY <1>2, <1>3, <1>4 DEF Burst, Left, Abstract!NoBurst
  <2>3. Abstract!Respond
    BY <1>1, <1>2, <2>1, <2>2 DEF Abstract!Respond, Left
  <2>4. QED
    BY <2>3 DEF Abstract!Next
<1>5. CASE ~i.bready
  <2>1. event' = event
    BY <1>1, <1>5 DEF Clock, Observe, arready, awready, bvalid
  <2>2. Burst' = Burst /\ Left' = Left
    BY <1>1, <1>2, <1>3, <1>5 DEF Burst, Left
  <2>3. QED
    BY <1>1, <2>1, <2>2 DEF Abstract!vars, Left
<1>6. QED
  BY <1>4, <1>5

\* The slave and the memory behind it serve bursts as an atomic memory does: for every
\* length of burst, size of memory and width of the bus, the blocks a burst visits, the words
\* it reads and writes, its last beat and its response are those of BurstMemory, provided
\* that the master writes whole blocks.
THEOREM ImplementsBurstMemory == WholeBlocks => (Spec => BurstMemoryImplemented)
<1> SUFFICES ASSUME WholeBlocks PROVE Spec => BurstMemoryImplemented
  OBVIOUS
<1>1. ASSUME IInv, [Next]_vars PROVE [Abstract!Next]_Abstract!vars
  <2>1. CASE Reset
    BY <2>1, ResetRefined DEF Abstract!Next
  <2>2. ASSUME NEW i \in Inputs, Clock(i) PROVE [Abstract!Next]_Abstract!vars
    <3>1. cur_state \in {"IDLE", "READ", "WRITE", "WRITE_RESP"}
      BY <1>1 DEF IInv, TypeOK
    <3>2. QED
      BY <1>1, <2>2, <3>1, IdleRefined, ReadRefined, WriteRefined, ResponseRefined
  <2>3. CASE UNCHANGED vars
    BY <2>3 DEF vars, latches, Abstract!vars, Burst
  <2>4. QED
    BY <1>1, <2>1, <2>2, <2>3 DEF Next
<1>2. QED
  BY <1>1, InitRefined, InvariantHolds, PTL DEF Spec, BurstMemoryImplemented, Abstract!Spec
=============================================================================
