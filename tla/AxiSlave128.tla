---------------------------- MODULE AxiSlave128 ----------------------------
(***************************************************************************)
(* our_axi_slave128.sv with the memory behind it (our_f_spsram_large.v and *)
(* our_sram_mem.sv): the main memory of the instrumented openC910.  One    *)
(* step is one rising clock edge with the bus signals the master drives.   *)
(*                                                                         *)
(* Addresses are counted in blocks of one bus word, modulo NumBlocks.      *)
(***************************************************************************)
EXTENDS Bursts, FiniteSets

CONSTANTS
  MaxLen,          \* bound: largest arlen_s0 and awlen_s0
  Ids,             \* arid_s0 and awid_s0
  Bytes,           \* byte lanes of the bus, numbered from 0
  BitsPerByte,     \* eight in the design
  Data,            \* values of a byte
  MaxMarked,       \* bound: blocks of the memory that are not zero
  PartialStrobes   \* whether the master writes parts of a block

ASSUME SizeAssumption ==
  /\ NumBlocks \in Nat \ {0} /\ NumBlocks % 4 = 0
  /\ MaxLen \in Nat /\ MaxMarked \in Nat
  /\ 0 \in Ids /\ 0 \in Data
  /\ Bytes \subseteq Nat
  /\ BitsPerByte \in Nat \ {0}
  /\ PartialStrobes \in BOOLEAN

VARIABLES
  cur_state,                 \* IDLE, READ, WRITE, WRITE_RESP
  arid, arlen, awid, awlen,  \* bus fields latched while idle
  read_step, write_step,     \* beats of the burst done so far
  mem_addr,                  \* block the next beat concerns
  read_dly,                  \* the memory is fetching the next beat
  rvalid,                    \* the read data are on the bus
  addr_holding,              \* last block the memory was enabled for
  mem,                       \* contents of the memory
  mem_dout,                  \* registered output of the memory
  start,                     \* address of the burst being served
  event                      \* the last transfer on the bus

latches == <<arid, arlen, awid, awlen>>
vars == <<cur_state, latches, read_step, write_step, mem_addr, read_dly, rvalid,
          addr_holding, mem, mem_dout, start, event>>

Word == [Bytes -> Data]
ZeroWord == [b \in Bytes |-> 0]

-----------------------------------------------------------------------------
(* Bus inputs of one cycle. *)

Request == [valid : {TRUE}, id : Ids, addr : Blocks, len : 0 .. MaxLen]
IdleRequest == [valid |-> FALSE, id |-> 0, addr |-> 0, len |-> 0]
Strobes == IF PartialStrobes THEN SUBSET Bytes ELSE {{}, Bytes}
Beat == [valid : {TRUE}, data : Word, strb : Strobes]
IdleBeat == [valid |-> FALSE, data |-> ZeroWord, strb |-> {}]

-----------------------------------------------------------------------------
(* Combinational signals. *)

arready(i) == cur_state = "IDLE" /\ i.ar.valid
awready(i) == cur_state = "IDLE" /\ ~i.ar.valid
wready == cur_state = "WRITE"
bvalid == cur_state = "WRITE_RESP"

read_over == read_step = arlen

write_over == write_step = awlen
rlast == read_over /\ rvalid

ReadTaken(i) == rvalid /\ i.rready
BeatTaken(i) == i.w.valid /\ wready

next_state(i) ==
  CASE cur_state = "IDLE" ->
         IF i.ar.valid THEN "READ" ELSE IF i.aw.valid THEN "WRITE" ELSE "IDLE"
    [] cur_state = "READ" -> IF read_over /\ ReadTaken(i) THEN "IDLE" ELSE "READ"
    [] cur_state = "WRITE" -> IF write_over /\ BeatTaken(i) THEN "WRITE_RESP" ELSE "WRITE"
    [] cur_state = "WRITE_RESP" -> IF i.bready THEN "IDLE" ELSE "WRITE_RESP"

\* The burst is at this beat and has this length field.
At(step, len) ==
  \/ cur_state = "READ" /\ read_step = step /\ arlen = len
  \/ cur_state = "WRITE" /\ write_step = step /\ awlen = len

wrap2_1 == mem_addr % 2 = 1 /\ At(0, 1)

\* Mutant: a burst that starts in the second block of its line does not wrap.
wrap4MissingLast == mem_addr % 4 = 3 /\ (At(0, 3) \/ At(1, 3))

\* wrap4_1, wrap4_2 or wrap4_3
wrap4 == mem_addr % 4 = 3 /\ \E step \in 0 .. 2 : At(step, 3)

-----------------------------------------------------------------------------
(* Registers. *)

Latch(i) ==
  IF cur_state = "IDLE"
    THEN arid' = i.ar.id /\ arlen' = i.ar.len /\ awid' = i.aw.id /\ awlen' = i.aw.len
    ELSE UNCHANGED latches

\* Mutant: the step counter survives the burst.
CountReadKeeping(i) ==
  read_step' = IF cur_state = "READ" /\ ReadTaken(i) THEN read_step + 1 ELSE read_step

CountRead(i) ==
  read_step' = IF next_state(i) = "IDLE" THEN 0
               ELSE IF cur_state = "READ" /\ ReadTaken(i) THEN read_step + 1
               ELSE read_step

CountWrite(i) ==
  write_step' = IF next_state(i) = "IDLE" THEN 0
                ELSE IF BeatTaken(i) THEN write_step + 1
                ELSE write_step

Address(i) ==
  mem_addr' = IF cur_state = "IDLE" /\ i.ar.valid THEN i.ar.addr
              ELSE IF cur_state = "IDLE" /\ i.aw.valid THEN i.aw.addr
              ELSE IF ~BeatTaken(i) /\ ~ReadTaken(i) THEN mem_addr
              ELSE IF wrap4 THEN mem_addr - 3
              ELSE IF wrap2_1 THEN mem_addr - 1
              ELSE (mem_addr + 1) % NumBlocks

\* Mutant: only the first beat of a burst is fetched.
ValidOnce(i) ==
  /\ read_dly' = arready(i)
  /\ rvalid' = ((cur_state = "READ" /\ read_dly) \/ (rvalid /\ ~i.rready))

\* Mutant: a beat that is not taken is withdrawn.
ValidWithdrawn(i) ==
  /\ read_dly' = (arready(i) \/ ReadTaken(i))
  /\ rvalid' = (cur_state = "READ" /\ read_dly)

Valid(i) ==
  /\ read_dly' = (arready(i) \/ ReadTaken(i))
  /\ rvalid' = ((cur_state = "READ" /\ read_dly) \/ (rvalid /\ ~i.rready))

\* The memory answers every cycle: it reads, or writes and answers zero.  wmask_i has one
\* bit per byte and is driven by the low bits of a mask with one bit per bit, so that byte
\* b is written under the strobe of byte b \div BitsPerByte.
Memory(i) ==
  LET enabled == cur_state = "READ" \/ BeatTaken(i)
      addr    == IF enabled THEN mem_addr ELSE addr_holding
      strobe  == IF BeatTaken(i) THEN i.w.strb ELSE {}
      written == {b \in Bytes : b \div BitsPerByte \in strobe}
  IN  /\ addr_holding' = addr
      /\ IF strobe = {}
           THEN mem_dout' = mem[addr] /\ UNCHANGED mem
           ELSE /\ mem_dout' = ZeroWord
                /\ mem' = [mem EXCEPT ![addr] =
                             [b \in Bytes |-> IF b \in written THEN i.w.data[b] ELSE @[b]]]

\* What the bus sees of a cycle: at most one transfer.
Observe(i) ==
  /\ start' = IF arready(i) THEN i.ar.addr
              ELSE IF awready(i) /\ i.aw.valid THEN i.aw.addr
              ELSE start
  /\ event' = IF arready(i) THEN [kind |-> "AR", id |-> i.ar.id]
              ELSE IF awready(i) /\ i.aw.valid THEN [kind |-> "AW", id |-> i.aw.id]
              ELSE IF ReadTaken(i)
                THEN [kind |-> "R", id |-> arid, data |-> mem_dout, last |-> rlast]
              ELSE IF BeatTaken(i) THEN [kind |-> "W", data |-> i.w.data, strb |-> i.w.strb]
              ELSE IF bvalid /\ i.bready THEN [kind |-> "B", id |-> awid]
              ELSE event

\* Bound: at most MaxMarked blocks hold anything but zeros.
WithinMarks(contents) ==
  Cardinality({a \in Blocks : contents[a] # ZeroWord}) <= MaxMarked

-----------------------------------------------------------------------------
Init ==
  /\ cur_state = "IDLE"
  /\ arid = 0 /\ arlen = 0 /\ awid = 0 /\ awlen = 0
  /\ read_step = 0 /\ write_step = 0
  /\ mem_addr = 0
  /\ read_dly = FALSE /\ rvalid = FALSE
  /\ addr_holding = 0
  /\ mem \in {contents \in [Blocks -> Word] : WithinMarks(contents)}
  /\ mem_dout = ZeroWord
  /\ start = 0
  /\ event = [kind |-> "none"]

\* pad_cpu_rst_b, asynchronous: the slave forgets its burst, the memory is not reset.
Reset ==
  /\ cur_state' = "IDLE"
  /\ arid' = 0 /\ arlen' = 0 /\ awid' = 0 /\ awlen' = 0
  /\ read_step' = 0 /\ write_step' = 0
  /\ mem_addr' = 0
  /\ read_dly' = FALSE /\ rvalid' = FALSE
  /\ start' = 0
  /\ event' = [kind |-> "none"]
  /\ UNCHANGED <<addr_holding, mem, mem_dout>>

Clock(i) ==
  /\ cur_state' = next_state(i)
  /\ Latch(i)
  /\ CountRead(i)
  /\ CountWrite(i)
  /\ Address(i)
  /\ Valid(i)
  /\ Memory(i)
  /\ Observe(i)

\* Channels that no state listens to are idle, which changes nothing the slave does.
\* Bound: a write request that loses against a read has the fields of that read; what the
\* slave latches of it is overwritten before it is used.
Inputs ==
  LET Any(channel, state, idle) == {idle} \cup (IF cur_state = state THEN channel ELSE {})
  IN  {i \in [ar : Any(Request, "IDLE", IdleRequest), aw : Any(Request, "IDLE", IdleRequest),
              w : Any(Beat, "WRITE", IdleBeat),
              rready : Any({TRUE}, "READ", FALSE), bready : Any({TRUE}, "WRITE_RESP", FALSE)] :
         /\ i.ar.valid => i.aw \in {IdleRequest, i.ar}
         /\ WithinMarks(IF i.w.valid THEN [mem EXCEPT ![mem_addr] = i.w.data] ELSE mem)}

Next == Reset \/ \E i \in Inputs : Clock(i)

\* While a burst is open the clock runs, and the master goes on with the burst: it sends
\* its write data and takes its read data and its response, each after a finite time.
Served ==
  /\ cur_state # "IDLE"
  /\ \E i \in Inputs :
       /\ cur_state = "READ" => i.rready
       /\ cur_state = "WRITE" => i.w.valid
       /\ cur_state = "WRITE_RESP" => i.bready
       /\ Clock(i)

Spec == Init /\ [][Next]_vars /\ WF_vars(Served)

-----------------------------------------------------------------------------
(* Properties. *)

\* The registers keep their widths.
TypeOK ==
  /\ cur_state \in {"IDLE", "READ", "WRITE", "WRITE_RESP"}
  /\ arid \in Ids /\ awid \in Ids
  /\ {arlen, awlen} \subseteq 0 .. MaxLen
  /\ read_step \in 0 .. MaxLen /\ write_step \in 0 .. MaxLen + 1
  /\ {mem_addr, addr_holding, start} \subseteq Blocks
  /\ read_dly \in BOOLEAN /\ rvalid \in BOOLEAN
  /\ mem \in [Blocks -> Word]
  /\ mem_dout \in Word

\* The burst as an atomic memory sees it, and the blocks it has left.
Burst ==
  CASE cur_state = "IDLE" -> [op |-> "none", id |-> 0]
    [] cur_state = "READ" -> [op |-> "read", id |-> arid]
    [] cur_state = "WRITE" -> [op |-> "write", id |-> awid]
    [] cur_state = "WRITE_RESP" -> [op |-> "respond", id |-> awid]

Abstract == INSTANCE BurstMemory WITH
  burst <- Burst,
  left <- CASE cur_state = "READ" -> BurstBlocks(start, arlen, read_step)
            [] cur_state = "WRITE" -> BurstBlocks(start, awlen, write_step)
            [] OTHER -> <<>>

\* The bus and the memory behind it serve bursts as an atomic memory would: the beats of a
\* burst visit the blocks the master means, in order, each read beat carries the word
\* stored there now, and the last beat and the response come when the burst is complete.
BurstMemoryImplemented == Abstract!Spec

\* A beat offered to a master that does not take it stays on the bus, with the same data
\* and the same last flag, although the memory behind it reads anew in every cycle.
OfferedBeatStable ==
  [][rvalid /\ cur_state' = "READ" /\ read_step' = read_step =>
       rvalid' /\ mem_dout' = mem_dout /\ rlast' = rlast]_vars

\* Every burst ends: no combination of length, wrapping and handshakes lets the step
\* counter miss the length, or leaves a read waiting for data nobody fetches.
BurstsEnd == cur_state # "IDLE" ~> cur_state = "IDLE"
=============================================================================
