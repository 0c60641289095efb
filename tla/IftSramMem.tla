----------------------------- MODULE IftSramMem -----------------------------
(***************************************************************************)
(* cva6/ift_sram_mem.sv: a hand-written memory that carries its taint with *)
(* it, bit by bit, and falls back on two conservative flags.  As in        *)
(* HybridiftMem the memory runs as a pair of executions (TwinRuns).        *)
(*                                                                         *)
(* Addresses and words are sets of bit numbers: the design combines mask   *)
(* and address bit by bit, so that their numbering matters.                *)
(***************************************************************************)
EXTENDS Integers, TwinRuns

CONSTANTS
  Bits,             \* bit numbers of a word, 0 .. Width-1
  AddrBits,         \* bit numbers of an address, 0 .. Aw-1
  OverTaint,        \* whether inputs in which the two runs agree may be tainted
  TaintedControls,  \* whether request, direction and mask of a write may be tainted
  PartialWrites     \* whether a write at a tainted address may leave bits out

ASSUME WidthAssumption == Bits \subseteq Nat /\ AddrBits \subseteq Bits
ASSUME UseAssumption == {OverTaint, TaintedControls, PartialWrites} \subseteq BOOLEAN

Addr == SUBSET AddrBits

VARIABLES
  mem_taints,                         \* taint of each word
  rdata_o_taint_before_conservative,  \* taint of the word last read
  is_mem_fully_tainted_q,             \* a tainted write hit an unknown word
  was_req_addr_tainted_q,             \* the last request was itself tainted
  differs,                            \* stored bits in which the two runs may differ
  rdiffers,                           \* bits of rdata_o in which the two runs may differ
  fresh,                              \* the observed run read in the last cycle
  controlled,                         \* only data were tainted so far
  dropped                             \* a reset has cleared a raised is_mem_fully_tainted_q

flags == <<is_mem_fully_tainted_q, was_req_addr_tainted_q>>
vars == <<mem_taints, rdata_o_taint_before_conservative, flags,
          differs, rdiffers, fresh, controlled, dropped>>

-----------------------------------------------------------------------------
(* What one run does with its inputs. *)

In(sig, r) == IF r = 1 THEN sig.x ELSE sig.y

Writes(i, r) == In(i.req, r) /\ In(i.write, r)
Reads(i, r) == In(i.req, r) /\ ~In(i.write, r)

\* Bits of the word at address a that run r overwrites.
Written(i, r, a) == IF Writes(i, r) /\ a = In(i.addr, r) THEN In(i.wmask, r) ELSE {}

\* rdata_o keeps its value in every cycle that does not read.
ReadDataDiffers(i) ==
  IF Reads(i, 1) /\ Reads(i, 2) /\ i.addr.x = i.addr.y THEN differs[i.addr.x]
  ELSE IF Reads(i, 1) \/ Reads(i, 2) THEN Bits
  ELSE rdiffers

-----------------------------------------------------------------------------
(* The taint logic, which sees the observed values and the taint. *)

MayWrite(i) == (i.req.x \/ i.req.t) /\ (i.write.x \/ i.write.t)

\* Mutant: the flag is computed from this cycle alone and forgotten in the next.
is_mem_fully_tainted_dForgetful(i) ==
  MayWrite(i) /\ (i.wmask.x \cup i.wmask.t) \cap i.addr.t # {}

\* The mask is combined with the address taint bit by bit.
is_mem_fully_tainted_d(i) ==
  is_mem_fully_tainted_q \/ (MayWrite(i) /\ (i.wmask.x \cup i.wmask.t) \cap i.addr.t # {})

was_req_addr_tainted_d(i) == i.addr.t # {} \/ i.req.t \/ (i.req.x /\ i.write.t)

\* Mutant: a write taints the word but never cleans it.
TaintWriteAccumulating(i) ==
  mem_taints' = IF Writes(i, 1)
                  THEN [mem_taints EXCEPT ![i.addr.x] = @ \cup (i.wdata \cap i.wmask.x)]
                  ELSE mem_taints

\* A masked write replaces the taint of the bits it replaces.
TaintWrite(i) ==
  mem_taints' = IF Writes(i, 1)
                  THEN [mem_taints EXCEPT ![i.addr.x] =
                          (@ \ i.wmask.x) \cup (i.wdata \cap i.wmask.x)]
                  ELSE mem_taints

\* A word without an entry in the associative array reads as untainted.
TaintRead(i) ==
  rdata_o_taint_before_conservative' =
    IF Reads(i, 1) THEN mem_taints[i.addr.x] ELSE rdata_o_taint_before_conservative

\* Mutant: the full-taint flag does not reach the output.
rdata_o_taintIgnoringFull ==
  rdata_o_taint_before_conservative \cup (IF was_req_addr_tainted_q THEN Bits ELSE {})

\* The taint port; the flags are replicated over the whole word.
rdata_o_taint ==
  rdata_o_taint_before_conservative \cup
    (IF was_req_addr_tainted_q \/ is_mem_fully_tainted_q THEN Bits ELSE {})

-----------------------------------------------------------------------------
(* Inputs and steps. *)

BitSignal == ReducedSignal(BOOLEAN, OverTaint)
AddrSignal == WordSignal(AddrBits, OverTaint)
MaskSignal ==
  IF TaintedControls THEN WordSignal(Bits, OverTaint)
                     ELSE {Constant(m, {}) : m \in SUBSET Bits}

\* The writes this design is sound for: untainted request and direction (the mask is
\* untainted in MaskSignal), and a write at a tainted address covers the whole word.
Supported(i) ==
  MayWrite(i) =>
    /\ TaintedControls \/ (~i.req.t /\ ~i.write.t)
    /\ i.addr.t # {} => PartialWrites \/ i.wmask.x = Bits

Untainted(i) == ~i.req.t /\ ~i.write.t /\ i.addr.t = {} /\ i.wmask.t = {}

\* The taint file is loaded before the clock starts; the output registers are not reset.
Init ==
  /\ mem_taints \in [Addr -> SUBSET Bits]
  /\ rdata_o_taint_before_conservative \in SUBSET Bits
  /\ is_mem_fully_tainted_q = FALSE
  /\ was_req_addr_tainted_q = FALSE
  /\ differs = mem_taints
  /\ rdiffers = {}
  /\ fresh = FALSE
  /\ controlled = TRUE
  /\ dropped = FALSE

\* rst_ni clears the flags and nothing else: the words keep their contents and taint.
Reset ==
  /\ is_mem_fully_tainted_q' = FALSE
  /\ was_req_addr_tainted_q' = FALSE
  /\ fresh' = FALSE
  /\ dropped' = (dropped \/ is_mem_fully_tainted_q)
  /\ UNCHANGED <<mem_taints, rdata_o_taint_before_conservative, differs, rdiffers, controlled>>

\* One rising clock edge with the inputs i.
Clock(i) ==
  /\ TaintWrite(i)
  /\ TaintRead(i)
  /\ is_mem_fully_tainted_q' = is_mem_fully_tainted_d(i)
  /\ was_req_addr_tainted_q' = was_req_addr_tainted_d(i)
  /\ differs' = [a \in Addr |->
                   AfterWrite(differs[a], Written(i, 1, a), Written(i, 2, a), i.wdata)]
  /\ rdiffers' = ReadDataDiffers(i)
  /\ fresh' = Reads(i, 1)
  /\ controlled' = (controlled /\ Untainted(i))
  /\ UNCHANGED dropped

Next ==
  \/ Reset
  \/ \E req, write \in BitSignal, addr \in AddrSignal, wmask \in MaskSignal,
        wdata \in SUBSET Bits :
       LET i == [req |-> req, write |-> write, addr |-> addr, wmask |-> wmask, wdata |-> wdata]
       IN  Supported(i) /\ Clock(i)

Spec == Init /\ [][Next]_vars

-----------------------------------------------------------------------------
(* Properties. *)

\* Every register keeps the width it is declared with.
TypeOK ==
  /\ mem_taints \in [Addr -> SUBSET Bits]
  /\ rdata_o_taint_before_conservative \in SUBSET Bits
  /\ is_mem_fully_tainted_q \in BOOLEAN
  /\ was_req_addr_tainted_q \in BOOLEAN
  /\ differs \in [Addr -> SUBSET Bits]
  /\ rdiffers \in SUBSET Bits
  /\ fresh \in BOOLEAN
  /\ controlled \in BOOLEAN
  /\ dropped \in BOOLEAN

\* No stored taint is lost until a reset clears a raised flag: a stored bit that tainted
\* inputs may have changed is tainted, or the whole memory is.
StoredTaintSound ==
  dropped \/ is_mem_fully_tainted_q \/ \A a \in Addr : differs[a] \subseteq mem_taints[a]

\* In the cycle after a read, every bit of rdata_o that may differ is tainted.
FreshReadSound == fresh /\ ~dropped => rdiffers \subseteq rdata_o_taint

\* Masked writes are tracked bit by bit: while only data are tainted, taint is exact, and
\* an untainted write cleans precisely the bits it writes.
MaskedWritesExact ==
  controlled => /\ mem_taints = differs
                /\ fresh => rdata_o_taint = rdiffers
=============================================================================
