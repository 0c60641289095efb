-------------------------- MODULE IftSramMemProofs --------------------------
(***************************************************************************)
(* Proofs about ift_sram_mem.sv, for every word and address width: which   *)
(* taint it keeps, and that its explicit flows are exact bit by bit.       *)
(***************************************************************************)
EXTENDS IftSramMem, TLAPS

\* What the inputs of a clock cycle satisfy.
WellFormed(i) ==
  /\ i.req.x \in BOOLEAN /\ i.req.y \in BOOLEAN /\ i.req.t \in BOOLEAN
  /\ i.write.x \in BOOLEAN /\ i.write.y \in BOOLEAN /\ i.write.t \in BOOLEAN
  /\ i.req.x # i.req.y => i.req.t
  /\ i.write.x # i.write.y => i.write.t
  /\ i.addr.x \in Addr /\ i.addr.y \in Addr /\ i.addr.t \subseteq AddrBits
  /\ i.addr.x # i.addr.y => i.addr.t # {}
  /\ i.wmask.x \subseteq Bits /\ i.wmask.y \subseteq Bits
  /\ ~TaintedControls => i.wmask.y = i.wmask.x /\ i.wmask.t = {}
  /\ i.wdata \subseteq Bits

\* A word signal is tainted where the runs disagree.
LEMMA WordSignalFacts ==
  ASSUME NEW B, NEW s \in WordSignal(B, OverTaint)
  PROVE  /\ s.x \subseteq B /\ s.y \subseteq B /\ s.t \subseteq B
         /\ s.x # s.y => s.t # {}
<1>1. /\ s.x \in SUBSET B /\ s.y \in SUBSET B /\ s.t \in SUBSET B
      /\ Differing(s.x, s.y) \subseteq s.t
  BY DEF WordSignal
<1>2. s.x # s.y => Differing(s.x, s.y) # {}
  BY <1>1 DEF Differing
<1>3. QED
  BY <1>1, <1>2

\* A step is a reset or a clock edge with well-formed, supported inputs.
LEMMA StepCases ==
  ASSUME Next
  PROVE  Reset \/ \E i : WellFormed(i) /\ Supported(i) /\ Clock(i)
<1> SUFFICES ASSUME ~Reset
             PROVE  \E i : WellFormed(i) /\ Supported(i) /\ Clock(i)
  OBVIOUS
<1>1. PICK req \in BitSignal, write \in BitSignal, addr \in AddrSignal,
           wmask \in MaskSignal, wdata \in SUBSET Bits :
        LET i == [req |-> req, write |-> write, addr |-> addr, wmask |-> wmask,
                  wdata |-> wdata]
        IN  Supported(i) /\ Clock(i)
  BY DEF Next
<1> DEFINE i == [req |-> req, write |-> write, addr |-> addr, wmask |-> wmask,
                 wdata |-> wdata]
<1>2. /\ req.x \in BOOLEAN /\ req.y \in BOOLEAN /\ req.t \in BOOLEAN
      /\ req.x # req.y => req.t
      /\ write.x \in BOOLEAN /\ write.y \in BOOLEAN /\ write.t \in BOOLEAN
      /\ write.x # write.y => write.t
  BY DEF BitSignal, ReducedSignal
<1>3. /\ addr.x \subseteq AddrBits /\ addr.y \subseteq AddrBits /\ addr.t \subseteq AddrBits
      /\ addr.x # addr.y => addr.t # {}
  BY WordSignalFacts DEF AddrSignal
<1>4. /\ wmask.x \subseteq Bits /\ wmask.y \subseteq Bits
      /\ ~TaintedControls => wmask.y = wmask.x /\ wmask.t = {}
  <2>1. CASE TaintedControls
    <3>1. wmask \in WordSignal(Bits, OverTaint)
      BY <2>1 DEF MaskSignal
    <3>2. QED
      BY <2>1, <3>1, WordSignalFacts
  <2>2. CASE ~TaintedControls
    BY <2>2 DEF MaskSignal, Constant
  <2>3. QED
    BY <2>1, <2>2
<1>5. WellFormed(i)
  BY <1>2, <1>3, <1>4 DEF WellFormed, Addr
<1>6. QED
  BY <1>1, <1>5

-----------------------------------------------------------------------------
(* Types. *)

\* Every register keeps the width it is declared with, for every use of the memory.
THEOREM TypeCorrect == Spec => []TypeOK
<1>1. Init => TypeOK
  BY DEF Init, TypeOK
<1>2. TypeOK /\ [Next]_vars => TypeOK'
  <2> SUFFICES ASSUME TypeOK, [Next]_vars
               PROVE  TypeOK'
    OBVIOUS
  <2>1. CASE Reset
    BY <2>1 DEF Reset, TypeOK
  <2>2. ASSUME NEW i, WellFormed(i), Supported(i), Clock(i)
        PROVE  TypeOK'
    <3>1. (mem_taints \in [Addr -> SUBSET Bits])'
      BY <2>2 DEF Clock, TaintWrite, TypeOK, WellFormed
    <3>2. (rdata_o_taint_before_conservative \in SUBSET Bits)'
      BY <2>2 DEF Clock, TaintRead, TypeOK, WellFormed
    <3>3. (is_mem_fully_tainted_q \in BOOLEAN)'
      <4>1. is_mem_fully_tainted_d(i) \in BOOLEAN
        BY DEF is_mem_fully_tainted_d
      <4>2. QED
        BY <2>2, <4>1 DEF Clock
    <3>4. (was_req_addr_tainted_q \in BOOLEAN)'
      <4>1. was_req_addr_tainted_d(i) \in BOOLEAN
        BY DEF was_req_addr_tainted_d
      <4>2. QED
        BY <2>2, <4>1 DEF Clock
    <3>5. (differs \in [Addr -> SUBSET Bits])'
      <4>1. ASSUME NEW a \in Addr
            PROVE  AfterWrite(differs[a], Written(i, 1, a), Written(i, 2, a), i.wdata) \in SUBSET Bits
        <5>1. Written(i, 1, a) \subseteq Bits /\ Written(i, 2, a) \subseteq Bits
          BY <2>2 DEF Written, In, WellFormed
        <5>2. differs[a] \subseteq Bits
          BY DEF TypeOK
        <5>3. QED
          BY <5>1, <5>2 DEF AfterWrite, Differing
      <4>2. QED
        BY <2>2, <4>1 DEF Clock
    <3>6. (rdiffers \in SUBSET Bits)'
      <4>1. ReadDataDiffers(i) \in SUBSET Bits
        BY <2>2 DEF ReadDataDiffers, TypeOK, WellFormed
      <4>2. QED
        BY <2>2, <4>1 DEF Clock
    <3>7. (fresh \in BOOLEAN)'
      <4>1. Reads(i, 1) \in BOOLEAN
        BY DEF Reads
      <4>2. QED
        BY <2>2, <4>1 DEF Clock
    <3>8. (controlled \in BOOLEAN)' /\ (dropped \in BOOLEAN)'
      BY <2>2 DEF Clock, TypeOK
    <3>9. QED
      BY <3>1, <3>2, <3>3, <3>4, <3>5, <3>6, <3>7, <3>8 DEF TypeOK
  <2>3. CASE UNCHANGED vars
    BY <2>3 DEF vars, flags, TypeOK
  <2>4. QED
    BY <2>1, <2>2, <2>3, StepCases
<1>3. QED
  BY <1>1, <1>2, PTL DEF Spec

-----------------------------------------------------------------------------
(* Stored taint. *)

\* Unless the step raises the full-taint flag, both runs write the same bits of the same
\* word, or neither writes.
LEMMA SameWrite ==
  ASSUME ~TaintedControls, ~PartialWrites, NEW i, WellFormed(i), Supported(i),
         ~is_mem_fully_tainted_d(i), NEW a
  PROVE  Written(i, 1, a) = Written(i, 2, a)
<1>1. CASE MayWrite(i)
  <2>1. ~i.req.t /\ ~i.write.t
    BY <1>1 DEF Supported
  <2>2. i.req.x = i.req.y /\ i.write.x = i.write.y /\ i.wmask.x = i.wmask.y
    BY <2>1 DEF WellFormed
  <2>3. CASE i.addr.t = {}
    BY <2>2, <2>3 DEF WellFormed, Written, Writes, In
  <2>4. CASE i.addr.t # {}
    <3>1. i.wmask.x = Bits
      BY <1>1, <2>4 DEF Supported
    <3>2. (i.wmask.x \cup i.wmask.t) \cap i.addr.t # {}
      BY <2>4, <3>1, WidthAssumption DEF WellFormed
    <3>3. QED
      BY <1>1, <3>2 DEF is_mem_fully_tainted_d
  <2>5. QED
    BY <2>3, <2>4
<1>2. CASE ~MayWrite(i)
  <2>1. ~Writes(i, 1) /\ ~Writes(i, 2)
    BY <1>2 DEF MayWrite, Writes, In, WellFormed
  <2>2. QED
    BY <2>1 DEF Written
<1>3. QED
  BY <1>1, <1>2

\* While the full-taint flag stays down, the stored taint follows the stored data.
LEMMA TaintFollows ==
  ASSUME TypeOK, ~TaintedControls, ~PartialWrites,
         NEW i, WellFormed(i), Supported(i), Clock(i),
         ~is_mem_fully_tainted_d(i), NEW a \in Addr
  PROVE  LET W == Written(i, 1, a)
         IN  /\ differs'[a] = (i.wdata \cap W) \cup (differs[a] \ W)
             /\ mem_taints'[a] = (i.wdata \cap W) \cup (mem_taints[a] \ W)
<1> DEFINE W == Written(i, 1, a)
<1>1. Written(i, 2, a) = W
  BY SameWrite
<1>2. differs'[a] = AfterWrite(differs[a], W, Written(i, 2, a), i.wdata)
  BY DEF Clock
<1>3. differs'[a] = (i.wdata \cap W) \cup (differs[a] \ W)
  BY <1>1, <1>2 DEF AfterWrite, Differing
<1>4. mem_taints'[a] = (i.wdata \cap W) \cup (mem_taints[a] \ W)
  <2>1. CASE Writes(i, 1) /\ a = i.addr.x
    <3>1. W = i.wmask.x
      BY <2>1 DEF Written, In
    <3>2. mem_taints'[a] = (mem_taints[a] \ i.wmask.x) \cup (i.wdata \cap i.wmask.x)
      BY <2>1 DEF Clock, TaintWrite, TypeOK
    <3>3. QED
      BY <3>1, <3>2
  <2>2. CASE ~(Writes(i, 1) /\ a = i.addr.x)
    <3>1. W = {}
      BY <2>2 DEF Written, In
    <3>2. mem_taints'[a] = mem_taints[a]
      BY <2>2 DEF Clock, TaintWrite, TypeOK
    <3>3. QED
      BY <3>1, <3>2
  <2>3. QED
    BY <2>1, <2>2
<1>5. QED
  BY <1>3, <1>4

\* With untainted write controls and whole-word writes at tainted addresses, no stored
\* taint is lost until a reset clears a raised flag.
THEOREM NoStoredTaintLost ==
  ASSUME ~TaintedControls, ~PartialWrites
  PROVE  Spec => []StoredTaintSound
<1>1. Init => StoredTaintSound
  BY DEF Init, StoredTaintSound
<1>2. TypeOK /\ StoredTaintSound /\ [Next]_vars => StoredTaintSound'
  <2> SUFFICES ASSUME TypeOK, StoredTaintSound, [Next]_vars
               PROVE  StoredTaintSound'
    OBVIOUS
  <2>1. CASE Reset
    BY <2>1 DEF Reset, StoredTaintSound
  <2>2. ASSUME NEW i, WellFormed(i), Supported(i), Clock(i)
        PROVE  StoredTaintSound'
    <3> SUFFICES ASSUME ~dropped, ~is_mem_fully_tainted_d(i), NEW a \in Addr
                 PROVE  differs'[a] \subseteq mem_taints'[a]
      BY <2>2 DEF StoredTaintSound, Clock
    <3>1. differs[a] \subseteq mem_taints[a]
      BY DEF StoredTaintSound, is_mem_fully_tainted_d
    <3>2. QED
      BY <2>2, <3>1, TaintFollows
  <2>3. CASE UNCHANGED vars
    BY <2>3 DEF vars, flags, StoredTaintSound
  <2>4. QED
    BY <2>1, <2>2, <2>3, StepCases
<1>3. QED
  BY <1>1, <1>2, TypeCorrect, PTL DEF Spec

-----------------------------------------------------------------------------
(* Reads. *)

\* A read whose controls carry no taint reads the same word in both runs.
LEMMA SameRead ==
  ASSUME NEW i, WellFormed(i), Reads(i, 1), ~was_req_addr_tainted_d(i)
  PROVE  Reads(i, 2) /\ i.addr.x = i.addr.y
BY DEF WellFormed, Reads, In, was_req_addr_tainted_d

\* No taint is lost on the way out: in the cycle after a read, every bit of rdata_o that
\* tainted inputs may have changed is tainted.
THEOREM FreshReadsAreSound ==
  ASSUME ~TaintedControls, ~PartialWrites
  PROVE  Spec => []FreshReadSound
<1>1. Init => FreshReadSound
  BY DEF Init, FreshReadSound
<1>2. TypeOK /\ StoredTaintSound /\ FreshReadSound /\ [Next]_vars => FreshReadSound'
  <2> SUFFICES ASSUME TypeOK, StoredTaintSound, FreshReadSound, [Next]_vars
               PROVE  FreshReadSound'
    OBVIOUS
  <2>1. CASE Reset
    BY <2>1 DEF Reset, FreshReadSound
  <2>2. ASSUME NEW i, WellFormed(i), Supported(i), Clock(i), Reads(i, 1), ~dropped
        PROVE  rdiffers' \subseteq rdata_o_taint'
    <3>1. rdata_o_taint' = mem_taints[i.addr.x] \cup
            (IF was_req_addr_tainted_d(i) \/ is_mem_fully_tainted_d(i) THEN Bits ELSE {})
      BY <2>2 DEF rdata_o_taint, Clock, TaintRead
    <3>2. rdiffers' = ReadDataDiffers(i)
      BY <2>2 DEF Clock
    <3>3. CASE was_req_addr_tainted_d(i) \/ is_mem_fully_tainted_d(i)
      <4>1. ReadDataDiffers(i) \subseteq Bits
        BY <2>2 DEF ReadDataDiffers, TypeOK, WellFormed
      <4>2. QED
        BY <3>1, <3>2, <3>3, <4>1
    <3>4. CASE ~was_req_addr_tainted_d(i) /\ ~is_mem_fully_tainted_d(i)
      <4>1. rdiffers' = differs[i.addr.x]
        BY <2>2, <3>2, <3>4, SameRead DEF ReadDataDiffers
      <4>2. differs[i.addr.x] \subseteq mem_taints[i.addr.x]
        BY <2>2, <3>4 DEF StoredTaintSound, is_mem_fully_tainted_d, WellFormed
      <4>3. QED
        BY <3>1, <4>1, <4>2
    <3>5. QED
      BY <3>3, <3>4
  <2>3. CASE UNCHANGED vars
    BY <2>3 DEF vars, flags, FreshReadSound, rdata_o_taint
  <2>4. ASSUME NEW i, WellFormed(i), Supported(i), Clock(i)
        PROVE  FreshReadSound'
    BY <2>2, <2>4 DEF FreshReadSound, Clock
  <2>5. QED
    BY <2>1, <2>3, <2>4, StepCases
<1>3. QED
  BY <1>1, <1>2, TypeCorrect, NoStoredTaintLost, PTL DEF Spec

-----------------------------------------------------------------------------
(* Exactness. *)

\* MaskedWritesExact, strengthened with the flags and the registered taint.
ExactInv ==
  controlled =>
    /\ ~is_mem_fully_tainted_q
    /\ mem_taints = differs
    /\ fresh => ~was_req_addr_tainted_q /\ rdata_o_taint_before_conservative = rdiffers

\* While only data are tainted, masked writes taint and clean exactly the bits they write,
\* and a read returns exactly the taint of the bits it returns.
THEOREM MaskedWritesAreExact ==
  ASSUME ~TaintedControls, ~PartialWrites
  PROVE  Spec => []MaskedWritesExact
<1>1. Init => ExactInv
  BY DEF Init, ExactInv
<1>2. TypeOK /\ ExactInv /\ [Next]_vars => ExactInv'
  <2> SUFFICES ASSUME TypeOK, ExactInv, [Next]_vars
               PROVE  ExactInv'
    OBVIOUS
  <2>1. CASE Reset
    BY <2>1 DEF Reset, ExactInv
  <2>2. ASSUME NEW i, WellFormed(i), Supported(i), Clock(i), controlled'
        PROVE  /\ ~is_mem_fully_tainted_q'
               /\ mem_taints' = differs'
               /\ fresh' => /\ ~was_req_addr_tainted_q'
                            /\ rdata_o_taint_before_conservative' = rdiffers'
    <3>1. controlled /\ Untainted(i)
      BY <2>2 DEF Clock
    <3>2. ~is_mem_fully_tainted_d(i) /\ ~was_req_addr_tainted_d(i)
      BY <3>1 DEF Untainted, ExactInv, is_mem_fully_tainted_d, was_req_addr_tainted_d
    <3>3. mem_taints = differs
      BY <3>1 DEF ExactInv
    <3>4. \A a \in Addr : mem_taints'[a] = differs'[a]
      BY <2>2, <3>2, <3>3, TaintFollows
    <3>5. mem_taints' \in [Addr -> SUBSET Bits]
      BY <2>2 DEF Clock, TaintWrite, TypeOK, WellFormed
    <3>6. DOMAIN differs' = Addr /\ differs' = [a \in Addr |-> differs'[a]]
      BY <2>2 DEF Clock
    <3>7. mem_taints' = differs'
      BY <3>4, <3>5, <3>6
    <3>8. ASSUME fresh'
          PROVE  rdata_o_taint_before_conservative' = rdiffers'
      <4>1. Reads(i, 1)
        BY <2>2, <3>8 DEF Clock
      <4>2. rdiffers' = differs[i.addr.x]
        BY <2>2, <3>2, <4>1, SameRead DEF Clock, ReadDataDiffers
      <4>3. QED
        BY <2>2, <3>3, <4>1, <4>2 DEF Clock, TaintRead
    <3>9. QED
      BY <2>2, <3>2, <3>7, <3>8 DEF Clock
  <2>3. CASE UNCHANGED vars
    BY <2>3 DEF vars, flags, ExactInv
  <2>4. ASSUME NEW i, WellFormed(i), Supported(i), Clock(i)
        PROVE  ExactInv'
    BY <2>2, <2>4 DEF ExactInv
  <2>5. QED
    BY <2>1, <2>3, <2>4, StepCases
<1>3. ExactInv => MaskedWritesExact
  BY DEF ExactInv, MaskedWritesExact, rdata_o_taint
<1>4. QED
  BY <1>1, <1>2, <1>3, TypeCorrect, PTL DEF Spec

=============================================================================
