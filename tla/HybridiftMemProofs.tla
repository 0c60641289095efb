------------------------- MODULE HybridiftMemProofs -------------------------
(***************************************************************************)
(* Proofs that the generated taint logic loses no taint, for every role    *)
(* configuration, address width and data width.                            *)
(***************************************************************************)
EXTENDS HybridiftMem, TLAPS

\* What every input of a clock cycle satisfies.
WellFormed(i) ==
  /\ i.raddr.x \in Addr /\ i.raddr.y \in Addr /\ i.raddr.t \in BOOLEAN
  /\ i.waddr.x \in Addr /\ i.waddr.y \in Addr /\ i.waddr.t \in BOOLEAN
  /\ i.raddr.x # i.raddr.y => i.raddr.t
  /\ i.waddr.x # i.waddr.y => i.waddr.t
  /\ Combined => i.waddr = i.raddr
  /\ i.din \subseteq Bits
  /\ i.en.x \in BOOLEAN /\ i.en.y \in BOOLEAN /\ i.en.t \in BOOLEAN
  /\ i.we.x \in BOOLEAN /\ i.we.y \in BOOLEAN /\ i.we.t \in BOOLEAN
  /\ i.wmode.x \in BOOLEAN /\ i.wmode.y \in BOOLEAN /\ i.wmode.t \in BOOLEAN
  /\ i.en.x # i.en.y => i.en.t
  /\ i.we.x # i.we.y => i.we.t
  /\ i.wmode.x # i.wmode.y => i.wmode.t
  /\ i.wmask.x \in {{}, Bits} /\ i.wmask.y \in {{}, Bits} /\ i.wmask.t \in {{}, Bits}
  /\ i.wmask.x # i.wmask.y => i.wmask.t = Bits
  /\ i.be.x \subseteq Bits /\ i.be.y \subseteq Bits /\ i.be.t \subseteq Bits
  /\ i.be.x # i.be.y => i.be.t # {}
  /\ ~Has("ENABLE") => i.en.x /\ i.en.y /\ ~i.en.t

\* A step is a meta reset or a clock edge with well-formed, supported inputs.
LEMMA StepCases ==
  ASSUME Next
  PROVE  MetaReset \/ \E i : WellFormed(i) /\ Supported(i) /\ Clock(i)
<1> SUFFICES ASSUME ~MetaReset
             PROVE  \E i : WellFormed(i) /\ Supported(i) /\ Clock(i)
  OBVIOUS
<1>1. PICK ra \in IF Combined THEN AddrSignal ELSE ReadAddrSignal, din \in SUBSET Bits,
           en    \in Port("ENABLE", BitSignal, Constant(TRUE, FALSE)),
           we    \in Port("WRITE_ENABLE", BitSignal, Constant(TRUE, FALSE)),
           wmode \in Port("WRITE_MODE", BitSignal, Constant(TRUE, FALSE)),
           wmask \in Port("WRITE_MASK", MaskSignal, Constant(Bits, {})),
           be    \in Port("BYTE_ENABLE_SIGNAL", LaneSignal, Constant(Bits, {})) :
        \E wa \in IF Combined THEN {ra} ELSE AddrSignal :
          LET i == [raddr |-> ra, waddr |-> wa, din |-> din, en |-> en, we |-> we,
                    wmode |-> wmode, wmask |-> wmask, be |-> be]
          IN  Supported(i) /\ Clock(i)
  BY DEF Next
<1> PICK wa \in IF Combined THEN {ra} ELSE AddrSignal :
      LET i == [raddr |-> ra, waddr |-> wa, din |-> din, en |-> en, we |-> we,
                wmode |-> wmode, wmask |-> wmask, be |-> be]
      IN  Supported(i) /\ Clock(i)
  BY <1>1
<1> DEFINE i == [raddr |-> ra, waddr |-> wa, din |-> din, en |-> en, we |-> we,
                 wmode |-> wmode, wmask |-> wmask, be |-> be]
<1>2. ra \in AddrSignal /\ wa \in AddrSignal /\ (Combined => wa = ra)
  BY <1>1 DEF ReadAddrSignal
<1>3. /\ ra.x \in Addr /\ ra.y \in Addr /\ ra.t \in BOOLEAN /\ (ra.x # ra.y => ra.t)
      /\ wa.x \in Addr /\ wa.y \in Addr /\ wa.t \in BOOLEAN /\ (wa.x # wa.y => wa.t)
  BY <1>2 DEF AddrSignal, ReducedSignal
<1>4. ASSUME NEW s, NEW role, s \in Port(role, BitSignal, Constant(TRUE, FALSE))
      PROVE  /\ s.x \in BOOLEAN /\ s.y \in BOOLEAN /\ s.t \in BOOLEAN
             /\ s.x # s.y => s.t
             /\ ~Has(role) => s.x /\ s.y /\ ~s.t
  <2>1. CASE Has(role)
    <3>1. s \in BitSignal
      BY <1>4, <2>1 DEF Port
    <3>2. QED
      BY <2>1, <3>1 DEF BitSignal, ReducedSignal
  <2>2. CASE ~Has(role)
    <3>1. s = [x |-> TRUE, y |-> TRUE, t |-> FALSE]
      BY <1>4, <2>2 DEF Port, Constant
    <3>2. s.x = TRUE /\ s.y = TRUE /\ s.t = FALSE
      BY <3>1
    <3>3. QED
      BY <2>2, <3>2
  <2>3. QED
    BY <2>1, <2>2
<1>5. ASSUME NEW s, s \in LaneSignal \/ s = Constant(Bits, {})
      PROVE  /\ s.x \subseteq Bits /\ s.y \subseteq Bits /\ s.t \subseteq Bits
             /\ s.x # s.y => s.t # {}
  <2>1. CASE s \in LaneSignal
    <3>1. /\ s.x \in SUBSET Bits /\ s.y \in SUBSET Bits /\ s.t \in SUBSET Bits
          /\ Differing(s.x, s.y) \subseteq s.t
      BY <2>1 DEF LaneSignal, WordSignal
    <3>2. s.x # s.y => Differing(s.x, s.y) # {}
      BY <3>1 DEF Differing
    <3>3. QED
      BY <3>1, <3>2
  <2>2. CASE s = Constant(Bits, {})
    BY <2>2 DEF Constant
  <2>3. QED
    BY <1>5, <2>1, <2>2
<1>6. /\ wmask.x \in {{}, Bits} /\ wmask.y \in {{}, Bits} /\ wmask.t \in {{}, Bits}
      /\ wmask.x # wmask.y => wmask.t # {}
  <2>1. CASE wmask \in MaskSignal
    BY <2>1, <1>5 DEF MaskSignal
  <2>2. CASE wmask = Constant(Bits, {})
    BY <2>2 DEF Constant
  <2>3. QED
    BY <1>1, <2>1, <2>2 DEF Port
<1>7. be.x \subseteq Bits /\ be.y \subseteq Bits /\ be.t \subseteq Bits /\ (be.x # be.y => be.t # {})
  BY <1>1, <1>5 DEF Port
<1>8. WellFormed(i)
  BY <1>1, <1>2, <1>3, <1>4, <1>6, <1>7, ZenonT(30) DEF WellFormed
<1>9. QED
  BY <1>1, <1>8

-----------------------------------------------------------------------------
(* The gates of a write. *)

\* The signals whose conjunction lets a write through, in the observed run and the twin.
Gate(i) == IF Has("WRITE_ENABLE") THEN i.we ELSE i.en

\* What the generated expression for a tainted conjunction computes: some signal is
\* tainted, and every signal is 1 or tainted.
LEMMA AndTaintMeaning ==
  ASSUME NEW a, NEW b, NEW c,
         a.x \in BOOLEAN, a.t \in BOOLEAN, b.x \in BOOLEAN, b.t \in BOOLEAN,
         c.x \in BOOLEAN, c.t \in BOOLEAN
  PROVE  AndTaint3(a, b, c) <=> /\ a.t \/ b.t \/ c.t
                                /\ (a.x \/ a.t) /\ (b.x \/ b.t) /\ (c.x \/ c.t)
BY Zenon DEF AndTaint3, AndTaint2, AndTaint1

\* The expression for the tainted write enable, in terms of the signals of the cycle.
LEMMA WriteEnableTaint ==
  ASSUME NEW i, WellFormed(i)
  PROVE  is_write_enable_tainted(i) <=>
           /\ Gate(i).t \/ i.be.t # {} \/ i.wmask.t # {}
           /\ Gate(i).x \/ Gate(i).t
           /\ i.be.x # {} \/ i.be.t # {}
           /\ i.wmask.x # {} \/ i.wmask.t # {}
<1> DEFINE g == Gate(i)
           m == MaskBit(i)
           b == ReducedByteEnable(i)
<1>1. Lsb \in Bits
  BY MemoryAssumption
<1>2. m.x = (i.wmask.x # {}) /\ m.t = (i.wmask.t # {})
  BY <1>1 DEF MaskBit, WellFormed
<1>3. b.x = (i.be.x # {}) /\ b.t = (i.be.t # {})
  BY DEF ReducedByteEnable
<1>4. /\ g.x \in BOOLEAN /\ g.t \in BOOLEAN
      /\ m.x \in BOOLEAN /\ m.t \in BOOLEAN
      /\ b.x \in BOOLEAN /\ b.t \in BOOLEAN
  BY <1>2, <1>3 DEF Gate, WellFormed
<1>5. is_write_enable_tainted(i) <=>
        IF Has("WRITE_ENABLE") THEN AndTaint3(g, b, m) ELSE AndTaint3(m, b, g)
  BY DEF is_write_enable_tainted, Gate
<1> HIDE DEF g, m, b
<1>6. AndTaint3(g, b, m) <=> (g.t \/ b.t \/ m.t) /\ (g.x \/ g.t) /\ (b.x \/ b.t) /\ (m.x \/ m.t)
  BY <1>4, AndTaintMeaning
<1>7. AndTaint3(m, b, g) <=> (m.t \/ b.t \/ g.t) /\ (m.x \/ m.t) /\ (b.x \/ b.t) /\ (g.x \/ g.t)
  BY <1>4, AndTaintMeaning
<1>8. is_write_enable_tainted(i) <=>
        (g.t \/ b.t \/ m.t) /\ (g.x \/ g.t) /\ (b.x \/ b.t) /\ (m.x \/ m.t)
  BY <1>5, <1>6, <1>7
<1>9. QED
  BY <1>2, <1>3, <1>8 DEF g

\* A memory whose write enable works alone, as the generator assumes of memories that
\* have both enables.
Independent == EnableGatesWrites => ~(Has("WRITE_ENABLE") /\ Has("ENABLE"))

\* When no write-enable taint is raised, the twin writes exactly what the observed run
\* writes, up to the address, and the shadow memory is written in the same cycles.
LEMMA SameWrite ==
  ASSUME NEW i, WellFormed(i), Supported(i), Independent, ~is_write_enable_tainted(i)
  PROVE  \/ /\ ShadowWrites(i) /\ my_is_write_enabled(i)
            /\ WriteMode(i, 1) /\ i.be.x = Bits /\ i.wmask.x = Bits
            /\ WriteMode(i, 2) /\ i.be.y = Bits /\ i.wmask.y = Bits
         \/ /\ ~ShadowWrites(i)
            /\ ~WriteMode(i, 1) \/ i.wmask.x = {}
            /\ ~WriteMode(i, 2) \/ i.be.y \cap i.wmask.y = {}
<1>1. Lsb \in Bits
  BY MemoryAssumption
<1>2. /\ WriteMode(i, 1) <=> i.wmode.x /\ Gate(i).x
      /\ WriteMode(i, 2) <=> i.wmode.y /\ Gate(i).y
      /\ ShadowWrites(i) <=> i.wmode.x /\ Gate(i).x /\ i.wmask.x # {}
  BY DEF WriteMode, ShadowWrites, Gate, In, Independent, WellFormed
<1>3. /\ i.wmode.x = i.wmode.y
      /\ Gate(i).x # Gate(i).y => Gate(i).t
      /\ Gate(i).x \in BOOLEAN /\ Gate(i).y \in BOOLEAN /\ Gate(i).t \in BOOLEAN
  BY DEF WellFormed, Supported, Gate
<1>4. \/ ~Gate(i).t /\ i.be.t = {} /\ i.wmask.t = {}
      \/ ~Gate(i).x /\ ~Gate(i).t
      \/ i.be.x = {} /\ i.be.t = {}
      \/ i.wmask.x = {} /\ i.wmask.t = {}
  BY WriteEnableTaint
<1>5. CASE ShadowWrites(i)
  <2>1. i.wmode.x /\ Gate(i).x /\ i.wmask.x = Bits
    BY <1>2, <1>5 DEF WellFormed
  <2>2. ~Gate(i).t /\ i.be.t = {} /\ i.wmask.t = {}
    BY <1>1, <1>2, <1>4, <1>5, <2>1 DEF Supported
  <2>3. Gate(i).y /\ i.wmode.y /\ i.be.y = i.be.x /\ i.wmask.y = i.wmask.x
    BY <1>1, <1>3, <2>1, <2>2 DEF WellFormed
  <2>4. my_is_write_enabled(i)
    BY <1>1, <1>2, <2>1 DEF my_is_write_enabled, MaskBit, ReducedByteEnable, Gate, Supported
  <2>5. QED
    BY <1>2, <1>5, <2>1, <2>3, <2>4 DEF Supported
<1>6. CASE ~ShadowWrites(i)
  <2>1. ~WriteMode(i, 1) \/ i.wmask.x = {}
    BY <1>2, <1>6
  <2>2. ~WriteMode(i, 2) \/ i.be.y \cap i.wmask.y = {}
    <3>1. SUFFICES ASSUME i.wmode.x, Gate(i).y, i.be.y \cap i.wmask.y # {}
                   PROVE  FALSE
      BY <1>2, <1>3
    <3>2. Gate(i).x \/ Gate(i).t
      BY <1>3, <3>1
    <3>3. /\ i.be.x # {} \/ i.be.t # {}
          /\ i.wmask.x # {} \/ i.wmask.t # {}
      BY <1>1, <3>1 DEF WellFormed
    <3>4. ~Gate(i).t /\ i.be.t = {} /\ i.wmask.t = {}
      BY <1>4, <3>2, <3>3
    <3>5. Gate(i).x /\ i.wmask.x # {}
      BY <3>2, <3>3, <3>4
    <3>6. QED
      BY <1>2, <1>6, <3>1, <3>5
  <2>3. QED
    BY <1>6, <2>1, <2>2
<1>7. QED
  BY <1>5, <1>6

-----------------------------------------------------------------------------
(* Types. *)

\* Every register of the taint logic keeps the width it is declared with.
THEOREM TypeCorrect == Spec => []TypeOK
<1>1. Init => TypeOK
  BY DEF Init, TypeOK, Untainted
<1>2. TypeOK /\ [Next]_vars => TypeOK'
  <2> SUFFICES ASSUME TypeOK, [Next]_vars
               PROVE  TypeOK'
    OBVIOUS
  <2>1. CASE MetaReset
    BY <2>1 DEF MetaReset, TypeOK, Untainted
  <2>2. ASSUME NEW i, WellFormed(i), Supported(i), Clock(i)
        PROVE  TypeOK'
    <3>1. (taint_mem \in [ShadowAddr -> SUBSET Bits])'
      BY <2>2 DEF Clock, ShadowWrite, TypeOK, WellFormed
    <3>2. (taint_mem_signal_out \in SUBSET Bits)'
      BY <2>2 DEF Clock, ShadowRead, TypeOK
    <3>3. (permanent_taint_q \in BOOLEAN)'
      <4>1. permanent_taint_d(i) \in BOOLEAN
        BY DEF permanent_taint_d
      <4>2. QED
        BY <2>2, <4>1 DEF Clock
    <3>4. (is_read_temporary_taint_q \in BOOLEAN)'
      <4>1. is_read_temporary_taint_d(i) \in BOOLEAN
        BY <2>2 DEF is_read_temporary_taint_d, WellFormed
      <4>2. QED
        BY <2>2, <4>1 DEF Clock
    <3>5. (differs \in [Addr -> SUBSET Bits])'
      <4>1. ASSUME NEW a \in Addr
            PROVE  AfterWrite(differs[a], Written(i, 1, a), Written(i, 2, a), i.din) \in SUBSET Bits
        <5>1. Written(i, 1, a) \subseteq Bits /\ Written(i, 2, a) \subseteq Bits
          BY <2>2 DEF Written, In, WellFormed
        <5>2. differs[a] \subseteq Bits
          BY DEF TypeOK
        <5>3. QED
          BY <5>1, <5>2 DEF AfterWrite, Differing
      <4>2. QED
        BY <2>2, <4>1 DEF Clock
    <3>6. (rdiffers \in SUBSET Bits)'
      <4>1. ReadPortDiffers(i) \in SUBSET Bits
        BY <2>2 DEF ReadPortDiffers, ReadPort, TypeOK, WellFormed
      <4>2. QED
        BY <2>2, <4>1 DEF Clock
    <3>7. (shown \in {"read", "gap", "other"})'
      BY <2>2 DEF Clock, ShownNext
    <3>8. (seen \in {"nothing", "data", "control"})'
      BY <2>2 DEF Clock, SeenNext
    <3>9. QED
      BY <3>1, <3>2, <3>3, <3>4, <3>5, <3>6, <3>7, <3>8 DEF TypeOK
  <2>3. CASE UNCHANGED vars
    BY <2>3 DEF vars, taintVars, TypeOK
  <2>4. QED
    BY <2>1, <2>2, <2>3, StepCases
<1>3. QED
  BY <1>1, <1>2, PTL DEF Spec

-----------------------------------------------------------------------------
(* Soundness. *)

\* While the sticky flag stays down, a clock edge writes the same bits in both runs and the
\* shadow memory follows them: a word gets the new data with their taint, or keeps both.
LEMMA ShadowFollows ==
  ASSUME TypeOK, Independent, NEW i, WellFormed(i), Supported(i), Clock(i),
         ~permanent_taint_d(i), NEW a \in ShadowAddr
  PROVE  \/ differs'[a] = taint_mem'[a]
         \/ differs'[a] = differs[a] /\ taint_mem'[a] = taint_mem[a]
<1>1. /\ ~is_write_enable_tainted(i)
      /\ my_is_write_enabled(i) => ~i.waddr.t
  BY DEF permanent_taint_d
<1>2. a \in Addr
  BY MemoryAssumption DEF ShadowAddr, Addr
<1>3. differs'[a] = AfterWrite(differs[a], Written(i, 1, a), Written(i, 2, a), i.din)
  BY <1>2 DEF Clock
<1>4. CASE ShadowWrites(i)
  <2>1. /\ my_is_write_enabled(i)
        /\ WriteMode(i, 1) /\ i.be.x = Bits /\ i.wmask.x = Bits
        /\ WriteMode(i, 2) /\ i.be.y = Bits /\ i.wmask.y = Bits
    BY <1>1, <1>4, SameWrite
  <2>2. i.waddr.x = i.waddr.y
    BY <1>1, <2>1 DEF WellFormed
  <2>3. Written(i, 1, a) = Written(i, 2, a)
    BY <2>1, <2>2 DEF Written, In
  <2>4. CASE a = i.waddr.x
    <3>1. Written(i, 1, a) = Bits
      BY <2>1, <2>4 DEF Written, In
    <3>2. taint_mem'[a] = i.din
      BY <1>4, <2>4 DEF Clock, ShadowWrite, TypeOK
    <3>3. differs[a] \subseteq Bits /\ i.din \subseteq Bits
      BY <1>2 DEF TypeOK, WellFormed
    <3>4. differs'[a] = i.din
      BY <1>3, <2>3, <3>1, <3>3 DEF AfterWrite, Differing
    <3>5. QED
      BY <3>2, <3>4
  <2>5. CASE a # i.waddr.x
    <3>1. Written(i, 1, a) = {}
      BY <2>5 DEF Written, In
    <3>2. taint_mem'[a] = taint_mem[a]
      BY <2>5 DEF Clock, ShadowWrite, TypeOK
    <3>3. differs'[a] = differs[a]
      BY <1>3, <2>3, <3>1 DEF AfterWrite, Differing
    <3>4. QED
      BY <3>2, <3>3
  <2>6. QED
    BY <2>4, <2>5
<1>5. CASE ~ShadowWrites(i)
  <2>1. Written(i, 1, a) = {} /\ Written(i, 2, a) = {}
    BY <1>1, <1>5, SameWrite DEF Written, In
  <2>2. taint_mem'[a] = taint_mem[a]
    BY <1>5 DEF Clock, ShadowWrite
  <2>3. differs'[a] = differs[a]
    BY <1>3, <2>1 DEF AfterWrite, Differing
  <2>4. QED
    BY <2>2, <2>3
<1>6. QED
  BY <1>4, <1>5

\* A clock edge loses no taint inside the memory.
LEMMA ClockShadowSound ==
  ASSUME TypeOK, ShadowSound, Independent,
         NEW i, WellFormed(i), Supported(i), Clock(i)
  PROVE  ShadowSound'
<1> SUFFICES ASSUME ~permanent_taint_d(i), NEW a \in ShadowAddr
             PROVE  differs'[a] \subseteq taint_mem'[a]
  BY DEF ShadowSound, Clock
<1>1. differs[a] \subseteq taint_mem[a]
  BY DEF permanent_taint_d, ShadowSound
<1>2. QED
  BY <1>1, ShadowFollows

\* With no taint on the enables, both runs use the port in the same direction.
LEMMA SameDirection ==
  ASSUME NEW i, WellFormed(i), Supported(i), Independent,
         ~is_write_enable_tainted(i), ~i.en.t
  PROVE  Writing(i, 1) <=> Writing(i, 2)
<1>1. CASE Has("WRITE_MODE") /\ ~Has("WRITE_ENABLE")
  <2>1. WriteMode(i, 1) <=> WriteMode(i, 2)
    BY <1>1 DEF WriteMode, In, WellFormed, Supported
  <2>2. QED
    BY <1>1, <2>1 DEF Writing
<1>2. CASE ~(Has("WRITE_MODE") /\ ~Has("WRITE_ENABLE"))
  <2>1. \/ /\ WriteMode(i, 1) /\ i.be.x \cap i.wmask.x # {}
           /\ WriteMode(i, 2) /\ i.be.y \cap i.wmask.y # {}
        \/ /\ ~WriteMode(i, 1) \/ i.be.x \cap i.wmask.x = {}
           /\ ~WriteMode(i, 2) \/ i.be.y \cap i.wmask.y = {}
    BY SameWrite, MemoryAssumption
  <2>2. QED
    BY <1>2, <2>1 DEF Writing, In
<1>3. QED
  BY <1>1, <1>2

\* With no taint on the controls of a read, the twin reads the same word.
LEMMA SameRead ==
  ASSUME Independent, NEW i, WellFormed(i), Supported(i), Clock(i), Reads(i, 1),
         ~is_write_enable_tainted(i), ~i.en.t, ~i.raddr.t
  PROVE  rdiffers' = differs[i.raddr.x]
<1>1. i.en.x /\ i.en.y /\ i.raddr.y = i.raddr.x
  BY DEF Reads, In, WellFormed
<1>2. Writing(i, 1) <=> Writing(i, 2)
  BY SameDirection
<1>3. Reads(i, 2)
  BY <1>1, <1>2 DEF Reads, In
<1>4. ReadPort(i, 1) = <<"mem", i.raddr.x>> /\ ReadPort(i, 2) = <<"mem", i.raddr.x>>
  BY <1>1, <1>3 DEF ReadPort, In
<1>5. QED
  BY <1>4 DEF Clock, ReadPortDiffers

\* The taint of the read port after a clock edge.
LEMMA NextTaintOut ==
  ASSUME NEW i, Clock(i)
  PROVE  TaintOut' = taint_mem_signal_out' \cup
           (IF permanent_taint_d(i) \/ is_read_temporary_taint_d(i) THEN {Lsb} ELSE {})
BY DEF TaintOut, Clock

\* A flag raised by a clock edge taints the read port.
LEMMA FlagTaintsPort ==
  ASSUME NEW i, Clock(i), permanent_taint_d(i) \/ is_read_temporary_taint_d(i)
  PROVE  TaintOut' # {}
BY NextTaintOut

\* After a clock edge on which the observed run read a shadowed word, the read port is
\* tainted if it may differ: the twin read the same word, or a flag is raised.
LEMMA ClockReadSound ==
  ASSUME TypeOK, ShadowSound, Independent, ~TaintedReadAddr,
         NEW i, WellFormed(i), Supported(i), Clock(i),
         Reads(i, 1), i.raddr.x \in ShadowAddr
  PROVE  rdiffers' # {} => TaintOut' # {}
<1>1. CASE permanent_taint_d(i) \/ is_read_temporary_taint_d(i)
  BY <1>1, FlagTaintsPort
<1>2. CASE ~permanent_taint_d(i) /\ ~is_read_temporary_taint_d(i)
  <2>1. ~is_write_enable_tainted(i) /\ ~permanent_taint_q
    BY <1>2 DEF permanent_taint_d
  <2>2. i.en.x
    BY DEF Reads, In
  <2>3. ~i.en.t /\ ~i.raddr.t
    BY <1>2, <2>2 DEF is_read_temporary_taint_d, Supported, WellFormed
  <2>4. rdiffers' = differs[i.raddr.x]
    BY <2>1, <2>3, SameRead
  <2>5. taint_mem_signal_out' = taint_mem[i.raddr.x]
    BY <2>2 DEF Clock, ShadowRead
  <2>6. QED
    BY <2>1, <2>4, <2>5, NextTaintOut DEF ShadowSound
<1>3. QED
  BY <1>1, <1>2

\* No taint is lost inside an instrumented memory whose write enable works alone: a
\* stored bit that tainted inputs may have changed is tainted, at every address that has
\* a shadow word, until the next meta reset.
THEOREM NoTaintLostInside ==
  ASSUME Independent
  PROVE  Spec => []ShadowSound
<1>1. Init => ShadowSound
  <2>1. \A a \in ShadowAddr : a \in Addr
    BY MemoryAssumption DEF ShadowAddr, Addr
  <2>2. QED
    BY <2>1 DEF Init, ShadowSound, Untainted
<1>2. TypeOK /\ ShadowSound /\ [Next]_vars => ShadowSound'
  <2> SUFFICES ASSUME TypeOK, ShadowSound, [Next]_vars
               PROVE  ShadowSound'
    OBVIOUS
  <2>1. CASE MetaReset
    <3>1. \A a \in ShadowAddr : a \in Addr
      BY MemoryAssumption DEF ShadowAddr, Addr
    <3>2. QED
      BY <2>1, <3>1 DEF MetaReset, ShadowSound, Untainted
  <2>2. ASSUME NEW i, WellFormed(i), Supported(i), Clock(i)
        PROVE  ShadowSound'
    BY <2>2, ClockShadowSound
  <2>3. CASE UNCHANGED vars
    BY <2>3 DEF vars, taintVars, ShadowSound
  <2>4. QED
    BY <2>1, <2>2, <2>3, StepCases
<1>3. QED
  BY <1>1, <1>2, TypeCorrect, PTL DEF Spec

\* No taint is lost on the way out either: whatever happened before, in the cycle after a
\* read of a shadowed word the taint port reports a word tainted inputs may have changed.
THEOREM FreshReadsAreSound ==
  ASSUME Independent, ~TaintedReadAddr
  PROVE  Spec => []FreshReadSound
<1>1. Init => FreshReadSound
  BY DEF Init, FreshReadSound
<1>2. TypeOK /\ ShadowSound /\ FreshReadSound /\ [Next]_vars => FreshReadSound'
  <2> SUFFICES ASSUME TypeOK, ShadowSound, FreshReadSound, [Next]_vars
               PROVE  FreshReadSound'
    OBVIOUS
  <2>1. CASE MetaReset
    BY <2>1 DEF MetaReset, FreshReadSound
  <2>2. ASSUME NEW i, WellFormed(i), Supported(i), Clock(i)
        PROVE  FreshReadSound'
    <3> SUFFICES ASSUME shown' = "read"
                 PROVE  rdiffers' # {} => TaintOut' # {}
      BY DEF FreshReadSound
    <3>1. ShownNext(i) = "read"
      BY <2>2 DEF Clock
    <3>2. Reads(i, 1) /\ i.raddr.x \in ShadowAddr
      BY <3>1 DEF ShownNext, Reads, In
    <3>3. QED
      BY <2>2, <3>2, ClockReadSound
  <2>3. CASE UNCHANGED vars
    BY <2>3 DEF vars, taintVars, FreshReadSound, TaintOut
  <2>4. QED
    BY <2>1, <2>2, <2>3, StepCases
<1>3. QED
  BY <1>1, <1>2, TypeCorrect, NoTaintLostInside, PTL DEF Spec

\* A memory that drives zero in every cycle it does not read never shows untracked taint,
\* in any cycle: when the runs disagree about reading, a flag is raised.
THEOREM ZeroingOutputIsSound ==
  ASSUME Independent, ~TaintedReadAddr, OutputStyle = "zero"
  PROVE  Spec => []OutputSound
<1>1. Init => OutputSound
  BY DEF Init, OutputSound
<1>2. TypeOK /\ ShadowSound /\ OutputSound /\ [Next]_vars => OutputSound'
  <2> SUFFICES ASSUME TypeOK, ShadowSound, OutputSound, [Next]_vars
               PROVE  OutputSound'
    OBVIOUS
  <2>1. CASE MetaReset
    BY <2>1 DEF MetaReset, OutputSound
  <2>2. ASSUME NEW i, WellFormed(i), Supported(i), Clock(i)
        PROVE  OutputSound'
    <3> SUFFICES ASSUME shown' # "gap"
                 PROVE  rdiffers' # {} => TaintOut' # {}
      BY DEF OutputSound
    <3>1. CASE Reads(i, 1)
      <4>1. i.raddr.x \in ShadowAddr
        BY <2>2, <3>1 DEF Clock, ShownNext, Reads, In
      <4>2. QED
        BY <2>2, <3>1, <4>1, ClockReadSound
    <3>2. CASE permanent_taint_d(i) \/ is_read_temporary_taint_d(i)
      BY <2>2, <3>2, FlagTaintsPort
    <3>3. CASE ~Reads(i, 1) /\ ~permanent_taint_d(i) /\ ~is_read_temporary_taint_d(i)
      <4>1. ~i.en.t /\ ~is_write_enable_tainted(i)
        BY <2>2, <3>3 DEF permanent_taint_d, is_read_temporary_taint_d, WellFormed
      <4>2. i.en.x = i.en.y
        BY <2>2, <4>1 DEF WellFormed
      <4>3. Writing(i, 1) <=> Writing(i, 2)
        BY <2>2, <4>1, SameDirection
      <4>4. ~Reads(i, 2)
        BY <3>3, <4>2, <4>3 DEF Reads, In
      <4>5. ReadPort(i, 1) = <<"zero", 0>> /\ ReadPort(i, 2) = <<"zero", 0>>
        BY <3>3, <4>4 DEF ReadPort
      <4>6. QED
        BY <2>2, <4>5 DEF Clock, ReadPortDiffers
    <3>4. QED
      BY <3>1, <3>2, <3>3
  <2>3. CASE UNCHANGED vars
    BY <2>3 DEF vars, taintVars, OutputSound, TaintOut
  <2>4. QED
    BY <2>1, <2>2, <2>3, StepCases
<1>3. QED
  BY <1>1, <1>2, TypeCorrect, NoTaintLostInside, PTL DEF Spec

-----------------------------------------------------------------------------
(* Exactness of the explicit flows. *)

\* ExplicitExact, strengthened with the flags that make the read port inexact.
ExplicitInv ==
  seen # "control" =>
    /\ ~permanent_taint_q /\ ~is_read_temporary_taint_q
    /\ \A a \in ShadowAddr : taint_mem[a] = differs[a]
    /\ shown = "read" => taint_mem_signal_out = rdiffers

\* As long as only data inputs are tainted, the taint logic neither loses nor invents
\* taint, at any shadowed address and for any interleaving of reads and writes.
THEOREM DataFlowsAreExact ==
  ASSUME Independent
  PROVE  Spec => []ExplicitExact
<1>1. Init => ExplicitInv
  <2>1. \A a \in ShadowAddr : a \in Addr
    BY MemoryAssumption DEF ShadowAddr, Addr
  <2>2. QED
    BY <2>1 DEF Init, ExplicitInv, Untainted
<1>2. TypeOK /\ ExplicitInv /\ [Next]_vars => ExplicitInv'
  <2> SUFFICES ASSUME TypeOK, ExplicitInv, [Next]_vars
               PROVE  ExplicitInv'
    OBVIOUS
  <2>1. CASE MetaReset
    <3>1. \A a \in ShadowAddr : a \in Addr
      BY MemoryAssumption DEF ShadowAddr, Addr
    <3>2. QED
      BY <2>1, <3>1 DEF MetaReset, ExplicitInv, Untainted
  <2>2. ASSUME NEW i, WellFormed(i), Supported(i), Clock(i), seen' # "control"
        PROVE  /\ ~permanent_taint_q' /\ ~is_read_temporary_taint_q'
               /\ \A a \in ShadowAddr : taint_mem'[a] = differs'[a]
               /\ shown' = "read" => taint_mem_signal_out' = rdiffers'
    <3>1. seen # "control" /\ ~ControlTaint(i)
      BY <2>2 DEF Clock, SeenNext
    <3>2. /\ ~i.raddr.t /\ ~i.waddr.t /\ ~i.en.t /\ ~i.we.t
          /\ i.be.t = {} /\ i.wmask.t = {}
      BY <3>1 DEF ControlTaint
    <3>3. ~is_write_enable_tainted(i)
      BY <2>2, <3>2, WriteEnableTaint DEF Gate
    <3>4. ~permanent_taint_d(i) /\ ~is_read_temporary_taint_d(i)
      BY <3>1, <3>2, <3>3 DEF permanent_taint_d, is_read_temporary_taint_d, ExplicitInv
    <3>5. ~permanent_taint_q' /\ ~is_read_temporary_taint_q'
      BY <2>2, <3>4 DEF Clock
    <3>6. ASSUME NEW a \in ShadowAddr
          PROVE  taint_mem'[a] = differs'[a]
      <4>1. taint_mem[a] = differs[a]
        BY <3>1 DEF ExplicitInv
      <4>2. QED
        BY <2>2, <3>4, <4>1, ShadowFollows
    <3>7. ASSUME shown' = "read"
          PROVE  taint_mem_signal_out' = rdiffers'
      <4>1. ShownNext(i) = "read"
        BY <2>2, <3>7 DEF Clock
      <4>2. Reads(i, 1) /\ i.en.x /\ i.raddr.x \in ShadowAddr
        BY <4>1 DEF ShownNext, Reads, In
      <4>3. taint_mem_signal_out' = taint_mem[i.raddr.x]
        BY <2>2, <4>2 DEF Clock, ShadowRead
      <4>4. rdiffers' = differs[i.raddr.x]
        BY <2>2, <3>2, <3>3, <4>2, SameRead
      <4>5. QED
        BY <3>1, <4>2, <4>3, <4>4 DEF ExplicitInv
    <3>8. QED
      BY <3>5, <3>6, <3>7
  <2>3. CASE UNCHANGED vars
    BY <2>3 DEF vars, taintVars, ExplicitInv
  <2>4. ASSUME NEW i, WellFormed(i), Supported(i), Clock(i)
        PROVE  ExplicitInv'
    BY <2>2, <2>4 DEF ExplicitInv
  <2>5. QED
    BY <2>1, <2>3, <2>4, StepCases
<1>3. ExplicitInv => ExplicitExact
  BY DEF ExplicitInv, ExplicitExact, TaintOut
<1>4. QED
  BY <1>1, <1>2, <1>3, TypeCorrect, PTL DEF Spec

=============================================================================
