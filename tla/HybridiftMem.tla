---------------------------- MODULE HybridiftMem ----------------------------
(***************************************************************************)
(* The taint logic hybridift.py generates into one memory module           *)
(* (instrument_sram): a shadow memory for explicit flows, one sticky and   *)
(* one single-cycle flag for implicit flows, and the taint of the read     *)
(* port.  It is composed with the memory it instruments, whose observable  *)
(* behaviour is external, and run as a pair of executions (TwinRuns).      *)
(***************************************************************************)
EXTENDS Integers, TwinRuns

CONSTANTS
  Roles,             \* the keys of role_dict: which ports the memory has
  Depth,             \* number of words, 2**addr_width
  Bits,              \* the bits of a data word
  Lsb,               \* the least significant bit of a word, or lane of a mask
  OutputStyle,       \* read port when the memory does not read: "zero", "hold", "through"
  EnableGatesWrites, \* whether this memory ignores WRITE_ENABLE while ENABLE is low
  TaintedReadAddr,   \* whether an always-reading memory may see a tainted read address
  OverTaint          \* whether inputs in which the two runs agree may be tainted

PortRole ==
  {"INPUT_DATA", "READ_ADDRESS_SIGNAL", "WRITE_ADDRESS_SIGNAL",
   "COMBINED_ADDRESS_SIGNAL", "BYTE_ENABLE_SIGNAL", "WRITE_ENABLE",
   "READ_ENABLE", "ENABLE", "WRITE_MASK", "WRITE_MODE"}

Has(role) == role \in Roles
Combined == Has("COMBINED_ADDRESS_SIGNAL")

\* The role analysis accepts one combined address port or a read and a write
\* address port, and the generator asserts that some enable gates writes.
ASSUME RolesAssumption ==
  /\ Roles \subseteq PortRole
  /\ Has("INPUT_DATA")
  /\ Combined <=> ~(Has("READ_ADDRESS_SIGNAL") /\ Has("WRITE_ADDRESS_SIGNAL"))
  /\ Has("WRITE_ENABLE") \/ Has("ENABLE")
ASSUME MemoryAssumption ==
  /\ Depth \in Nat \ {0}
  /\ Lsb \in Bits
  /\ OutputStyle \in {"zero", "hold", "through"}
  /\ EnableGatesWrites \in BOOLEAN
  /\ TaintedReadAddr \in BOOLEAN
  /\ OverTaint \in BOOLEAN

Addr == 0 .. Depth - 1

\* "logic [w-1:0] taint_mem[2**addr_width-1]" declares 2**addr_width-1 entries:
\* the last address of the memory has no shadow word.
ShadowAddr == 0 .. Depth - 2

VARIABLES
  taint_mem,                 \* shadow memory
  taint_mem_signal_out,      \* registered output of the shadow memory
  permanent_taint_q,         \* a tainted write hit an unknown place
  is_read_temporary_taint_q, \* the last read was under taint
  differs,                   \* stored bits in which the two runs may differ
  rdiffers,                  \* read-port bits in which the two runs may differ
  shown,                     \* where the observed read port comes from
  seen                       \* worst input taint since the meta reset

taintVars == <<taint_mem, taint_mem_signal_out, permanent_taint_q, is_read_temporary_taint_q>>
vars == <<taintVars, differs, rdiffers, shown, seen>>

-----------------------------------------------------------------------------
(* Inputs of a clock cycle: a record of twin signals.  A port the memory does not *)
(* have is a constant 1, which leaves every expression below as the generator     *)
(* writes it for that combination of roles.                                       *)

BitSignal == ReducedSignal(BOOLEAN, OverTaint)
AddrSignal == ReducedSignal(Addr, OverTaint)
\* All that matters of two read addresses is whether they are equal.
ReadAddrSignal == {s \in AddrSignal : s.y \in {s.x, (s.x + 1) % Depth}}
LaneSignal == WordSignal(Bits, OverTaint)
MaskSignal == {s \in LaneSignal : {s.x, s.y, s.t} \subseteq {{}, Bits}}
Port(role, signals, absent) == IF Has(role) THEN signals ELSE {absent}

-----------------------------------------------------------------------------
(* The instrumented memory, external: what run r (1 observed, 2 twin) does. *)

In(sig, r) == IF r = 1 THEN sig.x ELSE sig.y

WriteMode(i, r) ==
  /\ In(i.wmode, r)
  /\ IF Has("WRITE_ENABLE")
       THEN In(i.we, r) /\ (EnableGatesWrites => In(i.en, r))
       ELSE In(i.en, r)

\* Bits of address a that run r overwrites.
Written(i, r, a) ==
  IF WriteMode(i, r) /\ a = In(i.waddr, r)
    THEN In(i.be, r) \cap In(i.wmask, r)
    ELSE {}

\* A combined port either writes or reads.  The write mode of an enabled memory decides
\* by itself; otherwise a cycle that writes no lane is a read.
Writing(i, r) ==
  /\ WriteMode(i, r)
  /\ (Has("WRITE_MODE") /\ ~Has("WRITE_ENABLE")) \/ In(i.be, r) \cap In(i.wmask, r) # {}
Reads(i, r) == In(i.en, r) /\ ~(Combined /\ Writing(i, r))

\* A cycle the flow is built for: the write mode carries no taint, a byte-enabled write
\* covers the whole word, and a memory without ENABLE never reads a tainted address.
Supported(i) ==
  /\ ~i.wmode.t
  /\ WriteMode(i, 1) => i.be.x = Bits
  /\ i.raddr.t /\ Reads(i, 1) => Has("ENABLE") \/ TaintedReadAddr

\* What the read port of run r shows after the cycle, and the data that come with it.
ReadPort(i, r) ==
  IF Reads(i, r) THEN <<"mem", In(i.raddr, r)>>
  ELSE IF OutputStyle = "zero" THEN <<"zero", 0>>
  ELSE IF OutputStyle = "through" /\ Combined /\ Writing(i, r) THEN <<"data", 0>>
  ELSE <<"held", 0>>

ReadPortDiffers(i) ==
  IF ReadPort(i, 1) # ReadPort(i, 2) THEN Bits
  ELSE CASE ReadPort(i, 1)[1] = "mem"  -> differs[i.raddr.x]
         [] ReadPort(i, 1)[1] = "zero" -> {}
         [] ReadPort(i, 1)[1] = "data" -> i.din
         [] ReadPort(i, 1)[1] = "held" -> rdiffers

-----------------------------------------------------------------------------
(* Explicit flows: the shadow memory, driven by the observed values. *)

\* Mutant: the write mode is forgotten.
ShadowWritesIgnoringMode(i) ==
  /\ IF Has("WRITE_ENABLE") THEN i.we.x ELSE i.en.x
  /\ i.wmask.x # {}

ShadowWrites(i) ==
  /\ IF Has("WRITE_ENABLE") THEN i.we.x ELSE i.en.x
  /\ i.wmask.x # {}
  /\ i.wmode.x

\* Mutant: a write past the shadow memory creates an entry.
ShadowWriteUnbounded(i) ==
  taint_mem' = IF ShadowWrites(i)
                 THEN [a \in ShadowAddr \cup {i.waddr.x} |->
                         IF a = i.waddr.x THEN i.din ELSE taint_mem[a]]
                 ELSE taint_mem

ShadowWrite(i) ==
  taint_mem' = IF ShadowWrites(i) /\ i.waddr.x \in ShadowAddr
                 THEN [taint_mem EXCEPT ![i.waddr.x] = i.din]
                 ELSE taint_mem

\* Mutant: the shadow memory is read at the write address.
ShadowReadAtWriteAddr(i) ==
  IF i.en.x /\ i.waddr.x \in ShadowAddr
    THEN taint_mem_signal_out' = taint_mem[i.waddr.x]
    ELSE UNCHANGED taint_mem_signal_out

\* Reading the entry that does not exist yields whatever the simulator makes of it.
ShadowRead(i) ==
  IF ~i.en.x THEN UNCHANGED taint_mem_signal_out
  ELSE IF i.raddr.x \in ShadowAddr THEN taint_mem_signal_out' = taint_mem[i.raddr.x]
  ELSE \E garbage \in SUBSET Bits : taint_mem_signal_out' = garbage

-----------------------------------------------------------------------------
(* Implicit flows. *)

\* __gen_is_bit_tainted_expr, unrolled: may the conjunction of the signals change?
AndTaint1(a) == a.t
AndTaint2(a, b) == (a.x /\ AndTaint1(b)) \/ (a.t /\ b.x) \/ (a.t /\ AndTaint1(b))
AndTaint3(a, b, c) ==
  (a.x /\ AndTaint2(b, c)) \/ (a.t /\ b.x /\ c.x) \/ (a.t /\ AndTaint2(b, c))

\* Mutant: the taint of the byte enable is dropped.
ReducedByteEnableUntainted(i) == [x |-> i.be.x # {}, t |-> FALSE]

\* OR-reduction of the byte enable; the mask enters a one-bit expression by its LSB.
ReducedByteEnable(i) == [x |-> i.be.x # {}, t |-> i.be.t # {}]
MaskBit(i) == [x |-> Lsb \in i.wmask.x, t |-> Lsb \in i.wmask.t]

my_is_write_enabled(i) ==
  /\ IF Has("WRITE_ENABLE") THEN i.we.x ELSE i.en.x
  /\ MaskBit(i).x
  /\ ReducedByteEnable(i).x

is_write_enable_tainted(i) ==
  IF Has("WRITE_ENABLE")
    THEN AndTaint3(i.we, ReducedByteEnable(i), MaskBit(i))
    ELSE AndTaint3(MaskBit(i), ReducedByteEnable(i), i.en)

\* Mutant: a write at a tainted address leaves no mark.
permanent_taint_dIgnoringAddr(i) == permanent_taint_q \/ is_write_enable_tainted(i)

permanent_taint_d(i) ==
  \/ permanent_taint_q
  \/ is_write_enable_tainted(i)
  \/ my_is_write_enabled(i) /\ i.waddr.t

\* Mutants: the read address, or the enable, is forgotten.
is_read_temporary_taint_dIgnoringAddr(i) == Has("ENABLE") /\ i.en.t
is_read_temporary_taint_dIgnoringEnable(i) == Has("ENABLE") /\ i.en.x /\ i.raddr.t

is_read_temporary_taint_d(i) ==
  IF Has("ENABLE") THEN i.en.t \/ (i.en.x /\ i.raddr.t) ELSE FALSE

\* Mutant: the sticky flag does not reach the read port.
TaintOutIgnoringPermanent ==
  taint_mem_signal_out \cup (IF is_read_temporary_taint_q THEN {Lsb} ELSE {})

\* The taint of the read port.  "taint_mem_signal_out | implicit_taint" widens the one-bit
\* implicit_taint with zeros: it reaches the least significant bit only.
TaintOut ==
  taint_mem_signal_out \cup
    (IF permanent_taint_q \/ is_read_temporary_taint_q THEN {Lsb} ELSE {})

-----------------------------------------------------------------------------
(* Histories the properties speak about. *)

\* "read": the last cycle read a shadowed address; "gap": the port shows the address
\* without a shadow word; "other": held, driven or not yet read.
ShownNext(i) ==
  IF i.en.x /\ i.raddr.x \notin ShadowAddr THEN "gap"
  ELSE IF Reads(i, 1) THEN "read"
  ELSE IF ~i.en.x /\ shown = "gap" THEN "gap"
  ELSE "other"

ControlTaint(i) ==
  \/ i.raddr.t \/ i.waddr.t \/ i.en.t \/ i.we.t \/ i.wmode.t
  \/ i.be.t # {} \/ i.wmask.t # {}

SeenNext(i) ==
  IF seen = "control" \/ ControlTaint(i) THEN "control"
  ELSE IF seen = "data" \/ i.din # {} THEN "data"
  ELSE "nothing"

-----------------------------------------------------------------------------
Untainted(A) == [a \in A |-> {}]

Init ==
  /\ taint_mem = Untainted(ShadowAddr)
  /\ taint_mem_signal_out = {}
  /\ permanent_taint_q = FALSE
  /\ is_read_temporary_taint_q = FALSE
  /\ differs = Untainted(Addr)
  /\ rdiffers = {}
  /\ shown = "other"
  /\ seen = "nothing"

\* The asynchronous meta reset clears all taint registers.  From here on taint means
\* influence of later inputs: the twin restarts from the contents of the observed run.
MetaReset ==
  /\ taint_mem' = Untainted(ShadowAddr)
  /\ taint_mem_signal_out' = {}
  /\ permanent_taint_q' = FALSE
  /\ is_read_temporary_taint_q' = FALSE
  /\ differs' = Untainted(Addr)
  /\ rdiffers' = {}
  /\ shown' = "other"
  /\ seen' = "nothing"

\* One rising clock edge with the inputs i.
Clock(i) ==
  /\ ShadowWrite(i)
  /\ ShadowRead(i)
  /\ permanent_taint_q' = permanent_taint_d(i)
  /\ is_read_temporary_taint_q' = is_read_temporary_taint_d(i)
  /\ differs' = [a \in Addr |->
                   AfterWrite(differs[a], Written(i, 1, a), Written(i, 2, a), i.din)]
  /\ rdiffers' = ReadPortDiffers(i)
  /\ shown' = ShownNext(i)
  /\ seen' = SeenNext(i)

Next ==
  \/ MetaReset
  \/ \E ra \in IF Combined THEN AddrSignal ELSE ReadAddrSignal, din \in SUBSET Bits,
        en    \in Port("ENABLE", BitSignal, Constant(TRUE, FALSE)),
        we    \in Port("WRITE_ENABLE", BitSignal, Constant(TRUE, FALSE)),
        wmode \in Port("WRITE_MODE", BitSignal, Constant(TRUE, FALSE)),
        wmask \in Port("WRITE_MASK", MaskSignal, Constant(Bits, {})),
        be    \in Port("BYTE_ENABLE_SIGNAL", LaneSignal, Constant(Bits, {})) :
       \E wa \in IF Combined THEN {ra} ELSE AddrSignal :
         LET i == [raddr |-> ra, waddr |-> wa, din |-> din, en |-> en, we |-> we,
                   wmode |-> wmode, wmask |-> wmask, be |-> be]
         IN  Supported(i) /\ Clock(i)

Spec == Init /\ [][Next]_vars

-----------------------------------------------------------------------------
(* Properties. *)

\* Every register of the taint logic keeps the width it is declared with.
TypeOK ==
  /\ taint_mem \in [ShadowAddr -> SUBSET Bits]
  /\ taint_mem_signal_out \in SUBSET Bits
  /\ permanent_taint_q \in BOOLEAN
  /\ is_read_temporary_taint_q \in BOOLEAN
  /\ differs \in [Addr -> SUBSET Bits]
  /\ rdiffers \in SUBSET Bits
  /\ shown \in {"read", "gap", "other"}
  /\ seen \in {"nothing", "data", "control"}

\* No taint is lost inside the memory: a stored bit the tainted inputs may have changed
\* is tainted in the shadow memory, or the sticky flag taints the whole memory.
ShadowSound ==
  permanent_taint_q \/ \A a \in ShadowAddr : differs[a] \subseteq taint_mem[a]

\* No taint is lost on the way out: in the cycle after a read, a word the tainted inputs
\* may have changed is tainted, whatever the history of the memory.
FreshReadSound == shown = "read" /\ rdiffers # {} => TaintOut # {}

\* A memory that drives zero when it does not read needs no retention of its taint: the
\* read port is sound in every cycle, not only after a read.
OutputSound == shown # "gap" /\ rdiffers # {} => TaintOut # {}

\* Data flows alone are tracked exactly: as long as only data inputs were tainted, the
\* shadow memory and a fresh read taint precisely the bits that may differ.
ExplicitExact ==
  seen # "control" =>
    /\ \A a \in ShadowAddr : taint_mem[a] = differs[a]
    /\ shown = "read" => TaintOut = rdiffers

\* The generated reset loop runs over all 2**addr_width words, and so should the shadow
\* memory: a read of any address, the last one included, reports the taint stored there.
EveryWordShadowed == shown \in {"read", "gap"} /\ rdiffers # {} => TaintOut # {}

\* The taint port is as wide as the read data, and an implicit taint says that nothing is
\* known of the word read: every read-data bit that may differ should be tainted.
FreshReadBitSound == shown = "read" => rdiffers \subseteq TaintOut
=============================================================================
