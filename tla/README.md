# HybriDIFT: formal models of the taint tracking in and around memories

HybriDIFT instruments a hardware design with dynamic information flow tracking (taint
tracking). The logic of a design is instrumented by CellIFT, cell by cell; its *memories* are
instrumented by this repository, which adds a shadow memory for the data and a few flags for
everything else. The repository also holds the Yosys pass that gives a design a common reset,
a hand-written memory that carries its own taint, the main memory of the openC910 test bench,
and the loaders and test benches that run an instrumented processor.

The question asked of all of it is the one taint tracking exists for: **if an input carries
taint and could have changed a value, is that value tainted?** And where the design claims to
be exact, is anything tainted that could not have changed? Such promises concern *pairs* of
executions, over arbitrarily long sequences of clock cycles, which is why they are modelled
here rather than tested. Paths below are relative to `src/docker/facilities/`.

## 1. Inventory

### How the parts interact

`src/docker/Dockerfile` builds three processors along the same path (lines 104-161):

    sources --sv2v--> one Verilog file
      --yosys, passthrough_metareset.ys.tcl, pass meta_reset-->  design with a common reset
      --annotate_chipyard_mems.py (Rocket, BOOM only)-->         port roles as comments
      --hybridift.py-->   memories with their taint logic; roles annotated or found by simulation
      --yosys, instrument.ys.tcl, pass cellift-->                the rest of the logic
      --text filters, replace_unwanted_t0s.py-->                 a design Verilator accepts
      --test bench: elfloader, SRAM, AXI slave, stop request-->  simulation

The parts meet in four places. The role analysis decides which taint logic a memory gets, so
that a wrong role is a wrong shadow memory. The reset wire that `meta_reset` threads through
the hierarchy (`taint_meta_reset`) is the one that clears the taint registers `hybridift.py`
adds. Three programs must agree, without talking to each other, on which ports of a memory have
taint: `hybridift.py` declares them, CellIFT connects every port, `replace_unwanted_t0s.py` cuts
what is too much. And a program reaches the processor through the loader and the memory of the
test bench, which count addresses differently.

### Components

| component | state it keeps | operations | what makes it hard | what makes it correct |
|---|---|---|---|---|
| taint logic of a memory (`hybridift.py`, `instrument_sram`, 765-1184) | shadow memory, its output register, sticky flag, single-cycle flag | meta reset; one clock edge for any inputs and any combination of ports | a taint is stored now and read arbitrarily later; control taint concerns a write that did *not* happen; reads and writes in one cycle | no stored taint is lost; a read of a word that may differ is tainted; data flows are exact |
| role analysis (`hybridift.py`, 60-704; `hybridift_dv/`) | candidate assignments, verdicts of the simulations | compare widths, enumerate, simulate, select, arbitrate | ports that are told apart by nothing but their width; the memory is only observed through printed non-zero outputs; the register behind it powers up unknown and may hold or pass data | the true roles pass; ambiguity is refused; a choice between equivalents serves the taint logic |
| treatment of a design (`hybridift.py`, the rest; `rocket/annotate_chipyard_mems.py`, `replace_unwanted_t0s.py`) | the text, candidates not yet instrumented | annotate, select, instrument one by one, write, cut taint pins | memories are recognised by looks; line numbers that shift; a failing assertion discards all work; three programs that must agree on ports | every memory is looked at unless a function with an indented end hides it, and no module around one stops the pass; annotations follow their tables; pins and ports match |
| `yosys/meta_reset.cc` | worklist, `TopoSort`, the design | collect modules, order them, rewrite each | a submodule's input must exist when its parent is rewritten; selections, recursion | the reset reaches every register below selected modules, and changes nothing while inactive |
| `cva6/ift_sram_mem.sv` | taint words, output taint, two flags | reset; request, write, masked write, read | bit masks and address taint of different widths; partial writes; a sticky flag a reset clears | as for the first row, bit by bit |
| openC910 memory (`our_axi_slave128.sv`, `our_f_spsram_large.v`, `our_sram_mem.sv`) | bus state machine, step counters, address counter, read pipeline, contents | read and write bursts, stalls, reset | one cycle of latency behind a handshake; wrapping bursts; resets in a burst | an atomic memory that serves bursts; every burst ends |
| loader (`elfloader.cc`, preload of `our_sram_mem.sv`) | global section list and index, map of contents, buffer | read, next section, copy | file size and memory size of a segment; a buffer that is never cleared; byte and word addresses | every byte of every segment is where the processor reads it |
| simulation control (`toplevel.cc`, `testbench.h`, `ticks.h`, `tb_top.sv`, `clk_rst_gen.sv`) | tick counter, stop request, ticks left | reset, tick, stop | a counter tested and decremented at once inside a loop with an end of its own | the run lasts exactly as long as asked, and ends |
| `taintloader.cc` | static iterators | | part of no build, uses an undeclared variable | - (not modelled) |
| `list_state_elements.cc`, `concatbitwidth.py`, `testinstr.py`, Tcl scripts, Makefiles, SoC wrappers | none | one pass over text or wiring | - | - (not modelled) |
| openC910 RTL, generated `*_memshade.v` | | | vendored or generated | - (not modelled) |

`PROJECT.json` lists the same components with their files and status, and under `hazards`
what in this code is hard to test, each at its line, with the property that watches it.

## 2. The modules

    TwinRuns ----------+--> HybridiftMem --> HybridiftMemProofs
                       +--> IftSramMem   --> IftSramMemProofs
    Bursts --+--> BurstMemory  (abstract)
             +--> AxiSlave128  (implements BurstMemory) --> AxiSlave128Proofs
    RoleAnalysis --> RoleAnalysisProofs
                        (repeats in its properties the gates HybridiftMem is built from)
    DesignPass --> DesignPassProofs
                        (every answer RoleAnalysis may give is a step of it)
    MetaReset --> MetaResetProofs
    TestBench --> TestBenchProofs
    NumberLemmas        (division, induction, ranks, small cardinalities: used by the proofs of
                         AxiSlave128, MetaReset, RoleAnalysis, DesignPass and TestBench)

### TwinRuns: pairs of executions

A signal of one clock cycle is a record `[x, y, t]`: its value in the *observed* run (the one
the hardware sees), its value in a *twin* run, and its taint. The twin agrees with the
observed run on every untainted input bit; that is the definition of taint tracking being
sound. Data are opaque to a memory, so they are represented only by the set of bits in which
the two runs may differ; the observed run's data values would add nothing a property can see.
`AfterWrite` is the one fact about memories the models share: what differs in a word after
each run wrote its own bits of it. Where only one run wrote, everything may differ.

### HybridiftMem: the logic `hybridift.py` generates

The constants are the inputs of the generator: `Roles` are the keys of `role_dict`, `Depth`
is `2**addr_width`, `Bits` the data width. A port the memory does not have is a constant 1,
which is how the generator's conditional text behaves for every combination of roles it
accepts (`RolesAssumption`). Two actions change the state: `MetaReset`, and `Clock(i)`, which
does in one step everything a rising edge does: shadow write (lines 817-850), shadow read
(852-866), sticky flag (1025-1050), single-cycle flag (1052-1065). `TaintOut` is the value of the
taint port (1067-1076). `AndTaint3` is `__gen_is_bit_tainted_expr` unrolled for its three
operands. Quirks of the generated text are kept: the shadow array is one entry short, a
multi-bit mask enters a one-bit expression by its least significant bit, the byte enable gates
the sticky flag but not the shadow write, and a memory without ENABLE never raises the
single-cycle flag.

The memory itself is not in `src/`; it is modelled from how the generator treats its ports
and marked external (`WriteMode`, `Written`, `Reads`, `ReadPort`, with three styles of idle
output). `differs`, `rdiffers`, `shown` and `seen` are history of the pair of runs, not
hardware. `Supported` states what the generator itself declares out of scope: "Ignore the byte
enable signal for now", "TODO Double-check the effect of the wmode".

### IftSramMem: `cva6/ift_sram_mem.sv`

The same method for a memory in which every bit has its taint bit. Addresses and words are
sets of bit numbers because the code ANDs mask and address taint bit by bit (line 46). `Init`
is any taint image (the taint file is loaded before the clock starts); `Reset` clears the two
flags only, as the code does; `Clock` does the taint write (168-178), the taint read, and the
flags (42-64). `TaintedControls` and `PartialWrites` name the uses the soundness argument
excludes; one run lifts the second.

### BurstMemory, Bursts, AxiSlave128: the main memory of openC910

`BurstMemory` is the promise: a memory that serves one burst at a time, each beat atomically,
visiting the blocks `Bursts` defines. `AxiSlave128` is the design: state machine, latched
fields, step counters, address counter with its wrap conditions, the `read_dly`/`rvalid`
pipeline, the address holding register of the RAM wrapper and the registered output of the
memory; one step is one clock edge. Its refinement mapping recomputes from the start address
and the step counter which blocks are left; the address counter of the design does not occur
in it, so that every wrap condition is really checked.

### RoleAnalysis: finding out what the ports are

One behaviour is one analysis of one memory, drawn from all combinations of control ports,
address ports, widths and output styles of the configuration. The steps are the stages of
`__analyze_sram_roles_and_latency`: `Enumerate` (the data port by its width, the byte enable and
the addresses by theirs, then the permutations that fit, filtered), `Simulate` (for every
candidate, 34 clock cycles of the generated C++ bench against the memory, inputs masked to
their ports, recording the non-zero outputs), `Select` (primary or else secondary verdict, one
latency) and `Arbitrate`. Assertions of the Python code are outcomes. The order in which
candidates come is known only up to the order in which the memory declares its ports;
`Earliest` leaves exactly this open.

Two facts about widths follow from the code rather than from its comments. The heuristic for a
data port that is not clear from its width (245-281) looks for `] <= ` before a *letter* and
then asserts an *underscore*, so that it never finds a port: its own example `] <= _01_;` is
skipped, everything else stops the program. And a port that is a candidate for both byte enable
and address gets two roles, which leaves no assignment: such memories are skipped without
a word. `PassedOver` says that these and short addresses are the only reasons to skip a memory.

### DesignPass: from the text of a design to connected taint ports

The life of a design, as three programs see it. `AnnotateMemories` is
`annotate_chipyard_mems.py` with its tables; `SelectCandidates` and `SelectAnnotated` are the two
ways `instrument_all_memories_in_design` picks memories; `Instrument` is `instrument_sram` for
the next of them, where an assertion ends the program before anything is written;
`WriteDesign`; `ConnectTaint` is CellIFT (external) followed by `replace_unwanted_t0s.py`.

A design is a sequence of lines, and of a line only what the regular expressions look at is
kept, as a kind and a name. A module is known by the number of its first line and reaches to the
next `endmodule` (`ModuleIds`, `Module`); what the code sees of its text is a set of lines, since
nothing that is looked for occurs twice in a module. The loops of the Python code that count lines
(`Annotate`, `remove_functions`) are recursive functions over the line or function they have come
to. Kept are the details on which the choice depends: a function begins
at any column but ends in the first only (1215-1228), the width of a port is the number
of its highest bit (1271), an escaped module name taken as a regular expression matches nothing
(1319), inserted lines shift the following ones (`interlines`), and line numbers taken before a
deletion are used after it (149), and functions whose starts and ends do not pair are refused
(`FunctionsPaired`). The analysis in between is represented by its possible answers
(`Analysis`): roles, passed over, or an assertion; roles only of a module that can be built by
itself.

### MetaReset: the Yosys pass

State is the pass's own (`worklist`, the `TopoSort` object) and the part of the design it
changes: which modules have got the input, which cells are connected, and the D port of one
observed register, whose module, type and chunks are arbitrary. The worklist of pointers is a
set and `sort` may return any topological order, so every order is explored. The properties
then speak of the resulting hardware: of the instances of the register's module, reached by
paths of cells from the top.

`selected` is the selection the pass is called with, any modules of the design; its first worklist.
The pass looks at it once more: line 157 walks `module->selected_cells()`
(`SelectedCells`), and these are none in a module that the worklist led to although it is not
selected, whereas line 48 rewrites and connects all cells of every module collected
(`Submodules`, in `ConnectedBy`). Below a module that is not selected nothing is collected or
ordered any more: its submodules get no reset, or get one that is left open because they were
rewritten after it. The properties therefore speak of `SelectedInstances`, those with selected
modules only above them. With the full selection, which is what
`passthrough_metareset.ys.tcl` calls the pass with, they are all instances.

### TestBench: a run of openC910

`read_elf` builds the list of sections and the map of contents; `LoadSection` is one round of the
loop in the initial block of `our_sram_mem.sv` (`get_section`, `read_section`, the words
copied); `ResetTick` and `Tick` are the two benches, which differ in the length of the
reset and of the run. The processor is external: in a tick it does nothing the bench sees or
writes a word, and a write of word 0 is the stop request. `requested` is history: the tick
that saw the first request. `Testbench::tick` also looks at a write to address 8, whose result
nobody uses; that and all printing is left out.

A byte is the segment and the offset it comes from, so that `LoadedAsLinked` is about *which*
byte is found where. It speaks of programs the loader can be right about (`Loadable`): segments
below `2 ** Aw` bytes, because `our_sram_mem.sv:68` masks a byte address with the mask of a word
address, and without a zero-initialised tail behind a segment with more bytes in the file,
because the buffer keeps them.

## 3. What the runs check

| run | instance | shows |
|---|---|---|
| `rw_port` | `HybridiftMem`, one read/write port, all of ENABLE, write mode, write mask, byte enable; output held when idle | no taint is lost inside or in a fresh read; pure data flows are exact |
| `split_port` | `HybridiftMem`, separate read and write ports in the same cycle, zero when idle | the same, and the output is sound in every cycle |
| `partial_word` | `IftSramMem` in the uses it supports, with resets | stored taint and read taint sound; masked writes exact |
| `axi_bursts` | `AxiSlave128`, every start block, lengths 1-4, stalls, resets | implements `BurstMemory`; an offered beat is stable; every burst ends |
| `role_probe` | `RoleAnalysis`, ten sets of control ports x two kinds of addresses x four data and three address widths x three styles | the truth passes, wide ports are told apart, choices serve the taint logic, plain memories are recognised, and no memory is passed over but for its widths |
| `design_pass` | `DesignPass`, openC910 with a memory, a wrapper and functions; Rocket and BOOM with up to three memories | a memory is overlooked if and only if an indented end of a function hides its array, and is never taken for a fake; a module around a memory stops the pass only where the memory's instance cannot be found; the tables are obeyed, pins match ports |
| `reset_tree` | `MetaReset`, all hierarchies of three modules, all selections of them | reset reaches every instance below selected modules and is transparent otherwise; the pass ends |
| `test_bench` | `TestBench`, both benches, every program of up to two segments, every pattern of requests | bytes are where they were linked; a run has the right length, and ends |

Four runs show a place where the code does not do what one of its comments says; each one
checks the property that comment states and finds it violated:

| run | statement | what happens |
|---|---|---|
| `last_word` | `hybridift.py:819`: the generated reset loop runs over all `2**addr_width` words | line 816 declares one entry fewer: taint stored in the last word is lost |
| `wide_word` | `hybridift.py:1052`, with a taint port as wide as the data | line 1075 widens the one-bit implicit taint with zeros, so that it reaches bit 0 only |
| `partial_write` | `ift_sram_mem.sv:42`: "Taint the full sram if a write occurs with a tainted address." | line 46 ANDs the word mask with the address taint bit by bit; masks that miss those bit numbers leave no mark |
| `text_functions` | `hybridift.py:140` and `:148`: "We remove the function lines and the lines in between." | with two functions the second range is displaced by the length of the first |

The remaining properties take these facts into account openly: `ShadowSound` speaks of the
addresses that have a shadow word, `FreshReadSound` of `HybridiftMem` asks for *some* taint on
the word read, and `MemoryNotOverlooked` and `FakesNeverAbort` say which lines
`hybridift.py:1222` does not see because a function with an indented end stands above them
(`Hidden`), and `HeldInReset` below which modules `meta_reset.cc:157` stops. Four more
disagreements have no run of their own and are avoided by the instances or assumptions:

* A memory without ENABLE reads in every cycle, but line 1063 drops the taint of its read
  address, which the comment at line 1052 counts (`Supported`, `~TaintedReadAddr`).
* `our_f_spsram_large.v:137` drives the byte mask of `our_sram_mem.sv` with a mask of bits, so
  that partial writes hit the wrong bytes (`axi_bursts` writes whole blocks).
* `meta_reset.cc:147` says that the deepest modules are instrumented first; below a module that is
  not selected no order is kept (`SelectedInstances`).
* `hybridift.py:691` takes write enable against write mode to be of no matter, but the shadow
  write is gated by ENABLE under one name and not under the other (`Independent`).

### Bounds, and why they are enough

* `Depth = 4` (memories): three shadow words and the gap at the top. Two words separate the
  observed and the twin address; the third is a bystander that must stay as it was.
* `Bits` has one element in the pass runs of `HybridiftMem`, because every definition treats
  all bits alike except the widening in `TaintOut`, for which `wide_word` has two. The
  proofs cover every width. `IftSramMem` has two bits of data and one of address, the smallest
  word in which a mask can miss the number of a tainted address bit.
* `OverTaint = FALSE`: taint on a signal in which the runs agree can only raise more taint. The soundness theorems hold with it too, and `last_word` admits it.
* `NumBlocks = 8`, `MaxLen = 3`: two aligned lines of four blocks and four of two, every
  start position in them, bursts that wrap in their line (2 and 4 beats), bursts that do not
  (1 and 3), and the wrap at the end of the memory. `MaxMarked = 1`: one block that is not
  zero is enough to see whether a beat comes from or goes to the right block; it may be any.
* `RoleAnalysis` is finite by itself; the constants choose the memories. The analysis refuses
  more than two wide ports besides the data, so that larger memories add nothing. The widths
  give every comparison both answers: data as wide as an address, a byte enable of one bit, of the
  width of an address, or of another; an address below the least width.
* `DesignPass`: one memory, one module around it and a top module are what the comparison of
  candidates looks at; two functions are the least for which line numbers go stale
  (`MaxFunctions`), three annotated memories the least with an insertion before, between and after;
  `Annotable` has a name of each table and one of none.
* `TestBench`: words of two bytes, eight words, and addresses at and beside their boundaries;
  segments of up to five bytes in a buffer of four, so that some are empty, some end in
  mid-word, some have a tail and some are refused. Two segments suffice for one to leave
  bytes in the buffer or on the words of the other. `Simlen = 6` with two further ticks
  puts the first request before, at and after the last tick that still allows them.
* `Modules` of three: the smallest hierarchies with a chain, a shared submodule and a
  cycle through a third module, each with every selection: of the whole, of the top only, of
  all but the module in the middle. `MaxChunks = 2` mixes a wire with a constant in one port.

`RoleAnalysis`, `DesignPass` and `TestBench` switch the deadlock check off: an analysis, a pass
over a design and a simulation end. `MetaReset` states its
end as a stuttering step, so that stopping anywhere else would be found.

### Fairness

* `AxiSlave128`: weak fairness of `Served`, a clock edge at which the master goes on with the
  open burst. The bus protocol obliges a master that opened a burst to send its data and to take
  its response eventually; the clock runs. No fairness is assumed of new requests, so
  `BurstsEnd` says nothing of a write that waits while reads keep coming (line 259 always
  prefers the read).
* `MetaReset`: weak fairness of `Next`; the pass is a sequential program. `Ends` therefore
  rests on the code's own check that a module is not pushed again once known.
* `TestBench`: weak fairness of `Next`; one program that waits for nobody. No fairness of the
  processor is assumed: `RunEnds` holds of programs that never ask for the end.

## 4. What is proved

All theorems hold for every value of the constants that meets the named assumptions.

`HybridiftMemProofs` (every role combination, depth, width, output style and taint pattern):

| theorem | assumes | says |
|---|---|---|
| `TypeCorrect` | - | `[]TypeOK` |
| `NoTaintLostInside` | `Independent` | `[]ShadowSound` |
| `FreshReadsAreSound` | `Independent`, `~TaintedReadAddr` | `[]FreshReadSound` |
| `ZeroingOutputIsSound` | the same, `OutputStyle = "zero"` | `[]OutputSound` |
| `DataFlowsAreExact` | `Independent` | `[]ExplicitExact` |

`Independent` is the assumption line 807 of `hybridift.py` states ("we assume that the enable
and write enable signals are independent"): a memory that gates WRITE_ENABLE with ENABLE does
not have both ports under these names. `~TaintedReadAddr` excludes tainted read addresses of
memories without ENABLE, of which `FreshReadSound` does not hold.

The argument. `TypeOK` is inductive by itself. `ShadowSound` is inductive together with it:
`AndTaintMeaning` shows that the nested generated expression is exactly "some operand is tainted
and every operand is 1 or tainted"; from it `WriteEnableTaint` and `SameWrite` show that
unless the sticky flag is raised both runs write the same whole word or neither writes, and
that the shadow memory does the same as they do; `ShadowFollows` then gives, for each shadowed
word, that either it and its shadow take the same value or both are unchanged. The read
properties are not inductive: what a read returns was stored any number of cycles earlier, so
they need `ShadowSound` of the state before as well as `SameDirection` and `SameRead` (unless a
flag is raised, the twin reads the same word). For exactness `ExplicitExact` is strengthened
to `ExplicitInv`: while only data were tainted both flags are still down, without which
equality of shadow and difference would not be preserved.

`IftSramMemProofs` (every word and address width): `TypeCorrect`; and, assuming untainted
write controls and whole-word writes at tainted addresses (`~TaintedControls`,
`~PartialWrites`), `NoStoredTaintLost`, `FreshReadsAreSound` and `MaskedWritesAreExact`, by
the same argument with the bitwise mask (`SameWrite`, `TaintFollows`, `ExactInv`).

`TestBenchProofs` (every memory, program, SIMLEN and number of further ticks):
`TypeCorrect`, `ExactRunLength` (`[]RunLength`), `StopCounterNeverPasses` and `ProgramIsLoaded`
(`[]LoadedAsLinked`). `RunLength` speaks of the end only; the invariant says what holds until
then: before a request the counter has its initial value, after it the counter and the ticks since
add up to it, and the counter is not negative (`CountedDown`). Without the last part the test for
zero could have been missed. `LoadedAsLinked` speaks of the end of the loading, and of bytes that go
through three containers. Its invariant follows the loop: the section list is the program in the
order of the file (`Listed`), the map holds each section's own bytes (`Mapped`), beyond the
longest section read so far the buffer is as it was at the start (`BufferClean`), and every section before the index is already where the processor reads it
(`Copied`), which later sections leave alone because segments do not overlap
(`SectionsApart`). `Ranks` gives the order of the file: numbering the elements of a finite set by
how many are below them loses none. Of the constants it assumes `SizeAssumption` only, whose conjunct about `2^Aw`
follows from `Aw` being a natural number (the provers know nothing of powers).

`AxiSlave128Proofs` (every size of the memory, length of burst and width of the bus):
`TypeCorrect`, `OfferStable` (`OfferedBeatStable`) and, assuming `WholeBlocks`,
`ImplementsBurstMemory`: the initial states map to initial states of `BurstMemory` and every
clock edge to one of its steps or to a stutter. `WholeBlocks` says that strobes select
whole blocks; for partial ones line 137 of `our_f_spsram_large.v` makes the claim false. The
invariant ties the two counters together that the design keeps apart: in an open burst
`mem_addr` is `BeatBlock` of the start address and the step counter (`CountersAgree`), a beat on
the bus is the word its block holds (`OfferIsCurrent`), and a step counter outside its burst is
zero (`CountersReset`). The arithmetic behind it is `SteppedIsNextBeat`: the wrap conditions of
lines 349-362, which look at the current address and the length only, lead from each beat's
block to the next one's.

`MetaResetProofs` (every number of modules and every hierarchy, selection and order of the
sort): `TypeCorrect`, `ResetReachesRegisters` (`HeldInReset`) and `InactiveResetIsTransparent`
(`TransparentOtherwise`). The invariant: a known module that does not wait on the worklist has
its selected cells known and ordered before it (`Collected`), so that a selected module is
rewritten after its submodules and connects every one of them (`Connected`); of a module that is
not selected neither is true. The observed port changes exactly once (`PortRewritten`). That the
reset reaches instances at any depth is an induction along the path of cells, as far as the
modules on it are selected (`PathConnected`). The library's induction theorems take a predicate as a
parameter; `NatSetInduction` states induction for a set of numbers and is proved from the
well-foundedness of finite subsets.

`RoleAnalysisProofs` (every data width, every address width from two bits, every choice of control
ports, every style of read port): all five properties of the run `role_probe`, `TypeCorrect`,
`PassedOverExactly` (`[]PassedOver`), `WidePortsSeparated` (`[]WidePortsTold`), `TruthPasses`
(`[]TrueRolesPass`), `NoneMissed` (`[]NoAccessMissed`) and `PlainRecognised`
(`[]PlainMemoriesRecognised`), and besides them `TruthAmongCandidates`: while the analysis
simulates and selects, the true roles are among the candidates, and no candidate mistakes the
data port; and `RolesPassed`: what it returns is an assignment of the ports that fits their
widths and passed its own simulation. The argument has four layers:

* The enumeration. `FitIsFound` exhibits the true roles as an assignment that survives every
  filter; `UnfitIsNotFound` needs that an assignment is injective: with a narrow address, too few
  ports are left for the wide roles (`NarrowAddress`), and two ports as wide as a byte enable
  leave no assignment at all (`Clash`). `WideAssignments` lists what is left: a
  candidate is right about the wide ports, or exchanges two addresses, or an address and a byte
  enable of the same width.
* The simulation. What 34 cycles print is a recursive function of the cycle; `RunInvariant`
  carries a statement about a cycle and the words the memory holds through all of them by
  induction (`NatSetInduction`). A wrong candidate for a wide port shows nothing it was asked for,
  because the memory is never written (`NothingWritten`), because what is read is elsewhere
  (`NothingReadBack`) or because the addresses are each other's (`AddressesSwapped`); hence
  `WrongWidePorts`. A right one passes if and only if what is printed alternates as the stimulus
  does (`Alternating`, `Alternates`, `RightRun`), and `RightVerdict` works the recursion out of it:
  the verdict is `Answers`, three conditions on the roles of the control ports. `AnswersByRoles`
  puts them as: no write control is taken for the read enable, no enable for anything else, and with one
  port for both accesses the memory's deciding write control has a write role.
* The selection. `Passing` is the set of assignments that pass, a matter of the memory alone. The
  inductive invariant `SInv` says that what the arbitration has is `Passing` and what it returns is
  `Preferred` in it (`SelectionKnown`). The properties speak of the roles returned and do not
  mention the assignments that were discarded, which is why none of them is inductive.
* The choice. Assignments come in families: exchanging two roles of control ports gives
  another assignment (`SwappedFits`), and `AnswersByRoles` says whether it passes. `NoneMissed`
  needs that an enable the roles name is one the memory has and its write, if no write enable is
  named, depends on (`EnableNeeded`): were it not so, the role could be
  exchanged for two others, and the arbitration would have refused three assignments (`NotThree`).
  `PlainRecognised` determines `Passing` outright (`PlainPassing`): the true roles and those with
  write enable and write mode exchanged (`Twin`), which line 697 of `hybridift.py` takes for one.
  `PInv` adds this outcome to `SInv`.

`DesignPassProofs` (every name a memory may have, escaped or not, any number of functions with
either style of end, every order and choice of annotated memories): `TypeCorrect`,
`NoFakeAborts` (`FakesNeverAbort`), `NoMemoryOverlooked` (`MemoryNotOverlooked`),
`AnnotationsObeyed` (`TablesObeyed`) and `PinsMatchPorts` (`PinsMatch`).
None of the five properties is inductive. The invariant `PassInv` has these parts:

* `TextInv`: the text is a design (each module ends before the next begins), and each of its
  modules looks as the generator of that design writes it, before and after annotating
  (`OpenC910Module`, `ChipyardModule`, `AnnotatedModule`). It is what a selection that reads text
  means: the lines the code sees are those that are not hidden (`SeenUnlessHidden`), a memory
  whose array it sees is a candidate (`StoreIsCandidate`), and one whose array it does not see is
  none (`HiddenIsNoCandidate`).
* `Accounted`: candidates are never lost: after the selection `pending`, `skipped` and the
  instrumented memories make up the candidates that are not fake. Without it nothing is known of a memory
  once it has left `pending`.
* `Declared`: annotated ports exist, or the pass would have stopped before the first memory.
* `ShadowedOnRoles`: an instrumented memory has the taint ports its text gives, and the
  analysis could answer with roles for it, which it does only for a module that builds by itself.

Annotating changes the numbers of all lines that follow, so that no module keeps its name.
`InsertShifts` is one round of the loop: the lines before the present one have been placed at
increasing positions, the rest is displaced by the number of insertions (`Shifted`).
`AnnotatedLines` carries it to the end of the file, `PlacedModule` says that a module is found again
as its own lines with an annotation below the first where the table has one, and
`AnnotatedModules` that there are no others. That the initial texts are designs is
`JoinedDesigns` (two designs written one after the other) and `TextIsDesign` with the
lines of each generator.

`PinsMatch` needs `PinsInv` besides: after the cut the pins of a memory are the ports its text
declares less the unwanted ones (`PinsLeft`), and the modules are still as their generator
declares them (`PortsAsWritten`: `ClockedModule` for openC910, `PlainModule` for Chipyard). CellIFT
reads the module as it stands (`ClockedPins`), `hybridift.py` after `remove_functions`
(`ClockedTaintPorts`), and `remove_functions` deletes with stale line numbers (the run `text_functions`): it
leaves lines of a later function behind and takes lines below it instead. With two functions an
input of the second always stays (`RemovedBlock`); the memory then does not build by itself
and the analysis refuses it. With at most one the function goes as a whole, and the
test of the reset is still found below the clock (`ResetStillTested`), so that the two agree on the
reset too. For an annotated memory the agreement is with its table (`PlainPins`).

Every invariant and every action property of a passing run is stated by one of these theorems.

Only model-checked: liveness (`BurstsEnd`, `Ends`, `RunEnds`) and statements about ENABLED,
which the prover does not support.

## 5. What is not modelled, and why

* The wording of the Verilog `hybridift.py` reads and writes: `DesignPass` keeps what its regular
  expressions decide, and `HybridiftMem` what the generated lines compute.
* `concatbitwidth.py` (one function that no script calls), `testinstr.py` (taint ports with taint
  zero for the memshade build), `list_state_elements.cc` (prints): no state.
* `taintloader.cc`, which no build description names and which uses the undeclared
  `taint_assignments`.
* CellIFT, Yosys and Verilator themselves, which are not in the repository.
* The outputs a memory holds after a read under taint: the single-cycle flag does not
  outlive the next cycle (source comment: "FUTURE: Test the retention of the memory when not
  enabled"). `FreshReadSound` is the promise made; `OutputSound` covers memories that drive zero.
* `IftSramMem`: more than one taint (the code asserts `NumTaints == 1`), the option
  `RelocateRequestUp`, and the section loop of the preload. A reset is one step: clock edges
  with a request while `rst_ni` is low, which write the memory and hold the flags down, do not occur.
* `HybridiftMem`: write masks that select some bits of a word. A mask is all ones or all
  zeros, so that a write touches the whole word or nothing.
* `TestBench`: what a simulation does after a failed assertion (`our_sram_mem.sv:56`); the model
  ends there.
* `MetaReset`: the naming of the wire, selections of single cells inside a module, and a second
  execution on the same design.
* `TestBench`: symbols of the ELF file, register dumps, logs of branches, and the processor.

## 6. Plan

Done, in this order: `TwinRuns`, `HybridiftMem` and its proofs (the heart of the
repository), `IftSramMem` and its proofs, `Bursts`/`BurstMemory`/`AxiSlave128` and their proofs,
`RoleAnalysis`, `MetaReset`, `DesignPass`, `TestBench`, and the proofs of each. Next:

1. `ResetComposition`: `MetaReset`'s wire with the registers of `HybridiftMem`. The multiplexer
   of `meta_reset.cc:59` clears while the wire is high; `hybridift.py` makes the taint registers
   reset on its negative edge ("All resets are active low", line 6). The composition asks what one pulse
   of the wire does to both.
2. Feeding the roles `RoleAnalysis` returns into `HybridiftMem`, so that `NoAccessMissed` becomes
   a consequence of soundness rather than a condition beside it.
3. Proofs: what the composition of item 2 promises, from `NoneMissed` and the invariant of
   `HybridiftMemProofs`.
