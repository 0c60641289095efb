------------------------------ MODULE DesignPass ------------------------------
(***************************************************************************)
(* How hybridift.py treats a whole design: it cuts the text into modules,  *)
(* picks the memories (by their looks, or by the annotations that          *)
(* annotate_chipyard_mems.py adds), analyses and instruments them one      *)
(* after the other, and writes the design only if none of them failed.     *)
(* CellIFT then instruments the rest and connects the taint ports, and     *)
(* replace_unwanted_t0s.py cuts the connections nobody declared.           *)
(*                                                                         *)
(* A design is a sequence of lines.  Of a line only what the code's        *)
(* regular expressions look at is kept: a kind and a name.                 *)
(***************************************************************************)
EXTENDS Integers, FiniteSets, SequencesExt

CONSTANTS
  RamNames,      \* names the memory of an automatic design may have
  Parameterised, \* those that Yosys escapes: "\$paramod$<hash>\fpga_ram"
  EndStyles,     \* is the end of a function indented?  a subset of BOOLEAN
  MaxFunctions,  \* functions in one module
  Annotable      \* names of the memories of an annotated design

\* Modules of a design differ in their names.
DesignAssumption ==
  /\ {"wrapper", "top"} \cap RamNames = {} /\ "top" \notin Annotable
  /\ EndStyles \subseteq BOOLEAN
  /\ MaxFunctions \in Nat

ASSUME DesignAssumption

VARIABLES
  design,    \* "openc910" (automatic), "rocket" or "boom" (annotated)
  text,      \* the lines of the design
  stage,     \* how far the pass is
  pending,   \* candidate_memory_module_ids not yet instrumented, in the order of the text
  removed,   \* candidates dropped as fake memories
  skipped,   \* candidates the analysis leaves to CellIFT
  shadowed,  \* instrumented memory -> its taint ports
  pins       \* instrumented memory -> the taint pins its instances connect
             \* (a module is known by the number of its first line)

vars == <<design, text, stage, pending, removed, skipped, shadowed, pins>>

-----------------------------------------------------------------------------
(* Lines. *)

Line(kind, name) == [kind |-> kind, name |-> name]
In(p, msb) == [kind |-> "input", name |-> p, msb |-> msb]    \* msb 0: no range
Out(p, msb) == [kind |-> "output", name |-> p, msb |-> msb]

\* Of a set of lines.  The lines of a module that are looked for are all different.
Of(kind, lines) == {l \in lines : l.kind = kind}
Names(kind, lines) == {l.name : l \in Of(kind, lines)}

\* A set of numbers in increasing order.
InOrder(numbers) ==
  [n \in 1 .. Cardinality(numbers) |->
     CHOOSE k \in numbers : Cardinality({j \in numbers : j <= k}) = n]

Numbers(kind, lines) == {k \in DOMAIN lines : lines[k].kind = kind}

\* Every module reaches from its "module" to the next "endmodule".
ModuleIds(lines) == Numbers("module", lines)
Module(lines, id) ==
  SubSeq(lines, id, CHOOSE e \in id .. Len(lines) :
                      lines[e].kind = "endmodule" /\ \A j \in id .. e - 1 : lines[j].kind # "endmodule")

\* The numbers of the lines of a module that are not between a function and the next of the ends.
Outside(module, ends) ==
  {k \in DOMAIN module \ ends :
     \A f \in 1 .. k : module[f].kind = "function" => \E e \in ends : f < e /\ e < k}

\* What a reader takes to be the text of a module outside its functions.
OutsideFunctions(module) == Outside(module, Numbers("endfunction", module))

-----------------------------------------------------------------------------
(* Annotations of the Rocket and BOOM memories. *)

RW0 == [RW0_addr |-> "COMBINED_ADDRESS_SIGNAL", RW0_clk |-> "CLOCK", RW0_wdata |-> "INPUT_DATA",
        RW0_rdata |-> "READ_DATA", RW0_en |-> "ENABLE", RW0_wmode |-> "WRITE_MODE"]
R0W0 == [R0_addr |-> "READ_ADDRESS_SIGNAL", W0_addr |-> "WRITE_ADDRESS_SIGNAL",
         R0_clk |-> "CLOCK", W0_data |-> "INPUT_DATA", R0_data |-> "READ_DATA",
         R0_en |-> "ENABLE", W0_en |-> "WRITE_ENABLE"]
Masked(roles, mask) ==
  [p \in DOMAIN roles \cup {mask} |-> IF p = mask THEN "WRITE_MASK" ELSE roles[p]]
RW0_masked == Masked(RW0, "RW0_wmask")
R0W0_masked == Masked(R0W0, "W0_mask")

\* The tables of module names, by design; memories not named here are not annotated.
Tables ==
  LET usual == {"split_dataArrayWay_0_ext", "split_l2_tlb_ram_ext"}
      masked == {"split_tag_array_0_ext", "split_tag_array_ext"}
      splitrw == {"split_btb_0_ext", "split_array_0_0_ext", "split_data_ext", "split_hi_us_0_ext",
                  "split_hi_us_ext", "split_rob_debug_inst_mem_ext", "split_table_0_ext",
                  "split_table_1_ext", "split_table_ext", "split_meta_0_ext"}
      nomask == {"split_ebtb_ext", "split_ghist_0_ext"}
  IN  [rocket |-> [split_tag_array_ext |-> RW0, split_data_arrays_0_ext |-> RW0_masked,
                   split_data_arrays_0_0_ext |-> RW0_masked],
       boom   |-> [m \in usual \cup masked \cup splitrw \cup nomask |->
                     IF m \in usual THEN RW0 ELSE IF m \in masked THEN RW0_masked
                     ELSE IF m \in splitrw THEN R0W0_masked ELSE R0W0]]

Tabled(d, line) == line.kind = "module" /\ line.name \in DOMAIN Tables[d]

Annotation(roles) == [kind |-> "annotation", name |-> "@hybridift", roles |-> roles]

\* Mutant: insertions do not shift the lines that follow.
InsertUnshifted(d, lines, i, acc) ==
  IF Tabled(d, lines[i])
  THEN [content    |-> InsertAt(acc.content, i + 1, Annotation(Tables[d][lines[i].name])),
        interlines |-> acc.interlines + 1]
  ELSE acc

\* The loop runs over the original lines; interlines counts what was inserted above.
Insert(d, lines, i, acc) ==
  IF Tabled(d, lines[i])
  THEN [content    |-> InsertAt(acc.content, i + acc.interlines + 1,
                                Annotation(Tables[d][lines[i].name])),
        interlines |-> acc.interlines + 1]
  ELSE acc

Annotate(d, lines) ==
  LET after[i \in 0 .. Len(lines)] ==
        IF i = 0 THEN [content |-> lines, interlines |-> 0]
                 ELSE Insert(d, lines, i, after[i - 1])
  IN  after[Len(lines)].content

-----------------------------------------------------------------------------
(* What the code sees of a module. *)

\* Mutant: the end of a function is not recognised.
ContentUnended(module) == {module[k] : k \in Outside(module, {})}

\* all_module_contents: a function starts at any column but ends in the first one only.
Content(module) ==
  {module[k] : k \in Outside(module, {e \in Numbers("endfunction", module) : ~module[e].indented})}

\* The annotations between the declaration of a module and its next line.
ModuleAnnotations(module) ==
  {module[k].roles : k \in {j \in 2 .. Len(module) :
     \A i \in 2 .. j : module[i].kind = "annotation"}}

\* A multi-bit port counts with the number of its highest bit.
PortWidth(l) == IF l.msb = 0 THEN 1 ELSE l.msb

can_module_be_a_memory(content) ==
  /\ Cardinality(Of("output", content)) = 1
  /\ Cardinality(Of("input", content)) >= 2
  /\ \E i \in Of("input", content), o \in Of("output", content) : PortWidth(i) = PortWidth(o)
  /\ Of("store", content) # {}

\* A name with a dollar sign, taken for a regular expression, matches nothing.
does_module_contain_an_instance_of(content, name) ==
  name \in Names("cell", content) \ Parameterised

\* Line numbers are taken before the first deletion; slices beyond the end are empty.
Without(lines, first, last) ==
  SubSeq(lines, 1, IF first <= Len(lines) THEN first - 1 ELSE Len(lines))
  \o SubSeq(lines, last + 1, Len(lines))

\* "The number of function starts and ends should be the same", and they "should be staggered".
FunctionsPaired(module) ==
  LET starts == InOrder(Numbers("function", module))
      ends   == InOrder(Numbers("endfunction", module))
  IN  Len(starts) = Len(ends) /\ \A j \in DOMAIN starts : starts[j] < ends[j]

remove_functions(module) ==
  LET starts == InOrder(Numbers("function", module))
      ends   == InOrder(Numbers("endfunction", module))
      after[j \in 0 .. Len(starts)] ==
        IF j = 0 THEN module ELSE Without(after[j - 1], starts[j], ends[j])
  IN  after[Len(starts)]

\* Ports named like a reset; the first of them becomes the reset of the shadow memory.
Resets == {"taint_meta_reset", "rst_ni"}

find_metareset_name(module) == Names("input", ToSet(module)) \cap Resets

Clocks(lines) == Names("posedge", ToSet(lines))

\* A reset is what an always block tests first: if (!rst_ni).
NativeResets(lines) ==
  {lines[k].name : k \in {j \in DOMAIN lines :
     j > 1 /\ lines[j].kind = "ifnot" /\ lines[j - 1].kind = "posedge" /\ lines[j].name \in Resets}}

identify_signal_syncs_and_directions(lines) ==
  [ok      |-> Clocks(lines) # {} /\ Cardinality(NativeResets(lines)) <= 1
               /\ Cardinality(Of("output", ToSet(lines))) = 1,
   inputs  |-> Names("input", ToSet(lines)) \ (Clocks(lines) \cup NativeResets(lines)
                                                \cup {"taint_meta_reset"}),
   outputs |-> Names("output", ToSet(lines))]

-----------------------------------------------------------------------------
(* The designs. *)

FunctionLines(n, e) ==
  [k \in 1 .. 3 * n |->
     <<Line("function", "f"), In("a", 7),
       [kind |-> "endfunction", name |-> "f", indented |-> e]>>[((k - 1) % 3) + 1]]

Functions == {FunctionLines(n, e) : n \in 0 .. MaxFunctions, e \in EndStyles}

\* A module with functions below some of its lines.
ModuleText(name, lines, functions, below) ==
  (<<Line("module", name)>> \o lines) \o functions \o (below \o <<Line("endmodule", name)>>)

RamPorts == <<In("PortAClk", 0), In("PortAAddr", 2), In("PortADataIn", 7),
              In("PortAWriteEnable", 0), Out("PortADataOut", 7)>>

Store(resets) ==
  <<Line("posedge", "PortAClk")>>
  \o (IF In("rst_ni", 0) \in ToSet(resets) THEN <<Line("ifnot", "rst_ni")>> ELSE <<>>)
  \o <<Line("store", "mem")>>

\* The memory of openC910, with or without a native reset, functions above or below its array.
RamText(name, resets, above, functions) ==
  IF above THEN ModuleText(name, RamPorts \o resets, functions, Store(resets))
           ELSE ModuleText(name, RamPorts \o resets \o Store(resets), functions, <<>>)

RamTexts ==
  {RamText(name, resets, above, functions) :
     name \in RamNames,
     resets \in {<<>>, <<In("taint_meta_reset", 0)>>, <<In("rst_ni", 0), In("taint_meta_reset", 0)>>},
     above \in BOOLEAN, functions \in Functions}

\* A module with the ports of a memory, perhaps around an instance of one.
WrapperText(own, functions, cell) ==
  ModuleText("wrapper", RamPorts \o <<In("taint_meta_reset", 0)>> \o own, functions, cell)

WrapperTexts(ram) ==
  {WrapperText(own, functions, cell) :
     own \in {<<>>, Store(<<>>)}, functions \in Functions, cell \in {<<>>, <<Line("cell", ram)>>}}

Top(cells) ==
  ModuleText("top", <<In("clk_i", 0), Out("addr_o", 7), Out("req_o", 0)>>, <<>>,
             [k \in DOMAIN cells |-> Line("cell", cells[k])])

AllChipPorts ==
  <<In("RW0_addr", 2), In("RW0_en", 0), In("RW0_clk", 0), In("RW0_wmode", 0), In("RW0_wdata", 7),
    Out("RW0_rdata", 7), In("RW0_wmask", 0), In("R0_addr", 2), In("R0_en", 0), In("R0_clk", 0),
    Out("R0_data", 7), In("W0_addr", 2), In("W0_en", 0), In("W0_clk", 0), In("W0_data", 7),
    In("W0_mask", 0)>>

\* The ports of a Chipyard memory: those its table names, the second clock, less the missing.
ChipPorts(roles, missing) ==
  LET present == DOMAIN roles \cup (IF "R0_clk" \in DOMAIN roles THEN {"W0_clk"} ELSE {})
      declared == InOrder({k \in DOMAIN AllChipPorts : AllChipPorts[k].name \in present \ missing})
  IN  [n \in DOMAIN declared |-> AllChipPorts[declared[n]]]

ChipText(d, name, missing) ==
  LET roles == IF name \in DOMAIN Tables[d] THEN Tables[d][name] ELSE RW0_masked
      clock == IF "RW0_clk" \in DOMAIN roles THEN "RW0_clk" ELSE "R0_clk"
  IN  ModuleText(name, ChipPorts(roles, missing), <<>>,
                 <<In("taint_meta_reset", 0), Line("posedge", clock), Line("store", "ram")>>)

\* Up to three memories in any order, the first perhaps without its mask.
ChipTexts(d, names, missing) ==
  LET Chip(k) == IF k > Len(names) THEN <<>>
                 ELSE ChipText(d, names[k], IF k = 1 THEN missing ELSE {})
  IN  Chip(1) \o Chip(2) \o Chip(3)

-----------------------------------------------------------------------------
Manual == design # "openc910"

Init ==
  /\ \/ /\ design = "openc910" /\ stage = "select"
        /\ \E ram \in RamTexts : \E wrapper \in WrapperTexts(ram[1].name) :
             text = ram \o wrapper \o Top(<<"wrapper", ram[1].name>>)
     \/ /\ design \in DOMAIN Tables /\ stage = "annotate"
        /\ \E n \in 1 .. 3 : \E names \in [1 .. n -> Annotable], missing \in {{}, {"RW0_wmask", "W0_mask"}} :
             /\ IsInjective(names)
             /\ text = ChipTexts(design, names, missing) \o Top(names)
  /\ pending = <<>>
  /\ removed = {}
  /\ skipped = {}
  /\ shadowed = <<>>
  /\ pins = <<>>

\* annotate_chipyard_mems.py
AnnotateMemories ==
  /\ stage = "annotate"
  /\ text' = Annotate(design, text)
  /\ stage' = "select"
  /\ UNCHANGED <<design, pending, removed, skipped, shadowed, pins>>

Candidates == {id \in ModuleIds(text) : can_module_be_a_memory(Content(Module(text, id)))}

\* Mutant: a candidate is compared with those after it only.
FakeOfLater(id) ==
  \E other \in Candidates :
    other > id /\ does_module_contain_an_instance_of(Content(Module(text, id)), text[other].name)

\* A candidate around another one; every candidate is compared with all of them.
Fake(id) ==
  \E other \in Candidates \ {id} :
    does_module_contain_an_instance_of(Content(Module(text, id)), text[other].name)

\* Memories are picked by their looks.
SelectCandidates ==
  /\ stage = "select" /\ ~Manual
  /\ removed' = {id \in Candidates : Fake(id)}
  /\ pending' = InOrder(Candidates \ removed')
  /\ stage' = "instrument"
  /\ UNCHANGED <<design, text, skipped, shadowed, pins>>

\* Annotations of ports the module does not declare.
Undeclared(module) ==
  (UNION {DOMAIN roles : roles \in ModuleAnnotations(module)})
    \ (Names("input", Content(module)) \cup Names("output", Content(module)))

\* Memories are those with annotations; annotating a port that is not declared is an error.
SelectAnnotated ==
  /\ stage = "select" /\ Manual
  /\ IF \E id \in ModuleIds(text) : Undeclared(Module(text, id)) # {}
     THEN stage' = "aborted" /\ UNCHANGED pending
     ELSE /\ stage' = "instrument"
          /\ pending' = InOrder({id \in ModuleIds(text) : ModuleAnnotations(Module(text, id)) # {}})
  /\ UNCHANGED <<design, text, removed, skipped, shadowed, pins>>

\* What the analysis of RoleAnalysis may say.  It builds the module by itself: without the
\* modules it instantiates, or with ports that are not there, there is no simulation.
Analysis(module) ==
  LET seen == identify_signal_syncs_and_directions(remove_functions(module))
      builds == /\ Numbers("cell", module) = {}
                /\ seen.inputs \subseteq
                     {module[k].name : k \in Numbers("input", module) \cap OutsideFunctions(module)}
  IN  IF ~FunctionsPaired(module) \/ ~seen.ok THEN {"assertion"}
      ELSE IF Manual THEN {"roles"}
      ELSE {"skipped", "assertion"} \cup (IF builds THEN {"roles"} ELSE {})

\* The annotated ports but the clock, keyed by role.
AnnotatedPorts(roles) ==
  LET role_dict == [r \in Range(roles) |-> CHOOSE p \in DOMAIN roles : roles[p] = r]
  IN  {role_dict[r] : r \in DOMAIN role_dict \ {"CLOCK"}}

\* The ports that get a taint port: one per role, and the output.
TaintPorts(module) ==
  LET seen == identify_signal_syncs_and_directions(remove_functions(module))
  IN  IF Manual THEN UNION {AnnotatedPorts(roles) : roles \in ModuleAnnotations(module)}
      ELSE seen.inputs \cup seen.outputs

\* An assertion ends the program before anything is written.
Abort == stage' = "aborted" /\ UNCHANGED <<pending, skipped, shadowed>>

\* instrument_sram, for the next candidate.
Instrument ==
  /\ stage = "instrument" /\ pending # <<>>
  /\ LET id == Head(pending)
         module == Module(text, id)
         answers == IF find_metareset_name(module) = {} THEN {"assertion"} ELSE Analysis(module)
     IN  \E answer \in answers :
           \/ answer = "assertion" /\ Abort
           \/ /\ answer = "skipped"
              /\ skipped' = skipped \cup {id}
              /\ pending' = Tail(pending)
              /\ UNCHANGED <<stage, shadowed>>
           \/ /\ answer = "roles"
              /\ shadowed' = [m \in DOMAIN shadowed \cup {id} |->
                                IF m = id THEN TaintPorts(module) ELSE shadowed[m]]
              /\ pending' = Tail(pending)
              /\ UNCHANGED <<stage, skipped>>
  /\ UNCHANGED <<design, text, removed, pins>>

\* Mutant: the design is written after every memory.
WriteAfterEach ==
  /\ stage = "instrument"
  /\ stage' = "written"
  /\ UNCHANGED <<design, text, pending, removed, skipped, shadowed, pins>>

WriteDesign ==
  /\ stage = "instrument" /\ pending = <<>>
  /\ stage' = "written"
  /\ UNCHANGED <<design, text, pending, removed, skipped, shadowed, pins>>

-----------------------------------------------------------------------------
(* After hybridift.py. *)

\* instrument.ys.tcl: signals that CellIFT gives no taint.
Excluded == {"clk_i", "rst_ni", "clock", "reset", "reset_wire_reset"}

\* The pins CellIFT writes at an instance of a module: every port, and its taint behind it.
Connections(module) ==
  LET ports == {k \in OutsideFunctions(module) : module[k].kind \in {"input", "output"}}
      Pin(k, taint) == [port |-> module[k].name, taint |-> taint,
                        first |-> ~taint /\ \A j \in ports : k <= j]
  IN  {Pin(k, FALSE) : k \in ports} \cup
      {Pin(k, TRUE) : k \in {j \in ports : module[j].name \notin Excluded}}

\* Mutant: the second clock of a split memory is forgotten.
UnwantedOneClock == {"taint_meta_reset", "PortAClk", "RW0_clk", "R0_clk"}

Unwanted == {"taint_meta_reset", "PortAClk", "RW0_clk", "W0_clk", "R0_clk"}

\* A pin is cut with the comma before it, so that the first one always stays.
replace_unwanted_t0s(connections) ==
  {c \in connections : c.taint /\ c.port \in Unwanted => c.first}

ConnectTaint ==
  /\ stage = "written"
  /\ pins' = [id \in DOMAIN shadowed |->
                {c.port : c \in {d \in replace_unwanted_t0s(Connections(Module(text, id))) : d.taint}}]
  /\ stage' = "connected"
  /\ UNCHANGED <<design, text, pending, removed, skipped, shadowed>>

Next ==
  \/ AnnotateMemories \/ SelectCandidates \/ SelectAnnotated
  \/ Instrument \/ WriteDesign \/ ConnectTaint

Spec == Init /\ [][Next]_vars

-----------------------------------------------------------------------------
(* Properties. *)

\* The pass goes through its stages, and only an unfinished or failed one has candidates left.
TypeOK ==
  /\ design \in {"openc910", "rocket", "boom"}
  /\ stage \in {"annotate", "select", "instrument", "written", "connected", "aborted"}
  /\ ToSet(pending) \cup removed \cup skipped \cup DOMAIN shadowed \subseteq ModuleIds(text)
  /\ \A id \in DOMAIN shadowed :
       shadowed[id] \subseteq Names("input", ToSet(text)) \cup Names("output", ToSet(text))
  /\ DOMAIN pins \subseteq DOMAIN shadowed
  /\ stage \in {"written", "connected"} => pending = <<>>

Considered == ToSet(pending) \cup skipped \cup DOMAIN shadowed

Cells(module) == Names("cell", ToSet(module))

\* Line k of a module is hidden if some function starts above it and every end between the two
\* is indented.
Hidden(module, k) ==
  \E f \in Numbers("function", module) :
    f < k /\ \A e \in Numbers("endfunction", module) : f < e /\ e < k => module[e].indented

ArrayHidden(module) == \A k \in Numbers("store", module) : Hidden(module, k)

\* openC910: a memory that contains no other module is looked at by the analysis, whatever
\* modules that resemble a memory surround it: it is neither overlooked nor taken for a fake.
\* There is one exception, and it has no other: a memory whose array stands below a function
\* with an indented end is always overlooked.
MemoryNotOverlooked ==
  ~Manual /\ stage # "select" =>
    \A id \in ModuleIds(text) :
      LET m == Module(text, id)
      IN  Numbers("store", m) # {} /\ Cells(m) = {} => (id \in Considered <=> ~ArrayHidden(m))

\* "Remove modules that contain instances of candidate memory modules": if such a module does get
\* as far as an analysis and its failure stops the whole design, then each of those instances is
\* hidden below a function with an indented end, or has a name the code cannot find.
FakesNeverAbort ==
  stage = "aborted" /\ ~Manual =>
    LET m == Module(text, Head(pending))
        memories == {text[id].name : id \in Considered \cup removed}
    IN  \A c \in Numbers("cell", m) :
          m[c].name \in memories \ Parameterised => Hidden(m, c)

\* Of an annotated design exactly the memories of the tables are instrumented, each with
\* the ports of its own table, wherever they stand in the file.
TablesObeyed ==
  Manual /\ stage = "written" =>
    /\ DOMAIN shadowed = {id \in ModuleIds(text) : Tabled(design, text[id])}
    /\ \A id \in DOMAIN shadowed :
         LET roles == Tables[design][text[id].name]
         IN  shadowed[id] = {p \in DOMAIN roles : roles[p] # "CLOCK"}

\* The taint pins left at the instances of an instrumented memory are the taint ports the
\* memory declares: no pin without a port, no port without a pin.
PinsMatch == stage = "connected" => \A id \in DOMAIN shadowed : pins[id] = shadowed[id]

\* "We remove the function lines and the lines in between": the analysis of a memory sees the
\* whole module but its functions.  Violated: with two functions, the lines cut for the second
\* are counted as if the first were still there.
FunctionsRemoved ==
  stage = "instrument" /\ pending # <<>> =>
    LET m == Module(text, Head(pending))
        outside == InOrder(OutsideFunctions(m))
    IN  remove_functions(m) = [n \in DOMAIN outside |-> m[outside[n]]]
=============================================================================
