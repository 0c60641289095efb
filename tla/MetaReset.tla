------------------------------ MODULE MetaReset ------------------------------
(***************************************************************************)
(* The Yosys pass meta_reset (meta_reset.cc), which gives every register   *)
(* of a hierarchical design a common reset: it collects the modules of the *)
(* design, orders them deepest first, and adds to each one a reset input,  *)
(* a multiplexer before every flip-flop and the connections to the reset   *)
(* inputs of its submodules.                                               *)
(***************************************************************************)
EXTENDS Integers, Sequences, FiniteSets

CONSTANTS
  Modules,     \* the modules of the design
  Top,         \* design->top_module()
  MaxChunks    \* bound: chunks, one bit wide each, in the D port of the observed register

ASSUME DesignAssumption == IsFiniteSet(Modules) /\ Top \in Modules /\ MaxChunks \in Nat

VARIABLES
  cells,         \* the types of the cells of each module
  selected,      \* the modules that are selected when the pass is called
  register,      \* the observed register: module, type and the chunks of its D port
  original,      \* the chunks of its D port before the pass
  phase,         \* "collect", "sort", "rewrite", "done" or "refused"
  worklist,      \* modules still to be collected
  topo_modules,  \* nodes and edges of the TopoSort object
  meta_reset,    \* modules that have got a reset input
  connected      \* <<module, submodule>>: cells whose reset input is driven by the module

vars == <<cells, selected, register, original, phase, worklist, topo_modules, meta_reset, connected>>

Primitive == "$and"
Types == {"$dff", "$adff"}
Chunk == {"wire", "const", "mux"}
Chunks(source) == UNION {[1 .. n -> source] : n \in 0 .. MaxChunks}

\* The cells of m whose type is a module of the design.
Submodules(m) == cells[m] \cap Modules

\* Those among module->selected_cells(): all of them in a selected module, and none in a module
\* that only the worklist led to.
SelectedCells(m) == IF m \in selected THEN Submodules(m) ELSE {}

\* What the pass handles are modules, never cells of other types, and the ordered, rewritten
\* and connected modules are among the collected ones.
TypeOK ==
  /\ cells \in [Modules -> SUBSET (Modules \cup {Primitive})]
  /\ selected \subseteq Modules
  /\ register \in [module : Modules, type : Types, D : Chunks(Chunk)]
  /\ original \in Chunks({"wire", "const"})
  /\ phase \in {"collect", "sort", "rewrite", "done", "refused"}
  /\ worklist \subseteq Modules
  /\ topo_modules.nodes \subseteq Modules
  /\ topo_modules.edges \subseteq topo_modules.nodes \X topo_modules.nodes
  /\ meta_reset \subseteq topo_modules.nodes
  /\ connected \subseteq topo_modules.nodes \X topo_modules.nodes

-----------------------------------------------------------------------------
(* The designs: any hierarchy, recursive ones too, with one observed register, and *)
(* any selection of modules; an empty one is refused before the pass does anything. *)

Init ==
  /\ \E sub \in [Modules -> SUBSET Modules] : cells = [m \in Modules |-> sub[m] \cup {Primitive}]
  /\ original \in Chunks({"wire", "const"})
  /\ register \in [module : Modules, type : Types, D : {original}]
  /\ selected \in SUBSET Modules \ {{}}
  /\ worklist = selected
  /\ phase = "collect"
  /\ topo_modules = [nodes |-> {}, edges |-> {}]
  /\ meta_reset = {}
  /\ connected = {}

-----------------------------------------------------------------------------
(* Collecting and ordering the modules. *)

\* Mutant: every submodule joins the worklist, known or not.
PushedByUnchecked(m) == SelectedCells(m)

\* The selected cells of m that the TopoSort object does not know yet join the worklist.
PushedBy(m) == SelectedCells(m) \ (topo_modules.nodes \cup {m})

\* Mutant: every cell is taken for a submodule.
RecordedEveryCell(m) ==
  [nodes |-> topo_modules.nodes \cup {m} \cup cells[m],
   edges |-> topo_modules.edges \cup {<<tpl, m>> : tpl \in cells[m]}]

Recorded(m) ==
  [nodes |-> topo_modules.nodes \cup {m} \cup SelectedCells(m),
   edges |-> topo_modules.edges \cup {<<tpl, m>> : tpl \in SelectedCells(m)}]

Collect(m) ==
  /\ phase = "collect"
  /\ m \in worklist
  /\ worklist' = (worklist \ {m}) \cup PushedBy(m)
  /\ topo_modules' = Recorded(m)
  /\ phase' = IF worklist' = {} THEN "sort" ELSE phase
  /\ UNCHANGED <<cells, selected, register, original, meta_reset, connected>>

\* TopoSort::sort fails exactly if some nodes all have a predecessor among themselves.
Loops ==
  \E S \in SUBSET topo_modules.nodes :
    S # {} /\ \A m \in S : \E tpl \in S : <<tpl, m>> \in topo_modules.edges

Sort ==
  /\ phase = "sort"
  /\ phase' = IF Loops THEN "refused" ELSE "rewrite"
  /\ UNCHANGED <<cells, selected, register, original, worklist, topo_modules, meta_reset, connected>>

-----------------------------------------------------------------------------
(* Rewriting one module (create_meta_reset). *)

\* Mutant: a port of constants gets the reset too.
WithResetLogicOnConstants(D) == [k \in 1 .. Len(D) |-> "mux"]

\* The D port of a $dff: one multiplexer for every chunk that is a wire.  Constant chunks
\* are skipped, and a port of constants only is left alone.
WithResetLogic(D) ==
  LET wires == {k \in 1 .. Len(D) : D[k] = "wire"}
  IN  IF wires = {} THEN D ELSE [k \in 1 .. Cardinality(wires) |-> "mux"]

\* All cells of m, selected or not; the reset inputs of submodules exist if they were
\* rewritten before.
ConnectedBy(m) == {<<m, tpl>> : tpl \in Submodules(m) \cap meta_reset}

\* Mutant: outermost modules first.
NextOutermost(m) ==
  /\ m \in topo_modules.nodes \ meta_reset
  /\ \A parent \in Modules : <<m, parent>> \in topo_modules.edges => parent \in meta_reset

\* topo_modules.sorted is an order in which every module follows the submodules recorded for it.
NextSorted(m) ==
  /\ m \in topo_modules.nodes \ meta_reset
  /\ \A tpl \in Modules : <<tpl, m>> \in topo_modules.edges => tpl \in meta_reset

create_meta_reset(m) ==
  /\ phase = "rewrite"
  /\ NextSorted(m)
  /\ register' = IF register.module = m /\ register.type = "$dff"
                   THEN [register EXCEPT !.D = WithResetLogic(@)]
                   ELSE register
  /\ connected' = connected \cup ConnectedBy(m)
  /\ meta_reset' = meta_reset \cup {m}
  /\ phase' = IF meta_reset' = topo_modules.nodes THEN "done" ELSE phase
  /\ UNCHANGED <<cells, selected, original, worklist, topo_modules>>

\* The pass is over, or has stopped with an error message.
Over == phase \in {"done", "refused"} /\ UNCHANGED vars

Next ==
  \/ \E m \in Modules : Collect(m)
  \/ Sort
  \/ \E m \in Modules : create_meta_reset(m)
  \/ Over

Spec == Init /\ [][Next]_vars

\* The pass is a sequential program: it takes its next step.
FairSpec == Spec /\ WF_vars(Next)

-----------------------------------------------------------------------------
(* The hardware that results. *)

\* The instances of a module below the top: the paths of cells that lead to it.
Instances(m) ==
  {path \in UNION {[1 .. n -> Modules] : n \in 1 .. Cardinality(Modules)} :
     /\ path[1] = Top /\ path[Len(path)] = m
     /\ \A k \in 1 .. Len(path) - 1 : path[k + 1] \in Submodules(path[k])}

\* Those of them with selected modules only above them.
SelectedInstances(m) ==
  {path \in Instances(m) : \A k \in 1 .. Len(path) - 1 : path[k] \in selected}

\* The reset that arrives at an instance; an input left open floats.
ResetAt(path, top, floating) ==
  IF \A k \in 1 .. Len(path) - 1 : <<path[k], path[k + 1]>> \in connected THEN top ELSE floating

Bit(chunk, reset, wire) ==
  CASE chunk = "wire"  -> wire
    [] chunk = "mux"   -> IF reset THEN 0 ELSE wire
    [] chunk = "const" -> 1

\* What the register loads: a port narrower than the register is extended with zeros.
Loaded(D, reset, wire) ==
  [k \in 1 .. Len(original) |-> IF k <= Len(D) THEN Bit(D[k], reset, wire) ELSE 0]

Uniform(D) == \A j, k \in 1 .. Len(D) : D[j] = D[k]

-----------------------------------------------------------------------------
(* Properties. *)

\* A clock cycle with the top's reset high clears a $dff that has any wire before it, at any
\* depth and whatever order the modules were taken in, in every instance with selected modules
\* above it, even if its own module was not selected.  Below a module that is not selected
\* nothing is promised: the pass stops collecting there.
HeldInReset ==
  phase = "done" /\ Top \in topo_modules.nodes /\ register.type = "$dff"
    /\ (\E k \in 1 .. Len(original) : original[k] = "wire")
  => \A path \in SelectedInstances(register.module), wire \in {0, 1}, floating \in BOOLEAN :
       Loaded(register.D, ResetAt(path, TRUE, floating), wire)
         = [k \in 1 .. Len(original) |-> 0]

\* A register whose D port does not mix wires and constants loads what it loaded before the
\* pass while the top's reset is low, in every instance with selected modules above it; one fed
\* by constants always does.  Below a module that is not selected the reset input may float.
TransparentOtherwise ==
  phase = "done" /\ Top \in topo_modules.nodes /\ Uniform(original)
  => \A path \in SelectedInstances(register.module), wire \in {0, 1},
        floating, top \in BOOLEAN :
       ~top \/ (\A k \in 1 .. Len(original) : original[k] = "const")
       => Loaded(register.D, ResetAt(path, top, floating), wire) = Loaded(original, FALSE, wire)

\* The pass ends on every design and for every selection, on recursive designs too: whether it
\* refuses them or, the recursion being below a module that is not selected, rewrites them.
Ends == <>(phase \in {"done", "refused"})
=============================================================================
