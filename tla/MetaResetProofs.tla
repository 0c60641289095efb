-------------------------- MODULE MetaResetProofs --------------------------
(***************************************************************************)
(* Proofs about the meta_reset pass, for every design: any number of       *)
(* modules, any hierarchy, any selection of modules and any order of the   *)
(* sort.                                                                   *)
(***************************************************************************)
EXTENDS MetaReset, NumberLemmas

-----------------------------------------------------------------------------
(* The inductive invariant. *)

\* A known module that is not waiting has its selected cells known and ordered before it.
Collected ==
  /\ \A m \in topo_modules.nodes \ worklist : \A tpl \in SelectedCells(m) :
       tpl \in topo_modules.nodes /\ <<tpl, m>> \in topo_modules.edges
  /\ phase # "collect" => worklist = {}

\* A rewritten module that is selected has every submodule rewritten, and drives its reset
\* input.  Of the others this is not true: nothing orders their submodules before them.
Connected ==
  \A m \in meta_reset : \A tpl \in SelectedCells(m) :
    tpl \in meta_reset /\ <<m, tpl>> \in connected

\* Modules are rewritten after the sort only, and all of them before the end.
InPhase ==
  /\ phase \in {"collect", "sort"} => meta_reset = {}
  /\ phase = "done" => meta_reset = topo_modules.nodes

\* The observed port changes once, with its module.
PortRewritten ==
  register.D = IF register.module \in meta_reset /\ register.type = "$dff"
                 THEN WithResetLogic(original) ELSE original

IInv == TypeOK /\ Collected /\ Connected /\ InPhase /\ PortRewritten

LEMMA ChunksAreSequences ==
  ASSUME NEW S, NEW D \in Chunks(S)
  PROVE  /\ Len(D) \in 0 .. MaxChunks /\ D \in [1 .. Len(D) -> S]
<1>1. PICK n \in 0 .. MaxChunks : D \in [1 .. n -> S]
  BY DEF Chunks
<1>2. n \in Nat
  BY DesignAssumption
<1>3. Len(D) = n
  BY <1>1, <1>2
<1>4. QED
  BY <1>1, <1>3

\* One multiplexer for each wire, hence no more chunks than before.
LEMMA ResetLogicChunks ==
  ASSUME NEW D \in Chunks({"wire", "const"})
  PROVE  /\ WithResetLogic(D) \in Chunks(Chunk)
         /\ (\E k \in 1 .. Len(D) : D[k] = "wire") =>
              \E n \in 0 .. Len(D) : WithResetLogic(D) = [k \in 1 .. n |-> "mux"]
         /\ (\A k \in 1 .. Len(D) : D[k] = "const") => WithResetLogic(D) = D
         /\ (\A k \in 1 .. Len(D) : D[k] = "wire") =>
              WithResetLogic(D) = [k \in 1 .. Len(D) |-> "mux"]
<1> DEFINE wires == {k \in 1 .. Len(D) : D[k] = "wire"}
<1>1. Len(D) \in 0 .. MaxChunks /\ D \in [1 .. Len(D) -> {"wire", "const"}] /\ MaxChunks \in Nat
  BY ChunksAreSequences, DesignAssumption
<1>2. IsFiniteSet(1 .. Len(D)) /\ Cardinality(1 .. Len(D)) = Len(D)
  <2> DEFINE n == Len(D)
  <2>1. n \in 0 .. MaxChunks
    BY <1>1
  <2> HIDE DEF n
  <2>2. 1 \in Int /\ n \in Int /\ n >= 0
    BY <1>1, <2>1
  <2>3. IsFiniteSet(1 .. n) /\ Cardinality(1 .. n) = IF 1 > n THEN 0 ELSE n - 1 + 1
    BY <2>2, FS_Interval
  <2>4. QED
    BY <2>2, <2>3 DEF n
<1>3. Cardinality(wires) \in 0 .. Len(D)
  <2>1. wires \subseteq 1 .. Len(D)
    OBVIOUS
  <2>2. IsFiniteSet(wires) /\ Cardinality(wires) <= Cardinality(1 .. Len(D))
    BY <1>2, <2>1, FS_Subset
  <2>3. Cardinality(wires) \in Nat
    BY <2>2, FS_CardinalityType
  <2>4. QED
    BY <1>1, <1>2, <2>2, <2>3
<1>4. CASE wires = {}
  <2>1. WithResetLogic(D) = D
    BY <1>4 DEF WithResetLogic
  <2>2. D \in Chunks(Chunk)
    <3>1. D \in [1 .. Len(D) -> Chunk]
      BY <1>1 DEF Chunk
    <3>2. QED
      BY <1>1, <3>1 DEF Chunks
  <2>3. Len(D) = 0 => D = [k \in 1 .. Len(D) |-> "mux"]
    BY <1>1
  <2>4. (\A k \in 1 .. Len(D) : D[k] = "wire") => Len(D) = 0
    BY <1>1, <1>4
  <2>5. QED
    BY <1>4, <2>1, <2>2, <2>3, <2>4
<1>5. CASE wires # {}
  <2> DEFINE n == Cardinality(wires)
  <2>1. WithResetLogic(D) = [k \in 1 .. n |-> "mux"]
    BY <1>5 DEF WithResetLogic
  <2>2. [k \in 1 .. n |-> "mux"] \in [1 .. n -> Chunk] /\ n \in 0 .. MaxChunks
    BY <1>1, <1>3 DEF Chunk
  <2>3. (\A k \in 1 .. Len(D) : D[k] = "wire") => n = Len(D)
    <3>1. (\A k \in 1 .. Len(D) : D[k] = "wire") => wires = 1 .. Len(D)
      OBVIOUS
    <3>2. QED
      BY <1>2, <3>1
  <2>4. ~ \A k \in 1 .. Len(D) : D[k] = "const"
    BY <1>5
  <2> HIDE DEF n
  <2>5. n \in 0 .. Len(D)
    BY <1>3 DEF n
  <2>6. WithResetLogic(D) \in Chunks(Chunk)
    BY <2>1, <2>2 DEF Chunks
  <2>7. QED
    BY <2>1, <2>3, <2>4, <2>5, <2>6
<1>6. QED
  BY <1>4, <1>5

LEMMA InitIInv == Init => IInv
<1> SUFFICES ASSUME Init PROVE IInv
  OBVIOUS
<1>1. cells \in [Modules -> SUBSET (Modules \cup {Primitive})]
  BY DEF Init
<1>2. original \in Chunks({"wire", "const"}) /\ original \in Chunks(Chunk)
  BY DEF Init, Chunks, Chunk
<1>3. TypeOK
  BY <1>1, <1>2 DEF Init, TypeOK
<1>4. QED
  BY <1>3 DEF Init, IInv, Collected, Connected, InPhase, PortRewritten

LEMMA CollectIInv ==
  ASSUME IInv, NEW m \in Modules, Collect(m)
  PROVE  IInv'
<1> USE DEF IInv
<1>1. SelectedCells(m) \subseteq Modules /\ PushedBy(m) \subseteq SelectedCells(m)
  BY DEF SelectedCells, Submodules, PushedBy
<1>2. /\ topo_modules'.nodes = topo_modules.nodes \cup {m} \cup SelectedCells(m)
      /\ topo_modules'.edges = topo_modules.edges \cup {<<tpl, m>> : tpl \in SelectedCells(m)}
  BY DEF Collect, Recorded
<1>3. UNCHANGED <<cells, selected, register, original, meta_reset, connected>> /\ meta_reset = {}
  BY DEF Collect, InPhase
<1>4. worklist' = (worklist \ {m}) \cup PushedBy(m) /\ worklist' \subseteq Modules
  BY <1>1 DEF Collect, TypeOK
<1>5. phase' = IF worklist' = {} THEN "sort" ELSE "collect"
  BY DEF Collect
<1>6. TypeOK'
  <2>1. topo_modules'.nodes \subseteq Modules
    BY <1>1, <1>2 DEF TypeOK
  <2>2. topo_modules'.edges \subseteq topo_modules'.nodes \X topo_modules'.nodes
    BY <1>2 DEF TypeOK
  <2>3. connected' \subseteq topo_modules'.nodes \X topo_modules'.nodes
    BY <1>2, <1>3 DEF TypeOK
  <2>4. QED
    BY <1>3, <1>4, <1>5, <2>1, <2>2, <2>3 DEF TypeOK
<1>7. Collected'
  <2>1. ASSUME NEW k \in topo_modules'.nodes \ worklist', NEW tpl \in SelectedCells(k)
        PROVE  tpl \in topo_modules'.nodes /\ <<tpl, k>> \in topo_modules'.edges
    <3>1. CASE k = m
      BY <1>2, <2>1, <3>1
    <3>2. CASE k # m
      <4>1. k \in topo_modules.nodes \ worklist
        BY <1>2, <1>4, <2>1, <3>2 DEF PushedBy
      <4>2. QED
        BY <1>2, <2>1, <4>1 DEF Collected
    <3>3. QED
      BY <3>1, <3>2
  <2>2. SelectedCells(m)' = SelectedCells(m) /\ \A k \in Modules : SelectedCells(k)' = SelectedCells(k)
    BY <1>3 DEF SelectedCells, Submodules
  <2>3. QED
    BY <1>3, <1>5, <2>1 DEF Collected, SelectedCells, Submodules
<1>8. QED
  BY <1>3, <1>5, <1>6, <1>7 DEF Connected, InPhase, PortRewritten, WithResetLogic

LEMMA SortIInv == IInv /\ Sort => IInv'
BY DEF Sort, IInv, TypeOK, Collected, Connected, InPhase, PortRewritten, SelectedCells,
            Submodules

LEMMA RewriteIInv ==
  ASSUME IInv, NEW m \in Modules, create_meta_reset(m)
  PROVE  IInv'
<1> USE DEF IInv
<1>1. UNCHANGED <<cells, selected, original, worklist, topo_modules>> /\ worklist = {}
  BY DEF create_meta_reset, Collected
<1>2. /\ phase' = IF meta_reset' = topo_modules.nodes THEN "done" ELSE "rewrite"
      /\ meta_reset' = meta_reset \cup {m} /\ connected' = connected \cup ConnectedBy(m)
  BY DEF create_meta_reset
<1>3. m \in topo_modules.nodes \ meta_reset /\ SelectedCells(m) \subseteq meta_reset
  BY <1>1 DEF create_meta_reset, NextSorted, Collected, SelectedCells, Submodules
<1>4. /\ \A tpl \in SelectedCells(m) : <<m, tpl>> \in ConnectedBy(m)
      /\ ConnectedBy(m) \subseteq {m} \X meta_reset
  BY <1>3 DEF ConnectedBy, SelectedCells
<1>5. register.module = m => register.D = original
  BY <1>3 DEF PortRewritten
<1>6. register \in [module : Modules, type : Types, D : Chunks(Chunk)]
  BY DEF TypeOK
<1>7. register' = IF register.module = m /\ register.type = "$dff"
                    THEN [register EXCEPT !.D = WithResetLogic(original)] ELSE register
  BY <1>5 DEF create_meta_reset
<1>8. TypeOK'
  <2>1. WithResetLogic(original) \in Chunks(Chunk)
    BY ResetLogicChunks DEF TypeOK
  <2>2. register' \in [module : Modules, type : Types, D : Chunks(Chunk)]
    BY <1>6, <1>7, <2>1
  <2>3. meta_reset' \subseteq topo_modules.nodes
    BY <1>2, <1>3 DEF TypeOK
  <2>4. connected' \subseteq topo_modules.nodes \X topo_modules.nodes
    BY <1>2, <1>3, <1>4 DEF TypeOK
  <2>5. QED
    BY <1>1, <1>2, <2>2, <2>3, <2>4 DEF TypeOK
<1>9. Collected' /\ InPhase'
  BY <1>1, <1>2 DEF Collected, InPhase, SelectedCells, Submodules
<1>10. Connected'
  <2>1. \A k \in Modules : SelectedCells(k)' = SelectedCells(k)
    BY <1>1 DEF SelectedCells, Submodules
  <2>2. meta_reset \subseteq Modules
    BY DEF TypeOK
  <2>3. QED
    BY <1>2, <1>3, <1>4, <2>1, <2>2 DEF Connected
<1>11. PortRewritten'
  <2>1. register'.module = register.module /\ register'.type = register.type
    BY <1>6, <1>7
  <2>2. register'.D = IF register.module = m /\ register.type = "$dff"
                        THEN WithResetLogic(original) ELSE register.D
    BY <1>6, <1>7
  <2>3. WithResetLogic(original)' = WithResetLogic(original)
    BY <1>1 DEF WithResetLogic
  <2>4. QED
    BY <1>1, <1>2, <2>1, <2>2, <2>3 DEF PortRewritten
<1>12. QED
  BY <1>8, <1>9, <1>10, <1>11

LEMMA InvariantHolds == Spec => []IInv
<1>1. IInv /\ [Next]_vars => IInv'
  <2> SUFFICES ASSUME IInv, [Next]_vars PROVE IInv'
    OBVIOUS
  <2>1. CASE \E m \in Modules : Collect(m)
    BY <2>1, CollectIInv
  <2>2. CASE Sort
    BY <2>2, SortIInv
  <2>3. CASE \E m \in Modules : create_meta_reset(m)
    BY <2>3, RewriteIInv
  <2>4. CASE Over \/ UNCHANGED vars
    <3>1. UNCHANGED vars
      BY <2>4 DEF Over
    <3>2. QED
      BY <3>1 DEF vars, IInv, TypeOK, Collected, Connected, InPhase, PortRewritten,
                  SelectedCells, Submodules, WithResetLogic
  <2>5. QED
    BY <2>1, <2>2, <2>3, <2>4 DEF Next
<1>2. QED
  BY <1>1, InitIInv, PTL DEF Spec

-----------------------------------------------------------------------------
(* What reaches the instances. *)

\* Along any path of cells from the top through selected modules every module was rewritten,
\* and every cell on it has its reset input driven from above: by induction on the position in
\* the path.
LEMMA PathConnected ==
  ASSUME IInv, phase = "done", Top \in topo_modules.nodes,
         NEW m \in Modules, NEW path \in SelectedInstances(m)
  PROVE  /\ m \in meta_reset
         /\ \A top, floating : ResetAt(path, top, floating) = top
<1> DEFINE n == Len(path)
           T == {k \in Nat : k + 1 <= n => path[k + 1] \in meta_reset}
<1>1. /\ n \in Nat /\ n >= 1 /\ path[1] = Top /\ path[n] = m
      /\ \A k \in 1 .. n - 1 : path[k + 1] \in SelectedCells(path[k])
  <2>1. PICK k \in 1 .. Cardinality(Modules) : path \in [1 .. k -> Modules]
    BY DEF SelectedInstances, Instances
  <2>2. k \in Nat /\ k >= 1
    BY DesignAssumption, FS_CardinalityType
  <2>3. n = k
    BY <2>1, <2>2
  <2>4. QED
    BY <2>2, <2>3 DEF SelectedInstances, SelectedCells, Instances
<1>2. Top \in meta_reset
  BY DEF IInv, InPhase
<1> HIDE DEF n
<1>3. 0 \in T
  BY <1>1, <1>2
<1>4. \A k \in T : k + 1 \in T
  <2> SUFFICES ASSUME NEW k \in T, (k + 1) + 1 <= n PROVE path[(k + 1) + 1] \in meta_reset
    OBVIOUS
  <2>1. k + 1 \in 1 .. n - 1 /\ path[k + 1] \in meta_reset
    BY <1>1
  <2>2. QED
    BY <1>1, <2>1 DEF IInv, Connected
<1>5. T = Nat
  <2>1. T \in SUBSET Nat
    OBVIOUS
  <2> HIDE DEF T
  <2>2. QED
    BY <1>3, <1>4, <2>1, NatSetInduction
<1>6. \A k \in 1 .. n : path[k] \in meta_reset
  <2> TAKE k \in 1 .. n
  <2>1. k - 1 \in Nat /\ (k - 1) + 1 = k /\ k <= n
    BY <1>1
  <2>2. k - 1 \in T
    BY ONLY <1>5, <2>1
  <2>3. QED
    BY <2>1, <2>2
<1>7. \A k \in 1 .. n - 1 : <<path[k], path[k + 1]>> \in connected
  BY <1>1, <1>6 DEF IInv, Connected
<1>8. QED
  BY <1>1, <1>6, <1>7 DEF ResetAt, n

-----------------------------------------------------------------------------
(* Theorems. *)

\* What the pass handles are modules, and what it orders, rewrites and connects was collected.
THEOREM TypeCorrect == Spec => []TypeOK
<1>1. IInv => TypeOK
  BY DEF IInv
<1>2. QED
  BY <1>1, InvariantHolds, PTL

\* One clock cycle with the top's reset high clears every $dff with a wire before it, in every
\* instance with selected modules above it, at any depth of any hierarchy, whatever modules are
\* selected and whatever order the sort chose.  Of a full selection these are all instances.
THEOREM ResetReachesRegisters == Spec => []HeldInReset
<1>1. IInv => HeldInReset
  <2> SUFFICES ASSUME IInv, phase = "done", Top \in topo_modules.nodes, register.type = "$dff",
                      \E k \in 1 .. Len(original) : original[k] = "wire",
                      NEW path \in SelectedInstances(register.module), NEW wire \in {0, 1},
                      NEW floating \in BOOLEAN
               PROVE  Loaded(register.D, ResetAt(path, TRUE, floating), wire)
                        = [k \in 1 .. Len(original) |-> 0]
    BY DEF HeldInReset
  <2>1. register.module \in meta_reset /\ ResetAt(path, TRUE, floating) = TRUE
    BY PathConnected DEF IInv, TypeOK
  <2>2. original \in Chunks({"wire", "const"})
    BY DEF IInv, TypeOK
  <2>3. Len(original) \in Nat
    BY <2>2, ChunksAreSequences, DesignAssumption
  <2>4. PICK n \in 0 .. Len(original) : register.D = [k \in 1 .. n |-> "mux"]
    BY <2>1, <2>2, ResetLogicChunks DEF IInv, PortRewritten
  <2>5. Len(register.D) = n
    BY <2>3, <2>4
  <2>6. ASSUME NEW k \in 1 .. Len(original)
        PROVE  (IF k <= Len(register.D) THEN Bit(register.D[k], TRUE, wire) ELSE 0) = 0
    <3>1. CASE k <= n
      <4>1. k \in 1 .. n /\ register.D[k] = "mux"
        BY <2>3, <2>4, <3>1
      <4>2. QED
        BY <4>1 DEF Bit
    <3>2. CASE ~(k <= n)
      BY <2>5, <3>2
    <3>3. QED
      BY <3>1, <3>2
  <2>7. QED
    BY <2>1, <2>6 DEF Loaded
<1>2. QED
  BY <1>1, InvariantHolds, PTL

\* While the top's reset is low the pass changes nothing a register loads, for every port that
\* does not mix wires and constants and in every instance with selected modules above it; a
\* register of constants it never changes.
THEOREM InactiveResetIsTransparent == Spec => []TransparentOtherwise
<1>1. IInv => TransparentOtherwise
  <2> DEFINE D == register.D
             Const == \A k \in 1 .. Len(original) : original[k] = "const"
  <2> SUFFICES ASSUME IInv, phase = "done", Top \in topo_modules.nodes, Uniform(original),
                      NEW path \in SelectedInstances(register.module), NEW wire \in {0, 1},
                      NEW floating \in BOOLEAN, NEW top \in BOOLEAN, ~top \/ Const
               PROVE  Loaded(D, ResetAt(path, top, floating), wire)
                        = Loaded(original, FALSE, wire)
    BY DEF TransparentOtherwise
  <2>1. register.module \in meta_reset /\ ResetAt(path, top, floating) = top
    BY PathConnected DEF IInv, TypeOK
  <2>2. original \in Chunks({"wire", "const"})
    BY DEF IInv, TypeOK
  <2>3. Len(original) \in Nat /\ original \in [1 .. Len(original) -> {"wire", "const"}]
    BY <2>2, ChunksAreSequences, DesignAssumption
  <2>4. D = original \/ D = WithResetLogic(original)
    BY DEF IInv, PortRewritten
  <2>5. CASE Const
    <3>1. D = original
      BY <2>2, <2>4, <2>5, ResetLogicChunks
    <3>2. ASSUME NEW r, NEW k \in 1 .. Len(original)
          PROVE  (IF k <= Len(original) THEN Bit(original[k], r, wire) ELSE 0)
                   = IF k <= Len(original) THEN 1 ELSE 0
      <4>1. original[k] = "const"
        BY <2>5
      <4>2. Bit(original[k], r, wire) = 1
        BY <4>1 DEF Bit
      <4>3. QED
        BY <4>2
    <3>3. ASSUME NEW r
          PROVE  Loaded(original, r, wire)
                   = [k \in 1 .. Len(original) |-> IF k <= Len(original) THEN 1 ELSE 0]
      BY <3>2 DEF Loaded
    <3>4. QED
      BY <3>1, <3>3
  <2>6. CASE ~Const
    <3>1. \A k \in 1 .. Len(original) : original[k] = "wire"
      BY <2>3, <2>6 DEF Uniform
    <3>2. Len(D) = Len(original) /\ \A k \in 1 .. Len(D) : D[k] \in {"wire", "mux"}
      <4>1. WithResetLogic(original) = [k \in 1 .. Len(original) |-> "mux"]
        BY <2>2, <3>1, ResetLogicChunks
      <4>2. QED
        BY <2>3, <2>4, <3>1, <4>1
    <3>3. \A k \in 1 .. Len(original) : Bit(D[k], FALSE, wire) = Bit(original[k], FALSE, wire)
      BY <3>1, <3>2 DEF Bit
    <3>4. QED
      BY <2>1, <2>6, <3>2, <3>3 DEF Loaded
  <2>7. QED
    BY <2>5, <2>6
<1>2. QED
  BY <1>1, InvariantHolds, PTL
=============================================================================
