---------------------------- MODULE DesignPassProofs ----------------------------
(***************************************************************************)
(* Proofs about the treatment of a design: whatever the functions of its   *)
(* modules, the names of its memories and the order they stand in, no      *)
(* memory is overlooked, no module around a memory stops the pass, and the *)
(* taint pins CellIFT connects are, after the cut, those that have a port. *)
(***************************************************************************)
EXTENDS DesignPass, NumberLemmas, SequenceTheorems

-----------------------------------------------------------------------------
(* The text of a design. *)

Kinds == {"module", "endmodule", "function", "endfunction", "input", "output", "posedge",
          "ifnot", "store", "cell", "annotation"}

Named ==
  {"wrapper", "top", "f", "a", "mem", "ram", "@hybridift", "clk_i", "rst_ni", "taint_meta_reset",
   "addr_o", "req_o", "PortAClk", "PortAAddr", "PortADataIn", "PortAWriteEnable", "PortADataOut",
   "RW0_addr", "RW0_en", "RW0_clk", "RW0_wmode", "RW0_wdata", "RW0_rdata", "RW0_wmask",
   "R0_addr", "R0_en", "R0_clk", "R0_data", "W0_addr", "W0_en", "W0_clk", "W0_data", "W0_mask"}
  \cup RamNames \cup Annotable

Lines ==
  [kind : Kinds, name : Named] \cup [kind : Kinds, name : Named, msb : Int]
  \cup [kind : Kinds, name : Named, indented : BOOLEAN]
  \cup [kind : Kinds, name : Named, roles : {RW0, RW0_masked, R0W0, R0W0_masked}]

\* e is the number of the line that ends the module id.
EndsAt(lines, id, e) ==
  /\ e \in id .. Len(lines)
  /\ lines[e].kind = "endmodule"
  /\ \A j \in id .. e - 1 : lines[j].kind # "endmodule"

IsDesign(lines) ==
  /\ lines \in Seq(Lines)
  /\ \A id \in ModuleIds(lines) : \E e \in DOMAIN lines : EndsAt(lines, id, e)

\* What the designs of openC910 have in common: no module instantiates itself, and what has an
\* array has the ports of a memory, declared above its functions.
OpenC910Module(m) ==
  /\ m[1].name \notin Cells(m)
  /\ Numbers("store", m) # {} =>
       /\ Len(m) >= 6
       /\ \A k \in 1 .. 5 : m[k + 1] = RamPorts[k]
       /\ Numbers("output", m) = {6}
       /\ \A f \in Numbers("function", m) : f > 6

\* Before annotate_chipyard_mems.py nothing is annotated.
ChipyardModule(m) == Len(m) >= 2 /\ Numbers("annotation", m) = {}

\* The modules the tables name, and no others, carry the annotation of their table.
AnnotatedModule(m) ==
  ModuleAnnotations(m) = IF Tabled(design, m[1]) THEN {Tables[design][m[1].name]} ELSE {}

TextInv ==
  /\ design \in {"openc910", "rocket", "boom"}
  /\ stage = "annotate" => Manual
  /\ IsDesign(text)
  /\ \A id \in ModuleIds(text) :
       LET m == Module(text, id)
       IN  IF ~Manual THEN OpenC910Module(m)
           ELSE IF stage = "annotate" THEN ChipyardModule(m) ELSE AnnotatedModule(m)

-----------------------------------------------------------------------------
(* The course of the pass. *)

AnnotatedIds == {id \in ModuleIds(text) : ModuleAnnotations(Module(text, id)) # {}}
Fakes == {id \in Candidates : Fake(id)}

\* Nothing picked is lost on the way, and only what was picked is instrumented.
Accounted ==
  /\ stage \in {"annotate", "select"} =>
       pending = <<>> /\ removed = {} /\ skipped = {} /\ DOMAIN shadowed = {}
  /\ ~Manual /\ stage \notin {"annotate", "select"} =>
       removed = Fakes /\ Considered = Candidates \ Fakes
  /\ Manual =>
       /\ removed = {} /\ skipped = {}
       /\ stage \in {"instrument", "written", "connected"} => Considered = AnnotatedIds
       /\ Considered \subseteq AnnotatedIds

\* Annotated ports that are not declared stop the pass before the first memory.
Declared ==
  Manual /\ Considered # {} => \A id \in ModuleIds(text) : Undeclared(Module(text, id)) = {}

ShadowedOnRoles ==
  \A id \in DOMAIN shadowed :
    shadowed[id] = TaintPorts(Module(text, id)) /\ "roles" \in Analysis(Module(text, id))

PassInv ==
  /\ TextInv
  /\ stage \in {"annotate", "select", "instrument", "written", "connected", "aborted"}
  /\ pending \in Seq(ModuleIds(text))
  /\ Accounted
  /\ Declared
  /\ ShadowedOnRoles
  /\ DOMAIN pins \subseteq DOMAIN shadowed
  /\ stage \in {"written", "connected"} => pending = <<>>
  /\ stage = "aborted" /\ ~Manual => pending # <<>>

RamInputs == {"PortAClk", "PortAAddr", "PortADataIn", "PortAWriteEnable"}

\* Functions of one argument, without a line between two of them.
FunctionsInBlock(m) ==
  /\ \A f \in Numbers("function", m) :
       f + 1 \in DOMAIN m /\ m[f + 1] = In("a", 7) /\ f + 2 \in Numbers("endfunction", m)
  /\ \A e \in Numbers("endfunction", m) : e - 2 \in Numbers("function", m)
  /\ \A f, g \in Numbers("function", m) : f < g => f + 3 \in Numbers("function", m)

\* A native reset is tested right below the clock, above or below all functions.
ResetTested(m) ==
  \E k \in DOMAIN m :
    /\ k + 1 \in DOMAIN m
    /\ m[k].kind = "posedge" /\ m[k + 1].kind = "ifnot" /\ m[k + 1].name = "rst_ni"
    /\ \/ \A f \in Numbers("function", m) : k + 1 < f
       \/ \A f \in Numbers("function", m) : f + 2 < k

\* What a clocked module of openC910 has besides the ports and the functions of a memory.
ClockedModule(m) ==
  Numbers("posedge", m) # {} =>
    /\ Numbers("store", m) # {}
    /\ \A k \in Numbers("posedge", m) : m[k].name = "PortAClk"
    /\ \A k \in Numbers("input", m) :
         m[k].name \in RamInputs \cup Resets \/ k - 1 \in Numbers("function", m)
    /\ FunctionsInBlock(m)
    /\ "rst_ni" \in Names("input", ToSet(m)) => ResetTested(m)

\* The ports of a Chipyard memory are those of its table, a second clock and the reset.
PlainModule(d, m) ==
  \A l \in ToSet(m) :
    /\ l.kind # "function"
    /\ Tabled(d, m[1]) /\ l.kind \in {"input", "output"} =>
         l.name \in DOMAIN Tables[d][m[1].name] \cup {"W0_clk", "taint_meta_reset"}

\* The pins left at the instances of a module.
PinsLeft(m) ==
  {m[k].name : k \in {j \in OutsideFunctions(m) : m[j].kind \in {"input", "output"}}}
    \ (Excluded \cup Unwanted)

PortsAsWritten ==
  \A id \in ModuleIds(text) :
    LET m == Module(text, id)
    IN  IF Manual THEN PlainModule(design, m) ELSE ClockedModule(m)

PinsInv ==
  /\ PortsAsWritten
  /\ stage = "connected" => \A id \in DOMAIN shadowed : pins[id] = PinsLeft(Module(text, id))

-----------------------------------------------------------------------------
(* Sequences and modules. *)

LEMMA InOrderLists ==
  ASSUME NEW S \in SUBSET Nat, IsFiniteSet(S)
  PROVE  /\ InOrder(S) \in Seq(S)
         /\ Len(InOrder(S)) = Cardinality(S)
         /\ ToSet(InOrder(S)) = S
<1> DEFINE rank(k) == Cardinality({j \in S : j <= k})
           nth(n) == CHOOSE k \in S : rank(k) = n
<1>1. /\ Cardinality(S) \in Nat
      /\ \A k \in S : rank(k) \in 1 .. Cardinality(S)
      /\ \A j, k \in S : j < k => rank(j) < rank(k)
      /\ \A i \in 1 .. Cardinality(S) : \E k \in S : rank(k) = i
  BY Ranks
<1>2. InOrder(S) = [n \in 1 .. Cardinality(S) |-> nth(n)]
  BY DEF InOrder
<1> HIDE DEF rank
<1>3. \A n \in 1 .. Cardinality(S) : nth(n) \in S /\ rank(nth(n)) = n
  BY <1>1
<1>4. \A k \in S : nth(rank(k)) = k
  <2>1. TAKE k \in S
  <2>2. PICK j \in S : j = nth(rank(k)) /\ rank(j) = rank(k)
    BY <1>1, <1>3
  <2>3. rank(k) \in Nat /\ rank(j) \in Nat /\ j \in Nat /\ k \in Nat
    BY <1>1
  <2>4. ~(k < j) /\ ~(j < k)
    BY <1>1, <2>2, <2>3
  <2>5. QED
    BY <2>2, <2>3, <2>4
<1> HIDE DEF nth
<1>5. InOrder(S) \in [1 .. Cardinality(S) -> S]
  BY <1>2, <1>3
<1>6. InOrder(S) \in Seq(S) /\ Len(InOrder(S)) = Cardinality(S)
  BY <1>1, <1>5
<1>7. \A k \in S : rank(k) \in 1 .. Cardinality(S) /\ InOrder(S)[rank(k)] = k
  BY <1>1, <1>2, <1>4
<1>8. DOMAIN InOrder(S) = 1 .. Cardinality(S) /\ \A n \in 1 .. Cardinality(S) : InOrder(S)[n] \in S
  BY <1>5
<1>9. ToSet(InOrder(S)) = S
  BY <1>7, <1>8 DEF ToSet
<1>10. QED
  BY <1>6, <1>9

LEMMA InOrderIncreases ==
  ASSUME NEW S \in SUBSET Nat, IsFiniteSet(S)
  PROVE  /\ \A n \in 1 .. Cardinality(S) : InOrder(S)[n] \in S
         /\ \A i, j \in 1 .. Cardinality(S) : i < j => InOrder(S)[i] < InOrder(S)[j]
         /\ S # {} => 1 \in 1 .. Cardinality(S) /\ \A k \in S : InOrder(S)[1] <= k
<1> DEFINE rank(k) == Cardinality({j \in S : j <= k})
           nth(n) == CHOOSE k \in S : rank(k) = n
<1>1. /\ Cardinality(S) \in Nat
      /\ \A k \in S : rank(k) \in 1 .. Cardinality(S)
      /\ \A j, k \in S : j < k => rank(j) < rank(k)
      /\ \A i \in 1 .. Cardinality(S) : \E k \in S : rank(k) = i
  BY Ranks
<1>2. InOrder(S) = [n \in 1 .. Cardinality(S) |-> nth(n)]
  BY DEF InOrder
<1> HIDE DEF rank
<1>3. \A n \in 1 .. Cardinality(S) : nth(n) \in S /\ rank(nth(n)) = n
  BY <1>1
<1> HIDE DEF nth
<1>4. \A n \in 1 .. Cardinality(S) : InOrder(S)[n] \in S /\ rank(InOrder(S)[n]) = n
  BY <1>2, <1>3
<1>5. ASSUME NEW i \in 1 .. Cardinality(S), NEW k \in S, i <= rank(k)
      PROVE  InOrder(S)[i] <= k
  <2>1. PICK s \in S : s = InOrder(S)[i] /\ rank(s) = i
    BY <1>4
  <2>2. s \in Nat /\ k \in Nat /\ rank(s) \in Nat /\ rank(k) \in Nat
    BY <1>1
  <2>3. ~(k < s)
    BY <1>1, <1>5, <2>1, <2>2
  <2>4. QED
    BY <2>1, <2>2, <2>3
<1>6. ASSUME NEW i \in 1 .. Cardinality(S), NEW j \in 1 .. Cardinality(S), i < j
      PROVE  InOrder(S)[i] < InOrder(S)[j]
  <2>1. PICK s \in S : s = InOrder(S)[j] /\ rank(s) = j
    BY <1>4
  <2>2. PICK r \in S : r = InOrder(S)[i] /\ rank(r) = i
    BY <1>4
  <2>3. r <= s
    BY <1>1, <1>5, <1>6, <2>1, <2>2
  <2>4. r # s
    BY <1>6, <2>1, <2>2
  <2>5. QED
    BY <2>1, <2>2, <2>3, <2>4
<1>7. S # {} => 1 \in 1 .. Cardinality(S) /\ \A k \in S : InOrder(S)[1] <= k
  <2>1. \A k \in S : 1 \in 1 .. Cardinality(S) /\ 1 <= rank(k)
    BY <1>1
  <2>2. QED
    BY <1>5, <2>1
<1>8. QED
  BY <1>4, <1>6, <1>7

LEMMA FirstOut ==
  ASSUME NEW S, NEW s \in Seq(S), s # <<>>
  PROVE  /\ Head(s) \in ToSet(s) /\ Head(s) \in S
         /\ Tail(s) \in Seq(S)
         /\ ToSet(s) = {Head(s)} \cup ToSet(Tail(s))
<1>1. Len(s) \in Nat \ {0} /\ DOMAIN s = 1 .. Len(s) /\ Head(s) = s[1]
  BY EmptySeq, LenProperties
<1>2. /\ Tail(s) \in Seq(S)
      /\ Len(Tail(s)) = Len(s) - 1
      /\ \A i \in 1 .. Len(s) - 1 : Tail(s)[i] = s[i + 1]
  BY HeadTailProperties
<1>3. DOMAIN Tail(s) = 1 .. Len(s) - 1
  BY <1>2, LenProperties
<1>4. \A i \in 1 .. Len(s) : i = 1 \/ i - 1 \in 1 .. Len(s) - 1
  BY <1>1
<1>5. \A i \in 1 .. Len(s) : s[i] = Head(s) \/ (i - 1 \in DOMAIN Tail(s) /\ Tail(s)[i - 1] = s[i])
  BY <1>1, <1>2, <1>3, <1>4
<1>6. \A i \in 1 .. Len(s) - 1 : i + 1 \in DOMAIN s
  BY <1>1
<1>7. ToSet(s) \subseteq {Head(s)} \cup ToSet(Tail(s))
  <2>1. SUFFICES ASSUME NEW x \in ToSet(s) PROVE x = Head(s) \/ x \in ToSet(Tail(s))
    OBVIOUS
  <2>2. PICK i \in 1 .. Len(s) : x = s[i]
    BY <1>1 DEF ToSet
  <2>3. CASE i - 1 \in DOMAIN Tail(s) /\ Tail(s)[i - 1] = s[i]
    BY <2>2, <2>3 DEF ToSet
  <2>4. QED
    BY <1>5, <2>2, <2>3
<1>8. \A i \in DOMAIN Tail(s) : i + 1 \in DOMAIN s /\ Tail(s)[i] = s[i + 1]
  BY <1>2, <1>3, <1>6
<1>9. ToSet(Tail(s)) \subseteq ToSet(s)
  BY <1>8 DEF ToSet
<1>10. 1 \in DOMAIN s
  BY <1>1
<1>11. Head(s) \in ToSet(s) /\ Head(s) \in S
  BY <1>1, <1>10, ElementOfSeq DEF ToSet
<1>12. QED
  BY <1>2, <1>7, <1>9, <1>11

LEMMA NumbersFinite ==
  ASSUME NEW S, NEW lines \in Seq(S), NEW kind
  PROVE  Numbers(kind, lines) \in SUBSET Nat /\ IsFiniteSet(Numbers(kind, lines))
<1>1. Len(lines) \in Nat /\ DOMAIN lines = 1 .. Len(lines)
  BY LenProperties
<1>2. Numbers(kind, lines) \in SUBSET (1 .. Len(lines))
  BY <1>1 DEF Numbers
<1>3. IsFiniteSet(1 .. Len(lines))
  BY <1>1, 1 \in Int, Len(lines) \in Int, FS_Interval
<1>4. QED
  BY <1>1, <1>2, <1>3, FS_Subset

LEMMA NamesOfLines ==
  ASSUME NEW lines, NEW kind
  PROVE  Names(kind, ToSet(lines)) = {lines[k].name : k \in Numbers(kind, lines)}
  BY DEF Names, Of, ToSet, Numbers

\* The module at line id is cut out of the text as the lines from there to line e.
CutOut(lines, id, e) ==
  /\ id \in Nat \ {0} /\ e \in Nat /\ id < e
  /\ Module(lines, id) = SubSeq(lines, id, e)
  /\ Module(lines, id) \in Seq(Lines)
  /\ Len(Module(lines, id)) = e - id + 1
  /\ DOMAIN Module(lines, id) = 1 .. e - id + 1
  /\ \A i \in 1 .. e - id + 1 : i + id - 1 \in DOMAIN lines /\ Module(lines, id)[i] = lines[i + id - 1]

LEMMA ModuleCut ==
  ASSUME NEW lines \in Seq(Lines), NEW id \in ModuleIds(lines),
         NEW e \in DOMAIN lines, EndsAt(lines, id, e)
  PROVE  CutOut(lines, id, e)
<1>1. Len(lines) \in Nat /\ DOMAIN lines = 1 .. Len(lines)
  BY LenProperties
<1>2. id \in 1 .. Len(lines) /\ lines[id].kind = "module" /\ e \in id .. Len(lines)
  BY <1>1 DEF ModuleIds, Numbers, EndsAt
<1>3. id # e
  BY <1>2 DEF EndsAt
<1>4. id \in Nat \ {0} /\ e \in Nat /\ id < e /\ e <= Len(lines)
  BY <1>1, <1>2, <1>3
<1>5. \A d \in id .. Len(lines) :
        lines[d].kind = "endmodule" /\ (\A j \in id .. d - 1 : lines[j].kind # "endmodule") => d = e
  <2>1. SUFFICES ASSUME NEW d \in id .. Len(lines), lines[d].kind = "endmodule",
                        \A j \in id .. d - 1 : lines[j].kind # "endmodule"
                 PROVE  d = e
    OBVIOUS
  <2>2. ~(d < e) /\ ~(e < d)
    BY <1>1, <1>4, <2>1 DEF EndsAt
  <2>3. QED
    BY <1>1, <1>4, <2>2
<1>6. Module(lines, id) = SubSeq(lines, id, e)
  BY <1>2, <1>5 DEF Module, EndsAt
<1>7. \A i \in id .. e : lines[i] \in Lines
  BY <1>1, <1>4, ElementOfSeq
<1>8. /\ SubSeq(lines, id, e) \in Seq(Lines)
      /\ Len(SubSeq(lines, id, e)) = e - id + 1
      /\ \A i \in 1 .. e - id + 1 : SubSeq(lines, id, e)[i] = lines[id + i - 1]
  BY <1>4, <1>7, SubSeqProperties
<1>9. \A i \in 1 .. e - id + 1 : i + id - 1 \in 1 .. Len(lines) /\ i + id - 1 = id + i - 1
  BY <1>1, <1>4
<1>10. DOMAIN Module(lines, id) = 1 .. e - id + 1
  BY <1>6, <1>8, LenProperties
<1>11. QED
  BY <1>1, <1>4, <1>6, <1>8, <1>9, <1>10 DEF CutOut

LEMMA ModuleLines ==
  ASSUME NEW lines, IsDesign(lines), NEW id \in ModuleIds(lines)
  PROVE  /\ Module(lines, id) \in Seq(Lines)
         /\ Len(Module(lines, id)) \in Nat /\ Len(Module(lines, id)) >= 2
         /\ Module(lines, id)[1] = lines[id]
         /\ ToSet(Module(lines, id)) \subseteq ToSet(lines)
<1>1. lines \in Seq(Lines)
  BY DEF IsDesign
<1>2. PICK e \in DOMAIN lines : EndsAt(lines, id, e)
  BY DEF IsDesign
<1>3. /\ id \in Nat \ {0} /\ e \in Nat /\ id < e
      /\ Module(lines, id) \in Seq(Lines)
      /\ Len(Module(lines, id)) = e - id + 1
      /\ DOMAIN Module(lines, id) = 1 .. e - id + 1
      /\ \A i \in 1 .. e - id + 1 : i + id - 1 \in DOMAIN lines /\ Module(lines, id)[i] = lines[i + id - 1]
  <2>1. CutOut(lines, id, e)
    BY <1>1, <1>2, ModuleCut
  <2>2. QED
    BY <2>1 DEF CutOut
<1>4. 1 \in 1 .. e - id + 1 /\ 1 + id - 1 = id
  BY <1>3
<1>5. Module(lines, id)[1] = lines[id]
  BY <1>3, <1>4
<1>6. ToSet(Module(lines, id)) \subseteq ToSet(lines)
  BY <1>3 DEF ToSet
<1>7. QED
  BY <1>3, <1>5, <1>6

-----------------------------------------------------------------------------
(* The course of the pass. *)

LEMMA SameText ==
  ASSUME UNCHANGED <<design, text>>
  PROVE  /\ Manual' = Manual /\ ModuleIds(text)' = ModuleIds(text)
         /\ Candidates' = Candidates /\ Fakes' = Fakes /\ AnnotatedIds' = AnnotatedIds
         /\ \A id : Module(text, id)' = Module(text, id)
         /\ \A m : Analysis(m)' = Analysis(m) /\ TaintPorts(m)' = TaintPorts(m)
<1>1. Manual' = Manual
  BY DEF Manual
<1>2. ModuleIds(text)' = ModuleIds(text)
  OBVIOUS
<1>3. \A id : Module(text, id)' = Module(text, id)
  OBVIOUS
<1>4. Candidates' = Candidates
  BY <1>2, <1>3 DEF Candidates
<1>5. \A id : Fake(id)' <=> Fake(id)
  BY <1>3, <1>4 DEF Fake
<1>6. Fakes' = Fakes
  BY <1>4, <1>5 DEF Fakes
<1>7. AnnotatedIds' = AnnotatedIds
  BY <1>2, <1>3 DEF AnnotatedIds
<1>8. \A m : TaintPorts(m)' = TaintPorts(m)
  BY <1>1 DEF TaintPorts
<1>9. \A m : Analysis(m)' = Analysis(m)
  BY <1>1 DEF Analysis
<1>10. QED
  BY <1>1, <1>2, <1>3, <1>4, <1>6, <1>7, <1>8, <1>9

LEMMA TextInvKept ==
  ASSUME TextInv, UNCHANGED <<design, text>>, stage' # "annotate", stage # "annotate"
  PROVE  TextInv'
<1>1. \A m : AnnotatedModule(m)' <=> AnnotatedModule(m)
  BY DEF AnnotatedModule
<1>2. QED
  BY <1>1, SameText DEF TextInv

LEMMA ModuleIdsFinite ==
  ASSUME IsDesign(text), NEW S \in SUBSET ModuleIds(text)
  PROVE  S \in SUBSET Nat /\ IsFiniteSet(S) /\ InOrder(S) \in Seq(ModuleIds(text)) /\ ToSet(InOrder(S)) = S
<1>1. ModuleIds(text) \in SUBSET Nat /\ IsFiniteSet(ModuleIds(text))
  BY NumbersFinite DEF IsDesign, ModuleIds
<1>2. S \in SUBSET Nat /\ IsFiniteSet(S)
  BY <1>1, FS_Subset
<1>3. InOrder(S) \in Seq(S) /\ ToSet(InOrder(S)) = S
  BY <1>2, InOrderLists
<1>4. InOrder(S) \in Seq(ModuleIds(text))
  BY <1>3, SeqMonotonic
<1>5. QED
  BY <1>2, <1>3, <1>4

LEMMA EmptySeqSet == <<>> \in Seq(ModuleIds(text)) /\ ToSet(<<>>) = {}
  BY EmptySeq DEF ToSet

LEMMA SelectCandidatesKeeps ==
  ASSUME PassInv, SelectCandidates
  PROVE  PassInv'
<1>1. /\ stage = "select" /\ ~Manual /\ stage' = "instrument"
      /\ UNCHANGED <<design, text, skipped, shadowed, pins>>
  BY DEF SelectCandidates
<1>2. removed' = Fakes /\ pending' = InOrder(Candidates \ Fakes)
  BY DEF SelectCandidates, Fakes
<1>3. TextInv'
  BY <1>1, TextInvKept DEF PassInv
<1>4. /\ Manual' = Manual /\ ModuleIds(text)' = ModuleIds(text)
      /\ Candidates' = Candidates /\ Fakes' = Fakes /\ AnnotatedIds' = AnnotatedIds
  BY <1>1, SameText
<1>5. skipped = {} /\ DOMAIN shadowed = {}
  BY <1>1 DEF PassInv, Accounted
<1>6. Candidates \ Fakes \in SUBSET ModuleIds(text)
  BY DEF Candidates
<1>7. pending' \in Seq(ModuleIds(text)) /\ ToSet(pending') = Candidates \ Fakes
  BY <1>2, <1>6, ModuleIdsFinite DEF PassInv, TextInv
<1>8. Considered' = Candidates \ Fakes
  BY <1>1, <1>5, <1>7 DEF Considered
<1>9. Accounted'
  BY <1>1, <1>2, <1>4, <1>8 DEF Accounted
<1>10. Declared' /\ ShadowedOnRoles'
  BY <1>1, <1>4, <1>5 DEF Declared, ShadowedOnRoles
<1>11. QED
  BY <1>1, <1>3, <1>4, <1>7, <1>9, <1>10 DEF PassInv

LEMMA SelectAnnotatedKeeps ==
  ASSUME PassInv, SelectAnnotated
  PROVE  PassInv'
<1>1. /\ stage = "select" /\ Manual
      /\ UNCHANGED <<design, text, removed, skipped, shadowed, pins>>
  BY DEF SelectAnnotated
<1>2. \/ stage' = "aborted" /\ pending' = pending
      \/ /\ stage' = "instrument" /\ pending' = InOrder(AnnotatedIds)
         /\ \A id \in ModuleIds(text) : Undeclared(Module(text, id)) = {}
  BY DEF SelectAnnotated, AnnotatedIds
<1>3. TextInv'
  BY <1>1, <1>2, TextInvKept DEF PassInv
<1>4. /\ Manual' = Manual /\ ModuleIds(text)' = ModuleIds(text)
      /\ Candidates' = Candidates /\ Fakes' = Fakes /\ AnnotatedIds' = AnnotatedIds
      /\ \A id : Module(text, id)' = Module(text, id)
  BY <1>1, SameText
<1>5. pending = <<>> /\ removed = {} /\ skipped = {} /\ DOMAIN shadowed = {}
  BY <1>1 DEF PassInv, Accounted
<1>6. AnnotatedIds \in SUBSET ModuleIds(text)
  BY DEF AnnotatedIds
<1>7. InOrder(AnnotatedIds) \in Seq(ModuleIds(text)) /\ ToSet(InOrder(AnnotatedIds)) = AnnotatedIds
  BY <1>6, ModuleIdsFinite DEF PassInv, TextInv
<1>8. /\ pending' \in Seq(ModuleIds(text))
      /\ Considered' \subseteq AnnotatedIds
      /\ stage' = "instrument" => Considered' = AnnotatedIds
  BY <1>1, <1>2, <1>5, <1>7, EmptySeqSet DEF Considered
<1>9. Accounted'
  BY <1>1, <1>2, <1>4, <1>5, <1>8 DEF Accounted
<1>10. Declared'
  <2>1. CASE stage' = "aborted"
    BY <1>1, <1>2, <1>5, <2>1, EmptySeqSet DEF Declared, Considered
  <2>2. CASE stage' # "aborted"
    BY <1>2, <1>4, <2>2 DEF Declared
  <2>3. QED
    BY <2>1, <2>2
<1>11. ShadowedOnRoles'
  BY <1>1, <1>5 DEF ShadowedOnRoles
<1>12. QED
  BY <1>1, <1>2, <1>3, <1>4, <1>8, <1>9, <1>10, <1>11 DEF PassInv

\* What the analysis may say in a design with annotations.
LEMMA ManualAnalysis ==
  ASSUME Manual, NEW m
  PROVE  Analysis(m) \in {{"assertion"}, {"roles"}}
  BY DEF Analysis

LEMMA InstrumentKeeps ==
  ASSUME PassInv, Instrument
  PROVE  PassInv'
<1> DEFINE id == Head(pending)
<1>1. /\ stage = "instrument" /\ pending # <<>>
      /\ UNCHANGED <<design, text, removed, pins>>
  BY DEF Instrument
<1>2. \/ Abort
      \/ /\ skipped' = skipped \cup {id} /\ pending' = Tail(pending)
         /\ UNCHANGED <<stage, shadowed>> /\ "skipped" \in Analysis(Module(text, id))
      \/ /\ shadowed' = [m \in DOMAIN shadowed \cup {id} |->
                           IF m = id THEN TaintPorts(Module(text, id)) ELSE shadowed[m]]
         /\ pending' = Tail(pending)
         /\ UNCHANGED <<stage, skipped>> /\ "roles" \in Analysis(Module(text, id))
  <2>1. PICK answer \in IF find_metareset_name(Module(text, id)) = {} THEN {"assertion"}
                        ELSE Analysis(Module(text, id)) :
           \/ answer = "assertion" /\ Abort
           \/ /\ answer = "skipped" /\ skipped' = skipped \cup {id} /\ pending' = Tail(pending)
              /\ UNCHANGED <<stage, shadowed>>
           \/ /\ answer = "roles"
              /\ shadowed' = [m \in DOMAIN shadowed \cup {id} |->
                                IF m = id THEN TaintPorts(Module(text, id)) ELSE shadowed[m]]
              /\ pending' = Tail(pending)
              /\ UNCHANGED <<stage, skipped>>
    BY DEF Instrument
  <2>2. answer # "assertion" => answer \in Analysis(Module(text, id))
    BY <2>1
  <2>3. QED
    BY <2>1, <2>2
<1>3. stage' # "annotate"
  BY <1>1, <1>2 DEF Abort
<1>4. TextInv'
  BY <1>1, <1>3, TextInvKept DEF PassInv
<1>5. /\ Manual' = Manual /\ ModuleIds(text)' = ModuleIds(text)
      /\ Candidates' = Candidates /\ Fakes' = Fakes /\ AnnotatedIds' = AnnotatedIds
      /\ \A i : Module(text, i)' = Module(text, i)
      /\ \A m : Analysis(m)' = Analysis(m) /\ TaintPorts(m)' = TaintPorts(m)
  BY <1>1, SameText
<1>6. /\ pending \in Seq(ModuleIds(text))
      /\ id \in ToSet(pending) /\ Tail(pending) \in Seq(ModuleIds(text))
      /\ ToSet(pending) = {id} \cup ToSet(Tail(pending))
  BY <1>1, FirstOut DEF PassInv
<1> HIDE DEF id
<1>7. CASE Abort
  <2>1. stage' = "aborted" /\ UNCHANGED <<pending, skipped, shadowed>>
    BY <1>7 DEF Abort
  <2>2. Considered' = Considered
    BY <2>1 DEF Considered
  <2>3. Accounted'
    BY <1>1, <1>5, <2>1, <2>2 DEF PassInv, Accounted
  <2>4. Declared'
    BY <1>5, <2>2 DEF PassInv, Declared
  <2>5. ShadowedOnRoles'
    BY <1>5, <2>1 DEF PassInv, ShadowedOnRoles
  <2>6. QED
    BY <1>1, <1>4, <1>5, <2>1, <2>3, <2>4, <2>5 DEF PassInv
<1>8. CASE /\ skipped' = skipped \cup {id} /\ pending' = Tail(pending)
           /\ UNCHANGED <<stage, shadowed>> /\ "skipped" \in Analysis(Module(text, id))
  <2>1. Considered' = Considered
    BY <1>6, <1>8 DEF Considered
  <2>2. ~Manual
    BY <1>8, ManualAnalysis
  <2>3. Accounted'
    BY <1>1, <1>5, <1>8, <2>1, <2>2 DEF PassInv, Accounted
  <2>4. Declared' /\ ShadowedOnRoles'
    BY <1>5, <1>8, <2>1, <2>2 DEF PassInv, Declared, ShadowedOnRoles
  <2>5. QED
    BY <1>1, <1>4, <1>5, <1>6, <1>8, <2>3, <2>4 DEF PassInv
<1>9. CASE /\ shadowed' = [m \in DOMAIN shadowed \cup {id} |->
                             IF m = id THEN TaintPorts(Module(text, id)) ELSE shadowed[m]]
           /\ pending' = Tail(pending)
           /\ UNCHANGED <<stage, skipped>> /\ "roles" \in Analysis(Module(text, id))
  <2>1. DOMAIN shadowed' = DOMAIN shadowed \cup {id}
    BY <1>9
  <2>2. Considered' = Considered
    BY <1>6, <1>9, <2>1 DEF Considered
  <2>3. Accounted'
    BY <1>1, <1>5, <1>9, <2>2 DEF PassInv, Accounted
  <2>4. Declared'
    BY <1>5, <2>2 DEF PassInv, Declared
  <2>5. \A i \in DOMAIN shadowed' :
          shadowed'[i] = TaintPorts(Module(text, i)) /\ "roles" \in Analysis(Module(text, i))
    BY <1>9 DEF PassInv, ShadowedOnRoles
  <2>6. ShadowedOnRoles'
    BY <1>5, <2>5 DEF ShadowedOnRoles
  <2>7. DOMAIN pins' \subseteq DOMAIN shadowed'
    BY <1>1, <2>1 DEF PassInv
  <2>8. QED
    BY <1>1, <1>4, <1>5, <1>6, <1>9, <2>3, <2>4, <2>6, <2>7 DEF PassInv
<1>10. QED
  BY <1>2, <1>7, <1>8, <1>9

LEMMA WriteDesignKeeps ==
  ASSUME PassInv, WriteDesign
  PROVE  PassInv'
<1>1. /\ stage = "instrument" /\ pending = <<>> /\ stage' = "written"
      /\ UNCHANGED <<design, text, pending, removed, skipped, shadowed, pins>>
  BY DEF WriteDesign
<1>2. TextInv'
  BY <1>1, TextInvKept DEF PassInv
<1>3. /\ Manual' = Manual /\ ModuleIds(text)' = ModuleIds(text)
      /\ Candidates' = Candidates /\ Fakes' = Fakes /\ AnnotatedIds' = AnnotatedIds
      /\ \A i : Module(text, i)' = Module(text, i)
      /\ \A m : Analysis(m)' = Analysis(m) /\ TaintPorts(m)' = TaintPorts(m)
  BY <1>1, SameText
<1>4. Considered' = Considered
  BY <1>1 DEF Considered
<1>5. Accounted'
  BY <1>1, <1>3, <1>4 DEF PassInv, Accounted
<1>6. Declared' /\ ShadowedOnRoles'
  BY <1>1, <1>3, <1>4 DEF PassInv, Declared, ShadowedOnRoles
<1>7. QED
  BY <1>1, <1>2, <1>3, <1>5, <1>6 DEF PassInv

LEMMA ConnectTaintKeeps ==
  ASSUME PassInv, ConnectTaint
  PROVE  PassInv'
<1>1. /\ stage = "written" /\ stage' = "connected"
      /\ UNCHANGED <<design, text, pending, removed, skipped, shadowed>>
      /\ DOMAIN pins' = DOMAIN shadowed
  BY DEF ConnectTaint
<1>2. TextInv'
  BY <1>1, TextInvKept DEF PassInv
<1>3. /\ Manual' = Manual /\ ModuleIds(text)' = ModuleIds(text)
      /\ Candidates' = Candidates /\ Fakes' = Fakes /\ AnnotatedIds' = AnnotatedIds
      /\ \A i : Module(text, i)' = Module(text, i)
      /\ \A m : Analysis(m)' = Analysis(m) /\ TaintPorts(m)' = TaintPorts(m)
  BY <1>1, SameText
<1>4. Considered' = Considered
  BY <1>1 DEF Considered
<1>5. Accounted'
  BY <1>1, <1>3, <1>4 DEF PassInv, Accounted
<1>6. Declared' /\ ShadowedOnRoles'
  BY <1>1, <1>3, <1>4 DEF PassInv, Declared, ShadowedOnRoles
<1>7. QED
  BY <1>1, <1>2, <1>3, <1>5, <1>6 DEF PassInv

-----------------------------------------------------------------------------
(* Removing functions. *)

LEMMA WithoutKeeps ==
  ASSUME NEW S, NEW lines \in Seq(S), NEW first \in Nat \ {0}, NEW last \in Nat
  PROVE  Without(lines, first, last) \in Seq(S)
<1> DEFINE upto == IF first <= Len(lines) THEN first - 1 ELSE Len(lines)
<1>1. Len(lines) \in Nat
  BY LenProperties
<1>2. upto \in Nat /\ upto <= Len(lines)
  BY <1>1
<1>3. \A i \in 1 .. upto : lines[i] \in S
  BY <1>1, <1>2, ElementOfSeq
<1>4. \A i \in last + 1 .. Len(lines) : lines[i] \in S
  BY <1>1, ElementOfSeq
<1> HIDE DEF upto
<1>5. SubSeq(lines, 1, upto) \in Seq(S)
  BY <1>2, <1>3, SubSeqProperties
<1>6. SubSeq(lines, last + 1, Len(lines)) \in Seq(S)
  BY <1>1, <1>4, SubSeqProperties
<1>7. Without(lines, first, last) = SubSeq(lines, 1, upto) \o SubSeq(lines, last + 1, Len(lines))
  BY DEF Without, upto
<1>8. QED
  BY <1>5, <1>6, <1>7, ConcatProperties

\* What stands before the lines cut keeps its place, what stands behind moves up.
LEMMA WithoutLines ==
  ASSUME NEW S, NEW lines \in Seq(S), NEW first \in Nat \ {0}, NEW last \in Nat
  PROVE  /\ \A p \in 1 .. Len(lines) :
              p < first => p \in DOMAIN Without(lines, first, last) /\ Without(lines, first, last)[p] = lines[p]
         /\ first <= last /\ last <= Len(lines) =>
              \A p \in last + 1 .. Len(lines) :
                /\ p - (last - first + 1) \in DOMAIN Without(lines, first, last)
                /\ Without(lines, first, last)[p - (last - first + 1)] = lines[p]
<1> DEFINE n == Len(lines)
           upto == IF first <= n THEN first - 1 ELSE n
           x == SubSeq(lines, 1, upto)
           y == SubSeq(lines, last + 1, n)
           w == Without(lines, first, last)
<1>1. n \in Nat
  BY LenProperties
<1> HIDE DEF n
<1>2. upto \in Nat /\ upto <= n /\ (first <= n => upto = first - 1) /\ \A p \in 1 .. n : p < first => p <= upto
  BY <1>1
<1>3. \A i \in 1 .. upto : lines[i] \in S
  BY <1>1, <1>2, ElementOfSeq DEF n
<1>4. \A i \in last + 1 .. n : lines[i] \in S
  BY <1>1, ElementOfSeq DEF n
<1> HIDE DEF upto
<1>5. x \in Seq(S) /\ Len(x) = upto /\ \A i \in 1 .. upto : x[i] = lines[i]
  <2>1. /\ x \in Seq(S)
        /\ Len(x) = IF 1 <= upto THEN upto - 1 + 1 ELSE 0
        /\ \A i \in 1 .. upto - 1 + 1 : x[i] = lines[1 + i - 1]
    BY <1>2, <1>3, SubSeqProperties
  <2>2. upto - 1 + 1 = upto /\ \A i \in 1 .. upto : 1 + i - 1 = i
    BY <1>2
  <2>3. (IF 1 <= upto THEN upto - 1 + 1 ELSE 0) = upto
    BY <1>2
  <2>4. QED
    BY <2>1, <2>2, <2>3
<1>6. y \in Seq(S) /\ (last <= n => Len(y) = n - last /\ \A i \in 1 .. n - last : y[i] = lines[last + i])
  <2>1. /\ y \in Seq(S)
        /\ Len(y) = IF last + 1 <= n THEN n - (last + 1) + 1 ELSE 0
        /\ \A i \in 1 .. n - (last + 1) + 1 : y[i] = lines[last + 1 + i - 1]
    BY <1>1, <1>4, SubSeqProperties
  <2>2. n - (last + 1) + 1 = n - last /\ \A i \in 1 .. n - last : last + 1 + i - 1 = last + i
    BY <1>1
  <2>3. last <= n => (IF last + 1 <= n THEN n - (last + 1) + 1 ELSE 0) = n - last
    BY <1>1
  <2>4. QED
    BY <2>1, <2>2, <2>3
<1>7. w = x \o y
  BY DEF Without, upto, n
<1> HIDE DEF x, y, w
<1>8. /\ w \in Seq(S) /\ Len(w) = upto + Len(y)
      /\ \A p \in 1 .. upto + Len(y) : w[p] = IF p <= upto THEN lines[p] ELSE y[p - upto]
  <2>1. /\ w \in Seq(S) /\ Len(w) = upto + Len(y)
        /\ \A p \in 1 .. upto + Len(y) : w[p] = IF p <= upto THEN x[p] ELSE y[p - upto]
    BY <1>5, <1>6, <1>7, ConcatProperties
  <2>2. \A p \in 1 .. upto + Len(y) : p <= upto => p \in 1 .. upto
    BY <1>2
  <2>3. QED
    BY <1>5, <2>1, <2>2
<1>9. DOMAIN w = 1 .. upto + Len(y) /\ Len(y) \in Nat
  BY <1>6, <1>8, LenProperties
<1>10. ASSUME NEW p \in 1 .. n, p < first
       PROVE  p \in DOMAIN w /\ w[p] = lines[p]
  <2>1. p <= upto /\ p \in 1 .. upto + Len(y)
    BY <1>1, <1>2, <1>9, <1>10
  <2>2. QED
    BY <1>8, <1>9, <2>1
<1>11. ASSUME first <= last, last <= n, NEW p \in last + 1 .. n
       PROVE  p - (last - first + 1) \in DOMAIN w /\ w[p - (last - first + 1)] = lines[p]
  <2>1. upto = first - 1
    BY <1>1, <1>2, <1>11
  <2>2. PICK q \in 1 .. upto + Len(y) :
          /\ q = p - (last - first + 1) /\ ~(q <= upto)
          /\ q - upto = p - last
    BY <1>1, <1>6, <1>11, <2>1
  <2>3. p - last \in 1 .. n - last /\ last + (p - last) = p
    BY <1>1, <1>11
  <2>4. w[q] = y[p - last]
    BY <1>8, <2>2
  <2>5. y[p - last] = lines[p]
    BY <1>6, <1>11, <2>3
  <2>6. QED
    BY <1>9, <2>2, <2>4, <2>5
<1>12. QED
  BY <1>10, <1>11 DEF w, n

\* The loop of remove_functions, one function after the other.
Removal(m, g) ==
  LET starts == InOrder(Numbers("function", m))
      ends   == InOrder(Numbers("endfunction", m))
  IN  /\ g[0] = m
      /\ \A j \in 1 .. Len(starts) : g[j] = Without(g[j - 1], starts[j], ends[j])
      /\ remove_functions(m) = g[Len(starts)]

LEMMA RemovalRuns ==
  ASSUME NEW S, NEW m \in Seq(S), FunctionsPaired(m)
  PROVE  \E g : Removal(m, g) /\ \A j \in 0 .. Len(InOrder(Numbers("function", m))) : g[j] \in Seq(S)
<1> DEFINE starts == InOrder(Numbers("function", m))
           ends == InOrder(Numbers("endfunction", m))
           n == Len(starts)
           Loop(g, k) == g = [j \in 0 .. k |-> IF j = 0 THEN m ELSE Without(g[j - 1], starts[j], ends[j])]
           Ks == {k \in Nat : \E g : Loop(g, k)}
<1>1. /\ Numbers("function", m) \in SUBSET Nat /\ IsFiniteSet(Numbers("function", m))
      /\ Numbers("endfunction", m) \in SUBSET Nat /\ IsFiniteSet(Numbers("endfunction", m))
  BY NumbersFinite
<1>2. starts \in Seq(Numbers("function", m)) /\ ends \in Seq(Numbers("endfunction", m)) /\ Len(ends) = n
  BY <1>1, InOrderLists DEF FunctionsPaired
<1>3. 0 \notin Numbers("function", m)
  BY LenProperties DEF Numbers
<1>4. n \in Nat /\ \A j \in 1 .. n : starts[j] \in Nat \ {0} /\ ends[j] \in Nat
  BY <1>1, <1>2, <1>3, LenProperties, ElementOfSeq
<1> HIDE DEF starts, ends, n
<1>5. Ks = Nat
  <2>1. [j \in 0 .. 0 |-> m] = [j \in 0 .. 0 |-> IF j = 0 THEN m ELSE
          Without([i \in 0 .. 0 |-> m][j - 1], starts[j], ends[j])]
    OBVIOUS
  <2>2. 0 \in Ks
    BY <2>1
  <2>3. ASSUME NEW k \in Ks
        PROVE  k + 1 \in Ks
    <3>1. PICK g : Loop(g, k)
      OBVIOUS
    <3> DEFINE h == [j \in 0 .. k + 1 |-> IF j <= k THEN g[j] ELSE Without(g[k], starts[k + 1], ends[k + 1])]
    <3>2. \A j \in 0 .. k + 1 :
            h[j] = IF j = 0 THEN m ELSE Without(h[j - 1], starts[j], ends[j])
      <4>1. TAKE j \in 0 .. k + 1
      <4>2. CASE j = 0
        BY <3>1, <4>2
      <4>3. CASE j \in 1 .. k
        <5>1. h[j] = g[j] /\ h[j - 1] = g[j - 1]
          BY <4>3
        <5>2. g[j] = Without(g[j - 1], starts[j], ends[j])
          BY <3>1, <4>3
        <5>3. QED
          BY <4>3, <5>1, <5>2
      <4>4. CASE j = k + 1
        BY <4>4
      <4>5. QED
        BY <4>2, <4>3, <4>4
    <3>3. h = [j \in 0 .. k + 1 |-> h[j]]
      OBVIOUS
    <3>4. Loop(h, k + 1)
      <4> HIDE DEF h
      <4>1. QED
        BY <3>2, <3>3
    <3> HIDE DEF h, Loop
    <3>5. QED
      BY <3>4
  <2> HIDE DEF Ks
  <2>4. Ks \in SUBSET Nat
    BY DEF Ks
  <2>5. QED
    BY <2>2, <2>3, <2>4, NatSetInduction
<1>6. PICK g : Loop(g, n) /\ remove_functions(m) = g[n]
  <2>1. \E g : Loop(g, n)
    BY <1>4, <1>5
  <2>2. QED
    BY <2>1 DEF remove_functions, starts, ends, n
<1> DEFINE Kept == {k \in Nat : k <= n => g[k] \in Seq(S)}
<1>7. Kept = Nat
  <2>1. 0 \in Kept
    BY <1>4, <1>6
  <2>2. ASSUME NEW k \in Kept, k + 1 <= n
        PROVE  g[k + 1] \in Seq(S)
    <3>1. g[k] \in Seq(S) /\ k + 1 \in 0 .. n /\ k + 1 \in 1 .. n /\ k + 1 # 0
      BY <1>4, <2>2
    <3>2. \A j \in 0 .. n : g[j] = IF j = 0 THEN m ELSE Without(g[j - 1], starts[j], ends[j])
      BY <1>6
    <3>3. k + 1 - 1 = k
      OBVIOUS
    <3>4. g[k + 1] = Without(g[k], starts[k + 1], ends[k + 1])
      BY <3>1, <3>2, <3>3
    <3>5. QED
      BY <1>4, <3>1, <3>4, WithoutKeeps
  <2>3. \A k \in Kept : k + 1 \in Kept
    BY <2>2
  <2> HIDE DEF Kept
  <2>4. Kept \in SUBSET Nat
    BY DEF Kept
  <2>5. QED
    BY <2>1, <2>3, <2>4, NatSetInduction
<1>8. \A j \in 0 .. n : j \in Kept /\ j <= n
  BY <1>4, <1>7
<1>9. \A j \in 0 .. n : g[j] \in Seq(S)
  BY <1>8
<1>10. g[0] = m /\ \A j \in 1 .. n : g[j] = Without(g[j - 1], starts[j], ends[j])
  <2>1. \A j \in 0 .. n : g[j] = IF j = 0 THEN m ELSE Without(g[j - 1], starts[j], ends[j])
    BY <1>6
  <2>2. 0 \in 0 .. n /\ \A j \in 1 .. n : j \in 0 .. n /\ j # 0
    BY <1>4
  <2>3. QED
    BY <2>1, <2>2
<1>11. Removal(m, g)
  BY <1>6, <1>10 DEF Removal, starts, ends, n
<1>12. QED
  BY <1>9, <1>11 DEF n, starts

\* However stale the line numbers, what is left are lines of the module.
LEMMA RemovedLines ==
  ASSUME NEW S, NEW m \in Seq(S), FunctionsPaired(m)
  PROVE  remove_functions(m) \in Seq(S)
<1>1. PICK g : Removal(m, g) /\ \A j \in 0 .. Len(InOrder(Numbers("function", m))) : g[j] \in Seq(S)
  BY RemovalRuns
<1>2. Len(InOrder(Numbers("function", m))) \in Nat
  BY NumbersFinite, InOrderLists, LenProperties
<1>3. QED
  BY <1>1, <1>2 DEF Removal

LEMMA RemovedAreLines ==
  ASSUME NEW m \in Seq(Lines), FunctionsPaired(m)
  PROVE  remove_functions(m) \in Seq(Lines) /\ ToSet(remove_functions(m)) \subseteq ToSet(m)
<1>1. m \in Seq(ToSet(m))
  <2>1. Len(m) \in Nat /\ m \in [1 .. Len(m) -> Lines]
    BY LenProperties
  <2>2. m \in [1 .. Len(m) -> ToSet(m)]
    BY <2>1 DEF ToSet
  <2>3. QED
    BY <2>1, <2>2, SeqDef
<1>2. remove_functions(m) \in Seq(ToSet(m)) /\ remove_functions(m) \in Seq(Lines)
  BY <1>1, RemovedLines
<1>3. ToSet(remove_functions(m)) \subseteq ToSet(m)
  BY <1>2, LenProperties, ElementOfSeq DEF ToSet
<1>4. QED
  BY <1>2, <1>3

LEMMA StartsAndEnds ==
  ASSUME NEW S, NEW m \in Seq(S), FunctionsPaired(m)
  PROVE  LET F == Numbers("function", m)
             E == Numbers("endfunction", m)
             starts == InOrder(F)
             ends == InOrder(E)
         IN  /\ Len(starts) = Cardinality(F) /\ Cardinality(F) \in Nat /\ Cardinality(E) = Cardinality(F)
             /\ F \subseteq 1 .. Len(m) /\ E \subseteq 1 .. Len(m)
             /\ \A j \in 1 .. Len(starts) : starts[j] \in F /\ ends[j] \in E
             /\ \A i, j \in 1 .. Len(starts) : i < j => starts[i] < starts[j]
             /\ F # {} => 1 \in 1 .. Len(starts) /\ (\A f \in F : starts[1] <= f) /\ \A e \in E : ends[1] <= e
             /\ \A f \in F : \E j \in 1 .. Len(starts) : f = starts[j]
<1> DEFINE F == Numbers("function", m)
           E == Numbers("endfunction", m)
           starts == InOrder(F)
           ends == InOrder(E)
<1>1. F \in SUBSET Nat /\ IsFiniteSet(F) /\ E \in SUBSET Nat /\ IsFiniteSet(E)
  BY NumbersFinite
<1>2. F \subseteq 1 .. Len(m) /\ E \subseteq 1 .. Len(m)
  BY LenProperties DEF Numbers
<1>3. Len(starts) = Len(ends)
  BY DEF FunctionsPaired
<1> HIDE DEF F, E
<1>4. /\ Len(starts) = Cardinality(F) /\ Len(ends) = Cardinality(E)
      /\ ToSet(starts) = F /\ starts \in Seq(F) /\ ends \in Seq(E)
  BY <1>1, InOrderLists
<1>5. /\ \A n \in 1 .. Cardinality(F) : starts[n] \in F
      /\ \A i, j \in 1 .. Cardinality(F) : i < j => starts[i] < starts[j]
      /\ F # {} => 1 \in 1 .. Cardinality(F) /\ \A k \in F : starts[1] <= k
  BY <1>1, InOrderIncreases
<1>6. /\ \A n \in 1 .. Cardinality(E) : ends[n] \in E
      /\ E # {} => \A k \in E : ends[1] <= k
  BY <1>1, InOrderIncreases
<1>7. Cardinality(F) \in Nat
  BY <1>4, LenProperties
<1> HIDE DEF starts, ends
<1>8. \A f \in F : \E j \in 1 .. Len(starts) : f = starts[j]
  BY <1>4, LenProperties DEF ToSet
<1>9. F # {} => 1 \in 1 .. Len(starts) /\ (\A f \in F : starts[1] <= f) /\ \A e \in E : ends[1] <= e
  BY <1>4, <1>5, <1>6
<1>10. \A j \in 1 .. Len(starts) : starts[j] \in F /\ ends[j] \in E
  BY <1>3, <1>4, <1>5, <1>6
<1>11. \A i, j \in 1 .. Len(starts) : i < j => starts[i] < starts[j]
  BY <1>4, <1>5
<1>12. QED
  BY <1>2, <1>3, <1>4, <1>7, <1>8, <1>9, <1>10, <1>11 DEF F, E, starts, ends

\* A line above all cuts still to come stays where it is.
LEMMA LineKept ==
  ASSUME NEW S, NEW m \in Seq(S), FunctionsPaired(m), NEW g, Removal(m, g),
         \A j \in 0 .. Len(InOrder(Numbers("function", m))) : g[j] \in Seq(S),
         NEW i \in 0 .. Len(InOrder(Numbers("function", m))), NEW p \in DOMAIN g[i],
         \A j \in i + 1 .. Len(InOrder(Numbers("function", m))) : p < InOrder(Numbers("function", m))[j]
  PROVE  p \in DOMAIN remove_functions(m) /\ remove_functions(m)[p] = g[i][p]
<1> DEFINE starts == InOrder(Numbers("function", m))
           ends == InOrder(Numbers("endfunction", m))
           n == Len(starts)
           Kept == {k \in Nat : i + k <= n => p \in DOMAIN g[i + k] /\ g[i + k][p] = g[i][p]}
<1>1. n \in Nat /\ i \in 0 .. n /\ \A j \in 1 .. n : starts[j] \in Nat \ {0} /\ ends[j] \in Nat
  <2>1. /\ n \in Nat
        /\ Numbers("function", m) \subseteq 1 .. Len(m) /\ Numbers("endfunction", m) \subseteq 1 .. Len(m)
        /\ \A j \in 1 .. n : starts[j] \in Numbers("function", m) /\ ends[j] \in Numbers("endfunction", m)
    BY StartsAndEnds
  <2>2. QED
    BY <2>1
<1>2. /\ \A j \in 1 .. n : g[j] = Without(g[j - 1], starts[j], ends[j])
      /\ remove_functions(m) = g[n]
      /\ \A j \in 0 .. n : g[j] \in Seq(S)
      /\ \A j \in i + 1 .. n : p < starts[j]
  BY DEF Removal
<1> HIDE DEF starts, ends, n
<1>3. 0 \in Kept
  BY <1>1
<1>4. ASSUME NEW k \in Kept, i + (k + 1) <= n
      PROVE  p \in DOMAIN g[i + (k + 1)] /\ g[i + (k + 1)][p] = g[i][p]
  <2>1. PICK j \in 1 .. n : j = i + (k + 1) /\ j - 1 = i + k /\ j \in i + 1 .. n /\ j - 1 \in 0 .. n
    BY <1>1, <1>4
  <2>2. i + k <= n
    BY <1>1, <1>4
  <2>3. p \in DOMAIN g[j - 1] /\ g[j - 1][p] = g[i][p]
    BY <2>1, <2>2
  <2>4. g[j - 1] \in Seq(S) /\ p \in 1 .. Len(g[j - 1]) /\ p < starts[j]
    BY <1>2, <2>1, <2>3, LenProperties
  <2>5. p \in DOMAIN Without(g[j - 1], starts[j], ends[j])
        /\ Without(g[j - 1], starts[j], ends[j])[p] = g[j - 1][p]
    <3>1. starts[j] \in Nat \ {0} /\ ends[j] \in Nat
      BY <1>1
    <3>2. \A q \in 1 .. Len(g[j - 1]) :
            q < starts[j] => /\ q \in DOMAIN Without(g[j - 1], starts[j], ends[j])
                             /\ Without(g[j - 1], starts[j], ends[j])[q] = g[j - 1][q]
      BY ONLY <2>4, <3>1, WithoutLines
    <3>3. QED
      BY <2>4, <3>2
  <2>6. p \in DOMAIN g[j] /\ g[j][p] = g[i][p]
    BY <1>2, <2>3, <2>5
  <2>7. QED
    BY <2>1, <2>6
<1>5. \A k \in Kept : k + 1 \in Kept
  <2>1. TAKE k \in Kept
  <2>2. k + 1 \in Nat
    OBVIOUS
  <2>3. i + (k + 1) <= n => p \in DOMAIN g[i + (k + 1)] /\ g[i + (k + 1)][p] = g[i][p]
    BY <1>4
  <2>4. QED
    BY <2>2, <2>3
<1> HIDE DEF Kept
<1>6. Kept = Nat
  <2>1. Kept \in SUBSET Nat
    BY DEF Kept
  <2>2. QED
    BY <1>3, <1>5, <2>1, NatSetInduction
<1>7. n - i \in Kept /\ i + (n - i) = n
  BY <1>1, <1>6
<1>8. QED
  BY <1>1, <1>2, <1>7 DEF Kept

\* What the removal does to functions that stand in one block: what is above stays, what is below
\* one function moves up, and of several functions the second one is cut into and leaves its input.
LEMMA RemovedBlock ==
  ASSUME NEW m \in Seq(Lines), FunctionsPaired(m), FunctionsInBlock(m)
  PROVE  LET r == remove_functions(m)
             F == Numbers("function", m)
         IN  /\ \A p \in DOMAIN m : (\A f \in F : p < f) => p \in DOMAIN r /\ r[p] = m[p]
             /\ \A f : F = {f} => \A p \in f + 3 .. Len(m) : p - 3 \in DOMAIN r /\ r[p - 3] = m[p]
             /\ \A e, f \in F : e < f => \E q \in DOMAIN r : r[q] = In("a", 7)
<1> DEFINE F == Numbers("function", m)
           E == Numbers("endfunction", m)
           starts == InOrder(F)
           ends == InOrder(E)
           n == Len(starts)
           r == remove_functions(m)
<1>1. PICK g : Removal(m, g) /\ \A j \in 0 .. n : g[j] \in Seq(Lines)
  BY RemovalRuns
<1>2. /\ n = Cardinality(F) /\ n \in Nat
      /\ F \subseteq 1 .. Len(m) /\ E \subseteq 1 .. Len(m)
      /\ \A j \in 1 .. n : starts[j] \in F /\ ends[j] \in E
      /\ \A i, j \in 1 .. n : i < j => starts[i] < starts[j]
      /\ F # {} => 1 \in 1 .. n /\ (\A f \in F : starts[1] <= f) /\ \A e \in E : ends[1] <= e
      /\ \A f \in F : \E j \in 1 .. n : f = starts[j]
  BY StartsAndEnds
<1>3. /\ g[0] = m /\ r = g[n]
      /\ \A j \in 1 .. n : g[j] = Without(g[j - 1], starts[j], ends[j])
  BY <1>1 DEF Removal
<1>4. /\ \A f \in F : f + 1 \in DOMAIN m /\ m[f + 1] = In("a", 7) /\ f + 2 \in E
      /\ \A e \in E : e - 2 \in F
      /\ \A f, h \in F : f < h => f + 3 \in F
  BY DEF FunctionsInBlock
<1>5. /\ \A f \in F : f \in DOMAIN m /\ m[f].kind = "function"
      /\ \A e \in E : e \in DOMAIN m /\ m[e].kind = "endfunction"
  BY DEF Numbers
<1>6. Len(m) \in Nat /\ DOMAIN m = 1 .. Len(m)
  BY LenProperties
<1>7. ASSUME NEW i \in 0 .. n, NEW p \in DOMAIN g[i], \A j \in i + 1 .. n : p < starts[j]
      PROVE  p \in DOMAIN r /\ r[p] = g[i][p]
  BY <1>1, <1>7, LineKept
<1> HIDE DEF F, E, starts, ends, n, r
<1>14. F \subseteq Nat \ {0} /\ E \subseteq Nat \ {0}
  <2>1. F \subseteq 1 .. Len(m) /\ E \subseteq 1 .. Len(m)
    BY <1>2
  <2>2. QED
    BY <1>6, <2>1
<1>8. ASSUME NEW p \in DOMAIN m, \A f \in F : p < f
      PROVE  p \in DOMAIN r /\ r[p] = m[p]
  <2>1. 0 \in 0 .. n /\ \A j \in 0 + 1 .. n : j \in 1 .. n
    BY <1>2
  <2>2. \A j \in 0 + 1 .. n : p < starts[j]
    BY <1>2, <1>8, <2>1
  <2>3. p \in DOMAIN g[0]
    BY <1>3
  <2>4. QED
    BY <1>3, <1>7, <2>1, <2>2, <2>3
<1>9. ASSUME F # {}
      PROVE  /\ 1 \in 1 .. n /\ starts[1] \in F /\ ends[1] = starts[1] + 2
             /\ g[1] = Without(m, starts[1], starts[1] + 2)
             /\ starts[1] + 2 \in 1 .. Len(m)
  <2>1. 1 \in 1 .. n /\ starts[1] \in F /\ ends[1] \in E
    BY <1>2, <1>9
  <2>2. starts[1] + 2 \in E /\ ends[1] - 2 \in F
    BY <1>4, <2>1
  <2>3. ends[1] <= starts[1] + 2 /\ starts[1] <= ends[1] - 2
    BY <1>2, <1>9, <2>2
  <2>4. starts[1] \in Nat /\ ends[1] \in Nat
    BY <1>14, <2>1
  <2>5. ends[1] = starts[1] + 2
    BY <2>3, <2>4
  <2>6. g[1] = Without(g[1 - 1], starts[1], ends[1]) /\ 1 - 1 = 0
    BY <1>3, <2>1
  <2>7. QED
    BY <1>2, <1>3, <2>1, <2>2, <2>5, <2>6
<1>10. ASSUME F # {}, NEW p \in starts[1] + 3 .. Len(m)
       PROVE  p - 3 \in DOMAIN g[1] /\ g[1][p - 3] = m[p]
  <2>0. PICK s \in F : s = starts[1] /\ s + 2 \in 1 .. Len(m)
    BY <1>9, <1>10
  <2>1. s \in Nat \ {0} /\ s + 2 \in Nat /\ s <= s + 2 /\ s + 2 <= Len(m)
    BY <1>6, <1>14, <2>0
  <2>2. p \in (s + 2) + 1 .. Len(m)
    <3>1. p \in s + 3 .. Len(m) /\ (s + 2) + 1 = s + 3
      BY <1>10, <2>0, <2>1
    <3>2. QED
      BY <3>1
  <2>3. (s + 2) - s + 1 = 3
    BY <2>1
  <2>4. /\ p - ((s + 2) - s + 1) \in DOMAIN Without(m, s, s + 2)
        /\ Without(m, s, s + 2)[p - ((s + 2) - s + 1)] = m[p]
    BY <2>1, <2>2, WithoutLines
  <2>5. QED
    BY <1>9, <1>10, <2>0, <2>3, <2>4
<1>11. ASSUME NEW f, F = {f}, NEW p \in f + 3 .. Len(m)
       PROVE  p - 3 \in DOMAIN r /\ r[p - 3] = m[p]
  <2>1. F # {} /\ starts[1] = f
    BY <1>9, <1>11
  <2>2. n = 1
    <3>1. \A j \in 1 .. n : starts[j] = f
      BY <1>2, <1>11
    <3>2. f \in Nat
      BY <1>11, <1>14
    <3>3. ~(1 < n)
      <4>1. SUFFICES ASSUME 1 < n PROVE FALSE
        OBVIOUS
      <4>2. 1 \in 1 .. n /\ n \in 1 .. n
        BY <1>2, <4>1
      <4>3. starts[1] < starts[n] /\ starts[1] = f /\ starts[n] = f
        BY <1>2, <3>1, <4>1, <4>2
      <4>4. QED
        BY <3>2, <4>3
    <3>4. QED
      BY <1>2, <1>9, <2>1, <3>3
  <2>3. p \in starts[1] + 3 .. Len(m)
    BY <1>11, <2>1
  <2>4. QED
    BY <1>3, <1>10, <2>1, <2>2, <2>3
<1>12. ASSUME NEW e \in F, NEW f \in F, e < f
       PROVE  \E q \in DOMAIN r : r[q] = In("a", 7)
  <2>0. PICK s \in F : s = starts[1]
    BY <1>9, <1>12
  <2>1. F # {} /\ s \in F /\ 1 \in 1 .. n /\ s \in Nat
    BY <1>9, <1>12, <1>14
  <2>2. s <= e /\ e \in Nat /\ f \in Nat
    BY <1>2, <1>12, <1>14, <2>0, <2>1
  <2>3. s < f
    BY <1>12, <2>1, <2>2
  <2>4. s + 3 \in F
    BY <1>4, <2>1, <2>3
  <2>5. s + 3 + 1 \in DOMAIN m /\ m[s + 3 + 1] = In("a", 7)
    BY <1>4, <2>4
  <2>6. s + 3 + 1 \in s + 3 .. Len(m) /\ s + 3 + 1 - 3 = s + 1
    BY <1>6, <2>1, <2>5
  <2>7. s + 1 \in DOMAIN g[1] /\ g[1][s + 1] = In("a", 7)
    <3> DEFINE p == s + 3 + 1
    <3>1. p \in s + 3 .. Len(m) /\ p - 3 = s + 1 /\ m[p] = In("a", 7)
      BY <2>1, <2>5, <2>6
    <3> HIDE DEF p
    <3>2. p - 3 \in DOMAIN g[1] /\ g[1][p - 3] = m[p]
      <4>1. p \in starts[1] + 3 .. Len(m)
        BY <2>0, <3>1
      <4>2. QED
        BY <1>10, <2>1, <4>1
    <3>3. QED
      BY <3>1, <3>2
  <2>8. \A j \in 1 + 1 .. n : s + 1 < starts[j]
    <3>1. TAKE j \in 1 + 1 .. n
    <3>2. j \in 1 .. n /\ 1 < j
      BY <1>2
    <3>3. s < starts[j] /\ starts[j] \in F /\ starts[j] \in Nat
      BY <1>2, <1>14, <2>0, <2>1, <3>2
    <3>4. m[s + 1] = In("a", 7)
      BY <1>4, <2>1
    <3>5. m[s + 1].kind # "function"
      BY <3>4 DEF In
    <3>6. starts[j] # s + 1
      BY <1>5, <3>3, <3>5
    <3>7. QED
      BY <2>1, <3>3, <3>6
  <2>9. 1 \in 0 .. n
    BY <1>2, <2>1
  <2>10. s + 1 \in DOMAIN r /\ r[s + 1] = g[1][s + 1]
    BY <1>7, <2>7, <2>8, <2>9
  <2>11. QED
    BY <2>7, <2>10
<1>13. QED
  BY <1>8, <1>11, <1>12 DEF F, r

-----------------------------------------------------------------------------
(* What the invariant means. *)

LEMMA ContentLines ==
  ASSUME NEW m
  PROVE  Content(m) \subseteq ToSet(m)
  BY DEF Content, Outside, ToSet

\* Instrumented automatically: the simulated module was built with the ports found in it.
LEMMA Builds ==
  ASSUME ~Manual, NEW m \in Seq(Lines), "roles" \in Analysis(m)
  PROVE  TaintPorts(m) \subseteq Names("input", ToSet(m)) \cup Names("output", ToSet(m))
<1> DEFINE seen == identify_signal_syncs_and_directions(remove_functions(m))
<1>1. /\ FunctionsPaired(m)
      /\ seen.inputs \subseteq {m[k].name : k \in Numbers("input", m) \cap OutsideFunctions(m)}
  BY DEF Analysis
<1>2. seen.inputs \subseteq Names("input", ToSet(m))
  BY <1>1 DEF Numbers, Names, Of, ToSet
<1>5. ToSet(remove_functions(m)) \subseteq ToSet(m)
  BY <1>1, RemovedAreLines
<1>6. seen.outputs = Names("output", ToSet(remove_functions(m)))
  BY DEF identify_signal_syncs_and_directions
<1>7. seen.outputs \subseteq Names("output", ToSet(m))
  BY <1>5, <1>6 DEF Names, Of
<1>8. TaintPorts(m) = seen.inputs \cup seen.outputs
  BY DEF TaintPorts
<1>9. QED
  BY <1>2, <1>7, <1>8

LEMMA AnnotatedPortsDeclared ==
  ASSUME NEW roles
  PROVE  AnnotatedPorts(roles) \subseteq DOMAIN roles
<1>1. \A r \in Range(roles) : (CHOOSE p \in DOMAIN roles : roles[p] = r) \in DOMAIN roles
  BY DEF Range
<1>2. QED
  BY <1>1 DEF AnnotatedPorts

LEMMA ConsideredAreModules ==
  ASSUME PassInv
  PROVE  /\ Considered \cup removed \subseteq ModuleIds(text)
         /\ stage \in {"annotate", "select"} => Considered = {} /\ removed = {}
<1>1. CASE stage \in {"annotate", "select"}
  BY <1>1, EmptySeqSet DEF PassInv, Accounted, Considered
<1>2. CASE stage \notin {"annotate", "select"} /\ ~Manual
  BY <1>2 DEF PassInv, Accounted, Candidates, Fakes
<1>3. CASE stage \notin {"annotate", "select"} /\ Manual
  BY <1>3 DEF PassInv, Accounted, AnnotatedIds
<1>4. QED
  BY <1>1, <1>2, <1>3

LEMMA ShadowedPorts ==
  ASSUME PassInv, NEW id \in DOMAIN shadowed
  PROVE  shadowed[id] \subseteq Names("input", ToSet(text)) \cup Names("output", ToSet(text))
<1> DEFINE m == Module(text, id)
<1>1. id \in Considered /\ id \in ModuleIds(text)
  BY ConsideredAreModules DEF Considered
<1>2. m \in Seq(Lines) /\ ToSet(m) \subseteq ToSet(text)
  BY <1>1, ModuleLines DEF PassInv, TextInv
<1>3. shadowed[id] = TaintPorts(m) /\ "roles" \in Analysis(m)
  BY DEF PassInv, ShadowedOnRoles
<1> HIDE DEF m
<1>4. CASE ~Manual
  <2>1. shadowed[id] \subseteq Names("input", ToSet(m)) \cup Names("output", ToSet(m))
    BY <1>2, <1>3, <1>4, Builds
  <2>2. QED
    BY <1>2, <2>1 DEF Names, Of
<1>5. CASE Manual
  <2>1. Undeclared(m) = {}
    BY <1>1, <1>5 DEF PassInv, Declared, m
  <2>2. UNION {DOMAIN roles : roles \in ModuleAnnotations(m)}
          \subseteq Names("input", Content(m)) \cup Names("output", Content(m))
    <3> DEFINE annotated == UNION {DOMAIN roles : roles \in ModuleAnnotations(m)}
               declared == Names("input", Content(m)) \cup Names("output", Content(m))
    <3>1. Undeclared(m) = annotated \ declared
      BY DEF Undeclared
    <3> HIDE DEF annotated, declared
    <3>2. annotated \subseteq declared
      BY <2>1, <3>1
    <3>3. QED
      BY <3>2 DEF annotated, declared
  <2>3. TaintPorts(m) \subseteq UNION {DOMAIN roles : roles \in ModuleAnnotations(m)}
    BY <1>5, AnnotatedPortsDeclared DEF TaintPorts
  <2>4. Content(m) \subseteq ToSet(text)
    BY <1>2, ContentLines
  <2>5. Names("input", Content(m)) \subseteq Names("input", ToSet(text))
    BY <2>4 DEF Names, Of
  <2>6. Names("output", Content(m)) \subseteq Names("output", ToSet(text))
    BY <2>4 DEF Names, Of
  <2>7. QED
    BY <1>3, <2>2, <2>3, <2>5, <2>6
<1>6. QED
  BY <1>4, <1>5

LEMMA PassInvTypes == PassInv => TypeOK
<1> SUFFICES ASSUME PassInv PROVE TypeOK
  OBVIOUS
<1>1. ToSet(pending) \cup removed \cup skipped \cup DOMAIN shadowed \subseteq ModuleIds(text)
  BY ConsideredAreModules DEF Considered
<1>2. \A id \in DOMAIN shadowed :
        shadowed[id] \subseteq Names("input", ToSet(text)) \cup Names("output", ToSet(text))
  BY ShadowedPorts
<1>3. QED
  BY <1>1, <1>2 DEF PassInv, TextInv, TypeOK

\* The code sees the lines that are not hidden, and no others.
LEMMA SeenUnlessHidden ==
  ASSUME NEW m \in Seq(Lines), NEW k \in DOMAIN m, m[k].kind \notin {"function", "endfunction"}
  PROVE  k \in Outside(m, {e \in Numbers("endfunction", m) : ~m[e].indented}) <=> ~Hidden(m, k)
<1> DEFINE ends == {e \in Numbers("endfunction", m) : ~m[e].indented}
<1>1. Len(m) \in Nat /\ DOMAIN m = 1 .. Len(m)
  BY LenProperties
<1>2. k \in DOMAIN m \ ends
  BY DEF Numbers
<1>3. ASSUME NEW f
      PROVE  f \in 1 .. k /\ m[f].kind = "function" <=> f \in Numbers("function", m) /\ f < k
  <2>1. f \in 1 .. k => f \in DOMAIN m
    BY <1>1
  <2>2. f \in DOMAIN m => (f \in 1 .. k <=> f < k \/ f = k)
    BY <1>1
  <2>3. f \in DOMAIN m /\ m[f].kind = "function" <=> f \in Numbers("function", m)
    BY DEF Numbers
  <2>4. m[f].kind = "function" => f # k
    OBVIOUS
  <2>5. f < k => f # k
    BY <1>1
  <2>6. QED
    BY <2>1, <2>2, <2>3, <2>4
<1>4. \A f : (\E e \in ends : f < e /\ e < k)
              <=> ~ \A e \in Numbers("endfunction", m) : f < e /\ e < k => m[e].indented
  OBVIOUS
<1>5. Hidden(m, k) <=> \E f \in Numbers("function", m) :
                         f < k /\ ~ \E e \in ends : f < e /\ e < k
  BY <1>4 DEF Hidden
<1> HIDE DEF ends
<1>6. k \in Outside(m, ends) <=>
        \A f \in 1 .. k : m[f].kind = "function" => \E e \in ends : f < e /\ e < k
  BY <1>2 DEF Outside
<1>7. QED
  BY <1>3, <1>5, <1>6 DEF ends

\* The ports of a memory lie above its functions: with its array in sight it is a candidate.
LEMMA StoreIsCandidate ==
  ASSUME NEW m \in Seq(Lines), OpenC910Module(m), ~ArrayHidden(m)
  PROVE  can_module_be_a_memory(Content(m))
<1> DEFINE ends == {e \in Numbers("endfunction", m) : ~m[e].indented}
<1>1. /\ Len(m) \in Nat /\ Len(m) >= 6 /\ DOMAIN m = 1 .. Len(m)
      /\ \A k \in 1 .. 5 : m[k + 1] = RamPorts[k]
      /\ Numbers("output", m) = {6}
      /\ \A f \in Numbers("function", m) : f > 6
  BY LenProperties DEF OpenC910Module, ArrayHidden
<1>2. /\ m[2] = In("PortAClk", 0) /\ m[3] = In("PortAAddr", 2) /\ m[4] = In("PortADataIn", 7)
      /\ m[6] = Out("PortADataOut", 7)
  <2>1. /\ RamPorts[1] = In("PortAClk", 0) /\ RamPorts[2] = In("PortAAddr", 2)
        /\ RamPorts[3] = In("PortADataIn", 7) /\ RamPorts[5] = Out("PortADataOut", 7)
    BY DEF RamPorts
  <2>2. m[1 + 1] = RamPorts[1] /\ m[2 + 1] = RamPorts[2] /\ m[3 + 1] = RamPorts[3] /\ m[5 + 1] = RamPorts[5]
    BY <1>1
  <2>3. QED
    BY <2>1, <2>2
<1>3. \A k \in 2 .. 6 : m[k].kind # "endfunction" => m[k] \in Content(m)
  <2>1. SUFFICES ASSUME NEW k \in 2 .. 6, m[k].kind # "endfunction"
                 PROVE  m[k] \in Content(m)
    OBVIOUS
  <2>2. k \in DOMAIN m /\ k \notin ends
    BY <1>1, <2>1 DEF Numbers
  <2>3. \A f \in 1 .. k : f \in DOMAIN m /\ ~(f > 6)
    BY <1>1, <2>1
  <2>4. \A f \in 1 .. k : m[f].kind # "function"
    BY <1>1, <2>3 DEF Numbers
  <2>5. k \in Outside(m, ends)
    BY <2>2, <2>4 DEF Outside
  <2>6. QED
    BY <2>5 DEF Content
<1>4. /\ In("PortAClk", 0) \in Content(m) /\ In("PortAAddr", 2) \in Content(m)
      /\ In("PortADataIn", 7) \in Content(m) /\ Out("PortADataOut", 7) \in Content(m)
  BY <1>2, <1>3 DEF In, Out
<1>5. Of("output", Content(m)) = {Out("PortADataOut", 7)}
  <2>1. \A l \in Content(m) : l.kind = "output" => l = Out("PortADataOut", 7)
    BY <1>1, <1>2 DEF Content, Outside, Numbers
  <2>2. QED
    BY <1>4, <2>1 DEF Of, Out
<1>6. Cardinality(Of("output", Content(m))) = 1
  BY <1>5, FS_Singleton
<1>7. {In("PortAClk", 0), In("PortAAddr", 2)} \in SUBSET Of("input", Content(m))
  BY <1>4 DEF Of, In
<1>8. IsFiniteSet(Of("input", Content(m)))
  <2>1. IsFiniteSet(DOMAIN m)
    BY <1>1, 1 \in Int, Len(m) \in Int, FS_Interval
  <2>2. IsFiniteSet(ToSet(m))
    <3>1. ToSet(m) = {m[k] : k \in DOMAIN m}
      BY DEF ToSet
    <3> DEFINE line == [k \in DOMAIN m |-> m[k]]
    <3>2. line \in Surjection(DOMAIN m, ToSet(m))
      BY <3>1 DEF Surjection
    <3>3. QED
      BY <2>1, <3>2, FS_Surjection
  <2>3. Of("input", Content(m)) \in SUBSET ToSet(m)
    BY ContentLines DEF Of
  <2>4. QED
    BY <2>2, <2>3, FS_Subset
<1>9. Cardinality(Of("input", Content(m))) >= 2
  <2>1. In("PortAClk", 0) # In("PortAAddr", 2)
    BY DEF In
  <2>2. IsFiniteSet({In("PortAClk", 0)}) /\ Cardinality({In("PortAClk", 0)}) = 1
    BY FS_Singleton
  <2>3. Cardinality({In("PortAClk", 0)} \cup {In("PortAAddr", 2)}) = 2
    <3>1. In("PortAAddr", 2) \notin {In("PortAClk", 0)}
      BY <2>1
    <3> DEFINE clk == {In("PortAClk", 0)}
               addr == In("PortAAddr", 2)
    <3> HIDE DEF clk, addr
    <3>2. Cardinality(clk \cup {addr}) = Cardinality(clk) + 1
      BY <2>2, <3>1, FS_AddElement DEF clk, addr
    <3>3. QED
      BY <2>2, <3>2 DEF clk, addr
  <2>4. Cardinality({In("PortAClk", 0)} \cup {In("PortAAddr", 2)}) <= Cardinality(Of("input", Content(m)))
    BY <1>7, <1>8, FS_Subset
  <2>5. Cardinality(Of("input", Content(m))) \in Nat
    BY <1>8, FS_CardinalityType
  <2>6. QED
    BY <2>3, <2>4, <2>5
<1>10. PortWidth(In("PortADataIn", 7)) = PortWidth(Out("PortADataOut", 7))
  BY DEF PortWidth, In, Out
<1>11. In("PortADataIn", 7) \in Of("input", Content(m)) /\ Out("PortADataOut", 7) \in Of("output", Content(m))
  BY <1>4 DEF Of, In, Out
<1>12. Of("store", Content(m)) # {}
  <2>1. PICK c \in Numbers("store", m) : ~Hidden(m, c)
    BY DEF ArrayHidden
  <2>2. c \in DOMAIN m /\ m[c].kind = "store"
    BY DEF Numbers
  <2>3. m[c] \in Content(m)
    BY <2>1, <2>2, SeenUnlessHidden DEF Content
  <2>4. QED
    BY <2>2, <2>3 DEF Of
<1>13. QED
  BY <1>6, <1>9, <1>10, <1>11, <1>12 DEF can_module_be_a_memory

\* With its array out of sight it is none.
LEMMA HiddenIsNoCandidate ==
  ASSUME NEW m \in Seq(Lines), ArrayHidden(m)
  PROVE  ~can_module_be_a_memory(Content(m))
<1>1. ASSUME NEW l \in Content(m) PROVE l.kind # "store"
  <2>1. PICK k \in Outside(m, {e \in Numbers("endfunction", m) : ~m[e].indented}) : l = m[k]
    BY DEF Content
  <2>2. k \in DOMAIN m
    BY DEF Outside
  <2>3. m[k].kind = "store" => k \in Numbers("store", m) /\ ~Hidden(m, k)
    BY <2>1, <2>2, SeenUnlessHidden DEF Numbers
  <2>4. QED
    BY <2>1, <2>3 DEF ArrayHidden
<1>2. QED
  BY <1>1 DEF can_module_be_a_memory, Of

LEMMA PassInvOverlooksNone == PassInv => MemoryNotOverlooked
<1> SUFFICES ASSUME PassInv, ~Manual, stage # "select", NEW id \in ModuleIds(text),
                    Cells(Module(text, id)) = {}
             PROVE  id \in Considered <=> ~ArrayHidden(Module(text, id))
  BY DEF MemoryNotOverlooked
<1> DEFINE m == Module(text, id)
<1>1. m \in Seq(Lines) /\ OpenC910Module(m)
  BY ModuleLines DEF PassInv, TextInv
<1>2. id \in Candidates <=> ~ArrayHidden(m)
  BY <1>1, StoreIsCandidate, HiddenIsNoCandidate DEF Candidates
<1>3. ~Fake(id)
  <2>1. Names("cell", Content(m)) = {}
    BY ContentLines DEF Cells, Names, Of
  <2>2. QED
    BY <2>1 DEF Fake, does_module_contain_an_instance_of
<1>4. stage \notin {"annotate", "select"}
  BY DEF PassInv, TextInv
<1>5. Considered = Candidates \ Fakes
  BY <1>4 DEF PassInv, Accounted
<1>6. QED
  BY <1>2, <1>3, <1>5 DEF Fakes

LEMMA PassInvFakes == PassInv => FakesNeverAbort
<1> SUFFICES ASSUME PassInv, stage = "aborted", ~Manual,
                    NEW other \in Considered \cup removed,
                    NEW c \in Numbers("cell", Module(text, Head(pending))),
                    Module(text, Head(pending))[c].name = text[other].name,
                    text[other].name \notin Parameterised,
                    ~Hidden(Module(text, Head(pending)), c)
             PROVE  FALSE
  BY DEF FakesNeverAbort
<1> DEFINE id == Head(pending)
           m == Module(text, id)
<1>1. pending # <<>> /\ pending \in Seq(ModuleIds(text))
  BY DEF PassInv
<1>2. id \in ToSet(pending) /\ id \in ModuleIds(text)
  BY <1>1, FirstOut
<1>3. removed = Fakes /\ Considered = Candidates \ Fakes
  BY DEF PassInv, Accounted
<1>4. id \in Candidates /\ ~Fake(id) /\ other \in Candidates
  BY <1>2, <1>3 DEF Considered, Fakes
<1>5. m \in Seq(Lines) /\ m[1] = text[id] /\ OpenC910Module(m)
  BY <1>2, ModuleLines DEF PassInv, TextInv
<1>6. c \in DOMAIN m /\ m[c].kind = "cell" /\ m[c].name = text[other].name /\ ~Hidden(m, c)
  BY DEF Numbers
<1> HIDE DEF id, m
<1>7. other # id
  BY <1>5, <1>6 DEF OpenC910Module, Cells, Names, Of, ToSet
<1>8. m[c] \in Content(m)
  BY <1>5, <1>6, SeenUnlessHidden DEF Content
<1>9. text[other].name \in Names("cell", Content(m))
  BY <1>6, <1>8 DEF Names, Of
<1>10. does_module_contain_an_instance_of(Content(m), text[other].name)
  BY <1>9 DEF does_module_contain_an_instance_of
<1>11. Fake(id)
  BY <1>4, <1>7, <1>10 DEF Fake, m
<1>12. QED
  BY <1>4, <1>11

-----------------------------------------------------------------------------
(* Annotating. *)

LEMMA TableRoles ==
  ASSUME NEW d \in DOMAIN Tables, NEW name \in DOMAIN Tables[d]
  PROVE  name # "top" /\ Tables[d][name] \in {RW0, RW0_masked, R0W0, R0W0_masked}
<1>1. d = "rocket" \/ d = "boom"
  BY DEF Tables
<1>2. CASE d = "rocket"
  BY <1>2 DEF Tables
<1>3. CASE d = "boom"
  BY <1>3 DEF Tables
<1>4. QED
  BY <1>1, <1>2, <1>3

LEMMA InsertAtMeaning ==
  ASSUME NEW S, NEW s \in Seq(S), NEW e \in S
  PROVE  \A i \in 1 .. Len(s) + 1 :
           /\ InsertAt(s, i, e) \in Seq(S)
           /\ Len(InsertAt(s, i, e)) = Len(s) + 1
           /\ \A k \in 1 .. Len(s) + 1 :
                InsertAt(s, i, e)[k] = IF k < i THEN s[k] ELSE IF k = i THEN e ELSE s[k - 1]
<1> TAKE i \in 1 .. Len(s) + 1
<1> DEFINE a == SubSeq(s, 1, i - 1)
           b == SubSeq(s, i, Len(s))
<1>1. Len(s) \in Nat /\ i \in Nat /\ i >= 1 /\ i <= Len(s) + 1
  BY LenProperties
<1>2. (\A k \in 1 .. i - 1 : s[k] \in S) /\ (\A k \in i .. Len(s) : s[k] \in S)
  BY <1>1, ElementOfSeq
<1>3. a \in Seq(S) /\ Len(a) = i - 1 /\ \A k \in 1 .. i - 1 : a[k] = s[k]
  BY <1>1, <1>2, SubSeqProperties
<1>4. b \in Seq(S) /\ Len(b) = Len(s) - i + 1 /\ \A k \in 1 .. Len(s) - i + 1 : b[k] = s[i + k - 1]
  BY <1>1, <1>2, SubSeqProperties
<1> HIDE DEF a, b
<1>5. <<e>> \in Seq(S) /\ Len(<<e>>) = 1 /\ <<e>>[1] = e
  OBVIOUS
<1>6. /\ a \o <<e>> \in Seq(S)
      /\ Len(a \o <<e>>) = i
      /\ \A k \in 1 .. i : (a \o <<e>>)[k] = IF k < i THEN a[k] ELSE e
  <2>1. /\ a \o <<e>> \in Seq(S)
        /\ Len(a \o <<e>>) = Len(a) + 1
        /\ \A k \in 1 .. Len(a) + 1 : (a \o <<e>>)[k] = IF k <= Len(a) THEN a[k] ELSE <<e>>[k - Len(a)]
    BY <1>3, <1>5, ConcatProperties
  <2>2. Len(a) + 1 = i
    BY <1>1, <1>3
  <2>3. \A k \in 1 .. i : (k <= Len(a) <=> k < i) /\ (~(k < i) => k - Len(a) = 1)
    BY <1>1, <1>3
  <2>4. QED
    BY <1>5, <2>1, <2>2, <2>3
<1> DEFINE c == a \o <<e>>
<1>7. InsertAt(s, i, e) = c \o b
  BY DEF InsertAt, a, b
<1> HIDE DEF c
<1>8. /\ c \o b \in Seq(S)
      /\ Len(c \o b) = Len(s) + 1
      /\ \A k \in 1 .. Len(s) + 1 : (c \o b)[k] = IF k <= i THEN c[k] ELSE b[k - i]
  <2>1. c \in Seq(S) /\ Len(c) = i
    BY <1>6 DEF c
  <2>2. i + (Len(s) - i + 1) = Len(s) + 1
    BY <1>1
  <2>3. QED
    BY <1>4, <2>1, <2>2, ConcatProperties
<1>9. \A k \in 1 .. Len(s) + 1 :
        (c \o b)[k] = IF k < i THEN s[k] ELSE IF k = i THEN e ELSE s[k - 1]
  <2>1. TAKE k \in 1 .. Len(s) + 1
  <2>2. CASE k < i
    BY <1>1, <1>3, <1>6, <1>8, <2>2 DEF c
  <2>3. CASE k = i
    BY <1>1, <1>6, <1>8, <2>3 DEF c
  <2>4. CASE k > i
    <3>1. k - i \in 1 .. Len(s) - i + 1 /\ i + (k - i) - 1 = k - 1
      BY <1>1, <2>4
    <3>2. b[k - i] = s[k - 1]
      BY <1>4, <3>1
    <3>3. QED
      BY <1>1, <1>8, <2>4, <3>2
  <2>5. k < i \/ k = i \/ k > i
    BY <1>1
  <2>6. QED
    BY <1>1, <2>2, <2>3, <2>4, <2>5
<1>10. QED
  BY <1>7, <1>8, <1>9

LEMMA AnnotationLine ==
  ASSUME NEW d \in DOMAIN Tables, NEW line, Tabled(d, line)
  PROVE  /\ Annotation(Tables[d][line.name]) \in Lines
         /\ Annotation(Tables[d][line.name]).kind = "annotation"
         /\ Annotation(Tables[d][line.name]).roles = Tables[d][line.name]
<1>1. PICK roles : roles = Tables[d][line.name]
  OBVIOUS
<1>2. line.name \in DOMAIN Tables[d]
  BY DEF Tabled
<1>3. roles \in {RW0, RW0_masked, R0W0, R0W0_masked}
  BY <1>1, <1>2, TableRoles
<1>4. "annotation" \in Kinds /\ "@hybridift" \in Named
  BY DEF Kinds, Named
<1>5. Annotation(roles) \in [kind : Kinds, name : Named, roles : {RW0, RW0_masked, R0W0, R0W0_masked}]
  BY <1>3, <1>4 DEF Annotation
<1>6. Annotation(roles) \in Lines
  BY <1>5 DEF Lines
<1>7. Annotation(roles).kind = "annotation" /\ Annotation(roles).roles = roles
  BY DEF Annotation
<1>8. QED
  BY <1>1, <1>6, <1>7

\* One round of the loop: what stands above the line the loop has reached is as it should be,
\* and what is left stands as many lines lower as were inserted.
Shifted(d, lines, place, i, acc) ==
  /\ acc.content \in Seq(Lines) /\ acc.interlines \in Nat
  /\ Len(acc.content) = Len(lines) + acc.interlines
  /\ place[i + 1] = i + 1 + acc.interlines
  /\ \A j \in 1 .. i :
       /\ place[j] \in 1 .. i + acc.interlines /\ acc.content[place[j]] = lines[j]
       /\ Tabled(d, lines[j]) =>
            /\ place[j] + 1 \in 1 .. i + acc.interlines
            /\ acc.content[place[j] + 1] = Annotation(Tables[d][lines[j].name])
  /\ \A j \in i + 1 .. Len(lines) : acc.content[j + acc.interlines] = lines[j]

LEMMA InsertShifts ==
  ASSUME NEW d \in DOMAIN Tables, NEW lines \in Seq(Lines), NEW place, NEW acc,
         NEW i \in 0 .. Len(lines) - 1, Shifted(d, lines, place, i, acc),
         place[i + 2] = i + 2 + Insert(d, lines, i + 1, acc).interlines
  PROVE  /\ Shifted(d, lines, place, i + 1, Insert(d, lines, i + 1, acc))
         /\ place[i + 2] = IF Tabled(d, lines[i + 1]) THEN place[i + 1] + 2 ELSE place[i + 1] + 1
<1> DEFINE n == Len(lines)
           line == lines[i + 1]
           new == Insert(d, lines, i + 1, acc)
           inter == acc.interlines
           content == acc.content
           mark == Annotation(Tables[d][line.name])
           \* line j stands at p, of a text that is finished up to line last
           Stands(j, p, result, last) ==
             /\ p \in 1 .. last /\ result[p] = lines[j]
             /\ Tabled(d, lines[j]) =>
                  p + 1 \in 1 .. last /\ result[p + 1] = Annotation(Tables[d][lines[j].name])
<1>1. n \in Nat /\ i \in Nat /\ i + 1 <= n
  BY LenProperties
<1>2. content \in Seq(Lines) /\ inter \in Nat /\ Len(content) = n + inter
  BY DEF Shifted
<1>3. place[i + 1] = i + 1 + inter /\ place[i + 2] = i + 2 + new.interlines
  BY DEF Shifted
<1>4. \A j \in 1 .. i : Stands(j, place[j], content, i + inter)
  BY DEF Shifted
<1>5. \A j \in i + 1 .. n : content[j + inter] = lines[j]
  BY DEF Shifted
<1>6. IF Tabled(d, line)
      THEN new = [content |-> InsertAt(content, i + 1 + inter + 1, mark), interlines |-> inter + 1]
      ELSE new = acc
  BY DEF Insert
<1>7. Tabled(d, line) => mark \in Lines
  BY AnnotationLine
<1>8. /\ new.content \in Seq(Lines) /\ new.interlines \in Nat
      /\ Len(new.content) = n + new.interlines
      /\ place[i + 2] = i + 2 + new.interlines
      /\ \A j \in 1 .. i + 1 : Stands(j, place[j], new.content, i + 1 + new.interlines)
      /\ \A j \in i + 2 .. n : new.content[j + new.interlines] = lines[j]
      => Shifted(d, lines, place, i + 1, new)
  <2>1. i + 1 + 1 = i + 2
    BY <1>1
  <2>2. QED
    BY <2>1 DEF Shifted
<1> HIDE DEF n, inter, content, new
<1>9. i + 1 \in i + 1 .. n /\ content[i + 1 + inter] = line
  BY <1>1, <1>5
<1>10. \A j \in 1 .. i + 1 : j \in 1 .. i \/ j = i + 1
  BY <1>1
<1>11. CASE ~Tabled(d, line)
  <2>1. new.content = content /\ new.interlines = inter
    BY <1>6, <1>11 DEF content, inter
  <2>2. i + 1 + inter \in 1 .. i + 1 + inter /\ \A p \in 1 .. i + inter : p \in 1 .. i + 1 + inter
    BY <1>1, <1>2
  <2>3. \A j \in 1 .. i : Stands(j, place[j], content, i + 1 + inter)
    BY <1>4, <2>2
  <2>4. Stands(i + 1, place[i + 1], content, i + 1 + inter)
    BY <1>3, <1>9, <1>11, <2>2
  <2>5. \A j \in 1 .. i + 1 : Stands(j, place[j], content, i + 1 + inter)
    BY <1>10, <2>3, <2>4
  <2>6. \A j \in i + 2 .. n : j \in i + 1 .. n
    BY <1>1
  <2>7. Shifted(d, lines, place, i + 1, new)
    BY <1>2, <1>3, <1>5, <1>8, <2>1, <2>5, <2>6
  <2>8. place[i + 2] = place[i + 1] + 1
    <3>1. i + 2 + inter = i + 1 + inter + 1
      BY <1>1, <1>2
    <3>2. QED
      BY <1>3, <2>1, <3>1
  <2>9. QED
    BY <1>11, <2>7, <2>8 DEF new
<1>12. CASE Tabled(d, line)
  <2> DEFINE at == i + 2 + inter
             result == InsertAt(content, at, mark)
  <2>1. i + 1 + inter + 1 = at /\ at \in 1 .. Len(content) + 1
    BY <1>1, <1>2
  <2>2. new.content = result /\ new.interlines = inter + 1
    BY <1>6, <1>12, <2>1
  <2>3. mark \in Lines
    BY <1>7, <1>12
  <2> HIDE DEF mark
  <2>4. /\ result \in Seq(Lines)
        /\ Len(result) = n + inter + 1
        /\ \A k \in 1 .. n + inter + 1 :
             result[k] = IF k < at THEN content[k] ELSE IF k = at THEN mark ELSE content[k - 1]
    <3>1. content \in Seq(Lines) /\ Len(content) = n + inter
      BY <1>2
    <3> HIDE DEF at
    <3>2. /\ result \in Seq(Lines)
          /\ Len(result) = Len(content) + 1
          /\ \A k \in 1 .. Len(content) + 1 :
               result[k] = IF k < at THEN content[k] ELSE IF k = at THEN mark ELSE content[k - 1]
      <4>1. at \in 1 .. Len(content) + 1
        BY <2>1
      <4>2. /\ InsertAt(content, at, mark) \in Seq(Lines)
            /\ Len(InsertAt(content, at, mark)) = Len(content) + 1
            /\ \A k \in 1 .. Len(content) + 1 :
                 InsertAt(content, at, mark)[k]
                   = IF k < at THEN content[k] ELSE IF k = at THEN mark ELSE content[k - 1]
        <5>1. content \in Seq(Lines) /\ mark \in Lines
          BY <2>3, <3>1
        <5>2. \A j \in 1 .. Len(content) + 1 :
                /\ InsertAt(content, j, mark) \in Seq(Lines)
                /\ Len(InsertAt(content, j, mark)) = Len(content) + 1
                /\ \A k \in 1 .. Len(content) + 1 :
                     InsertAt(content, j, mark)[k]
                       = IF k < j THEN content[k] ELSE IF k = j THEN mark ELSE content[k - 1]
          BY <5>1, InsertAtMeaning
        <5>3. QED
          BY <4>1, <5>2
      <4>3. QED
        BY <4>2
    <3>3. QED
      BY <3>1, <3>2
  <2> HIDE DEF result
  <2>5. \A p \in 1 .. i + 1 + inter :
          /\ p \in 1 .. i + 1 + (inter + 1) /\ p \in 1 .. n + inter + 1
          /\ p < at
    BY <1>1, <1>2
  <2>6. \A p \in 1 .. i + 1 + inter : result[p] = content[p]
    BY <2>4, <2>5
  <2>7. /\ \A p \in 1 .. i + inter : p \in 1 .. i + 1 + inter
        /\ i + 1 + inter \in 1 .. i + 1 + inter
        /\ i + 1 + inter + 1 = at
    BY <1>1, <1>2
  <2>8. \A j \in 1 .. i : Stands(j, place[j], result, i + 1 + (inter + 1))
    BY <1>4, <2>5, <2>6, <2>7
  <2>9. at \in 1 .. n + inter + 1 /\ at \in 1 .. i + 1 + (inter + 1) /\ ~(at < at)
    BY <1>1, <1>2
  <2>10. result[at] = mark
    BY <2>4, <2>9
  <2>11. Stands(i + 1, i + 1 + inter, result, i + 1 + (inter + 1))
    <3>1. i + 1 + inter \in 1 .. i + 1 + (inter + 1) /\ result[i + 1 + inter] = line
      BY <1>9, <2>5, <2>6, <2>7
    <3>2. result[i + 1 + inter + 1] = mark /\ i + 1 + inter + 1 \in 1 .. i + 1 + (inter + 1)
      BY <2>7, <2>9, <2>10
    <3>3. QED
      BY <3>1, <3>2 DEF mark
  <2>12. \A j \in 1 .. i + 1 : Stands(j, place[j], result, i + 1 + (inter + 1))
    BY <1>3, <1>10, <2>8, <2>11
  <2>13. \A j \in i + 2 .. n : result[j + (inter + 1)] = lines[j]
    <3>1. TAKE j \in i + 2 .. n
    <3>2. /\ j + (inter + 1) \in 1 .. n + inter + 1
          /\ ~(j + (inter + 1) < at) /\ j + (inter + 1) # at
          /\ j + (inter + 1) - 1 = j + inter /\ j \in i + 1 .. n
      BY <1>1, <1>2
    <3> DEFINE k == j + (inter + 1)
    <3>3. k \in 1 .. n + inter + 1 /\ ~(k < at) /\ k # at /\ k - 1 = j + inter
      BY <1>1, <1>2
    <3> HIDE DEF k, at
    <3>4. result[k] = content[k - 1]
      BY <2>4, <3>3
    <3>5. QED
      BY <1>5, <3>2, <3>3, <3>4 DEF k
  <2>14. inter + 1 \in Nat /\ n + inter + 1 = n + (inter + 1)
    BY <1>1, <1>2
  <2>15. Shifted(d, lines, place, i + 1, new)
    BY <1>3, <1>8, <2>2, <2>4, <2>12, <2>13, <2>14
  <2>16. place[i + 2] = place[i + 1] + 2
    <3>1. i + 2 + (inter + 1) = i + 1 + inter + 2
      BY <1>1, <1>2
    <3>2. QED
      BY <1>3, <2>2, <3>1
  <2>17. QED
    BY <1>12, <2>15, <2>16 DEF new
<1>13. QED
  BY <1>11, <1>12

\* Where the lines of a design end up: in their order, each with its annotation below it.
Placed(d, lines, place, result) ==
  /\ result \in Seq(Lines)
  /\ place \in [1 .. Len(lines) + 1 -> Nat]
  /\ place[1] = 1 /\ place[Len(lines) + 1] = Len(result) + 1
  /\ \A j \in 1 .. Len(lines) :
       /\ place[j] \in 1 .. Len(result) /\ result[place[j]] = lines[j]
       /\ place[j + 1] = IF Tabled(d, lines[j]) THEN place[j] + 2 ELSE place[j] + 1
       /\ Tabled(d, lines[j]) =>
            /\ place[j] + 1 \in 1 .. Len(result)
            /\ result[place[j] + 1] = Annotation(Tables[d][lines[j].name])

LEMMA AnnotatedLines ==
  ASSUME NEW d \in DOMAIN Tables, NEW lines \in Seq(Lines)
  PROVE  \E place : Placed(d, lines, place, Annotate(d, lines))
<1> DEFINE n == Len(lines)
           start == [content |-> lines, interlines |-> 0]
           Loop(g, k) == g = [j \in 0 .. k |-> IF j = 0 THEN start ELSE Insert(d, lines, j, g[j - 1])]
           Ks == {k \in Nat : \E g : Loop(g, k)}
<1>1. n \in Nat
  BY LenProperties
<1> HIDE DEF n, start
<1>2. Ks = Nat
  <2>1. [j \in 0 .. 0 |-> start] = [j \in 0 .. 0 |-> IF j = 0 THEN start ELSE
          Insert(d, lines, j, [i \in 0 .. 0 |-> start][j - 1])]
    OBVIOUS
  <2>2. 0 \in Ks
    BY <2>1
  <2>3. ASSUME NEW k \in Ks
        PROVE  k + 1 \in Ks
    <3>1. PICK g : Loop(g, k)
      OBVIOUS
    <3> DEFINE h == [j \in 0 .. k + 1 |-> IF j <= k THEN g[j] ELSE Insert(d, lines, k + 1, g[k])]
    <3>2. \A j \in 0 .. k + 1 :
            h[j] = IF j = 0 THEN start ELSE Insert(d, lines, j, h[j - 1])
      <4>1. TAKE j \in 0 .. k + 1
      <4>2. CASE j = 0
        BY <3>1, <4>2
      <4>3. CASE j \in 1 .. k
        <5>1. h[j] = g[j] /\ h[j - 1] = g[j - 1]
          BY <4>3
        <5>2. g[j] = Insert(d, lines, j, g[j - 1])
          BY <3>1, <4>3
        <5>3. QED
          BY <4>3, <5>1, <5>2
      <4>4. CASE j = k + 1
        BY <4>4
      <4>5. QED
        BY <4>2, <4>3, <4>4
    <3>3. h = [j \in 0 .. k + 1 |-> h[j]]
      OBVIOUS
    <3>4. Loop(h, k + 1)
      <4> HIDE DEF h
      <4>1. QED
        BY <3>2, <3>3
    <3> HIDE DEF h, Loop
    <3>5. QED
      BY <3>4
  <2> HIDE DEF Ks
  <2>4. Ks \in SUBSET Nat
    BY DEF Ks
  <2>5. QED
    BY <2>2, <2>3, <2>4, NatSetInduction
<1>3. PICK g : Loop(g, n) /\ Annotate(d, lines) = g[n].content
  <2>1. \E g : Loop(g, n)
    BY <1>1, <1>2
  <2>2. QED
    BY <2>1 DEF Annotate, start, n
<1>4. g[0] = start
  BY <1>1, <1>3
<1>5. \A i \in 0 .. n - 1 : i + 1 \in 0 .. n /\ i + 1 # 0 /\ i + 1 - 1 = i
  BY <1>1
<1>6. \A i \in 0 .. n - 1 : g[i + 1] = Insert(d, lines, i + 1, g[i])
  <2>1. \A j \in 0 .. n : g[j] = IF j = 0 THEN start ELSE Insert(d, lines, j, g[j - 1])
    BY <1>3
  <2>2. TAKE i \in 0 .. n - 1
  <2>3. g[i + 1] = Insert(d, lines, i + 1, g[i + 1 - 1])
    BY <1>5, <2>1
  <2>4. QED
    BY <1>5, <2>3
<1> HIDE DEF Loop
<1> DEFINE place == [j \in 1 .. n + 1 |-> j + g[j - 1].interlines]
           Good(i) == Shifted(d, lines, place, i, g[i])
           Kept == {k \in Nat : k <= n => Good(k)}
<1>7. \A i \in 0 .. n : place[i + 1] = i + 1 + g[i].interlines
  <2>1. TAKE i \in 0 .. n
  <2>2. i + 1 \in 1 .. n + 1 /\ i + 1 - 1 = i
    BY <1>1
  <2>3. QED
    BY <2>2
<1>8. \A i \in 0 .. n - 1 :
        Good(i) => /\ Good(i + 1)
                   /\ place[i + 2] = IF Tabled(d, lines[i + 1]) THEN place[i + 1] + 2 ELSE place[i + 1] + 1
  <2> SUFFICES ASSUME NEW i \in 0 .. n - 1, Good(i)
               PROVE  /\ Good(i + 1)
                      /\ place[i + 2]
                           = IF Tabled(d, lines[i + 1]) THEN place[i + 1] + 2 ELSE place[i + 1] + 1
    OBVIOUS
  <2>1. g[i + 1] = Insert(d, lines, i + 1, g[i])
    BY <1>6
  <2>2. i + 1 \in 0 .. n /\ i + 1 + 1 = i + 2
    BY <1>1
  <2>3. place[i + 1 + 1] = i + 1 + 1 + g[i + 1].interlines
    BY <1>7, <2>2
  <2> HIDE DEF place
  <2>4. place[i + 2] = i + 2 + Insert(d, lines, i + 1, g[i]).interlines
    BY <2>1, <2>2, <2>3
  <2>5. i \in 0 .. Len(lines) - 1
    BY DEF n
  <2>6. QED
    BY <2>1, <2>4, <2>5, InsertShifts
<1>9. Good(0)
  <2>1. place[1] = 1
    <3>1. 0 \in 0 .. n /\ 0 + 1 = 1
      BY <1>1
    <3>2. place[1] = 1 + g[0].interlines
      BY <1>7, <3>1
    <3>3. QED
      BY <1>4, <3>2 DEF start
  <2> HIDE DEF place
  <2>2. start.content = lines /\ start.interlines = 0
    BY DEF start
  <2>3. \A j \in 0 + 1 .. Len(lines) : j + 0 = j
    BY LenProperties
  <2>4. Len(lines) = Len(lines) + 0 /\ 0 + 1 = 1 /\ 0 + 1 + 0 = 1
    BY <1>1 DEF n
  <2>5. Shifted(d, lines, place, 0, start)
    BY <2>1, <2>2, <2>3, <2>4 DEF Shifted
  <2>6. QED
    BY <1>4, <2>5
<1> HIDE DEF Good, place
<1>10. Kept = Nat
  <2>1. 0 \in Kept
    BY <1>9
  <2>2. \A k \in Kept : k + 1 \in Kept
    <3>1. TAKE k \in Kept
    <3>2. k + 1 <= n => k \in 0 .. n - 1 /\ k <= n
      BY <1>1
    <3>3. k + 1 <= n => Good(k + 1)
      BY <1>8, <3>2
    <3>4. QED
      BY <3>3
  <2>3. Kept \in SUBSET Nat
    OBVIOUS
  <2> HIDE DEF Kept
  <2>4. QED
    BY <2>1, <2>2, <2>3, NatSetInduction
<1>11. \A k \in 0 .. n : Good(k)
  <2>1. \A k \in 0 .. n : k \in Kept /\ k <= n
    BY <1>1, <1>10
  <2>2. QED
    BY <2>1
<1>12. \A i \in 0 .. n - 1 :
         place[i + 2] = IF Tabled(d, lines[i + 1]) THEN place[i + 1] + 2 ELSE place[i + 1] + 1
  <2>1. \A i \in 0 .. n - 1 : i \in 0 .. n
    BY <1>1
  <2>2. QED
    BY <1>8, <1>11, <2>1
<1>13. \A j \in 1 .. n : place[j + 1] = IF Tabled(d, lines[j]) THEN place[j] + 2 ELSE place[j] + 1
  <2>1. TAKE j \in 1 .. n
  <2>2. j - 1 \in 0 .. n - 1 /\ j - 1 + 2 = j + 1 /\ j - 1 + 1 = j
    BY <1>1
  <2>3. QED
    BY <1>12, <2>2
<1> DEFINE result == Annotate(d, lines)
           inter == g[n].interlines
<1>14. /\ result \in Seq(Lines) /\ inter \in Nat /\ Len(result) = n + inter
       /\ place[n + 1] = n + 1 + inter
       /\ \A j \in 1 .. n :
            /\ place[j] \in 1 .. n + inter /\ result[place[j]] = lines[j]
            /\ Tabled(d, lines[j]) =>
                 /\ place[j] + 1 \in 1 .. n + inter
                 /\ result[place[j] + 1] = Annotation(Tables[d][lines[j].name])
  <2>1. Good(n)
    BY <1>1, <1>11
  <2>2. QED
    BY <1>3, <2>1 DEF Good, Shifted, n
<1> HIDE DEF result, inter
<1>15. place \in [1 .. n + 1 -> Nat]
  <2>1. \A i \in 0 .. n : g[i].interlines \in Nat
    BY <1>11 DEF Good, Shifted
  <2>2. \A j \in 1 .. n + 1 : j - 1 \in 0 .. n /\ j \in Nat
    BY <1>1
  <2>3. \A j \in 1 .. n + 1 : j + g[j - 1].interlines \in Nat
    BY <2>1, <2>2
  <2>4. QED
    BY <2>3 DEF place
<1>16. place[1] = 1
  <2>1. 0 \in 0 .. n /\ 0 + 1 = 1
    BY <1>1
  <2>2. place[1] = 1 + g[0].interlines
    BY <1>7, <2>1
  <2>3. QED
    BY <1>4, <2>2 DEF start
<1>17. place[n + 1] = Len(result) + 1
  BY <1>1, <1>14
<1>18. Placed(d, lines, place, result)
  BY <1>13, <1>14, <1>15, <1>16, <1>17 DEF Placed, n
<1>19. QED
  BY <1>18 DEF result

LEMMA PlacesIncrease ==
  ASSUME NEW d, NEW lines \in Seq(Lines), NEW place, NEW result, Placed(d, lines, place, result)
  PROVE  /\ \A i, j \in 1 .. Len(lines) + 1 : i < j => place[i] < place[j]
         /\ \A p \in 1 .. Len(result) : \E j \in 1 .. Len(lines) :
              place[j] <= p /\ p < place[j + 1]
<1> DEFINE n == Len(lines)
<1>1. n \in Nat /\ Len(result) \in Nat
  BY LenProperties DEF Placed
<1>2. /\ place \in [1 .. n + 1 -> Nat] /\ place[1] = 1 /\ place[n + 1] = Len(result) + 1
      /\ \A j \in 1 .. n : place[j + 1] = IF Tabled(d, lines[j]) THEN place[j] + 2 ELSE place[j] + 1
  BY DEF Placed
<1> HIDE DEF n
<1>3. \A j \in 1 .. n : place[j] \in Nat /\ place[j + 1] \in Nat /\ place[j] < place[j + 1]
  <2>1. TAKE j \in 1 .. n
  <2>2. j \in 1 .. n + 1 /\ j + 1 \in 1 .. n + 1
    BY <1>1
  <2>3. place[j] \in Nat /\ place[j + 1] \in Nat
    BY <1>2, <2>2
  <2>4. place[j + 1] = place[j] + 2 \/ place[j + 1] = place[j] + 1
    BY <1>2
  <2>5. QED
    BY <2>3, <2>4
<1> DEFINE Reached(k) ==
             /\ \A i \in 1 .. k : place[i] < place[k + 1]
             /\ \A p \in 1 .. place[k + 1] - 1 :
                  \E j \in 1 .. k : place[j] <= p /\ p < place[j + 1]
           Kept == {k \in Nat : k <= n => Reached(k)}
<1>4. Kept = Nat
  <2>1. 0 \in Kept
    BY <1>1, <1>2
  <2>2. ASSUME NEW k \in Kept, k + 1 <= n
        PROVE  Reached(k + 1)
    <3>1. k \in Nat /\ k + 1 \in 1 .. n /\ Reached(k)
      BY <1>1, <2>2
    <3>2. place[k + 1] \in Nat /\ place[k + 1 + 1] \in Nat /\ place[k + 1] < place[k + 1 + 1]
      BY <1>3, <3>1
    <3>3. \A i \in 1 .. k + 1 : place[i] \in Nat /\ (i \in 1 .. k \/ i = k + 1)
      BY <1>1, <1>3, <3>1
    <3>4. \A i \in 1 .. k + 1 : place[i] < place[k + 1 + 1]
      <4>1. TAKE i \in 1 .. k + 1
      <4>2. CASE i \in 1 .. k
        <5>1. place[i] < place[k + 1]
          BY <3>1, <4>2
        <5>2. place[i] \in Nat
          BY <3>3
        <5>3. QED
          BY <3>2, <5>1, <5>2
      <4>3. CASE i = k + 1
        BY <3>2, <4>3
      <4>4. QED
        BY <3>3, <4>2, <4>3
    <3>5. \A p \in 1 .. place[k + 1 + 1] - 1 :
            \E j \in 1 .. k + 1 : place[j] <= p /\ p < place[j + 1]
      <4>1. TAKE p \in 1 .. place[k + 1 + 1] - 1
      <4>2. CASE p < place[k + 1]
        <5>1. p \in 1 .. place[k + 1] - 1
          BY <3>2, <4>2
        <5>2. PICK j \in 1 .. k : place[j] <= p /\ p < place[j + 1]
          BY <3>1, <5>1
        <5>3. j \in 1 .. k + 1
          BY <3>1
        <5>4. QED
          BY <5>2, <5>3
      <4>3. CASE ~(p < place[k + 1])
        <5>1. place[k + 1] <= p /\ p < place[k + 1 + 1]
          BY <3>2, <4>3
        <5>2. k + 1 \in 1 .. k + 1
          BY <3>1
        <5>3. QED
          BY <5>1, <5>2
      <4>4. QED
        BY <4>2, <4>3
    <3>6. QED
      BY <3>4, <3>5
  <2> HIDE DEF Reached
  <2>3. \A k \in Kept : k + 1 \in Kept
    BY <2>2
  <2>4. Kept \in SUBSET Nat
    OBVIOUS
  <2> HIDE DEF Kept
  <2>5. QED
    BY <2>1, <2>3, <2>4, NatSetInduction
<1>5. \A k \in 0 .. n : Reached(k)
  <2>1. \A k \in 0 .. n : k \in Nat /\ k <= n
    BY <1>1
  <2> HIDE DEF Reached
  <2>2. \A k \in Nat : k <= n => Reached(k)
    BY <1>4
  <2>3. QED
    BY <2>1, <2>2
<1>6. \A i, j \in 1 .. n + 1 : i < j => place[i] < place[j]
  <2>1. SUFFICES ASSUME NEW i \in 1 .. n + 1, NEW j \in 1 .. n + 1, i < j PROVE place[i] < place[j]
    OBVIOUS
  <2>2. j - 1 \in 0 .. n /\ i \in 1 .. j - 1 /\ j - 1 + 1 = j
    BY <1>1, <2>1
  <2>3. Reached(j - 1)
    BY <1>5, <2>2
  <2>4. QED
    BY <2>2, <2>3
<1>7. \A p \in 1 .. Len(result) : \E j \in 1 .. n : place[j] <= p /\ p < place[j + 1]
  <2>1. n \in 0 .. n /\ place[n + 1] - 1 = Len(result)
    BY <1>1, <1>2
  <2>2. Reached(n)
    BY <1>5, <2>1
  <2>3. QED
    BY <2>1, <2>2
<1>8. QED
  BY <1>6, <1>7 DEF n

\* Line p of the annotated design is line j of the original, or the annotation below it.
LineFrom(lines, place, result, p, j) ==
  /\ place[j] <= p /\ p < place[j + 1]
  /\ \/ p = place[j] /\ result[p] = lines[j]
     \/ result[p].kind = "annotation"

\* A line of the annotated design is a line of the original, or the annotation of one.
LEMMA PlacedLine ==
  ASSUME NEW d \in DOMAIN Tables, NEW lines \in Seq(Lines), NEW place, NEW result,
         Placed(d, lines, place, result), NEW p \in 1 .. Len(result)
  PROVE  \E j \in 1 .. Len(lines) : LineFrom(lines, place, result, p, j)
<1>1. PICK j \in 1 .. Len(lines) : place[j] <= p /\ p < place[j + 1]
  BY PlacesIncrease
<1>2. /\ place[j + 1] = IF Tabled(d, lines[j]) THEN place[j] + 2 ELSE place[j] + 1
      /\ result[place[j]] = lines[j]
      /\ Tabled(d, lines[j]) => result[place[j] + 1] = Annotation(Tables[d][lines[j].name])
  BY DEF Placed
<1>3. place[j] \in Nat
  <2>1. j \in 1 .. Len(lines) + 1
    BY LenProperties
  <2>2. QED
    BY <2>1 DEF Placed
<1>4. p = place[j] \/ (Tabled(d, lines[j]) /\ p = place[j] + 1)
  BY <1>1, <1>2, <1>3
<1>5. Tabled(d, lines[j]) => Annotation(Tables[d][lines[j].name]).kind = "annotation"
  BY AnnotationLine
<1>6. LineFrom(lines, place, result, p, j)
  BY <1>1, <1>2, <1>4, <1>5 DEF LineFrom
<1>7. QED
  BY <1>6

LEMMA PlacedModule ==
  ASSUME NEW d \in DOMAIN Tables, NEW lines, IsDesign(lines), NEW place, NEW result,
         Placed(d, lines, place, result), NEW id \in ModuleIds(result)
  PROVE  \E j \in ModuleIds(lines), e \in DOMAIN lines :
           /\ EndsAt(lines, j, e) /\ id = place[j]
           /\ place[e] \in DOMAIN result /\ EndsAt(result, id, place[e])
<1>1. /\ lines \in Seq(Lines) /\ result \in Seq(Lines)
      /\ Len(lines) \in Nat /\ DOMAIN lines = 1 .. Len(lines)
      /\ Len(result) \in Nat /\ DOMAIN result = 1 .. Len(result)
  BY LenProperties DEF IsDesign, Placed
<1>2. id \in 1 .. Len(result) /\ result[id].kind = "module"
  BY <1>1 DEF ModuleIds, Numbers
<1>3. PICK j \in 1 .. Len(lines) : id = place[j] /\ lines[j].kind = "module"
  <2>1. PICK j \in 1 .. Len(lines) :
          (id = place[j] /\ result[id] = lines[j]) \/ result[id].kind = "annotation"
    <3>1. PICK j \in 1 .. Len(lines) : LineFrom(lines, place, result, id, j)
      BY <1>1, <1>2, PlacedLine
    <3>2. QED
      BY <3>1 DEF LineFrom
  <2>2. QED
    BY <1>2, <2>1
<1>4. j \in ModuleIds(lines)
  BY <1>1, <1>3 DEF ModuleIds, Numbers
<1>5. PICK e \in DOMAIN lines : EndsAt(lines, j, e)
  BY <1>4 DEF IsDesign
<1>6. e \in j .. Len(lines) /\ lines[e].kind = "endmodule"
      /\ \A k \in j .. e - 1 : lines[k].kind # "endmodule"
  BY <1>5 DEF EndsAt
<1>7. \A k \in 1 .. Len(lines) + 1 : place[k] \in Nat
  BY <1>1 DEF Placed
<1>8. \A k \in 1 .. Len(lines) : place[k] \in 1 .. Len(result) /\ result[place[k]] = lines[k]
  BY DEF Placed
<1>9. \A i, k \in 1 .. Len(lines) + 1 : i < k => place[i] < place[k]
  BY <1>1, PlacesIncrease
<1>10. e \in 1 .. Len(lines) /\ j # e
  BY <1>1, <1>3, <1>6
<1>11. place[e] \in id .. Len(result) /\ result[place[e]].kind = "endmodule"
  <2>1. j \in 1 .. Len(lines) + 1 /\ e \in 1 .. Len(lines) + 1 /\ j < e
    BY <1>1, <1>6, <1>10
  <2>2. place[j] < place[e] /\ place[j] \in Nat /\ place[e] \in 1 .. Len(result)
    BY <1>7, <1>8, <1>9, <1>10, <2>1
  <2>3. QED
    BY <1>1, <1>3, <1>6, <1>8, <1>10, <2>2
<1>12. ASSUME NEW p \in id .. place[e] - 1 PROVE result[p].kind # "endmodule"
  <2>1. p \in 1 .. Len(result) /\ place[j] <= p /\ p < place[e] /\ p \in Nat
    BY <1>1, <1>2, <1>3, <1>11
  <2>2. PICK k \in 1 .. Len(lines) :
          /\ place[k] <= p /\ p < place[k + 1]
          /\ \/ p = place[k] /\ result[p] = lines[k]
             \/ result[p].kind = "annotation"
    <3>1. PICK k \in 1 .. Len(lines) : LineFrom(lines, place, result, p, k)
      BY <1>1, <2>1, PlacedLine
    <3>2. QED
      BY <3>1 DEF LineFrom
  <2>3. /\ k \in 1 .. Len(lines) + 1 /\ k + 1 \in 1 .. Len(lines) + 1
        /\ j \in 1 .. Len(lines) + 1 /\ e \in 1 .. Len(lines) + 1
    BY <1>1, <1>3, <1>10
  <2>4. /\ place[k] \in Nat /\ place[k + 1] \in Nat /\ place[j] \in Nat /\ place[e] \in Nat
    BY <1>7, <2>3
  <2>5. ~(e < k) /\ e # k
    <3>1. ~(place[e] < place[k]) /\ place[e] # place[k]
      BY <2>1, <2>2, <2>4
    <3>2. QED
      BY <1>9, <2>3, <3>1
  <2>6. ~(k + 1 < j) /\ k + 1 # j
    <3>1. ~(place[k + 1] < place[j]) /\ place[k + 1] # place[j]
      BY <2>1, <2>2, <2>4
    <3>2. QED
      BY <1>9, <2>3, <3>1
  <2>7. k \in j .. e - 1
    BY <1>1, <1>3, <1>10, <2>5, <2>6
  <2>8. QED
    BY <1>6, <2>2, <2>7
<1>13. EndsAt(result, id, place[e])
  BY <1>11, <1>12 DEF EndsAt
<1>14. QED
  BY <1>1, <1>3, <1>4, <1>5, <1>8, <1>10, <1>13

\* A module of the annotated design consists of the lines of the original and of annotations.
LEMMA AnnotatedModuleLines ==
  ASSUME NEW d \in DOMAIN Tables, NEW lines, IsDesign(lines), NEW place, NEW result,
         Placed(d, lines, place, result), NEW id \in ModuleIds(result),
         NEW j \in ModuleIds(lines), NEW e \in DOMAIN lines, EndsAt(lines, j, e), id = place[j],
         place[e] \in DOMAIN result, EndsAt(result, id, place[e])
  PROVE  /\ Module(result, id)[1] = Module(lines, j)[1]
         /\ \A p \in DOMAIN Module(result, id) :
              \/ Module(result, id)[p] \in ToSet(Module(lines, j))
              \/ Module(result, id)[p].kind = "annotation"
<1>1. /\ EndsAt(lines, j, e) /\ id = place[j]
      /\ place[e] \in DOMAIN result /\ EndsAt(result, id, place[e])
  OBVIOUS
<1>2. /\ lines \in Seq(Lines) /\ result \in Seq(Lines)
      /\ Len(lines) \in Nat /\ DOMAIN lines = 1 .. Len(lines)
      /\ Len(result) \in Nat /\ DOMAIN result = 1 .. Len(result)
  BY LenProperties DEF IsDesign, Placed
<1> DEFINE o == Module(lines, j)
           m == Module(result, id)
           last == place[e]
<1>3. /\ j \in Nat \ {0} /\ e \in Nat /\ j < e
      /\ DOMAIN o = 1 .. e - j + 1
      /\ \A i \in 1 .. e - j + 1 : i + j - 1 \in DOMAIN lines /\ o[i] = lines[i + j - 1]
  <2>1. CutOut(lines, j, e)
    BY <1>1, <1>2, ModuleCut
  <2>2. QED
    BY <2>1 DEF CutOut
<1>4. /\ id \in Nat \ {0} /\ last \in Nat /\ id < last
      /\ DOMAIN m = 1 .. last - id + 1
      /\ \A i \in 1 .. last - id + 1 : i + id - 1 \in DOMAIN result /\ m[i] = result[i + id - 1]
  <2>1. PICK z \in DOMAIN result : z = last /\ EndsAt(result, id, z)
    BY <1>1
  <2> HIDE DEF o, m, last
  <2>2. result \in Seq(Lines) /\ id \in ModuleIds(result) /\ z \in DOMAIN result /\ EndsAt(result, id, z)
    BY <1>2, <2>1
  <2>3. /\ id \in Nat \ {0} /\ z \in Nat /\ id < z
        /\ DOMAIN Module(result, id) = 1 .. z - id + 1
        /\ \A i \in 1 .. z - id + 1 :
             i + id - 1 \in DOMAIN result /\ Module(result, id)[i] = result[i + id - 1]
    <3>1. CutOut(result, id, z)
      BY <2>2, ModuleCut
    <3>2. QED
      BY <3>1 DEF CutOut
  <2>4. m = Module(result, id)
    BY DEF m
  <2>5. QED
    BY <2>1, <2>3, <2>4
<1>5. IsDesign(result)
  <2>1. \A i \in ModuleIds(result) : \E z \in DOMAIN result : EndsAt(result, i, z)
    BY PlacedModule
  <2>2. QED
    BY <1>2, <2>1 DEF IsDesign
<1>6. m[1] = result[id] /\ o[1] = lines[j]
  BY <1>5, ModuleLines
<1> HIDE DEF o, m, last
<1>7. j \in 1 .. Len(lines) /\ e \in 1 .. Len(lines)
  BY <1>1, <1>2, <1>3
<1>8. m[1] = o[1]
  BY <1>1, <1>6, <1>7 DEF Placed
<1>9. ASSUME NEW p \in DOMAIN m
      PROVE  m[p] \in ToSet(o) \/ m[p].kind = "annotation"
  <2>1. PICK q \in 1 .. Len(result) : q = p + id - 1 /\ m[p] = result[q] /\ id <= q /\ q <= last
    <3>1. p \in 1 .. last - id + 1 /\ p + id - 1 \in 1 .. Len(result) /\ m[p] = result[p + id - 1]
      BY <1>2, <1>4
    <3>2. id <= p + id - 1 /\ p + id - 1 <= last
      <4>1. id \in Nat /\ last \in Nat
        BY <1>4
      <4>2. QED
        BY ONLY <3>1, <4>1
    <3>3. QED
      BY <3>1, <3>2
  <2>2. PICK k \in 1 .. Len(lines) :
          /\ place[k] <= q /\ q < place[k + 1]
          /\ \/ q = place[k] /\ result[q] = lines[k]
             \/ result[q].kind = "annotation"
    <3>1. PICK k \in 1 .. Len(lines) : LineFrom(lines, place, result, q, k)
      BY <1>2, PlacedLine
    <3>2. QED
      BY <3>1 DEF LineFrom
  <2>3. /\ k \in 1 .. Len(lines) + 1 /\ k + 1 \in 1 .. Len(lines) + 1
        /\ j \in 1 .. Len(lines) + 1 /\ e \in 1 .. Len(lines) + 1
    BY <1>2, <1>7
  <2>4. /\ place[k] \in Nat /\ place[k + 1] \in Nat /\ place[j] \in Nat /\ place[e] \in Nat
    BY <2>3 DEF Placed
  <2>5. \A a, b \in 1 .. Len(lines) + 1 : a < b => place[a] < place[b]
    BY <1>2, PlacesIncrease
  <2>6. ~(e < k)
    <3>1. ~(place[e] < place[k])
      BY <2>1, <2>2, <2>4 DEF last
    <3>2. QED
      BY <2>3, <2>5, <3>1
  <2>7. ~(k + 1 < j) /\ k + 1 # j
    <3>1. ~(place[k + 1] < place[j]) /\ place[k + 1] # place[j]
      BY <1>1, <2>1, <2>2, <2>4
    <3>2. QED
      BY <2>3, <2>5, <3>1
  <2>8. k - j + 1 \in 1 .. e - j + 1 /\ k - j + 1 + j - 1 = k
    BY <1>3, <2>3, <2>6, <2>7
  <2>9. o[k - j + 1] = lines[k] /\ k - j + 1 \in DOMAIN o
    BY <1>3, <2>8
  <2>10. lines[k] \in ToSet(o)
    BY <2>9 DEF ToSet
  <2>11. QED
    BY <2>1, <2>2, <2>10
<1>10. QED
  BY <1>8, <1>9 DEF o, m

LEMMA AnnotatedModules ==
  ASSUME NEW d \in DOMAIN Tables, NEW lines, IsDesign(lines),
         \A id \in ModuleIds(lines) : ChipyardModule(Module(lines, id)),
         NEW place, NEW result, Placed(d, lines, place, result), NEW id \in ModuleIds(result)
  PROVE  LET m == Module(result, id)
         IN  ModuleAnnotations(m) = IF Tabled(d, m[1]) THEN {Tables[d][m[1].name]} ELSE {}
<1>1. PICK j \in ModuleIds(lines), e \in DOMAIN lines :
        /\ EndsAt(lines, j, e) /\ id = place[j]
        /\ place[e] \in DOMAIN result /\ EndsAt(result, id, place[e])
  BY PlacedModule
<1>2. /\ lines \in Seq(Lines) /\ result \in Seq(Lines)
      /\ Len(lines) \in Nat /\ DOMAIN lines = 1 .. Len(lines)
      /\ Len(result) \in Nat /\ DOMAIN result = 1 .. Len(result)
  BY LenProperties DEF IsDesign, Placed
<1> DEFINE o == Module(lines, j)
           m == Module(result, id)
           last == place[e]
<1>3. /\ j \in Nat \ {0} /\ e \in Nat /\ j < e
      /\ DOMAIN o = 1 .. e - j + 1
      /\ \A i \in 1 .. e - j + 1 : i + j - 1 \in DOMAIN lines /\ o[i] = lines[i + j - 1]
  <2>1. CutOut(lines, j, e)
    BY <1>1, <1>2, ModuleCut
  <2>2. QED
    BY <2>1 DEF CutOut
<1>4. /\ id \in Nat \ {0} /\ last \in Nat /\ id < last
      /\ m \in Seq(Lines)
      /\ Len(m) = last - id + 1
      /\ DOMAIN m = 1 .. last - id + 1
      /\ \A i \in 1 .. last - id + 1 : i + id - 1 \in DOMAIN result /\ m[i] = result[i + id - 1]
  <2>1. PICK z \in DOMAIN result : z = last /\ EndsAt(result, id, z)
    BY <1>1
  <2>2. /\ id \in Nat \ {0} /\ z \in Nat /\ id < z
        /\ m \in Seq(Lines)
        /\ Len(m) = z - id + 1
        /\ DOMAIN m = 1 .. z - id + 1
        /\ \A i \in 1 .. z - id + 1 : i + id - 1 \in DOMAIN result /\ m[i] = result[i + id - 1]
    <3>1. CutOut(result, id, z)
      BY <1>2, <2>1, ModuleCut
    <3>2. QED
      BY <3>1 DEF CutOut
  <2> HIDE DEF m, last
  <2>3. QED
    BY <2>1, <2>2
<1>5. ChipyardModule(o)
  BY <1>1
<1> HIDE DEF o, m, last
<1>6. j \in 1 .. Len(lines) /\ e \in 1 .. Len(lines) /\ j + 1 \in 1 .. Len(lines)
  BY <1>1, <1>2, <1>3
<1>7. \A k \in 1 .. Len(lines) : place[k] \in 1 .. Len(result) /\ result[place[k]] = lines[k]
  BY DEF Placed
<1>8. place[j + 1] = IF Tabled(d, lines[j]) THEN id + 2 ELSE id + 1
  BY <1>1, <1>6 DEF Placed
<1>9. place[j + 1] \in Nat /\ place[j + 1] <= last
  <2>1. j + 1 = e \/ j + 1 < e
    BY <1>3
  <2>2. j + 1 \in 1 .. Len(lines) + 1 /\ e \in 1 .. Len(lines) + 1
    BY <1>2, <1>6
  <2>3. j + 1 < e => place[j + 1] < place[e]
    BY <1>2, <2>2, PlacesIncrease
  <2>4. place[j + 1] \in Nat /\ place[e] \in Nat
    BY <2>2 DEF Placed
  <2>5. QED
    BY <2>1, <2>3, <2>4 DEF last
<1>10. m[1] = lines[j]
  <2>1. 1 \in 1 .. last - id + 1 /\ 1 + id - 1 = id
    BY <1>4
  <2>2. m[1] = result[id]
    BY <1>4, <2>1
  <2>3. QED
    BY <1>1, <1>6, <1>7, <2>2
<1>11. o[1] = lines[j] /\ o[2] = lines[j + 1] /\ 2 \in DOMAIN o
  <2>1. 1 \in 1 .. e - j + 1 /\ 2 \in 1 .. e - j + 1 /\ 1 + j - 1 = j /\ 2 + j - 1 = j + 1
    BY <1>3
  <2>2. QED
    BY <1>3, <2>1
<1>12. lines[j + 1].kind # "annotation"
  BY <1>5, <1>11 DEF ChipyardModule, Numbers
<1>13. CASE ~Tabled(d, lines[j])
  <2>1. place[j + 1] = id + 1
    BY <1>8, <1>13
  <2>2. 2 \in 1 .. last - id + 1 /\ 2 + id - 1 = id + 1
    BY <1>4
  <2>3. m[2] = lines[j + 1]
    <3>1. m[2] = result[place[j + 1]]
      BY <1>4, <2>1, <2>2
    <3>2. QED
      BY <1>6, <1>7, <3>1
  <2>4. \A k \in 2 .. Len(m) : 2 \in 2 .. k
    BY <1>4
  <2>5. ModuleAnnotations(m) = {}
    BY <1>12, <2>3, <2>4 DEF ModuleAnnotations
  <2>6. QED
    BY <1>10, <1>13, <2>5 DEF m
<1>14. CASE Tabled(d, lines[j])
  <2> DEFINE roles == Tables[d][lines[j].name]
  <2>1. place[j + 1] = id + 2
    BY <1>8, <1>14
  <2>2. /\ 2 \in 1 .. last - id + 1 /\ 2 + id - 1 = id + 1
        /\ 3 \in 1 .. last - id + 1 /\ 3 + id - 1 = id + 2
    BY <1>4, <1>9, <2>1
  <2>3. m[3] = lines[j + 1]
    <3>1. m[3] = result[place[j + 1]]
      BY <1>4, <2>1, <2>2
    <3>2. QED
      BY <1>6, <1>7, <3>1
  <2>4. result[id + 1] = Annotation(roles)
    BY <1>1, <1>6, <1>14 DEF Placed
  <2>5. m[2] = Annotation(roles)
    BY <1>4, <2>2, <2>4
  <2>6. m[2].kind = "annotation" /\ m[2].roles = roles
    BY <1>14, <2>5, AnnotationLine
  <2> HIDE DEF roles
  <2>7. /\ 2 \in 2 .. Len(m) /\ \A i \in 2 .. 2 : i = 2
        /\ \A k \in 2 .. Len(m) : k = 2 \/ 3 \in 2 .. k
    BY <1>4, <2>2
  <2>8. \A k \in 2 .. Len(m) : (\A i \in 2 .. k : m[i].kind = "annotation") <=> k = 2
    BY <1>12, <2>3, <2>6, <2>7
  <2>9. ModuleAnnotations(m) = {roles}
    BY <2>6, <2>7, <2>8 DEF ModuleAnnotations
  <2>10. QED
    BY <1>10, <1>14, <2>9 DEF m, roles
<1>15. QED
  BY <1>13, <1>14

LEMMA AnnotatedPlain ==
  ASSUME NEW d \in DOMAIN Tables, NEW lines, IsDesign(lines),
         \A id \in ModuleIds(lines) : PlainModule(d, Module(lines, id)),
         NEW place, NEW result, Placed(d, lines, place, result), NEW id \in ModuleIds(result)
  PROVE  PlainModule(d, Module(result, id))
<1> DEFINE m == Module(result, id)
<1>1. PICK j \in ModuleIds(lines), e \in DOMAIN lines :
        /\ EndsAt(lines, j, e) /\ id = place[j]
        /\ place[e] \in DOMAIN result /\ EndsAt(result, id, place[e])
  BY PlacedModule
<1>2. /\ m[1] = Module(lines, j)[1]
      /\ \A p \in DOMAIN m : m[p] \in ToSet(Module(lines, j)) \/ m[p].kind = "annotation"
  BY <1>1, AnnotatedModuleLines
<1>3. PlainModule(d, Module(lines, j))
  OBVIOUS
<1> HIDE DEF m
<1>4. QED
  BY <1>2, <1>3 DEF PlainModule, ToSet, m

LEMMA AnnotateMemoriesKeeps == PassInv /\ AnnotateMemories => PassInv'
<1> SUFFICES ASSUME PassInv, AnnotateMemories PROVE PassInv'
  OBVIOUS
<1>1. /\ stage = "annotate" /\ Manual /\ stage' = "select"
      /\ text' = Annotate(design, text)
      /\ UNCHANGED <<design, pending, removed, skipped, shadowed, pins>>
      /\ Manual'
  BY DEF AnnotateMemories, PassInv, TextInv, Manual
<1>2. design \in DOMAIN Tables
  BY <1>1 DEF PassInv, TextInv, Manual, Tables
<1>3. IsDesign(text) /\ \A id \in ModuleIds(text) : ChipyardModule(Module(text, id))
  BY <1>1 DEF PassInv, TextInv
<1>4. text \in Seq(Lines)
  BY <1>3 DEF IsDesign
<1>5. PICK place : Placed(design, text, place, text')
  BY <1>1, <1>2, <1>4, AnnotatedLines
<1>6. IsDesign(text')
  <2>1. \A id \in ModuleIds(text') : \E e \in DOMAIN text' : EndsAt(text', id, e)
    BY <1>2, <1>3, <1>5, PlacedModule
  <2>2. QED
    BY <1>5, <2>1 DEF IsDesign, Placed
<1>7. ASSUME NEW id \in ModuleIds(text')
      PROVE  AnnotatedModule(Module(text, id))'
  BY <1>1, <1>2, <1>3, <1>5, AnnotatedModules DEF AnnotatedModule
<1>8. TextInv'
  BY <1>1, <1>6, <1>7 DEF TextInv, PassInv
<1>9. pending = <<>> /\ removed = {} /\ skipped = {} /\ DOMAIN shadowed = {}
  BY <1>1 DEF PassInv, Accounted
<1>10. pending' = <<>> /\ pending' \in Seq(ModuleIds(text')) /\ ToSet(<<>>) = {}
  BY <1>1, <1>9, EmptySeq DEF ToSet
<1>11. Considered' = {}
  BY <1>1, <1>9, <1>10 DEF Considered
<1>12. Accounted' /\ Declared' /\ ShadowedOnRoles'
  BY <1>1, <1>9, <1>10, <1>11 DEF Accounted, Declared, ShadowedOnRoles
<1>13. (DOMAIN pins \subseteq DOMAIN shadowed)'
  BY <1>1 DEF PassInv
<1>14. QED
  BY <1>1, <1>8, <1>10, <1>12, <1>13 DEF PassInv

-----------------------------------------------------------------------------
(* The designs. *)

LEMMA JoinedDesigns ==
  ASSUME NEW a, IsDesign(a), NEW b, IsDesign(b), NEW P,
         \A id \in ModuleIds(a) : Module(a, id) \in P,
         \A id \in ModuleIds(b) : Module(b, id) \in P
  PROVE  IsDesign(a \o b) /\ \A id \in ModuleIds(a \o b) : Module(a \o b, id) \in P
<1> DEFINE c == a \o b
           n == Len(a)
<1>1. /\ a \in Seq(Lines) /\ n \in Nat /\ DOMAIN a = 1 .. n
      /\ b \in Seq(Lines) /\ Len(b) \in Nat /\ DOMAIN b = 1 .. Len(b)
  BY LenProperties DEF IsDesign
<1>2. /\ c \in Seq(Lines)
      /\ Len(c) = n + Len(b)
      /\ \A k \in 1 .. n + Len(b) : c[k] = IF k <= n THEN a[k] ELSE b[k - n]
  BY <1>1, ConcatProperties
<1> HIDE DEF c, n
<1>3. DOMAIN c = 1 .. n + Len(b)
  BY <1>2, LenProperties
<1>4. /\ \A k \in 1 .. n : k \in 1 .. n + Len(b) /\ k <= n
      /\ \A k \in 1 .. Len(b) : n + k \in 1 .. n + Len(b) /\ ~(n + k <= n) /\ n + k - n = k
      /\ \A k \in 1 .. n + Len(b) : k \in 1 .. n \/ (k - n \in 1 .. Len(b) /\ n + (k - n) = k)
  BY <1>1
<1>5. (\A k \in 1 .. n : c[k] = a[k]) /\ (\A k \in 1 .. Len(b) : c[n + k] = b[k])
  <2>1. \A k \in 1 .. n : c[k] = a[k]
    BY <1>2, <1>4
  <2>2. ASSUME NEW k \in 1 .. Len(b) PROVE c[n + k] = b[k]
    <3>1. PICK p \in 1 .. n + Len(b) : p = n + k /\ ~(p <= n) /\ p - n = k
      BY <1>1
    <3>2. c[p] = b[p - n]
      BY <1>2, <3>1
    <3>3. QED
      BY <3>1, <3>2
  <2>3. QED
    BY <2>1, <2>2
<1>6. ASSUME NEW id \in ModuleIds(a)
      PROVE  (\E e \in DOMAIN c : EndsAt(c, id, e)) /\ (id \in ModuleIds(c) => Module(c, id) \in P)
  <2>1. PICK e \in DOMAIN a : EndsAt(a, id, e)
    BY DEF IsDesign
  <2>2. id \in 1 .. n /\ e \in id .. n /\ e \in 1 .. n
    BY <1>1, <2>1 DEF ModuleIds, Numbers, EndsAt, n
  <2>3. \A j \in id .. e : j \in 1 .. n /\ c[j] = a[j]
    BY <1>1, <1>5, <2>2
  <2>4. e \in DOMAIN c /\ e \in id .. Len(c)
    BY <1>1, <1>2, <1>3, <2>2
  <2>5. EndsAt(c, id, e)
    <3>1. \A j \in id .. e - 1 : j \in id .. e
      BY <1>1, <2>2
    <3>2. e \in id .. e
      BY <1>1, <2>2
    <3>3. QED
      BY <2>1, <2>3, <2>4, <3>1, <3>2 DEF EndsAt
  <2>6. ASSUME id \in ModuleIds(c) PROVE Module(c, id) = Module(a, id)
    <3>1. /\ Module(a, id) \in Seq(Lines) /\ Len(Module(a, id)) = e - id + 1
          /\ \A i \in 1 .. e - id + 1 : Module(a, id)[i] = a[i + id - 1]
      <4>1. CutOut(a, id, e)
        BY <1>1, <2>1, ModuleCut
      <4>2. QED
        BY <4>1 DEF CutOut
    <3>2. /\ Module(c, id) \in Seq(Lines) /\ Len(Module(c, id)) = e - id + 1
          /\ \A i \in 1 .. e - id + 1 : Module(c, id)[i] = c[i + id - 1]
      <4>1. CutOut(c, id, e)
        BY <1>2, <2>4, <2>5, <2>6, ModuleCut
      <4>2. QED
        BY <4>1 DEF CutOut
    <3>3. \A i \in 1 .. e - id + 1 : i + id - 1 \in id .. e
      BY <1>1, <2>2
    <3>4. \A i \in 1 .. e - id + 1 : Module(c, id)[i] = Module(a, id)[i]
      BY <2>3, <3>1, <3>2, <3>3
    <3>5. QED
      BY <3>1, <3>2, <3>4, SeqEqual
  <2>7. QED
    BY <2>4, <2>5, <2>6
<1>7. ASSUME NEW j \in ModuleIds(b)
      PROVE  (\E e \in DOMAIN c : EndsAt(c, n + j, e)) /\ (n + j \in ModuleIds(c) => Module(c, n + j) \in P)
  <2>1. PICK f \in DOMAIN b : EndsAt(b, j, f)
    BY DEF IsDesign
  <2>2. j \in 1 .. Len(b) /\ f \in j .. Len(b) /\ f \in 1 .. Len(b)
    BY <1>1, <2>1 DEF ModuleIds, Numbers, EndsAt
  <2> DEFINE id == n + j
             e == n + f
  <2>3. \A k \in j .. f : k \in 1 .. Len(b) /\ c[n + k] = b[k]
    BY <1>1, <1>5, <2>2
  <2>4. e \in DOMAIN c /\ e \in id .. Len(c) /\ id \in Nat /\ e \in Nat
    BY <1>1, <1>2, <1>3, <2>2
  <2>5. \A k \in id .. e : k - n \in j .. f /\ n + (k - n) = k
    BY <1>1, <2>2
  <2>6. \A k \in id .. e : c[k] = b[k - n]
    BY <2>3, <2>5
  <2>7. e \in id .. e /\ e - n = f /\ \A k \in id .. e - 1 : k \in id .. e /\ k - n \in j .. f - 1
    BY <1>1, <2>2
  <2> HIDE DEF id, e
  <2>8. EndsAt(c, id, e)
    <3>1. c[e].kind = "endmodule"
      BY <2>1, <2>6, <2>7 DEF EndsAt
    <3>2. \A k \in id .. e - 1 : c[k].kind # "endmodule"
      BY <2>1, <2>6, <2>7 DEF EndsAt
    <3>3. QED
      BY <2>4, <3>1, <3>2 DEF EndsAt
  <2>9. ASSUME id \in ModuleIds(c) PROVE Module(c, id) = Module(b, j)
    <3>1. /\ Module(b, j) \in Seq(Lines) /\ Len(Module(b, j)) = f - j + 1
          /\ \A i \in 1 .. f - j + 1 : Module(b, j)[i] = b[i + j - 1]
      <4>1. CutOut(b, j, f)
        BY <1>1, <2>1, ModuleCut
      <4>2. QED
        BY <4>1 DEF CutOut
    <3>2. /\ Module(c, id) \in Seq(Lines) /\ Len(Module(c, id)) = e - id + 1
          /\ \A i \in 1 .. e - id + 1 : Module(c, id)[i] = c[i + id - 1]
      <4>1. CutOut(c, id, e)
        BY <1>2, <2>4, <2>8, <2>9, ModuleCut
      <4>2. QED
        BY <4>1 DEF CutOut
    <3>3. /\ e - id + 1 = f - j + 1
          /\ \A i \in 1 .. e - id + 1 : i + id - 1 \in id .. e /\ i + id - 1 - n = i + j - 1
      <4>1. n \in Int /\ j \in Int /\ f \in Int
        BY <1>1, <2>2
      <4>2. e = n + f /\ id = n + j
        BY DEF e, id
      <4>3. e - id + 1 = f - j + 1
        BY <4>1, <4>2
      <4>4. \A i \in 1 .. f - j + 1 : i + (n + j) - 1 \in n + j .. n + f /\ i + (n + j) - 1 - n = i + j - 1
        BY <4>1
      <4>5. QED
        BY <4>2, <4>3, <4>4
    <3>4. \A i \in 1 .. e - id + 1 : Module(c, id)[i] = Module(b, j)[i]
      <4>1. TAKE i \in 1 .. e - id + 1
      <4> DEFINE p == i + id - 1
      <4>2. p \in id .. e /\ p - n = i + j - 1
        <5>1. id = n + j /\ n \in Int /\ j \in Int /\ id \in Int /\ e \in Int
          BY <1>1, <2>2, <2>4 DEF id
        <5>2. QED
          BY <5>1
      <4>3. Module(c, id)[i] = c[p]
        BY <3>2, <4>2
      <4>4. c[p] = b[i + j - 1]
        <5> HIDE DEF p
        <5>1. c[p] = b[p - n]
          BY <2>6, <4>2
        <5>2. QED
          BY <4>2, <5>1
      <4>5. Module(b, j)[i] = b[i + j - 1]
        BY <3>1, <3>3
      <4>6. QED
        BY <4>3, <4>4, <4>5
    <3>5. QED
      BY <3>1, <3>2, <3>3, <3>4, SeqEqual
  <2>10. QED
    BY <2>4, <2>8, <2>9 DEF id
<1>8. ASSUME NEW id \in ModuleIds(c) PROVE id \in ModuleIds(a) \/ \E j \in ModuleIds(b) : id = n + j
  <2>1. id \in 1 .. n + Len(b) /\ c[id].kind = "module"
    BY <1>3 DEF ModuleIds, Numbers
  <2>2. CASE id \in 1 .. n
    BY <1>1, <1>5, <2>1, <2>2 DEF ModuleIds, Numbers
  <2>3. CASE id - n \in 1 .. Len(b) /\ n + (id - n) = id
    <3>1. id - n \in ModuleIds(b)
      BY <1>1, <1>5, <2>1, <2>3 DEF ModuleIds, Numbers
    <3>2. QED
      BY <2>3, <3>1
  <2>4. QED
    BY <1>4, <2>1, <2>2, <2>3
<1>9. \A id \in ModuleIds(c) : (\E e \in DOMAIN c : EndsAt(c, id, e)) /\ Module(c, id) \in P
  BY <1>6, <1>7, <1>8
<1>10. QED
  BY <1>2, <1>9 DEF IsDesign, c

LEMMA NoDesign == IsDesign(<<>>) /\ ModuleIds(<<>>) = {}
<1>1. DOMAIN <<>> = {}
  OBVIOUS
<1>2. ModuleIds(<<>>) = {}
  BY <1>1 DEF ModuleIds, Numbers
<1>3. <<>> \in Seq(Lines)
  OBVIOUS
<1>4. QED
  BY <1>2, <1>3 DEF IsDesign

LEMMA OneModule ==
  ASSUME NEW m \in Seq(Lines), Len(m) >= 2, m[1].kind = "module", m[Len(m)].kind = "endmodule",
         \A k \in 2 .. Len(m) - 1 : m[k].kind \notin {"module", "endmodule"}
  PROVE  IsDesign(m) /\ ModuleIds(m) = {1} /\ Module(m, 1) = m
<1> DEFINE n == Len(m)
<1>1. n \in Nat /\ n >= 2 /\ DOMAIN m = 1 .. n
  BY LenProperties
<1> HIDE DEF n
<1>2. \A k \in 1 .. n : k = 1 \/ k = n \/ k \in 2 .. n - 1
  BY <1>1
<1>3. 1 \in 1 .. n /\ n \in 1 .. n
  BY <1>1
<1> USE DEF n
<1>4. ModuleIds(m) = {1}
  BY <1>1, <1>2, <1>3 DEF ModuleIds, Numbers
<1>5. EndsAt(m, 1, Len(m))
  <2>1. \A j \in 1 .. Len(m) - 1 : j = 1 \/ j \in 2 .. Len(m) - 1
    BY <1>1
  <2>2. QED
    BY <1>3, <2>1 DEF EndsAt
<1>6. IsDesign(m)
  BY <1>1, <1>3, <1>4, <1>5 DEF IsDesign
<1>7. /\ Module(m, 1) \in Seq(Lines)
      /\ Len(Module(m, 1)) = Len(m) - 1 + 1
      /\ \A i \in 1 .. Len(m) - 1 + 1 : Module(m, 1)[i] = m[i + 1 - 1]
  <2>1. PICK e \in DOMAIN m : e = Len(m) /\ EndsAt(m, 1, e)
    BY <1>1, <1>3, <1>5
  <2>2. 1 \in ModuleIds(m)
    BY <1>4
  <2>3. /\ Module(m, 1) \in Seq(Lines)
        /\ Len(Module(m, 1)) = e - 1 + 1
        /\ \A i \in 1 .. e - 1 + 1 : Module(m, 1)[i] = m[i + 1 - 1]
    <3>1. CutOut(m, 1, e)
      BY <2>1, <2>2, ModuleCut
    <3>2. QED
      BY <3>1 DEF CutOut
  <2>4. QED
    BY <2>1, <2>3
<1>8. Len(m) - 1 + 1 = Len(m) /\ \A i \in 1 .. Len(m) : i + 1 - 1 = i
  BY <1>1
<1>9. Len(Module(m, 1)) = Len(m) /\ \A i \in 1 .. Len(m) : Module(m, 1)[i] = m[i]
  BY <1>7, <1>8
<1>10. Module(m, 1) = m
  BY <1>7, <1>9, SeqEqual
<1>11. QED
  BY <1>4, <1>6, <1>10

\* Where the lines of a module's text stand.
TextParts(m, name, lines, functions, below) ==
  LET a == Len(lines)
      b == Len(functions)
      c == Len(below)
  IN  /\ m \in Seq(Lines) /\ Len(m) = a + b + c + 2
      /\ m[1] = Line("module", name) /\ m[a + b + c + 2] = Line("endmodule", name)
      /\ \A k \in 1 .. a : m[k + 1] = lines[k]
      /\ \A k \in 1 .. b : m[a + 1 + k] = functions[k]
      /\ \A k \in 1 .. c : m[a + b + 1 + k] = below[k]
      /\ \A k \in 1 .. a + b + c + 2 :
           \/ k = 1 \/ k = a + b + c + 2
           \/ \E j \in 1 .. a : k = j + 1
           \/ \E j \in 1 .. b : k = a + 1 + j
           \/ \E j \in 1 .. c : k = a + b + 1 + j

Inside(lines) ==
  lines \in Seq(Lines) /\ \A k \in 1 .. Len(lines) : lines[k].kind \notin {"module", "endmodule"}

LEMMA LinesAreLines ==
  /\ \A kind \in Kinds, name \in Named : Line(kind, name) \in Lines
  /\ \A p \in Named, msb \in Int : In(p, msb) \in Lines /\ Out(p, msb) \in Lines
<1>1. ASSUME NEW kind \in Kinds, NEW name \in Named PROVE Line(kind, name) \in Lines
  <2>1. Line(kind, name) \in [kind : Kinds, name : Named]
    BY DEF Line
  <2>2. QED
    BY <2>1 DEF Lines
<1>2. ASSUME NEW p \in Named, NEW msb \in Int PROVE In(p, msb) \in Lines /\ Out(p, msb) \in Lines
  <2>1. "input" \in Kinds /\ "output" \in Kinds
    BY DEF Kinds
  <2>2. /\ In(p, msb) \in [kind : Kinds, name : Named, msb : Int]
        /\ Out(p, msb) \in [kind : Kinds, name : Named, msb : Int]
    BY <2>1 DEF In, Out
  <2>3. QED
    BY <2>2 DEF Lines
<1>3. QED
  BY <1>1, <1>2

LEMMA OneLine ==
  ASSUME NEW S, NEW e \in S
  PROVE  <<e>> \in Seq(S) /\ Len(<<e>>) = 1 /\ <<e>>[1] = e
  OBVIOUS

LEMMA TextLines ==
  ASSUME NEW name \in Named, NEW lines, NEW functions, NEW below,
         lines \in Seq(Lines), functions \in Seq(Lines), below \in Seq(Lines)
  PROVE  TextParts(ModuleText(name, lines, functions, below), name, lines, functions, below)
<1> DEFINE a == Len(lines)
           b == Len(functions)
           c == Len(below)
           first == Line("module", name)
           last == Line("endmodule", name)
<1>1. a \in Nat /\ b \in Nat /\ c \in Nat
  BY LenProperties
<1>2. first \in Lines /\ last \in Lines
  BY LinesAreLines DEF Kinds
<1> HIDE DEF first, last
<1> DEFINE x == <<first>> \o lines
           y == below \o <<last>>
           xf == x \o functions
           m == xf \o y
<1>3. /\ <<first>> \in Seq(Lines) /\ Len(<<first>>) = 1 /\ <<first>>[1] = first
      /\ <<last>> \in Seq(Lines) /\ Len(<<last>>) = 1 /\ <<last>>[1] = last
  BY <1>2, OneLine
<1>4. /\ x \in Seq(Lines) /\ Len(x) = 1 + a
      /\ \A k \in 1 .. 1 + a : x[k] = IF k <= 1 THEN <<first>>[k] ELSE lines[k - 1]
  BY <1>3, ConcatProperties
<1>5. /\ y \in Seq(Lines) /\ Len(y) = c + 1
      /\ \A k \in 1 .. c + 1 : y[k] = IF k <= c THEN below[k] ELSE <<last>>[k - c]
  BY <1>3, ConcatProperties
<1> HIDE DEF a, b, c, x, y
<1>6. x[1] = first /\ \A k \in 1 .. a : x[k + 1] = lines[k]
  <2>1. x[1] = first
    <3>1. 1 \in 1 .. 1 + a
      BY <1>1
    <3>2. QED
      BY <1>3, <1>4, <3>1
  <2>2. ASSUME NEW k \in 1 .. a PROVE x[k + 1] = lines[k]
    <3>1. PICK p \in 1 .. 1 + a : p = k + 1 /\ ~(p <= 1) /\ p - 1 = k
      BY <1>1
    <3>2. QED
      BY <1>4, <3>1
  <2>3. QED
    BY <2>1, <2>2
<1>7. y[c + 1] = last /\ \A k \in 1 .. c : y[k] = below[k]
  <2>1. PICK p \in 1 .. c + 1 : p = c + 1 /\ ~(p <= c) /\ p - c = 1
    BY <1>1
  <2>2. \A k \in 1 .. c : k \in 1 .. c + 1 /\ k <= c
    BY <1>1
  <2>3. QED
    BY <1>3, <1>5, <2>1, <2>2
<1>8. /\ xf \in Seq(Lines) /\ Len(xf) = a + 1 + b
      /\ \A k \in 1 .. a + 1 : xf[k] = x[k]
      /\ \A k \in 1 .. b : xf[a + 1 + k] = functions[k]
  <2>1. /\ xf \in Seq(Lines) /\ Len(xf) = 1 + a + b
        /\ \A k \in 1 .. 1 + a + b : xf[k] = IF k <= 1 + a THEN x[k] ELSE functions[k - (1 + a)]
    <3>1. x \in Seq(Lines) /\ Len(x) = 1 + a /\ Len(functions) = b
      BY <1>4 DEF b
    <3>2. /\ xf \in Seq(Lines) /\ Len(xf) = Len(x) + Len(functions)
          /\ \A k \in 1 .. Len(x) + Len(functions) :
               xf[k] = IF k <= Len(x) THEN x[k] ELSE functions[k - Len(x)]
      BY <3>1, ConcatProperties
    <3>3. QED
      BY <3>1, <3>2
  <2> HIDE DEF xf
  <2>2. 1 + a + b = a + 1 + b /\ \A k \in 1 .. a + 1 : k \in 1 .. 1 + a + b /\ k <= 1 + a
    BY <1>1
  <2>3. ASSUME NEW k \in 1 .. b PROVE xf[a + 1 + k] = functions[k]
    <3>1. PICK p \in 1 .. 1 + a + b : p = a + 1 + k /\ ~(p <= 1 + a) /\ p - (1 + a) = k
      BY <1>1
    <3>2. QED
      BY <2>1, <3>1
  <2>4. QED
    BY <2>1, <2>2, <2>3
<1> HIDE DEF xf
<1>9. /\ m \in Seq(Lines) /\ Len(m) = a + b + c + 2
      /\ \A k \in 1 .. a + 1 + b : m[k] = xf[k]
      /\ \A k \in 1 .. c + 1 : m[a + b + 1 + k] = y[k]
  <2>1. /\ m \in Seq(Lines) /\ Len(m) = a + 1 + b + (c + 1)
        /\ \A k \in 1 .. a + 1 + b + (c + 1) : m[k] = IF k <= a + 1 + b THEN xf[k] ELSE y[k - (a + 1 + b)]
    <3>1. Len(xf) = a + 1 + b /\ Len(y) = c + 1 /\ xf \in Seq(Lines) /\ y \in Seq(Lines)
      BY <1>5, <1>8
    <3>2. /\ m \in Seq(Lines) /\ Len(m) = Len(xf) + Len(y)
          /\ \A k \in 1 .. Len(xf) + Len(y) : m[k] = IF k <= Len(xf) THEN xf[k] ELSE y[k - Len(xf)]
      BY <3>1, ConcatProperties
    <3>3. QED
      BY <3>1, <3>2
  <2> HIDE DEF m
  <2>2. /\ a + 1 + b + (c + 1) = a + b + c + 2
        /\ \A k \in 1 .. a + 1 + b : k \in 1 .. a + 1 + b + (c + 1) /\ k <= a + 1 + b
    BY <1>1
  <2>3. ASSUME NEW k \in 1 .. c + 1 PROVE m[a + b + 1 + k] = y[k]
    <3>1. PICK p \in 1 .. a + 1 + b + (c + 1) : p = a + b + 1 + k /\ ~(p <= a + 1 + b) /\ p - (a + 1 + b) = k
      BY <1>1
    <3>2. QED
      BY <2>1, <3>1
  <2>4. QED
    BY <2>1, <2>2, <2>3
<1>10. m = ModuleText(name, lines, functions, below)
  BY DEF m, xf, x, y, first, last, ModuleText
<1> HIDE DEF m
<1>11. m[1] = first /\ \A k \in 1 .. a : m[k + 1] = lines[k]
  <2>1. 1 \in 1 .. a + 1 + b /\ 1 \in 1 .. a + 1
    BY <1>1
  <2>2. \A k \in 1 .. a : k + 1 \in 1 .. a + 1 + b /\ k + 1 \in 1 .. a + 1
    BY <1>1
  <2>3. QED
    BY <1>6, <1>8, <1>9, <2>1, <2>2
<1>12. \A k \in 1 .. b : m[a + 1 + k] = functions[k]
  <2>1. \A k \in 1 .. b : a + 1 + k \in 1 .. a + 1 + b
    BY <1>1
  <2>2. QED
    BY <1>8, <1>9, <2>1
<1>13. m[a + b + c + 2] = last /\ \A k \in 1 .. c : m[a + b + 1 + k] = below[k]
  <2>1. c + 1 \in 1 .. c + 1 /\ a + b + 1 + (c + 1) = a + b + c + 2 /\ \A k \in 1 .. c : k \in 1 .. c + 1
    BY <1>1
  <2>2. m[a + b + 1 + (c + 1)] = y[c + 1]
    BY <1>9, <2>1
  <2>3. m[a + b + c + 2] = last
    BY <1>7, <2>1, <2>2
  <2>4. QED
    BY <1>7, <1>9, <2>1, <2>3
<1>14. ASSUME NEW k \in 1 .. a + b + c + 2
       PROVE  \/ k = 1 \/ k = a + b + c + 2
              \/ \E j \in 1 .. a : k = j + 1
              \/ \E j \in 1 .. b : k = a + 1 + j
              \/ \E j \in 1 .. c : k = a + b + 1 + j
  <2>1. \/ k = 1 \/ k = a + b + c + 2
        \/ k - 1 \in 1 .. a /\ k = k - 1 + 1
        \/ k - a - 1 \in 1 .. b /\ k = a + 1 + (k - a - 1)
        \/ k - a - b - 1 \in 1 .. c /\ k = a + b + 1 + (k - a - b - 1)
    BY <1>1
  <2>2. QED
    BY <2>1
<1>15. TextParts(m, name, lines, functions, below)
  BY <1>9, <1>11, <1>12, <1>13, <1>14 DEF TextParts, a, b, c, first, last
<1>16. QED
  BY <1>10, <1>15

LEMMA TextIsDesign ==
  ASSUME NEW name \in Named, NEW lines, NEW functions, NEW below,
         Inside(lines), Inside(functions), Inside(below)
  PROVE  LET m == ModuleText(name, lines, functions, below)
         IN  /\ IsDesign(m) /\ ModuleIds(m) = {1} /\ Module(m, 1) = m
             /\ TextParts(m, name, lines, functions, below)
             /\ m[1] = Line("module", name)
<1> DEFINE m == ModuleText(name, lines, functions, below)
           a == Len(lines)
           b == Len(functions)
           c == Len(below)
           n == a + b + c + 2
<1>1. TextParts(m, name, lines, functions, below)
  BY TextLines DEF Inside
<1> HIDE DEF m
<1>2. a \in Nat /\ b \in Nat /\ c \in Nat /\ n \in Nat /\ n >= 2
  <2>1. a \in Nat /\ b \in Nat /\ c \in Nat
    BY LenProperties DEF Inside
  <2>2. QED
    BY <2>1
<1>3. m \in Seq(Lines) /\ Len(m) = n /\ m[1] = Line("module", name) /\ m[n] = Line("endmodule", name)
  BY <1>1 DEF TextParts
<1>4. m[1].kind = "module" /\ m[n].kind = "endmodule"
  BY <1>3 DEF Line
<1>5. /\ \A j \in 1 .. a : m[j + 1].kind \notin {"module", "endmodule"}
      /\ \A j \in 1 .. b : m[a + 1 + j].kind \notin {"module", "endmodule"}
      /\ \A j \in 1 .. c : m[a + b + 1 + j].kind \notin {"module", "endmodule"}
  BY <1>1 DEF TextParts, Inside
<1>6. \A k \in 1 .. n : \/ k = 1 \/ k = n
                        \/ \E j \in 1 .. a : k = j + 1
                        \/ \E j \in 1 .. b : k = a + 1 + j
                        \/ \E j \in 1 .. c : k = a + b + 1 + j
  BY <1>1 DEF TextParts
<1> HIDE DEF a, b, c, n
<1>7. \A k \in 2 .. n - 1 : k \in 1 .. n /\ k # 1 /\ k # n
  BY <1>2
<1>8. \A k \in 2 .. n - 1 : m[k].kind \notin {"module", "endmodule"}
  BY <1>5, <1>6, <1>7
<1>9. IsDesign(m) /\ ModuleIds(m) = {1} /\ Module(m, 1) = m
  BY <1>2, <1>3, <1>4, <1>8, OneModule
<1>10. QED
  BY <1>1, <1>3, <1>9 DEF m

\* Functions, one after the other.
FunctionBlock(functions) ==
  /\ functions \in Seq(Lines)
  /\ \A k \in 1 .. Len(functions) :
       /\ functions[k].kind \in {"function", "input", "endfunction"}
       /\ functions[k].kind = "function" =>
            /\ k + 1 \in 1 .. Len(functions) /\ functions[k + 1] = In("a", 7)
            /\ k + 2 \in 1 .. Len(functions) /\ functions[k + 2].kind = "endfunction"
       /\ functions[k].kind = "input" =>
            k - 1 \in 1 .. Len(functions) /\ functions[k - 1].kind = "function"
       /\ functions[k].kind = "endfunction" =>
            k - 2 \in 1 .. Len(functions) /\ functions[k - 2].kind = "function"
  /\ \A j, k \in 1 .. Len(functions) :
       functions[j].kind = "function" /\ functions[k].kind = "function" /\ j < k =>
         j + 3 \in 1 .. Len(functions) /\ functions[j + 3].kind = "function"

LEMMA FunctionBlocks ==
  ASSUME DesignAssumption
  PROVE  FunctionBlock(<<>>) /\ \A functions \in Functions : FunctionBlock(functions)
<1>1. FunctionBlock(<<>>)
  <2>1. <<>> \in Seq(Lines) /\ Len(<<>>) = 0
    OBVIOUS
  <2>2. QED
    BY <2>1 DEF FunctionBlock
<1>2. ASSUME NEW functions \in Functions PROVE FunctionBlock(functions)
  <2>1. PICK n \in 0 .. MaxFunctions, e \in EndStyles : functions = FunctionLines(n, e)
    BY <1>2 DEF Functions
  <2> DEFINE x == Line("function", "f")
             y == In("a", 7)
             z == [kind |-> "endfunction", name |-> "f", indented |-> e]
             nth(k) == ((k - 1) % 3) + 1
  <2>2. n \in Nat /\ e \in BOOLEAN
    BY DEF DesignAssumption
  <2>3. x \in Lines /\ y \in Lines /\ z \in Lines
    <3>1. x \in Lines /\ y \in Lines
      BY LinesAreLines DEF Kinds, Named
    <3>2. "endfunction" \in Kinds /\ "f" \in Named
      BY DEF Kinds, Named
    <3>3. z \in [kind : Kinds, name : Named, indented : BOOLEAN]
      BY <2>2, <3>2
    <3>4. QED
      BY <3>1, <3>3 DEF Lines
  <2>4. x.kind = "function" /\ y.kind = "input" /\ z.kind = "endfunction"
    BY DEF Line, In
  <2>5. functions = [k \in 1 .. 3 * n |-> <<x, y, z>>[nth(k)]]
    BY <2>1 DEF FunctionLines
  <2>6. \A k \in 1 .. 3 * n : nth(k) \in {1, 2, 3}
    BY <2>2
  <2>7. ASSUME NEW k \in 1 .. 3 * n, nth(k) = 1
        PROVE  k + 1 \in 1 .. 3 * n /\ nth(k + 1) = 2 /\ k + 2 \in 1 .. 3 * n /\ nth(k + 2) = 3
    BY <2>2, <2>7
  <2>8. ASSUME NEW k \in 1 .. 3 * n, nth(k) = 2
        PROVE  k - 1 \in 1 .. 3 * n /\ nth(k - 1) = 1
    BY <2>2, <2>8
  <2>9. ASSUME NEW k \in 1 .. 3 * n, nth(k) = 3
        PROVE  k - 2 \in 1 .. 3 * n /\ nth(k - 2) = 1
    BY <2>2, <2>9
  <2>10. ASSUME NEW j \in 1 .. 3 * n, NEW k \in 1 .. 3 * n, nth(j) = 1, nth(k) = 1, j < k
         PROVE  j + 3 \in 1 .. 3 * n /\ nth(j + 3) = 1
    BY <2>2, <2>10
  <2> HIDE DEF x, y, z, nth
  <2>11. <<x, y, z>>[1] = x /\ <<x, y, z>>[2] = y /\ <<x, y, z>>[3] = z
    OBVIOUS
  <2>12. ASSUME NEW k \in 1 .. 3 * n
         PROVE  /\ nth(k) = 1 <=> functions[k].kind = "function"
                /\ nth(k) = 2 => functions[k] = y
                /\ nth(k) = 2 <=> functions[k].kind = "input"
                /\ nth(k) = 3 <=> functions[k].kind = "endfunction"
                /\ functions[k] \in Lines
    <3>1. functions[k] = <<x, y, z>>[nth(k)]
      BY <2>5
    <3>2. CASE nth(k) = 1
      BY <2>3, <2>4, <2>11, <3>1, <3>2
    <3>3. CASE nth(k) = 2
      BY <2>3, <2>4, <2>11, <3>1, <3>3
    <3>4. CASE nth(k) = 3
      BY <2>3, <2>4, <2>11, <3>1, <3>4
    <3>5. QED
      BY <2>6, <3>2, <3>3, <3>4
  <2>13. functions \in Seq(Lines) /\ Len(functions) = 3 * n
    <3>1. 3 * n \in Nat
      BY <2>2
    <3>2. functions \in [1 .. 3 * n -> Lines]
      BY <2>5, <2>12
    <3>3. QED
      BY <3>1, <3>2
  <2>14. \A k \in 1 .. 3 * n :
           /\ functions[k].kind \in {"function", "input", "endfunction"}
           /\ functions[k].kind = "function" =>
                /\ k + 1 \in 1 .. 3 * n /\ functions[k + 1] = y
                /\ k + 2 \in 1 .. 3 * n /\ functions[k + 2].kind = "endfunction"
           /\ functions[k].kind = "input" =>
                k - 1 \in 1 .. 3 * n /\ functions[k - 1].kind = "function"
           /\ functions[k].kind = "endfunction" =>
                k - 2 \in 1 .. 3 * n /\ functions[k - 2].kind = "function"
    BY <2>6, <2>7, <2>8, <2>9, <2>12
  <2>15. \A j, k \in 1 .. 3 * n :
           functions[j].kind = "function" /\ functions[k].kind = "function" /\ j < k =>
             j + 3 \in 1 .. 3 * n /\ functions[j + 3].kind = "function"
    BY <2>10, <2>12
  <2>16. QED
    BY <2>13, <2>14, <2>15 DEF FunctionBlock, y
<1>3. QED
  BY <1>1, <1>2

\* What a module of openC910 has above and below its functions.
Above(lines) ==
  /\ lines \in Seq(Lines)
  /\ \A k \in 1 .. Len(lines) : lines[k].kind \in {"input", "output", "posedge", "ifnot", "store"}

Below(lines, name) ==
  /\ lines \in Seq(Lines)
  /\ \A k \in 1 .. Len(lines) :
       /\ lines[k].kind \in {"posedge", "ifnot", "store", "cell"}
       /\ lines[k].kind = "cell" => lines[k].name # name

StartsWithRamPorts(lines) ==
  /\ Len(lines) >= 5
  /\ \A k \in 1 .. 5 : lines[k] = RamPorts[k]
  /\ \A k \in 1 .. Len(lines) : lines[k].kind = "output" => k = 5

LEMMA OpenC910Text ==
  ASSUME NEW name \in Named, NEW lines, NEW functions, NEW below,
         Above(lines), FunctionBlock(functions), Below(below, name),
         \/ StartsWithRamPorts(lines)
         \/ /\ \A k \in 1 .. Len(lines) : lines[k].kind # "store"
            /\ \A k \in 1 .. Len(below) : below[k].kind # "store"
  PROVE  LET m == ModuleText(name, lines, functions, below)
         IN  /\ IsDesign(m) /\ ModuleIds(m) = {1} /\ Module(m, 1) = m
             /\ m[1].name = name /\ OpenC910Module(m)
<1> DEFINE m == ModuleText(name, lines, functions, below)
           a == Len(lines)
           b == Len(functions)
           c == Len(below)
           n == a + b + c + 2
<1>1. Inside(lines) /\ Inside(functions) /\ Inside(below)
  BY DEF Above, Below, FunctionBlock, Inside
<1>2. /\ IsDesign(m) /\ ModuleIds(m) = {1} /\ Module(m, 1) = m
      /\ TextParts(m, name, lines, functions, below)
      /\ m[1] = Line("module", name)
  BY <1>1, TextIsDesign
<1> HIDE DEF m
<1>3. a \in Nat /\ b \in Nat /\ c \in Nat
  BY LenProperties DEF Above, Below, FunctionBlock
<1>4. /\ m \in Seq(Lines) /\ Len(m) = n
      /\ m[1] = Line("module", name) /\ m[n] = Line("endmodule", name)
      /\ \A k \in 1 .. a : m[k + 1] = lines[k]
      /\ \A k \in 1 .. b : m[a + 1 + k] = functions[k]
      /\ \A k \in 1 .. c : m[a + b + 1 + k] = below[k]
      /\ \A k \in 1 .. n :
           \/ k = 1 \/ k = n
           \/ \E j \in 1 .. a : k = j + 1
           \/ \E j \in 1 .. b : k = a + 1 + j
           \/ \E j \in 1 .. c : k = a + b + 1 + j
  BY <1>2 DEF TextParts
<1>5. DOMAIN m = 1 .. n
  BY <1>4, LenProperties
<1>6. /\ \A k \in 1 .. a : lines[k].kind \in {"input", "output", "posedge", "ifnot", "store"}
      /\ \A k \in 1 .. b : functions[k].kind \in {"function", "input", "endfunction"}
      /\ \A k \in 1 .. c : below[k].kind \in {"posedge", "ifnot", "store", "cell"}
  BY DEF Above, Below, FunctionBlock
<1>7. m[1].kind = "module" /\ m[n].kind = "endmodule"
  BY <1>4 DEF Line
<1>9. \A k \in 1 .. c : below[k].kind = "cell" => below[k].name # name
  BY DEF Below
<1> HIDE DEF a, b, c, n
<1>10. \A k \in 1 .. n : \/ m[k].kind = "module" \/ m[k].kind = "endmodule"
                         \/ \E j \in 1 .. a : k = j + 1 /\ m[k] = lines[j]
                         \/ \E j \in 1 .. b : k = a + 1 + j /\ m[k] = functions[j]
                         \/ \E j \in 1 .. c : k = a + b + 1 + j /\ m[k] = below[j]
  BY <1>4, <1>7
<1>11. \A f \in Numbers("function", m) :
         \E j \in 1 .. b : f = a + 1 + j /\ functions[j].kind = "function"
  BY <1>5, <1>6, <1>10 DEF Numbers
<1>12. \A k \in Numbers("store", m) :
         \/ \E j \in 1 .. a : lines[j].kind = "store"
         \/ \E j \in 1 .. c : below[j].kind = "store"
  BY <1>5, <1>6, <1>10 DEF Numbers
<1>13. \A k \in Numbers("output", m) : \E j \in 1 .. a : k = j + 1 /\ lines[j].kind = "output"
  BY <1>5, <1>6, <1>10 DEF Numbers
<1>15. m[1].name = name
  BY <1>4 DEF Line
<1>16. m[1].name \notin Cells(m)
  <2>1. SUFFICES ASSUME NEW k \in 1 .. n, m[k].kind = "cell" PROVE m[k].name # name
    BY <1>5, <1>15 DEF Cells, Names, Of, ToSet
  <2>2. PICK j \in 1 .. c : m[k] = below[j]
    BY <1>6, <1>10, <2>1
  <2>3. QED
    BY <1>9, <2>1, <2>2
<1>17. ASSUME Numbers("store", m) # {}
       PROVE  /\ Len(m) >= 6
              /\ \A k \in 1 .. 5 : m[k + 1] = RamPorts[k]
              /\ Numbers("output", m) = {6}
              /\ \A f \in Numbers("function", m) : f > 6
  <2>1. StartsWithRamPorts(lines)
    <3>1. \/ \E j \in 1 .. a : lines[j].kind = "store"
          \/ \E j \in 1 .. c : below[j].kind = "store"
      BY <1>12, <1>17
    <3>2. QED
      BY <3>1 DEF a, c
  <2>2. /\ a >= 5 /\ (\A k \in 1 .. 5 : lines[k] = RamPorts[k])
        /\ \A k \in 1 .. a : lines[k].kind = "output" => k = 5
    BY <2>1 DEF StartsWithRamPorts, a
  <2>3. Len(m) >= 6 /\ \A k \in 1 .. 5 : k \in 1 .. a
    BY <1>3, <1>4, <2>2 DEF n
  <2>4. \A k \in 1 .. 5 : m[k + 1] = RamPorts[k]
    BY <1>4, <2>2, <2>3
  <2>5. m[6].kind = "output"
    <3>1. 5 \in 1 .. 5 /\ 5 + 1 = 6
      OBVIOUS
    <3>2. m[6] = RamPorts[5]
      BY <2>4, <3>1
    <3>3. QED
      BY <3>2 DEF RamPorts, Out
  <2>6. 6 \in 1 .. n /\ \A k \in Numbers("output", m) : k = 6
    <3>1. \A k \in Numbers("output", m) : k = 5 + 1
      BY <1>13, <2>2
    <3>2. QED
      BY <1>3, <2>2, <3>1 DEF n
  <2>7. Numbers("output", m) = {6}
    BY <1>5, <2>5, <2>6 DEF Numbers
  <2>8. \A f \in Numbers("function", m) : f > 6
    BY <1>3, <1>11, <2>2
  <2>9. QED
    BY <2>3, <2>4, <2>7, <2>8
<1>18. OpenC910Module(m)
  BY <1>16, <1>17 DEF OpenC910Module
<1>19. QED
  BY <1>2, <1>15, <1>18 DEF m

\* The lines of a memory of openC910 outside its functions: one clock, its ports and resets.
ClockedLines ==
  {l \in Lines : /\ l.kind = "posedge" => l.name = "PortAClk"
                 /\ l.kind = "input" => l.name \in RamInputs \cup Resets}

\* A reset is tested right below the clock.
TestsReset(lines) ==
  \E k \in 1 .. Len(lines) :
    /\ k + 1 \in 1 .. Len(lines)
    /\ lines[k].kind = "posedge" /\ lines[k + 1].kind = "ifnot" /\ lines[k + 1].name = "rst_ni"

ClockedParts(lines, below) ==
  /\ lines \in Seq(ClockedLines) /\ below \in Seq(ClockedLines)
  /\ Line("store", "mem") \in ToSet(lines) \cup ToSet(below)
  /\ (\E l \in ToSet(lines) : l.kind = "input" /\ l.name = "rst_ni") =>
       TestsReset(lines) \/ TestsReset(below)

LEMMA ClockedText ==
  ASSUME NEW name \in Named, NEW lines, NEW functions, NEW below,
         Above(lines), FunctionBlock(functions), Below(below, name),
         \/ ClockedParts(lines, below)
         \/ \A l \in ToSet(lines) \cup ToSet(below) : l.kind # "posedge"
  PROVE  ClockedModule(ModuleText(name, lines, functions, below))
<1> DEFINE m == ModuleText(name, lines, functions, below)
           a == Len(lines)
           b == Len(functions)
           c == Len(below)
           n == a + b + c + 2
           F == Numbers("function", m)
<1>1. Inside(lines) /\ Inside(functions) /\ Inside(below)
  BY DEF Above, Below, FunctionBlock, Inside
<1>2. TextParts(m, name, lines, functions, below)
  BY <1>1, TextIsDesign
<1>3. /\ a \in Nat /\ DOMAIN lines = 1 .. a
      /\ b \in Nat
      /\ c \in Nat /\ DOMAIN below = 1 .. c
  BY LenProperties DEF Above, Below, FunctionBlock
<1> HIDE DEF m
<1>4. /\ m \in Seq(Lines) /\ Len(m) = n
      /\ m[1] = Line("module", name) /\ m[n] = Line("endmodule", name)
      /\ \A k \in 1 .. a : m[k + 1] = lines[k]
      /\ \A k \in 1 .. b : m[a + 1 + k] = functions[k]
      /\ \A k \in 1 .. c : m[a + b + 1 + k] = below[k]
      /\ \A k \in 1 .. n :
           \/ k = 1 \/ k = n
           \/ \E j \in 1 .. a : k = j + 1
           \/ \E j \in 1 .. b : k = a + 1 + j
           \/ \E j \in 1 .. c : k = a + b + 1 + j
  BY <1>2 DEF TextParts
<1>5. DOMAIN m = 1 .. n
  BY <1>4, LenProperties
<1>6. /\ \A k \in 1 .. a : lines[k].kind \in {"input", "output", "posedge", "ifnot", "store"}
      /\ \A k \in 1 .. b : functions[k].kind \in {"function", "input", "endfunction"}
      /\ \A k \in 1 .. c : below[k].kind \in {"posedge", "ifnot", "store", "cell"}
  BY DEF Above, Below, FunctionBlock
<1>7. m[1].kind = "module" /\ m[n].kind = "endmodule"
  BY <1>4 DEF Line
<1>8. \A k \in 1 .. b :
        /\ functions[k].kind = "function" =>
             /\ k + 1 \in 1 .. b /\ functions[k + 1] = In("a", 7)
             /\ k + 2 \in 1 .. b /\ functions[k + 2].kind = "endfunction"
        /\ functions[k].kind = "input" =>
             k - 1 \in 1 .. b /\ functions[k - 1].kind = "function"
        /\ functions[k].kind = "endfunction" =>
             k - 2 \in 1 .. b /\ functions[k - 2].kind = "function"
  BY DEF FunctionBlock
<1>9. \A j, k \in 1 .. b :
        functions[j].kind = "function" /\ functions[k].kind = "function" /\ j < k =>
          j + 3 \in 1 .. b /\ functions[j + 3].kind = "function"
  BY DEF FunctionBlock
<1>10. /\ \A k \in 1 .. a : lines[k] \in ToSet(lines)
       /\ \A k \in 1 .. c : below[k] \in ToSet(below)
       /\ \A l \in ToSet(lines) : \E k \in 1 .. a : l = lines[k]
       /\ \A l \in ToSet(below) : \E k \in 1 .. c : l = below[k]
  BY <1>3 DEF ToSet
<1> HIDE DEF a, b, c, n
<1>11. /\ \A k \in 1 .. a : k + 1 \in 1 .. n
       /\ \A k \in 1 .. b : a + 1 + k \in 1 .. n
       /\ \A k \in 1 .. c : a + b + 1 + k \in 1 .. n
  BY <1>3 DEF n
<1>12. \A k \in 1 .. n : \/ m[k].kind = "module" \/ m[k].kind = "endmodule"
                         \/ \E j \in 1 .. a : k = j + 1 /\ m[k] = lines[j]
                         \/ \E j \in 1 .. b : k = a + 1 + j /\ m[k] = functions[j]
                         \/ \E j \in 1 .. c : k = a + b + 1 + j /\ m[k] = below[j]
  BY <1>4, <1>7
<1>13. \A f \in F : \E j \in 1 .. b : f = a + 1 + j /\ functions[j].kind = "function"
  BY <1>5, <1>6, <1>12 DEF Numbers
<1>14. \A j \in 1 .. b : functions[j].kind = "function" => a + 1 + j \in F
  BY <1>4, <1>5, <1>11 DEF Numbers
<1>15. \A e \in Numbers("endfunction", m) : \E j \in 1 .. b : e = a + 1 + j /\ functions[j].kind = "endfunction"
  BY <1>5, <1>6, <1>12 DEF Numbers
<1>16. \A j \in 1 .. b : functions[j].kind = "endfunction" => a + 1 + j \in Numbers("endfunction", m)
  BY <1>4, <1>5, <1>11 DEF Numbers
<1>17. \A k \in Numbers("input", m) :
         \/ \E j \in 1 .. a : k = j + 1 /\ m[k] = lines[j]
         \/ \E j \in 1 .. b : k = a + 1 + j /\ m[k] = functions[j]
  BY <1>5, <1>6, <1>12 DEF Numbers
<1>18. \A k \in Numbers("posedge", m) : m[k] \in ToSet(lines) \cup ToSet(below) /\ m[k].kind = "posedge"
  BY <1>5, <1>6, <1>10, <1>12 DEF Numbers
<1> HIDE DEF F
<1>19. ASSUME NEW f \in F
       PROVE  f + 1 \in DOMAIN m /\ m[f + 1] = In("a", 7) /\ f + 2 \in Numbers("endfunction", m)
  <2>1. PICK j \in 1 .. b : f = a + 1 + j /\ functions[j].kind = "function"
    BY <1>13
  <2>2. /\ j + 1 \in 1 .. b /\ functions[j + 1] = In("a", 7)
        /\ j + 2 \in 1 .. b /\ functions[j + 2].kind = "endfunction"
    BY <1>8, <2>1
  <2>3. f + 1 = a + 1 + (j + 1) /\ f + 2 = a + 1 + (j + 2)
    BY <1>3, <2>1
  <2>4. a + 1 + (j + 1) \in 1 .. n /\ m[a + 1 + (j + 1)] = In("a", 7)
    BY <1>4, <1>11, <2>2
  <2>5. a + 1 + (j + 2) \in Numbers("endfunction", m)
    BY <1>16, <2>2
  <2>6. QED
    BY <1>5, <2>3, <2>4, <2>5
<1>20. ASSUME NEW e \in Numbers("endfunction", m)
       PROVE  e - 2 \in F
  <2>1. PICK j \in 1 .. b : e = a + 1 + j /\ functions[j].kind = "endfunction"
    BY <1>15
  <2>2. j - 2 \in 1 .. b /\ functions[j - 2].kind = "function"
    BY <1>8, <2>1
  <2>3. e - 2 = a + 1 + (j - 2)
    BY <1>3, <2>1
  <2>4. a + 1 + (j - 2) \in F
    BY <1>14, <2>2
  <2>5. QED
    BY <2>3, <2>4
<1>21. ASSUME NEW f \in F, NEW g \in F, f < g
       PROVE  f + 3 \in F
  <2>1. PICK j \in 1 .. b : f = a + 1 + j /\ functions[j].kind = "function"
    BY <1>13
  <2>2. PICK k \in 1 .. b : g = a + 1 + k /\ functions[k].kind = "function"
    BY <1>13
  <2>3. j < k
    BY <1>3, <1>21, <2>1, <2>2
  <2>4. j + 3 \in 1 .. b /\ functions[j + 3].kind = "function"
    BY <1>9, <2>1, <2>2, <2>3
  <2>5. f + 3 = a + 1 + (j + 3)
    BY <1>3, <2>1
  <2>6. a + 1 + (j + 3) \in F
    BY <1>14, <2>4
  <2>7. QED
    BY <2>5, <2>6
<1>22. FunctionsInBlock(m)
  BY <1>19, <1>20, <1>21 DEF FunctionsInBlock, F
<1>23. ASSUME NEW k \in Numbers("input", m), ~ \E j \in 1 .. a : k = j + 1 /\ m[k] = lines[j]
       PROVE  k - 1 \in F /\ m[k].name = "a"
  <2>1. PICK j \in 1 .. b : k = a + 1 + j /\ m[k] = functions[j]
    BY <1>17, <1>23
  <2>2. functions[j].kind = "input"
    BY <2>1 DEF Numbers
  <2>3. j - 1 \in 1 .. b /\ functions[j - 1].kind = "function"
    BY <1>8, <2>2
  <2>4. k - 1 = a + 1 + (j - 1) /\ k - 1 + 1 = k
    BY <1>3, <2>1
  <2>5. a + 1 + (j - 1) \in F
    BY <1>14, <2>3
  <2>6. m[k] = In("a", 7)
    BY <1>19, <2>4, <2>5
  <2>7. QED
    BY <2>4, <2>5, <2>6 DEF In
<1>24. ASSUME Numbers("posedge", m) # {}
       PROVE  /\ Numbers("store", m) # {}
              /\ \A k \in Numbers("posedge", m) : m[k].name = "PortAClk"
              /\ \A k \in Numbers("input", m) : m[k].name \in RamInputs \cup Resets \/ k - 1 \in F
              /\ "rst_ni" \in Names("input", ToSet(m)) => ResetTested(m)
  <2>1. ClockedParts(lines, below)
    BY <1>18, <1>24
  <2>2. lines \in Seq(ClockedLines) /\ below \in Seq(ClockedLines)
    BY <2>1 DEF ClockedParts
  <2>3. (\A k \in 1 .. a : lines[k] \in ClockedLines) /\ (\A k \in 1 .. c : below[k] \in ClockedLines)
    BY <2>2, ElementOfSeq DEF a, c
  <2>4. \A k \in Numbers("posedge", m) : m[k].name = "PortAClk"
    BY <1>10, <1>18, <2>3 DEF ClockedLines
  <2>5. Numbers("store", m) # {}
    <3>1. Line("store", "mem").kind = "store"
      BY DEF Line
    <3>2. \/ \E k \in 1 .. a : lines[k].kind = "store"
          \/ \E k \in 1 .. c : below[k].kind = "store"
      BY <1>10, <2>1, <3>1 DEF ClockedParts
    <3>3. \E k \in 1 .. n : m[k].kind = "store"
      BY <1>4, <1>11, <3>2
    <3>4. QED
      BY <1>5, <3>3 DEF Numbers
  <2>6. ASSUME NEW k \in Numbers("input", m)
        PROVE  m[k].name \in RamInputs \cup Resets \/ k - 1 \in F
    <3>1. CASE \E j \in 1 .. a : k = j + 1 /\ m[k] = lines[j]
      <4>1. m[k].kind = "input"
        BY DEF Numbers
      <4>2. QED
        BY <2>3, <3>1, <4>1 DEF ClockedLines
    <3>2. QED
      BY <1>23, <3>1
  <2>7. ASSUME "rst_ni" \in Names("input", ToSet(m))
        PROVE  ResetTested(m)
    <3>1. PICK k \in Numbers("input", m) : m[k].name = "rst_ni"
      BY <2>7, NamesOfLines
    <3>2. PICK j \in 1 .. a : m[k] = lines[j]
      BY <1>23, <3>1
    <3>3. \E l \in ToSet(lines) : l.kind = "input" /\ l.name = "rst_ni"
      BY <1>10, <3>1, <3>2 DEF Numbers
    <3>4. CASE TestsReset(lines)
      <4>1. PICK i \in 1 .. a :
              /\ i + 1 \in 1 .. a
              /\ lines[i].kind = "posedge" /\ lines[i + 1].kind = "ifnot" /\ lines[i + 1].name = "rst_ni"
        BY <3>4 DEF TestsReset, a
      <4> DEFINE p == i + 1
      <4>2. p \in 1 .. n /\ m[p] = lines[i]
        BY <1>4, <1>11
      <4>3. p + 1 \in 1 .. n /\ m[p + 1] = lines[i + 1]
        BY <1>4, <1>11, <4>1
      <4>4. \A f \in F : p + 1 < f
        <5>1. TAKE f \in F
        <5>2. PICK h \in 1 .. b : f = a + 1 + h
          BY <1>13
        <5>3. QED
          BY <1>3, <4>1, <5>2
      <4> HIDE DEF p
      <4>5. QED
        BY <1>5, <4>1, <4>2, <4>3, <4>4 DEF ResetTested, F
    <3>5. CASE TestsReset(below)
      <4>1. PICK i \in 1 .. c :
              /\ i + 1 \in 1 .. c
              /\ below[i].kind = "posedge" /\ below[i + 1].kind = "ifnot" /\ below[i + 1].name = "rst_ni"
        BY <3>5 DEF TestsReset, c
      <4> DEFINE p == a + b + 1 + i
      <4>2. p \in 1 .. n /\ m[p] = below[i]
        BY <1>4, <1>11
      <4>3. p + 1 \in 1 .. n /\ m[p + 1] = below[i + 1]
        <5>1. p + 1 = a + b + 1 + (i + 1)
          BY <1>3
        <5>2. a + b + 1 + (i + 1) \in 1 .. n /\ m[a + b + 1 + (i + 1)] = below[i + 1]
          BY <1>4, <1>11, <4>1
        <5>3. QED
          BY <5>1, <5>2
      <4>4. \A f \in F : f + 2 < p
        <5>1. TAKE f \in F
        <5>2. PICK h \in 1 .. b : f = a + 1 + h /\ functions[h].kind = "function"
          BY <1>13
        <5>3. h + 2 \in 1 .. b
          BY <1>8, <5>2
        <5>4. QED
          BY <1>3, <4>1, <5>2, <5>3
      <4> HIDE DEF p
      <4>5. QED
        BY <1>5, <4>1, <4>2, <4>3, <4>4 DEF ResetTested, F
    <3>6. QED
      BY <2>1, <3>3, <3>4, <3>5 DEF ClockedParts
  <2>8. QED
    BY <2>4, <2>5, <2>6, <2>7
<1>25. QED
  BY <1>22, <1>24 DEF ClockedModule, F, m

LinesOf(kinds) == {l \in Lines : l.kind \in kinds}

RestKinds == {"input", "posedge", "ifnot", "store"}
StoreKinds == {"posedge", "ifnot", "store"}
PortKinds == {"input", "output"}

LEMMA LinesOfKinds ==
  \A kinds :
    /\ \A kind \in Kinds \cap kinds, name \in Named : Line(kind, name) \in LinesOf(kinds)
    /\ "input" \in kinds => \A p \in Named, msb \in Int : In(p, msb) \in LinesOf(kinds)
    /\ "output" \in kinds => \A p \in Named, msb \in Int : Out(p, msb) \in LinesOf(kinds)
<1>1. /\ \A kind, name : Line(kind, name).kind = kind
      /\ \A p, msb : In(p, msb).kind = "input" /\ Out(p, msb).kind = "output"
  BY DEF Line, In, Out
<1>2. QED
  BY <1>1, LinesAreLines DEF LinesOf

LEMMA RamPortLines ==
  /\ RamPorts \in Seq(LinesOf(PortKinds)) /\ Len(RamPorts) = 5
  /\ \A k \in 1 .. 5 : RamPorts[k].kind = "output" => k = 5
<1> DEFINE p1 == In("PortAClk", 0)
           p2 == In("PortAAddr", 2)
           p3 == In("PortADataIn", 7)
           p4 == In("PortAWriteEnable", 0)
           p5 == Out("PortADataOut", 7)
           L == LinesOf(PortKinds)
<1>1. p1 \in L /\ p2 \in L /\ p3 \in L /\ p4 \in L /\ p5 \in L
  <2>1. {"PortAClk", "PortAAddr", "PortADataIn", "PortAWriteEnable", "PortADataOut"} \subseteq Named
    BY DEF Named
  <2>2. QED
    BY <2>1, LinesOfKinds DEF PortKinds
<1>2. p1.kind = "input" /\ p2.kind = "input" /\ p3.kind = "input" /\ p4.kind = "input"
  BY DEF In
<1>3. RamPorts = <<p1, p2, p3, p4, p5>>
  BY DEF RamPorts
<1> HIDE DEF p1, p2, p3, p4, p5, L
<1>4. /\ RamPorts \in Seq(L) /\ Len(RamPorts) = 5
      /\ RamPorts[1] = p1 /\ RamPorts[2] = p2 /\ RamPorts[3] = p3 /\ RamPorts[4] = p4
  BY <1>1, <1>3
<1>5. \A k \in 1 .. 5 : k = 1 \/ k = 2 \/ k = 3 \/ k = 4 \/ k = 5
  OBVIOUS
<1>6. \A k \in 1 .. 5 : RamPorts[k].kind = "output" => k = 5
  BY <1>2, <1>4, <1>5
<1>7. QED
  BY <1>4, <1>6 DEF L

LEMMA RamPortNames ==
  /\ RamPorts[1] = In("PortAClk", 0) /\ RamPorts[2] = In("PortAAddr", 2)
  /\ RamPorts[3] = In("PortADataIn", 7) /\ RamPorts[4] = In("PortAWriteEnable", 0)
  /\ RamPorts[5] = Out("PortADataOut", 7)
  BY DEF RamPorts

LEMMA StoreLines ==
  ASSUME NEW resets
  PROVE  Store(resets) \in Seq(LinesOf(StoreKinds))
<1> DEFINE L == LinesOf(StoreKinds)
           x == <<Line("posedge", "PortAClk")>>
           y == IF In("rst_ni", 0) \in ToSet(resets) THEN <<Line("ifnot", "rst_ni")>> ELSE <<>>
           z == <<Line("store", "mem")>>
<1>1. Line("posedge", "PortAClk") \in L /\ Line("ifnot", "rst_ni") \in L /\ Line("store", "mem") \in L
  BY LinesOfKinds DEF StoreKinds, Kinds, Named
<1> HIDE DEF L
<1>2. x \in Seq(L) /\ y \in Seq(L) /\ z \in Seq(L)
  <2>1. <<>> \in Seq(L)
    BY EmptySeq
  <2>2. x \in Seq(L) /\ z \in Seq(L) /\ <<Line("ifnot", "rst_ni")>> \in Seq(L)
    BY <1>1
  <2>3. QED
    BY <2>1, <2>2
<1>3. Store(resets) = x \o y \o z
  BY DEF Store
<1> HIDE DEF x, y, z
<1>4. x \o y \in Seq(L)
  BY <1>2, ConcatProperties
<1>5. x \o y \o z \in Seq(L)
  BY <1>2, <1>4, ConcatProperties
<1>6. QED
  BY <1>3, <1>5 DEF L

\* Sequences of lines of some kinds.
LEMMA OfKinds ==
  ASSUME NEW kinds, NEW s \in Seq(LinesOf(kinds))
  PROVE  /\ s \in Seq(Lines)
         /\ \A k \in 1 .. Len(s) : s[k] \in Lines /\ s[k].kind \in kinds
         /\ \A l \in ToSet(s) : l.kind \in kinds
<1>1. LinesOf(kinds) \subseteq Lines
  BY DEF LinesOf
<1>2. s \in Seq(Lines)
  BY <1>1, SeqMonotonic
<1>3. \A k \in 1 .. Len(s) : s[k] \in LinesOf(kinds)
  BY ElementOfSeq
<1>4. \A l \in ToSet(s) : l \in LinesOf(kinds)
  BY <1>3, LenProperties DEF ToSet
<1>5. QED
  BY <1>2, <1>3, <1>4 DEF LinesOf

LEMMA MoreKinds ==
  ASSUME NEW kinds, NEW more, kinds \subseteq more, NEW s \in Seq(LinesOf(kinds))
  PROVE  s \in Seq(LinesOf(more))
<1>1. LinesOf(kinds) \subseteq LinesOf(more)
  BY DEF LinesOf
<1>2. QED
  BY <1>1, SeqMonotonic

LEMMA JoinedLines ==
  ASSUME NEW S, NEW a \in Seq(S), NEW b \in Seq(S)
  PROVE  /\ a \o b \in Seq(S)
         /\ ToSet(a \o b) = ToSet(a) \cup ToSet(b)
         /\ TestsReset(b) => TestsReset(a \o b)
<1> DEFINE s == a \o b
           n == Len(a)
<1>1. n \in Nat /\ DOMAIN a = 1 .. n /\ Len(b) \in Nat /\ DOMAIN b = 1 .. Len(b)
  BY LenProperties
<1>2. /\ s \in Seq(S) /\ Len(s) = n + Len(b)
      /\ \A k \in 1 .. n + Len(b) : s[k] = IF k <= n THEN a[k] ELSE b[k - n]
  BY ConcatProperties
<1> HIDE DEF s, n
<1>3. DOMAIN s = 1 .. n + Len(b)
  BY <1>2, LenProperties
<1>4. \A k \in 1 .. n : k \in DOMAIN s /\ s[k] = a[k]
  BY <1>1, <1>2, <1>3
<1>5. ASSUME NEW k \in 1 .. Len(b) PROVE n + k \in DOMAIN s /\ s[n + k] = b[k]
  <2>1. PICK p \in 1 .. n + Len(b) : p = n + k /\ ~(p <= n) /\ p - n = k
    BY <1>1
  <2>2. s[p] = b[p - n]
    BY <1>2, <2>1
  <2>3. QED
    BY <1>3, <2>1, <2>2
<1>6. ToSet(a) \cup ToSet(b) \subseteq ToSet(s)
  BY <1>1, <1>4, <1>5 DEF ToSet
<1>7. ToSet(s) \subseteq ToSet(a) \cup ToSet(b)
  <2>1. SUFFICES ASSUME NEW k \in DOMAIN s PROVE s[k] \in ToSet(a) \cup ToSet(b)
    BY DEF ToSet
  <2>2. CASE k \in 1 .. n
    BY <1>1, <1>4, <2>2 DEF ToSet
  <2>3. CASE k - n \in 1 .. Len(b) /\ ~(k <= n)
    BY <1>1, <1>2, <1>3, <2>3 DEF ToSet
  <2>4. QED
    BY <1>1, <1>3, <2>2, <2>3
<1>8. ASSUME TestsReset(b) PROVE TestsReset(s)
  <2>1. PICK k \in 1 .. Len(b) :
          /\ k + 1 \in 1 .. Len(b)
          /\ b[k].kind = "posedge" /\ b[k + 1].kind = "ifnot" /\ b[k + 1].name = "rst_ni"
    BY <1>8 DEF TestsReset
  <2> DEFINE p == n + k
  <2>2. p \in 1 .. Len(s) /\ s[p] = b[k]
    BY <1>2, <1>3, <1>5
  <2>3. p + 1 = n + (k + 1)
    BY <1>1, <2>1
  <2>4. n + (k + 1) \in 1 .. Len(s) /\ s[n + (k + 1)] = b[k + 1]
    BY <1>2, <1>3, <1>5, <2>1
  <2>5. p + 1 \in 1 .. Len(s) /\ s[p + 1] = b[k + 1]
    BY <2>3, <2>4
  <2> HIDE DEF p
  <2>6. QED
    BY <2>1, <2>2, <2>5 DEF TestsReset
<1>9. QED
  BY <1>2, <1>6, <1>7, <1>8 DEF s

LEMMA OneMore == ASSUME NEW S, NEW s \in Seq(S), NEW e \in S
  PROVE /\ s \o <<e>> \in Seq(S) /\ Len(s \o <<e>>) = Len(s) + 1
        /\ \A k \in 1 .. Len(s) : (s \o <<e>>)[k] = s[k]
        /\ (s \o <<e>>)[Len(s) + 1] = e
<1>1. <<e>> \in Seq(S) /\ Len(<<e>>) = 1 /\ <<e>>[1] = e
  BY OneLine
<1>2. Len(s) \in Nat
  BY LenProperties
<1> DEFINE n == Len(s)
           t == <<e>>
           r == s \o <<e>>
<1>3. r \in Seq(S) /\ Len(r) = n + 1
      /\ \A k \in 1 .. n + 1 : r[k] = IF k <= n THEN s[k] ELSE t[k - n]
  <2>1. r \in Seq(S) /\ Len(r) = n + Len(t)
      /\ \A k \in 1 .. n + Len(t) : r[k] = IF k <= n THEN s[k] ELSE t[k - n]
    BY <1>1, ConcatProperties
  <2>2. QED
    BY <1>1, <2>1
<1> HIDE DEF n, r, t
<1>4. PICK last \in 1 .. n + 1 : last = n + 1 /\ ~(last <= n) /\ last - n = 1
  BY <1>2 DEF n
<1>5. \A k \in 1 .. n : r[k] = s[k]
  BY <1>2, <1>3 DEF n
<1>6. r[n + 1] = e
  <2>1. r[last] = t[last - n]
    BY <1>3, <1>4
  <2>2. QED
    BY <1>1, <1>4, <2>1 DEF t
<1>7. QED
  BY <1>3, <1>5, <1>6 DEF n, r

LEMMA ThreeLines ==
  ASSUME NEW S, NEW x \in S, NEW y \in S, NEW z \in S
  PROVE  LET t == <<x>> \o <<y>> \o <<z>>
         IN  t \in Seq(S) /\ Len(t) = 3 /\ t[1] = x /\ t[2] = y /\ t[3] = z
<1>1. <<x>> \in Seq(S) /\ Len(<<x>>) = 1 /\ <<x>>[1] = x
  BY OneLine
<1>2. PICK u \in Seq(S) : u = <<x>> \o <<y>> /\ Len(u) = 2 /\ u[1] = x /\ u[2] = y
  <2>1. 1 + 1 = 2 /\ 1 \in 1 .. 1
    OBVIOUS
  <2>2. /\ <<x>> \o <<y>> \in Seq(S) /\ Len(<<x>> \o <<y>>) = Len(<<x>>) + 1
        /\ \A k \in 1 .. Len(<<x>>) : (<<x>> \o <<y>>)[k] = <<x>>[k]
        /\ (<<x>> \o <<y>>)[Len(<<x>>) + 1] = y
    BY <1>1, OneMore
  <2>3. QED
    BY <1>1, <2>1, <2>2
<1>3. /\ u \o <<z>> \in Seq(S) /\ Len(u \o <<z>>) = Len(u) + 1
      /\ \A k \in 1 .. Len(u) : (u \o <<z>>)[k] = u[k]
      /\ (u \o <<z>>)[Len(u) + 1] = z
  BY OneMore
<1>4. Len(u) + 1 = 3 /\ 1 \in 1 .. Len(u) /\ 2 \in 1 .. Len(u)
  BY <1>2
<1>5. QED
  BY <1>2, <1>3, <1>4

LEMMA StoreParts ==
  ASSUME NEW resets
  PROVE  /\ Store(resets) \in Seq(ClockedLines)
         /\ Line("store", "mem") \in ToSet(Store(resets))
         /\ \A l \in ToSet(Store(resets)) : l.kind # "input"
         /\ In("rst_ni", 0) \in ToSet(resets) => TestsReset(Store(resets))
<1> DEFINE p == Line("posedge", "PortAClk")
           q == Line("ifnot", "rst_ni")
           s == Line("store", "mem")
           st == Store(resets)
<1>1. /\ p.kind = "posedge" /\ p.name = "PortAClk"
      /\ q.kind = "ifnot" /\ q.name = "rst_ni" /\ s.kind = "store"
  BY DEF Line
<1>2. p \in ClockedLines /\ q \in ClockedLines /\ s \in ClockedLines
  <2>1. p \in Lines /\ q \in Lines /\ s \in Lines
    BY LinesAreLines DEF Kinds, Named
  <2> HIDE DEF p, q, s
  <2>2. QED
    BY <1>1, <2>1 DEF ClockedLines
<1>3. st = <<p>> \o (IF In("rst_ni", 0) \in ToSet(resets) THEN <<q>> ELSE <<>>) \o <<s>>
  BY DEF Store
<1> HIDE DEF p, q, s, st
<1>4. CASE In("rst_ni", 0) \in ToSet(resets)
  <2>1. st = <<p>> \o <<q>> \o <<s>>
    <3>1. (IF In("rst_ni", 0) \in ToSet(resets) THEN <<q>> ELSE <<>>) = <<q>>
      BY <1>4
    <3>2. QED
      BY <1>3, <3>1
  <2>2. st \in Seq(ClockedLines) /\ Len(st) = 3 /\ st[1] = p /\ st[2] = q /\ st[3] = s
    <3>1. LET t == <<p>> \o <<q>> \o <<s>>
          IN  t \in Seq(ClockedLines) /\ Len(t) = 3 /\ t[1] = p /\ t[2] = q /\ t[3] = s
      BY <1>2, ThreeLines
    <3>2. QED
      BY <2>1, <3>1
  <2>3. DOMAIN st = 1 .. 3
    BY <2>2, LenProperties
  <2>4. s \in ToSet(st) /\ \A l \in ToSet(st) : l \in {p, q, s}
    <3>1. 3 \in 1 .. 3 /\ \A k \in 1 .. 3 : k = 1 \/ k = 2 \/ k = 3
      OBVIOUS
    <3>2. QED
      BY <2>2, <2>3, <3>1 DEF ToSet
  <2>5. TestsReset(st)
    <3>1. 1 \in 1 .. 3 /\ 1 + 1 = 2 /\ 2 \in 1 .. 3
      OBVIOUS
    <3>2. QED
      BY <1>1, <2>2, <3>1 DEF TestsReset
  <2>6. QED
    BY <1>1, <2>2, <2>4, <2>5 DEF st, s
<1>5. CASE In("rst_ni", 0) \notin ToSet(resets)
  <2>1. st = <<p>> \o <<s>>
    BY <1>2, <1>3, <1>5, OneLine, ConcatEmptySeq
  <2>2. st \in Seq(ClockedLines) /\ Len(st) = 2 /\ st[1] = p /\ st[2] = s
    BY <1>2, <2>1, OneLine, OneMore
  <2>3. DOMAIN st = 1 .. 2
    BY <2>2, LenProperties
  <2>4. s \in ToSet(st) /\ \A l \in ToSet(st) : l \in {p, s}
    <3>1. 2 \in 1 .. 2 /\ \A k \in 1 .. 2 : k = 1 \/ k = 2
      OBVIOUS
    <3>2. QED
      BY <2>2, <2>3, <3>1 DEF ToSet
  <2>5. QED
    BY <1>1, <1>5, <2>2, <2>4 DEF st, s
<1>6. QED
  BY <1>4, <1>5

LEMMA RamPortsClocked ==
  /\ RamPorts \in Seq(ClockedLines)
  /\ \A l \in ToSet(RamPorts) : l.name # "rst_ni" /\ l.kind # "posedge"
<1>1. RamPorts \in Seq(Lines) /\ Len(RamPorts) = 5 /\ \A k \in 1 .. 5 : RamPorts[k].kind \in PortKinds
  BY RamPortLines, OfKinds
<1>2. DOMAIN RamPorts = 1 .. 5
  BY <1>1, LenProperties
<1>3. \A k \in 1 .. 5 : RamPorts[k].name \in RamInputs \cup {"PortADataOut"} /\ (RamPorts[k].kind = "input" => RamPorts[k].name \in RamInputs)
  <2>1. \A k \in 1 .. 5 : k = 1 \/ k = 2 \/ k = 3 \/ k = 4 \/ k = 5
    OBVIOUS
  <2>2. /\ RamPorts[1].name = "PortAClk" /\ RamPorts[2].name = "PortAAddr"
        /\ RamPorts[3].name = "PortADataIn" /\ RamPorts[4].name = "PortAWriteEnable"
        /\ RamPorts[5].name = "PortADataOut" /\ RamPorts[5].kind = "output"
    BY RamPortNames DEF In, Out
  <2>3. QED
    BY <2>1, <2>2 DEF RamInputs
<1>4. \A k \in 1 .. 5 : RamPorts[k] \in ClockedLines
  <2>1. \A k \in 1 .. 5 : RamPorts[k] \in Lines
    BY <1>1, ElementOfSeq
  <2>2. QED
    BY <1>1, <1>3, <2>1 DEF ClockedLines, PortKinds
<1>5. RamPorts \in Seq(ClockedLines)
  <2>1. RamPorts \in [1 .. 5 -> ClockedLines]
    BY <1>1, <1>2, <1>4, LenProperties
  <2>2. QED
    BY <2>1, SeqDef
<1>6. \A l \in ToSet(RamPorts) : \E k \in 1 .. 5 : l = RamPorts[k]
  BY <1>2 DEF ToSet
<1>7. QED
  BY <1>1, <1>3, <1>5, <1>6 DEF RamInputs, PortKinds

\* The resets of a memory, then perhaps its array.
LEMMA ClockedRest ==
  ASSUME NEW resets \in Seq(ClockedLines),
         \A l \in ToSet(resets) : l.kind = "input" /\ l.name = "rst_ni" => l = In("rst_ni", 0),
         NEW lines, NEW below,
         \/ lines = RamPorts \o resets /\ below = Store(resets)
         \/ lines = RamPorts \o (resets \o Store(resets)) /\ below \in Seq(ClockedLines)
  PROVE  ClockedParts(lines, below)
<1> DEFINE st == Store(resets)
<1>1. /\ st \in Seq(ClockedLines) /\ Line("store", "mem") \in ToSet(st)
      /\ \A l \in ToSet(st) : l.kind # "input"
      /\ In("rst_ni", 0) \in ToSet(resets) => TestsReset(st)
  BY StoreParts
<1>2. RamPorts \in Seq(ClockedLines) /\ \A l \in ToSet(RamPorts) : l.name # "rst_ni"
  BY RamPortsClocked
<1> HIDE DEF st
<1>3. CASE lines = RamPorts \o resets /\ below = st
  <2>1. lines \in Seq(ClockedLines) /\ ToSet(lines) = ToSet(RamPorts) \cup ToSet(resets)
    BY <1>2, <1>3, JoinedLines
  <2>2. (\E l \in ToSet(lines) : l.kind = "input" /\ l.name = "rst_ni") => In("rst_ni", 0) \in ToSet(resets)
    BY <1>2, <2>1
  <2>3. QED
    BY <1>1, <1>3, <2>1, <2>2 DEF ClockedParts
<1>4. CASE lines = RamPorts \o (resets \o st) /\ below \in Seq(ClockedLines)
  <2>1. PICK rest \in Seq(ClockedLines) :
          /\ rest = resets \o st
          /\ ToSet(rest) = ToSet(resets) \cup ToSet(st)
          /\ TestsReset(st) => TestsReset(rest)
    BY <1>1, JoinedLines
  <2>2. lines = RamPorts \o rest
    BY <1>4, <2>1
  <2>3. /\ lines \in Seq(ClockedLines) /\ ToSet(lines) = ToSet(RamPorts) \cup ToSet(rest)
        /\ TestsReset(rest) => TestsReset(lines)
    BY <1>2, <2>2, JoinedLines
  <2>4. (\E l \in ToSet(lines) : l.kind = "input" /\ l.name = "rst_ni") => In("rst_ni", 0) \in ToSet(resets)
    BY <1>1, <1>2, <2>1, <2>3
  <2>5. QED
    BY <1>1, <1>4, <2>1, <2>3, <2>4 DEF ClockedParts
<1>5. QED
  BY <1>3, <1>4 DEF st

LEMMA ResetsClocked ==
  /\ In("taint_meta_reset", 0) \in ClockedLines /\ In("rst_ni", 0) \in ClockedLines
  /\ <<>> \in Seq(ClockedLines) /\ ToSet(<<>>) = {}
<1>1. In("taint_meta_reset", 0) \in Lines /\ In("rst_ni", 0) \in Lines
  BY LinesAreLines DEF Named
<1>2. \A p : In(p, 0).kind = "input" /\ In(p, 0).name = p
  BY DEF In
<1>3. <<>> \in Seq(ClockedLines) /\ ToSet(<<>>) = {}
  BY EmptySeq DEF ToSet
<1>4. QED
  BY <1>1, <1>2, <1>3 DEF ClockedLines, Resets

LEMMA ResetChoices ==
  ASSUME NEW resets \in {<<>>, <<In("taint_meta_reset", 0)>>,
                         <<In("rst_ni", 0), In("taint_meta_reset", 0)>>}
  PROVE  /\ resets \in Seq(ClockedLines)
         /\ \A l \in ToSet(resets) : l.kind = "input" /\ l.name = "rst_ni" => l = In("rst_ni", 0)
<1> DEFINE x == In("taint_meta_reset", 0)
           y == In("rst_ni", 0)
<1>1. x \in ClockedLines /\ y \in ClockedLines /\ x.name # "rst_ni"
  BY ResetsClocked DEF In
<1> HIDE DEF x, y
<1>2. CASE resets = <<>>
  BY <1>2, ResetsClocked
<1>3. CASE resets = <<x>>
  <2>1. resets \in Seq(ClockedLines) /\ Len(resets) = 1 /\ resets[1] = x
    BY <1>1, <1>3
  <2>2. DOMAIN resets = 1 .. 1 /\ \A k \in 1 .. 1 : k = 1
    BY <2>1, LenProperties
  <2>3. \A l \in ToSet(resets) : l = x
    BY <2>1, <2>2 DEF ToSet
  <2>4. QED
    BY <1>1, <2>1, <2>3
<1>4. CASE resets = <<y, x>>
  <2>1. resets \in Seq(ClockedLines) /\ Len(resets) = 2 /\ resets[1] = y /\ resets[2] = x
    BY <1>1, <1>4
  <2>2. DOMAIN resets = 1 .. 2 /\ \A k \in 1 .. 2 : k = 1 \/ k = 2
    BY <2>1, LenProperties
  <2>3. \A l \in ToSet(resets) : l = x \/ l = y
    BY <2>1, <2>2 DEF ToSet
  <2>4. QED
    BY <1>1, <2>1, <2>3 DEF y
<1>5. QED
  BY <1>2, <1>3, <1>4 DEF x, y

LEMMA OnRamPorts ==
  ASSUME NEW rest \in Seq(LinesOf(RestKinds))
  PROVE  Above(RamPorts \o rest) /\ StartsWithRamPorts(RamPorts \o rest)
<1> DEFINE s == RamPorts \o rest
           r == Len(rest)
<1>1. /\ RamPorts \in Seq(Lines) /\ Len(RamPorts) = 5
      /\ \A k \in 1 .. 5 : RamPorts[k].kind \in PortKinds
  BY RamPortLines, OfKinds
<1>2. rest \in Seq(Lines) /\ r \in Nat /\ \A k \in 1 .. r : rest[k].kind \in RestKinds
  BY OfKinds, LenProperties
<1>3. /\ s \in Seq(Lines) /\ Len(s) = 5 + r
      /\ \A k \in 1 .. 5 + r : s[k] = IF k <= 5 THEN RamPorts[k] ELSE rest[k - 5]
  <2>1. /\ s \in Seq(Lines) /\ Len(s) = Len(RamPorts) + Len(rest)
        /\ \A k \in 1 .. Len(RamPorts) + Len(rest) :
             s[k] = IF k <= Len(RamPorts) THEN RamPorts[k] ELSE rest[k - Len(RamPorts)]
    BY <1>1, <1>2, ConcatProperties
  <2>2. QED
    BY <1>1, <2>1
<1> HIDE DEF s, r
<1>4. /\ \A k \in 1 .. 5 : k \in 1 .. 5 + r /\ k <= 5
      /\ \A k \in 1 .. 5 + r : k \in 1 .. 5 \/ (~(k <= 5) /\ k - 5 \in 1 .. r)
  BY <1>2
<1>5. \A k \in 1 .. 5 : s[k] = RamPorts[k]
  BY <1>3, <1>4
<1>6. \A k \in 1 .. 5 + r : k \in 1 .. 5 \/ (s[k] = rest[k - 5] /\ k - 5 \in 1 .. r)
  BY <1>3, <1>4
<1>7. \A k \in 1 .. 5 + r : k \in 1 .. 5 \/ s[k].kind \in RestKinds
  BY <1>2, <1>6
<1>8. \A k \in 1 .. 5 : s[k].kind \in PortKinds /\ (s[k].kind = "output" => k = 5)
  BY <1>1, <1>5, RamPortLines
<1>9. Above(s)
  BY <1>3, <1>7, <1>8 DEF Above, RestKinds, PortKinds
<1>10. StartsWithRamPorts(s)
  <2>1. \A k \in 1 .. 5 + r : s[k].kind = "output" => k = 5
    BY <1>7, <1>8 DEF RestKinds
  <2>2. 5 + r >= 5
    BY <1>2
  <2>3. QED
    BY <1>3, <1>5, <2>1, <2>2 DEF StartsWithRamPorts
<1>11. QED
  BY <1>9, <1>10 DEF s

LEMMA ResetLines ==
  In("taint_meta_reset", 0) \in LinesOf(RestKinds) /\ In("rst_ni", 0) \in LinesOf(RestKinds)
<1>1. "input" \in RestKinds /\ {"taint_meta_reset", "rst_ni"} \subseteq Named
  BY DEF RestKinds, Named
<1>2. QED
  BY <1>1, LinesOfKinds

LEMMA RamDesigns ==
  ASSUME DesignAssumption, NEW ram \in RamTexts
  PROVE  /\ IsDesign(ram) /\ ModuleIds(ram) = {1} /\ Module(ram, 1) = ram
         /\ ram[1].name \in RamNames /\ OpenC910Module(ram) /\ ClockedModule(ram)
<1> DEFINE TwoResets == {<<>>, <<In("taint_meta_reset", 0)>>, <<In("rst_ni", 0), In("taint_meta_reset", 0)>>}
<1>1. PICK name \in RamNames, resets \in TwoResets, above \in BOOLEAN, functions \in Functions :
        ram = RamText(name, resets, above, functions)
  BY DEF RamTexts
<1> DEFINE L == LinesOf(RestKinds)
<1>2. resets \in Seq(L)
  <2>1. In("taint_meta_reset", 0) \in L /\ In("rst_ni", 0) \in L
    BY ResetLines
  <2> HIDE DEF L
  <2>2. <<>> \in Seq(L)
    BY EmptySeq
  <2>3. /\ <<In("taint_meta_reset", 0)>> \in Seq(L)
        /\ <<In("rst_ni", 0), In("taint_meta_reset", 0)>> \in Seq(L)
    BY <2>1
  <2>4. QED
    BY <2>2, <2>3
<1>13. /\ resets \in Seq(ClockedLines)
       /\ \A l \in ToSet(resets) : l.kind = "input" /\ l.name = "rst_ni" => l = In("rst_ni", 0)
  BY ResetChoices
<1> HIDE DEF TwoResets
<1>14. ClockedParts(RamPorts \o resets, Store(resets))
  BY <1>13, ClockedRest
<1>15. ClockedParts(RamPorts \o (resets \o Store(resets)), <<>>)
  BY <1>13, ClockedRest, ResetsClocked
<1>3. Store(resets) \in Seq(LinesOf(StoreKinds))
  BY StoreLines
<1>4. Store(resets) \in Seq(L)
  BY <1>3, MoreKinds DEF StoreKinds, RestKinds
<1> HIDE DEF L
<1>5. resets \o Store(resets) \in Seq(L)
  BY <1>2, <1>4, ConcatProperties
<1>6. /\ Above(RamPorts \o resets) /\ StartsWithRamPorts(RamPorts \o resets)
      /\ Above(RamPorts \o (resets \o Store(resets)))
      /\ StartsWithRamPorts(RamPorts \o (resets \o Store(resets)))
  BY <1>2, <1>5, OnRamPorts DEF L
<1>7. RamPorts \o resets \o Store(resets) = RamPorts \o (resets \o Store(resets))
  <2>1. RamPorts \in Seq(Lines) /\ resets \in Seq(Lines) /\ Store(resets) \in Seq(Lines)
    BY <1>2, <1>3, RamPortLines, OfKinds DEF L
  <2>2. QED
    BY <2>1, ConcatAssociative, SMTT(20)
<1>8. Below(Store(resets), name) /\ Below(<<>>, name)
  <2>1. Store(resets) \in Seq(Lines) /\ \A k \in 1 .. Len(Store(resets)) : Store(resets)[k].kind \in StoreKinds
    BY <1>3, OfKinds
  <2>2. Below(Store(resets), name)
    BY <2>1 DEF Below, StoreKinds
  <2>3. <<>> \in Seq(Lines) /\ Len(<<>>) = 0
    OBVIOUS
  <2>4. QED
    BY <2>2, <2>3 DEF Below
<1>9. FunctionBlock(functions) /\ name \in Named
  BY FunctionBlocks DEF Named
<1>10. CASE above = TRUE
  <2>1. ram = ModuleText(name, RamPorts \o resets, functions, Store(resets))
    BY <1>1, <1>10 DEF RamText
  <2>2. ClockedModule(ram)
    BY <1>6, <1>8, <1>9, <1>14, <2>1, ClockedText
  <2>3. QED
    BY <1>6, <1>8, <1>9, <2>1, <2>2, OpenC910Text
<1>11. CASE above = FALSE
  <2>1. ram = ModuleText(name, RamPorts \o (resets \o Store(resets)), functions, <<>>)
    BY <1>1, <1>7, <1>11 DEF RamText
  <2>2. ClockedModule(ram)
    BY <1>6, <1>8, <1>9, <1>15, <2>1, ClockedText
  <2>3. QED
    BY <1>6, <1>8, <1>9, <2>1, <2>2, OpenC910Text
<1>12. QED
  BY <1>10, <1>11

LEMMA WrapperDesigns ==
  ASSUME DesignAssumption, NEW ram \in RamNames, NEW wrapper \in WrapperTexts(ram)
  PROVE  /\ IsDesign(wrapper) /\ ModuleIds(wrapper) = {1} /\ Module(wrapper, 1) = wrapper
         /\ OpenC910Module(wrapper) /\ ClockedModule(wrapper)
<1>1. PICK own \in {<<>>, Store(<<>>)}, functions \in Functions, cell \in {<<>>, <<Line("cell", ram)>>} :
        wrapper = WrapperText(own, functions, cell)
  BY DEF WrapperTexts
<1> DEFINE L == LinesOf(RestKinds)
           reset == <<In("taint_meta_reset", 0)>>
<1>2. Store(<<>>) \in Seq(L)
  <2>1. StoreKinds \subseteq RestKinds
    BY DEF StoreKinds, RestKinds
  <2>2. QED
    BY <2>1, StoreLines, MoreKinds
<1>3. In("taint_meta_reset", 0) \in L
  BY ResetLines
<1> HIDE DEF L
<1>4. reset \in Seq(L) /\ own \in Seq(L)
  <2>1. <<>> \in Seq(L)
    BY EmptySeq
  <2>2. own \in Seq(L)
    BY <1>2, <2>1
  <2>3. reset \in Seq(L)
    BY <1>3, OneLine
  <2>4. QED
    BY <2>2, <2>3
<1> HIDE DEF reset
<1>5. reset \o own \in Seq(L)
  BY <1>4, ConcatProperties
<1>6. Above(RamPorts \o (reset \o own)) /\ StartsWithRamPorts(RamPorts \o (reset \o own))
  BY <1>5, OnRamPorts DEF L
<1>7. RamPorts \o reset \o own = RamPorts \o (reset \o own)
  <2>1. RamPorts \in Seq(Lines) /\ reset \in Seq(Lines) /\ own \in Seq(Lines)
    BY <1>4, RamPortLines, OfKinds DEF L
  <2>2. QED
    BY <2>1, ConcatAssociative
<1>8. Below(cell, "wrapper")
  <2>1. CASE cell = <<>>
    <3>1. <<>> \in Seq(Lines) /\ Len(<<>>) = 0
      OBVIOUS
    <3>2. QED
      BY <2>1, <3>1 DEF Below
  <2>2. CASE cell = <<Line("cell", ram)>>
    <3>1. Line("cell", ram) \in Lines
      BY LinesAreLines DEF Kinds, Named
    <3>2. cell \in Seq(Lines) /\ Len(cell) = 1 /\ cell[1] = Line("cell", ram)
      BY <2>2, <3>1, OneLine
    <3>3. ram # "wrapper"
      BY DEF DesignAssumption
    <3>4. Line("cell", ram).kind = "cell" /\ Line("cell", ram).name = ram
      BY DEF Line
    <3>5. \A k \in 1 .. 1 : k = 1
      OBVIOUS
    <3>6. QED
      BY <3>2, <3>3, <3>4, <3>5 DEF Below
  <2>3. QED
    BY <2>1, <2>2
<1>9. FunctionBlock(functions) /\ "wrapper" \in Named
  BY FunctionBlocks DEF Named
<1>10. wrapper = ModuleText("wrapper", RamPorts \o (reset \o own), functions, cell)
  BY <1>1, <1>7 DEF WrapperText, reset
<1>11. /\ reset \in Seq(ClockedLines) /\ \A l \in ToSet(reset) : l = In("taint_meta_reset", 0)
  <2>1. reset \in Seq(ClockedLines) /\ Len(reset) = 1 /\ reset[1] = In("taint_meta_reset", 0)
    BY ResetsClocked, OneLine DEF reset
  <2>2. DOMAIN reset = 1 .. 1 /\ \A k \in 1 .. 1 : k = 1
    BY <2>1, LenProperties
  <2>3. QED
    BY <2>1, <2>2 DEF ToSet
<1>12. In("taint_meta_reset", 0).kind = "input" /\ In("taint_meta_reset", 0).name = "taint_meta_reset"
       /\ In("rst_ni", 0).name = "rst_ni"
  BY DEF In
<1>13. cell \in Seq(ClockedLines) /\ \A l \in ToSet(cell) : l.kind # "posedge"
  <2>1. CASE cell = <<>>
    BY <2>1, ResetsClocked
  <2>2. CASE cell = <<Line("cell", ram)>>
    <3>1. Line("cell", ram) \in ClockedLines /\ Line("cell", ram).kind # "posedge"
      <4>1. Line("cell", ram) \in Lines
        BY LinesAreLines DEF Kinds, Named
      <4>2. Line("cell", ram).kind = "cell"
        BY DEF Line
      <4>3. QED
        BY <4>1, <4>2 DEF ClockedLines
    <3>2. cell \in Seq(ClockedLines) /\ Len(cell) = 1 /\ cell[1] = Line("cell", ram)
      BY <2>2, <3>1, OneLine
    <3>3. DOMAIN cell = 1 .. 1 /\ \A k \in 1 .. 1 : k = 1
      BY <3>2, LenProperties
    <3>4. QED
      BY <3>1, <3>2, <3>3 DEF ToSet
  <2>3. QED
    BY <2>1, <2>2
<1>14. ClockedModule(wrapper)
  <2> DEFINE lines == RamPorts \o (reset \o own)
  <2>1. CASE own = Store(<<>>)
    <3>1. In("rst_ni", 0) \notin ToSet(reset) /\ In("rst_ni", 0) \notin ToSet(<<>>)
      BY <1>11, <1>12, ResetsClocked
    <3>2. own = Store(reset)
      BY <2>1, <3>1 DEF Store
    <3>3. ClockedParts(lines, cell)
      BY <1>11, <1>12, <1>13, <3>2, ClockedRest
    <3>4. QED
      BY <1>6, <1>8, <1>9, <1>10, <3>3, ClockedText
  <2>2. CASE own = <<>>
    <3>1. lines = RamPorts \o reset
      BY <1>11, <2>2, ConcatEmptySeq
    <3>2. ToSet(lines) = ToSet(RamPorts) \cup ToSet(reset)
      BY <1>11, <3>1, RamPortsClocked, JoinedLines
    <3>3. \A l \in ToSet(lines) \cup ToSet(cell) : l.kind # "posedge"
      BY <1>11, <1>12, <1>13, <3>2, RamPortsClocked
    <3>4. QED
      BY <1>6, <1>8, <1>9, <1>10, <3>3, ClockedText
  <2>3. QED
    BY <1>1, <2>1, <2>2
<1>15. QED
  BY <1>6, <1>8, <1>9, <1>10, <1>14, OpenC910Text

CellKinds == {"cell"}
ChipKinds == {"input", "posedge", "store", "cell"}

LEMMA ChipyardText ==
  ASSUME NEW name \in Named, NEW lines \in Seq(LinesOf(PortKinds)), NEW below \in Seq(LinesOf(ChipKinds))
  PROVE  LET m == ModuleText(name, lines, <<>>, below)
         IN  /\ IsDesign(m) /\ ModuleIds(m) = {1} /\ Module(m, 1) = m
             /\ ChipyardModule(m)
             /\ m[1] = Line("module", name)
             /\ \A l \in ToSet(m) :
                  \/ l.kind \in {"module", "endmodule"}
                  \/ l \in ToSet(lines) \cup ToSet(below) /\ l.kind \in PortKinds \cup ChipKinds
<1> DEFINE m == ModuleText(name, lines, <<>>, below)
           a == Len(lines)
           c == Len(below)
           n == a + 0 + c + 2
<1>1. /\ lines \in Seq(Lines) /\ a \in Nat /\ \A k \in 1 .. a : lines[k].kind \in PortKinds
      /\ below \in Seq(Lines) /\ c \in Nat /\ \A k \in 1 .. c : below[k].kind \in ChipKinds
  BY OfKinds, LenProperties
<1>2. <<>> \in Seq(Lines) /\ Len(<<>>) = 0
  OBVIOUS
<1>3. Inside(lines) /\ Inside(below) /\ Inside(<<>>)
  BY <1>1, <1>2 DEF Inside, PortKinds, ChipKinds
<1>4. /\ IsDesign(m) /\ ModuleIds(m) = {1} /\ Module(m, 1) = m
      /\ TextParts(m, name, lines, <<>>, below)
      /\ m[1] = Line("module", name)
  BY <1>3, TextIsDesign
<1> HIDE DEF m
<1>5. /\ m \in Seq(Lines) /\ Len(m) = n
      /\ m[1] = Line("module", name) /\ m[n] = Line("endmodule", name)
      /\ \A k \in 1 .. a : m[k + 1] = lines[k]
      /\ \A k \in 1 .. c : m[a + 0 + 1 + k] = below[k]
      /\ \A k \in 1 .. n :
           \/ k = 1 \/ k = n
           \/ \E j \in 1 .. a : k = j + 1
           \/ \E j \in 1 .. 0 : k = a + 1 + j
           \/ \E j \in 1 .. c : k = a + 0 + 1 + j
  BY <1>2, <1>4 DEF TextParts
<1>6. DOMAIN m = 1 .. n /\ n >= 2
  BY <1>1, <1>5, LenProperties
<1>7. m[1].kind = "module" /\ m[1].name = name /\ m[n].kind = "endmodule"
  BY <1>5 DEF Line
<1> HIDE DEF a, c, n
<1>8. \A k \in 1 .. n : \/ m[k].kind = "module" \/ m[k].kind = "endmodule"
                        \/ \E j \in 1 .. a : m[k] = lines[j]
                        \/ \E j \in 1 .. c : m[k] = below[j]
  <2>1. \A j \in 1 .. 0 : FALSE
    OBVIOUS
  <2>2. QED
    BY <1>5, <1>7, <2>1
<1>9. Numbers("annotation", m) = {}
  BY <1>1, <1>6, <1>8 DEF Numbers, PortKinds, ChipKinds
<1>11. ChipyardModule(m)
  BY <1>5, <1>6, <1>9 DEF ChipyardModule
<1>12. \A l \in ToSet(m) :
         \/ l.kind \in {"module", "endmodule"}
         \/ l \in ToSet(lines) \cup ToSet(below) /\ l.kind \in PortKinds \cup ChipKinds
  <2>1. /\ \A j \in 1 .. a : lines[j] \in ToSet(lines) /\ lines[j].kind \in PortKinds
        /\ \A j \in 1 .. c : below[j] \in ToSet(below) /\ below[j].kind \in ChipKinds
    BY <1>1, LenProperties DEF ToSet, a, c
  <2>2. \A l \in ToSet(m) : \E k \in 1 .. n : l = m[k]
    BY <1>6 DEF ToSet
  <2>3. QED
    BY <1>8, <2>1, <2>2
<1>13. QED
  BY <1>4, <1>11, <1>12 DEF m

\* A module without functions that does not declare more than its table.
LEMMA PlainText ==
  ASSUME NEW d, NEW m, NEW name, m[1] = Line("module", name),
         NEW parts,
         \A l \in ToSet(m) : \/ l.kind \in {"module", "endmodule"}
                             \/ l \in parts /\ l.kind \in PortKinds \cup ChipKinds,
         name \in DOMAIN Tables[d] =>
           \A l \in parts : l.kind \in PortKinds =>
             l.name \in DOMAIN Tables[d][name] \cup {"W0_clk", "taint_meta_reset"}
  PROVE  PlainModule(d, m)
<1>1. m[1].name = name
  BY DEF Line
<1>2. \A l \in ToSet(m) : l.kind # "function" /\ (l.kind \in {"input", "output"} => l \in parts)
  BY DEF PortKinds, ChipKinds
<1>3. QED
  BY <1>1, <1>2 DEF PlainModule, Tabled, PortKinds

LEMMA TopDesigns ==
  ASSUME NEW cells \in Seq(Named), \A k \in 1 .. Len(cells) : cells[k] # "top"
  PROVE  /\ IsDesign(Top(cells)) /\ ModuleIds(Top(cells)) = {1} /\ Module(Top(cells), 1) = Top(cells)
         /\ OpenC910Module(Top(cells)) /\ ClockedModule(Top(cells))
         /\ ChipyardModule(Top(cells)) /\ \A d \in DOMAIN Tables : PlainModule(d, Top(cells))
<1> DEFINE p1 == In("clk_i", 0)
           p2 == Out("addr_o", 7)
           p3 == Out("req_o", 0)
           lines == <<p1, p2, p3>>
           below == [k \in DOMAIN cells |-> Line("cell", cells[k])]
           L == LinesOf(PortKinds)
           C == LinesOf(CellKinds)
<1>1. lines \in Seq(L)
  <2>1. {"clk_i", "addr_o", "req_o"} \subseteq Named /\ "input" \in PortKinds /\ "output" \in PortKinds
    BY DEF Named, PortKinds
  <2>2. p1 \in L /\ p2 \in L /\ p3 \in L
    BY <2>1, LinesOfKinds
  <2> HIDE DEF p1, p2, p3, L
  <2>3. QED
    BY <2>2
<1>2. Len(cells) \in Nat /\ DOMAIN cells = 1 .. Len(cells) /\ \A k \in 1 .. Len(cells) : cells[k] \in Named
  BY LenProperties, ElementOfSeq
<1>3. below \in Seq(C) /\ Len(below) = Len(cells)
  <2>1. "cell" \in Kinds /\ "cell" \in CellKinds
    BY DEF Kinds, CellKinds
  <2>2. \A k \in 1 .. Len(cells) : Line("cell", cells[k]) \in C
    BY <1>2, <2>1, LinesOfKinds
  <2> HIDE DEF C
  <2>3. below \in [1 .. Len(cells) -> C]
    BY <1>2, <2>2
  <2>4. QED
    BY <1>2, <2>3
<1>4. \A k \in 1 .. Len(cells) : below[k] = Line("cell", cells[k])
  BY <1>2
<1>5. \A k \in 1 .. Len(below) : below[k].name # "top" /\ below[k].kind = "cell"
  <2>1. \A name : Line("cell", name).name = name /\ Line("cell", name).kind = "cell"
    BY DEF Line
  <2>2. QED
    BY <1>3, <1>4, <2>1
<1>6. Top(cells) = ModuleText("top", lines, <<>>, below)
  BY DEF Top
<1>7. "top" \in Named
  BY DEF Named
<1> HIDE DEF lines, below
<1>8. Above(lines) /\ \A k \in 1 .. Len(lines) : lines[k].kind # "store"
  <2>1. lines \in Seq(Lines) /\ \A k \in 1 .. Len(lines) : lines[k].kind \in PortKinds
    BY <1>1, OfKinds
  <2>2. QED
    BY <2>1 DEF Above, PortKinds
<1>9. Below(below, "top") /\ \A k \in 1 .. Len(below) : below[k].kind # "store"
  <2>1. below \in Seq(Lines)
    BY <1>3, OfKinds
  <2>2. QED
    BY <1>5, <2>1 DEF Below
<1>10. /\ IsDesign(Top(cells)) /\ ModuleIds(Top(cells)) = {1} /\ Module(Top(cells), 1) = Top(cells)
       /\ OpenC910Module(Top(cells)) /\ ClockedModule(Top(cells))
  <2>1. FunctionBlock(<<>>)
    <3>1. <<>> \in Seq(Lines) /\ Len(<<>>) = 0
      OBVIOUS
    <3>2. QED
      BY <3>1 DEF FunctionBlock
  <2>2. \A l \in ToSet(lines) \cup ToSet(below) : l.kind # "posedge"
    <3>1. (\A l \in ToSet(lines) : l.kind \in PortKinds) /\ (\A l \in ToSet(below) : l.kind \in CellKinds)
      BY <1>1, <1>3, OfKinds
    <3>2. QED
      BY <3>1 DEF PortKinds, CellKinds
  <2>3. ClockedModule(Top(cells))
    BY <1>6, <1>7, <1>8, <1>9, <2>1, <2>2, ClockedText
  <2>4. QED
    BY <1>6, <1>7, <1>8, <1>9, <2>1, <2>3, OpenC910Text
<1>11. ChipyardModule(Top(cells)) /\ \A d \in DOMAIN Tables : PlainModule(d, Top(cells))
  <2>1. CellKinds \subseteq ChipKinds
    BY DEF CellKinds, ChipKinds
  <2>2. below \in Seq(LinesOf(ChipKinds))
    BY <1>3, <2>1, MoreKinds
  <2>3. LET m == Top(cells)
        IN  /\ ChipyardModule(m) /\ m[1] = Line("module", "top")
            /\ \A l \in ToSet(m) :
                 \/ l.kind \in {"module", "endmodule"}
                 \/ l \in ToSet(lines) \cup ToSet(below) /\ l.kind \in PortKinds \cup ChipKinds
    BY <1>1, <1>6, <1>7, <2>2, ChipyardText
  <2>4. \A d \in DOMAIN Tables : "top" \notin DOMAIN Tables[d]
    BY TableRoles
  <2>5. \A d \in DOMAIN Tables : PlainModule(d, Top(cells))
    BY <2>3, <2>4, PlainText
  <2>6. QED
    BY <2>3, <2>5
<1>12. QED
  BY <1>10, <1>11

LEMMA PickedLines ==
  ASSUME NEW S, NEW order \in Seq(S), NEW T \in SUBSET DOMAIN order
  PROVE  [n \in DOMAIN InOrder(T) |-> order[InOrder(T)[n]]] \in Seq(S)
<1> DEFINE d == InOrder(T)
<1>1. Len(order) \in Nat /\ DOMAIN order = 1 .. Len(order)
  BY LenProperties
<1>2. T \in SUBSET Nat /\ IsFiniteSet(T)
  <2>1. IsFiniteSet(1 .. Len(order))
    BY <1>1, 1 \in Int, Len(order) \in Int, FS_Interval
  <2>2. T \in SUBSET (1 .. Len(order))
    BY <1>1
  <2>3. IsFiniteSet(T)
    BY <2>1, <2>2, FS_Subset
  <2>4. QED
    BY <1>1, <2>3
<1>3. d \in Seq(T)
  BY <1>2, InOrderLists
<1> HIDE DEF d
<1>4. Len(d) \in Nat /\ DOMAIN d = 1 .. Len(d) /\ \A n \in 1 .. Len(d) : d[n] \in T
  BY <1>3, LenProperties, ElementOfSeq
<1>5. \A n \in 1 .. Len(d) : order[d[n]] \in S
  BY <1>1, <1>4, ElementOfSeq
<1>6. [n \in DOMAIN d |-> order[d[n]]] \in [1 .. Len(d) -> S]
  BY <1>4, <1>5
<1>7. [n \in DOMAIN d |-> order[d[n]]] \in Seq(S)
  BY <1>4, <1>6
<1>8. QED
  BY <1>7 DEF d

LEMMA ChipPortLines ==
  ASSUME NEW roles, NEW missing
  PROVE  ChipPorts(roles, missing) \in Seq(LinesOf(PortKinds))
<1> DEFINE present == DOMAIN roles \cup (IF "R0_clk" \in DOMAIN roles THEN {"W0_clk"} ELSE {})
           T == {k \in DOMAIN AllChipPorts : AllChipPorts[k].name \in present \ missing}
<1>1. AllChipPorts \in Seq(LinesOf(PortKinds))
  <2>1. "input" \in PortKinds /\ "output" \in PortKinds
    BY DEF PortKinds
  <2>2. {"RW0_addr", "RW0_en", "RW0_clk", "RW0_wmode", "RW0_wdata", "RW0_rdata", "RW0_wmask",
         "R0_addr", "R0_en", "R0_clk", "R0_data", "W0_addr", "W0_en", "W0_clk", "W0_data",
         "W0_mask"} \subseteq Named
    BY DEF Named
  <2> DEFINE L == LinesOf(PortKinds)
  <2>3. /\ In("RW0_addr", 2) \in L /\ In("RW0_en", 0) \in L /\ In("RW0_clk", 0) \in L
        /\ In("RW0_wmode", 0) \in L /\ In("RW0_wdata", 7) \in L /\ Out("RW0_rdata", 7) \in L
        /\ In("RW0_wmask", 0) \in L /\ In("R0_addr", 2) \in L /\ In("R0_en", 0) \in L
        /\ In("R0_clk", 0) \in L /\ Out("R0_data", 7) \in L /\ In("W0_addr", 2) \in L
        /\ In("W0_en", 0) \in L /\ In("W0_clk", 0) \in L /\ In("W0_data", 7) \in L
        /\ In("W0_mask", 0) \in L
    BY <2>1, <2>2, LinesOfKinds
  <2> HIDE DEF L
  <2>4. AllChipPorts \in Seq(L)
    BY <2>3 DEF AllChipPorts
  <2>5. QED
    BY <2>4 DEF L
<1>2. T \in SUBSET DOMAIN AllChipPorts
  OBVIOUS
<1>3. ChipPorts(roles, missing) = [n \in DOMAIN InOrder(T) |-> AllChipPorts[InOrder(T)[n]]]
  BY DEF ChipPorts
<1> HIDE DEF T
<1>4. QED
  BY <1>1, <1>2, <1>3, PickedLines

\* A memory declares the ports of its table and a second clock at most.
LEMMA ChipPortNames ==
  ASSUME NEW roles, NEW missing, NEW l \in ToSet(ChipPorts(roles, missing))
  PROVE  l.name \in DOMAIN roles \cup {"W0_clk"}
<1> DEFINE present == DOMAIN roles \cup (IF "R0_clk" \in DOMAIN roles THEN {"W0_clk"} ELSE {})
           T == {k \in DOMAIN AllChipPorts : AllChipPorts[k].name \in present \ missing}
           d == InOrder(T)
<1>1. DOMAIN AllChipPorts = 1 .. 16
  BY DEF AllChipPorts
<1>2. T \in SUBSET Nat /\ IsFiniteSet(T)
  <2>1. IsFiniteSet(1 .. 16)
    BY 1 \in Int, 16 \in Int, FS_Interval
  <2>2. T \in SUBSET (1 .. 16)
    BY <1>1
  <2>3. QED
    BY <2>1, <2>2, FS_Subset
<1>3. ChipPorts(roles, missing) = [n \in DOMAIN d |-> AllChipPorts[d[n]]]
  BY DEF ChipPorts
<1>4. \A k \in T : AllChipPorts[k].name \in DOMAIN roles \cup {"W0_clk"}
  OBVIOUS
<1> HIDE DEF T
<1>5. ToSet(d) = T
  BY <1>2, InOrderLists
<1> HIDE DEF d
<1>6. PICK n \in DOMAIN d : l = AllChipPorts[d[n]]
  BY <1>3 DEF ToSet
<1>7. QED
  BY <1>4, <1>5, <1>6 DEF ToSet

Chipyards(d) == {m \in Seq(Lines) : ChipyardModule(m) /\ PlainModule(d, m)}

LEMMA ChipDesigns ==
  ASSUME DesignAssumption, NEW d \in DOMAIN Tables, NEW name \in Annotable, NEW missing
  PROVE  LET a == ChipText(d, name, missing)
         IN  IsDesign(a) /\ \A id \in ModuleIds(a) : Module(a, id) \in Chipyards(d)
<1> DEFINE roles == IF name \in DOMAIN Tables[d] THEN Tables[d][name] ELSE RW0_masked
           clock == IF "RW0_clk" \in DOMAIN roles THEN "RW0_clk" ELSE "R0_clk"
           lines == ChipPorts(roles, missing)
           l1 == In("taint_meta_reset", 0)
           l2 == Line("posedge", clock)
           l3 == Line("store", "ram")
           below == <<l1, l2, l3>>
           a == ChipText(d, name, missing)
           L == LinesOf(ChipKinds)
<1>1. a = ModuleText(name, lines, <<>>, below)
  BY DEF ChipText
<1>2. lines \in Seq(LinesOf(PortKinds))
  BY ChipPortLines
<1>3. l1 \in L /\ l2 \in L /\ l3 \in L
  <2>1. "input" \in ChipKinds /\ "posedge" \in ChipKinds /\ "store" \in ChipKinds
    BY DEF ChipKinds
  <2>2. "posedge" \in Kinds /\ "store" \in Kinds
    BY DEF Kinds
  <2>3. "taint_meta_reset" \in Named /\ "ram" \in Named /\ "RW0_clk" \in Named /\ "R0_clk" \in Named
    BY DEF Named
  <2>4. clock \in Named
    BY <2>3
  <2> HIDE DEF clock
  <2>5. QED
    BY <2>1, <2>2, <2>3, <2>4, LinesOfKinds
<1>4. /\ l1.name = "taint_meta_reset" /\ l2.kind \notin PortKinds /\ l3.kind \notin PortKinds
  BY DEF In, Line, PortKinds
<1>10. \A l \in ToSet(lines) : l.name \in DOMAIN roles \cup {"W0_clk"}
  BY ChipPortNames
<1>11. name \in DOMAIN Tables[d] => roles = Tables[d][name]
  OBVIOUS
<1> HIDE DEF roles, a, lines, l1, l2, l3, L
<1>5. below \in Seq(L) /\ Len(below) = 3
  BY <1>3
<1>12. \A l \in ToSet(below) : l.kind \in PortKinds => l.name = "taint_meta_reset"
  <2>1. DOMAIN below = 1 .. 3 /\ \A k \in 1 .. 3 : k = 1 \/ k = 2 \/ k = 3
    BY <1>5, LenProperties
  <2>2. below[1] = l1 /\ below[2] = l2 /\ below[3] = l3
    OBVIOUS
  <2>3. QED
    BY <1>4, <2>1, <2>2 DEF ToSet
<1> HIDE DEF below
<1>6. name \in Named
  BY DEF Named
<1>7. /\ IsDesign(a) /\ ModuleIds(a) = {1} /\ Module(a, 1) = a /\ ChipyardModule(a)
      /\ a[1] = Line("module", name)
      /\ \A l \in ToSet(a) :
           \/ l.kind \in {"module", "endmodule"}
           \/ l \in ToSet(lines) \cup ToSet(below) /\ l.kind \in PortKinds \cup ChipKinds
  BY <1>1, <1>2, <1>5, <1>6, ChipyardText DEF L
<1>13. PlainModule(d, a)
  <2>1. name \in DOMAIN Tables[d] =>
          \A l \in ToSet(lines) \cup ToSet(below) : l.kind \in PortKinds =>
            l.name \in DOMAIN Tables[d][name] \cup {"W0_clk", "taint_meta_reset"}
    BY <1>10, <1>11, <1>12
  <2>2. QED
    BY <1>7, <2>1, PlainText
<1>8. a \in Chipyards(d)
  BY <1>7, <1>13 DEF IsDesign, Chipyards
<1>9. QED
  BY <1>7, <1>8 DEF a

LEMMA ChipTextsDesigns ==
  ASSUME DesignAssumption, NEW d \in DOMAIN Tables, NEW n \in 1 .. 3,
         NEW names \in [1 .. n -> Annotable], NEW missing
  PROVE  LET a == ChipTexts(d, names, missing) \o Top(names)
         IN  IsDesign(a) /\ \A id \in ModuleIds(a) : Module(a, id) \in Chipyards(d)
<1> DEFINE Chip(k) == IF k > Len(names) THEN <<>>
                      ELSE ChipText(d, names[k], IF k = 1 THEN missing ELSE {})
<1>1. names \in Seq(Annotable) /\ Len(names) = n
  OBVIOUS
<1>2. ASSUME NEW k \in 1 .. 3
      PROVE  IsDesign(Chip(k)) /\ \A id \in ModuleIds(Chip(k)) : Module(Chip(k), id) \in Chipyards(d)
  <2>1. CASE k > Len(names)
    BY <2>1, NoDesign
  <2>2. CASE ~(k > Len(names))
    <3>1. k \in 1 .. n
      BY <1>1, <2>2
    <3>2. names[k] \in Annotable
      BY <3>1
    <3>3. Chip(k) = ChipText(d, names[k], IF k = 1 THEN missing ELSE {})
      BY <2>2
    <3>4. QED
      BY <3>2, <3>3, ChipDesigns
  <2>3. QED
    BY <2>1, <2>2
<1> DEFINE x == Chip(1)
           y == Chip(2)
           z == Chip(3)
           t == Top(names)
<1>3. ChipTexts(d, names, missing) = x \o y \o z
  BY DEF ChipTexts
<1>4. /\ IsDesign(x) /\ \A id \in ModuleIds(x) : Module(x, id) \in Chipyards(d)
      /\ IsDesign(y) /\ \A id \in ModuleIds(y) : Module(y, id) \in Chipyards(d)
      /\ IsDesign(z) /\ \A id \in ModuleIds(z) : Module(z, id) \in Chipyards(d)
  <2>1. 1 \in 1 .. 3 /\ 2 \in 1 .. 3 /\ 3 \in 1 .. 3
    OBVIOUS
  <2> HIDE DEF Chip
  <2>2. QED
    BY <1>2, <2>1
<1>5. IsDesign(t) /\ \A id \in ModuleIds(t) : Module(t, id) \in Chipyards(d)
  <2>1. Annotable \subseteq Named
    BY DEF Named
  <2>2. names \in Seq(Named)
    BY <1>1, <2>1, SeqMonotonic
  <2>3. \A k \in 1 .. Len(names) : names[k] # "top"
    BY <1>1, ElementOfSeq DEF DesignAssumption
  <2>4. IsDesign(t) /\ ModuleIds(t) = {1} /\ Module(t, 1) = t /\ ChipyardModule(t) /\ PlainModule(d, t)
    BY <2>2, <2>3, TopDesigns
  <2> HIDE DEF t
  <2>5. t \in Chipyards(d)
    BY <2>4 DEF IsDesign, Chipyards
  <2>6. QED
    BY <2>4, <2>5
<1> HIDE DEF x, y, z, t
<1>6. IsDesign(x \o y) /\ \A id \in ModuleIds(x \o y) : Module(x \o y, id) \in Chipyards(d)
  BY <1>4, JoinedDesigns
<1>7. IsDesign(x \o y \o z) /\ \A id \in ModuleIds(x \o y \o z) : Module(x \o y \o z, id) \in Chipyards(d)
  BY <1>4, <1>6, JoinedDesigns
<1>8. /\ IsDesign(x \o y \o z \o t)
      /\ \A id \in ModuleIds(x \o y \o z \o t) : Module(x \o y \o z \o t, id) \in Chipyards(d)
  BY <1>5, <1>7, JoinedDesigns
<1>9. QED
  BY <1>3, <1>8 DEF t

OpenC910s == {m \in Seq(Lines) : OpenC910Module(m) /\ ClockedModule(m)}

LEMMA InitPassInv == DesignAssumption /\ Init => PassInv /\ PinsInv
<1> SUFFICES ASSUME DesignAssumption, Init PROVE PassInv /\ PinsInv
  OBVIOUS
<1>1. /\ pending = <<>> /\ removed = {} /\ skipped = {} /\ shadowed = <<>> /\ pins = <<>>
      /\ DOMAIN shadowed = {} /\ DOMAIN pins = {} /\ ToSet(pending) = {}
      /\ pending \in Seq(ModuleIds(text))
  <2>1. pending = <<>> /\ removed = {} /\ skipped = {} /\ shadowed = <<>> /\ pins = <<>>
    BY DEF Init
  <2>2. DOMAIN <<>> = {} /\ ToSet(<<>>) = {} /\ <<>> \in Seq(ModuleIds(text))
    BY EmptySeqSet
  <2>3. QED
    BY <2>1, <2>2
<1>2. stage \in {"annotate", "select"}
  BY DEF Init
<1>3. TextInv /\ PortsAsWritten
  <2>1. CASE /\ design = "openc910" /\ stage = "select"
             /\ \E ram \in RamTexts : \E wrapper \in WrapperTexts(ram[1].name) :
                  text = ram \o wrapper \o Top(<<"wrapper", ram[1].name>>)
    <3>0. PICK ram \in RamTexts : \E wrapper \in WrapperTexts(ram[1].name) :
            text = ram \o wrapper \o Top(<<"wrapper", ram[1].name>>)
      BY <2>1
    <3>1. PICK wrapper \in WrapperTexts(ram[1].name) :
            text = ram \o wrapper \o Top(<<"wrapper", ram[1].name>>)
      BY <3>0
    <3> DEFINE cells == <<"wrapper", ram[1].name>>
               t == Top(cells)
    <3>2. /\ IsDesign(ram) /\ ModuleIds(ram) = {1} /\ Module(ram, 1) = ram
          /\ ram[1].name \in RamNames /\ OpenC910Module(ram) /\ ClockedModule(ram)
      BY RamDesigns
    <3>3. /\ IsDesign(wrapper) /\ ModuleIds(wrapper) = {1} /\ Module(wrapper, 1) = wrapper
          /\ OpenC910Module(wrapper) /\ ClockedModule(wrapper)
      BY <3>2, WrapperDesigns
    <3>4. /\ IsDesign(t) /\ ModuleIds(t) = {1} /\ Module(t, 1) = t /\ OpenC910Module(t) /\ ClockedModule(t)
      <4> DEFINE name == ram[1].name
      <4>1. "wrapper" \in Named /\ name \in Named /\ name # "top"
        BY <3>2 DEF Named, DesignAssumption
      <4> HIDE DEF name
      <4>2. /\ <<"wrapper", name>> \in Seq(Named) /\ Len(<<"wrapper", name>>) = 2
            /\ \A k \in 1 .. 2 : <<"wrapper", name>>[k] # "top"
        BY <4>1
      <4>3. cells \in Seq(Named) /\ \A k \in 1 .. Len(cells) : cells[k] # "top"
        BY <4>2 DEF name
      <4> HIDE DEF cells
      <4>4. QED
        BY <4>3, TopDesigns
    <3> HIDE DEF t
    <3>5. ram \in OpenC910s /\ wrapper \in OpenC910s /\ t \in OpenC910s
      BY <3>2, <3>3, <3>4 DEF IsDesign, OpenC910s
    <3>6. /\ \A id \in ModuleIds(ram) : Module(ram, id) \in OpenC910s
          /\ \A id \in ModuleIds(wrapper) : Module(wrapper, id) \in OpenC910s
          /\ \A id \in ModuleIds(t) : Module(t, id) \in OpenC910s
      BY <3>2, <3>3, <3>4, <3>5
    <3>7. IsDesign(ram \o wrapper) /\ \A id \in ModuleIds(ram \o wrapper) : Module(ram \o wrapper, id) \in OpenC910s
      BY <3>2, <3>3, <3>6, JoinedDesigns
    <3>8. /\ IsDesign(ram \o wrapper \o t)
          /\ \A id \in ModuleIds(ram \o wrapper \o t) : Module(ram \o wrapper \o t, id) \in OpenC910s
      BY <3>4, <3>6, <3>7, JoinedDesigns
    <3>9. /\ IsDesign(text)
          /\ \A id \in ModuleIds(text) : OpenC910Module(Module(text, id)) /\ ClockedModule(Module(text, id))
      BY <3>1, <3>8 DEF t, OpenC910s
    <3>10. ~Manual
      BY <2>1 DEF Manual
    <3>11. QED
      BY <2>1, <3>9, <3>10 DEF TextInv, PortsAsWritten
  <2>2. CASE /\ design \in DOMAIN Tables /\ stage = "annotate"
             /\ \E n \in 1 .. 3 : \E names \in [1 .. n -> Annotable], missing \in {{}, {"RW0_wmask", "W0_mask"}} :
                  /\ IsInjective(names)
                  /\ text = ChipTexts(design, names, missing) \o Top(names)
    <3>0. PICK n \in 1 .. 3 :
            \E names \in [1 .. n -> Annotable], missing \in {{}, {"RW0_wmask", "W0_mask"}} :
              text = ChipTexts(design, names, missing) \o Top(names)
      BY <2>2
    <3>1. PICK names \in [1 .. n -> Annotable], missing \in {{}, {"RW0_wmask", "W0_mask"}} :
            text = ChipTexts(design, names, missing) \o Top(names)
      BY <3>0
    <3>2. IsDesign(text) /\ \A id \in ModuleIds(text) : Module(text, id) \in Chipyards(design)
      BY <2>2, <3>1, ChipTextsDesigns
    <3>3. design \in {"rocket", "boom"} /\ Manual
      BY <2>2 DEF Tables, Manual
    <3>4. QED
      BY <2>2, <3>2, <3>3 DEF TextInv, PortsAsWritten, Chipyards
  <2>3. QED
    BY <2>1, <2>2 DEF Init
<1>4. Considered = {}
  BY <1>1 DEF Considered
<1>5. Accounted
  BY <1>1, <1>2, <1>4 DEF Accounted
<1>6. Declared /\ ShadowedOnRoles
  BY <1>1, <1>4 DEF Declared, ShadowedOnRoles
<1>7. PinsInv
  BY <1>2, <1>3 DEF PinsInv
<1>8. QED
  BY <1>1, <1>2, <1>3, <1>5, <1>6, <1>7 DEF PassInv

-----------------------------------------------------------------------------
(* The tables. *)

\* No two ports of a table have the same role.
LEMMA PortsOfRoles ==
  ASSUME NEW roles, \A p, q \in DOMAIN roles : roles[p] = roles[q] => p = q
  PROVE  AnnotatedPorts(roles) = {p \in DOMAIN roles : roles[p] # "CLOCK"}
<1> DEFINE R == {roles[p] : p \in DOMAIN roles}
           role_dict == [r \in R |-> CHOOSE p \in DOMAIN roles : roles[p] = r]
<1>1. Range(roles) = R
  BY DEF Range
<1>2. AnnotatedPorts(roles) = {role_dict[r] : r \in DOMAIN role_dict \ {"CLOCK"}}
  BY <1>1 DEF AnnotatedPorts
<1>3. \A p \in DOMAIN roles : roles[p] \in R /\ (CHOOSE q \in DOMAIN roles : roles[q] = roles[p]) = p
  <2>1. TAKE p \in DOMAIN roles
  <2>2. \A q \in DOMAIN roles : roles[q] = roles[p] => q = p
    OBVIOUS
  <2>3. QED
    BY <2>2
<1>4. DOMAIN role_dict = R /\ \A p \in DOMAIN roles : role_dict[roles[p]] = p
  BY <1>3
<1>5. \A r \in R : \E p \in DOMAIN roles : r = roles[p]
  OBVIOUS
<1> HIDE DEF role_dict, R
<1>6. QED
  BY <1>2, <1>3, <1>4, <1>5

LEMMA TablesInjective ==
  ASSUME NEW roles \in {RW0, RW0_masked, R0W0, R0W0_masked}
  PROVE  \A p, q \in DOMAIN roles : roles[p] = roles[q] => p = q
<1>1. \A p, q \in DOMAIN RW0 : RW0[p] = RW0[q] => p = q
  BY DEF RW0
<1>2. \A p, q \in DOMAIN R0W0 : R0W0[p] = R0W0[q] => p = q
  BY DEF R0W0
<1>3. (\A p \in DOMAIN RW0 : RW0[p] # "WRITE_MASK") /\ (\A p \in DOMAIN R0W0 : R0W0[p] # "WRITE_MASK")
  BY DEF RW0, R0W0
<1>4. \A p, q \in DOMAIN RW0_masked : RW0_masked[p] = RW0_masked[q] => p = q
  BY <1>1, <1>3 DEF RW0_masked, Masked
<1>5. \A p, q \in DOMAIN R0W0_masked : R0W0_masked[p] = R0W0_masked[q] => p = q
  BY <1>2, <1>3 DEF R0W0_masked, Masked
<1>6. QED
  BY <1>1, <1>2, <1>4, <1>5

\* The clocks of the tables are the only ports that are both annotated and unwanted.
LEMMA TableClocks ==
  ASSUME NEW roles \in {RW0, RW0_masked, R0W0, R0W0_masked}, NEW p \in DOMAIN roles
  PROVE  roles[p] = "CLOCK" <=> p \in Excluded \cup Unwanted
<1>1. CASE roles = RW0
  BY <1>1 DEF RW0, Excluded, Unwanted
<1>2. CASE roles = R0W0
  BY <1>2 DEF R0W0, Excluded, Unwanted
<1>3. CASE roles = RW0_masked
  BY <1>3 DEF RW0, RW0_masked, Masked, Excluded, Unwanted
<1>4. CASE roles = R0W0_masked
  BY <1>4 DEF R0W0, R0W0_masked, Masked, Excluded, Unwanted
<1>5. QED
  BY <1>1, <1>2, <1>3, <1>4

\* Of an annotated design, once it is written, exactly the memories of the tables are instrumented.
LEMMA TableInstrumented ==
  ASSUME PassInv, Manual, stage \in {"written", "connected"}
  PROVE  /\ DOMAIN shadowed = {id \in ModuleIds(text) : Tabled(design, text[id])}
         /\ \A id \in DOMAIN shadowed :
              LET roles == Tables[design][text[id].name]
              IN  /\ ModuleAnnotations(Module(text, id)) = {roles}
                  /\ shadowed[id] = {p \in DOMAIN roles : roles[p] # "CLOCK"}
<1>1. design \in DOMAIN Tables
  BY DEF PassInv, TextInv, Manual, Tables
<1>2. IsDesign(text) /\ \A id \in ModuleIds(text) : AnnotatedModule(Module(text, id))
  BY DEF PassInv, TextInv
<1>3. \A id \in ModuleIds(text) : Module(text, id)[1] = text[id]
  BY <1>2, ModuleLines
<1>4. \A id \in ModuleIds(text) :
        ModuleAnnotations(Module(text, id))
          = IF Tabled(design, text[id]) THEN {Tables[design][text[id].name]} ELSE {}
  BY <1>2, <1>3 DEF AnnotatedModule
<1>5. AnnotatedIds = {id \in ModuleIds(text) : Tabled(design, text[id])}
  BY <1>4 DEF AnnotatedIds
<1>6. DOMAIN shadowed = AnnotatedIds
  <2>1. pending = <<>> /\ skipped = {} /\ Considered = AnnotatedIds
    BY DEF PassInv, Accounted
  <2>2. ToSet(pending) = {}
    BY <2>1, EmptySeqSet
  <2>3. QED
    BY <2>1, <2>2 DEF Considered
<1>7. ASSUME NEW id \in DOMAIN shadowed
      PROVE  LET roles == Tables[design][text[id].name]
             IN  /\ ModuleAnnotations(Module(text, id)) = {roles}
                 /\ shadowed[id] = {p \in DOMAIN roles : roles[p] # "CLOCK"}
  <2> DEFINE roles == Tables[design][text[id].name]
  <2>1. id \in ModuleIds(text) /\ Tabled(design, text[id])
    BY <1>5, <1>6
  <2>2. ModuleAnnotations(Module(text, id)) = {roles}
    BY <1>4, <2>1
  <2>3. roles \in {RW0, RW0_masked, R0W0, R0W0_masked}
    BY <1>1, <2>1, TableRoles DEF Tabled
  <2>4. shadowed[id] = TaintPorts(Module(text, id))
    BY DEF PassInv, ShadowedOnRoles
  <2> HIDE DEF roles
  <2>5. TaintPorts(Module(text, id)) = AnnotatedPorts(roles)
    BY <2>2 DEF TaintPorts
  <2>6. AnnotatedPorts(roles) = {p \in DOMAIN roles : roles[p] # "CLOCK"}
    BY <2>3, TablesInjective, PortsOfRoles
  <2>7. QED
    BY <2>2, <2>4, <2>5, <2>6 DEF roles
<1>8. QED
  BY <1>5, <1>6, <1>7

LEMMA PassInvTables == PassInv => TablesObeyed
  BY TableInstrumented DEF TablesObeyed

-----------------------------------------------------------------------------
(* Pins. *)

\* The ports a memory of openC910 gets its taint ports for.
DataPorts == {"PortAAddr", "PortADataIn", "PortAWriteEnable", "PortADataOut"}

\* Where the ports of a clocked module stand.
LEMMA ClockedPorts ==
  ASSUME NEW m \in Seq(Lines), OpenC910Module(m), ClockedModule(m), Numbers("posedge", m) # {}
  PROVE  /\ \A k \in 2 .. 6 : k \in OutsideFunctions(m)
         /\ \A f \in Numbers("function", m) : f > 6
         /\ Numbers("output", m) = {6} /\ m[6].kind = "output" /\ m[6].name = "PortADataOut"
         /\ \A k \in 2 .. 5 : m[k].kind = "input"
         /\ m[2].name = "PortAClk" /\ m[3].name = "PortAAddr"
         /\ m[4].name = "PortADataIn" /\ m[5].name = "PortAWriteEnable"
         /\ \A k \in Numbers("input", m) \cap OutsideFunctions(m) : m[k].name \in RamInputs \cup Resets
<1>1. /\ Len(m) >= 6 /\ (\A k \in 1 .. 5 : m[k + 1] = RamPorts[k])
      /\ Numbers("output", m) = {6}
      /\ \A f \in Numbers("function", m) : f > 6
  BY DEF OpenC910Module, ClockedModule
<1>2. Len(m) \in Nat /\ DOMAIN m = 1 .. Len(m)
  BY LenProperties
<1>3. /\ m[2] = In("PortAClk", 0) /\ m[3] = In("PortAAddr", 2) /\ m[4] = In("PortADataIn", 7)
      /\ m[5] = In("PortAWriteEnable", 0) /\ m[6] = Out("PortADataOut", 7)
  <2>1. /\ 1 \in 1 .. 5 /\ 2 \in 1 .. 5 /\ 3 \in 1 .. 5 /\ 4 \in 1 .. 5 /\ 5 \in 1 .. 5
        /\ 1 + 1 = 2 /\ 2 + 1 = 3 /\ 3 + 1 = 4 /\ 4 + 1 = 5 /\ 5 + 1 = 6
    OBVIOUS
  <2>2. /\ m[2] = RamPorts[1] /\ m[3] = RamPorts[2] /\ m[4] = RamPorts[3]
        /\ m[5] = RamPorts[4] /\ m[6] = RamPorts[5]
    BY <1>1, <2>1
  <2>3. QED
    BY <2>2, RamPortNames
<1>4. /\ m[6].kind = "output" /\ m[6].name = "PortADataOut"
      /\ m[2].kind = "input" /\ m[3].kind = "input" /\ m[4].kind = "input" /\ m[5].kind = "input"
      /\ m[2].name = "PortAClk" /\ m[3].name = "PortAAddr"
      /\ m[4].name = "PortADataIn" /\ m[5].name = "PortAWriteEnable"
  BY <1>3 DEF In, Out
<1>5. \A k \in 2 .. 6 : k = 2 \/ k = 3 \/ k = 4 \/ k = 5 \/ k = 6
  OBVIOUS
<1>6. \A k \in 2 .. 6 : k \in OutsideFunctions(m)
  <2>1. TAKE k \in 2 .. 6
  <2>2. k \in DOMAIN m /\ m[k].kind \in {"input", "output"}
    BY <1>1, <1>2, <1>4, <1>5
  <2>3. k \notin Numbers("endfunction", m)
    BY <2>2 DEF Numbers
  <2>4. \A f \in 1 .. k : m[f].kind # "function"
    <3>1. SUFFICES ASSUME NEW f \in 1 .. k, m[f].kind = "function" PROVE FALSE
      OBVIOUS
    <3>2. f \in DOMAIN m /\ ~(f > 6)
      BY <1>1, <1>2
    <3>3. f \in Numbers("function", m)
      BY <3>1, <3>2 DEF Numbers
    <3>4. QED
      BY <1>1, <3>2, <3>3
  <2>5. QED
    BY <2>2, <2>3, <2>4 DEF OutsideFunctions, Outside
<1>7. ASSUME NEW k \in Numbers("input", m) \cap OutsideFunctions(m)
      PROVE  m[k].name \in RamInputs \cup Resets
  <2>1. SUFFICES ASSUME k - 1 \in Numbers("function", m) PROVE FALSE
    BY DEF ClockedModule
  <2>2. k \in Nat /\ k - 1 \in 1 .. k /\ m[k - 1].kind = "function"
    BY <1>2, <2>1 DEF Numbers
  <2>3. PICK e \in Numbers("endfunction", m) : k - 1 < e /\ e < k
    BY <2>2 DEF OutsideFunctions, Outside
  <2>4. e \in Nat
    BY <1>2 DEF Numbers
  <2>5. QED
    BY <2>2, <2>3, <2>4
<1>8. \A k \in 2 .. 5 : m[k].kind = "input"
  <2>1. \A k \in 2 .. 5 : k = 2 \/ k = 3 \/ k = 4 \/ k = 5
    OBVIOUS
  <2>2. QED
    BY <1>4, <2>1
<1>9. QED
  BY <1>1, <1>4, <1>6, <1>7, <1>8

LEMMA ClockedPins ==
  ASSUME NEW m \in Seq(Lines), OpenC910Module(m), ClockedModule(m), Numbers("posedge", m) # {}
  PROVE  PinsLeft(m) = DataPorts
<1> DEFINE P == {m[k].name : k \in {j \in OutsideFunctions(m) : m[j].kind \in {"input", "output"}}}
<1>1. P \subseteq RamInputs \cup Resets \cup {"PortADataOut"}
  <2>1. ASSUME NEW k \in OutsideFunctions(m), m[k].kind \in {"input", "output"}
        PROVE  m[k].name \in RamInputs \cup Resets \cup {"PortADataOut"}
    <3>1. k \in DOMAIN m
      BY DEF OutsideFunctions, Outside
    <3>2. CASE m[k].kind = "input"
      <4>1. k \in Numbers("input", m)
        BY <3>1, <3>2 DEF Numbers
      <4>2. QED
        BY <4>1, ClockedPorts
    <3>3. CASE m[k].kind = "output"
      <4>1. k \in Numbers("output", m)
        BY <3>1, <3>3 DEF Numbers
      <4>2. QED
        BY <4>1, ClockedPorts
    <3>4. QED
      BY <2>1, <3>2, <3>3
  <2>2. QED
    BY <2>1
<1>2. DataPorts \subseteq P
  <2>1. /\ 3 \in 2 .. 6 /\ 4 \in 2 .. 6 /\ 5 \in 2 .. 6 /\ 6 \in 2 .. 6
        /\ 3 \in 2 .. 5 /\ 4 \in 2 .. 5 /\ 5 \in 2 .. 5
    OBVIOUS
  <2>2. /\ \A k \in 2 .. 6 : k \in OutsideFunctions(m)
        /\ m[6].kind = "output" /\ m[6].name = "PortADataOut"
        /\ \A k \in 2 .. 5 : m[k].kind = "input"
        /\ m[3].name = "PortAAddr" /\ m[4].name = "PortADataIn" /\ m[5].name = "PortAWriteEnable"
    BY ClockedPorts
  <2>3. /\ "PortAAddr" \in P /\ "PortADataIn" \in P /\ "PortAWriteEnable" \in P /\ "PortADataOut" \in P
    BY <2>1, <2>2
  <2> HIDE DEF P
  <2>4. QED
    BY <2>3 DEF DataPorts
<1>3. PinsLeft(m) = P \ (Excluded \cup Unwanted)
  BY DEF PinsLeft
<1> HIDE DEF P
<1>4. QED
  BY <1>1, <1>2, <1>3 DEF RamInputs, Resets, DataPorts, Excluded, Unwanted

\* The reset of the memory itself is still tested below the clock after the removal of one function.
LEMMA ResetStillTested ==
  ASSUME NEW m \in Seq(Lines), FunctionsPaired(m), FunctionsInBlock(m), ResetTested(m),
         \A e, f \in Numbers("function", m) : ~(e < f)
  PROVE  "rst_ni" \in NativeResets(remove_functions(m))
<1> DEFINE F == Numbers("function", m)
           r == remove_functions(m)
<1>1. PICK k \in DOMAIN m :
        /\ k + 1 \in DOMAIN m
        /\ m[k].kind = "posedge" /\ m[k + 1].kind = "ifnot" /\ m[k + 1].name = "rst_ni"
        /\ \/ \A f \in F : k + 1 < f
           \/ \A f \in F : f + 2 < k
  BY DEF ResetTested
<1>2. Len(m) \in Nat /\ DOMAIN m = 1 .. Len(m) /\ F \subseteq 1 .. Len(m)
  BY LenProperties DEF Numbers
<1>3. /\ \A p \in DOMAIN m : (\A f \in F : p < f) => p \in DOMAIN r /\ r[p] = m[p]
      /\ \A f : F = {f} => \A p \in f + 3 .. Len(m) : p - 3 \in DOMAIN r /\ r[p - 3] = m[p]
  BY RemovedBlock
<1>4. \A e, f \in F : ~(e < f)
  OBVIOUS
<1>5. r \in Seq(Lines)
  BY RemovedLines
<1>6. Len(r) \in Nat /\ DOMAIN r = 1 .. Len(r)
  BY <1>5, LenProperties
<1> HIDE DEF F, r
<1>7. k \in Nat \ {0}
  BY <1>2
<1>8. \E q : /\ q \in DOMAIN r /\ q + 1 \in DOMAIN r
             /\ r[q].kind = "posedge" /\ r[q + 1].kind = "ifnot" /\ r[q + 1].name = "rst_ni"
  <2>1. CASE \A f \in F : k + 1 < f
    <3>1. (\A f \in F : k + 1 < f) /\ (\A f \in F : k < f)
      <4>1. \A f \in F : f \in Nat
        BY <1>2
      <4>2. QED
        BY <1>7, <2>1, <4>1
    <3>2. k \in DOMAIN r /\ r[k] = m[k]
      BY <1>3, <3>1
    <3>3. k + 1 \in DOMAIN r /\ r[k + 1] = m[k + 1]
      BY <1>1, <1>3, <3>1
    <3>4. QED
      BY <1>1, <3>2, <3>3
  <2>2. CASE F # {} /\ \A f \in F : f + 2 < k
    <3>1. PICK f \in F : F = {f}
      <4>1. PICK f \in F : TRUE
        BY <2>2
      <4>2. \A e \in F : e = f
        <5>1. TAKE e \in F
        <5>2. e \in Nat /\ f \in Nat /\ ~(e < f) /\ ~(f < e)
          BY <1>2, <1>4
        <5>3. QED
          BY <5>2
      <4>3. QED
        BY <4>2
    <3>2. f \in Nat /\ f + 2 < k
      BY <1>2, <2>2
    <3>3. k \in f + 3 .. Len(m) /\ k + 1 \in f + 3 .. Len(m)
      BY <1>1, <1>2, <1>7, <3>2
    <3>4. k - 3 \in DOMAIN r /\ r[k - 3] = m[k]
      BY <1>3, <3>1, <3>3
    <3>5. k + 1 - 3 \in DOMAIN r /\ r[k + 1 - 3] = m[k + 1]
      <4> DEFINE p == k + 1
      <4>1. p \in f + 3 .. Len(m)
        BY <3>3
      <4> HIDE DEF p
      <4>2. p - 3 \in DOMAIN r /\ r[p - 3] = m[p]
        BY <1>3, <3>1, <4>1
      <4>3. QED
        BY <4>2 DEF p
    <3>6. k + 1 - 3 = k - 3 + 1
      BY <1>7
    <3>7. k - 3 + 1 \in DOMAIN r /\ r[k - 3 + 1] = m[k + 1]
      BY <3>5, <3>6
    <3>8. QED
      BY <1>1, <3>4, <3>7
  <2>3. QED
    BY <1>1, <2>1, <2>2
<1>9. PICK q : /\ q \in DOMAIN r /\ q + 1 \in DOMAIN r
               /\ r[q].kind = "posedge" /\ r[q + 1].kind = "ifnot" /\ r[q + 1].name = "rst_ni"
  BY <1>8
<1>10. q \in Nat \ {0} /\ q + 1 > 1 /\ q + 1 - 1 = q
  BY <1>6, <1>9
<1> DEFINE j == q + 1
<1>11. /\ j \in DOMAIN r /\ j > 1 /\ j - 1 = q
       /\ r[j].kind = "ifnot" /\ r[j].name = "rst_ni"
  BY <1>9, <1>10
<1> HIDE DEF j
<1>12. r[j - 1].kind = "posedge" /\ r[j].name \in Resets
  BY <1>9, <1>11 DEF Resets
<1>13. QED
  BY <1>11, <1>12 DEF NativeResets, r

\* The first lines of a clocked module survive the removal of its functions.
LEMMA PortsSurvive ==
  ASSUME NEW m \in Seq(Lines), OpenC910Module(m), ClockedModule(m), Numbers("posedge", m) # {},
         FunctionsPaired(m)
  PROVE  LET r == remove_functions(m)
         IN  /\ DataPorts \subseteq Names("input", ToSet(r)) \cup Names("output", ToSet(r))
             /\ "PortADataOut" \in Names("output", ToSet(r))
<1> DEFINE r == remove_functions(m)
           F == Numbers("function", m)
<1>1. \A p \in DOMAIN m : (\A f \in F : p < f) => p \in DOMAIN r /\ r[p] = m[p]
  BY RemovedBlock DEF ClockedModule
<1>2. /\ \A k \in 2 .. 6 : k \in OutsideFunctions(m)
      /\ \A f \in F : f > 6
      /\ m[6].kind = "output" /\ m[6].name = "PortADataOut"
      /\ \A k \in 2 .. 5 : m[k].kind = "input"
      /\ m[3].name = "PortAAddr" /\ m[4].name = "PortADataIn" /\ m[5].name = "PortAWriteEnable"
  BY ClockedPorts
<1>3. F \subseteq Nat
  BY NumbersFinite
<1>4. \A k \in 2 .. 6 : k \in DOMAIN m
  BY <1>2 DEF OutsideFunctions, Outside
<1> HIDE DEF F, r
<1>5. \A k \in 2 .. 6 : k \in DOMAIN r /\ r[k] = m[k]
  <2>1. TAKE k \in 2 .. 6
  <2>2. \A f \in F : k < f
    BY <1>2, <1>3
  <2>3. QED
    BY <1>1, <1>4, <2>2
<1>6. ASSUME NEW k \in 2 .. 6, NEW kind, m[k].kind = kind
      PROVE  m[k].name \in Names(kind, ToSet(r))
  <2>1. r[k] \in ToSet(r) /\ r[k] = m[k]
    BY <1>5 DEF ToSet
  <2>2. QED
    BY <1>6, <2>1 DEF Names, Of
<1>7. /\ 3 \in 2 .. 6 /\ 4 \in 2 .. 6 /\ 5 \in 2 .. 6 /\ 6 \in 2 .. 6
      /\ 3 \in 2 .. 5 /\ 4 \in 2 .. 5 /\ 5 \in 2 .. 5
  OBVIOUS
<1>8. /\ m[3].name \in Names("input", ToSet(r)) /\ m[4].name \in Names("input", ToSet(r))
      /\ m[5].name \in Names("input", ToSet(r)) /\ m[6].name \in Names("output", ToSet(r))
  BY <1>2, <1>6, <1>7
<1>9. QED
  BY <1>2, <1>8 DEF DataPorts, r

\* instrument_sram on a memory of openC910: the clock, the resets and the arguments of functions
\* get no taint port.
LEMMA ClockedTaintPorts ==
  ASSUME ~Manual, NEW m \in Seq(Lines), OpenC910Module(m), ClockedModule(m), "roles" \in Analysis(m)
  PROVE  Numbers("posedge", m) # {} /\ TaintPorts(m) = DataPorts
<1> DEFINE r == remove_functions(m)
           seen == identify_signal_syncs_and_directions(r)
           ins == Names("input", ToSet(r))
           outs == Names("output", ToSet(r))
           F == Numbers("function", m)
           outside == {m[k].name : k \in Numbers("input", m) \cap OutsideFunctions(m)}
<1>1. FunctionsPaired(m) /\ seen.ok /\ seen.inputs \subseteq outside
  BY DEF Analysis
<1>2. seen.inputs = ins \ (Clocks(r) \cup NativeResets(r) \cup {"taint_meta_reset"}) /\ seen.outputs = outs
  BY DEF identify_signal_syncs_and_directions
<1>3. Clocks(r) # {}
  BY <1>1 DEF identify_signal_syncs_and_directions
<1>4. r \in Seq(Lines) /\ ToSet(r) \subseteq ToSet(m)
  BY <1>1, RemovedAreLines
<1>5. TaintPorts(m) = seen.inputs \cup seen.outputs
  BY DEF TaintPorts
<1> HIDE DEF seen
<1>6. \A kind : Names(kind, ToSet(r)) \subseteq {m[k].name : k \in Numbers(kind, m)}
  <2>1. \A kind : Names(kind, ToSet(r)) \subseteq Names(kind, ToSet(m))
    BY <1>4 DEF Names, Of
  <2>2. QED
    BY <2>1, NamesOfLines
<1>7. Numbers("posedge", m) # {}
  BY <1>3, <1>6 DEF Clocks
<1>8. Clocks(r) = {"PortAClk"}
  <2>1. \A k \in Numbers("posedge", m) : m[k].name = "PortAClk"
    BY <1>7 DEF ClockedModule
  <2>2. Clocks(r) \subseteq {"PortAClk"}
    BY <1>6, <2>1 DEF Clocks
  <2>3. QED
    BY <1>3, <2>2
<1>9. NativeResets(r) \subseteq Resets
  BY DEF NativeResets
<1>10. outside \subseteq RamInputs \cup Resets
  BY <1>7, ClockedPorts
<1>11. outs = {"PortADataOut"}
  <2>1. \A k \in Numbers("output", m) : m[k].name = "PortADataOut"
    BY <1>7, ClockedPorts
  <2>2. outs \subseteq {"PortADataOut"}
    BY <1>6, <2>1
  <2>3. "PortADataOut" \in outs
    BY <1>1, <1>7, PortsSurvive
  <2>4. QED
    BY <2>2, <2>3
<1>12. DataPorts \subseteq ins \cup outs
  BY <1>1, <1>7, PortsSurvive
<1> HIDE DEF outside, ins, outs
<1>13. FunctionsInBlock(m)
  BY <1>7 DEF ClockedModule
<1>14. ASSUME NEW e \in F, NEW f \in F, e < f
       PROVE  FALSE
  <2>1. \E q \in DOMAIN r : r[q] = In("a", 7)
    BY <1>1, <1>13, <1>14, RemovedBlock
  <2>2. In("a", 7) \in ToSet(r)
    BY <2>1 DEF ToSet
  <2>3. "a" \in ins
    BY <2>2 DEF ins, Names, Of, In
  <2>4. "a" \in seen.inputs
    BY <1>2, <1>8, <1>9, <2>3 DEF Resets
  <2>5. "a" \in RamInputs \cup Resets
    BY <1>1, <1>10, <2>4
  <2>6. QED
    BY <2>5 DEF RamInputs, Resets
<1>15. "rst_ni" \in ins => "rst_ni" \in NativeResets(r)
  <2>1. SUFFICES ASSUME "rst_ni" \in ins PROVE "rst_ni" \in NativeResets(r)
    OBVIOUS
  <2>2. "rst_ni" \in Names("input", ToSet(m))
    BY <1>4, <2>1 DEF ins, Names, Of
  <2>3. ResetTested(m)
    BY <1>7, <2>2 DEF ClockedModule
  <2>4. QED
    BY <1>1, <1>13, <1>14, <2>3, ResetStillTested
<1>16. seen.inputs = {"PortAAddr", "PortADataIn", "PortAWriteEnable"}
  <2>1. seen.inputs \subseteq {"PortAAddr", "PortADataIn", "PortAWriteEnable"}
    <3>1. seen.inputs \subseteq RamInputs \cup Resets
      BY <1>1, <1>10
    <3>2. "PortAClk" \notin seen.inputs /\ "taint_meta_reset" \notin seen.inputs /\ "rst_ni" \notin seen.inputs
      BY <1>2, <1>8, <1>15
    <3>3. QED
      BY <3>1, <3>2 DEF RamInputs, Resets
  <2>2. \A p \in {"PortAAddr", "PortADataIn", "PortAWriteEnable"} : p \in seen.inputs
    <3>1. TAKE p \in {"PortAAddr", "PortADataIn", "PortAWriteEnable"}
    <3>2. p \in ins
      BY <1>11, <1>12 DEF DataPorts
    <3>3. p \notin Clocks(r) \cup NativeResets(r) \cup {"taint_meta_reset"}
      BY <1>8, <1>9 DEF Resets
    <3>4. QED
      BY <1>2, <3>2, <3>3
  <2>3. QED
    BY <2>1, <2>2
<1>17. QED
  BY <1>2, <1>5, <1>7, <1>11, <1>16 DEF DataPorts

\* replace_unwanted_t0s.py keeps the first pin of an instance, but that one is never a taint pin.
LEMMA ConnectedPins ==
  ASSUME NEW m
  PROVE  {c.port : c \in {d \in replace_unwanted_t0s(Connections(m)) : d.taint}} = PinsLeft(m)
<1> DEFINE ports == {k \in OutsideFunctions(m) : m[k].kind \in {"input", "output"}}
           Pin(k, taint) == [port |-> m[k].name, taint |-> taint,
                             first |-> ~taint /\ \A j \in ports : k <= j]
           left == {c.port : c \in {d \in replace_unwanted_t0s(Connections(m)) : d.taint}}
<1>1. Connections(m) = {Pin(k, FALSE) : k \in ports} \cup
                       {Pin(k, TRUE) : k \in {j \in ports : m[j].name \notin Excluded}}
  BY DEF Connections
<1>2. \A k : /\ Pin(k, TRUE).port = m[k].name /\ Pin(k, TRUE).taint /\ ~Pin(k, TRUE).first
             /\ ~Pin(k, FALSE).taint
  OBVIOUS
<1>3. PinsLeft(m) = {m[k].name : k \in ports} \ (Excluded \cup Unwanted)
  BY DEF PinsLeft
<1> HIDE DEF ports, Pin
<1>4. ASSUME NEW p \in left PROVE p \in PinsLeft(m)
  <2>1. PICK c \in Connections(m) : c.port = p /\ c.taint /\ (c.port \in Unwanted => c.first)
    BY DEF replace_unwanted_t0s
  <2>2. PICK k \in ports : c = Pin(k, TRUE) /\ m[k].name \notin Excluded
    BY <1>1, <1>2, <2>1
  <2>3. QED
    BY <1>2, <1>3, <2>1, <2>2
<1>5. ASSUME NEW p \in PinsLeft(m) PROVE p \in left
  <2>1. PICK k \in ports : p = m[k].name /\ p \notin Excluded /\ p \notin Unwanted
    BY <1>3
  <2>2. Pin(k, TRUE) \in Connections(m)
    BY <1>1, <2>1
  <2>3. Pin(k, TRUE) \in {d \in replace_unwanted_t0s(Connections(m)) : d.taint}
    BY <1>2, <2>1, <2>2 DEF replace_unwanted_t0s
  <2>4. QED
    BY <1>2, <2>1, <2>3
<1>6. QED
  BY <1>4, <1>5

\* The ports of a Chipyard memory without functions, all of them declared.
LEMMA PlainPins ==
  ASSUME NEW d \in DOMAIN Tables, NEW m \in Seq(Lines), PlainModule(d, m), Tabled(d, m[1]),
         NEW roles, roles = Tables[d][m[1].name],
         DOMAIN roles \subseteq Names("input", Content(m)) \cup Names("output", Content(m))
  PROVE  PinsLeft(m) = {p \in DOMAIN roles : roles[p] # "CLOCK"}
<1> DEFINE ports == {k \in OutsideFunctions(m) : m[k].kind \in {"input", "output"}}
<1>1. PinsLeft(m) = {m[k].name : k \in ports} \ (Excluded \cup Unwanted)
  BY DEF PinsLeft
<1>2. \A k \in DOMAIN m :
        /\ m[k].kind # "function"
        /\ m[k].kind \in {"input", "output"} => m[k].name \in DOMAIN roles \cup {"W0_clk", "taint_meta_reset"}
  BY DEF PlainModule, ToSet
<1>3. roles \in {RW0, RW0_masked, R0W0, R0W0_masked}
  BY TableRoles DEF Tabled
<1>4. Len(m) \in Nat /\ DOMAIN m = 1 .. Len(m)
  BY LenProperties
<1>5. \A k \in DOMAIN m : m[k].kind \in {"input", "output"} => k \in OutsideFunctions(m)
  <2>1. SUFFICES ASSUME NEW k \in DOMAIN m, m[k].kind \in {"input", "output"}
                 PROVE  k \in OutsideFunctions(m)
    OBVIOUS
  <2>2. k \notin Numbers("endfunction", m)
    BY <2>1 DEF Numbers
  <2>3. \A f \in 1 .. k : m[f].kind # "function"
    BY <1>2, <1>4
  <2>4. QED
    BY <2>2, <2>3 DEF OutsideFunctions, Outside
<1>6. \A k \in OutsideFunctions(m) : k \in DOMAIN m
  BY DEF OutsideFunctions, Outside
<1>7. ports = {k \in DOMAIN m : m[k].kind \in {"input", "output"}}
  BY <1>5, <1>6
<1> HIDE DEF ports
<1>8. \A p \in DOMAIN roles : \E k \in ports : p = m[k].name
  BY <1>7, ContentLines DEF Names, Of, ToSet
<1>9. \A p \in DOMAIN roles : roles[p] = "CLOCK" <=> p \in Excluded \cup Unwanted
  BY <1>3, TableClocks
<1>10. \A k \in ports : m[k].name \in DOMAIN roles \/ m[k].name \in Unwanted
  BY <1>2, <1>7 DEF Unwanted
<1>11. QED
  BY <1>1, <1>8, <1>9, <1>10

LEMMA PinsInvMatch == PassInv /\ PinsInv => PinsMatch
<1> SUFFICES ASSUME PassInv, PinsInv, stage = "connected", NEW id \in DOMAIN shadowed
             PROVE  pins[id] = shadowed[id]
  BY DEF PinsMatch
<1> DEFINE m == Module(text, id)
<1>1. id \in Considered /\ id \in ModuleIds(text)
  BY ConsideredAreModules DEF Considered
<1>2. m \in Seq(Lines) /\ m[1] = text[id]
  BY <1>1, ModuleLines DEF PassInv, TextInv
<1>3. pins[id] = PinsLeft(m)
  BY DEF PinsInv
<1>4. IF Manual THEN PlainModule(design, m) ELSE ClockedModule(m)
  BY <1>1 DEF PinsInv, PortsAsWritten
<1>5. CASE ~Manual
  <2>1. OpenC910Module(m)
    BY <1>1, <1>5 DEF PassInv, TextInv
  <2>2. shadowed[id] = TaintPorts(m) /\ "roles" \in Analysis(m)
    BY DEF PassInv, ShadowedOnRoles
  <2> HIDE DEF m
  <2>3. Numbers("posedge", m) # {} /\ TaintPorts(m) = DataPorts
    BY <1>2, <1>4, <1>5, <2>1, <2>2, ClockedTaintPorts
  <2>4. PinsLeft(m) = DataPorts
    BY <1>2, <1>4, <1>5, <2>1, <2>3, ClockedPins
  <2>5. QED
    BY <1>3, <2>2, <2>3, <2>4
<1>6. CASE Manual
  <2> DEFINE roles == Tables[design][text[id].name]
  <2>1. Tabled(design, text[id])
    BY <1>6, TableInstrumented
  <2>2. ModuleAnnotations(m) = {roles} /\ shadowed[id] = {p \in DOMAIN roles : roles[p] # "CLOCK"}
    BY <1>6, TableInstrumented
  <2>3. design \in DOMAIN Tables
    BY <1>6 DEF PassInv, TextInv, Manual, Tables
  <2>4. Undeclared(m) = {}
    BY <1>1, <1>6 DEF PassInv, Declared
  <2> HIDE DEF m, roles
  <2>5. DOMAIN roles \subseteq Names("input", Content(m)) \cup Names("output", Content(m))
    <3> DEFINE declared == Names("input", Content(m)) \cup Names("output", Content(m))
               annotated == UNION {DOMAIN s : s \in ModuleAnnotations(m)}
    <3>1. Undeclared(m) = annotated \ declared
      BY DEF Undeclared
    <3>2. DOMAIN roles \subseteq annotated
      BY <2>2
    <3> HIDE DEF declared, annotated
    <3>3. DOMAIN roles \subseteq declared
      BY <2>4, <3>1, <3>2
    <3>4. QED
      BY <3>3 DEF declared
  <2>6. roles = Tables[design][m[1].name] /\ Tabled(design, m[1])
    BY <1>2, <2>1 DEF roles
  <2>7. PinsLeft(m) = {p \in DOMAIN roles : roles[p] # "CLOCK"}
    BY <1>2, <1>4, <1>6, <2>3, <2>5, <2>6, PlainPins
  <2>8. QED
    BY <1>3, <2>2, <2>7
<1>7. QED
  BY <1>5, <1>6

-----------------------------------------------------------------------------
(* Every step preserves the invariant. *)

LEMMA StutterKeeps == PassInv /\ UNCHANGED vars => PassInv'
<1> SUFFICES ASSUME PassInv, UNCHANGED vars PROVE PassInv'
  OBVIOUS
<1>1. UNCHANGED <<design, text, stage, pending, removed, skipped, shadowed, pins>>
  BY DEF vars
<1>2. /\ Manual' = Manual /\ ModuleIds(text)' = ModuleIds(text)
      /\ Candidates' = Candidates /\ Fakes' = Fakes /\ AnnotatedIds' = AnnotatedIds
      /\ \A id : Module(text, id)' = Module(text, id)
  BY <1>1, SameText
<1>3. TextInv'
  BY <1>1 DEF PassInv, TextInv, Manual, OpenC910Module, Cells, AnnotatedModule
<1>4. Accounted' /\ Declared' /\ ShadowedOnRoles'
  BY <1>1, <1>2 DEF PassInv, Accounted, Declared, ShadowedOnRoles, Considered, TaintPorts, Analysis,
                    Manual
<1>5. QED
  BY <1>1, <1>2, <1>3, <1>4 DEF PassInv

LEMMA StepPassInv == PassInv /\ [Next]_vars => PassInv'
<1> SUFFICES ASSUME PassInv, [Next]_vars PROVE PassInv'
  OBVIOUS
<1>1. CASE AnnotateMemories
  BY <1>1, AnnotateMemoriesKeeps
<1>2. CASE SelectCandidates
  BY <1>2, SelectCandidatesKeeps
<1>3. CASE SelectAnnotated
  BY <1>3, SelectAnnotatedKeeps
<1>4. CASE Instrument
  BY <1>4, InstrumentKeeps
<1>5. CASE WriteDesign
  BY <1>5, WriteDesignKeeps
<1>6. CASE ConnectTaint
  BY <1>6, ConnectTaintKeeps
<1>7. CASE UNCHANGED vars
  BY <1>7, StutterKeeps
<1>8. QED
  BY <1>1, <1>2, <1>3, <1>4, <1>5, <1>6, <1>7 DEF Next

LEMMA SameShapes ==
  ASSUME PortsAsWritten, UNCHANGED <<design, text>>
  PROVE  PortsAsWritten'
<1>1. /\ Manual' = Manual /\ ModuleIds(text)' = ModuleIds(text) /\ design' = design
      /\ \A id : Module(text, id)' = Module(text, id)
  BY SameText
<1>2. \A id \in ModuleIds(text)' :
        LET m == Module(text, id)'
        IN  IF Manual' THEN PlainModule(design', m) ELSE ClockedModule(m)
  BY <1>1 DEF PortsAsWritten
<1>3. QED
  BY <1>2 DEF PortsAsWritten

\* Steps that leave the text alone and do not connect anything leave the modules as they are.
LEMMA PinsKept ==
  ASSUME PinsInv, UNCHANGED <<design, text>>, stage' # "connected"
  PROVE  PinsInv'
<1>1. PortsAsWritten'
  BY SameShapes DEF PinsInv
<1>2. QED
  BY <1>1 DEF PinsInv

LEMMA ConnectTaintPins == PinsInv /\ ConnectTaint => PinsInv'
<1> SUFFICES ASSUME PinsInv, ConnectTaint PROVE PinsInv'
  OBVIOUS
<1>1. UNCHANGED <<design, text, shadowed>>
  BY DEF ConnectTaint
<1>2. PortsAsWritten'
  BY <1>1, SameShapes DEF PinsInv
<1>3. pins' = [id \in DOMAIN shadowed |-> PinsLeft(Module(text, id))]
  BY ConnectedPins DEF ConnectTaint
<1>4. \A id \in DOMAIN shadowed' : pins'[id] = PinsLeft(Module(text, id)')
  BY <1>1, <1>3, SameText
<1>5. QED
  BY <1>2, <1>4 DEF PinsInv

LEMMA AnnotateMemoriesPins == PassInv /\ PinsInv /\ AnnotateMemories => PinsInv'
<1> SUFFICES ASSUME PassInv, PinsInv, AnnotateMemories PROVE PinsInv'
  OBVIOUS
<1>1. /\ stage = "annotate" /\ Manual /\ stage' = "select"
      /\ text' = Annotate(design, text) /\ design' = design
      /\ Manual'
  BY DEF AnnotateMemories, PassInv, TextInv, Manual
<1>2. design \in DOMAIN Tables
  BY <1>1 DEF PassInv, TextInv, Manual, Tables
<1>3. IsDesign(text) /\ \A id \in ModuleIds(text) : PlainModule(design, Module(text, id))
  BY <1>1 DEF PassInv, TextInv, PinsInv, PortsAsWritten
<1>4. PICK place : Placed(design, text, place, text')
  BY <1>1, <1>2, <1>3, AnnotatedLines DEF IsDesign
<1>5. \A id \in ModuleIds(text)' : PlainModule(design', Module(text, id)')
  BY <1>1, <1>2, <1>3, <1>4, AnnotatedPlain
<1>6. QED
  BY <1>1, <1>5 DEF PinsInv, PortsAsWritten

LEMMA StepPinsInv == PassInv /\ PinsInv /\ [Next]_vars => PinsInv'
<1> SUFFICES ASSUME PassInv, PinsInv, [Next]_vars PROVE PinsInv'
  OBVIOUS
<1>1. CASE AnnotateMemories
  BY <1>1, AnnotateMemoriesPins
<1>2. CASE SelectCandidates
  BY <1>2, PinsKept DEF SelectCandidates
<1>3. CASE SelectAnnotated
  BY <1>3, PinsKept DEF SelectAnnotated
<1>4. CASE Instrument
  <2>1. stage = "instrument" /\ stage' \in {"instrument", "aborted"} /\ UNCHANGED <<design, text>>
    BY <1>4 DEF Instrument, Abort
  <2>2. QED
    BY <2>1, PinsKept
<1>5. CASE WriteDesign
  BY <1>5, PinsKept DEF WriteDesign
<1>6. CASE ConnectTaint
  BY <1>6, ConnectTaintPins
<1>7. CASE UNCHANGED vars
  <2>1. UNCHANGED <<design, text, stage, shadowed, pins>>
    BY <1>7 DEF vars
  <2>2. PortsAsWritten'
    BY <2>1, SameShapes DEF PinsInv
  <2>3. QED
    BY <2>1, <2>2, SameText DEF PinsInv
<1>8. QED
  BY <1>1, <1>2, <1>3, <1>4, <1>5, <1>6, <1>7 DEF Next

LEMMA PassInvAlways == Spec => []PassInv
<1>1. Init => PassInv
  BY DesignAssumption, InitPassInv
<1>2. QED
  BY <1>1, StepPassInv, PTL DEF Spec

LEMMA PinsInvAlways == Spec => [](PassInv /\ PinsInv)
<1>1. Init => PassInv /\ PinsInv
  BY DesignAssumption, InitPassInv
<1>2. QED
  BY <1>1, StepPassInv, StepPinsInv, PTL DEF Spec

-----------------------------------------------------------------------------
(* Theorems. *)

\* The pass goes through its stages, and only an unfinished or failed one has candidates left;
\* what it counts as memories are modules of the design, with taint ports the design declares.
THEOREM TypeCorrect == Spec => []TypeOK
<1>1. PassInv => TypeOK
  BY PassInvTypes
<1>2. QED
  BY <1>1, PassInvAlways, PTL

\* The removal of fake memories: a module around a candidate memory stops the pass only if each
\* such instance in it is hidden below a function with an indented end, or has a name that the
\* regular expression cannot find.
THEOREM NoFakeAborts == Spec => []FakesNeverAbort
<1>1. PassInv => FakesNeverAbort
  BY PassInvFakes
<1>2. QED
  BY <1>1, PassInvAlways, PTL

\* The selection by looks: a memory of openC910 that contains no other module comes to the
\* analysis if and only if its array does not stand below a function with an indented end.
THEOREM NoMemoryOverlooked == Spec => []MemoryNotOverlooked
<1>1. PassInv => MemoryNotOverlooked
  BY PassInvOverlooksNone
<1>2. QED
  BY <1>1, PassInvAlways, PTL

\* annotate_chipyard_mems.py and what hybridift.py makes of its lines: if an annotated design is
\* written, exactly the memories of the tables are instrumented, each with the ports of its table.
THEOREM AnnotationsObeyed == Spec => []TablesObeyed
<1>1. PassInv => TablesObeyed
  BY PassInvTables
<1>2. QED
  BY <1>1, PassInvAlways, PTL

\* CellIFT and replace_unwanted_t0s.py: after the cut, the instances of an instrumented memory
\* connect exactly the taint ports hybridift.py gave it, whatever its functions, resets and table.
THEOREM PinsMatchPorts == Spec => []PinsMatch
<1>1. PassInv /\ PinsInv => PinsMatch
  BY PinsInvMatch
<1>2. QED
  BY <1>1, PinsInvAlways, PTL

=============================================================================
