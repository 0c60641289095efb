------------------------- MODULE RoleAnalysisProofs -------------------------
(***************************************************************************)
(* Proofs about the role analysis, for memories of any width and with any  *)
(* control ports: which memories it passes over, what the simulation shows *)
(* under each assignment, and which assignments are returned in the end.   *)
(***************************************************************************)
EXTENDS RoleAnalysis, NumberLemmas, SequenceTheorems

-----------------------------------------------------------------------------
(* The ports of a memory. *)

\* The ports that may have more than one bit.
Unsingle(m) == m.ports \ SingleBitRoles

LEMMA MemoryPorts ==
  ASSUME NEW m \in Memories
  PROVE  /\ m.data \in Nat \ {0} /\ m.address \in Nat /\ m.address >= 2
         /\ m.ports \subseteq PortRole /\ "INPUT_DATA" \in m.ports
         /\ \/ Unsingle(m) = {"INPUT_DATA", "COMBINED_ADDRESS_SIGNAL"}
            \/ Unsingle(m) = {"INPUT_DATA", "COMBINED_ADDRESS_SIGNAL", "BYTE_ENABLE_SIGNAL"}
            \/ Unsingle(m) = {"INPUT_DATA", "READ_ADDRESS_SIGNAL", "WRITE_ADDRESS_SIGNAL"}
            \/ Unsingle(m) = {"INPUT_DATA", "READ_ADDRESS_SIGNAL", "WRITE_ADDRESS_SIGNAL", "BYTE_ENABLE_SIGNAL"}
         /\ "BYTE_ENABLE_SIGNAL" \in m.ports => m.data > 8 /\ m.data % 8 = 0
<1>1. m.data \in DataWidths /\ m.address \in AddressWidths /\ m.ports \in PortSets
  BY DEF Memories
<1>2. PICK addresses \in {{"COMBINED_ADDRESS_SIGNAL"}, {"READ_ADDRESS_SIGNAL", "WRITE_ADDRESS_SIGNAL"}},
           controls \in Controls : m.ports = {"INPUT_DATA"} \cup addresses \cup controls
  BY <1>1 DEF PortSets
<1>3. controls \subseteq SingleBitRoles \cup {"BYTE_ENABLE_SIGNAL"}
  BY PortAssumption
<1>4. m.data \in Nat \ {0} /\ m.address \in Nat /\ m.address >= 2
  <2>1. DataWidths \subseteq Nat \ {0} /\ AddressWidths \subseteq Nat \ {0, 1}
    BY PortAssumption
  <2>2. m.data \in Nat \ {0} /\ m.address \in Nat \ {0, 1}
    BY <1>1, <2>1
  <2>3. m.address # 0 /\ m.address # 1 /\ m.address \in Nat
    BY <2>2
  <2>4. QED
    BY <2>2, <2>3
<1>5. m.ports \subseteq PortRole /\ "INPUT_DATA" \in m.ports
  BY <1>2, <1>3 DEF PortRole, AddressRoles
<1>6. Unsingle(m) = {"INPUT_DATA"} \cup addresses \cup (controls \cap {"BYTE_ENABLE_SIGNAL"})
  BY <1>2, <1>3 DEF Unsingle, SingleBitRoles
<1>7. controls \cap {"BYTE_ENABLE_SIGNAL"} \in {{}, {"BYTE_ENABLE_SIGNAL"}}
  OBVIOUS
<1>8. \/ Unsingle(m) = {"INPUT_DATA", "COMBINED_ADDRESS_SIGNAL"}
      \/ Unsingle(m) = {"INPUT_DATA", "COMBINED_ADDRESS_SIGNAL", "BYTE_ENABLE_SIGNAL"}
      \/ Unsingle(m) = {"INPUT_DATA", "READ_ADDRESS_SIGNAL", "WRITE_ADDRESS_SIGNAL"}
      \/ Unsingle(m) = {"INPUT_DATA", "READ_ADDRESS_SIGNAL", "WRITE_ADDRESS_SIGNAL", "BYTE_ENABLE_SIGNAL"}
  BY <1>6, <1>7
<1>9. "BYTE_ENABLE_SIGNAL" \in m.ports => m.data > 8 /\ m.data % 8 = 0
  BY DEF Memories
<1>10. QED
  BY <1>4, <1>5, <1>8, <1>9

LEMMA Widths ==
  ASSUME NEW m \in Memories
  PROVE  /\ Width(m, "INPUT_DATA") = m.data
         /\ Width(m, "BYTE_ENABLE_SIGNAL") = m.data \div 8
         /\ \A p \in AddressRoles : Width(m, p) = m.address
         /\ \A p \in SingleBitRoles : Width(m, p) = 1
         /\ \A p \in m.ports : Width(m, p) \in Nat
         /\ m.data > 8 /\ m.data % 8 = 0 => m.data \div 8 >= 2
<1>1. /\ m.data \in Nat \ {0} /\ m.address \in Nat /\ m.ports \subseteq PortRole
  BY MemoryPorts
<1>2. m.data \div 8 \in Nat /\ (m.data > 8 /\ m.data % 8 = 0 => m.data \div 8 >= 2)
  BY <1>1
<1>3. /\ Width(m, "INPUT_DATA") = m.data
      /\ Width(m, "BYTE_ENABLE_SIGNAL") = m.data \div 8
  BY DEF Width, AddressRoles, SingleBitRoles
<1>4. \A p \in AddressRoles : Width(m, p) = m.address
  BY DEF Width, AddressRoles, SingleBitRoles
<1>5. \A p \in SingleBitRoles : Width(m, p) = 1
  BY DEF Width, AddressRoles, SingleBitRoles
<1>6. \A p \in m.ports : Width(m, p) \in Nat
  BY <1>1, <1>2, <1>3, <1>4, <1>5 DEF PortRole
<1>7. QED
  BY <1>2, <1>3, <1>4, <1>5, <1>6

\* The ports besides the data that have two bits or more are the addresses and the byte enable.
LEMMA WideIsUnsingle ==
  ASSUME NEW m \in Memories
  PROVE  WidePorts(m) = Unsingle(m) \ {"INPUT_DATA"}
<1>1. \A p \in SingleBitRoles : ~(Width(m, p) >= 2)
  BY Widths
<1>2. \A p \in AddressRoles : Width(m, p) >= 2
  BY Widths, MemoryPorts
<1>3. "BYTE_ENABLE_SIGNAL" \in m.ports => Width(m, "BYTE_ENABLE_SIGNAL") >= 2
  BY Widths, MemoryPorts
<1>4. m.ports \subseteq {"INPUT_DATA", "BYTE_ENABLE_SIGNAL"} \cup AddressRoles \cup SingleBitRoles
  BY MemoryPorts DEF PortRole
<1>5. "INPUT_DATA" \notin SingleBitRoles
  BY DEF SingleBitRoles
<1>6. QED
  BY <1>1, <1>2, <1>3, <1>4, <1>5 DEF WidePorts, Unsingle

LEMMA ShapeSizes ==
  ASSUME NEW m \in Memories
  PROVE  /\ Unsingle(m) = {"INPUT_DATA", "COMBINED_ADDRESS_SIGNAL", "BYTE_ENABLE_SIGNAL"}
              => Cardinality(Unsingle(m)) = 3
         /\ Unsingle(m) = {"INPUT_DATA", "READ_ADDRESS_SIGNAL", "WRITE_ADDRESS_SIGNAL"}
              => Cardinality(Unsingle(m)) = 3
         /\ Unsingle(m) = {"INPUT_DATA", "READ_ADDRESS_SIGNAL", "WRITE_ADDRESS_SIGNAL", "BYTE_ENABLE_SIGNAL"}
              => Cardinality(Unsingle(m)) = 4 /\ Cardinality(WidePorts(m)) = 3
<1>1. Cardinality({"INPUT_DATA", "COMBINED_ADDRESS_SIGNAL", "BYTE_ENABLE_SIGNAL"}) = 3
  BY Three
<1>2. Cardinality({"INPUT_DATA", "READ_ADDRESS_SIGNAL", "WRITE_ADDRESS_SIGNAL"}) = 3
  BY Three
<1>3. Cardinality({"INPUT_DATA", "READ_ADDRESS_SIGNAL", "WRITE_ADDRESS_SIGNAL", "BYTE_ENABLE_SIGNAL"}) = 4
  BY Four
<1>4. Cardinality({"READ_ADDRESS_SIGNAL", "WRITE_ADDRESS_SIGNAL", "BYTE_ENABLE_SIGNAL"}) = 3
  BY Three
<1>5. Unsingle(m) = {"INPUT_DATA", "READ_ADDRESS_SIGNAL", "WRITE_ADDRESS_SIGNAL", "BYTE_ENABLE_SIGNAL"}
        => WidePorts(m) = {"READ_ADDRESS_SIGNAL", "WRITE_ADDRESS_SIGNAL", "BYTE_ENABLE_SIGNAL"}
  BY WideIsUnsingle
<1>6. QED
  BY <1>1, <1>2, <1>3, <1>4, <1>5

-----------------------------------------------------------------------------
(* Assignments of roles to ports. *)

LEMMA Suitable ==
  ASSUME NEW m, NEW p, NEW role \in SuitableRoles(m, p)
  PROVE  /\ role \in PortRole
         /\ role = "INPUT_DATA" => Width(m, p) = m.data
         /\ role = "BYTE_ENABLE_SIGNAL" => Width(m, p) = m.data \div 8
         /\ role \in AddressRoles => Width(m, p) >= 3
         /\ role \in SingleBitRoles => Width(m, p) = 1
<1>1. role \in PortRole
  BY DEF SuitableRoles
<1>2. role = "INPUT_DATA" => Width(m, p) = m.data
  BY DEF SuitableRoles, AddressRoles, SingleBitRoles
<1>3. role = "BYTE_ENABLE_SIGNAL" => Width(m, p) = m.data \div 8
  BY DEF SuitableRoles, AddressRoles, SingleBitRoles
<1>4. role \in AddressRoles => Width(m, p) >= 3
  BY DEF SuitableRoles, AddressRoles, SingleBitRoles, MIN_ADDR_WIDTH
<1>5. role \in SingleBitRoles => Width(m, p) = 1
  BY DEF SuitableRoles, AddressRoles, SingleBitRoles
<1>6. QED
  BY <1>1, <1>2, <1>3, <1>4, <1>5

LEMMA AssignmentFits ==
  ASSUME NEW m \in Memories, NEW c \in Assignments(m)
  PROVE  /\ DOMAIN c = m.ports
         /\ \A p \in m.ports : c[p] \in SuitableRoles(m, p)
         /\ \A p, q \in m.ports : c[p] = c[q] => p = q
         /\ byte_enable_candidates(m) \cap address_candidates(m) = {}
<1>1. /\ byte_enable_candidates(m) \cap address_candidates(m) = {}
      /\ IsInjective(c)
      /\ \E wide \in Permutations(m, m.ports \ SingleBitRoles),
            single \in Permutations(m, m.ports \cap SingleBitRoles) : c = Joined(wide, single)
  BY DEF Assignments
<1>2. PICK wide \in Permutations(m, m.ports \ SingleBitRoles),
           single \in Permutations(m, m.ports \cap SingleBitRoles) : c = Joined(wide, single)
  BY <1>1
<1>3. \A p \in m.ports \ SingleBitRoles : wide[p] \in SuitableRoles(m, p)
  BY DEF Permutations
<1>4. \A p \in m.ports \cap SingleBitRoles : single[p] \in SuitableRoles(m, p)
  BY DEF Permutations
<1>5. DOMAIN c = m.ports /\ \A p \in m.ports : c[p] \in SuitableRoles(m, p)
  <2>1. DOMAIN wide = m.ports \ SingleBitRoles /\ DOMAIN single = m.ports \cap SingleBitRoles
    BY DEF Permutations
  <2>2. QED
    BY <1>2, <1>3, <1>4, <2>1 DEF Joined
<1>6. \A p, q \in m.ports : c[p] = c[q] => p = q
  BY <1>1, <1>5 DEF IsInjective
<1>7. QED
  BY <1>1, <1>5, <1>6

\* Unless two ports are as wide as the data, no assignment mistakes the data port.
LEMMA DataPortClear ==
  ASSUME NEW m \in Memories, ~DataAmbiguous(m), NEW c \in filter_candidate_roles(m)
  PROVE  /\ DOMAIN c = m.ports
         /\ c["INPUT_DATA"] = "INPUT_DATA"
<1>1. c \in Assignments(m) /\ "INPUT_DATA" \in Range(c)
  BY DEF filter_candidate_roles
<1>2. DOMAIN c = m.ports /\ \A p \in m.ports : c[p] \in SuitableRoles(m, p)
  BY <1>1, AssignmentFits
<1>3. PICK p \in m.ports : c[p] = "INPUT_DATA"
  BY <1>1, <1>2 DEF Range
<1>4. "INPUT_DATA" \in SuitableRoles(m, p)
  BY <1>2, <1>3
<1>5. Width(m, p) = m.data
  BY <1>4 DEF SuitableRoles, AddressRoles, SingleBitRoles
<1>6. p = "INPUT_DATA"
  BY <1>5 DEF DataAmbiguous
<1>7. QED
  BY <1>2, <1>3, <1>6

\* An address role is given to no port of less than three bits.
LEMMA AddressPort ==
  ASSUME NEW m \in Memories, ~DataAmbiguous(m), NEW c \in filter_candidate_roles(m)
  PROVE  \E p \in m.ports : /\ c[p] \in AddressRoles /\ Width(m, p) >= 3
                            /\ p \in Unsingle(m) \ {"INPUT_DATA"}
<1>1. c \in Assignments(m) /\ Range(c) \cap AddressRoles # {}
  BY DEF filter_candidate_roles
<1>2. DOMAIN c = m.ports /\ \A p \in m.ports : c[p] \in SuitableRoles(m, p)
  BY <1>1, AssignmentFits
<1>3. PICK p \in m.ports : c[p] \in AddressRoles
  BY <1>1, <1>2 DEF Range
<1>4. Width(m, p) >= 3
  BY <1>2, <1>3 DEF SuitableRoles, AddressRoles, SingleBitRoles, MIN_ADDR_WIDTH
<1>5. p # "INPUT_DATA"
  BY <1>3, DataPortClear DEF AddressRoles
<1>6. p \notin SingleBitRoles
  BY <1>4, Widths
<1>7. QED
  BY <1>3, <1>4, <1>5, <1>6 DEF Unsingle

\* A port of two bits fits no role but the data's and the byte enable's.
LEMMA NarrowAddress ==
  ASSUME NEW m \in Memories, ~DataAmbiguous(m), m.address < 3,
         NEW p \in m.ports \cap AddressRoles,
         NEW role \in SuitableRoles(m, p)
  PROVE  role = "BYTE_ENABLE_SIGNAL" /\ m.address = m.data \div 8
<1>1. Width(m, p) = m.address /\ m.address \in Nat /\ m.address >= 2
  BY Widths, MemoryPorts
<1>2. p # "INPUT_DATA"
  BY DEF AddressRoles
<1>3. Width(m, p) # m.data
  BY <1>2 DEF DataAmbiguous
<1>4. /\ role \in PortRole
      /\ role = "INPUT_DATA" => Width(m, p) = m.data
      /\ role = "BYTE_ENABLE_SIGNAL" => Width(m, p) = m.data \div 8
      /\ role \in AddressRoles => Width(m, p) >= 3
      /\ role \in SingleBitRoles => Width(m, p) = 1
  BY Suitable
<1>5. role # "INPUT_DATA"
  BY <1>3, <1>4
<1>6. role \notin AddressRoles
  BY <1>1, <1>4
<1>7. role \notin SingleBitRoles
  BY <1>1, <1>4
<1>8. QED
  BY <1>1, <1>4, <1>5, <1>6, <1>7 DEF PortRole

\* Two ports as wide as a byte enable would be get two roles each.
LEMMA Clash ==
  ASSUME NEW m \in Memories, m.data > 8, m.data % 8 = 0,
         NEW p \in m.ports, NEW q \in m.ports, p # q, {p, q} \subseteq m.ports \ {"INPUT_DATA"},
         Width(m, p) = m.data \div 8, Width(m, q) = m.data \div 8
  PROVE  filter_candidate_roles(m) = {}
<1>1. p \in byte_enable_candidates(m) /\ q \in byte_enable_candidates(m)
  BY DEF byte_enable_candidates
<1>2. Cardinality(byte_enable_candidates(m)) # 1
  <2> SUFFICES ASSUME Cardinality(byte_enable_candidates(m)) = 1 PROVE FALSE
    OBVIOUS
  <2>1. IsFiniteSet(byte_enable_candidates(m))
    <3> DEFINE Wide == {"COMBINED_ADDRESS_SIGNAL", "READ_ADDRESS_SIGNAL", "WRITE_ADDRESS_SIGNAL"}
                         \cup {"BYTE_ENABLE_SIGNAL"}
    <3>1. IsFiniteSet(Wide)
      BY Three, FS_AddElement
    <3>2. byte_enable_candidates(m) \subseteq WidePorts(m)
      BY Widths DEF byte_enable_candidates, WidePorts
    <3>3. WidePorts(m) \subseteq Wide
      BY WideIsUnsingle, MemoryPorts
    <3>4. byte_enable_candidates(m) \in SUBSET Wide
      BY <3>2, <3>3
    <3>5. QED
      BY <3>1, <3>4, FS_Subset
  <2>2. PICK x : byte_enable_candidates(m) = {x}
    BY <2>1, FS_Singleton
  <2>3. QED
    BY <1>1, <2>2
<1>3. Width(m, p) >= 2
  BY Widths
<1>4. p \in address_candidates(m)
  BY <1>2, <1>3 DEF address_candidates, WidePorts
<1>5. byte_enable_candidates(m) \cap address_candidates(m) # {}
  BY <1>1, <1>4
<1>6. Assignments(m) = {}
  BY <1>5 DEF Assignments
<1>7. QED
  BY <1>6 DEF filter_candidate_roles

\* Memories that are not unfit reach the simulation, with their true roles among the candidates.
LEMMA FitIsFound ==
  ASSUME NEW m \in Memories, ~Unfit(m), Cardinality(WidePorts(m)) <= 2
  PROVE  [p \in m.ports |-> p] \in filter_candidate_roles(m)
<1> DEFINE id == [p \in m.ports |-> p]
           wide == [p \in m.ports \ SingleBitRoles |-> p]
           single == [p \in m.ports \cap SingleBitRoles |-> p]
<1>1. \/ Unsingle(m) = {"INPUT_DATA", "COMBINED_ADDRESS_SIGNAL"}
      \/ /\ Unsingle(m) = {"INPUT_DATA", "COMBINED_ADDRESS_SIGNAL", "BYTE_ENABLE_SIGNAL"}
         /\ Cardinality(Unsingle(m)) = 3
      \/ /\ Unsingle(m) = {"INPUT_DATA", "READ_ADDRESS_SIGNAL", "WRITE_ADDRESS_SIGNAL"}
         /\ Cardinality(Unsingle(m)) = 3
  BY MemoryPorts, ShapeSizes
<1>2. m.address >= 3
  <2>1. Cardinality(Unsingle(m)) <= 3
    <3>1. CASE Unsingle(m) = {"INPUT_DATA", "COMBINED_ADDRESS_SIGNAL"}
      <4>1. IsFiniteSet({"INPUT_DATA", "COMBINED_ADDRESS_SIGNAL", "BYTE_ENABLE_SIGNAL"})
            /\ Cardinality({"INPUT_DATA", "COMBINED_ADDRESS_SIGNAL", "BYTE_ENABLE_SIGNAL"}) = 3
        BY Three
      <4>2. Unsingle(m) \in SUBSET {"INPUT_DATA", "COMBINED_ADDRESS_SIGNAL", "BYTE_ENABLE_SIGNAL"}
        BY <3>1
      <4>3. QED
        BY <4>1, <4>2, FS_Subset
    <3>2. QED
      BY <1>1, <3>1
  <2>2. m.address \in Nat /\ ~(m.address < 3)
    BY <2>1, MemoryPorts DEF Unfit, Unsingle
  <2>3. QED
    BY <2>2
<1>3. byte_enable_candidates(m) \cap address_candidates(m) = {}
  <2> SUFFICES ASSUME NEW x \in byte_enable_candidates(m), x \in address_candidates(m) PROVE FALSE
    OBVIOUS
  <2>1. /\ m.data > 8 /\ m.data % 8 = 0
        /\ x \in WidePorts(m) /\ Width(m, x) = m.data \div 8
        /\ Cardinality(byte_enable_candidates(m)) # 1
    BY DEF byte_enable_candidates, address_candidates
  <2>2. byte_enable_candidates(m) # {x}
    BY <2>1, FS_Singleton
  <2>3. PICK y \in byte_enable_candidates(m) : y # x
    BY <2>2
  <2>4. /\ y \in m.ports \ {"INPUT_DATA"} /\ Width(m, y) = m.data \div 8 /\ Width(m, y) \in Nat
        /\ m.data \div 8 >= 2
    BY <2>1, <2>3, Widths DEF byte_enable_candidates
  <2>5. x \in WidePorts(m) /\ y \in WidePorts(m)
    BY <2>1, <2>4 DEF WidePorts
  <2>6. {x, y} \subseteq Unsingle(m) \ {"INPUT_DATA"}
    BY <2>5, WideIsUnsingle
  <2>7. Cardinality(Unsingle(m)) = 3 /\ \E a \in {x, y} : a \in AddressRoles
    BY <1>1, <2>3, <2>6 DEF AddressRoles
  <2>8. m.address = m.data \div 8
    BY <2>1, <2>4, <2>7, Widths
  <2>9. QED
    BY <2>1, <2>7, <2>8 DEF Unfit, Unsingle
<1>4. ASSUME NEW p \in m.ports
      PROVE  p \in SuitableRoles(m, p)
  <2>1. p \in PortRole
    BY MemoryPorts
  <2>2. CASE p = "INPUT_DATA"
    <3>1. Width(m, p) = m.data /\ p # "BYTE_ENABLE_SIGNAL" /\ p \notin AddressRoles /\ p \notin SingleBitRoles
      BY <2>2, Widths DEF AddressRoles, SingleBitRoles
    <3>2. QED
      BY <2>1, <2>2, <3>1 DEF SuitableRoles
  <2>3. CASE p = "BYTE_ENABLE_SIGNAL"
    <3>1. /\ m.data > 8 /\ m.data % 8 = 0 /\ Width(m, p) = m.data \div 8
      BY <2>3, MemoryPorts, Widths
    <3>2. byte_enable_candidates(m) # {}
      BY <2>3, <3>1 DEF byte_enable_candidates
    <3>3. p # "INPUT_DATA" /\ p \notin AddressRoles /\ p \notin SingleBitRoles
      BY <2>3 DEF AddressRoles, SingleBitRoles
    <3>4. QED
      BY <2>1, <2>3, <3>1, <3>2, <3>3 DEF SuitableRoles
  <2>4. CASE p \in AddressRoles
    <3>1. /\ Width(m, p) = m.address /\ p # "INPUT_DATA" /\ p # "BYTE_ENABLE_SIGNAL"
          /\ p \notin SingleBitRoles
      BY <2>4, Widths DEF AddressRoles, SingleBitRoles
    <3>2. QED
      BY <1>2, <2>1, <2>4, <3>1 DEF SuitableRoles, MIN_ADDR_WIDTH
  <2>5. CASE p \in SingleBitRoles
    <3>1. Width(m, p) = 1 /\ p # "INPUT_DATA" /\ p # "BYTE_ENABLE_SIGNAL" /\ p \notin AddressRoles
      BY <2>5, Widths DEF AddressRoles, SingleBitRoles
    <3>2. QED
      BY <2>1, <2>5, <3>1 DEF SuitableRoles
  <2>6. QED
    BY <2>1, <2>2, <2>3, <2>4, <2>5 DEF PortRole
<1>5. wide \in Permutations(m, m.ports \ SingleBitRoles)
  BY <1>4 DEF Permutations, IsInjective
<1>6. single \in Permutations(m, m.ports \cap SingleBitRoles)
  BY <1>4 DEF Permutations, IsInjective
<1>7. id = Joined(wide, single)
  BY DEF Joined
<1>8. IsInjective(id)
  BY DEF IsInjective
<1>9. Range(id) = m.ports
  BY DEF Range
<1> HIDE DEF wide, single, id
<1>10. id \in Assignments(m)
  <2>1. id \in {Joined(w, s) : w \in Permutations(m, m.ports \ SingleBitRoles),
                              s \in Permutations(m, m.ports \cap SingleBitRoles)}
    BY <1>5, <1>6, <1>7
  <2>2. QED
    BY <1>3, <1>8, <2>1 DEF Assignments
<1>11. /\ "INPUT_DATA" \in m.ports
       /\ m.ports \cap AddressRoles \in {{"COMBINED_ADDRESS_SIGNAL"}, {"READ_ADDRESS_SIGNAL", "WRITE_ADDRESS_SIGNAL"}}
  BY <1>1, MemoryPorts DEF Unsingle, AddressRoles, SingleBitRoles
<1>12. id \in filter_candidate_roles(m)
  BY <1>9, <1>10, <1>11 DEF filter_candidate_roles, AddressRoles
<1>13. QED
  BY <1>12 DEF id

\* Unfit memories do not reach it.
LEMMA UnfitIsNotFound ==
  ASSUME NEW m \in Memories, Unfit(m), ~DataAmbiguous(m), Cardinality(WidePorts(m)) <= 2
  PROVE  filter_candidate_roles(m) = {}
<1>1. \/ Unsingle(m) = {"INPUT_DATA", "COMBINED_ADDRESS_SIGNAL"}
      \/ Unsingle(m) = {"INPUT_DATA", "COMBINED_ADDRESS_SIGNAL", "BYTE_ENABLE_SIGNAL"}
      \/ Unsingle(m) = {"INPUT_DATA", "READ_ADDRESS_SIGNAL", "WRITE_ADDRESS_SIGNAL"}
  BY MemoryPorts, ShapeSizes
<1>2. \/ m.address < 3
      \/ /\ m.data > 8 /\ m.data % 8 = 0 /\ m.address = m.data \div 8
         /\ Cardinality(Unsingle(m)) = 3
  BY DEF Unfit, DataAmbiguous, Unsingle
<1>3. CASE m.address < 3
  <2> SUFFICES ASSUME NEW c \in filter_candidate_roles(m) PROVE FALSE
    OBVIOUS
  <2>1. PICK p \in m.ports : /\ c[p] \in AddressRoles /\ Width(m, p) >= 3
                             /\ p \in Unsingle(m) \ {"INPUT_DATA"}
    BY AddressPort
  <2>2. p \notin AddressRoles
    BY <1>3, <2>1, Widths, MemoryPorts
  <2>3. p = "BYTE_ENABLE_SIGNAL" /\ "COMBINED_ADDRESS_SIGNAL" \in m.ports
    BY <1>1, <2>1, <2>2 DEF AddressRoles, Unsingle
  <2>4. c[p] # "BYTE_ENABLE_SIGNAL" /\ Width(m, p) = m.data \div 8
    BY <2>1, <2>3, Widths DEF AddressRoles
  <2>5. c["COMBINED_ADDRESS_SIGNAL"] \in SuitableRoles(m, "COMBINED_ADDRESS_SIGNAL")
    BY <2>3, AssignmentFits DEF filter_candidate_roles
  <2>6. m.address = m.data \div 8
    BY <1>3, <2>3, <2>5, NarrowAddress DEF AddressRoles
  <2>7. m.address \in Nat
    BY MemoryPorts
  <2>8. QED
    BY <1>3, <2>1, <2>4, <2>6, <2>7
<1>4. CASE /\ m.data > 8 /\ m.data % 8 = 0 /\ m.address = m.data \div 8
           /\ Cardinality(Unsingle(m)) = 3
  <2>1. Unsingle(m) # {"INPUT_DATA", "COMBINED_ADDRESS_SIGNAL"}
    <3>1. IsFiniteSet({"INPUT_DATA"}) /\ Cardinality({"INPUT_DATA"}) = 1
      BY FS_Singleton
    <3>2. Cardinality({"INPUT_DATA"} \cup {"COMBINED_ADDRESS_SIGNAL"}) = 2
      BY <3>1, FS_AddElement
    <3>3. {"INPUT_DATA", "COMBINED_ADDRESS_SIGNAL"} = {"INPUT_DATA"} \cup {"COMBINED_ADDRESS_SIGNAL"}
      OBVIOUS
    <3>4. QED
      BY <1>4, <3>2, <3>3
  <2>2. CASE Unsingle(m) = {"INPUT_DATA", "COMBINED_ADDRESS_SIGNAL", "BYTE_ENABLE_SIGNAL"}
    <3>1. {"COMBINED_ADDRESS_SIGNAL", "BYTE_ENABLE_SIGNAL"} \subseteq m.ports \ {"INPUT_DATA"}
      BY <2>2 DEF Unsingle
    <3>2. /\ Width(m, "COMBINED_ADDRESS_SIGNAL") = m.data \div 8
          /\ Width(m, "BYTE_ENABLE_SIGNAL") = m.data \div 8
      BY <1>4, Widths DEF AddressRoles
    <3>3. QED
      BY <1>4, <3>1, <3>2, Clash
  <2>3. CASE Unsingle(m) = {"INPUT_DATA", "READ_ADDRESS_SIGNAL", "WRITE_ADDRESS_SIGNAL"}
    <3>1. {"READ_ADDRESS_SIGNAL", "WRITE_ADDRESS_SIGNAL"} \subseteq m.ports \ {"INPUT_DATA"}
      BY <2>3 DEF Unsingle
    <3>2. /\ Width(m, "READ_ADDRESS_SIGNAL") = m.data \div 8
          /\ Width(m, "WRITE_ADDRESS_SIGNAL") = m.data \div 8
      BY <1>4, Widths DEF AddressRoles
    <3>3. QED
      BY <1>4, <3>1, <3>2, Clash
  <2>4. QED
    BY <1>1, <2>1, <2>2, <2>3
<1>5. QED
  BY <1>2, <1>3, <1>4

-----------------------------------------------------------------------------
(* One simulation: 34 cycles, in which the memory is given two words and asked for them. *)

\* The inputs of the i-th step, and those of an idle cycle.
Step(m, c, i) == [port \in DOMAIN c |-> Masked(m, port, role_sequences[c[port]][i])]
Idle(c) == [port \in DOMAIN c |-> 0]

\* Every step follows four idle cycles, and the last one is followed by four.
LEMMA StimulusOf ==
  ASSUME NEW m, NEW c, NEW k \in 0 .. Cycles - 1
  PROVE  \/ k \in {4, 9, 14, 19, 24, 29} /\ Stimulus(m, c, k) = Step(m, c, 1 + k \div 5)
         \/ k \notin {4, 9, 14, 19, 24, 29} /\ Stimulus(m, c, k) = Idle(c)
<1>1. k % 5 = 4 /\ k < 30 <=> k \in {4, 9, 14, 19, 24, 29}
  BY DEF Cycles
<1>2. CASE k \in {4, 9, 14, 19, 24, 29}
  BY <1>1, <1>2 DEF Stimulus, Step
<1>3. CASE k \notin {4, 9, 14, 19, 24, 29}
  BY <1>1, <1>3 DEF Stimulus, Idle
<1>4. QED
  BY <1>2, <1>3

\* The states of the memory from cycle to cycle.
Run(m, c, after) ==
  /\ after[0] = Initially
  /\ \A k \in 0 .. Cycles - 1 : after[k + 1] = Cycle(m, after[k], Stimulus(m, c, k))

\* A simulation is a run, whose printed values are its outputs.
LEMMA Simulated ==
  ASSUME NEW m, NEW c
  PROVE  \E after : Run(m, c, after) /\ Outputs(m, c) = after[Cycles].shown
<1> DEFINE Loop(g, n) == g = [k \in 0 .. n |-> IF k = 0 THEN Initially
                                               ELSE Cycle(m, g[k - 1], Stimulus(m, c, k - 1))]
           Ks == {n \in Nat : \E g : Loop(g, n)}
<1>1. Ks = Nat
  <2>1. 0 \in Ks
    <3>1. [k \in 0 .. 0 |-> Initially] = [k \in 0 .. 0 |-> IF k = 0 THEN Initially
            ELSE Cycle(m, [i \in 0 .. 0 |-> Initially][k - 1], Stimulus(m, c, k - 1))]
      OBVIOUS
    <3>2. QED
      BY <3>1
  <2>2. ASSUME NEW n \in Ks
        PROVE  n + 1 \in Ks
    <3>1. PICK g : Loop(g, n)
      OBVIOUS
    <3> DEFINE h == [k \in 0 .. n + 1 |-> IF k <= n THEN g[k] ELSE Cycle(m, g[n], Stimulus(m, c, n))]
    <3>2. \A k \in 0 .. n + 1 :
            h[k] = IF k = 0 THEN Initially ELSE Cycle(m, h[k - 1], Stimulus(m, c, k - 1))
      <4>1. TAKE k \in 0 .. n + 1
      <4>2. CASE k = 0
        BY <3>1, <4>2
      <4>3. CASE k \in 1 .. n
        <5>1. h[k] = g[k] /\ h[k - 1] = g[k - 1]
          BY <4>3
        <5>2. g[k] = Cycle(m, g[k - 1], Stimulus(m, c, k - 1))
          BY <3>1, <4>3
        <5>3. QED
          BY <4>3, <5>1, <5>2
      <4>4. CASE k = n + 1
        BY <4>4
      <4>5. QED
        BY <4>2, <4>3, <4>4
    <3>3. h = [k \in 0 .. n + 1 |-> h[k]]
      OBVIOUS
    <3>4. Loop(h, n + 1)
      <4> HIDE DEF h
      <4>1. QED
        BY <3>2, <3>3
    <3> HIDE DEF h, Loop
    <3>5. QED
      BY <3>4
  <2> HIDE DEF Ks
  <2>3. Ks \in SUBSET Nat
    BY DEF Ks
  <2>4. QED
    BY <2>1, <2>2, <2>3, NatSetInduction
<1>2. PICK after : Loop(after, Cycles) /\ Outputs(m, c) = after[Cycles].shown
  <2>1. Cycles \in Nat
    BY DEF Cycles
  <2>2. \E g : Loop(g, Cycles)
    BY <1>1, <2>1
  <2>3. QED
    BY <2>2 DEF Outputs
<1>3. after[0] = Initially /\ \A k \in 0 .. Cycles - 1 : after[k + 1] = Cycle(m, after[k], Stimulus(m, c, k))
  <2>1. \A k \in 0 .. Cycles : after[k] = IF k = 0 THEN Initially
                                          ELSE Cycle(m, after[k - 1], Stimulus(m, c, k - 1))
    BY <1>2
  <2>2. 0 \in 0 .. Cycles /\ \A k \in 0 .. Cycles - 1 : k + 1 \in 0 .. Cycles /\ k + 1 # 0 /\ k + 1 - 1 = k
    BY DEF Cycles
  <2>3. QED
    BY <2>1, <2>2
<1>4. QED
  BY <1>2, <1>3 DEF Run

\* What holds at first, and after each cycle if it held before, holds at the end.
LEMMA RunInvariant ==
  ASSUME NEW m, NEW c, NEW I,
         Initially \in I[0],
         \A k \in 0 .. Cycles - 1 : \A s \in I[k] : Cycle(m, s, Stimulus(m, c, k)) \in I[k + 1]
  PROVE  \E s \in I[Cycles] : Outputs(m, c) = s.shown
<1>1. PICK after : Run(m, c, after) /\ Outputs(m, c) = after[Cycles].shown
  BY Simulated
<1>2. after[0] = Initially /\ \A k \in 0 .. Cycles - 1 : after[k + 1] = Cycle(m, after[k], Stimulus(m, c, k))
  BY <1>1 DEF Run
<1> DEFINE Kept == {k \in Nat : k <= Cycles => after[k] \in I[k]}
<1>3. Kept = Nat
  <2>1. 0 \in Kept
    BY <1>2
  <2>2. ASSUME NEW k \in Kept PROVE k + 1 \in Kept
    <3>1. k + 1 <= Cycles => k \in 0 .. Cycles - 1 /\ k <= Cycles
      BY DEF Cycles
    <3>2. QED
      BY <1>2, <3>1
  <2> HIDE DEF Kept
  <2>3. Kept \in SUBSET Nat
    BY DEF Kept
  <2>4. QED
    BY <2>1, <2>2, <2>3, NatSetInduction
<1>4. Cycles \in Kept /\ Cycles <= Cycles
  BY <1>3 DEF Cycles
<1>5. after[Cycles] \in I[Cycles]
  BY <1>4
<1>6. QED
  BY <1>1, <1>5

\* Assignments that give the memory the same inputs print the same values.
LEMMA SameOutputs ==
  ASSUME NEW m, NEW c, NEW d, \A k \in 0 .. Cycles - 1 : Stimulus(m, c, k) = Stimulus(m, d, k)
  PROVE  Outputs(m, c) = Outputs(m, d)
<1>1. PICK after : Run(m, c, after) /\ Outputs(m, c) = after[Cycles].shown
  BY Simulated
<1> DEFINE I == [k \in 0 .. Cycles |-> {after[k]}]
<1>2. \A k \in 0 .. Cycles : I[k] = {after[k]}
  OBVIOUS
<1> HIDE DEF I
<1>3. 0 \in 0 .. Cycles /\ Cycles \in 0 .. Cycles
      /\ \A k \in 0 .. Cycles - 1 : k \in 0 .. Cycles /\ k + 1 \in 0 .. Cycles
  BY DEF Cycles
<1>4. Initially \in I[0]
  BY <1>1, <1>2, <1>3 DEF Run
<1>5. \A k \in 0 .. Cycles - 1 : \A s \in I[k] : Cycle(m, s, Stimulus(m, d, k)) \in I[k + 1]
  BY <1>1, <1>2, <1>3 DEF Run
<1>6. \E s \in I[Cycles] : Outputs(m, d) = s.shown
  BY <1>4, <1>5, RunInvariant
<1>7. QED
  BY <1>1, <1>2, <1>3, <1>6

\* Where the printed values change.
Changes(s) == {k \in DOMAIN s : k = 1 \/ s[k] # s[k - 1]}

\* The k of j-th rank in a set is the one with that many elements up to it.
LEMMA Nth ==
  ASSUME NEW C \in SUBSET Nat, IsFiniteSet(C), NEW k \in C, NEW j, Cardinality({l \in C : l <= k}) = j
  PROVE  (CHOOSE i \in C : Cardinality({l \in C : l <= i}) = j) = k
<1> DEFINE rank(i) == Cardinality({l \in C : l <= i})
           nth == CHOOSE i \in C : rank(i) = j
<1>1. nth \in C /\ rank(nth) = j
  OBVIOUS
<1>2. /\ \A i \in C : rank(i) \in 1 .. Cardinality(C)
      /\ \A h, i \in C : h < i => rank(h) < rank(i)
      /\ Cardinality(C) \in Nat
  BY Ranks
<1>3. rank(k) = j /\ j \in Int
  BY <1>2
<1> HIDE DEF rank, nth
<1>4. ~(nth < k) /\ ~(k < nth)
  BY <1>1, <1>2, <1>3
<1>5. nth = k
  BY <1>1, <1>4
<1>6. QED
  BY <1>5 DEF nth, rank

\* Printing another value adds it to the distinct ones unless it was the last.
LEMMA DistinctAppend ==
  ASSUME NEW S, NEW s \in Seq(S), NEW x \in S
  PROVE  /\ seq_of_distinct_outputs(s) \in Seq(S)
         /\ seq_of_distinct_outputs(Append(s, x)) =
              IF s # <<>> /\ s[Len(s)] = x THEN seq_of_distinct_outputs(s)
              ELSE Append(seq_of_distinct_outputs(s), x)
<1> DEFINE t == Append(s, x)
           n == Len(s)
           C == Changes(s)
           C2 == Changes(t)
           d == seq_of_distinct_outputs(s)
           e == seq_of_distinct_outputs(t)
           N == Cardinality(C)
<1>1. /\ n \in Nat /\ DOMAIN s = 1 .. n /\ DOMAIN t = 1 .. n + 1
      /\ \A k \in 1 .. n : t[k] = s[k] /\ s[k] \in S
      /\ t[n + 1] = x
      /\ s = <<>> <=> n = 0
  BY AppendProperties, LenProperties, EmptySeq, ElementOfSeq
<1> HIDE DEF t
<1>2. C \in SUBSET Nat /\ IsFiniteSet(C) /\ C \subseteq 1 .. n
  <2>1. C \in SUBSET (1 .. n) /\ IsFiniteSet(1 .. n)
    BY <1>1, FS_Interval DEF Changes
  <2>2. QED
    BY <2>1, FS_Subset
<1>3. /\ s # <<>> /\ s[n] = x => C2 = C
      /\ ~(s # <<>> /\ s[n] = x) => C2 = C \cup {n + 1}
      /\ n + 1 \notin C
  <2>1. \A k \in 1 .. n : k \in C2 <=> k \in C
    <3>1. TAKE k \in 1 .. n
    <3>2. t[k] = s[k] /\ (k # 1 => t[k - 1] = s[k - 1])
      BY <1>1
    <3>3. k \in DOMAIN s /\ k \in DOMAIN t
      BY <1>1
    <3>4. QED
      BY <3>2, <3>3 DEF Changes
  <2>2. n + 1 \in C2 <=> ~(s # <<>> /\ s[n] = x)
    <3>1. n + 1 \in DOMAIN t /\ (n + 1 = 1 <=> s = <<>>) /\ n + 1 - 1 = n
      BY <1>1
    <3>2. s # <<>> => t[n] = s[n]
      <4>1. s # <<>> => n \in 1 .. n
        BY <1>1
      <4>2. QED
        BY <1>1, <4>1
    <3>3. n + 1 \in C2 <=> s = <<>> \/ x # t[n]
      BY <1>1, <3>1 DEF Changes
    <3>4. QED
      BY <3>2, <3>3
  <2>3. C2 \subseteq 1 .. n + 1 /\ C \subseteq 1 .. n
    BY <1>1, <1>2 DEF Changes
  <2> HIDE DEF C, C2
  <2>4. \A k \in C2 : k = n + 1 \/ k \in 1 .. n
    BY <1>1, <2>3
  <2>5. n + 1 \notin C
    BY <1>1, <2>3
  <2>6. \A k \in C2 : k \in C \/ k = n + 1
    BY <2>1, <2>4
  <2>7. \A k \in C : k \in C2
    BY <2>1, <2>3
  <2>8. QED
    BY <2>2, <2>5, <2>6, <2>7
<1>4. /\ N \in Nat
      /\ \A k \in C : Cardinality({l \in C : l <= k}) \in 1 .. N
      /\ \A i \in 1 .. N : \E k \in C : Cardinality({l \in C : l <= k}) = i
  BY <1>2, Ranks
<1>5. C2 \in SUBSET Nat /\ IsFiniteSet(C2) /\ Cardinality(C2) = IF C2 = C THEN N ELSE N + 1
  <2>1. C2 = C \/ C2 = C \cup {n + 1}
    BY <1>3
  <2>2. IsFiniteSet(C \cup {n + 1}) /\ Cardinality(C \cup {n + 1}) = N + 1 /\ C \cup {n + 1} \in SUBSET Nat
    BY <1>1, <1>2, <1>3, FS_AddElement
  <2>3. QED
    BY <1>2, <1>4, <2>1, <2>2
<1>6. ASSUME NEW j \in 1 .. N
      PROVE  \E k \in 1 .. n :
               /\ (CHOOSE i \in C : Cardinality({l \in C : l <= i}) = j) = k
               /\ (CHOOSE i \in C2 : Cardinality({l \in C2 : l <= i}) = j) = k
  <2>1. PICK k \in C : Cardinality({l \in C : l <= k}) = j
    BY <1>4
  <2>2. (CHOOSE i \in C : Cardinality({l \in C : l <= i}) = j) = k
    BY <1>2, <2>1, Nth
  <2>3. {l \in C2 : l <= k} = {l \in C : l <= k} /\ k \in C2
    <3>1. ~(n + 1 <= k)
      BY <1>1, <1>2
    <3>2. QED
      BY <1>3, <3>1
  <2>4. Cardinality({l \in C2 : l <= k}) = j
    BY <2>1, <2>3
  <2>5. (CHOOSE i \in C2 : Cardinality({l \in C2 : l <= i}) = j) = k
    BY <1>5, <2>3, <2>4, Nth
  <2>6. QED
    BY <1>2, <2>2, <2>5
<1>7. /\ DOMAIN d = 1 .. N
      /\ \A j \in 1 .. N : d[j] = s[CHOOSE i \in C : Cardinality({l \in C : l <= i}) = j]
      /\ d = [j \in 1 .. N |-> d[j]]
  BY DEF seq_of_distinct_outputs, Changes
<1>8. /\ DOMAIN e = 1 .. Cardinality(C2)
      /\ \A j \in 1 .. Cardinality(C2) :
           e[j] = t[CHOOSE i \in C2 : Cardinality({l \in C2 : l <= i}) = j]
      /\ e = [j \in 1 .. Cardinality(C2) |-> e[j]]
  BY DEF seq_of_distinct_outputs, Changes
<1> HIDE DEF d, e
<1>9. Cardinality(C2) >= N
  BY <1>4, <1>5
<1>10. \A j \in 1 .. N : d[j] \in S /\ e[j] = d[j]
  <2>1. TAKE j \in 1 .. N
  <2>2. j \in 1 .. Cardinality(C2)
    BY <1>4, <1>5, <1>9
  <2>3. PICK k \in 1 .. n :
               /\ (CHOOSE i \in C : Cardinality({l \in C : l <= i}) = j) = k
               /\ (CHOOSE i \in C2 : Cardinality({l \in C2 : l <= i}) = j) = k
    BY <1>6
  <2>4. d[j] = s[k] /\ e[j] = t[k]
    BY <1>7, <1>8, <2>2, <2>3
  <2>5. QED
    BY <1>1, <2>4
<1>11. d \in Seq(S) /\ Len(d) = N
  <2>1. d \in [1 .. N -> S]
    BY <1>7, <1>10
  <2>2. QED
    BY <1>4, <2>1
<1>12. CASE s # <<>> /\ s[n] = x
  <2>1. Cardinality(C2) = N
    BY <1>3, <1>12
  <2>2. e = d
    BY <1>7, <1>8, <1>10, <2>1
  <2>3. QED
    BY <1>11, <1>12, <2>2 DEF d, e, t
<1>13. CASE ~(s # <<>> /\ s[n] = x)
  <2>1. C2 = C \cup {n + 1} /\ Cardinality(C2) = N + 1
    BY <1>3, <1>5, <1>13
  <2>2. {l \in C2 : l <= n + 1} = C2
    BY <1>1, <1>2, <2>1
  <2>3. Cardinality({l \in C2 : l <= n + 1}) = N + 1 /\ n + 1 \in C2
    BY <2>1, <2>2
  <2>4. (CHOOSE i \in C2 : Cardinality({l \in C2 : l <= i}) = N + 1) = n + 1
    BY <1>5, <2>3, Nth
  <2>5. e[N + 1] = x
    <3>1. N + 1 \in 1 .. Cardinality(C2)
      BY <1>4, <2>1
    <3>2. e[N + 1] = t[CHOOSE i \in C2 : Cardinality({l \in C2 : l <= i}) = N + 1]
      BY <1>8, <3>1
    <3>3. QED
      BY <1>1, <2>4, <3>2
  <2> DEFINE f == Append(d, x)
  <2>6. DOMAIN f = 1 .. N + 1 /\ (\A j \in 1 .. N : f[j] = d[j]) /\ f[N + 1] = x
        /\ f = [j \in 1 .. N + 1 |-> f[j]]
    <3>1. f \in Seq(S) /\ Len(f) = N + 1
      BY <1>11
    <3>2. DOMAIN f = 1 .. N + 1 /\ f[N + 1] = x /\ \A j \in 1 .. N : f[j] = d[j]
      BY <1>4, <1>11, AppendProperties, LenProperties
    <3>3. f = [j \in DOMAIN f |-> f[j]]
      BY <3>1, LenProperties
    <3>4. QED
      BY <3>2, <3>3
  <2> HIDE DEF f
  <2>7. \A j \in 1 .. N + 1 : e[j] = f[j]
    <3>1. TAKE j \in 1 .. N + 1
    <3>2. j \in 1 .. N \/ j = N + 1
      BY <1>4
    <3>3. QED
      BY <1>10, <2>5, <2>6, <3>2
  <2>8. e = f
    BY <1>8, <2>1, <2>6, <2>7
  <2>9. QED
    BY <1>11, <1>13, <2>8 DEF d, e, f, t
<1>14. QED
  BY <1>12, <1>13

\* What the read port may show: nothing, a word of one bit, or one of the two words.
Value == 0 .. 3

\* D are the distinct values among the printed ones.
Tracks(printed, D) ==
  /\ printed \in Seq(1 .. 3) /\ D \in Seq(1 .. 3)
  /\ seq_of_distinct_outputs(printed) = D
  /\ printed = <<>> <=> D = <<>>
  /\ printed # <<>> => printed[Len(printed)] = D[Len(D)]

\* The read port shows nothing or the value printed last.
Shows(s, D) ==
  /\ Tracks(s.shown, D)
  /\ s.dout \in Value
  /\ s.dout = 0 \/ (D # <<>> /\ s.dout = D[Len(D)])

\* The distinct values once x has been shown.
More(D, x) == IF x = 0 \/ (D # <<>> /\ x = D[Len(D)]) THEN D ELSE Append(D, x)

\* Nothing is printed at first.
LEMMA TracksInitially == Shows(Initially, <<>>)
<1>1. seq_of_distinct_outputs(<<>>) = <<>>
  <2>1. DOMAIN <<>> = {} /\ {k \in {} : k = 1 \/ <<>>[k] # <<>>[k - 1]} = {}
    OBVIOUS
  <2>2. {k \in DOMAIN <<>> : k = 1 \/ <<>>[k] # <<>>[k - 1]} = {}
    BY <2>1
  <2>3. Cardinality({}) = 0
    BY FS_EmptySet
  <2>4. seq_of_distinct_outputs(<<>>) = [j \in 1 .. 0 |-> 
         <<>>[CHOOSE k \in {} : Cardinality({l \in {} : l <= k}) = j]]
    BY <2>2, <2>3 DEF seq_of_distinct_outputs
  <2> DEFINE e == seq_of_distinct_outputs(<<>>)
  <2>5. DOMAIN e = 1 .. 0 /\ e = [j \in 1 .. 0 |-> e[j]]
    BY <2>4
  <2> HIDE DEF e
  <2>6. e \in [1 .. 0 -> 1 .. 3]
    BY <2>5
  <2>7. e \in Seq(1 .. 3) /\ Len(e) = 0
    BY <2>6
  <2>8. QED
    BY <2>7, EmptySeq DEF e
<1>2. <<>> \in Seq(1 .. 3)
  OBVIOUS
<1>3. QED
  BY <1>1, <1>2 DEF Shows, Tracks, Initially, Value

\* What is printed next is a new value only if it differs from the last one.
LEMMA TracksAppend ==
  ASSUME NEW printed, NEW D, Tracks(printed, D), NEW x \in 1 .. 3
  PROVE  Tracks(Append(printed, x), More(D, x))
<1>1. /\ seq_of_distinct_outputs(Append(printed, x)) =
           IF printed # <<>> /\ printed[Len(printed)] = x THEN D ELSE Append(D, x)
  BY DistinctAppend DEF Tracks
<1>2. ASSUME NEW q \in Seq(1 .. 3)
      PROVE  Append(q, x) \in Seq(1 .. 3) /\ Append(q, x) # <<>> /\ Append(q, x)[Len(Append(q, x))] = x
  BY AppendProperties, LenProperties
<1>3. /\ Append(printed, x) \in Seq(1 .. 3) /\ Append(printed, x) # <<>>
      /\ Append(printed, x)[Len(Append(printed, x))] = x
      /\ Append(D, x) \in Seq(1 .. 3) /\ Append(D, x) # <<>> /\ Append(D, x)[Len(Append(D, x))] = x
  BY <1>2 DEF Tracks
<1>4. CASE printed # <<>> /\ printed[Len(printed)] = x
  <2>1. More(D, x) = D
    BY <1>4 DEF More, Tracks
  <2>2. seq_of_distinct_outputs(Append(printed, x)) = D /\ D # <<>> /\ D[Len(D)] = x
    BY <1>1, <1>4 DEF Tracks
  <2> DEFINE p == Append(printed, x)
  <2>3. p \in Seq(1 .. 3) /\ p # <<>> /\ p[Len(p)] = x /\ seq_of_distinct_outputs(p) = D
    BY <1>3, <2>2
  <2> HIDE DEF p
  <2>4. Tracks(p, D)
    BY <2>2, <2>3 DEF Tracks
  <2>5. QED
    BY <2>1, <2>4 DEF p
<1>5. CASE ~(printed # <<>> /\ printed[Len(printed)] = x)
  <2>1. More(D, x) = Append(D, x)
    BY <1>5 DEF More, Tracks
  <2>2. seq_of_distinct_outputs(Append(printed, x)) = Append(D, x)
    BY <1>1, <1>5
  <2> DEFINE p == Append(printed, x)
             e == Append(D, x)
  <2>4. p \in Seq(1 .. 3) /\ p # <<>> /\ p[Len(p)] = x /\ e \in Seq(1 .. 3) /\ e # <<>> /\ e[Len(e)] = x
    BY <1>3
  <2>5. seq_of_distinct_outputs(p) = e
    BY <2>2
  <2> HIDE DEF p, e
  <2>6. Tracks(p, e)
    BY <2>4, <2>5 DEF Tracks
  <2>7. QED
    BY <2>1, <2>6 DEF p, e
<1>6. QED
  BY <1>4, <1>5

\* The port that carries the address of a write, and of a read.
WritePort(m) == IF Combined(m) THEN "COMBINED_ADDRESS_SIGNAL" ELSE "WRITE_ADDRESS_SIGNAL"
ReadPort(m) == IF Combined(m) THEN "COMBINED_ADDRESS_SIGNAL" ELSE "READ_ADDRESS_SIGNAL"

\* What a cycle leaves in the array.
Written(m, contents, v) ==
  IF Writes(m, v) THEN [contents EXCEPT ![v[WritePort(m)]] = v["INPUT_DATA"]] ELSE contents

\* Does the memory show what it writes?
ShowsThrough(m, v) == m.style = "through" /\ Combined(m) /\ Writes(m, v)

\* A cycle writes, and shows what is read or written, nothing, or what it showed before.
LEMMA CycleEffect ==
  ASSUME NEW m, NEW s, NEW v
  PROVE  LET t == Cycle(m, s, v)
         IN  /\ t = [contents |-> Written(m, s.contents, v), dout |-> t.dout,
                     shown |-> IF t.dout = 0 THEN s.shown ELSE Append(s.shown, t.dout)]
             /\ Reads(m, v) => t.dout = s.contents[v[ReadPort(m)]]
             /\ ~Reads(m, v) /\ ShowsThrough(m, v) => t.dout = v["INPUT_DATA"]
             /\ ~Reads(m, v) /\ ~ShowsThrough(m, v) => t.dout \in {0, s.dout}
<1>1. /\ Reads(m, v) => Cycle(m, s, v).dout = s.contents[v[ReadPort(m)]]
      /\ ~Reads(m, v) /\ ShowsThrough(m, v) => Cycle(m, s, v).dout = v["INPUT_DATA"]
      /\ ~Reads(m, v) /\ ~ShowsThrough(m, v) => Cycle(m, s, v).dout \in {0, s.dout}
  BY DEF Cycle, ReadPort, ShowsThrough
<1>2. Cycle(m, s, v).contents = Written(m, s.contents, v)
  BY DEF Cycle, Written, WritePort
<1>3. Cycle(m, s, v) = [contents |-> Written(m, s.contents, v), dout |-> Cycle(m, s, v).dout,
                     shown |-> IF Cycle(m, s, v).dout = 0 THEN s.shown ELSE Append(s.shown, Cycle(m, s, v).dout)]
  BY DEF Cycle, Written, WritePort
<1>4. QED
  BY <1>1, <1>3

\* A cycle that shows a value extends the distinct ones by it.
LEMMA CycleShows ==
  ASSUME NEW m, NEW s, NEW v, NEW D, Shows(s, D), Cycle(m, s, v).dout \in Value
  PROVE  /\ Shows(Cycle(m, s, v), More(D, Cycle(m, s, v).dout))
         /\ More(D, 0) = D /\ More(D, s.dout) = D
<1> DEFINE t == Cycle(m, s, v)
<1>1. t.shown = IF t.dout = 0 THEN s.shown ELSE Append(s.shown, t.dout)
  <2>1. t = [contents |-> Written(m, s.contents, v), dout |-> t.dout,
             shown |-> IF t.dout = 0 THEN s.shown ELSE Append(s.shown, t.dout)]
    BY CycleEffect
  <2> HIDE DEF t
  <2>2. QED
    BY <2>1
<1> HIDE DEF t
<1>2. CASE t.dout = 0
  <2>1. More(D, t.dout) = D
    BY <1>2 DEF More
  <2>2. QED
    BY <1>1, <1>2, <2>1 DEF Shows, More, Value, t
<1>3. CASE t.dout # 0
  <2>1. t.dout \in 1 .. 3
    BY <1>3 DEF Value, t
  <2>2. Tracks(t.shown, More(D, t.dout))
    BY <1>1, <1>3, <2>1, TracksAppend DEF Shows
  <2>3. More(D, t.dout) # <<>> /\ More(D, t.dout)[Len(More(D, t.dout))] = t.dout
    <3>1. CASE D # <<>> /\ t.dout = D[Len(D)]
      BY <3>1 DEF More
    <3>2. CASE ~(D # <<>> /\ t.dout = D[Len(D)])
      <4>1. More(D, t.dout) = Append(D, t.dout) /\ D \in Seq(1 .. 3)
        BY <1>3, <3>2 DEF More, Shows, Tracks
      <4>2. QED
        BY <2>1, <4>1
    <3>3. QED
      BY <3>1, <3>2
  <2>4. Shows(t, More(D, t.dout))
    BY <2>1, <2>2, <2>3 DEF Shows, Value
  <2>5. QED
    BY <2>4 DEF Shows, More, t
<1>4. QED
  BY <1>2, <1>3

\* Appending to a sequence of one.
LEMMA TwoValues ==
  ASSUME NEW a \in Nat, NEW b \in Nat
  PROVE  Append(<<a>>, b) = <<a, b>>
<1> DEFINE p == Append(<<a>>, b)
           q == <<a, b>>
<1>1. p \in Seq(Nat) /\ Len(p) = 2 /\ p[1] = a /\ p[2] = b
  <2>1. <<a>> \in Seq(Nat) /\ Len(<<a>>) = 1 /\ <<a>>[1] = a
    OBVIOUS
  <2>2. QED
    BY <2>1, AppendProperties
<1>2. q \in Seq(Nat) /\ Len(q) = 2 /\ q[1] = a /\ q[2] = b
  OBVIOUS
<1> HIDE DEF p, q
<1>3. p = [i \in 1 .. 2 |-> p[i]] /\ q = [i \in 1 .. 2 |-> q[i]]
  BY <1>1, <1>2
<1>4. p = q
  BY <1>1, <1>2, <1>3
<1>5. QED
  BY <1>4 DEF p, q

\* A memory that shows the first word only before the second step, and from then on only what
\* it showed before or the second word, does not pass.
LEMMA NoReturn ==
  ASSUME NEW m, NEW c, NEW Arrays, NEW first \in {0, 2}, NEW second \in {1, 3},
         Initially.contents \in Arrays[0],
         \A k \in 0 .. Cycles - 1 : \A contents \in Arrays[k] :
           LET v == Stimulus(m, c, k)
               new == {0, IF k < 9 THEN first ELSE second}
           IN  /\ Written(m, contents, v) \in Arrays[k + 1]
               /\ Reads(m, v) => contents[v[ReadPort(m)]] \in new
               /\ ShowsThrough(m, v) => v["INPUT_DATA"] \in new
  PROVE  Verdict(m, c).kind = "no"
<1> DEFINE New(k) == {0, IF k < 9 THEN first ELSE second}
           Early == {<<>>, <<first>>}
           Late == {<<>>, <<first>>, <<second>>, <<first, second>>}
           Seen(k) == IF k <= 9 THEN Early ELSE Late
           I == [k \in 0 .. Cycles |->
                  {s \in [contents : Arrays[k], dout : Value, shown : Seq(1 .. 3)] :
                     \E D \in Seen(k) : Shows(s, D)}]
<1>1. Initially \in I[0]
  <2>1. Shows(Initially, <<>>) /\ <<>> \in Seen(0)
    BY TracksInitially
  <2>2. Initially = [contents |-> Initially.contents, dout |-> 0, shown |-> <<>>]
    BY DEF Initially
  <2>3. 0 \in Value /\ <<>> \in Seq(1 .. 3) /\ 0 \in 0 .. Cycles
    BY DEF Value, Cycles
  <2>4. Initially \in [contents : Arrays[0], dout : Value, shown : Seq(1 .. 3)]
    <3> DEFINE array == Initially.contents
               Shown == Seq(1 .. 3)
               r == [contents |-> array, dout |-> 0, shown |-> <<>>]
    <3>1. array \in Arrays[0] /\ <<>> \in Shown
      BY <2>3
    <3> HIDE DEF array, Shown
    <3>2. r \in [contents : Arrays[0], dout : Value, shown : Shown]
      BY <2>3, <3>1
    <3>3. Initially = r
      BY <2>2 DEF array
    <3> HIDE DEF r
    <3>4. QED
      BY <3>2, <3>3 DEF Shown
  <2> HIDE DEF Seen
  <2>5. I[0] = {s \in [contents : Arrays[0], dout : Value, shown : Seq(1 .. 3)] :
                  \E D \in Seen(0) : Shows(s, D)}
    BY <2>3
  <2> HIDE DEF I
  <2>6. QED
    BY <2>1, <2>4, <2>5
<1>2. ASSUME NEW k \in 0 .. Cycles - 1, NEW s \in I[k]
      PROVE  Cycle(m, s, Stimulus(m, c, k)) \in I[k + 1]
  <2> DEFINE v == Stimulus(m, c, k)
             t == Cycle(m, s, v)
  <2>1. k \in 0 .. Cycles /\ k + 1 \in 0 .. Cycles /\ k \in Nat
    BY DEF Cycles
  <2> HIDE DEF v
  <2>2. s.contents \in Arrays[k]
    BY <2>1
  <2>3. PICK D \in Seen(k) : Shows(s, D)
    BY <2>1
  <2>4. /\ Written(m, s.contents, v) \in Arrays[k + 1]
        /\ Reads(m, v) => s.contents[v[ReadPort(m)]] \in New(k)
        /\ ShowsThrough(m, v) => v["INPUT_DATA"] \in New(k)
    BY <2>2 DEF v
  <2>5. /\ t = [contents |-> Written(m, s.contents, v), dout |-> t.dout,
                shown |-> IF t.dout = 0 THEN s.shown ELSE Append(s.shown, t.dout)]
        /\ Reads(m, v) => t.dout = s.contents[v[ReadPort(m)]]
        /\ ~Reads(m, v) /\ ShowsThrough(m, v) => t.dout = v["INPUT_DATA"]
        /\ ~Reads(m, v) /\ ~ShowsThrough(m, v) => t.dout \in {0, s.dout}
    BY CycleEffect
  <2> HIDE DEF t, New
  <2>6. t.dout \in New(k) \/ t.dout \in {0, s.dout}
    BY <2>4, <2>5
  <2>7. t.dout \in Value
    <3>1. New(k) \subseteq Value /\ 0 \in Value
      BY DEF New, Value
    <3>2. s.dout \in Value
      BY <2>3 DEF Shows
    <3>3. QED
      BY <2>6, <3>1, <3>2
  <2>8. Shows(t, More(D, t.dout)) /\ More(D, 0) = D /\ More(D, s.dout) = D
    BY <2>3, <2>7, CycleShows DEF t
  <2>9. More(D, t.dout) \in Seen(k + 1)
    <3>1. D \in Seen(k + 1)
      BY <2>1, <2>3
    <3>2. CASE t.dout \in {0, s.dout}
      BY <2>8, <3>1, <3>2
    <3>3. CASE k < 9 /\ t.dout = first /\ first # 0
      <4>1. D \in Early /\ Seen(k + 1) = Early
        BY <2>1, <2>3, <3>3
      <4>2. More(<<>>, first) = <<first>> /\ More(<<first>>, first) = <<first>>
        BY <3>3 DEF More
      <4>3. QED
        BY <3>3, <4>1, <4>2
    <3>4. CASE ~(k < 9) /\ t.dout = second
      <4>1. D \in Late /\ Seen(k + 1) = Late
        BY <2>1, <2>3, <3>4
      <4>2. second # 0 /\ first # second
        OBVIOUS
      <4>3. /\ More(<<>>, second) = <<second>>
            /\ More(<<first>>, second) = <<first, second>>
            /\ More(<<second>>, second) = <<second>>
            /\ More(<<first, second>>, second) = <<first, second>>
        <5>1. <<first>>[Len(<<first>>)] = first /\ <<first>> # <<>>
          OBVIOUS
        <5>2. Append(<<first>>, second) = <<first, second>>
          BY TwoValues
        <5>3. <<first, second>>[Len(<<first, second>>)] = second /\ <<first, second>> # <<>>
          OBVIOUS
        <5>4. More(<<>>, second) = <<second>> /\ More(<<second>>, second) = <<second>>
          BY <4>2 DEF More
        <5>5. More(<<first>>, second) = <<first, second>>
          BY <4>2, <5>1, <5>2 DEF More
        <5>6. More(<<first, second>>, second) = <<first, second>>
          BY <5>3 DEF More
        <5>7. QED
          BY <5>4, <5>5, <5>6
      <4>4. QED
        BY <3>4, <4>1, <4>3
    <3>5. QED
      BY <2>6, <3>2, <3>3, <3>4 DEF New
  <2>10. t \in [contents : Arrays[k + 1], dout : Value, shown : Seq(1 .. 3)]
    <3>1. t.shown \in Seq(1 .. 3)
      BY <2>8 DEF Shows, Tracks
    <3>2. t = [contents |-> Written(m, s.contents, v), dout |-> t.dout, shown |-> t.shown]
      BY <2>5
    <3>3. QED
      BY <2>4, <2>7, <3>1, <3>2
  <2> HIDE DEF Seen
  <2>11. t \in I[k + 1]
    BY <2>1, <2>8, <2>9, <2>10
  <2>12. QED
    BY <2>11 DEF t, v
<1> HIDE DEF I
<1>3. PICK s \in I[Cycles] : Outputs(m, c) = s.shown
  BY <1>1, <1>2, RunInvariant
<1>4. Cycles \in 0 .. Cycles /\ ~(Cycles <= 9)
  BY DEF Cycles
<1>5. PICK D \in Late : Shows(s, D)
  BY <1>4 DEF I
<1>6. seq_of_distinct_outputs(Outputs(m, c)) \in Late
  BY <1>3, <1>5 DEF Shows, Tracks
<1>7. <<2, 3, 2, 3>> \notin Late /\ <<2, 3, 2, 3, 2, 3>> \notin Late
  OBVIOUS
<1> HIDE DEF Late
<1>8. QED
  BY <1>6, <1>7 DEF Verdict

\* Inputs are masked to the width of their port, which tells from two bits on the data, from
\* three bits on the addresses.
LEMMA MaskedStimuli ==
  ASSUME NEW m, NEW port, NEW w \in Nat \ {0}, Width(m, port) = w
  PROVE  /\ Masked(m, port, 0) = 0
         /\ Masked(m, port, 1) = 1
         /\ Masked(m, port, 2) = IF w = 1 THEN 0 ELSE 2
         /\ Masked(m, port, 3) = IF w = 1 THEN 1 ELSE 3
         /\ Masked(m, port, 4) = IF w <= 2 THEN 0 ELSE 4
         /\ Masked(m, port, 15) % 2 = 1
         /\ \A x \in {0, 2, 4} : Masked(m, port, x) % 2 = 0
<1>1. 2 ^ 1 = 2 /\ 2 ^ 2 = 4 /\ 2 ^ 3 = 8
  BY Z3
<1>2. w = 1 \/ w = 2 \/ w = 3 \/ w >= 4
  OBVIOUS
<1>3. CASE w = 1
  <2>1. \A x : Masked(m, port, x) = x % 2
    BY <1>1, <1>3 DEF Masked
  <2>2. QED
    BY <1>3, <2>1
<1>4. CASE w = 2
  <2>1. \A x : Masked(m, port, x) = x % 4
    BY <1>1, <1>4 DEF Masked
  <2>2. QED
    BY <1>4, <2>1
<1>5. CASE w = 3
  <2>1. \A x : Masked(m, port, x) = x % 8
    BY <1>1, <1>5 DEF Masked
  <2>2. QED
    BY <1>5, <2>1
<1>6. CASE w >= 4
  <2>1. \A x : Masked(m, port, x) = x % 16
    BY <1>6 DEF Masked
  <2>2. QED
    BY <1>6, <2>1
<1>7. QED
  BY <1>2, <1>3, <1>4, <1>5, <1>6

\* The stimuli of the roles that are wider than a bit.
LEMMA WideSequences ==
  /\ \A i \in 1 .. 6 : /\ role_sequences["INPUT_DATA"][i] = <<2, 3, 0, 0, 0, 0>>[i]
                       /\ role_sequences["READ_ADDRESS_SIGNAL"][i] = <<0, 0, 4, 2, 4, 2>>[i]
                       /\ role_sequences["WRITE_ADDRESS_SIGNAL"][i] = <<4, 2, 0, 0, 0, 0>>[i]
                       /\ role_sequences["COMBINED_ADDRESS_SIGNAL"][i] = <<4, 2, 4, 2, 4, 2>>[i]
                       /\ role_sequences["BYTE_ENABLE_SIGNAL"][i] = IF i = 6 THEN 0 ELSE 15
  BY DEF role_sequences

\* The stimuli of the roles of one bit: which of them are high in the two writing steps, in
\* the first three reading ones and in the last.
LEMMA BitSequences ==
  ASSUME NEW role \in SingleBitRoles
  PROVE  LET bit == role_sequences[role]
         IN  /\ \A i \in 1 .. 6 : bit[i] \in {0, 1}
             /\ bit[1] = bit[2] /\ bit[3] = bit[4] /\ bit[4] = bit[5]
             /\ bit[1] = 1 <=> role # "READ_ENABLE"
             /\ bit[3] = 1 <=> role \in {"ENABLE", "WRITE_MASK", "READ_ENABLE"}
             /\ bit[6] = 1 <=> role \in {"ENABLE", "READ_ENABLE"}
  BY DEF role_sequences, SingleBitRoles

-----------------------------------------------------------------------------
(* The wide ports: three mistakes fit the widths, and the simulation rejects all three. *)

\* The ports of more than one bit have their true roles.
Right(m, c) == \A p \in m.ports \ SingleBitRoles : c[p] = p

\* What a candidate may make of the wide ports, if not the truth: it drives the address a
\* memory reads from like one it writes to, or the byte enable like an address.
LEMMA WideAssignments ==
  ASSUME NEW m \in Memories, ~DataAmbiguous(m), Cardinality(WidePorts(m)) <= 2,
         NEW c \in filter_candidate_roles(m)
  PROVE  /\ DOMAIN c = m.ports
         /\ c["INPUT_DATA"] = "INPUT_DATA"
         /\ \A p \in m.ports \cap SingleBitRoles : c[p] \in SingleBitRoles
         /\ m.address >= 3
         /\ \/ Right(m, c)
            \/ Combined(m) /\ c["COMBINED_ADDRESS_SIGNAL"] = "WRITE_ADDRESS_SIGNAL"
            \/ /\ Combined(m) /\ c["COMBINED_ADDRESS_SIGNAL"] = "READ_ADDRESS_SIGNAL"
               /\ "BYTE_ENABLE_SIGNAL" \in m.ports /\ c["BYTE_ENABLE_SIGNAL"] = "WRITE_ADDRESS_SIGNAL"
            \/ /\ ~Combined(m)
               /\ c["READ_ADDRESS_SIGNAL"] = "WRITE_ADDRESS_SIGNAL"
               /\ c["WRITE_ADDRESS_SIGNAL"] = "READ_ADDRESS_SIGNAL"
<1>1. /\ c \in Assignments(m)
      /\ "COMBINED_ADDRESS_SIGNAL" \in Range(c) =>
           Range(c) \cap {"READ_ADDRESS_SIGNAL", "WRITE_ADDRESS_SIGNAL"} = {}
      /\ "READ_ADDRESS_SIGNAL" \in Range(c) => "WRITE_ADDRESS_SIGNAL" \in Range(c)
  BY DEF filter_candidate_roles
<1>2. /\ DOMAIN c = m.ports
      /\ \A p \in m.ports : c[p] \in SuitableRoles(m, p)
      /\ \A p, q \in m.ports : c[p] = c[q] => p = q
  BY <1>1, AssignmentFits
<1>3. c["INPUT_DATA"] = "INPUT_DATA"
  BY DataPortClear
<1>4. /\ m.data \in Nat \ {0} /\ m.address \in Nat /\ m.address >= 2
      /\ m.ports \subseteq PortRole /\ "INPUT_DATA" \in m.ports
      /\ "BYTE_ENABLE_SIGNAL" \in m.ports => m.data > 8 /\ m.data % 8 = 0
  BY MemoryPorts
<1>5. \/ Unsingle(m) = {"INPUT_DATA", "COMBINED_ADDRESS_SIGNAL"}
      \/ Unsingle(m) = {"INPUT_DATA", "COMBINED_ADDRESS_SIGNAL", "BYTE_ENABLE_SIGNAL"}
      \/ Unsingle(m) = {"INPUT_DATA", "READ_ADDRESS_SIGNAL", "WRITE_ADDRESS_SIGNAL"}
  BY MemoryPorts, ShapeSizes
<1>6. ASSUME NEW p \in m.ports \ {"INPUT_DATA"}
      PROVE  /\ c[p] \in PortRole \ {"INPUT_DATA"}
             /\ c[p] \in SingleBitRoles => Width(m, p) = 1
             /\ c[p] \in AddressRoles => Width(m, p) >= 3
             /\ c[p] = "BYTE_ENABLE_SIGNAL" =>
                  m.data > 8 /\ m.data % 8 = 0 /\ Width(m, p) = m.data \div 8 /\ Width(m, p) >= 2
  <2>1. c[p] # "INPUT_DATA"
    BY <1>2, <1>3, <1>4
  <2>2. c[p] \in SuitableRoles(m, p)
    BY <1>2
  <2>3. /\ c[p] \in PortRole
        /\ c[p] = "BYTE_ENABLE_SIGNAL" => Width(m, p) = m.data \div 8
        /\ c[p] \in AddressRoles => Width(m, p) >= 3
        /\ c[p] \in SingleBitRoles => Width(m, p) = 1
    BY <2>2, Suitable
  <2>4. c[p] = "BYTE_ENABLE_SIGNAL" => byte_enable_candidates(m) # {}
    BY <2>2 DEF SuitableRoles, AddressRoles, SingleBitRoles
  <2>5. c[p] = "BYTE_ENABLE_SIGNAL" => m.data > 8 /\ m.data % 8 = 0
    BY <2>4 DEF byte_enable_candidates
  <2>6. m.data > 8 /\ m.data % 8 = 0 => m.data \div 8 >= 2
    BY Widths
  <2>7. QED
    BY <2>1, <2>3, <2>5, <2>6
<1>7. \A p \in m.ports \cap SingleBitRoles : c[p] \in SingleBitRoles
  <2>1. TAKE p \in m.ports \cap SingleBitRoles
  <2>2. Width(m, p) = 1 /\ p # "INPUT_DATA"
    BY Widths DEF SingleBitRoles
  <2>3. QED
    BY <1>6, <2>2 DEF PortRole
<1>8. \A p \in Unsingle(m) \ {"INPUT_DATA"} : c[p] \in {"BYTE_ENABLE_SIGNAL"} \cup AddressRoles
  <2>1. TAKE p \in Unsingle(m) \ {"INPUT_DATA"}
  <2>2. p \in WidePorts(m)
    BY WideIsUnsingle
  <2>3. p \in m.ports \ {"INPUT_DATA"} /\ Width(m, p) >= 2
    BY <2>2 DEF WidePorts
  <2>4. QED
    BY <1>6, <2>3 DEF PortRole
<1>9. \A p \in m.ports : c[p] \in AddressRoles => p \in Unsingle(m) \ {"INPUT_DATA"}
  BY <1>3, <1>7 DEF Unsingle, AddressRoles, SingleBitRoles
<1>10. ASSUME NEW p \in m.ports \cap AddressRoles
       PROVE  c[p] \in AddressRoles
  <2>1. p \in Unsingle(m) \ {"INPUT_DATA"}
    BY DEF Unsingle, AddressRoles, SingleBitRoles
  <2>2. SUFFICES ASSUME c[p] = "BYTE_ENABLE_SIGNAL" PROVE FALSE
    BY <1>8, <2>1
  <2>3. m.data > 8 /\ m.data % 8 = 0 /\ Width(m, p) = m.data \div 8 /\ Width(m, p) = m.address
    BY <1>6, <2>1, <2>2, Widths DEF Unsingle
  <2>4. CASE Unsingle(m) = {"INPUT_DATA", "COMBINED_ADDRESS_SIGNAL"}
    <3>1. PICK q \in m.ports : c[q] \in AddressRoles /\ q \in Unsingle(m) \ {"INPUT_DATA"}
      BY AddressPort
    <3>2. p = q
      BY <2>1, <2>4, <3>1
    <3>3. QED
      BY <2>2, <3>1, <3>2 DEF AddressRoles
  <2>5. ASSUME NEW q \in Unsingle(m) \ {"INPUT_DATA"}, q # p, Width(m, q) = m.data \div 8
        PROVE  FALSE
    <3>1. {p, q} \subseteq m.ports \ {"INPUT_DATA"} /\ p \in m.ports /\ q \in m.ports
      BY <2>1 DEF Unsingle
    <3>2. filter_candidate_roles(m) = {}
      BY <2>3, <2>5, <3>1, Clash
    <3>3. QED
      BY <3>2
  <2>6. CASE Unsingle(m) = {"INPUT_DATA", "COMBINED_ADDRESS_SIGNAL", "BYTE_ENABLE_SIGNAL"}
    <3>1. Width(m, "BYTE_ENABLE_SIGNAL") = m.data \div 8 /\ "BYTE_ENABLE_SIGNAL" # p
      BY Widths DEF AddressRoles
    <3>2. QED
      BY <2>5, <2>6, <3>1
  <2>7. CASE Unsingle(m) = {"INPUT_DATA", "READ_ADDRESS_SIGNAL", "WRITE_ADDRESS_SIGNAL"}
    <3>1. \A q \in {"READ_ADDRESS_SIGNAL", "WRITE_ADDRESS_SIGNAL"} : Width(m, q) = m.data \div 8
      BY <2>3, Widths DEF AddressRoles
    <3>2. \E q \in {"READ_ADDRESS_SIGNAL", "WRITE_ADDRESS_SIGNAL"} : q # p
      OBVIOUS
    <3>3. QED
      BY <2>5, <2>7, <3>1, <3>2
  <2>8. QED
    BY <1>5, <2>4, <2>6, <2>7
<1>11. m.address >= 3
  <2>1. PICK p \in m.ports \cap AddressRoles : TRUE
    BY <1>5 DEF Unsingle, AddressRoles
  <2>2. p # "INPUT_DATA" /\ Width(m, p) = m.address
    BY Widths DEF AddressRoles
  <2>3. QED
    BY <1>6, <1>10, <2>1, <2>2
<1>12. \A role \in Range(c) : \E p \in m.ports : c[p] = role
  BY <1>2 DEF Range
<1>13. \A p \in m.ports : c[p] \in Range(c)
  BY <1>2 DEF Range
<1>14. CASE Unsingle(m) = {"INPUT_DATA", "COMBINED_ADDRESS_SIGNAL"}
  <2>1. "COMBINED_ADDRESS_SIGNAL" \in m.ports /\ Combined(m)
    BY <1>14 DEF Unsingle, Combined
  <2>2. c["COMBINED_ADDRESS_SIGNAL"] # "READ_ADDRESS_SIGNAL"
    <3>1. SUFFICES ASSUME c["COMBINED_ADDRESS_SIGNAL"] = "READ_ADDRESS_SIGNAL" PROVE FALSE
      OBVIOUS
    <3>2. PICK p \in m.ports : c[p] = "WRITE_ADDRESS_SIGNAL"
      BY <1>1, <1>12, <1>13, <2>1, <3>1
    <3>3. p = "COMBINED_ADDRESS_SIGNAL"
      BY <1>9, <1>14, <3>2 DEF AddressRoles
    <3>4. QED
      BY <3>1, <3>2, <3>3
  <2>3. c["COMBINED_ADDRESS_SIGNAL"] \in AddressRoles
    BY <1>10, <2>1 DEF AddressRoles
  <2>4. QED
    BY <1>2, <1>3, <1>7, <1>11, <1>14, <2>1, <2>2, <2>3 DEF AddressRoles, Right, Unsingle
<1>15. CASE Unsingle(m) = {"INPUT_DATA", "COMBINED_ADDRESS_SIGNAL", "BYTE_ENABLE_SIGNAL"}
  <2>1. "COMBINED_ADDRESS_SIGNAL" \in m.ports /\ "BYTE_ENABLE_SIGNAL" \in m.ports /\ Combined(m)
    BY <1>15 DEF Unsingle, Combined
  <2>2. c["COMBINED_ADDRESS_SIGNAL"] \in AddressRoles
    BY <1>10, <2>1 DEF AddressRoles
  <2>3. c["BYTE_ENABLE_SIGNAL"] \in {"BYTE_ENABLE_SIGNAL"} \cup AddressRoles
    BY <1>8, <1>15
  <2>4. c["COMBINED_ADDRESS_SIGNAL"] # c["BYTE_ENABLE_SIGNAL"]
    BY <1>2, <2>1
  <2>5. CASE c["COMBINED_ADDRESS_SIGNAL"] = "COMBINED_ADDRESS_SIGNAL"
    <3>1. c["BYTE_ENABLE_SIGNAL"] = "BYTE_ENABLE_SIGNAL"
      BY <1>1, <1>13, <2>1, <2>3, <2>4, <2>5 DEF AddressRoles
    <3>2. QED
      BY <1>2, <1>3, <1>7, <1>11, <1>15, <2>5, <3>1 DEF Right, Unsingle
  <2>6. CASE c["COMBINED_ADDRESS_SIGNAL"] = "WRITE_ADDRESS_SIGNAL"
    BY <1>2, <1>3, <1>7, <1>11, <2>1, <2>6
  <2>7. CASE c["COMBINED_ADDRESS_SIGNAL"] = "READ_ADDRESS_SIGNAL"
    <3>1. PICK p \in m.ports : c[p] = "WRITE_ADDRESS_SIGNAL"
      BY <1>1, <1>12, <1>13, <2>1, <2>7
    <3>2. p = "BYTE_ENABLE_SIGNAL"
      BY <1>9, <1>15, <2>7, <3>1 DEF AddressRoles
    <3>3. QED
      BY <1>2, <1>3, <1>7, <1>11, <2>1, <2>7, <3>1, <3>2
  <2>8. QED
    BY <2>2, <2>5, <2>6, <2>7 DEF AddressRoles
<1>16. CASE Unsingle(m) = {"INPUT_DATA", "READ_ADDRESS_SIGNAL", "WRITE_ADDRESS_SIGNAL"}
  <2>1. /\ "READ_ADDRESS_SIGNAL" \in m.ports /\ "WRITE_ADDRESS_SIGNAL" \in m.ports
        /\ "COMBINED_ADDRESS_SIGNAL" \notin m.ports /\ ~Combined(m)
    BY <1>16 DEF Unsingle, Combined, SingleBitRoles
  <2>2. c["READ_ADDRESS_SIGNAL"] \in AddressRoles /\ c["WRITE_ADDRESS_SIGNAL"] \in AddressRoles
    BY <1>10, <2>1 DEF AddressRoles
  <2>3. c["READ_ADDRESS_SIGNAL"] # c["WRITE_ADDRESS_SIGNAL"]
    BY <1>2, <2>1
  <2>4. "COMBINED_ADDRESS_SIGNAL" \notin Range(c)
    BY <1>1, <1>13, <2>1, <2>2, <2>3 DEF AddressRoles
  <2>5. /\ c["READ_ADDRESS_SIGNAL"] \in {"READ_ADDRESS_SIGNAL", "WRITE_ADDRESS_SIGNAL"}
        /\ c["WRITE_ADDRESS_SIGNAL"] \in {"READ_ADDRESS_SIGNAL", "WRITE_ADDRESS_SIGNAL"}
    BY <1>13, <2>1, <2>2, <2>4 DEF AddressRoles
  <2>6. QED
    BY <1>2, <1>3, <1>7, <1>11, <1>16, <2>1, <2>3, <2>5 DEF Right, Unsingle
<1>17. QED
  BY <1>5, <1>14, <1>15, <1>16

\* What the candidates of a memory that is simulated have in common.
Plausible(m, c) ==
  /\ m.address >= 3
  /\ DOMAIN c = m.ports
  /\ c["INPUT_DATA"] = "INPUT_DATA"
  /\ \A p \in m.ports \cap AddressRoles : c[p] \in AddressRoles
  /\ \A p \in m.ports \cap SingleBitRoles : c[p] \in SingleBitRoles

\* The two words written.
First(m) == IF m.data = 1 THEN 0 ELSE 2
Second(m) == IF m.data = 1 THEN 1 ELSE 3

\* A memory has a port for each address, which may be the same, and one for the data.
LEMMA MemoryAddresses ==
  ASSUME NEW m \in Memories
  PROVE  /\ WritePort(m) \in m.ports \cap AddressRoles
         /\ ReadPort(m) \in m.ports \cap AddressRoles
         /\ "INPUT_DATA" \in m.ports
<1>1. /\ "INPUT_DATA" \in m.ports
      /\ \/ "COMBINED_ADDRESS_SIGNAL" \in m.ports
         \/ "READ_ADDRESS_SIGNAL" \in m.ports /\ "WRITE_ADDRESS_SIGNAL" \in m.ports
  BY MemoryPorts DEF Unsingle
<1>2. QED
  BY <1>1 DEF WritePort, ReadPort, Combined, AddressRoles

\* The addresses and the data a memory sees, and when.
LEMMA Inputs ==
  ASSUME NEW m \in Memories, NEW c, Plausible(m, c), NEW k \in 0 .. Cycles - 1
  PROVE  LET v == Stimulus(m, c, k)
         IN  /\ v["INPUT_DATA"] = CASE k = 4 -> First(m) [] k = 9 -> Second(m) [] OTHER -> 0
             /\ \A p \in {WritePort(m), ReadPort(m)} :
                  /\ k \in {4, 9, 14, 19, 24, 29} => v[p] = role_sequences[c[p]][1 + k \div 5]
                  /\ k \notin {4, 9, 14, 19, 24, 29} => v[p] = 0
                  /\ v[p] \in {0, 2, 4}
<1> DEFINE v == Stimulus(m, c, k)
           i == 1 + k \div 5
<1>1. \/ k \in {4, 9, 14, 19, 24, 29} /\ v = Step(m, c, i)
      \/ k \notin {4, 9, 14, 19, 24, 29} /\ v = Idle(c)
  BY StimulusOf
<1>2. /\ DOMAIN c = m.ports /\ m.address \in Nat \ {0} /\ m.address >= 3 /\ m.data \in Nat \ {0}
      /\ "INPUT_DATA" \in DOMAIN c /\ c["INPUT_DATA"] = "INPUT_DATA"
      /\ \A p \in {WritePort(m), ReadPort(m)} : p \in DOMAIN c /\ c[p] \in AddressRoles /\ Width(m, p) = m.address
      /\ Width(m, "INPUT_DATA") = m.data
  BY MemoryPorts, MemoryAddresses, Widths DEF Plausible
<1>3. CASE k \notin {4, 9, 14, 19, 24, 29}
  BY <1>1, <1>2, <1>3 DEF Idle
<1>4. CASE k \in {4, 9, 14, 19, 24, 29}
  <2>1. i \in 1 .. 6 /\ v = Step(m, c, i) /\ (k = 4 <=> i = 1) /\ (k = 9 <=> i = 2)
    BY <1>1, <1>4
  <2> HIDE DEF i, v
  <2>2. \A p \in DOMAIN c : v[p] = Masked(m, p, role_sequences[c[p]][i])
    BY <2>1 DEF Step
  <2>3. v["INPUT_DATA"] = CASE k = 4 -> First(m) [] k = 9 -> Second(m) [] OTHER -> 0
    <3>1. v["INPUT_DATA"] = Masked(m, "INPUT_DATA", role_sequences["INPUT_DATA"][i])
      BY <1>2, <2>2
    <3>2. role_sequences["INPUT_DATA"][i] = IF i = 1 THEN 2 ELSE IF i = 2 THEN 3 ELSE 0
      BY <2>1, WideSequences
    <3>3. /\ Masked(m, "INPUT_DATA", 0) = 0
          /\ Masked(m, "INPUT_DATA", 2) = First(m)
          /\ Masked(m, "INPUT_DATA", 3) = Second(m)
      BY <1>2, MaskedStimuli DEF First, Second
    <3>4. QED
      BY <2>1, <3>1, <3>2, <3>3
  <2>4. ASSUME NEW p \in {WritePort(m), ReadPort(m)}
        PROVE  v[p] = role_sequences[c[p]][i] /\ v[p] \in {0, 2, 4}
    <3>1. role_sequences[c[p]][i] \in {0, 2, 4}
      BY <1>2, <2>1 DEF role_sequences, AddressRoles
    <3>2. \A x \in {0, 2, 4} : Masked(m, p, x) = x
      BY <1>2, MaskedStimuli
    <3>3. QED
      BY <1>2, <2>2, <3>1, <3>2
  <2>5. QED
    BY <1>4, <2>3, <2>4 DEF i, v
<1>5. QED
  BY <1>3, <1>4

\* Accesses of the i-th step.
WritesIn(m, c, i) == Writes(m, Step(m, c, i))
ReadsIn(m, c, i) == Reads(m, Step(m, c, i))

\* The steps are the cycles 4, 9, 14, 19, 24 and 29.
LEMMA AccessesOf ==
  ASSUME NEW m, NEW c
  PROVE  /\ Writes(m, Stimulus(m, c, 4)) = WritesIn(m, c, 1) /\ Reads(m, Stimulus(m, c, 4)) = ReadsIn(m, c, 1)
         /\ Writes(m, Stimulus(m, c, 9)) = WritesIn(m, c, 2) /\ Reads(m, Stimulus(m, c, 9)) = ReadsIn(m, c, 2)
         /\ Writes(m, Stimulus(m, c, 14)) = WritesIn(m, c, 3) /\ Reads(m, Stimulus(m, c, 14)) = ReadsIn(m, c, 3)
         /\ Writes(m, Stimulus(m, c, 19)) = WritesIn(m, c, 4) /\ Reads(m, Stimulus(m, c, 19)) = ReadsIn(m, c, 4)
         /\ Writes(m, Stimulus(m, c, 24)) = WritesIn(m, c, 5) /\ Reads(m, Stimulus(m, c, 24)) = ReadsIn(m, c, 5)
         /\ Writes(m, Stimulus(m, c, 29)) = WritesIn(m, c, 6) /\ Reads(m, Stimulus(m, c, 29)) = ReadsIn(m, c, 6)
<1>1. \A k \in {4, 9, 14, 19, 24, 29} : k \in 0 .. Cycles - 1
  BY DEF Cycles
<1>2. \A k \in {4, 9, 14, 19, 24, 29} : Stimulus(m, c, k) = Step(m, c, 1 + k \div 5)
  BY <1>1, StimulusOf
<1>3. /\ 1 + 4 \div 5 = 1 /\ 1 + 9 \div 5 = 2 /\ 1 + 14 \div 5 = 3
      /\ 1 + 19 \div 5 = 4 /\ 1 + 24 \div 5 = 5 /\ 1 + 29 \div 5 = 6
  OBVIOUS
<1>4. /\ Stimulus(m, c, 4) = Step(m, c, 1) /\ Stimulus(m, c, 9) = Step(m, c, 2)
      /\ Stimulus(m, c, 14) = Step(m, c, 3) /\ Stimulus(m, c, 19) = Step(m, c, 4)
      /\ Stimulus(m, c, 24) = Step(m, c, 5) /\ Stimulus(m, c, 29) = Step(m, c, 6)
  BY <1>2, <1>3
<1>5. QED
  BY <1>4 DEF WritesIn, ReadsIn

\* Nothing is shown of a memory into which nothing is written.
LEMMA NothingWritten ==
  ASSUME NEW m \in Memories, NEW c, Plausible(m, c), ~WritesIn(m, c, 1), ~WritesIn(m, c, 2)
  PROVE  Verdict(m, c).kind = "no"
<1> DEFINE Zero == [a \in {0, 2, 4} |-> 0]
           Arrays == [k \in 0 .. Cycles |-> {Zero}]
<1>1. Initially.contents \in Arrays[0]
  BY DEF Initially, Cycles
<1>2. ASSUME NEW k \in 0 .. Cycles - 1, NEW contents \in Arrays[k]
      PROVE  LET v == Stimulus(m, c, k)
                 new == {0, IF k < 9 THEN 2 ELSE 3}
             IN  /\ Written(m, contents, v) \in Arrays[k + 1]
                 /\ Reads(m, v) => contents[v[ReadPort(m)]] \in new
                 /\ ShowsThrough(m, v) => v["INPUT_DATA"] \in new
  <2> DEFINE v == Stimulus(m, c, k)
  <2>1. k + 1 \in 0 .. Cycles /\ contents = Zero
    BY DEF Cycles
  <2>2. /\ v["INPUT_DATA"] = CASE k = 4 -> First(m) [] k = 9 -> Second(m) [] OTHER -> 0
        /\ v[WritePort(m)] \in {0, 2, 4} /\ v[ReadPort(m)] \in {0, 2, 4}
    BY Inputs
  <2>3. Writes(m, v) => k # 4 /\ k # 9
    BY AccessesOf
  <2> HIDE DEF v
  <2>4. Writes(m, v) => v["INPUT_DATA"] = 0
    BY <2>2, <2>3
  <2>5. Written(m, Zero, v) = Zero
    BY <2>2, <2>4 DEF Written
  <2>6. Zero[v[ReadPort(m)]] = 0
    BY <2>2
  <2> HIDE DEF Zero
  <2>7. QED
    BY <2>1, <2>4, <2>5, <2>6 DEF v, ShowsThrough
<1> HIDE DEF Arrays
<1>3. 2 \in {0, 2} /\ 3 \in {1, 3}
  OBVIOUS
<1>4. QED
  BY <1>1, <1>2, <1>3, NoReturn

\* The words tell a memory of one bit from wider ones.
LEMMA FirstSecond ==
  ASSUME NEW m
  PROVE  First(m) \in {0, 2} /\ Second(m) \in {1, 3} /\ First(m) \in Value /\ Second(m) \in Value
  BY DEF First, Second, Value

\* A memory that does not read after the words are written, or not where, shows at most the
\* last one.
LEMMA NothingReadBack ==
  ASSUME NEW m \in Memories, NEW c, Plausible(m, c),
         c[WritePort(m)] \in {"WRITE_ADDRESS_SIGNAL", "COMBINED_ADDRESS_SIGNAL"},
         \/ c[ReadPort(m)] = "WRITE_ADDRESS_SIGNAL"
         \/ ~ReadsIn(m, c, 3) /\ ~ReadsIn(m, c, 4) /\ ~ReadsIn(m, c, 5)
  PROVE  Verdict(m, c).kind = "no"
<1> DEFINE Array == [{0, 2, 4} -> Value]
           Kept(k, f) == /\ f[0] = 0 /\ f[2] \in {0, Second(m)}
                         /\ k <= 9 => f[2] = 0
                         /\ k <= 4 => f[4] = 0
           Arrays == [k \in 0 .. Cycles |-> {f \in Array : Kept(k, f)}]
<1>1. Initially.contents \in Arrays[0]
  <2>1. Initially.contents = [a \in {0, 2, 4} |-> 0] /\ 0 \in Value /\ 0 \in 0 .. Cycles
    BY DEF Initially, Cycles, Value
  <2>2. QED
    BY <2>1
<1>2. ASSUME NEW k \in 0 .. Cycles - 1, NEW contents \in Arrays[k]
      PROVE  LET v == Stimulus(m, c, k)
                 new == {0, IF k < 9 THEN First(m) ELSE Second(m)}
             IN  /\ Written(m, contents, v) \in Arrays[k + 1]
                 /\ Reads(m, v) => contents[v[ReadPort(m)]] \in new
                 /\ ShowsThrough(m, v) => v["INPUT_DATA"] \in new
  <2> DEFINE v == Stimulus(m, c, k)
             wa == v[WritePort(m)]
             ra == v[ReadPort(m)]
             d == v["INPUT_DATA"]
  <2>1. /\ k \in 0 .. Cycles /\ k + 1 \in 0 .. Cycles /\ k \in Nat
        /\ contents \in Array /\ Kept(k, contents)
    BY DEF Cycles
  <2>2. /\ d = CASE k = 4 -> First(m) [] k = 9 -> Second(m) [] OTHER -> 0
        /\ \A p \in {WritePort(m), ReadPort(m)} :
             /\ k \in {4, 9, 14, 19, 24, 29} => v[p] = role_sequences[c[p]][1 + k \div 5]
             /\ k \notin {4, 9, 14, 19, 24, 29} => v[p] = 0
             /\ v[p] \in {0, 2, 4}
    BY Inputs
  <2>3. c[ReadPort(m)] \in AddressRoles
    BY MemoryAddresses DEF Plausible
  <2>4. /\ wa \in {0, 2, 4} /\ ra \in {0, 2, 4}
        /\ k = 4 => wa = 4 /\ ra \in {0, 4}
        /\ k = 9 => wa = 2 /\ ra \in {0, 2}
        /\ k = 29 => ra \in {0, 2}
        /\ k \notin {4, 9, 14, 19, 24, 29} => ra = 0
        /\ k \in {14, 19, 24} /\ c[ReadPort(m)] = "WRITE_ADDRESS_SIGNAL" => ra = 0
    <3>1. /\ wa \in {0, 2, 4}
          /\ k = 4 => wa = 4
          /\ k = 9 => wa = 2
      BY <2>2, <2>3 DEF role_sequences, AddressRoles
    <3>2. /\ ra \in {0, 2, 4}
          /\ k = 4 => ra \in {0, 4}
          /\ k \in {9, 29} => ra \in {0, 2}
      BY <2>2, <2>3 DEF role_sequences, AddressRoles
    <3>3. /\ k \notin {4, 9, 14, 19, 24, 29} => ra = 0
          /\ k \in {14, 19, 24} /\ c[ReadPort(m)] = "WRITE_ADDRESS_SIGNAL" => ra = 0
      BY <2>2 DEF role_sequences
    <3>4. QED
      BY <3>1, <3>2, <3>3
  <2>5. k \in {14, 19, 24} => ra = 0 \/ ~Reads(m, v)
    BY <2>4, AccessesOf
  <2> HIDE DEF v, wa, ra, d, Array, Kept
  <2>6. d \in {0, IF k < 9 THEN First(m) ELSE Second(m)} /\ d \in Value
    BY <2>1, <2>2, FirstSecond DEF Value
  <2>7. Written(m, contents, v) \in Array /\ Kept(k + 1, Written(m, contents, v))
    <3>1. CASE ~Writes(m, v)
      BY <2>1, <3>1 DEF Written, Kept
    <3>2. CASE Writes(m, v)
      <4> DEFINE f == [contents EXCEPT ![wa] = d]
      <4>1. Written(m, contents, v) = f
        BY <3>2 DEF Written, wa, d
      <4>2. f \in Array /\ \A a \in {0, 2, 4} : f[a] = IF a = wa THEN d ELSE contents[a]
        BY <2>1, <2>4, <2>6 DEF Array
      <4> HIDE DEF f
      <4>3. f[0] = 0
        BY <2>1, <2>2, <2>4, <4>2 DEF Kept
      <4>4. f[2] \in {0, Second(m)} /\ (k + 1 <= 9 => f[2] = 0)
        BY <2>1, <2>2, <2>4, <4>2 DEF Kept
      <4>5. k + 1 <= 4 => f[4] = 0
        BY <2>1, <2>2, <2>4, <4>2 DEF Kept
      <4>6. QED
        BY <4>1, <4>2, <4>3, <4>4, <4>5 DEF Kept
    <3>3. QED
      BY <3>1, <3>2
  <2>8. Reads(m, v) => contents[ra] \in {0, IF k < 9 THEN First(m) ELSE Second(m)}
    <3>1. Reads(m, v) => \/ ra = 0
                         \/ k <= 4 /\ ra = 4
                         \/ k = 9 /\ ra = 2
                         \/ ~(k < 9) /\ ra = 2
      BY <2>1, <2>4, <2>5
    <3>2. QED
      BY <2>1, <3>1 DEF Kept
  <2>9. Arrays[k + 1] = {f \in Array : Kept(k + 1, f)}
    BY <2>1
  <2> HIDE DEF Arrays
  <2>10. QED
    BY <2>6, <2>7, <2>8, <2>9 DEF v, ra, d
<1> HIDE DEF Arrays
<1>3. QED
  BY <1>1, <1>2, FirstSecond, NoReturn

\* A memory with two ports that gets each other's addresses shows the last word written.
LEMMA AddressesSwapped ==
  ASSUME NEW m \in Memories, NEW c, Plausible(m, c), ~Combined(m),
         c["READ_ADDRESS_SIGNAL"] = "WRITE_ADDRESS_SIGNAL",
         c["WRITE_ADDRESS_SIGNAL"] = "READ_ADDRESS_SIGNAL",
         WritesIn(m, c, 2)
  PROVE  Verdict(m, c).kind = "no"
<1> DEFINE Array == [{0, 2, 4} -> Value]
           Kept(k, f) == /\ f[0] \in (IF k <= 4 THEN {0} ELSE IF k <= 9 THEN {0, First(m)} ELSE {0, Second(m)})
                         /\ k <= 9 => f[2] = 0 /\ f[4] = 0
           Arrays == [k \in 0 .. Cycles |-> {f \in Array : Kept(k, f)}]
<1>1. Initially.contents \in Arrays[0]
  <2>1. Initially.contents = [a \in {0, 2, 4} |-> 0] /\ 0 \in Value /\ 0 \in 0 .. Cycles
    BY DEF Initially, Cycles, Value
  <2>2. QED
    BY <2>1
<1>2. ASSUME NEW k \in 0 .. Cycles - 1, NEW contents \in Arrays[k]
      PROVE  LET v == Stimulus(m, c, k)
                 new == {0, IF k < 9 THEN First(m) ELSE Second(m)}
             IN  /\ Written(m, contents, v) \in Arrays[k + 1]
                 /\ Reads(m, v) => contents[v[ReadPort(m)]] \in new
                 /\ ShowsThrough(m, v) => v["INPUT_DATA"] \in new
  <2> DEFINE v == Stimulus(m, c, k)
             wa == v[WritePort(m)]
             ra == v[ReadPort(m)]
             d == v["INPUT_DATA"]
  <2>1. /\ k \in 0 .. Cycles /\ k + 1 \in 0 .. Cycles /\ k \in Nat
        /\ contents \in Array /\ Kept(k, contents)
    BY DEF Cycles
  <2>2. /\ d = CASE k = 4 -> First(m) [] k = 9 -> Second(m) [] OTHER -> 0
        /\ \A p \in {WritePort(m), ReadPort(m)} :
             /\ k \in {4, 9, 14, 19, 24, 29} => v[p] = role_sequences[c[p]][1 + k \div 5]
             /\ k \notin {4, 9, 14, 19, 24, 29} => v[p] = 0
             /\ v[p] \in {0, 2, 4}
    BY Inputs
  <2>3. c[ReadPort(m)] = "WRITE_ADDRESS_SIGNAL" /\ c[WritePort(m)] = "READ_ADDRESS_SIGNAL"
    BY DEF ReadPort, WritePort
  <2>4. /\ wa \in {0, 2, 4} /\ ra \in {0, 2, 4}
        /\ k <= 9 => wa = 0
        /\ k = 4 => ra = 4
        /\ k = 9 => ra = 2
        /\ k # 4 /\ k # 9 => ra = 0
    BY <2>1, <2>2, <2>3 DEF role_sequences
  <2>5. k = 9 => Writes(m, v)
    BY AccessesOf
  <2> HIDE DEF v, wa, ra, d, Array, Kept
  <2>6. d \in {0, IF k < 9 THEN First(m) ELSE Second(m)} /\ d \in Value
    BY <2>1, <2>2, FirstSecond DEF Value
  <2>7. Written(m, contents, v) \in Array /\ Kept(k + 1, Written(m, contents, v))
    <3>1. CASE ~Writes(m, v)
      <4>1. k # 9
        BY <2>5, <3>1
      <4>2. QED
        BY <2>1, <3>1, <4>1 DEF Written, Kept
    <3>2. CASE Writes(m, v)
      <4> DEFINE f == [contents EXCEPT ![wa] = d]
      <4>1. Written(m, contents, v) = f
        BY <3>2 DEF Written, wa, d
      <4>2. f \in Array /\ \A a \in {0, 2, 4} : f[a] = IF a = wa THEN d ELSE contents[a]
        BY <2>1, <2>4, <2>6 DEF Array
      <4> HIDE DEF f
      <4>3. k + 1 <= 9 => f[2] = 0 /\ f[4] = 0
        BY <2>1, <2>4, <4>2 DEF Kept
      <4>4. CASE k <= 9
        BY <2>1, <2>2, <2>4, <4>1, <4>2, <4>3, <4>4 DEF Kept
      <4>5. CASE ~(k <= 9)
        BY <2>1, <2>2, <4>1, <4>2, <4>3, <4>5 DEF Kept
      <4>6. QED
        BY <4>4, <4>5
    <3>3. QED
      BY <3>1, <3>2
  <2>8. Reads(m, v) => contents[ra] \in {0, IF k < 9 THEN First(m) ELSE Second(m)}
    <3>1. \/ k = 4 /\ ra = 4
          \/ k = 9 /\ ra = 2
          \/ ra = 0
      BY <2>4
    <3>2. ra = 0 => contents[ra] \in {0, IF k < 9 THEN First(m) ELSE Second(m)}
      BY <2>1, <2>4 DEF Kept
    <3>3. QED
      BY <2>1, <3>1, <3>2 DEF Kept
  <2>9. Arrays[k + 1] = {f \in Array : Kept(k + 1, f)}
    BY <2>1
  <2> HIDE DEF Arrays
  <2>10. QED
    BY <2>6, <2>7, <2>8, <2>9 DEF v, ra, d
<1> HIDE DEF Arrays
<1>3. QED
  BY <1>1, <1>2, FirstSecond, NoReturn

\* The control ports: the stimulus of a bit is that of its role, and a byte enable selects
\* lane 0 in every step but the last.
LEMMA ControlBits ==
  ASSUME NEW m \in Memories, NEW c, DOMAIN c = m.ports, NEW i \in 1 .. 6,
         \A p \in m.ports \cap SingleBitRoles : c[p] \in SingleBitRoles
  PROVE  LET v == Step(m, c, i)
         IN  /\ \A p \in SingleBitRoles :
                  High(v, p) <=> p \notin m.ports \/ role_sequences[c[p]][i] = 1
             /\ "BYTE_ENABLE_SIGNAL" \notin m.ports => High(v, "BYTE_ENABLE_SIGNAL")
             /\ "BYTE_ENABLE_SIGNAL" \in m.ports /\ c["BYTE_ENABLE_SIGNAL"] = "BYTE_ENABLE_SIGNAL"
                  => (High(v, "BYTE_ENABLE_SIGNAL") <=> i # 6)
             /\ "BYTE_ENABLE_SIGNAL" \in m.ports /\ c["BYTE_ENABLE_SIGNAL"] \in AddressRoles
                  => ~High(v, "BYTE_ENABLE_SIGNAL")
<1> DEFINE v == Step(m, c, i)
           B == "BYTE_ENABLE_SIGNAL"
<1>1. DOMAIN v = m.ports /\ \A p \in m.ports : v[p] = Masked(m, p, role_sequences[c[p]][i])
  BY DEF Step
<1> HIDE DEF v
<1>2. ASSUME NEW p \in SingleBitRoles
      PROVE  High(v, p) <=> p \notin m.ports \/ role_sequences[c[p]][i] = 1
  <2>1. CASE p \notin m.ports
    BY <1>1, <2>1 DEF High
  <2>2. CASE p \in m.ports
    <3>1. c[p] \in SingleBitRoles /\ Width(m, p) = 1
      BY <2>2, Widths
    <3>2. role_sequences[c[p]][i] \in {0, 1}
      BY <3>1, BitSequences
    <3>3. Masked(m, p, 0) = 0 /\ Masked(m, p, 1) = 1
      BY <3>1, MaskedStimuli
    <3>4. v[p] = Masked(m, p, role_sequences[c[p]][i])
      BY <1>1, <2>2
    <3>5. v[p] = role_sequences[c[p]][i]
      BY <3>2, <3>3, <3>4
    <3>6. QED
      BY <1>1, <2>2, <3>2, <3>5 DEF High
  <2>3. QED
    BY <2>1, <2>2
<1>3. B \notin m.ports => High(v, B)
  BY <1>1 DEF High
<1>4. CASE B \in m.ports
  <2>1. v[B] = Masked(m, B, role_sequences[c[B]][i])
    BY <1>1, <1>4
  <2>2. m.data > 8 /\ m.data \in Nat /\ Width(m, B) = m.data \div 8
    BY <1>4, MemoryPorts, Widths
  <2>3. Width(m, B) \in Nat \ {0}
    BY <2>2
  <2>4. /\ Masked(m, B, 15) % 2 = 1 /\ Masked(m, B, 0) = 0
        /\ \A x \in {0, 2, 4} : Masked(m, B, x) % 2 = 0
    BY <2>3, MaskedStimuli
  <2>5. High(v, B) <=> v[B] % 2 = 1
    BY <1>1, <1>4 DEF High
  <2>6. CASE c[B] = B
    <3>1. role_sequences[B][i] = IF i = 6 THEN 0 ELSE 15
      BY WideSequences
    <3>2. i = 6 => v[B] = 0
      BY <2>1, <2>4, <2>6, <3>1
    <3>3. i # 6 => v[B] % 2 = 1
      BY <2>1, <2>4, <2>6, <3>1
    <3>4. High(v, B) <=> i # 6
      BY <2>5, <3>2, <3>3
    <3>5. QED
      BY <1>2, <1>4, <2>6, <3>4 DEF v, AddressRoles
  <2>7. CASE c[B] \in AddressRoles
    <3>1. role_sequences[c[B]][i] \in {0, 2, 4}
      BY <2>7 DEF role_sequences, AddressRoles
    <3>2. v[B] % 2 = 0
      BY <2>1, <2>4, <3>1
    <3>3. ~High(v, B)
      BY <2>5, <3>2
    <3>4. QED
      BY <1>2, <1>4, <2>7, <3>3 DEF v, AddressRoles
  <2>8. QED
    BY <1>2, <1>4, <2>6, <2>7 DEF v
<1>5. QED
  BY <1>2, <1>3, <1>4 DEF v

\* Accesses depend on nothing but the controls.
LEMMA SameAccesses ==
  ASSUME NEW m \in Memories, NEW v, NEW w,
         \A p \in SingleBitRoles \cup {"BYTE_ENABLE_SIGNAL"} : High(v, p) <=> High(w, p)
  PROVE  /\ Writes(m, v) <=> Writes(m, w)
         /\ Reads(m, v) <=> Reads(m, w)
<1>1. WriteMode(m, v) <=> WriteMode(m, w)
  BY DEF WriteMode, SingleBitRoles
<1>2. Writes(m, v) <=> Writes(m, w)
  BY <1>1 DEF Writes, SingleBitRoles
<1>3. QED
  BY <1>1, <1>2 DEF Reads, SingleBitRoles

\* The probe treats the two writing steps alike, and the first three of the reading ones.
LEMMA StepsAlike ==
  ASSUME NEW m \in Memories, NEW c, DOMAIN c = m.ports,
         \A p \in m.ports \cap SingleBitRoles : c[p] \in SingleBitRoles,
         "BYTE_ENABLE_SIGNAL" \in m.ports => c["BYTE_ENABLE_SIGNAL"] = "BYTE_ENABLE_SIGNAL"
  PROVE  /\ WritesIn(m, c, 1) <=> WritesIn(m, c, 2)
         /\ ReadsIn(m, c, 1) <=> ReadsIn(m, c, 2)
         /\ \A i \in {3, 4, 5} : /\ WritesIn(m, c, i) <=> WritesIn(m, c, 3)
                                 /\ ReadsIn(m, c, i) <=> ReadsIn(m, c, 3)
<1>1. ASSUME NEW i \in 1 .. 5, NEW j \in 1 .. 5,
             \A role \in SingleBitRoles : role_sequences[role][i] = role_sequences[role][j]
      PROVE  /\ WritesIn(m, c, i) <=> WritesIn(m, c, j)
             /\ ReadsIn(m, c, i) <=> ReadsIn(m, c, j)
  <2> DEFINE v == Step(m, c, i)
             w == Step(m, c, j)
  <2>1. i \in 1 .. 6 /\ j \in 1 .. 6 /\ i # 6 /\ j # 6
    OBVIOUS
  <2>2. \A p \in SingleBitRoles : High(v, p) <=> High(w, p)
    BY <1>1, <2>1, ControlBits
  <2>3. High(v, "BYTE_ENABLE_SIGNAL") <=> High(w, "BYTE_ENABLE_SIGNAL")
    BY <2>1, ControlBits
  <2> HIDE DEF v, w
  <2>4. \A p \in SingleBitRoles \cup {"BYTE_ENABLE_SIGNAL"} : High(v, p) <=> High(w, p)
    BY <2>2, <2>3
  <2>5. QED
    BY <2>4, SameAccesses DEF v, w, WritesIn, ReadsIn
<1>2. \A role \in SingleBitRoles : LET bit == role_sequences[role] IN bit[1] = bit[2] /\ bit[3] = bit[4] /\ bit[4] = bit[5]
  BY BitSequences
<1>3. QED
  BY <1>1, <1>2

\* Two ports as wide as an address leave no room for a byte enable.
LEMMA TwoPortsNoLanes ==
  ASSUME NEW m \in Memories, Cardinality(WidePorts(m)) <= 2, ~Combined(m)
  PROVE  "BYTE_ENABLE_SIGNAL" \notin m.ports
<1>1. \/ Unsingle(m) = {"INPUT_DATA", "COMBINED_ADDRESS_SIGNAL"}
      \/ Unsingle(m) = {"INPUT_DATA", "COMBINED_ADDRESS_SIGNAL", "BYTE_ENABLE_SIGNAL"}
      \/ Unsingle(m) = {"INPUT_DATA", "READ_ADDRESS_SIGNAL", "WRITE_ADDRESS_SIGNAL"}
  BY MemoryPorts, ShapeSizes
<1>2. "COMBINED_ADDRESS_SIGNAL" \notin Unsingle(m)
  BY DEF Combined, Unsingle
<1>3. "BYTE_ENABLE_SIGNAL" \notin Unsingle(m)
  BY <1>1, <1>2
<1>4. QED
  BY <1>3 DEF Unsingle, SingleBitRoles

\* The simulation rejects every wrong choice for the wide ports.
LEMMA WrongWidePorts ==
  ASSUME NEW m \in Memories, ~DataAmbiguous(m), Cardinality(WidePorts(m)) <= 2,
         NEW c \in filter_candidate_roles(m), Verdict(m, c).kind # "no"
  PROVE  Right(m, c) /\ Plausible(m, c)
<1>1. /\ DOMAIN c = m.ports
      /\ c["INPUT_DATA"] = "INPUT_DATA"
      /\ \A p \in m.ports \cap SingleBitRoles : c[p] \in SingleBitRoles
      /\ m.address >= 3
      /\ \/ Right(m, c)
         \/ Combined(m) /\ c["COMBINED_ADDRESS_SIGNAL"] = "WRITE_ADDRESS_SIGNAL"
         \/ /\ Combined(m) /\ c["COMBINED_ADDRESS_SIGNAL"] = "READ_ADDRESS_SIGNAL"
            /\ "BYTE_ENABLE_SIGNAL" \in m.ports /\ c["BYTE_ENABLE_SIGNAL"] = "WRITE_ADDRESS_SIGNAL"
         \/ /\ ~Combined(m)
            /\ c["READ_ADDRESS_SIGNAL"] = "WRITE_ADDRESS_SIGNAL"
            /\ c["WRITE_ADDRESS_SIGNAL"] = "READ_ADDRESS_SIGNAL"
  BY WideAssignments
<1>2. /\ Combined(m) => m.ports \cap AddressRoles = {"COMBINED_ADDRESS_SIGNAL"}
      /\ ~Combined(m) => m.ports \cap AddressRoles = {"READ_ADDRESS_SIGNAL", "WRITE_ADDRESS_SIGNAL"}
  BY MemoryPorts, ShapeSizes DEF Combined, Unsingle, SingleBitRoles, AddressRoles
<1>3. Plausible(m, c)
  <2>1. \A p \in m.ports \cap AddressRoles : c[p] \in AddressRoles
    <3>1. Right(m, c) => \A p \in m.ports \cap AddressRoles : c[p] = p
      BY DEF Right, AddressRoles, SingleBitRoles
    <3>2. \A r \in {"COMBINED_ADDRESS_SIGNAL", "READ_ADDRESS_SIGNAL", "WRITE_ADDRESS_SIGNAL"} : r \in AddressRoles
      BY DEF AddressRoles
    <3>3. QED
      BY <1>1, <1>2, <3>1, <3>2
  <2>2. QED
    BY <1>1, <2>1 DEF Plausible
<1>4. CASE Combined(m) /\ c["COMBINED_ADDRESS_SIGNAL"] = "WRITE_ADDRESS_SIGNAL"
  BY <1>3, <1>4, NothingReadBack DEF WritePort, ReadPort
<1>5. CASE "BYTE_ENABLE_SIGNAL" \in m.ports /\ c["BYTE_ENABLE_SIGNAL"] = "WRITE_ADDRESS_SIGNAL"
  <2>1. \A i \in 1 .. 6 : ~High(Step(m, c, i), "BYTE_ENABLE_SIGNAL")
    BY <1>1, <1>5, ControlBits DEF AddressRoles
  <2>2. ~WritesIn(m, c, 1) /\ ~WritesIn(m, c, 2)
    BY <2>1 DEF WritesIn, Writes
  <2>3. QED
    BY <1>3, <2>2, NothingWritten
<1>6. CASE /\ ~Combined(m)
           /\ c["READ_ADDRESS_SIGNAL"] = "WRITE_ADDRESS_SIGNAL"
           /\ c["WRITE_ADDRESS_SIGNAL"] = "READ_ADDRESS_SIGNAL"
  <2>1. "BYTE_ENABLE_SIGNAL" \notin m.ports
    BY <1>6, TwoPortsNoLanes
  <2>2. WritesIn(m, c, 1) <=> WritesIn(m, c, 2)
    BY <1>1, <2>1, StepsAlike
  <2>3. CASE WritesIn(m, c, 2)
    BY <1>3, <1>6, <2>3, AddressesSwapped
  <2>4. CASE ~WritesIn(m, c, 2)
    BY <1>3, <2>2, <2>4, NothingWritten
  <2>5. QED
    BY <2>3, <2>4
<1>7. QED
  BY <1>1, <1>3, <1>4, <1>5, <1>6

-----------------------------------------------------------------------------
(* The single bits: when a memory answers the probe. *)

\* The two words in turn.
Alternating(n) == [j \in 1 .. n |-> IF j % 2 = 1 THEN 2 ELSE 3]
Turn(n) == IF n % 2 = 0 THEN 2 ELSE 3

\* Showing the other word makes the alternation longer by one.
LEMMA AlternatingGrows ==
  ASSUME NEW n \in Nat
  PROVE  /\ Alternating(n) \in Seq(1 .. 3) /\ Len(Alternating(n)) = n
         /\ More(Alternating(n), Turn(n)) = Alternating(n + 1)
         /\ Alternating(0) = <<>>
<1> DEFINE D == Alternating(n)
           E == Alternating(n + 1)
           x == Turn(n)
<1>1. ASSUME NEW i \in Nat
      PROVE  Alternating(i) \in Seq(1 .. 3) /\ Len(Alternating(i)) = i
             /\ \A j \in 1 .. i : Alternating(i)[j] = IF j % 2 = 1 THEN 2 ELSE 3
  <2>1. Alternating(i) \in [1 .. i -> 1 .. 3]
    BY DEF Alternating
  <2>2. QED
    BY <2>1 DEF Alternating
<1>2. x \in 1 .. 3 /\ x # 0
  BY DEF Turn
<1>3. /\ D \in Seq(1 .. 3) /\ Len(D) = n /\ E \in Seq(1 .. 3) /\ Len(E) = n + 1
      /\ \A j \in 1 .. n : D[j] = IF j % 2 = 1 THEN 2 ELSE 3
      /\ \A j \in 1 .. n + 1 : E[j] = IF j % 2 = 1 THEN 2 ELSE 3
  BY <1>1
<1> HIDE DEF D, E
<1>4. ~(D # <<>> /\ x = D[Len(D)])
  <2>1. CASE n = 0
    BY <1>3, <2>1
  <2>2. CASE n # 0
    <3>1. D[n] = IF n % 2 = 1 THEN 2 ELSE 3
      BY <1>3, <2>2
    <3>2. n % 2 = 0 \/ n % 2 = 1
      OBVIOUS
    <3>3. QED
      BY <1>3, <3>1, <3>2 DEF Turn
  <2>3. QED
    BY <2>1, <2>2
<1>5. More(D, x) = Append(D, x)
  BY <1>2, <1>4 DEF More
<1> DEFINE A == Append(D, x)
<1>6. A \in Seq(1 .. 3) /\ Len(A) = n + 1 /\ A[n + 1] = x /\ \A j \in 1 .. n : A[j] = D[j]
  BY <1>2, <1>3, AppendProperties
<1> HIDE DEF A
<1>7. \A j \in 1 .. n + 1 : A[j] = E[j]
  <2>1. TAKE j \in 1 .. n + 1
  <2>2. CASE j \in 1 .. n
    BY <1>3, <1>6, <2>2
  <2>3. CASE j = n + 1
    <3>1. (n + 1) % 2 = 1 <=> n % 2 = 0
      OBVIOUS
    <3>2. E[j] = x
      BY <1>3, <2>3, <3>1 DEF Turn
    <3>3. QED
      BY <1>6, <2>3, <3>2
  <2>4. QED
    BY <2>2, <2>3
<1>8. A = E
  <2>1. A = [j \in 1 .. n + 1 |-> A[j]] /\ E = [j \in 1 .. n + 1 |-> E[j]]
    BY <1>3, <1>6
  <2>2. QED
    BY <1>7, <2>1
<1>9. Alternating(0) = <<>>
  BY <1>1, EmptySeq
<1>10. QED
  BY <1>1, <1>5, <1>8, <1>9 DEF A, D, E

\* The primary pattern is four words in turn, the secondary one six.
LEMMA AlternatingTold ==
  ASSUME NEW n \in Nat
  PROVE  /\ Alternating(n) = <<2, 3, 2, 3>> <=> n = 4
         /\ Alternating(n) = <<2, 3, 2, 3, 2, 3>> <=> n = 6
<1>1. Len(Alternating(n)) = n
  BY AlternatingGrows
<1>2. Len(<<2, 3, 2, 3>>) = 4 /\ Len(<<2, 3, 2, 3, 2, 3>>) = 6
  OBVIOUS
<1>3. Alternating(4) = <<2, 3, 2, 3>>
  <2> DEFINE q == <<2, 3, 2, 3>>
  <2>1. q \in Seq(Nat) /\ Len(q) = 4 /\ \A j \in 1 .. 4 : q[j] = IF j % 2 = 1 THEN 2 ELSE 3
    OBVIOUS
  <2> HIDE DEF q
  <2>2. q = [j \in 1 .. 4 |-> q[j]]
    BY <2>1
  <2>3. q = Alternating(4)
    BY <2>1, <2>2 DEF Alternating
  <2>4. QED
    BY <2>3 DEF q
<1>4. Alternating(6) = <<2, 3, 2, 3, 2, 3>>
  <2> DEFINE q == <<2, 3, 2, 3, 2, 3>>
  <2>1. q \in Seq(Nat) /\ Len(q) = 6 /\ \A j \in 1 .. 6 : q[j] = IF j % 2 = 1 THEN 2 ELSE 3
    OBVIOUS
  <2> HIDE DEF q
  <2>2. q = [j \in 1 .. 6 |-> q[j]]
    BY <2>1
  <2>3. q = Alternating(6)
    BY <2>1, <2>2 DEF Alternating
  <2>4. QED
    BY <2>3 DEF q
<1>5. QED
  BY <1>1, <1>2, <1>3, <1>4

\* If every cycle shows nothing new or the other word, the words are printed in turn.
LEMMA Alternates ==
  ASSUME NEW m, NEW c, NEW Arrays, NEW count \in [0 .. Cycles -> Nat],
         Initially.contents \in Arrays[0], count[0] = 0,
         \A k \in 0 .. Cycles - 1 : \A contents \in Arrays[k] :
           LET v == Stimulus(m, c, k)
               shown == IF count[k + 1] = count[k] THEN 0 ELSE Turn(count[k])
           IN  /\ Written(m, contents, v) \in Arrays[k + 1]
               /\ Reads(m, v) => contents[v[ReadPort(m)]] = shown
               /\ ~Reads(m, v) /\ ShowsThrough(m, v) => v["INPUT_DATA"] = shown
               /\ \/ count[k + 1] = count[k]
                  \/ count[k + 1] = count[k] + 1 /\ (Reads(m, v) \/ ShowsThrough(m, v))
  PROVE  seq_of_distinct_outputs(Outputs(m, c)) = Alternating(count[Cycles])
<1> DEFINE I == [k \in 0 .. Cycles |->
                  {s \in [contents : Arrays[k], dout : Value, shown : Seq(1 .. 3)] :
                     Shows(s, Alternating(count[k]))}]
<1>1. Initially \in I[0]
  <2>1. Shows(Initially, Alternating(0))
    BY TracksInitially, AlternatingGrows
  <2>2. Initially = [contents |-> Initially.contents, dout |-> 0, shown |-> <<>>]
    BY DEF Initially
  <2>3. 0 \in Value /\ <<>> \in Seq(1 .. 3) /\ 0 \in 0 .. Cycles
    BY DEF Value, Cycles
  <2>4. Initially \in [contents : Arrays[0], dout : Value, shown : Seq(1 .. 3)]
    <3> DEFINE array == Initially.contents
               Shown == Seq(1 .. 3)
               r == [contents |-> array, dout |-> 0, shown |-> <<>>]
    <3>1. array \in Arrays[0] /\ <<>> \in Shown
      BY <2>3
    <3> HIDE DEF array, Shown
    <3>2. r \in [contents : Arrays[0], dout : Value, shown : Shown]
      BY <2>3, <3>1
    <3>3. Initially = r
      BY <2>2 DEF array
    <3> HIDE DEF r
    <3>4. QED
      BY <3>2, <3>3 DEF Shown
  <2>5. I[0] = {s \in [contents : Arrays[0], dout : Value, shown : Seq(1 .. 3)] :
                  Shows(s, Alternating(count[0]))}
    BY <2>3
  <2> HIDE DEF I
  <2>6. QED
    BY <2>1, <2>4, <2>5
<1>2. ASSUME NEW k \in 0 .. Cycles - 1, NEW s \in I[k]
      PROVE  Cycle(m, s, Stimulus(m, c, k)) \in I[k + 1]
  <2> DEFINE v == Stimulus(m, c, k)
             t == Cycle(m, s, v)
             D == Alternating(count[k])
             shown == IF count[k + 1] = count[k] THEN 0 ELSE Turn(count[k])
  <2>1. k \in 0 .. Cycles /\ k + 1 \in 0 .. Cycles
    <3> HIDE DEF I
    <3>1. QED
      BY DEF Cycles
  <2> HIDE DEF v
  <2>2. s.contents \in Arrays[k] /\ Shows(s, D)
    BY <2>1
  <2>3. /\ Written(m, s.contents, v) \in Arrays[k + 1]
        /\ Reads(m, v) => s.contents[v[ReadPort(m)]] = shown
        /\ ~Reads(m, v) /\ ShowsThrough(m, v) => v["INPUT_DATA"] = shown
        /\ \/ count[k + 1] = count[k]
           \/ count[k + 1] = count[k] + 1 /\ (Reads(m, v) \/ ShowsThrough(m, v))
    BY <2>2 DEF v
  <2>4. /\ t = [contents |-> Written(m, s.contents, v), dout |-> t.dout,
                shown |-> IF t.dout = 0 THEN s.shown ELSE Append(s.shown, t.dout)]
        /\ Reads(m, v) => t.dout = s.contents[v[ReadPort(m)]]
        /\ ~Reads(m, v) /\ ShowsThrough(m, v) => t.dout = v["INPUT_DATA"]
        /\ ~Reads(m, v) /\ ~ShowsThrough(m, v) => t.dout \in {0, s.dout}
    BY CycleEffect
  <2>5. count[k] \in Nat /\ count[k + 1] \in Nat
    BY <2>1
  <2> HIDE DEF t, D
  <2>6. \/ count[k + 1] = count[k] /\ t.dout \in {0, s.dout}
        \/ count[k + 1] = count[k] + 1 /\ t.dout = Turn(count[k])
    BY <2>3, <2>4, <2>5
  <2>7. t.dout \in Value
    BY <2>2, <2>6 DEF Shows, Value, Turn
  <2>8. Shows(t, More(D, t.dout)) /\ More(D, 0) = D /\ More(D, s.dout) = D
    BY <2>2, <2>7, CycleShows DEF t
  <2>9. More(D, t.dout) = Alternating(count[k + 1])
    BY <2>5, <2>6, <2>8, AlternatingGrows DEF D
  <2>10. t \in [contents : Arrays[k + 1], dout : Value, shown : Seq(1 .. 3)]
    <3>1. t.shown \in Seq(1 .. 3)
      BY <2>8 DEF Shows, Tracks
    <3>2. t = [contents |-> Written(m, s.contents, v), dout |-> t.dout, shown |-> t.shown]
      BY <2>4
    <3>3. QED
      BY <2>3, <2>7, <3>1, <3>2
  <2>11. t \in I[k + 1]
    <3>1. Shows(t, Alternating(count[k + 1]))
      BY <2>8, <2>9
    <3>2. I[k + 1] = {r \in [contents : Arrays[k + 1], dout : Value, shown : Seq(1 .. 3)] :
                        Shows(r, Alternating(count[k + 1]))}
      BY <2>1
    <3> HIDE DEF I
    <3>3. QED
      BY <2>10, <3>1, <3>2
  <2>12. QED
    BY <2>11 DEF t, v
<1> HIDE DEF I
<1>3. PICK s \in I[Cycles] : Outputs(m, c) = s.shown
  BY <1>1, <1>2, RunInvariant
<1>4. Shows(s, Alternating(count[Cycles]))
  BY DEF I, Cycles
<1>5. QED
  BY <1>3, <1>4 DEF Shows, Tracks

\* Does the memory show the words while they are written?
Through(m) == m.style = "through" /\ Combined(m)

\* The words printed by a memory that writes when it is told, and reads at least three times.
LEMMA RightRun ==
  ASSUME NEW m \in Memories, NEW c, Right(m, c), Plausible(m, c), m.data # 1,
         WritesIn(m, c, 1), WritesIn(m, c, 2),
         ReadsIn(m, c, 3), ReadsIn(m, c, 4), ReadsIn(m, c, 5)
  PROVE  seq_of_distinct_outputs(Outputs(m, c)) =
           Alternating((IF Through(m) THEN 5 ELSE 3) + (IF ReadsIn(m, c, 6) THEN 1 ELSE 0))
<1> DEFINE written(k) == IF ~Through(m) \/ k <= 4 THEN 0 ELSE IF k <= 9 THEN 1 ELSE 2
           last == IF ReadsIn(m, c, 6) THEN 1 ELSE 0
           read(k) == IF k <= 14 THEN 0 ELSE IF k <= 19 THEN 1 ELSE IF k <= 24 THEN 2
                      ELSE IF k <= 29 THEN 3 ELSE 3 + last
           count == [k \in 0 .. Cycles |-> written(k) + read(k)]
           Array == [{0, 2, 4} -> Value]
           Kept(k, f) == /\ f[0] = 0
                         /\ k \in 5 .. 29 => f[4] = 2
                         /\ k \in 10 .. 29 => f[2] = 3
           Arrays == [k \in 0 .. Cycles |-> {f \in Array : Kept(k, f)}]
<1>1. Initially.contents \in Arrays[0]
  <2>1. Initially.contents = [a \in {0, 2, 4} |-> 0] /\ 0 \in Value /\ 0 \in 0 .. Cycles
    BY DEF Initially, Cycles, Value
  <2>2. QED
    BY <2>1
<1>2. count \in [0 .. Cycles -> Nat] /\ count[0] = 0
  BY DEF Cycles
<1>3. count[Cycles] = (IF Through(m) THEN 5 ELSE 3) + last
  BY DEF Cycles
<1>4. ASSUME NEW k \in 0 .. Cycles - 1, NEW contents \in Arrays[k]
      PROVE  LET v == Stimulus(m, c, k)
                 shown == IF count[k + 1] = count[k] THEN 0 ELSE Turn(count[k])
             IN  /\ Written(m, contents, v) \in Arrays[k + 1]
                 /\ Reads(m, v) => contents[v[ReadPort(m)]] = shown
                 /\ ~Reads(m, v) /\ ShowsThrough(m, v) => v["INPUT_DATA"] = shown
                 /\ \/ count[k + 1] = count[k]
                    \/ count[k + 1] = count[k] + 1 /\ (Reads(m, v) \/ ShowsThrough(m, v))
  <2> DEFINE v == Stimulus(m, c, k)
             wa == v[WritePort(m)]
             ra == v[ReadPort(m)]
             d == v["INPUT_DATA"]
             shown == IF count[k + 1] = count[k] THEN 0 ELSE Turn(count[k])
  <2>1. /\ k \in 0 .. Cycles /\ k + 1 \in 0 .. Cycles /\ k \in Nat
        /\ contents \in Array /\ Kept(k, contents)
    BY DEF Cycles
  <2>2. /\ d = CASE k = 4 -> First(m) [] k = 9 -> Second(m) [] OTHER -> 0
        /\ \A p \in {WritePort(m), ReadPort(m)} :
             /\ k \in {4, 9, 14, 19, 24, 29} => v[p] = role_sequences[c[p]][1 + k \div 5]
             /\ k \notin {4, 9, 14, 19, 24, 29} => v[p] = 0
             /\ v[p] \in {0, 2, 4}
    BY Inputs
  <2>3. c[WritePort(m)] = WritePort(m) /\ c[ReadPort(m)] = ReadPort(m)
    BY MemoryAddresses DEF Right, AddressRoles, SingleBitRoles
  <2>4. d = CASE k = 4 -> 2 [] k = 9 -> 3 [] OTHER -> 0
    BY <2>2 DEF First, Second
  <2>5. /\ wa \in {0, 2, 4} /\ ra \in {0, 2, 4}
        /\ k = 4 => wa = 4
        /\ k = 9 => wa = 2
        /\ k \in {14, 24} => ra = 4
        /\ k \in {19, 29} => ra = 2
        /\ k \notin {4, 9, 14, 19, 24, 29} => ra = 0 /\ wa = 0
        /\ ~Combined(m) /\ k \in {4, 9} => ra = 0
        /\ ~Combined(m) /\ k \notin {4, 9} => wa = 0
    <3>1. /\ wa \in {0, 2, 4}
          /\ k = 4 => wa = 4
          /\ k = 9 => wa = 2
          /\ k \notin {4, 9, 14, 19, 24, 29} => wa = 0
      BY <2>2, <2>3 DEF role_sequences, WritePort
    <3>2. ~Combined(m) /\ k \notin {4, 9} => wa = 0
      BY <2>2, <2>3 DEF role_sequences, WritePort
    <3>3. /\ ra \in {0, 2, 4}
          /\ k \in {14, 24} => ra = 4
          /\ k \in {19, 29} => ra = 2
          /\ k \notin {4, 9, 14, 19, 24, 29} => ra = 0
      BY <2>2, <2>3 DEF role_sequences, ReadPort
    <3>4. ~Combined(m) /\ k \in {4, 9} => ra = 0
      BY <2>2, <2>3 DEF role_sequences, ReadPort
    <3>5. QED
      BY <3>1, <3>2, <3>3, <3>4
  <2>6. /\ k \in {4, 9} => Writes(m, v)
        /\ k \in {14, 19, 24} => Reads(m, v)
        /\ k = 29 => (Reads(m, v) <=> ReadsIn(m, c, 6))
    BY AccessesOf
  <2>7. Combined(m) /\ Reads(m, v) => ~Writes(m, v)
    BY DEF Reads, Writes
  <2>8. ShowsThrough(m, v) <=> Through(m) /\ Writes(m, v)
    BY DEF ShowsThrough, Through
  <2>9. /\ k \notin {4, 9, 14, 19, 24, 29} => count[k + 1] = count[k]
        /\ k \in {4, 9} /\ ~Through(m) => count[k + 1] = count[k]
        /\ k = 4 /\ Through(m) => count[k] = 0 /\ count[k + 1] = 1
        /\ k = 9 /\ Through(m) => count[k] = 1 /\ count[k + 1] = 2
        /\ k \in {14, 19, 24} => count[k + 1] = count[k] + 1
        /\ k = 29 => count[k + 1] = count[k] + last
        /\ count[k] \in Nat
        /\ k \in {14, 24} => count[k] % 2 = 0
        /\ k \in {19, 29} => count[k] % 2 = 1
    <3>1. /\ count[k] = written(k) + read(k)
          /\ count[k + 1] = written(k + 1) + read(k + 1)
      BY <2>1
    <3> HIDE DEF count, last
    <3>2. last \in {0, 1}
      BY DEF last
    <3>3. QED
      BY <2>1, <3>1, <3>2
  <2> HIDE DEF v, wa, ra, d, Array, Kept, count
  <2>10. Written(m, contents, v) \in Arrays[k + 1]
    <3>1. Arrays[k + 1] = {f \in Array : Kept(k + 1, f)}
      BY <2>1
    <3> HIDE DEF Arrays
    <3>2. CASE ~Writes(m, v)
      <4>1. k # 4 /\ k # 9
        BY <2>6, <3>2
      <4>2. Kept(k + 1, contents)
        BY <2>1, <4>1 DEF Kept
      <4>3. QED
        BY <2>1, <3>1, <3>2, <4>2 DEF Written
    <3>3. CASE Writes(m, v)
      <4> DEFINE f == [contents EXCEPT ![wa] = d]
      <4>1. Written(m, contents, v) = f
        BY <3>3 DEF Written, wa, d
      <4>2. d \in Value
        BY <2>4 DEF Value
      <4>3. f \in Array /\ \A a \in {0, 2, 4} : f[a] = IF a = wa THEN d ELSE contents[a]
        BY <2>1, <2>5, <4>2 DEF Array
      <4> HIDE DEF f
      <4>4. f[0] = 0
        <5>1. wa = 0 => d = 0
          BY <2>4, <2>5
        <5>2. QED
          BY <2>1, <4>3, <5>1 DEF Kept
      <4>5. k \notin {4, 9} => wa = 0 \/ k >= 29
        BY <2>1, <2>5, <2>6, <2>7, <3>3
      <4>6. k + 1 \in 5 .. 29 => f[4] = 2
        <5>1. CASE k = 4
          BY <2>4, <2>5, <4>3, <5>1
        <5>2. CASE k # 4
          BY <2>1, <2>5, <4>3, <4>5, <5>2 DEF Kept
        <5>3. QED
          BY <5>1, <5>2
      <4>7. k + 1 \in 10 .. 29 => f[2] = 3
        <5>1. CASE k = 9
          BY <2>4, <2>5, <4>3, <5>1
        <5>2. CASE k # 9
          BY <2>1, <2>5, <4>3, <4>5, <5>2 DEF Kept
        <5>3. QED
          BY <5>1, <5>2
      <4>8. QED
        BY <3>1, <4>1, <4>3, <4>4, <4>6, <4>7 DEF Kept
    <3>4. QED
      BY <3>2, <3>3
  <2>11. Reads(m, v) => contents[ra] = shown
    <3>1. CASE k \in {4, 9}
      <4>1. Reads(m, v) => ~Combined(m) /\ ra = 0
        BY <2>5, <2>6, <2>7, <3>1
      <4>2. Reads(m, v) => count[k + 1] = count[k]
        BY <2>9, <3>1, <4>1 DEF Through
      <4>3. QED
        BY <2>1, <4>1, <4>2 DEF Kept
    <3>2. CASE k \in {14, 24}
      BY <2>1, <2>5, <2>9, <3>2 DEF Kept, Turn
    <3>3. CASE k = 19
      BY <2>1, <2>5, <2>9, <3>3 DEF Kept, Turn
    <3>4. CASE k = 29
      BY <2>1, <2>5, <2>6, <2>9, <3>4 DEF Kept, Turn
    <3>5. CASE k \notin {4, 9, 14, 19, 24, 29}
      BY <2>1, <2>5, <2>9, <3>5 DEF Kept
    <3>6. QED
      BY <3>1, <3>2, <3>3, <3>4, <3>5
  <2>12. ~Reads(m, v) /\ ShowsThrough(m, v) => d = shown
    <3>1. CASE k = 4
      BY <2>4, <2>8, <2>9, <3>1 DEF Turn
    <3>2. CASE k = 9
      BY <2>4, <2>8, <2>9, <3>2 DEF Turn
    <3>3. CASE k \in {14, 19, 24}
      BY <2>6, <3>3
    <3>4. CASE k = 29
      BY <2>4, <2>6, <2>9, <3>4
    <3>5. CASE k \notin {4, 9, 14, 19, 24, 29}
      BY <2>4, <2>9, <3>5
    <3>6. QED
      BY <3>1, <3>2, <3>3, <3>4, <3>5
  <2>13. \/ count[k + 1] = count[k]
         \/ count[k + 1] = count[k] + 1 /\ (Reads(m, v) \/ ShowsThrough(m, v))
    <3>1. CASE k \in {4, 9}
      BY <2>6, <2>8, <2>9, <3>1
    <3>2. CASE k \notin {4, 9}
      BY <2>6, <2>9, <3>2
    <3>3. QED
      BY <3>1, <3>2
  <2>14. QED
    BY <2>10, <2>11, <2>12, <2>13 DEF v, ra, d
<1> HIDE DEF Arrays, count
<1>5. seq_of_distinct_outputs(Outputs(m, c)) = Alternating(count[Cycles])
  BY <1>1, <1>2, <1>4, Alternates
<1>6. QED
  BY <1>3, <1>5

\* The simulation accepts the truth about the wide ports if the bits are such that the memory
\* writes in the writing steps and reads in the reading ones, and only then.
Answers(m, c) == WritesIn(m, c, 1) /\ ReadsIn(m, c, 3) /\ ReadsIn(m, c, 6)

\* The pattern a memory shows if it answers: it shows each word twice, or once more while
\* writing it.
Pattern(m) == IF Through(m) THEN "secondary" ELSE "primary"

\* With the wide ports right, the verdict depends on the memory alone: the pattern of its style
\* if it answers, and none otherwise.
LEMMA RightVerdict ==
  ASSUME NEW m \in Memories, NEW c, Right(m, c), Plausible(m, c), m.data # 1
  PROVE  Verdict(m, c).kind = IF Answers(m, c) THEN Pattern(m) ELSE "no"
<1>1. /\ DOMAIN c = m.ports
      /\ \A p \in m.ports \cap SingleBitRoles : c[p] \in SingleBitRoles
      /\ "BYTE_ENABLE_SIGNAL" \in m.ports => c["BYTE_ENABLE_SIGNAL"] = "BYTE_ENABLE_SIGNAL"
  BY DEF Plausible, Right, SingleBitRoles
<1>2. /\ WritesIn(m, c, 1) <=> WritesIn(m, c, 2)
      /\ ReadsIn(m, c, 4) <=> ReadsIn(m, c, 3)
      /\ ReadsIn(m, c, 5) <=> ReadsIn(m, c, 3)
  BY <1>1, StepsAlike
<1>3. c[WritePort(m)] \in {"WRITE_ADDRESS_SIGNAL", "COMBINED_ADDRESS_SIGNAL"}
  BY MemoryAddresses DEF Right, AddressRoles, SingleBitRoles, WritePort
<1>4. CASE ~WritesIn(m, c, 1)
  BY <1>2, <1>4, NothingWritten DEF Answers
<1>5. CASE ~ReadsIn(m, c, 3)
  BY <1>2, <1>3, <1>5, NothingReadBack DEF Answers
<1>6. CASE WritesIn(m, c, 1) /\ ReadsIn(m, c, 3)
  <2> DEFINE n == (IF Through(m) THEN 5 ELSE 3) + (IF ReadsIn(m, c, 6) THEN 1 ELSE 0)
             D == seq_of_distinct_outputs(Outputs(m, c))
  <2>1. D = Alternating(n)
    BY <1>2, <1>6, RightRun
  <2>2. n \in Nat
    OBVIOUS
  <2> HIDE DEF n, D
  <2>3. (D = <<2, 3, 2, 3>> <=> n = 4) /\ (D = <<2, 3, 2, 3, 2, 3>> <=> n = 6)
    BY <2>1, <2>2, AlternatingTold
  <2>4. Verdict(m, c).kind = IF n = 4 THEN "primary" ELSE IF n = 6 THEN "secondary" ELSE "no"
    BY <2>3 DEF Verdict, D
  <2>5. n = IF Through(m) THEN (IF ReadsIn(m, c, 6) THEN 6 ELSE 5) ELSE (IF ReadsIn(m, c, 6) THEN 4 ELSE 3)
    BY DEF n
  <2>6. QED
    BY <1>6, <2>4, <2>5 DEF Answers, Pattern
<1>7. QED
  BY <1>4, <1>5, <1>6

\* Of a word of one bit the simulation cannot show what it looks for.
LEMMA OneBit ==
  ASSUME NEW m \in Memories, NEW c, Plausible(m, c), m.data = 1
  PROVE  Verdict(m, c).kind = "no"
<1> DEFINE Array == [{0, 2, 4} -> {0, 1}]
           Kept(k, f) == k <= 9 => \A a \in {0, 2, 4} : f[a] = 0
           Arrays == [k \in 0 .. Cycles |-> {f \in Array : Kept(k, f)}]
<1>1. Initially.contents \in Arrays[0]
  <2>1. Initially.contents = [a \in {0, 2, 4} |-> 0] /\ 0 \in 0 .. Cycles
    BY DEF Initially, Cycles
  <2>2. QED
    BY <2>1
<1>2. ASSUME NEW k \in 0 .. Cycles - 1, NEW contents \in Arrays[k]
      PROVE  LET v == Stimulus(m, c, k)
                 new == {0, IF k < 9 THEN 0 ELSE 1}
             IN  /\ Written(m, contents, v) \in Arrays[k + 1]
                 /\ Reads(m, v) => contents[v[ReadPort(m)]] \in new
                 /\ ShowsThrough(m, v) => v["INPUT_DATA"] \in new
  <2> DEFINE v == Stimulus(m, c, k)
             wa == v[WritePort(m)]
             ra == v[ReadPort(m)]
             d == v["INPUT_DATA"]
  <2>1. /\ k \in 0 .. Cycles /\ k + 1 \in 0 .. Cycles /\ k \in Nat
        /\ contents \in Array /\ Kept(k, contents)
    BY DEF Cycles
  <2>2. d = (IF k = 9 THEN 1 ELSE 0) /\ wa \in {0, 2, 4} /\ ra \in {0, 2, 4}
    BY Inputs DEF First, Second
  <2> HIDE DEF v, wa, ra, d, Array
  <2>3. Arrays[k + 1] = {f \in Array : Kept(k + 1, f)}
    BY <2>1
  <2>4. Written(m, contents, v) \in Arrays[k + 1]
    <3> HIDE DEF Arrays
    <3>1. CASE ~Writes(m, v)
      BY <2>1, <2>3, <3>1 DEF Written
    <3>2. CASE Writes(m, v)
      <4> DEFINE f == [contents EXCEPT ![wa] = d]
      <4>1. Written(m, contents, v) = f
        BY <3>2 DEF Written, wa, d
      <4>2. f \in Array /\ \A a \in {0, 2, 4} : f[a] = IF a = wa THEN d ELSE contents[a]
        BY <2>1, <2>2 DEF Array
      <4> HIDE DEF f
      <4>3. Kept(k + 1, f)
        BY <2>1, <2>2, <4>2
      <4>4. QED
        BY <2>3, <4>1, <4>2, <4>3
    <3>3. QED
      BY <3>1, <3>2
  <2>5. contents[ra] \in {0, IF k < 9 THEN 0 ELSE 1}
    BY <2>1, <2>2 DEF Array
  <2>6. QED
    BY <2>2, <2>4, <2>5 DEF v, ra, d
<1> HIDE DEF Arrays
<1>3. 0 \in {0, 2} /\ 1 \in {1, 3}
  OBVIOUS
<1>4. QED
  BY <1>1, <1>2, <1>3, NoReturn

\* The assignment that exchanges two roles.
Swapped(c, a, b) == [p \in DOMAIN c |-> IF c[p] = a THEN b ELSE IF c[p] = b THEN a ELSE c[p]]

\* Candidates that fit the widths fit them with any two roles of one bit exchanged.
LEMMA SwappedFits ==
  ASSUME NEW m \in Memories, NEW c \in filter_candidate_roles(m), Right(m, c), Plausible(m, c),
         NEW a \in SingleBitRoles, NEW b \in SingleBitRoles
  PROVE  /\ Swapped(c, a, b) \in filter_candidate_roles(m)
         /\ Right(m, Swapped(c, a, b)) /\ Plausible(m, Swapped(c, a, b))
<1> DEFINE d == Swapped(c, a, b)
           Wide == m.ports \ SingleBitRoles
           Singles == m.ports \cap SingleBitRoles
<1>1. /\ c \in Assignments(m)
      /\ LET roles == Range(c)
         IN  /\ "INPUT_DATA" \in roles
             /\ roles \cap AddressRoles # {}
             /\ "COMBINED_ADDRESS_SIGNAL" \in roles =>
                  roles \cap {"READ_ADDRESS_SIGNAL", "WRITE_ADDRESS_SIGNAL"} = {}
             /\ "READ_ADDRESS_SIGNAL" \in roles => "WRITE_ADDRESS_SIGNAL" \in roles
  BY DEF filter_candidate_roles
<1>2. /\ DOMAIN c = m.ports
      /\ \A p, q \in m.ports : c[p] = c[q] => p = q
      /\ byte_enable_candidates(m) \cap address_candidates(m) = {}
  BY <1>1, AssignmentFits
<1>3. PICK wide \in Permutations(m, Wide), single \in Permutations(m, Singles) : c = Joined(wide, single)
  BY <1>1 DEF Assignments
<1>4. DOMAIN wide = Wide /\ \A p \in Wide : wide[p] = c[p]
  <2>1. DOMAIN wide = Wide /\ DOMAIN single = Singles
    BY DEF Permutations
  <2>2. QED
    BY <1>3, <2>1 DEF Joined
<1>5. DOMAIN d = m.ports /\ \A p \in m.ports : d[p] = IF c[p] = a THEN b ELSE IF c[p] = b THEN a ELSE c[p]
  BY <1>2 DEF Swapped
<1> HIDE DEF d
<1>6. \A p \in Wide : c[p] = p /\ d[p] = c[p]
  BY <1>5 DEF Right
<1>7. \A p \in Singles : c[p] \in SingleBitRoles /\ d[p] \in SingleBitRoles
  BY <1>5 DEF Plausible
<1>8. \A p, q \in m.ports : d[p] = d[q] => p = q
  <2> SUFFICES ASSUME NEW p \in m.ports, NEW q \in m.ports, d[p] = d[q] PROVE c[p] = c[q]
    BY <1>2
  <2>1. QED
    BY <1>5
<1> DEFINE single2 == [p \in Singles |-> d[p]]
<1>9. single2 \in Permutations(m, Singles)
  <2>1. ASSUME NEW p \in Singles PROVE d[p] \in SuitableRoles(m, p)
    <3>1. d[p] \in SingleBitRoles /\ Width(m, p) = 1
      BY <1>7, Widths
    <3>2. d[p] \in PortRole /\ d[p] # "INPUT_DATA" /\ d[p] # "BYTE_ENABLE_SIGNAL" /\ d[p] \notin AddressRoles
      BY <3>1 DEF PortRole, SingleBitRoles, AddressRoles
    <3>3. QED
      BY <3>1, <3>2 DEF SuitableRoles
  <2>2. single2 \in [Singles -> UNION {SuitableRoles(m, p) : p \in Singles}]
    BY <2>1
  <2>3. IsInjective(single2)
    BY <1>8 DEF IsInjective
  <2>4. \A p \in Singles : single2[p] \in SuitableRoles(m, p)
    BY <2>1
  <2> HIDE DEF single2
  <2>5. QED
    BY <2>2, <2>3, <2>4 DEF Permutations
<1>10. d = Joined(wide, single2)
  <2>1. d = [p \in m.ports |-> d[p]]
    BY <1>5 DEF Swapped, d
  <2>2. DOMAIN single2 = Singles /\ \A p \in Singles : single2[p] = d[p]
    OBVIOUS
  <2> HIDE DEF single2
  <2>3. \A p \in m.ports : d[p] = IF p \in SingleBitRoles THEN single2[p] ELSE wide[p]
    BY <1>4, <1>6, <2>2
  <2>4. m.ports = DOMAIN wide \cup DOMAIN single2
    BY <1>4, <2>2
  <2>5. QED
    BY <2>1, <2>3, <2>4 DEF Joined
<1> HIDE DEF single2
<1>11. d \in Assignments(m)
  <2>1. IsInjective(d)
    BY <1>5, <1>8 DEF IsInjective
  <2>2. d \in {Joined(w, s) : w \in Permutations(m, Wide), s \in Permutations(m, Singles)}
    BY <1>9, <1>10
  <2>3. QED
    BY <1>2, <2>1, <2>2 DEF Assignments
<1>12. \A role : role \notin SingleBitRoles => (role \in Range(d) <=> role \in Range(c))
  <2>1. \A p \in m.ports : d[p] \notin SingleBitRoles \/ c[p] \notin SingleBitRoles => d[p] = c[p]
    BY <1>5
  <2>2. QED
    BY <1>2, <1>5, <2>1 DEF Range
<1>13. /\ "INPUT_DATA" \in Range(d)
       /\ Range(d) \cap AddressRoles = Range(c) \cap AddressRoles
  BY <1>1, <1>12 DEF SingleBitRoles, AddressRoles
<1>14. d \in filter_candidate_roles(m)
  BY <1>1, <1>11, <1>13 DEF filter_candidate_roles, AddressRoles
<1>15. Right(m, d)
  BY <1>6 DEF Right
<1>16. Plausible(m, d)
  <2>1. "INPUT_DATA" \in Wide /\ \A p \in m.ports \cap AddressRoles : p \in Wide
    BY MemoryPorts DEF SingleBitRoles, AddressRoles
  <2>2. QED
    BY <1>5, <1>6, <1>7, <2>1 DEF Plausible
<1>17. QED
  BY <1>14, <1>15, <1>16 DEF d

\* The ports that must be high for the memory to write, the byte enable apart.
WriteControls(m) ==
  m.ports \cap
    ({"WRITE_MODE", "WRITE_MASK"}
     \cup IF "WRITE_ENABLE" \in m.ports
          THEN {"WRITE_ENABLE"} \cup (IF m.gated THEN {"ENABLE"} ELSE {})
          ELSE {"ENABLE"})

\* Those that decide whether a memory with one port reads or writes.
Deciding(m) == IF "WRITE_MODE" \in m.ports THEN WriteControls(m) \ {"WRITE_MASK"} ELSE WriteControls(m)

\* A memory writes if and only if its write controls and its byte enable are high.
LEMMA WritesByControls ==
  ASSUME NEW m \in Memories, NEW v, DOMAIN v \cap SingleBitRoles = m.ports \cap SingleBitRoles
  PROVE  /\ Writes(m, v) <=> /\ \A p \in WriteControls(m) : High(v, p)
                             /\ High(v, "BYTE_ENABLE_SIGNAL")
         /\ WriteMode(m, v) <=> \A p \in WriteControls(m) \ {"WRITE_MASK"} : High(v, p)
<1>1. \A p \in SingleBitRoles : p \notin m.ports => High(v, p)
  BY DEF High
<1>2. m.gated => "ENABLE" \in m.ports /\ "WRITE_ENABLE" \in m.ports
  BY DEF Memories
<1>3. WriteMode(m, v) <=> \A p \in WriteControls(m) \ {"WRITE_MASK"} : High(v, p)
  <2>1. CASE "WRITE_ENABLE" \in m.ports
    BY <1>1, <1>2, <2>1 DEF WriteMode, WriteControls, SingleBitRoles
  <2>2. CASE "WRITE_ENABLE" \notin m.ports
    BY <1>1, <1>2, <2>2 DEF WriteMode, WriteControls, SingleBitRoles
  <2>3. QED
    BY <2>1, <2>2
<1>4. High(v, "WRITE_MASK") <=> \A p \in WriteControls(m) \cap {"WRITE_MASK"} : High(v, p)
  BY <1>1 DEF WriteControls, SingleBitRoles
<1>5. QED
  BY <1>3, <1>4 DEF Writes

\* The roles of one bit under which the memory answers the probe.
LEMMA AnswersByRoles ==
  ASSUME NEW m \in Memories, NEW c, Right(m, c), Plausible(m, c)
  PROVE  Answers(m, c) <=>
           /\ \A p \in WriteControls(m) : c[p] # "READ_ENABLE"
           /\ \A p \in m.ports \cap {"ENABLE", "READ_ENABLE"} : c[p] \in {"ENABLE", "READ_ENABLE"}
           /\ Combined(m) => \E p \in Deciding(m) : c[p] \in {"WRITE_ENABLE", "WRITE_MODE"}
<1> DEFINE B == "BYTE_ENABLE_SIGNAL"
<1>1. /\ DOMAIN c = m.ports
      /\ \A p \in m.ports \cap SingleBitRoles : c[p] \in SingleBitRoles
      /\ B \in m.ports => c[B] = B
  BY DEF Plausible, Right, SingleBitRoles
<1>2. WriteControls(m) \subseteq m.ports \cap SingleBitRoles /\ Deciding(m) \subseteq WriteControls(m)
  BY DEF WriteControls, SingleBitRoles, Deciding
<1>3. ASSUME NEW i \in 1 .. 6
      PROVE  /\ \A p \in SingleBitRoles :
                  High(Step(m, c, i), p) <=> p \notin m.ports \/ role_sequences[c[p]][i] = 1
             /\ i # 6 => High(Step(m, c, i), B)
             /\ DOMAIN Step(m, c, i) = m.ports
  <2>1. \A p \in SingleBitRoles :
          High(Step(m, c, i), p) <=> p \notin m.ports \/ role_sequences[c[p]][i] = 1
    BY <1>1, ControlBits
  <2>2. i # 6 => High(Step(m, c, i), B)
    BY <1>1, ControlBits
  <2>3. DOMAIN Step(m, c, i) = m.ports
    BY <1>1 DEF Step
  <2>4. QED
    BY <2>1, <2>2, <2>3
<1>4. ASSUME NEW p \in m.ports \cap SingleBitRoles
      PROVE  /\ High(Step(m, c, 1), p) <=> c[p] # "READ_ENABLE"
             /\ High(Step(m, c, 3), p) <=> c[p] \in {"ENABLE", "WRITE_MASK", "READ_ENABLE"}
             /\ High(Step(m, c, 6), p) <=> c[p] \in {"ENABLE", "READ_ENABLE"}
  <2>1. c[p] \in SingleBitRoles /\ 1 \in 1 .. 6 /\ 3 \in 1 .. 6 /\ 6 \in 1 .. 6
    BY <1>1
  <2>2. QED
    BY <1>3, <2>1, BitSequences
<1>5. WritesIn(m, c, 1) <=> \A p \in WriteControls(m) : c[p] # "READ_ENABLE"
  <2> DEFINE v == Step(m, c, 1)
  <2>1. 1 \in 1 .. 6 /\ 1 # 6
    OBVIOUS
  <2>2. DOMAIN v = m.ports /\ High(v, B)
    BY <1>3, <2>1
  <2>3. Writes(m, v) <=> \A p \in WriteControls(m) : High(v, p)
    BY <2>2, WritesByControls
  <2> HIDE DEF v
  <2>4. \A p \in WriteControls(m) : High(v, p) <=> c[p] # "READ_ENABLE"
    BY <1>2, <1>4 DEF v
  <2>5. QED
    BY <2>3, <2>4 DEF v, WritesIn
<1> DEFINE busy(i) == IF "WRITE_MODE" \in m.ports THEN WriteMode(m, Step(m, c, i)) ELSE Writes(m, Step(m, c, i))
<1>6. ASSUME NEW i \in {3, 6}
      PROVE  /\ busy(i) => \A p \in Deciding(m) : High(Step(m, c, i), p)
             /\ i = 3 /\ (\A p \in Deciding(m) : High(Step(m, c, i), p)) => busy(i)
  <2> DEFINE v == Step(m, c, i)
  <2>1. i \in 1 .. 6 /\ (i = 3 => i # 6)
    OBVIOUS
  <2>2. DOMAIN v = m.ports /\ (i = 3 => High(v, B))
    BY <1>3, <2>1
  <2>3. /\ Writes(m, v) <=> (\A p \in WriteControls(m) : High(v, p)) /\ High(v, B)
        /\ WriteMode(m, v) <=> \A p \in WriteControls(m) \ {"WRITE_MASK"} : High(v, p)
    BY <2>2, WritesByControls
  <2> HIDE DEF v
  <2>4. QED
    BY <2>2, <2>3 DEF v, Deciding
<1>7. ASSUME NEW i \in {3, 6}
      PROVE  ReadsIn(m, c, i) <=>
               /\ \A p \in m.ports \cap {"ENABLE", "READ_ENABLE"} : c[p] \in {"ENABLE", "READ_ENABLE", IF i = 3 THEN "WRITE_MASK" ELSE "ENABLE"}
               /\ Combined(m) => ~busy(i)
  <2> DEFINE v == Step(m, c, i)
  <2>1. i \in 1 .. 6
    OBVIOUS
  <2>2. ASSUME NEW p \in {"ENABLE", "READ_ENABLE"}
        PROVE  High(v, p) <=> p \notin m.ports \/ c[p] \in {"ENABLE", "READ_ENABLE", IF i = 3 THEN "WRITE_MASK" ELSE "ENABLE"}
    <3>1. p \in SingleBitRoles
      BY DEF SingleBitRoles
    <3>2. p \notin m.ports => High(v, p)
      BY <1>3, <2>1, <3>1
    <3>3. QED
      BY <1>4, <3>1, <3>2
  <2>3. ReadsIn(m, c, i) <=> High(v, "ENABLE") /\ High(v, "READ_ENABLE") /\ (Combined(m) => ~busy(i))
    BY DEF ReadsIn, Reads
  <2> HIDE DEF v, busy
  <2>4. QED
    BY <2>2, <2>3
<1>8. (\A p \in Deciding(m) : High(Step(m, c, 6), p)) => \A p \in Deciding(m) : High(Step(m, c, 3), p)
  BY <1>2, <1>4
<1>9. (\A p \in Deciding(m) : High(Step(m, c, 3), p))
        <=> ~\E p \in Deciding(m) : c[p] \in {"WRITE_ENABLE", "WRITE_MODE"}
  <2>1. \A p \in Deciding(m) : c[p] \in SingleBitRoles
    BY <1>1, <1>2
  <2>2. \A p \in Deciding(m) : High(Step(m, c, 3), p) <=> c[p] \notin {"WRITE_ENABLE", "WRITE_MODE"}
    BY <1>2, <1>4, <2>1 DEF SingleBitRoles
  <2>3. QED
    BY <2>2
<1> HIDE DEF busy
<1>10. busy(6) => busy(3)
  BY <1>6, <1>8
<1>11. busy(3) <=> ~\E p \in Deciding(m) : c[p] \in {"WRITE_ENABLE", "WRITE_MODE"}
  BY <1>6, <1>9
<1>12. ReadsIn(m, c, 3) /\ ReadsIn(m, c, 6) <=>
         /\ \A p \in m.ports \cap {"ENABLE", "READ_ENABLE"} : c[p] \in {"ENABLE", "READ_ENABLE"}
         /\ Combined(m) => ~busy(3)
  BY <1>7, <1>10
<1>13. QED
  BY <1>5, <1>11, <1>12 DEF Answers

-----------------------------------------------------------------------------
(* The steps of the analysis. *)

\* The simulation speaks for c: it showed the primary pattern, or the secondary one while no
\* other candidate showed the primary.
Passed(c) ==
  /\ c \in filter_candidate_roles(memory)
  /\ \/ Verdict(memory, c).kind = "primary"
     \/ /\ Verdict(memory, c).kind = "secondary"
        /\ \A d \in filter_candidate_roles(memory) : Verdict(memory, d).kind # "primary"

\* Up to the selection the candidates are those the filter leaves; after it, those that passed.
CandidatesKnown ==
  /\ phase = "enumerate" => candidates = {}
  /\ phase \in {"simulate", "select"} => candidates = filter_candidate_roles(memory)
  /\ phase = "select" => verdicts = [c \in filter_candidate_roles(memory) |-> Verdict(memory, c)]
  /\ phase \in {"arbitrate", "done"} => \A c \in candidates : Passed(c)

\* A memory reaches the simulation if and only if it is fit for it.
FitSimulated ==
  /\ phase \in {"enumerate", "simulate"} \/ outcome = "skipped" => verdicts = <<>>
  /\ outcome = "skipped" => Unfit(memory) /\ phase = "done"
  /\ phase # "enumerate" /\ Unfit(memory) =>
       phase = "done" /\ verdicts = <<>> /\ outcome \in {"skipped", "assertion"}
  /\ phase \in {"simulate", "select"} => Cardinality(WidePorts(memory)) <= 2
  /\ candidates # {} => ~DataAmbiguous(memory)

OneLeft == outcome = "roles" => phase = "done" /\ \E c \in candidates : candidates = {c}

IInv ==
  /\ memory \in Memories
  /\ phase \in {"enumerate", "simulate", "select", "arbitrate", "done"}
  /\ outcome \in {"open", "roles", "skipped", "assertion"}
  /\ phase # "done" => outcome = "open"
  /\ CandidatesKnown
  /\ FitSimulated
  /\ OneLeft

LEMMA InitIInv == Init => IInv
  BY DEF Init, IInv, CandidatesKnown, FitSimulated, OneLeft

LEMMA WideFinite ==
  ASSUME NEW m \in Memories
  PROVE  Cardinality(WidePorts(m)) \in Nat
<1>1. IsFiniteSet({"COMBINED_ADDRESS_SIGNAL", "READ_ADDRESS_SIGNAL", "WRITE_ADDRESS_SIGNAL"}
                  \cup {"BYTE_ENABLE_SIGNAL"})
  BY Three, FS_AddElement
<1>2. WidePorts(m) \in SUBSET ({"COMBINED_ADDRESS_SIGNAL", "READ_ADDRESS_SIGNAL", "WRITE_ADDRESS_SIGNAL"}
                               \cup {"BYTE_ENABLE_SIGNAL"})
  BY WideIsUnsingle, MemoryPorts
<1>3. QED
  BY <1>1, <1>2, FS_Subset, FS_CardinalityType

LEMMA EnumerateKeeps ==
  ASSUME IInv, Enumerate
  PROVE  IInv'
<1> DEFINE found == filter_candidate_roles(memory)
           m == memory
<1>1. /\ phase = "enumerate" /\ memory' = memory /\ verdicts' = verdicts /\ memory \in Memories
      /\ verdicts = <<>>
  BY DEF Enumerate, IInv, FitSimulated
<1>2. /\ outcome' \in {"open", "skipped", "assertion"}
      /\ candidates' = (IF outcome' = "open" THEN found ELSE {})
      /\ phase' = (IF outcome' = "open" THEN "simulate" ELSE "done")
  BY DEF Enumerate
<1>3. CASE DataAmbiguous(m)
  <2>1. outcome' \in {"skipped", "assertion"}
    BY <1>3 DEF Enumerate
  <2>2. Unfit(m)
    BY <1>3 DEF DataAmbiguous, Unfit
  <2>3. QED
    BY <1>1, <1>2, <2>1, <2>2 DEF IInv, CandidatesKnown, FitSimulated, OneLeft
<1>4. CASE ~DataAmbiguous(m) /\ Cardinality(WidePorts(m)) > 2
  <2>1. outcome' = "assertion"
    BY <1>4 DEF Enumerate
  <2>2. QED
    BY <1>1, <1>2, <2>1 DEF IInv, CandidatesKnown, FitSimulated, OneLeft
<1>5. CASE ~DataAmbiguous(m) /\ ~(Cardinality(WidePorts(m)) > 2)
  <2>1. outcome' = IF found = {} THEN "skipped" ELSE "open"
    BY <1>5 DEF Enumerate
  <2>2. Cardinality(WidePorts(m)) <= 2
    BY <1>1, <1>5, WideFinite
  <2>3. found = {} <=> Unfit(m)
    BY <1>1, <1>5, <2>2, FitIsFound, UnfitIsNotFound
  <2>4. CASE found = {}
    BY <1>1, <1>2, <2>1, <2>3, <2>4 DEF IInv, CandidatesKnown, FitSimulated, OneLeft
  <2>5. CASE found # {}
    BY <1>1, <1>2, <1>5, <2>1, <2>2, <2>3, <2>5 DEF IInv, CandidatesKnown, FitSimulated, OneLeft
  <2>6. QED
    BY <2>4, <2>5
<1>6. QED
  BY <1>3, <1>4, <1>5

LEMMA SimulateKeeps ==
  ASSUME IInv, Simulate
  PROVE  IInv'
<1>1. /\ phase = "simulate" /\ phase' = "select" /\ UNCHANGED <<memory, candidates, outcome>>
      /\ candidates = filter_candidate_roles(memory) /\ outcome = "open"
      /\ verdicts' = [c \in candidates |-> Verdict(memory, c)]
  BY DEF Simulate, IInv, CandidatesKnown
<1>2. verdicts' = [c \in filter_candidate_roles(memory') |-> Verdict(memory', c)]
  BY <1>1
<1>3. CandidatesKnown'
  BY <1>1, <1>2 DEF CandidatesKnown
<1>4. ~Unfit(memory)
  BY <1>1 DEF IInv, FitSimulated
<1>5. FitSimulated' /\ OneLeft'
  BY <1>1, <1>4 DEF IInv, FitSimulated, OneLeft
<1>6. QED
  BY <1>1, <1>3, <1>5 DEF IInv

LEMMA SelectKeeps ==
  ASSUME IInv, Select
  PROVE  IInv'
<1>1. /\ phase = "select" /\ UNCHANGED <<memory, verdicts>> /\ outcome = "open"
      /\ candidates = filter_candidate_roles(memory) /\ candidates' = Selected
      /\ verdicts = [c \in filter_candidate_roles(memory) |-> Verdict(memory, c)]
      /\ \/ phase' = "arbitrate" /\ outcome' = outcome
         \/ phase' = "done" /\ outcome' = "assertion"
  BY DEF Select, IInv, CandidatesKnown
<1>2. ASSUME NEW c \in candidates' PROVE Passed(c)
  <2>1. \A d \in filter_candidate_roles(memory) : verdicts[d] = Verdict(memory, d)
    BY <1>1
  <2>2. c \in Selected
    BY <1>1
  <2>3. QED
    BY <1>1, <2>1, <2>2 DEF Selected, Passed
<1>3. \A c \in candidates' : Passed(c)'
  BY <1>1, <1>2 DEF Passed
<1>4. ~Unfit(memory) /\ (candidates' # {} => candidates # {})
  BY <1>1 DEF IInv, FitSimulated, Selected
<1>5. CandidatesKnown'
  BY <1>1, <1>3 DEF CandidatesKnown
<1>6. FitSimulated' /\ OneLeft'
  BY <1>1, <1>4 DEF IInv, FitSimulated, OneLeft
<1>7. QED
  BY <1>1, <1>5, <1>6 DEF IInv

LEMMA ArbitrateKeeps ==
  ASSUME IInv, Arbitrate
  PROVE  IInv'
<1>1. /\ phase = "arbitrate" /\ phase' = "done" /\ UNCHANGED <<memory, verdicts>>
      /\ \A c \in candidates : Passed(c)
  BY DEF Arbitrate, IInv, CandidatesKnown
<1>2. \/ outcome' = "assertion" /\ candidates' = candidates
      \/ outcome' = "roles" /\ \E c \in candidates : candidates' = {c}
  BY DEF Arbitrate, Settle, Fail
<1>3. candidates' \subseteq candidates
  BY <1>2
<1>4. ~Unfit(memory)
  BY <1>1 DEF IInv, FitSimulated
<1>5. CandidatesKnown'
  BY <1>1, <1>3 DEF CandidatesKnown, Passed
<1>6. FitSimulated'
  BY <1>1, <1>2, <1>3, <1>4 DEF IInv, FitSimulated
<1>7. OneLeft'
  BY <1>1, <1>2 DEF OneLeft
<1>8. QED
  BY <1>1, <1>2, <1>5, <1>6, <1>7 DEF IInv

LEMMA StepIInv == IInv /\ [Next]_vars => IInv'
<1> SUFFICES ASSUME IInv, UNCHANGED vars PROVE IInv'
  BY EnumerateKeeps, SimulateKeeps, SelectKeeps, ArbitrateKeeps DEF Next
<1>1. UNCHANGED <<memory, phase, candidates, verdicts, outcome>>
  BY DEF vars
<1>2. CandidatesKnown'
  BY <1>1 DEF IInv, CandidatesKnown, Passed
<1>3. FitSimulated' /\ OneLeft'
  BY <1>1 DEF IInv, FitSimulated, OneLeft
<1>4. QED
  BY <1>1, <1>2, <1>3 DEF IInv

\* Roles are returned for exactly one assignment: "There should be exactly one set of roles found".
THEOREM TypeCorrect == Spec => []TypeOK
<1>1. Init => IInv
  BY InitIInv
<1>2. IInv /\ [Next]_vars => IInv'
  BY StepIInv
<1>3. IInv => TypeOK
  BY FS_Singleton DEF IInv, OneLeft, TypeOK
<1>4. QED
  BY <1>1, <1>2, <1>3, PTL DEF Spec

\* A memory is passed over without a word if and only if its widths are at fault: a second
\* input as wide as the data, an address below the least width, or an address as wide as a
\* byte enable would be; and no such memory reaches the simulation.
THEOREM PassedOverExactly == Spec => []PassedOver
<1>1. Init => IInv
  BY InitIInv
<1>2. IInv /\ [Next]_vars => IInv'
  BY StepIInv
<1>3. IInv => PassedOver
  BY DEF IInv, FitSimulated, PassedOver
<1>4. QED
  BY <1>1, <1>2, <1>3, PTL DEF Spec

\* Until the simulation has spoken the true roles are among the candidates, so that only the
\* simulation or the arbitration can miss them; and whatever is confused, no candidate ever
\* mistakes the data port.
TruthIsTried ==
  /\ phase \in {"simulate", "select"} => [p \in memory.ports |-> p] \in candidates
  /\ \A c \in candidates : c["INPUT_DATA"] = "INPUT_DATA"

THEOREM TruthAmongCandidates == Spec => []TruthIsTried
<1>1. Init => IInv
  BY InitIInv
<1>2. IInv /\ [Next]_vars => IInv'
  BY StepIInv
<1>3. IInv => TruthIsTried
  <2> SUFFICES ASSUME IInv PROVE TruthIsTried
    OBVIOUS
  <2>1. phase \in {"simulate", "select"} => [p \in memory.ports |-> p] \in candidates
    BY FitIsFound DEF IInv, FitSimulated, CandidatesKnown
  <2>2. ASSUME NEW c \in candidates PROVE c["INPUT_DATA"] = "INPUT_DATA"
    <3>1. c \in filter_candidate_roles(memory) /\ ~DataAmbiguous(memory)
      BY DEF IInv, CandidatesKnown, FitSimulated, Passed
    <3>2. QED
      BY <3>1, DataPortClear DEF IInv
  <2>3. QED
    BY <2>1, <2>2 DEF TruthIsTried
<1>4. QED
  BY <1>1, <1>2, <1>3, PTL DEF Spec

\* The roles that are returned are roles under which the memory behaved like a memory in the
\* simulation; a candidate that showed what it wrote is returned only if no candidate did better.
ReturnedRolesPassed ==
  outcome = "roles" => \E c \in candidates : candidates = {c} /\ Passed(c)

THEOREM RolesPassed == Spec => []ReturnedRolesPassed
<1>1. Init => IInv
  BY InitIInv
<1>2. IInv /\ [Next]_vars => IInv'
  BY StepIInv
<1>3. IInv => ReturnedRolesPassed
  BY DEF IInv, OneLeft, CandidatesKnown, ReturnedRolesPassed
<1>4. QED
  BY <1>1, <1>2, <1>3, PTL DEF Spec

-----------------------------------------------------------------------------
(* What the simulation and the arbitration leave. *)

\* The candidates that passed the simulation, and the one of them the arbitration prefers.
Passing == {c \in filter_candidate_roles(memory) : Passed(c)}

Preferred(c) ==
  /\ c \in Passing /\ Earliest(c, Passing)
  /\ \/ Passing = {c}
     \/ \E d \in Passing \ {c} :
          /\ Passing = {c, d}
          /\ \E p \in DOMAIN c : p \in Differing(c, d) /\ Interchangeable(c, d, p)

\* The selection leaves what passed, and the arbitration what it prefers.
SelectionKnown ==
  /\ candidates # {} \/ phase = "arbitrate" \/ verdicts # <<>> => Cardinality(WidePorts(memory)) <= 2
  /\ phase = "arbitrate" \/ (outcome = "assertion" /\ verdicts # <<>>) => candidates = Passing
  /\ outcome = "roles" => \E c \in candidates : candidates = {c} /\ Preferred(c)

SInv == IInv /\ SelectionKnown

\* The selection has not happened at first.
LEMMA InitSInv == Init => SInv
  BY InitIInv DEF Init, SInv, SelectionKnown

\* What passes is a matter of the memory.
LEMMA PassingSame ==
  ASSUME memory' = memory
  PROVE  Passing' = Passing /\ \A c : Preferred(c)' <=> Preferred(c)
<1>1. \A c : Passed(c)' <=> Passed(c)
  BY DEF Passed
<1>2. Passing' = Passing
  BY <1>1 DEF Passing
<1>3. QED
  BY <1>2 DEF Preferred

\* The selection keeps the candidates that passed, no more and no fewer.
LEMMA SelectedPassed ==
  ASSUME IInv, phase = "select"
  PROVE  Selected = Passing
<1>1. /\ candidates = filter_candidate_roles(memory)
      /\ \A d \in filter_candidate_roles(memory) : verdicts[d] = Verdict(memory, d)
  BY DEF IInv, CandidatesKnown
<1>2. \A c : c \in Selected <=> c \in Passing
  BY <1>1 DEF Selected, Passing, Passed
<1>3. QED
  BY <1>2

\* Every step of the analysis keeps the strengthened invariant.
LEMMA StepSInv == SInv /\ [Next]_vars => SInv'
<1> SUFFICES ASSUME SInv, [Next]_vars PROVE SelectionKnown'
  BY StepIInv DEF SInv
<1>1. IInv /\ IInv'
  BY StepIInv DEF SInv
<1>2. CASE Enumerate
  <2>1. phase = "enumerate" /\ verdicts' = <<>>
    BY <1>1, <1>2 DEF Enumerate, IInv, FitSimulated
  <2>2. phase' \in {"simulate", "done"} /\ outcome' # "roles" /\ (candidates' # {} => phase' = "simulate")
    BY <1>2 DEF Enumerate
  <2>3. phase' = "simulate" => Cardinality(WidePorts(memory')) <= 2
    BY <1>1 DEF IInv, FitSimulated
  <2>4. QED
    BY <2>1, <2>2, <2>3 DEF SelectionKnown
<1>3. CASE Simulate
  <2>1. phase = "simulate" /\ phase' = "select" /\ outcome' = outcome
    BY <1>3 DEF Simulate
  <2>2. outcome = "open" /\ Cardinality(WidePorts(memory')) <= 2
    BY <1>1, <2>1 DEF IInv, FitSimulated
  <2>3. QED
    BY <2>1, <2>2 DEF SelectionKnown
<1>4. CASE Select
  <2>1. /\ phase = "select" /\ UNCHANGED <<memory, verdicts>> /\ candidates' = Selected
        /\ outcome' # "roles"
    BY <1>1, <1>4 DEF Select, IInv
  <2>2. Cardinality(WidePorts(memory)) <= 2
    BY <1>1, <2>1 DEF IInv, FitSimulated
  <2>3. Selected = Passing
    BY <1>1, <2>1, SelectedPassed
  <2>4. candidates' = Passing'
    BY <2>1, <2>3, PassingSame
  <2>5. QED
    BY <2>1, <2>2, <2>4 DEF SelectionKnown
<1>5. CASE Arbitrate
  <2>1. /\ phase = "arbitrate" /\ phase' = "done" /\ UNCHANGED <<memory, verdicts>>
    BY <1>5 DEF Arbitrate
  <2>2. candidates = Passing /\ Cardinality(WidePorts(memory)) <= 2
    BY <2>1 DEF SInv, SelectionKnown
  <2>3. Passing' = Passing /\ \A c : Preferred(c)' <=> Preferred(c)
    BY <2>1, PassingSame
  <2>4. \/ outcome' = "assertion" /\ candidates' = candidates
        \/ outcome' = "roles" /\ \E c \in candidates : candidates' = {c} /\ Preferred(c)
    <3>1. CASE Cardinality(candidates) > 2 /\ Fail
      BY <3>1 DEF Fail
    <3>2. CASE \E c \in candidates :
          /\ Earliest(c, candidates)
          /\ \/ candidates = {c} /\ Settle(c)
             \/ \E d \in candidates \ {c}, p \in DOMAIN c :
                  /\ candidates = {c, d} /\ p \in Differing(c, d)
                  /\ IF Interchangeable(c, d, p) THEN Settle(c) ELSE Fail
      <4>1. PICK c \in candidates :
              /\ Earliest(c, candidates)
              /\ \/ candidates = {c} /\ Settle(c)
                 \/ \E d \in candidates \ {c}, p \in DOMAIN c :
                      /\ candidates = {c, d} /\ p \in Differing(c, d)
                      /\ IF Interchangeable(c, d, p) THEN Settle(c) ELSE Fail
        BY <3>2
      <4>2. Settle(c) => outcome' = "roles" /\ candidates' = {c}
        BY DEF Settle
      <4>3. Fail => outcome' = "assertion" /\ candidates' = candidates
        BY DEF Fail
      <4>4. Settle(c) /\ candidates = {c} => Preferred(c)
        BY <2>2, <4>1 DEF Preferred
      <4>5. CASE candidates = {c} /\ Settle(c)
        BY <4>2, <4>4, <4>5
      <4>6. CASE \E d \in candidates \ {c}, p \in DOMAIN c :
                      /\ candidates = {c, d} /\ p \in Differing(c, d)
                      /\ IF Interchangeable(c, d, p) THEN Settle(c) ELSE Fail
        <5>1. PICK d \in candidates \ {c}, p \in DOMAIN c :
                      /\ candidates = {c, d} /\ p \in Differing(c, d)
                      /\ IF Interchangeable(c, d, p) THEN Settle(c) ELSE Fail
          BY <4>6
        <5>2. Interchangeable(c, d, p) => Preferred(c)
          BY <2>2, <4>1, <5>1 DEF Preferred
        <5>3. QED
          BY <4>2, <4>3, <5>1, <5>2
      <4>7. QED
        BY <4>1, <4>5, <4>6
    <3>3. QED
      BY <1>5, <3>1, <3>2 DEF Arbitrate
  <2>5. QED
    BY <2>1, <2>2, <2>3, <2>4 DEF SelectionKnown
<1>6. CASE UNCHANGED vars
  <2>1. UNCHANGED <<memory, phase, candidates, verdicts, outcome>>
    BY <1>6 DEF vars
  <2>2. Passing' = Passing /\ \A c : Preferred(c)' <=> Preferred(c)
    BY <2>1, PassingSame
  <2>3. QED
    BY <2>1, <2>2 DEF SInv, SelectionKnown
<1>7. QED
  BY <1>2, <1>3, <1>4, <1>5, <1>6 DEF Next

\* What is known of a candidate that passed.
LEMMA PassedShape ==
  ASSUME SInv, NEW c, Passed(c), candidates # {} \/ phase = "arbitrate" \/ verdicts # <<>>
  PROVE  Right(memory, c) /\ Plausible(memory, c)
<1>1. memory \in Memories /\ Cardinality(WidePorts(memory)) <= 2
  BY DEF SInv, IInv, SelectionKnown
<1>2. ~DataAmbiguous(memory)
  <2>1. candidates # {} => ~DataAmbiguous(memory)
    BY DEF SInv, IInv, FitSimulated
  <2>2. phase = "arbitrate" \/ verdicts # <<>> => ~Unfit(memory)
    BY DEF SInv, IInv, FitSimulated
  <2>3. QED
    BY <2>1, <2>2 DEF DataAmbiguous, Unfit
<1>3. c \in filter_candidate_roles(memory) /\ Verdict(memory, c).kind # "no"
  BY DEF Passed
<1>4. QED
  BY <1>1, <1>2, <1>3, WrongWidePorts

\* The probe separates the wide ports: whatever else is confused, no candidate that mistakes
\* an address, the data or the byte enable passes the simulation.
THEOREM WidePortsSeparated == Spec => []WidePortsTold
<1>1. SInv => WidePortsTold
  <2> SUFFICES ASSUME SInv, phase \in {"arbitrate", "done"}, NEW c \in candidates,
                      NEW p \in DOMAIN c \ SingleBitRoles
               PROVE  c[p] = p
    BY DEF WidePortsTold
  <2>1. Passed(c)
    BY DEF SInv, IInv, CandidatesKnown
  <2>2. Right(memory, c) /\ DOMAIN c = memory.ports
    BY <2>1, PassedShape DEF Plausible
  <2>3. QED
    BY <2>2 DEF Right
<1>2. QED
  BY <1>1, InitSInv, StepSInv, PTL DEF Spec

\* The accesses of a memory under its true roles.
LEMMA TruthAnswers ==
  ASSUME NEW m \in Memories, m.ports \cap {"WRITE_ENABLE", "WRITE_MODE"} # {}
  PROVE  Answers(m, [p \in m.ports |-> p])
<1> DEFINE c == [p \in m.ports |-> p]
<1>1. /\ DOMAIN c = m.ports /\ \A p \in m.ports : c[p] = p
      /\ \A p \in m.ports \cap SingleBitRoles : c[p] \in SingleBitRoles
      /\ "BYTE_ENABLE_SIGNAL" \in m.ports => c["BYTE_ENABLE_SIGNAL"] = "BYTE_ENABLE_SIGNAL"
  OBVIOUS
<1> HIDE DEF c
<1>2. ASSUME NEW i \in 1 .. 6
      PROVE  LET v == Step(m, c, i)
             IN  /\ High(v, "ENABLE")
                 /\ i <= 2 => /\ High(v, "WRITE_ENABLE") /\ High(v, "WRITE_MODE") /\ High(v, "WRITE_MASK")
                              /\ High(v, "BYTE_ENABLE_SIGNAL")
                 /\ i > 2 => /\ High(v, "READ_ENABLE")
                             /\ "WRITE_ENABLE" \in m.ports => ~High(v, "WRITE_ENABLE")
                             /\ "WRITE_MODE" \in m.ports => ~High(v, "WRITE_MODE")
  <2> DEFINE v == Step(m, c, i)
  <2>1. /\ \A p \in SingleBitRoles : High(v, p) <=> p \notin m.ports \/ role_sequences[p][i] = 1
        /\ i # 6 => High(v, "BYTE_ENABLE_SIGNAL")
    BY <1>1, ControlBits
  <2>2. /\ role_sequences["ENABLE"][i] = 1
        /\ i <= 2 => /\ role_sequences["WRITE_ENABLE"][i] = 1
                     /\ role_sequences["WRITE_MODE"][i] = 1
                     /\ role_sequences["WRITE_MASK"][i] = 1
        /\ i > 2 => /\ role_sequences["READ_ENABLE"][i] = 1
                    /\ role_sequences["WRITE_ENABLE"][i] = 0
                    /\ role_sequences["WRITE_MODE"][i] = 0
    BY DEF role_sequences
  <2> HIDE DEF v
  <2>3. QED
    BY <2>1, <2>2 DEF v, SingleBitRoles
<1>3. WritesIn(m, c, 1)
  <2>1. 1 \in 1 .. 6 /\ 1 <= 2
    OBVIOUS
  <2>2. LET v == Step(m, c, 1)
        IN  /\ High(v, "ENABLE") /\ High(v, "WRITE_ENABLE") /\ High(v, "WRITE_MODE")
            /\ High(v, "WRITE_MASK") /\ High(v, "BYTE_ENABLE_SIGNAL")
    BY <1>2, <2>1
  <2>3. QED
    BY <2>2 DEF WritesIn, Writes, WriteMode
<1>4. ASSUME NEW i \in {3, 6} PROVE ReadsIn(m, c, i)
  <2>1. LET v == Step(m, c, i)
        IN  /\ High(v, "ENABLE") /\ High(v, "READ_ENABLE")
            /\ "WRITE_ENABLE" \in m.ports => ~High(v, "WRITE_ENABLE")
            /\ "WRITE_MODE" \in m.ports => ~High(v, "WRITE_MODE")
    <3>1. i \in 1 .. 6 /\ i > 2
      OBVIOUS
    <3>2. QED
      BY <1>2, <3>1
  <2>2. ~(IF "WRITE_MODE" \in m.ports THEN WriteMode(m, Step(m, c, i)) ELSE Writes(m, Step(m, c, i)))
    BY <2>1 DEF WriteMode, Writes
  <2>3. QED
    BY <2>1, <2>2 DEF ReadsIn, Reads
<1>5. QED
  BY <1>3, <1>4 DEF Answers, c

\* A memory that is fit and has a write control of its own passes under its true roles.
LEMMA TruthPassed ==
  ASSUME memory \in Memories, Cardinality(WidePorts(memory)) <= 2, ~Unfit(memory),
         memory.ports \cap {"WRITE_ENABLE", "WRITE_MODE"} # {}
  PROVE  Passed([p \in memory.ports |-> p])
<1> DEFINE m == memory
           c == [p \in memory.ports |-> p]
<1>1. c \in filter_candidate_roles(m)
  BY FitIsFound
<1>2. ~DataAmbiguous(m)
  BY DEF Unfit, DataAmbiguous
<1>3. m.data # 1
  <2>1. PICK p \in m.ports \cap {"WRITE_ENABLE", "WRITE_MODE"} : TRUE
    OBVIOUS
  <2>2. Width(m, p) = 1 /\ p # "INPUT_DATA"
    BY <2>1, Widths DEF SingleBitRoles
  <2>3. QED
    BY <1>2, <2>1, <2>2 DEF DataAmbiguous
<1>4. Answers(m, c)
  BY TruthAnswers
<1>5. ASSUME NEW d \in filter_candidate_roles(m), Verdict(m, d).kind # "no"
      PROVE  Verdict(m, d).kind = Pattern(m)
  <2>1. Right(m, d) /\ Plausible(m, d)
    BY <1>2, <1>5, WrongWidePorts
  <2>2. QED
    BY <1>3, <1>5, <2>1, RightVerdict
<1>6. Right(m, c) /\ Plausible(m, c)
  <2>1. DOMAIN c = m.ports /\ \A p \in m.ports : c[p] = p
    OBVIOUS
  <2>2. m.address >= 3 /\ "INPUT_DATA" \in m.ports
    BY <1>1, <1>2, WideAssignments, MemoryPorts
  <2> HIDE DEF c
  <2>3. QED
    BY <2>1, <2>2 DEF Right, Plausible
<1>7. Verdict(m, c).kind = Pattern(m)
  BY <1>3, <1>4, <1>6, RightVerdict
<1> HIDE DEF c
<1>8. CASE Pattern(m) = "primary"
  BY <1>1, <1>7, <1>8 DEF Passed, c
<1>9. CASE Pattern(m) # "primary"
  <2>1. Pattern(m) = "secondary"
    BY <1>9 DEF Pattern
  <2>2. \A d \in filter_candidate_roles(m) : Verdict(m, d).kind # "primary"
    BY <1>5, <2>1
  <2>3. Passed(c)
    BY <1>1, <1>7, <2>1, <2>2 DEF Passed
  <2>4. QED
    BY <2>3 DEF c
<1>10. QED
  BY <1>8, <1>9

\* The probe never rejects the truth: a memory with a write control of its own passes the
\* simulation under its true roles, for every way it has of driving its read port.
THEOREM TruthPasses == Spec => []TrueRolesPass
<1>1. SInv => TrueRolesPass
  <2> DEFINE c == [p \in memory.ports |-> p]
  <2> SUFFICES ASSUME SInv, phase = "arbitrate" \/ (outcome = "assertion" /\ verdicts # <<>>),
                      memory.ports \cap {"WRITE_ENABLE", "WRITE_MODE"} # {}
               PROVE  c \in candidates
    BY DEF TrueRolesPass
  <2>1. /\ memory \in Memories /\ Cardinality(WidePorts(memory)) <= 2 /\ ~Unfit(memory)
        /\ candidates = Passing
    BY DEF SInv, IInv, SelectionKnown, FitSimulated
  <2>2. Passed(c)
    BY <2>1, TruthPassed
  <2> HIDE DEF c
  <2>3. QED
    BY <2>1, <2>2 DEF Passing, Passed
<1>2. QED
  BY <1>1, InitSInv, StepSInv, PTL DEF Spec

\* Candidates pass if and only if the memory answers under them, whatever it shows meanwhile.
LEMMA PassedAnswers ==
  ASSUME SInv, NEW c, Passed(c), candidates # {} \/ phase = "arbitrate" \/ verdicts # <<>>
  PROVE  /\ Right(memory, c) /\ Plausible(memory, c) /\ Answers(memory, c)
         /\ \A d \in filter_candidate_roles(memory) :
              Right(memory, d) /\ Plausible(memory, d) /\ Answers(memory, d) => d \in Passing
<1> DEFINE m == memory
<1>1. m \in Memories /\ Cardinality(WidePorts(m)) <= 2
  BY DEF SInv, IInv, SelectionKnown
<1>2. ~DataAmbiguous(m)
  <2>1. candidates # {} => ~DataAmbiguous(m)
    BY DEF SInv, IInv, FitSimulated
  <2>2. phase = "arbitrate" \/ verdicts # <<>> => ~Unfit(m)
    BY DEF SInv, IInv, FitSimulated
  <2>3. QED
    BY <2>1, <2>2 DEF DataAmbiguous, Unfit
<1>3. Right(m, c) /\ Plausible(m, c)
  BY PassedShape
<1>4. Verdict(m, c).kind # "no"
  BY DEF Passed
<1>5. m.data # 1
  BY <1>1, <1>3, <1>4, OneBit
<1>6. Answers(m, c)
  BY <1>1, <1>3, <1>4, <1>5, RightVerdict
<1>7. ASSUME NEW d \in filter_candidate_roles(m), Verdict(m, d).kind # "no"
      PROVE  Verdict(m, d).kind = Pattern(m)
  <2>1. Right(m, d) /\ Plausible(m, d)
    BY <1>1, <1>2, <1>7, WrongWidePorts
  <2>2. QED
    BY <1>1, <1>5, <1>7, <2>1, RightVerdict
<1>8. ASSUME NEW d \in filter_candidate_roles(m), Right(m, d), Plausible(m, d), Answers(m, d)
      PROVE  d \in Passing
  <2>1. Verdict(m, d).kind = Pattern(m)
    BY <1>1, <1>5, <1>8, RightVerdict
  <2>2. CASE Pattern(m) = "primary"
    BY <2>1, <2>2 DEF Passing, Passed
  <2>3. CASE Pattern(m) # "primary"
    <3>1. Pattern(m) = "secondary"
      BY <2>3 DEF Pattern
    <3>2. \A e \in filter_candidate_roles(m) : Verdict(m, e).kind # "primary"
      BY <1>7, <3>1
    <3>3. QED
      BY <2>1, <3>1, <3>2 DEF Passing, Passed
  <2>4. QED
    BY <2>2, <2>3
<1>9. QED
  BY <1>3, <1>6, <1>8

\* The arbitration accepts no candidate among three.
LEMMA NotThree ==
  ASSUME NEW c, Preferred(c), NEW d \in Passing, NEW e \in Passing, c # d, c # e, d # e
  PROVE  FALSE
BY DEF Preferred

\* Roles the arbitration returns leave no doubt that matters: a port that takes the place of
\* the enable is one a read needs, and so is a port that stands for the write enable one a
\* write needs.
LEMMA EnableNeeded ==
  ASSUME SInv, outcome = "roles", NEW c, candidates = {c}, Preferred(c),
         NEW p \in memory.ports, c[p] = "ENABLE"
  PROVE  /\ p \in {"ENABLE", "READ_ENABLE"}
         /\ "WRITE_ENABLE" \in Range(c) \/ p \in WriteControls(memory)
<1> DEFINE m == memory
           MayAnswer(d) == d \in filter_candidate_roles(m) /\ Right(m, d) /\ Plausible(m, d)
<1>1. m \in Memories /\ MayAnswer(c) /\ Answers(m, c)
  <2>1. c \in filter_candidate_roles(m) /\ Passed(c)
    BY DEF Preferred, Passing
  <2>2. QED
    BY <2>1, PassedAnswers DEF SInv, IInv
<1>2. \A d : MayAnswer(d) /\ Answers(m, d) => d \in Passing
  <2>1. Passed(c)
    BY DEF Preferred, Passing
  <2>2. QED
    BY <2>1, PassedAnswers
<1>3. /\ DOMAIN c = m.ports
      /\ \A q, r \in m.ports : c[q] = c[r] => q = r
      /\ \A q \in m.ports \cap SingleBitRoles : c[q] \in SingleBitRoles
      /\ \A q \in m.ports \ SingleBitRoles : c[q] = q
  <2>1. c \in Assignments(m)
    BY <1>1 DEF filter_candidate_roles
  <2>2. QED
    BY <1>1, <2>1, AssignmentFits DEF Plausible, Right
<1>4. /\ \A q \in WriteControls(m) : c[q] # "READ_ENABLE"
      /\ \A q \in m.ports \cap {"ENABLE", "READ_ENABLE"} : c[q] \in {"ENABLE", "READ_ENABLE"}
      /\ Combined(m) => \E q \in Deciding(m) : c[q] \in {"WRITE_ENABLE", "WRITE_MODE"}
  BY <1>1, AnswersByRoles
<1>5. /\ WriteControls(m) \subseteq m.ports \cap SingleBitRoles /\ Deciding(m) \subseteq WriteControls(m)
      /\ p \in SingleBitRoles
  <2>1. p \in SingleBitRoles
    BY <1>3 DEF SingleBitRoles
  <2>2. QED
    BY <2>1 DEF WriteControls, SingleBitRoles, Deciding
<1>6. ASSUME NEW a \in SingleBitRoles, NEW b \in SingleBitRoles
      PROVE  LET d == Swapped(c, a, b)
             IN  /\ MayAnswer(d)
                 /\ \A q \in m.ports : d[q] = IF c[q] = a THEN b ELSE IF c[q] = b THEN a ELSE c[q]
                 /\ Answers(m, d) <=>
                      /\ \A q \in WriteControls(m) : d[q] # "READ_ENABLE"
                      /\ \A q \in m.ports \cap {"ENABLE", "READ_ENABLE"} : d[q] \in {"ENABLE", "READ_ENABLE"}
                      /\ Combined(m) => \E q \in Deciding(m) : d[q] \in {"WRITE_ENABLE", "WRITE_MODE"}
  <2> DEFINE d == Swapped(c, a, b)
  <2>1. MayAnswer(d)
    BY <1>1, SwappedFits
  <2>2. \A q \in m.ports : d[q] = IF c[q] = a THEN b ELSE IF c[q] = b THEN a ELSE c[q]
    BY <1>3 DEF Swapped
  <2> HIDE DEF d
  <2>3. QED
    BY <1>1, <2>1, <2>2, AnswersByRoles DEF d
<1> HIDE DEF MayAnswer
<1>7. \A q \in {"ENABLE", "WRITE_ENABLE", "WRITE_MASK", "WRITE_MODE", "READ_ENABLE"} : q \in SingleBitRoles
  BY DEF SingleBitRoles
\* With a write control for the enable, the enable may as well be a write mask, and so on.
<1>8. p \in {"ENABLE", "READ_ENABLE"}
  <2> SUFFICES ASSUME p \notin {"ENABLE", "READ_ENABLE"} PROVE FALSE
    OBVIOUS
  <2>1. \A q \in m.ports \cap {"ENABLE", "READ_ENABLE"} : c[q] = "READ_ENABLE"
    BY <1>3, <1>4
  <2> DEFINE d == Swapped(c, "ENABLE", "WRITE_MASK")
  <2>2. d \in Passing /\ d[p] = "WRITE_MASK"
    <3>1. /\ MayAnswer(d)
          /\ \A q \in m.ports : d[q] = IF c[q] = "ENABLE" THEN "WRITE_MASK"
                                       ELSE IF c[q] = "WRITE_MASK" THEN "ENABLE" ELSE c[q]
          /\ Answers(m, d) <=>
               /\ \A q \in WriteControls(m) : d[q] # "READ_ENABLE"
               /\ \A q \in m.ports \cap {"ENABLE", "READ_ENABLE"} : d[q] \in {"ENABLE", "READ_ENABLE"}
               /\ Combined(m) => \E q \in Deciding(m) : d[q] \in {"WRITE_ENABLE", "WRITE_MODE"}
      BY <1>6, <1>7
    <3> HIDE DEF d
    <3>2. Answers(m, d)
      BY <1>4, <1>5, <2>1, <3>1
    <3>3. QED
      BY <1>2, <3>1, <3>2
  <2>3. CASE ~Combined(m)
    <3> DEFINE e == Swapped(c, "ENABLE", "WRITE_ENABLE")
    <3>1. e \in Passing /\ e[p] = "WRITE_ENABLE"
      <4>1. /\ MayAnswer(e)
            /\ \A q \in m.ports : e[q] = IF c[q] = "ENABLE" THEN "WRITE_ENABLE"
                                         ELSE IF c[q] = "WRITE_ENABLE" THEN "ENABLE" ELSE c[q]
            /\ Answers(m, e) <=>
                 /\ \A q \in WriteControls(m) : e[q] # "READ_ENABLE"
                 /\ \A q \in m.ports \cap {"ENABLE", "READ_ENABLE"} : e[q] \in {"ENABLE", "READ_ENABLE"}
                 /\ Combined(m) => \E q \in Deciding(m) : e[q] \in {"WRITE_ENABLE", "WRITE_MODE"}
        BY <1>6, <1>7
      <4> HIDE DEF e
      <4>2. Answers(m, e)
        BY <1>4, <1>5, <2>1, <2>3, <4>1
      <4>3. QED
        BY <1>2, <4>1, <4>2
    <3> HIDE DEF d, e
    <3>2. QED
      BY <2>2, <3>1, NotThree
  <2>4. CASE Combined(m)
    <3>1. PICK r \in Deciding(m) : c[r] \in {"WRITE_ENABLE", "WRITE_MODE"}
      BY <1>4, <2>4
    <3> DEFINE e == Swapped(c, "WRITE_ENABLE", "WRITE_MODE")
    <3>2. e \in Passing /\ e[p] = "ENABLE" /\ e[r] # c[r]
      <4>1. /\ MayAnswer(e)
            /\ \A q \in m.ports : e[q] = IF c[q] = "WRITE_ENABLE" THEN "WRITE_MODE"
                                         ELSE IF c[q] = "WRITE_MODE" THEN "WRITE_ENABLE" ELSE c[q]
            /\ Answers(m, e) <=>
                 /\ \A q \in WriteControls(m) : e[q] # "READ_ENABLE"
                 /\ \A q \in m.ports \cap {"ENABLE", "READ_ENABLE"} : e[q] \in {"ENABLE", "READ_ENABLE"}
                 /\ Combined(m) => \E q \in Deciding(m) : e[q] \in {"WRITE_ENABLE", "WRITE_MODE"}
        BY <1>6, <1>7
      <4> HIDE DEF e
      <4>2. Answers(m, e)
        BY <1>4, <1>5, <2>1, <3>1, <4>1
      <4>3. QED
        BY <1>2, <1>5, <3>1, <4>1, <4>2
    <3> HIDE DEF d, e
    <3>3. QED
      BY <2>2, <3>2, NotThree
  <2>5. QED
    BY <2>3, <2>4
\* Without a write enable a write mode would be one, and the read enable the enable.
<1>9. "WRITE_ENABLE" \in Range(c) \/ p \in WriteControls(m)
  <2> SUFFICES ASSUME "WRITE_ENABLE" \notin Range(c), p \notin WriteControls(m) PROVE FALSE
    OBVIOUS
  <2>1. \A q \in m.ports : c[q] \in Range(c) /\ c[q] # "WRITE_ENABLE"
    BY <1>3 DEF Range
  <2>2. CASE "WRITE_MODE" \in Range(c)
    <3>1. PICK r \in m.ports : c[r] = "WRITE_MODE"
      BY <1>3, <2>2 DEF Range
    <3> DEFINE e == Swapped(c, "WRITE_ENABLE", "WRITE_MODE")
    <3>2. /\ MayAnswer(e)
          /\ \A q \in m.ports : e[q] = IF c[q] = "WRITE_ENABLE" THEN "WRITE_MODE"
                                       ELSE IF c[q] = "WRITE_MODE" THEN "WRITE_ENABLE" ELSE c[q]
          /\ Answers(m, e) <=>
               /\ \A q \in WriteControls(m) : e[q] # "READ_ENABLE"
               /\ \A q \in m.ports \cap {"ENABLE", "READ_ENABLE"} : e[q] \in {"ENABLE", "READ_ENABLE"}
               /\ Combined(m) => \E q \in Deciding(m) : e[q] \in {"WRITE_ENABLE", "WRITE_MODE"}
      BY <1>6, <1>7
    <3>3. DOMAIN e = m.ports
      BY <1>3 DEF Swapped
    <3> HIDE DEF e
    <3>4. Answers(m, e)
      BY <1>4, <1>5, <3>2
    <3>5. e \in Passing
      BY <1>2, <3>2, <3>4
    <3>6. "WRITE_ENABLE" \in Range(e)
      BY <2>1, <3>1, <3>2, <3>3 DEF Range
    <3>7. \A x \in Range(c) \ Range(e) : x = "WRITE_MODE"
      <4> SUFFICES ASSUME NEW q \in m.ports, c[q] \notin Range(e) PROVE c[q] = "WRITE_MODE"
        BY <1>3 DEF Range
      <4>1. e[q] \in Range(e)
        BY <3>3 DEF Range
      <4>2. QED
        BY <2>1, <3>2, <4>1
    <3>8. Earliest(c, Passing)
      BY DEF Preferred
    <3>9. \E x \in Range(c) \ Range(e) : \A y \in Range(e) \ Range(c) : Rank(x) < Rank(y)
      BY <3>5, <3>6, <3>8 DEF Earliest
    <3>10. Rank("WRITE_MODE") < Rank("WRITE_ENABLE")
      BY <3>6, <3>7, <3>9
    <3>11. Rank("WRITE_MODE") = 10 /\ Rank("WRITE_ENABLE") = 6
      BY DEF Rank
    <3>12. QED
      BY <3>10, <3>11
  <2>3. CASE "WRITE_MODE" \notin Range(c)
    <3>1. ~Combined(m)
      BY <1>4, <1>5, <2>1, <2>3
    <3> DEFINE e == Swapped(c, "ENABLE", "READ_ENABLE")
    <3>2. /\ MayAnswer(e)
          /\ \A q \in m.ports : e[q] = IF c[q] = "ENABLE" THEN "READ_ENABLE"
                                       ELSE IF c[q] = "READ_ENABLE" THEN "ENABLE" ELSE c[q]
          /\ Answers(m, e) <=>
               /\ \A q \in WriteControls(m) : e[q] # "READ_ENABLE"
               /\ \A q \in m.ports \cap {"ENABLE", "READ_ENABLE"} : e[q] \in {"ENABLE", "READ_ENABLE"}
               /\ Combined(m) => \E q \in Deciding(m) : e[q] \in {"WRITE_ENABLE", "WRITE_MODE"}
      BY <1>6, <1>7
    <3>3. \A q \in WriteControls(m) : c[q] # "ENABLE"
      BY <1>3, <1>5
    <3> HIDE DEF e
    <3>4. Answers(m, e)
      BY <1>4, <1>5, <3>1, <3>2, <3>3
    <3>5. e \in Passing /\ e # c
      BY <1>2, <3>2, <3>4
    <3>6. PICK q \in DOMAIN c : q \in Differing(c, e) /\ Interchangeable(c, e, q)
      BY <3>5 DEF Preferred
    <3>7. c[q] # e[q] /\ q \in m.ports
      BY <1>3, <3>6 DEF Differing
    <3>8. {c[q], e[q]} = {"ENABLE", "READ_ENABLE"}
      BY <3>2, <3>7
    <3>9. {c[q], e[q]} = {"WRITE_ENABLE", "WRITE_MASK"} \/ {c[q], e[q]} = {"WRITE_ENABLE", "WRITE_MODE"}
      BY <3>6 DEF Interchangeable
    <3>10. QED
      BY <3>8, <3>9
  <2>4. QED
    BY <2>2, <2>3
<1>10. QED
  BY <1>8, <1>9

\* Roles found automatically serve the taint logic, even where they are not the true ones: in
\* every cycle in which the memory writes, the generated logic writes the taint, and in every
\* cycle in which it reads, the logic reads it.
THEOREM NoneMissed == Spec => []NoAccessMissed
<1>1. SInv => NoAccessMissed
  <2> DEFINE m == memory
  <2> SUFFICES ASSUME SInv, outcome = "roles", NEW v \in ControlValues
               PROVE  /\ Writes(m, v) => ShadowWrites(v)
                      /\ Reads(m, v) => RoleHigh(v, "ENABLE")
    BY DEF NoAccessMissed
  <2>1. PICK c : candidates = {c} /\ Preferred(c)
    BY DEF SInv, SelectionKnown
  <2>2. Chosen = c
    BY <2>1 DEF Chosen
  <2>3. m \in Memories /\ c \in filter_candidate_roles(m) /\ Passed(c)
    BY <2>1 DEF SInv, IInv, Preferred, Passing
  <2>4. Right(m, c) /\ Plausible(m, c) /\ Answers(m, c)
    BY <2>1, <2>3, PassedAnswers
  <2>5. /\ DOMAIN c = m.ports
        /\ \A p \in m.ports \cap SingleBitRoles : c[p] \in SingleBitRoles
        /\ \A p \in m.ports \ SingleBitRoles : c[p] = p
    BY <2>4 DEF Plausible, Right
  <2>6. /\ \A p \in WriteControls(m) : c[p] # "READ_ENABLE"
        /\ \A p \in m.ports \cap {"ENABLE", "READ_ENABLE"} : c[p] \in {"ENABLE", "READ_ENABLE"}
    BY <2>3, <2>4, AnswersByRoles
  <2>7. ASSUME NEW p \in m.ports, c[p] = "ENABLE"
        PROVE  /\ p \in {"ENABLE", "READ_ENABLE"}
               /\ "WRITE_ENABLE" \in Range(c) \/ p \in WriteControls(m)
    BY <2>1, <2>7, EnableNeeded
  <2>8. /\ DOMAIN v = m.ports \cap (SingleBitRoles \cup {"BYTE_ENABLE_SIGNAL"})
        /\ \A p \in DOMAIN v : v[p] \in {0, 1} /\ (High(v, p) <=> v[p] = 1)
    BY DEF ControlValues, High
  <2>9. DOMAIN v \cap SingleBitRoles = m.ports \cap SingleBitRoles
    BY <2>8
  <2>10. Writes(m, v) => \A p \in WriteControls(m) : High(v, p)
    BY <2>3, <2>9, WritesByControls
  <2>11. ASSUME NEW p \in DOMAIN v, c[p] \in {"WRITE_ENABLE", "WRITE_MASK", "WRITE_MODE"}
         PROVE  p \in WriteControls(m)
    <3>1. p \in m.ports \cap SingleBitRoles
      BY <2>5, <2>8, <2>11 DEF SingleBitRoles
    <3>2. p \notin {"ENABLE", "READ_ENABLE"}
      BY <2>6, <2>11, <3>1
    <3>3. QED
      BY <3>1, <3>2 DEF WriteControls, SingleBitRoles
  <2>12. Writes(m, v) => ShadowWrites(v)
    <3> SUFFICES ASSUME Writes(m, v) PROVE ShadowWrites(v)
      OBVIOUS
    <3>1. \A p \in DOMAIN v : p \in WriteControls(m) => v[p] = 1
      BY <2>8, <2>10
    <3>2. RoleHigh(v, "WRITE_MASK") /\ RoleHigh(v, "WRITE_MODE") /\ RoleHigh(v, "WRITE_ENABLE")
      BY <2>2, <2>11, <3>1 DEF RoleHigh
    <3>3. "WRITE_ENABLE" \notin Range(c) => RoleHigh(v, "ENABLE")
      BY <2>2, <2>7, <2>8, <3>1 DEF RoleHigh
    <3>4. QED
      BY <2>2, <3>2, <3>3 DEF ShadowWrites
  <2>13. Reads(m, v) => RoleHigh(v, "ENABLE")
    <3>1. Reads(m, v) => High(v, "ENABLE") /\ High(v, "READ_ENABLE")
      BY DEF Reads
    <3>2. QED
      BY <2>2, <2>7, <2>8, <3>1 DEF RoleHigh
  <2>14. QED
    BY <2>12, <2>13
<1>2. QED
  BY <1>1, InitSInv, StepSInv, PTL DEF Spec

\* A memory with one port, a write control and at most an enable that gates it.
Plain(m) ==
  /\ Combined(m)
  /\ LET controls == m.ports \cap SingleBitRoles
     IN  \/ controls \in {{"WRITE_ENABLE"}, {"ENABLE", "WRITE_MODE"}}
         \/ controls = {"ENABLE", "WRITE_ENABLE"} /\ m.gated
  /\ ~Unfit(m)

\* The true roles of a memory, and those with the write enable for the write mode.
Truth(m) == [p \in m.ports |-> p]
Twin(m) == Swapped(Truth(m), "WRITE_ENABLE", "WRITE_MODE")

\* The write enable and the write mode have the same stimuli, so that exchanging them shows
\* the same.
LEMMA TwinInputs ==
  ASSUME NEW m
  PROVE  Verdict(m, Truth(m)) = Verdict(m, Twin(m))
<1> DEFINE c == Truth(m)
           d == Twin(m)
<1>1. DOMAIN c = m.ports /\ DOMAIN d = m.ports
      /\ \A p \in m.ports : d[p] = IF c[p] = "WRITE_ENABLE" THEN "WRITE_MODE"
                                   ELSE IF c[p] = "WRITE_MODE" THEN "WRITE_ENABLE" ELSE c[p]
  BY DEF Truth, Twin, Swapped
<1>2. role_sequences["WRITE_ENABLE"] = role_sequences["WRITE_MODE"]
  BY DEF role_sequences
<1> HIDE DEF c, d
<1>3. \A p \in m.ports : role_sequences[d[p]] = role_sequences[c[p]]
  BY <1>1, <1>2
<1>4. \A k \in 0 .. Cycles - 1 : Stimulus(m, c, k) = Stimulus(m, d, k)
  BY <1>1, <1>3 DEF Stimulus
<1>5. Outputs(m, c) = Outputs(m, d)
  BY <1>4, SameOutputs
<1>6. QED
  BY <1>5 DEF Verdict, c, d

\* Two candidates of a plain memory pass, which the arbitration takes for one.
LEMMA PlainPassing ==
  ASSUME SInv, candidates # {} \/ phase = "arbitrate" \/ verdicts # <<>>, Plain(memory)
  PROVE  /\ Passing = {Truth(memory), Twin(memory)}
         /\ Truth(memory) # Twin(memory)
         /\ \A c, d \in Passing, p \in memory.ports :
              p \in Differing(c, d) => Interchangeable(c, d, p)
<1> DEFINE m == memory
           a == Truth(m)
           b == Twin(m)
           controls == m.ports \cap SingleBitRoles
           WM == {"WRITE_ENABLE", "WRITE_MODE"}
<1>1. m \in Memories /\ Cardinality(WidePorts(m)) <= 2 /\ ~Unfit(m) /\ Combined(m)
  BY DEF SInv, IInv, SelectionKnown, Plain
<1>2. PICK w \in WM : /\ w \in m.ports /\ Deciding(m) = controls /\ WriteControls(m) = controls
                      /\ controls = {w} \/ controls = {w, "ENABLE"}
  <2>1. CASE controls = {"WRITE_ENABLE"}
    <3>1. ~m.gated
      <4>1. m.gated => "ENABLE" \in m.ports
        BY <1>1 DEF Memories
      <4>2. "ENABLE" \notin m.ports
        BY <2>1 DEF SingleBitRoles
      <4>3. QED
        BY <4>1, <4>2
    <3>2. "WRITE_ENABLE" \in m.ports /\ "WRITE_MODE" \notin m.ports /\ "WRITE_MASK" \notin m.ports
      BY <2>1 DEF SingleBitRoles
    <3>3. QED
      BY <2>1, <3>1, <3>2 DEF WriteControls, Deciding
  <2>2. CASE controls = {"ENABLE", "WRITE_MODE"}
    <3>1. "WRITE_ENABLE" \notin m.ports /\ "WRITE_MODE" \in m.ports /\ "WRITE_MASK" \notin m.ports
          /\ "ENABLE" \in m.ports
      BY <2>2 DEF SingleBitRoles
    <3>2. QED
      BY <2>2, <3>1 DEF WriteControls, Deciding
  <2>3. CASE controls = {"ENABLE", "WRITE_ENABLE"} /\ m.gated
    <3>1. "WRITE_ENABLE" \in m.ports /\ "WRITE_MODE" \notin m.ports /\ "WRITE_MASK" \notin m.ports
          /\ "ENABLE" \in m.ports
      BY <2>3 DEF SingleBitRoles
    <3>2. QED
      BY <2>3, <3>1 DEF WriteControls, Deciding
  <2>4. QED
    BY <2>1, <2>2, <2>3 DEF Plain
<1>3. Passed(a) /\ a \in Passing
  <2>1. m.ports \cap {"WRITE_ENABLE", "WRITE_MODE"} # {}
    BY <1>2
  <2>2. Passed([p \in memory.ports |-> p])
    BY <1>1, <2>1, TruthPassed
  <2>3. QED
    BY <2>2 DEF Truth, Passing, Passed
<1>4. /\ Right(m, a) /\ Plausible(m, a) /\ Answers(m, a)
      /\ \A d \in filter_candidate_roles(m) : Right(m, d) /\ Plausible(m, d) /\ Answers(m, d) => d \in Passing
  BY <1>3, PassedAnswers
<1>5. /\ DOMAIN a = m.ports /\ DOMAIN b = m.ports
      /\ \A p \in m.ports : a[p] = p
      /\ \A p \in m.ports : b[p] = IF p = "WRITE_ENABLE" THEN "WRITE_MODE"
                                   ELSE IF p = "WRITE_MODE" THEN "WRITE_ENABLE" ELSE p
      /\ a = [p \in m.ports |-> a[p]] /\ b = [p \in m.ports |-> b[p]]
  BY DEF Truth, Twin, Swapped
<1>6. b \in filter_candidate_roles(m) /\ Right(m, b) /\ Plausible(m, b)
  <2>1. a \in filter_candidate_roles(m) /\ "WRITE_ENABLE" \in SingleBitRoles /\ "WRITE_MODE" \in SingleBitRoles
    BY <1>3 DEF Passed, SingleBitRoles
  <2>2. QED
    BY <1>1, <1>4, <2>1, SwappedFits DEF Twin
<1> HIDE DEF a, b
<1>7. ASSUME NEW c, Right(m, c), Plausible(m, c)
      PROVE  Answers(m, c) <=>
               /\ \A p \in controls : c[p] # "READ_ENABLE"
               /\ \A p \in m.ports \cap {"ENABLE", "READ_ENABLE"} : c[p] \in {"ENABLE", "READ_ENABLE"}
               /\ \E p \in controls : c[p] \in WM
  BY <1>1, <1>2, <1>7, AnswersByRoles
<1>8. \A p \in m.ports \cap {"ENABLE", "READ_ENABLE"} : p = "ENABLE" /\ p \in controls
  BY <1>2 DEF SingleBitRoles
<1>9. b \in Passing
  <2>1. w \in controls
    BY <1>2
  <2>2. b[w] \in WM
    BY <1>2, <1>5
  <2>3. \A p \in controls : b[p] # "READ_ENABLE"
    <3>1. \A p \in controls : p \in {"WRITE_ENABLE", "WRITE_MODE", "ENABLE"} /\ p \in m.ports
      BY <1>2
    <3>2. QED
      BY <1>5, <3>1
  <2>4. \A p \in m.ports \cap {"ENABLE", "READ_ENABLE"} : b[p] \in {"ENABLE", "READ_ENABLE"}
    BY <1>5
  <2>5. Answers(m, b)
    BY <1>6, <1>7, <2>1, <2>2, <2>3, <2>4
  <2>6. QED
    BY <1>4, <1>6, <2>5
<1>10. ASSUME NEW c \in Passing
       PROVE  c = a \/ c = b
  <2>1. c \in filter_candidate_roles(m) /\ Passed(c)
    BY DEF Passing
  <2>2. Right(m, c) /\ Plausible(m, c) /\ Answers(m, c)
    BY <2>1, PassedAnswers
  <2>3. DOMAIN c = m.ports /\ c = [p \in m.ports |-> c[p]]
    <3>1. c \in Assignments(m) /\ DOMAIN c = m.ports
      BY <2>1, <2>2 DEF filter_candidate_roles, Plausible
    <3>2. PICK wide, single : c = Joined(wide, single)
      BY <3>1 DEF Assignments
    <3>3. c = [p \in DOMAIN c |-> c[p]]
      BY <3>2 DEF Joined
    <3>4. QED
      BY <3>1, <3>3
  <2>4. /\ \A p \in controls : c[p] # "READ_ENABLE"
        /\ \A p \in m.ports \cap {"ENABLE", "READ_ENABLE"} : c[p] \in {"ENABLE", "READ_ENABLE"}
        /\ \E p \in controls : c[p] \in WM
    BY <1>7, <2>2
  <2>5. "ENABLE" \in m.ports => c["ENABLE"] = "ENABLE"
    BY <1>8, <2>4
  <2>6. c[w] \in WM
    BY <1>2, <2>4, <2>5
  <2>7. \A p \in m.ports \ {w} : c[p] = p
    <3>1. \A p \in m.ports : p \notin SingleBitRoles => c[p] = p
      BY <2>2 DEF Right
    <3>2. \A p \in m.ports : p \in SingleBitRoles => p = w \/ p = "ENABLE"
      BY <1>2
    <3>3. QED
      BY <2>5, <3>1, <3>2
  <2>8. \A p \in m.ports \ {w} : b[p] = p
    <3>1. \A p \in m.ports : p \in WM => p = w
      BY <1>2 DEF SingleBitRoles
    <3>2. QED
      BY <1>5, <3>1
  <2>9. CASE c[w] = w
    <3>1. \A p \in m.ports : c[p] = a[p]
      BY <1>5, <2>7, <2>9
    <3>2. c = a
      BY <1>5, <2>3, <3>1
    <3>3. QED
      BY <3>2
  <2>10. CASE c[w] # w
    <3>1. b[w] = c[w]
      BY <1>2, <1>5, <2>6, <2>10
    <3>2. \A p \in m.ports : c[p] = b[p]
      BY <2>7, <2>8, <3>1
    <3>3. c = b
      BY <1>5, <2>3, <3>2
    <3>4. QED
      BY <3>3
  <2>11. QED
    BY <2>9, <2>10
<1>11. Passing = {a, b}
  BY <1>3, <1>9, <1>10
<1>12. a[w] = w /\ b[w] # w /\ {a[w], b[w]} = WM
  BY <1>2, <1>5
<1>13. \A p \in m.ports : a[p] # b[p] => p = w
  <2>1. \A p \in m.ports : p \in WM => p = w
    BY <1>2 DEF SingleBitRoles
  <2>2. ASSUME NEW p \in m.ports, p \notin WM PROVE a[p] = b[p]
    <3>1. a[p] = p /\ b[p] = IF p = "WRITE_ENABLE" THEN "WRITE_MODE" ELSE IF p = "WRITE_MODE" THEN "WRITE_ENABLE" ELSE p
      BY <1>5
    <3>2. p # "WRITE_ENABLE" /\ p # "WRITE_MODE"
      BY <2>2
    <3>3. QED
      BY <3>1, <3>2
  <2>3. QED
    BY <2>1, <2>2
<1>14. ASSUME NEW c \in Passing, NEW d \in Passing, NEW p \in m.ports, p \in Differing(c, d)
       PROVE  Interchangeable(c, d, p)
  <2>1. DOMAIN c = m.ports /\ c[p] # d[p]
    BY <1>5, <1>11, <1>14 DEF Differing
  <2>2. (c = a /\ d = b) \/ (c = b /\ d = a)
    BY <1>11, <2>1
  <2>3. p = w /\ {c[p], d[p]} = WM
    BY <1>12, <1>13, <2>1, <2>2
  <2>4. \A q \in m.ports : c[q] # d[q] => q = w
    BY <1>13, <2>2
  <2>5. Differing(c, d) = {p}
    BY <2>1, <2>3, <2>4 DEF Differing
  <2>6. QED
    BY <2>3, <2>5 DEF Interchangeable
<1>15. QED
  BY <1>11, <1>12, <1>14 DEF a, b

\* A plain memory has one address, and one more port at most of more than a bit.
LEMMA PlainFits ==
  ASSUME NEW m \in Memories, Plain(m)
  PROVE  /\ ~DataAmbiguous(m) /\ Cardinality(WidePorts(m)) \in Nat /\ Cardinality(WidePorts(m)) <= 2
         /\ filter_candidate_roles(m) # {}
<1>1. ~Unfit(m) /\ "COMBINED_ADDRESS_SIGNAL" \in Unsingle(m)
  BY DEF Plain, Combined, Unsingle, SingleBitRoles
<1>2. ~DataAmbiguous(m)
  BY <1>1 DEF Unfit, DataAmbiguous
<1>3. WidePorts(m) \in SUBSET {"COMBINED_ADDRESS_SIGNAL", "BYTE_ENABLE_SIGNAL"}
  <2>1. Unsingle(m) \subseteq {"INPUT_DATA", "COMBINED_ADDRESS_SIGNAL", "BYTE_ENABLE_SIGNAL"}
    BY <1>1, MemoryPorts
  <2>2. QED
    BY <2>1, WideIsUnsingle
<1>4. Cardinality(WidePorts(m)) \in Nat /\ Cardinality(WidePorts(m)) <= 2
  <2>1. /\ IsFiniteSet({"COMBINED_ADDRESS_SIGNAL", "BYTE_ENABLE_SIGNAL"})
        /\ Cardinality({"COMBINED_ADDRESS_SIGNAL", "BYTE_ENABLE_SIGNAL"}) = 2
    BY Two
  <2>2. QED
    BY <1>3, <2>1, FS_Subset, FS_CardinalityType
<1>5. QED
  BY <1>1, <1>2, <1>4, FitIsFound

\* The analysis of a plain memory ends with roles.
PInv == SInv /\ (phase = "done" /\ Plain(memory) => outcome = "roles")

\* No step of the analysis refuses a plain memory or passes it over.
LEMMA StepPInv == PInv /\ [Next]_vars => PInv'
<1> SUFFICES ASSUME PInv, [Next]_vars, phase' = "done", Plain(memory') PROVE outcome' = "roles"
  BY StepSInv DEF PInv
<1>1. SInv /\ IInv /\ memory \in Memories /\ memory' = memory /\ Plain(memory)
  BY DEF PInv, SInv, IInv, Next, Enumerate, Simulate, Select, Arbitrate, vars
<1> DEFINE m == memory
           a == Truth(m)
           b == Twin(m)
<1>2. candidates # {} \/ phase = "arbitrate" \/ verdicts # <<>> =>
        /\ Passing = {a, b} /\ a # b
        /\ \A c, d \in Passing, p \in m.ports : p \in Differing(c, d) => Interchangeable(c, d, p)
  BY <1>1, PlainPassing
<1>3. /\ ~DataAmbiguous(m) /\ ~(Cardinality(WidePorts(m)) > 2)
      /\ filter_candidate_roles(m) # {}
  BY <1>1, PlainFits
<1> HIDE DEF a, b
<1>4. CASE Enumerate
  <2>1. outcome' = "open"
    BY <1>3, <1>4 DEF Enumerate
  <2>2. phase' = "simulate"
    BY <1>4, <2>1 DEF Enumerate
  <2>3. QED
    BY <2>2
<1>5. CASE Simulate
  BY <1>5 DEF Simulate
<1>6. CASE Select
  <2>1. /\ phase = "select" /\ candidates = filter_candidate_roles(m)
        /\ \A c \in filter_candidate_roles(m) : verdicts[c] = Verdict(m, c)
    BY <1>1, <1>6 DEF Select, IInv, CandidatesKnown
  <2>2. Selected = Passing /\ Passing = {a, b}
    BY <1>1, <1>2, <1>3, <2>1, SelectedPassed
  <2>3. Verdict(m, a) = Verdict(m, b)
    BY TwinInputs DEF a, b
  <2>4. a \in filter_candidate_roles(m) /\ b \in filter_candidate_roles(m)
    BY <2>2 DEF Passing
  <2>5. verdicts[a].latency = verdicts[b].latency
    BY <2>1, <2>3, <2>4
  <2>6. {verdicts[c].latency : c \in Selected} = {verdicts[a].latency}
    BY <2>2, <2>5
  <2>7. Cardinality({verdicts[c].latency : c \in Selected}) = 1
    BY <2>6, FS_Singleton
  <2>8. phase' = "arbitrate"
    BY <1>6, <2>7 DEF Select
  <2>9. QED
    BY <2>8
<1>7. CASE Arbitrate
  <2>1. phase = "arbitrate"
    BY <1>7 DEF Arbitrate
  <2>2. candidates = Passing /\ Passing = {a, b} /\ a # b
    BY <1>1, <1>2, <2>1 DEF SInv, SelectionKnown
  <2>3. \A c, d \in Passing, p \in m.ports : p \in Differing(c, d) => Interchangeable(c, d, p)
    BY <1>2, <2>1
  <2>4. ~(Cardinality(candidates) > 2)
    BY <2>2, Two
  <2>5. DOMAIN a = m.ports /\ DOMAIN b = m.ports
    BY DEF a, b, Truth, Twin, Swapped
  <2>6. PICK c \in candidates :
           \/ candidates = {c} /\ Settle(c)
           \/ \E d \in candidates \ {c}, p \in DOMAIN c :
                /\ candidates = {c, d} /\ p \in Differing(c, d)
                /\ IF Interchangeable(c, d, p) THEN Settle(c) ELSE Fail
    BY <1>7, <2>4 DEF Arbitrate
  <2>7. candidates # {c}
    BY <2>2
  <2>8. PICK d \in candidates \ {c}, p \in DOMAIN c :
               /\ p \in Differing(c, d)
               /\ IF Interchangeable(c, d, p) THEN Settle(c) ELSE Fail
    BY <2>6, <2>7
  <2>9. p \in m.ports
    BY <2>2, <2>5, <2>8
  <2>10. Interchangeable(c, d, p)
    BY <2>2, <2>3, <2>8, <2>9
  <2>11. QED
    BY <2>8, <2>10 DEF Settle
<1>8. CASE UNCHANGED vars
  BY <1>1, <1>8 DEF vars, PInv
<1>9. QED
  BY <1>4, <1>5, <1>6, <1>7, <1>8 DEF Next

\* A memory with one port, a write control and at most an enable that gates it, of widths that
\* can be told apart, is not too ambiguous for the analysis: its roles are found.
THEOREM PlainRecognised == Spec => []PlainMemoriesRecognised
<1>1. Init => PInv
  BY InitSInv DEF Init, PInv
<1>2. PInv => PlainMemoriesRecognised
  BY DEF PInv, Plain, PlainMemoriesRecognised
<1>3. QED
  BY <1>1, <1>2, StepPInv, PTL DEF Spec
=============================================================================
