---------------------------- MODULE RoleAnalysis ----------------------------
(***************************************************************************)
(* How hybridift.py finds out what the ports of a memory are for           *)
(* (__analyze_sram_roles_and_latency): it enumerates the assignments of    *)
(* roles to ports that fit their widths, simulates the memory once under   *)
(* each of them, keeps those under which it behaves like a memory, and     *)
(* arbitrates between a few known confusions.                              *)
(*                                                                         *)
(* A port of the memory under analysis is named by its true role.          *)
(***************************************************************************)
EXTENDS Integers, Sequences, FiniteSets, Functions

CONSTANTS
  Controls,  \* sets of control ports the analysed memories may have
  DataWidths, AddressWidths,  \* in bits
  Styles     \* read port when the memory does not read: "zero", "hold", "through"

VARIABLES
  memory,      \* the memory under analysis
  phase,       \* how far the analysis is
  candidates,  \* role assignments not yet ruled out
  verdicts,    \* what the simulation under each candidate showed
  outcome      \* "open", "roles", "skipped" or "assertion"

vars == <<memory, phase, candidates, verdicts, outcome>>

-----------------------------------------------------------------------------
(* Roles and the stimuli that go with them. *)

AddressRoles == {"READ_ADDRESS_SIGNAL", "WRITE_ADDRESS_SIGNAL", "COMBINED_ADDRESS_SIGNAL"}
SingleBitRoles == {"WRITE_ENABLE", "READ_ENABLE", "ENABLE", "WRITE_MASK", "WRITE_MODE"}
PortRole == {"INPUT_DATA", "BYTE_ENABLE_SIGNAL"} \cup AddressRoles \cup SingleBitRoles

role_sequences ==
  [INPUT_DATA              |-> <<2, 3, 0, 0, 0, 0>>,
   READ_ADDRESS_SIGNAL     |-> <<0, 0, 4, 2, 4, 2>>,
   WRITE_ADDRESS_SIGNAL    |-> <<4, 2, 0, 0, 0, 0>>,
   COMBINED_ADDRESS_SIGNAL |-> <<4, 2, 4, 2, 4, 2>>,
   BYTE_ENABLE_SIGNAL      |-> <<15, 15, 15, 15, 15, 0>>,
   WRITE_ENABLE            |-> <<1, 1, 0, 0, 0, 0>>,
   ENABLE                  |-> <<1, 1, 1, 1, 1, 1>>,
   WRITE_MASK              |-> <<1, 1, 1, 1, 1, 0>>,
   READ_ENABLE             |-> <<0, 0, 1, 1, 1, 1>>,
   WRITE_MODE              |-> <<1, 1, 0, 0, 0, 0>>]

Cycles == 34

\* "Address (Assume at least 2 bits)"
ASSUME PortAssumption ==
  /\ Controls \subseteq SUBSET (SingleBitRoles \cup {"BYTE_ENABLE_SIGNAL"})
  /\ DataWidths \subseteq Nat \ {0}
  /\ AddressWidths \subseteq Nat \ {0, 1}

-----------------------------------------------------------------------------
(* The memory under analysis, external. *)

\* One port for all accesses, or one to read and one to write.
PortSets ==
  {{"INPUT_DATA"} \cup addresses \cup controls :
     addresses \in {{"COMBINED_ADDRESS_SIGNAL"}, {"READ_ADDRESS_SIGNAL", "WRITE_ADDRESS_SIGNAL"}},
     controls \in Controls}

\* A memory may ignore its write enable while its enable is low (gated).  The style matters
\* to the simulation only, the widths before it only, the text of the first array write if
\* the data port is not clear.  A memory of bytes has no byte enable.
Memories ==
  {m \in [ports : PortSets, style : Styles, gated : BOOLEAN,
          data : DataWidths, address : AddressWidths, store : {"] <= _01_;", "] <= W0_data;"}] :
     /\ m.gated => {"ENABLE", "WRITE_ENABLE"} \subseteq m.ports
     /\ m.style = "zero" \/ (m.data = 32 /\ m.address = 8)
     /\ "BYTE_ENABLE_SIGNAL" \in m.ports => m.data > 8 /\ m.data % 8 = 0
     /\ m.store = "] <= _01_;" \/ m.data \in {1, m.address}}

Width(m, port) ==
  CASE port = "INPUT_DATA" -> m.data
    [] port = "BYTE_ENABLE_SIGNAL" -> m.data \div 8
    [] port \in AddressRoles -> m.address
    [] port \in SingleBitRoles -> 1

Combined(m) == "COMBINED_ADDRESS_SIGNAL" \in m.ports

\* A port the memory does not have is a constant 1.
High(v, port) == IF port \in DOMAIN v THEN v[port] % 2 = 1 ELSE TRUE

WriteMode(m, v) ==
  /\ High(v, "WRITE_MODE")
  /\ IF "WRITE_ENABLE" \in m.ports
       THEN High(v, "WRITE_ENABLE") /\ (m.gated => High(v, "ENABLE"))
       ELSE High(v, "ENABLE")

\* The stimuli are in the lowest byte, which lane 0 of a byte enable selects.
Writes(m, v) == WriteMode(m, v) /\ High(v, "BYTE_ENABLE_SIGNAL") /\ High(v, "WRITE_MASK")

Reads(m, v) ==
  /\ High(v, "ENABLE") /\ High(v, "READ_ENABLE")
  /\ Combined(m) => ~(IF "WRITE_MODE" \in m.ports THEN WriteMode(m, v) ELSE Writes(m, v))

Initially == [contents |-> [a \in {0, 2, 4} |-> 0], dout |-> 0, shown |-> <<>>]

\* One cycle; the simulation prints the read port only when it is not zero.
Cycle(m, s, v) ==
  LET waddr == v[IF Combined(m) THEN "COMBINED_ADDRESS_SIGNAL" ELSE "WRITE_ADDRESS_SIGNAL"]
      raddr == v[IF Combined(m) THEN "COMBINED_ADDRESS_SIGNAL" ELSE "READ_ADDRESS_SIGNAL"]
      dout  == IF Reads(m, v) THEN s.contents[raddr]
               ELSE IF m.style = "zero" THEN 0
               ELSE IF m.style = "through" /\ Combined(m) /\ Writes(m, v) THEN v["INPUT_DATA"]
               ELSE s.dout
  IN  [contents |-> IF Writes(m, v) THEN [s.contents EXCEPT ![waddr] = v["INPUT_DATA"]]
                                    ELSE s.contents,
       dout  |-> dout,
       shown |-> IF dout = 0 THEN s.shown ELSE Append(s.shown, dout)]

\* Inputs are masked to the width of the port; stimuli have at most four bits.
Masked(m, port, stimulus) == stimulus % (IF Width(m, port) < 4 THEN 2 ^ Width(m, port) ELSE 16)

\* The input vector of cycle k (from 0): every step follows four idle cycles.
Stimulus(m, c, k) ==
  [port \in DOMAIN c |->
     IF k % 5 = 4 /\ k < 30 THEN Masked(m, port, role_sequences[c[port]][1 + k \div 5]) ELSE 0]

\* What the simulation of m under the roles c prints.
Outputs(m, c) ==
  LET after[k \in 0 .. Cycles] ==
        IF k = 0 THEN Initially ELSE Cycle(m, after[k - 1], Stimulus(m, c, k - 1))
  IN  after[Cycles].shown

-----------------------------------------------------------------------------
(* The steps of the analysis. *)

\* Is another input as wide as the output?
DataAmbiguous(m) == \E p \in m.ports \ {"INPUT_DATA"} : Width(m, p) = m.data

\* The heuristic for an ambiguous data port: the first "] <= " followed by a letter is looked
\* for, and what follows must begin with an underscore.
heuristic_find_input_signal(m) == IF m.store = "] <= _01_;" THEN "none" ELSE "assertion"

byte_enable_candidates(m) ==
  IF m.data > 8 /\ m.data % 8 = 0
  THEN {p \in m.ports \ {"INPUT_DATA"} : Width(m, p) = m.data \div 8} ELSE {}

WidePorts(m) == {p \in m.ports \ {"INPUT_DATA"} : Width(m, p) >= 2}

\* A byte enable is set apart if only one port is as wide as one.
address_candidates(m) ==
  WidePorts(m) \ (IF Cardinality(byte_enable_candidates(m)) = 1 THEN byte_enable_candidates(m) ELSE {})

\* Mutant: two bits are enough to tell the probed addresses apart.
MinAddrWidthTwo == 2

MIN_ADDR_WIDTH == 3

\* Roles of a suitable size.
SuitableRoles(m, port) ==
  {role \in PortRole :
     LET width == Width(m, port)
     IN  CASE role = "INPUT_DATA" -> width = m.data
           [] role = "BYTE_ENABLE_SIGNAL" -> byte_enable_candidates(m) # {} /\ width = m.data \div 8
           [] role \in AddressRoles -> width >= MIN_ADDR_WIDTH
           [] role \in SingleBitRoles -> width = 1}

\* All permutations of suitable roles over some of the ports.
Permutations(m, ports) ==
  {c \in [ports -> UNION {SuitableRoles(m, p) : p \in ports}] :
     IsInjective(c) /\ \A p \in ports : c[p] \in SuitableRoles(m, p)}

Joined(wide, single) ==
  [p \in DOMAIN wide \cup DOMAIN single |-> IF p \in SingleBitRoles THEN single[p] ELSE wide[p]]

\* Ports that are candidates for both would get two roles each: two such ports take all four
\* wide roles, of which the next filter accepts no more than three.
Assignments(m) ==
  IF byte_enable_candidates(m) \cap address_candidates(m) # {} THEN {}
  ELSE {c \in {Joined(wide, single) : wide \in Permutations(m, m.ports \ SingleBitRoles),
                                      single \in Permutations(m, m.ports \cap SingleBitRoles)} :
          IsInjective(c)}

filter_candidate_roles(m) ==
  {c \in Assignments(m) :
     LET roles == Range(c)
     IN  /\ "INPUT_DATA" \in roles
         /\ roles \cap AddressRoles # {}
         /\ "COMBINED_ADDRESS_SIGNAL" \in roles =>
              roles \cap {"READ_ADDRESS_SIGNAL", "WRITE_ADDRESS_SIGNAL"} = {}
         /\ "READ_ADDRESS_SIGNAL" \in roles => "WRITE_ADDRESS_SIGNAL" \in roles}

seq_of_distinct_outputs(shown) ==
  LET changes == {k \in DOMAIN shown : k = 1 \/ shown[k] # shown[k - 1]}
  IN  [j \in 1 .. Cardinality(changes) |->
         shown[CHOOSE k \in changes : Cardinality({l \in changes : l <= k}) = j]]

\* Position of the first 2 after the first 3, less LATENCY_OFFSET.
Latency(shown) ==
  LET back == {k \in DOMAIN shown : shown[k] = 2 /\ \E l \in 1 .. k : shown[l] = 3}
  IN  (CHOOSE k \in back : \A l \in back : k <= l) - 10

\* Mutant: it is enough to see both words.
VerdictLax(m, c) ==
  [kind |-> IF {2, 3} \subseteq Range(Outputs(m, c)) THEN "primary" ELSE "no", latency |-> 1]

Verdict(m, c) ==
  LET shown == Outputs(m, c)
      distinct == seq_of_distinct_outputs(shown)
      kind == CASE distinct = <<2, 3, 2, 3>> -> "primary"
                [] distinct = <<2, 3, 2, 3, 2, 3>> -> "secondary"
                [] OTHER -> "no"
  IN  [kind |-> kind, latency |-> IF kind = "no" THEN 0 ELSE Latency(shown)]

\* Mutant: memories that show what they write are not expected.
SelectedPrimary == {c \in candidates : verdicts[c].kind = "primary"}

\* Secondary candidates count only if there is no primary one.
Selected ==
  LET primary == {c \in candidates : verdicts[c].kind = "primary"}
  IN  IF primary # {} THEN primary ELSE {c \in candidates : verdicts[c].kind = "secondary"}

Differing(c, d) == {p \in DOMAIN c : c[p] # d[p]}

\* ALL_PORT_ROLES: the order in which combinations of roles are enumerated.
Rank(role) ==
  CHOOSE k \in 1 .. 10 :
    role = <<"INPUT_DATA", "READ_ADDRESS_SIGNAL", "WRITE_ADDRESS_SIGNAL",
             "COMBINED_ADDRESS_SIGNAL", "BYTE_ENABLE_SIGNAL", "WRITE_ENABLE",
             "READ_ENABLE", "ENABLE", "WRITE_MASK", "WRITE_MODE">>[k]

\* May c come first?  Combinations are enumerated by rank; permutations of one combination
\* by the order in which the memory declares its ports, which may be any.
Earliest(c, among) ==
  \A d \in among :
    LET only(e, f) == Range(e) \ Range(f)
    IN  Range(c) = Range(d) \/ \E r \in only(c, d) : \A q \in only(d, c) : Rank(r) < Rank(q)

\* Mutant: the first candidate is taken, however many there are.
ArbitrateAlways ==
  /\ phase = "arbitrate"
  /\ \E c \in candidates : Earliest(c, candidates) /\ candidates' = {c}
  /\ outcome' = "roles"
  /\ phase' = "done"
  /\ UNCHANGED <<memory, verdicts>>

\* Mutant: a write mode is not taken for a write enable.
InterchangeableMask(c, d, p) ==
  {c[p], d[p]} = {"WRITE_ENABLE", "WRITE_MASK"} /\ Cardinality(Differing(c, d)) <= 2

\* Two candidates that confuse the write enable with the write mask or the write mode are
\* as good as one.  Only p, of the ports they differ in the one declared first, is compared.
Interchangeable(c, d, p) ==
  \/ {c[p], d[p]} = {"WRITE_ENABLE", "WRITE_MASK"} /\ Cardinality(Differing(c, d)) <= 2
  \/ {c[p], d[p]} = {"WRITE_ENABLE", "WRITE_MODE"} /\ Differing(c, d) = {p}

\* Mutant: the losing candidate is kept.
SettleKeeping(c) == outcome' = "roles" /\ UNCHANGED candidates

Settle(c) == candidates' = {c} /\ outcome' = "roles"

Fail == outcome' = "assertion" /\ UNCHANGED candidates

Arbitrate ==
  /\ phase = "arbitrate"
  /\ \/ Cardinality(candidates) > 2 /\ Fail
     \/ \E c \in candidates :
          /\ Earliest(c, candidates)
          /\ \/ candidates = {c} /\ Settle(c)
             \/ \E d \in candidates \ {c}, p \in DOMAIN c :
                  /\ candidates = {c, d} /\ p \in Differing(c, d)
                  /\ IF Interchangeable(c, d, p) THEN Settle(c) ELSE Fail
  /\ phase' = "done"
  /\ UNCHANGED <<memory, verdicts>>

-----------------------------------------------------------------------------
Init ==
  /\ memory \in Memories
  /\ phase = "enumerate"
  /\ candidates = {}
  /\ verdicts = <<>>
  /\ outcome = "open"

\* The data port must be clear from its width, and at most two other ports may have more than
\* one bit; a memory no assignment fits is skipped.
Enumerate ==
  /\ phase = "enumerate"
  /\ LET found == filter_candidate_roles(memory)
         verdict == CASE DataAmbiguous(memory) ->
                           IF heuristic_find_input_signal(memory) = "none" THEN "skipped" ELSE "assertion"
                      [] ~DataAmbiguous(memory) /\ Cardinality(WidePorts(memory)) > 2 -> "assertion"
                      [] OTHER -> IF found = {} THEN "skipped" ELSE "open"
     IN  /\ outcome' = verdict
         /\ candidates' = IF verdict = "open" THEN found ELSE {}
         /\ phase' = IF verdict = "open" THEN "simulate" ELSE "done"
  /\ UNCHANGED <<memory, verdicts>>

\* A pool of processes simulates the memory under every candidate.
Simulate ==
  /\ phase = "simulate"
  /\ verdicts' = [c \in candidates |-> Verdict(memory, c)]
  /\ phase' = "select"
  /\ UNCHANGED <<memory, candidates, outcome>>

Select ==
  /\ phase = "select"
  /\ candidates' = Selected
  /\ IF Cardinality({verdicts[c].latency : c \in Selected}) = 1
       THEN phase' = "arbitrate" /\ UNCHANGED outcome
       ELSE phase' = "done" /\ outcome' = "assertion"
  /\ UNCHANGED <<memory, verdicts>>

Next == Enumerate \/ Simulate \/ Select \/ Arbitrate

Spec == Init /\ [][Next]_vars

-----------------------------------------------------------------------------
(* Properties. *)

\* The analysis ends in one of its outcomes, and roles are returned only if exactly one
\* assignment is left ("There should be exactly one set of roles found").
TypeOK ==
  /\ memory \in Memories
  /\ phase \in {"enumerate", "simulate", "select", "arbitrate", "done"}
  /\ outcome \in {"open", "roles", "skipped", "assertion"}
  /\ outcome = "roles" => Cardinality(candidates) = 1

Chosen == CHOOSE c \in candidates : TRUE

\* The probe separates the wide ports: whatever else is confused, a candidate that passes
\* the simulation names the data, the byte enable and every address port correctly.
WidePortsTold ==
  phase \in {"arbitrate", "done"} =>
    \A c \in candidates : \A p \in DOMAIN c \ SingleBitRoles : c[p] = p

\* The probe never rejects the truth: a memory that has a write control of its own passes
\* the simulation under its true roles, whatever its read port shows in between.
TrueRolesPass ==
  /\ phase = "arbitrate" \/ (outcome = "assertion" /\ verdicts # <<>>)
  /\ memory.ports \cap {"WRITE_ENABLE", "WRITE_MODE"} # {}
  => [p \in memory.ports |-> p] \in candidates

\* The conditions the generated taint logic is built from, under the chosen roles.
RoleHigh(v, role) == \A p \in DOMAIN v : Chosen[p] = role => v[p] = 1
ShadowWrites(v) ==
  /\ RoleHigh(v, IF "WRITE_ENABLE" \in Range(Chosen) THEN "WRITE_ENABLE" ELSE "ENABLE")
  /\ RoleHigh(v, "WRITE_MASK")
  /\ RoleHigh(v, "WRITE_MODE")
ControlValues == [memory.ports \cap (SingleBitRoles \cup {"BYTE_ENABLE_SIGNAL"}) -> {0, 1}]

\* Roles found automatically serve the taint logic, even where they are not the true ones:
\* in every cycle in which the memory writes or reads, so does its shadow.
NoAccessMissed ==
  outcome = "roles" =>
    \A v \in ControlValues :
      /\ Writes(memory, v) => ShadowWrites(v)
      /\ Reads(memory, v) => RoleHigh(v, "ENABLE")

\* The comparison of widths passes over a memory exactly if a second input is as wide as its
\* data, an address has less than three bits, or two ports are as wide as a byte enable would
\* be; a memory that is refused for more than two wide ports, or simulated, is none of these.
Unfit(m) ==
  \/ \E p \in m.ports \ {"INPUT_DATA"} : Width(m, p) = m.data
  \/ m.address < 3 /\ Cardinality(m.ports \ SingleBitRoles) <= 3
  \/ /\ m.data > 8 /\ m.data % 8 = 0 /\ m.address = m.data \div 8
     /\ Cardinality(m.ports \ SingleBitRoles) = 3

PassedOver ==
  /\ outcome = "skipped" => Unfit(memory)
  /\ phase # "enumerate" /\ Unfit(memory) =>
       outcome = "skipped" \/ (outcome = "assertion" /\ verdicts = <<>>)

\* Memories with one port, a write control and at most an enable that gates it are not too
\* ambiguous for the analysis: their roles are found.
PlainMemoriesRecognised ==
  /\ phase = "done" /\ Combined(memory)
  /\ LET controls == memory.ports \cap SingleBitRoles
     IN  \/ controls \in {{"WRITE_ENABLE"}, {"ENABLE", "WRITE_MODE"}}
         \/ controls = {"ENABLE", "WRITE_ENABLE"} /\ memory.gated
  /\ ~Unfit(memory)
  => outcome = "roles"
=============================================================================
