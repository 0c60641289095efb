------------------------------ MODULE TestBench ------------------------------
(***************************************************************************)
(* A run of the openC910 test bench: the program is read from an ELF file  *)
(* (elfloader.cc) and copied into the memory (our_sram_mem.sv), the        *)
(* processor is reset, and the clock ticks until the program asks for the  *)
(* end or the simulation is long enough.  There are two benches around the *)
(* same memory: toplevel.cc with testbench.h for Verilator, and tb_top.sv  *)
(* with clk_rst_gen.sv.                                                    *)
(*                                                                         *)
(* A byte of the program is <<segment, offset>>, other bytes are <<>>.     *)
(***************************************************************************)
EXTENDS Integers, Sequences, FiniteSets, SequencesExt

CONSTANTS
  WidthBytes,         \* bytes of a memory word, 16 in the design
  Aw,                 \* bits of a word address, 21 in the design
  PreloadBufferSize,  \* bytes
  Addresses,          \* where segments may start
  MaxSegments,        \* bound: program headers of an ELF file
  MaxSize,            \* bound: bytes of a segment in memory
  Simlen,             \* the SIMLEN environment variable
  LEADTICKS,          \* ticks of SIMLEN that toplevel.cc does not run
  RUNMORETICKS,       \* RUNMORETICKS_AFTER_STOP, remaining_before_stop
  kResetLength,       \* ticks testbench.h holds the reset
  RST_CLK_CYCLES      \* edges clk_rst_gen.sv holds the reset, less one

\* The third conjunct follows from the second; provers know nothing of powers.
ASSUME SizeAssumption ==
  /\ WidthBytes \in Nat \ {0} /\ PreloadBufferSize \in Nat
  /\ Aw \in Nat
  /\ 2 ^ Aw \in Nat \ {0}
  /\ Addresses \subseteq Nat /\ MaxSegments \in Nat /\ MaxSize \in Nat
  /\ LEADTICKS \in Nat /\ Simlen \in Nat /\ Simlen > LEADTICKS
  /\ RUNMORETICKS \in Nat /\ kResetLength \in Nat \ {0} /\ RST_CLK_CYCLES \in Nat

VARIABLES
  bench,          \* "toplevel" or "tb_top"
  elf,            \* program headers of the file
  phase,          \* "read", "load", "reset", "run", "done" or "aborted"
  sections,       \* <<address, length>> of what is to be loaded
  mems,           \* address -> bytes of the file
  section_index,  \* sections handed out
  buffer,         \* what read_section has left in the buffer of the memory
  mem,            \* words of the memory, <<>> where nothing was written
  step_id,        \* ticks of the run, or of the reset before it
  got_stop_req,
  remaining_before_stop,
  requested       \* the tick that saw the stop request, -1 without one

loader == <<sections, mems, section_index, buffer>>
stop == <<got_stop_req, remaining_before_stop, requested>>
vars == <<bench, elf, phase, loader, mem, step_id, stop>>

-----------------------------------------------------------------------------
(* The program and the memory. *)

Segments == {s \in [paddr : Addresses, memsz : 0 .. MaxSize, filesz : 0 .. MaxSize] :
               s.filesz <= s.memsz}

Byte(k, offset) == <<k, offset>>
Unwritten == <<>>

Words == 0 .. 2 ^ Aw - 1
Lanes == 0 .. WidthBytes - 1

\* The word the processor reads a byte address from: mem_addr[24:4] for 21 bits.
WordOf(address) == (address \div WidthBytes) % 2 ^ Aw

\* A word that was never written reads as zero.
rdata(word) == IF word \in DOMAIN mem THEN mem[word] ELSE [j \in Lanes |-> Unwritten]

\* The memory after some words are written.
Overwritten(words) ==
  [w \in DOMAIN words \cup DOMAIN mem |-> IF w \in DOMAIN words THEN words[w] ELSE mem[w]]

Init ==
  /\ bench \in {"toplevel", "tb_top"}
  /\ \E n \in 1 .. MaxSegments : elf \in [1 .. n -> Segments]
  /\ phase = "read"
  /\ sections = <<>>
  /\ mems = <<>>
  /\ section_index = 0
  /\ buffer = [b \in 0 .. PreloadBufferSize - 1 |-> Unwritten]
  /\ mem = [w \in {} |-> <<>>]
  /\ step_id = 0
  /\ got_stop_req = FALSE
  /\ remaining_before_stop = RUNMORETICKS
  /\ requested = -1

-----------------------------------------------------------------------------
(* Loading. *)

Filled == {k \in DOMAIN elf : elf[k].memsz # 0 /\ elf[k].filesz # 0}

\* How many segments with bytes the file lists up to one of them.
Place(k) == Cardinality({j \in Filled : j <= k})

FileOrder == [i \in 1 .. Cardinality(Filled) |-> CHOOSE k \in Filled : Place(k) = i]

\* read_elf: segments with bytes in the file; of two at one address the map keeps the first.
read_elf ==
  /\ phase = "read"
  /\ LET order == FileOrder
         First(address) == CHOOSE k \in Filled :
           elf[k].paddr = address /\ \A j \in Filled : elf[j].paddr = address => k <= j
     IN  /\ sections' = [i \in DOMAIN order |-> <<elf[order[i]].paddr, elf[order[i]].memsz>>]
         /\ mems' = [address \in {elf[k].paddr : k \in Filled} |->
                       [b \in 1 .. elf[First(address)].filesz |-> Byte(First(address), b - 1)]]
  /\ phase' = "load"
  /\ UNCHANGED <<bench, elf, section_index, buffer, mem, step_id, stop>>

\* Mutant: a word that is filled only in part is not counted.
NumWordsDown(len) == len \div WidthBytes

NumWords(len) == (len + WidthBytes - 1) \div WidthBytes

\* read_section overwrites the front of the buffer.
read_section(address) ==
  [b \in DOMAIN buffer |-> IF b < Len(mems[address]) THEN mems[address][b + 1] ELSE buffer[b]]

\* The byte address is cut to the bits of a word address before it is divided.
FirstWord(address) == (address % 2 ^ Aw) \div WidthBytes

\* Mutant: the section is not counted as handed out.
get_section_again == UNCHANGED section_index

get_section == section_index' = section_index + 1

\* get_section, read_section and the copy of the buffer, word by word.
LoadSection ==
  /\ phase = "load" /\ section_index < Len(sections)
  /\ get_section
  /\ LET address == sections[section_index + 1][1]
         num_words == NumWords(sections[section_index + 1][2])
     IN  IF num_words * WidthBytes > PreloadBufferSize
         THEN phase' = "aborted" /\ UNCHANGED <<buffer, mem>>
         ELSE /\ buffer' = read_section(address)
              /\ mem' = Overwritten([i \in FirstWord(address) .. FirstWord(address) + num_words - 1 |->
                           [j \in Lanes |-> buffer'[(i - FirstWord(address)) * WidthBytes + j]]])
              /\ UNCHANGED phase
  /\ UNCHANGED <<bench, elf, sections, mems, step_id, stop>>

LoadDone ==
  /\ phase = "load" /\ section_index = Len(sections)
  /\ phase' = "reset"
  /\ UNCHANGED <<bench, elf, loader, mem, step_id, stop>>

-----------------------------------------------------------------------------
(* Reset and run. *)

\* What the processor does in one tick: nothing the bench sees, or a write.
NoRequest == -1
Requests == {NoRequest} \cup (Words \cap 0 .. 1)

\* Memory word after a write; the bytes the processor writes are those of no segment.
Written(request) ==
  IF request = NoRequest THEN mem ELSE Overwritten([w \in {request} |-> [j \in Lanes |-> Byte(0, 0)]])

\* One tick with the reset released, then the reset; or the reset from the start.
ResetTicks == IF bench = "toplevel" THEN 1 + kResetLength ELSE RST_CLK_CYCLES + 1

\* Requests are not looked at before the reset is over.
ResetTick ==
  /\ phase = "reset"
  /\ phase' = IF step_id = ResetTicks - 1 THEN "run" ELSE "reset"
  /\ step_id' = IF step_id = ResetTicks - 1 THEN 0 ELSE step_id + 1
  /\ UNCHANGED <<bench, elf, loader, mem, stop>>

\* How long the loop runs without a stop request.
Limit == IF bench = "toplevel" THEN Simlen - LEADTICKS ELSE Simlen

\* Mutant: the counter is decremented before it is compared.
StopNowEarly(got) == got /\ remaining_before_stop - 1 = 0

\* if (got_stop_req) if (remaining_before_stop-- == 0) break;
StopNow(got) == got /\ remaining_before_stop = 0

\* Mutant: the last tick is one too late.
LastTickLate == step_id = Limit

LastTick == step_id = Limit - 1

\* A write to word 0 is the stop request; it is counted down from the tick that sees it.
Tick ==
  /\ phase = "run"
  /\ \E request \in Requests :
       LET got == got_stop_req \/ request = 0
       IN  /\ mem' = Written(request)
           /\ got_stop_req' = got
           /\ requested' = IF got /\ ~got_stop_req THEN step_id ELSE requested
           /\ remaining_before_stop' = IF got THEN remaining_before_stop - 1 ELSE remaining_before_stop
           /\ phase' = IF StopNow(got) \/ LastTick THEN "done" ELSE "run"
  /\ step_id' = step_id + 1
  /\ UNCHANGED <<bench, elf, loader>>

Next == read_elf \/ LoadSection \/ LoadDone \/ ResetTick \/ Tick

\* The bench is one program that waits for nobody.
Spec == Init /\ [][Next]_vars /\ WF_vars(Next)

-----------------------------------------------------------------------------
(* Properties. *)

\* Counters stay where the code means them to be; in particular no tick follows the last.
TypeOK ==
  /\ phase \in {"read", "load", "reset", "run", "done", "aborted"}
  /\ section_index \in 0 .. Len(sections)
  /\ DOMAIN mems = {s[1] : s \in ToSet(sections)}
  /\ phase \in {"run", "done"} => step_id \in 0 .. Limit
  /\ remaining_before_stop \in -1 .. RUNMORETICKS
  /\ got_stop_req <=> requested # -1

\* What the linker laid out: the bytes of the file at their addresses, zeros elsewhere.
Linked(address) ==
  LET at == {k \in Filled : address \in elf[k].paddr .. elf[k].paddr + elf[k].filesz - 1}
  IN  IF at = {} THEN Unwritten
      ELSE LET k == CHOOSE k \in at : TRUE IN Byte(k, address - elf[k].paddr)

\* Files the loader is right for: segments start at words in the first 2 ^ Aw bytes, do not
\* share words, fit, and never follow one with more bytes in the file, unless they have no
\* bytes beyond those in the file.
Loadable ==
  /\ \A k \in Filled :
       /\ elf[k].paddr % WidthBytes = 0
       /\ elf[k].paddr < 2 ^ Aw
       /\ NumWords(elf[k].memsz) * WidthBytes <= PreloadBufferSize
       /\ elf[k].paddr + elf[k].memsz <= WidthBytes * 2 ^ Aw
  /\ \A j, k \in Filled :
       j < k =>
         /\ \/ elf[j].paddr + NumWords(elf[j].memsz) * WidthBytes <= elf[k].paddr
            \/ elf[k].paddr + NumWords(elf[k].memsz) * WidthBytes <= elf[j].paddr
         /\ \/ elf[j].filesz <= elf[k].filesz
            \/ elf[k].filesz = NumWords(elf[k].memsz) * WidthBytes

\* When the reset begins, every byte is where the processor fetches it from, and what the
\* file does not give is zero, although the buffer is never cleared between sections.
LoadedAsLinked ==
  phase = "reset" /\ Loadable =>
    \A address \in 0 .. WidthBytes * 2 ^ Aw - 1 :
      rdata(WordOf(address))[address % WidthBytes] = Linked(address)

\* "Stopping the benchmark after 50 more ticks": a run takes exactly that many ticks after
\* the first request, whatever is requested later, and SIMLEN ends it if that comes first.
RunLength ==
  phase = "done" =>
    step_id = IF requested # -1 /\ requested + 1 + RUNMORETICKS < Limit
              THEN requested + 1 + RUNMORETICKS ELSE Limit

\* Every run ends, even if the program never asks for it.
RunEnds == <>(phase \in {"done", "aborted"})
=============================================================================
