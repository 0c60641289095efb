-------------------------- MODULE TestBenchProofs --------------------------
(***************************************************************************)
(* Proofs about a run of the test bench, for every memory, every program,  *)
(* every SIMLEN and every number of further ticks: how long a run takes,   *)
(* and that the loader puts every byte where the processor reads it.       *)
(***************************************************************************)
EXTENDS TestBench, NumberLemmas

-----------------------------------------------------------------------------
(* The length of a run. *)

\* Before the run nothing was requested; the counter of the reset stays below its length.
BeforeRun ==
  /\ phase \in {"read", "load", "reset", "aborted"} => ~got_stop_req
  /\ phase \in {"read", "load", "aborted"} => step_id = 0
  /\ phase = "reset" => step_id \in 0 .. ResetTicks - 1

\* Until a request is seen the counter is untouched; from then on it counts the ticks.
CountedDown ==
  /\ ~got_stop_req => requested = -1 /\ remaining_before_stop = RUNMORETICKS
  /\ phase = "run" => step_id \in 0 .. Limit - 1
  /\ phase = "run" /\ got_stop_req =>
       /\ requested \in 0 .. step_id - 1
       /\ remaining_before_stop = RUNMORETICKS - (step_id - requested)
       /\ remaining_before_stop \in Nat

\* When the run is over the request, if there was one, is past and the counter is no further
\* below zero than by the decrement of the last tick.
Finished ==
  phase = "done" =>
    /\ step_id \in 0 .. Limit
    /\ got_stop_req => requested \in Nat /\ remaining_before_stop \in -1 .. RUNMORETICKS

IInv ==
  /\ bench \in {"toplevel", "tb_top"}
  /\ phase \in {"read", "load", "reset", "run", "done", "aborted"}
  /\ got_stop_req \in BOOLEAN
  /\ BeforeRun
  /\ CountedDown
  /\ Finished
  /\ RunLength

\* Both benches hold the reset for a tick and run for a tick at least.
LEMMA Lengths ==
  ASSUME bench \in {"toplevel", "tb_top"}
  PROVE  /\ Limit \in Nat \ {0} /\ ResetTicks \in Nat \ {0}
         /\ RUNMORETICKS \in Nat
  BY SizeAssumption DEF Limit, ResetTicks

LEMMA InitIInv == Init => IInv
  BY DEF Init, IInv, BeforeRun, CountedDown, Finished, RunLength

\* Reading and loading leave the counters alone.
LEMMA LoadingKeeps ==
  ASSUME IInv, read_elf \/ LoadSection \/ LoadDone
  PROVE  IInv'
<1>1. /\ UNCHANGED <<bench, step_id, stop>>
      /\ phase \in {"read", "load"} /\ phase' \in {"load", "reset", "aborted"}
  BY DEF read_elf, LoadSection, LoadDone
<1>2. got_stop_req = FALSE /\ got_stop_req' = FALSE /\ step_id' = 0
  BY <1>1 DEF IInv, BeforeRun, stop
<1>3. ResetTicks' = ResetTicks /\ ResetTicks \in Nat \ {0}
  BY <1>1, Lengths DEF IInv, ResetTicks
<1>4. BeforeRun'
  BY <1>1, <1>2, <1>3 DEF BeforeRun
<1>5. CountedDown'
  BY <1>1, <1>2 DEF IInv, CountedDown, stop
<1>6. RunLength' /\ Finished'
  BY <1>1 DEF RunLength, Finished
<1>7. QED
  BY <1>1, <1>2, <1>4, <1>5, <1>6 DEF IInv

\* The run begins with its first tick.
LEMMA ResetTickKeeps ==
  ASSUME IInv, ResetTick
  PROVE  IInv'
<1>1. /\ phase = "reset" /\ phase' \in {"reset", "run"}
      /\ UNCHANGED <<bench, stop>>
      /\ phase' = "run" => step_id' = 0
      /\ phase' = "reset" => step_id # ResetTicks - 1 /\ step_id' = step_id + 1
  BY DEF ResetTick
<1>2. got_stop_req = FALSE /\ got_stop_req' = FALSE /\ step_id \in 0 .. ResetTicks - 1
  BY <1>1 DEF IInv, BeforeRun, stop
<1>3. /\ Limit' = Limit /\ Limit \in Nat \ {0}
      /\ ResetTicks' = ResetTicks /\ ResetTicks \in Nat \ {0}
  BY <1>1, Lengths DEF IInv, Limit, ResetTicks
<1>4. BeforeRun'
  BY <1>1, <1>2, <1>3 DEF BeforeRun
<1>5. CountedDown'
  BY <1>1, <1>2, <1>3 DEF IInv, CountedDown, stop
<1>6. RunLength' /\ Finished'
  BY <1>1 DEF RunLength, Finished
<1>7. QED
  BY <1>1, <1>2, <1>4, <1>5, <1>6 DEF IInv, stop

\* A tick sees the first request, counts down after it, or neither.
LEMMA TickKeeps ==
  ASSUME IInv, Tick
  PROVE  IInv'
<1>1. PICK request \in Requests :
        LET got == got_stop_req \/ request = 0
        IN  /\ got_stop_req' = got
            /\ requested' = IF got /\ ~got_stop_req THEN step_id ELSE requested
            /\ remaining_before_stop' = IF got THEN remaining_before_stop - 1 ELSE remaining_before_stop
            /\ phase' = IF StopNow(got) \/ LastTick THEN "done" ELSE "run"
  BY DEF Tick
<1> DEFINE got == got_stop_req \/ request = 0
<1>2. /\ phase = "run" /\ bench' = bench /\ step_id' = step_id + 1
      /\ got_stop_req \in BOOLEAN /\ got \in BOOLEAN
  BY DEF Tick, IInv
<1>3. /\ Limit' = Limit /\ Limit \in Nat \ {0} /\ RUNMORETICKS \in Nat
      /\ step_id \in 0 .. Limit - 1
  BY <1>2, Lengths DEF IInv, Limit, CountedDown
<1>4. CASE ~got
  <2>1. /\ got_stop_req = FALSE /\ got_stop_req' = FALSE
        /\ requested' = -1 /\ remaining_before_stop' = RUNMORETICKS
        /\ phase' = IF LastTick THEN "done" ELSE "run"
    BY <1>1, <1>2, <1>4 DEF IInv, CountedDown, StopNow
  <2>2. CountedDown'
    BY <1>2, <1>3, <2>1 DEF CountedDown, LastTick
  <2>3. RunLength' /\ Finished'
    BY <1>2, <1>3, <2>1 DEF RunLength, Finished, LastTick
  <2>4. QED
    BY <1>2, <2>1, <2>2, <2>3 DEF IInv, BeforeRun
<1>5. CASE got
  <2>1. /\ requested' \in 0 .. step_id
        /\ remaining_before_stop = RUNMORETICKS - (step_id - requested')
        /\ remaining_before_stop \in Nat
    <3>1. CASE got_stop_req
      <4>1. requested' = requested
        BY <1>1, <3>1
      <4>2. QED
        BY <1>2, <1>3, <3>1, <4>1 DEF IInv, CountedDown
    <3>2. CASE ~got_stop_req
      <4>1. requested' = step_id
        BY <1>1, <1>5, <3>2
      <4>2. QED
        BY <1>3, <3>2, <4>1 DEF IInv, CountedDown
    <3>3. QED
      BY <3>1, <3>2
  <2>2. /\ got_stop_req' = TRUE /\ remaining_before_stop' = remaining_before_stop - 1
        /\ phase' = IF remaining_before_stop = 0 \/ LastTick THEN "done" ELSE "run"
    BY <1>1, <1>2, <1>5 DEF StopNow
  <2>3. CountedDown'
    <3>1. phase' = "run" => step_id' \in 0 .. Limit' - 1 /\ remaining_before_stop # 0
      BY <1>2, <1>3, <2>2 DEF LastTick
    <3>2. remaining_before_stop' = RUNMORETICKS - (step_id' - requested')
      BY <1>2, <1>3, <2>1, <2>2
    <3>3. requested' \in 0 .. step_id' - 1
      BY <1>2, <1>3, <2>1
    <3>4. remaining_before_stop # 0 => remaining_before_stop' \in Nat
      <4>1. remaining_before_stop' = remaining_before_stop - 1
        BY <2>2
      <4>2. remaining_before_stop # 0 => remaining_before_stop - 1 \in Nat
        BY <2>1
      <4>3. QED
        BY <4>1, <4>2
    <3>5. got_stop_req'
      BY <2>2
    <3>6. QED
      BY <3>1, <3>2, <3>3, <3>4, <3>5 DEF CountedDown
  <2>4. RunLength'
    <3> SUFFICES ASSUME phase' = "done"
                 PROVE  step_id' = IF requested' # -1 /\ requested' + 1 + RUNMORETICKS < Limit'
                                   THEN requested' + 1 + RUNMORETICKS ELSE Limit'
      BY DEF RunLength
    <3>1. /\ step_id' \in 1 .. Limit' /\ requested' \in Nat /\ Limit' \in Nat
      BY <1>2, <1>3, <2>1
    <3>2. remaining_before_stop + step_id' = requested' + 1 + RUNMORETICKS
      BY <1>2, <1>3, <2>1
    <3>3. step_id' = Limit' \/ remaining_before_stop = 0
      BY <1>2, <1>3, <2>2 DEF LastTick
    <3>4. CASE remaining_before_stop = 0
      BY <3>1, <3>2, <3>4
    <3>5. CASE step_id' = Limit'
      <4>1. remaining_before_stop \in Nat
        BY <2>1
      <4>2. remaining_before_stop + Limit' = requested' + 1 + RUNMORETICKS
        BY <3>2, <3>5
      <4>3. requested' + 1 + RUNMORETICKS \in Int /\ remaining_before_stop + Limit' >= Limit'
        BY <1>3, <3>1, <4>1
      <4>4. ~(requested' + 1 + RUNMORETICKS < Limit')
        BY <3>1, <4>2, <4>3
      <4>5. QED
        BY <3>5, <4>4
    <3>6. QED
      BY <3>3, <3>4, <3>5
  <2>5. Finished'
    <3>1. requested' \in Nat /\ step_id' \in 0 .. Limit'
      BY <1>2, <1>3, <2>1
    <3>2. remaining_before_stop \in 0 .. RUNMORETICKS
      <4>1. ASSUME NEW r \in 0 .. step_id PROVE RUNMORETICKS - (step_id - r) <= RUNMORETICKS
        BY <1>3
      <4>2. remaining_before_stop \in Nat /\ remaining_before_stop <= RUNMORETICKS
        BY <2>1, <4>1
      <4>3. QED
        BY <1>3, <4>2
    <3>3. remaining_before_stop' \in -1 .. RUNMORETICKS
      <4>1. remaining_before_stop' = remaining_before_stop - 1
        BY <2>2
      <4>2. QED
        BY <1>3, <3>2, <4>1
    <3>4. QED
      BY <3>1, <3>3 DEF Finished
  <2>6. QED
    BY <1>2, <2>2, <2>3, <2>4, <2>5 DEF IInv, BeforeRun
<1>6. QED
  BY <1>2, <1>4, <1>5

\* Every step keeps the invariant.
LEMMA StepIInv == IInv /\ [Next]_vars => IInv'
<1> SUFFICES ASSUME IInv, [Next]_vars PROVE IInv'
  OBVIOUS
<1>1. CASE read_elf \/ LoadSection \/ LoadDone
  BY <1>1, LoadingKeeps
<1>2. CASE ResetTick
  BY <1>2, ResetTickKeeps
<1>3. CASE Tick
  BY <1>3, TickKeeps
<1>4. CASE UNCHANGED vars
  BY <1>4 DEF vars, stop, IInv, BeforeRun, CountedDown, Finished, RunLength, Limit, ResetTicks
<1>5. QED
  BY <1>1, <1>2, <1>3, <1>4 DEF Next

\* "Stopping the benchmark after 50 more ticks", and no later than SIMLEN: a finished run took
\* exactly the ticks it should, whenever the program asked for the end and however often.
THEOREM ExactRunLength == Spec => []RunLength
<1>1. Init => IInv
  BY InitIInv
<1>2. IInv /\ [Next]_vars => IInv'
  BY StepIInv
<1>3. IInv => RunLength
  BY DEF IInv
<1>4. QED
  BY <1>1, <1>2, <1>3, PTL DEF Spec

\* A counter that went below zero would no longer stop the run: while the bench ticks, the
\* count of the ticks left is between zero and its start, and the tick is one of the run.
StopCounterBounded ==
  phase = "run" => remaining_before_stop \in 0 .. RUNMORETICKS /\ step_id < Limit

THEOREM StopCounterNeverPasses == Spec => []StopCounterBounded
<1>1. Init => IInv
  BY InitIInv
<1>2. IInv /\ [Next]_vars => IInv'
  BY StepIInv
<1>3. IInv => StopCounterBounded
  <2> SUFFICES ASSUME IInv, phase = "run"
               PROVE  remaining_before_stop \in 0 .. RUNMORETICKS /\ step_id < Limit
    BY DEF StopCounterBounded
  <2>1. Limit \in Nat \ {0} /\ RUNMORETICKS \in Nat
    BY Lengths DEF IInv
  <2>2. QED
    BY <2>1 DEF IInv, CountedDown
<1>4. QED
  BY <1>1, <1>2, <1>3, PTL DEF Spec

-----------------------------------------------------------------------------
(* Loading. *)

\* The file, with at most as many segments as it may have.
Elf == \E n \in 1 .. MaxSegments : elf \in [1 .. n -> Segments]

\* The loader was given every segment with bytes in the file, in the order of the file.
Listed ==
  IF phase = "read" THEN sections = <<>> /\ mems = <<>> /\ section_index = 0
  ELSE /\ sections = [i \in 1 .. Cardinality(Filled) |->
                        <<elf[FileOrder[i]].paddr, elf[FileOrder[i]].memsz>>]
       /\ DOMAIN mems = {elf[k].paddr : k \in Filled}
       /\ section_index \in 0 .. Cardinality(Filled)
       /\ phase \in {"reset", "run", "done"} => section_index = Cardinality(Filled)

\* Of a loadable file no two segments begin at one address, and the map has the bytes of each.
Mapped ==
  phase = "load" =>
    \A k \in Filled : mems[elf[k].paddr] = [b \in 1 .. elf[k].filesz |-> Byte(k, b - 1)]

\* Beyond the longest of the sections read so far the buffer is as it was at the start.
BufferClean ==
  /\ DOMAIN buffer = 0 .. PreloadBufferSize - 1
  /\ phase \in {"read", "load"} =>
       \A b \in DOMAIN buffer :
         (\A i \in 1 .. section_index : elf[FileOrder[i]].filesz <= b) => buffer[b] = Unwritten

SectionWords(k) == FirstWord(elf[k].paddr) .. FirstWord(elf[k].paddr) + NumWords(elf[k].memsz) - 1

Image(k, w) ==
  [j \in Lanes |-> LET offset == (w - FirstWord(elf[k].paddr)) * WidthBytes + j
                   IN IF offset < elf[k].filesz THEN Byte(k, offset) ELSE Unwritten]

\* The memory has the words of the sections handed out, each as the file gives it.
Copied ==
  phase \in {"read", "load", "reset"} =>
    /\ DOMAIN mem = UNION {SectionWords(FileOrder[i]) : i \in 1 .. section_index}
    /\ \A i \in 1 .. section_index : \A w \in SectionWords(FileOrder[i]) :
         mem[w] = Image(FileOrder[i], w)

LoadInv ==
  /\ Elf
  /\ Listed
  /\ Loadable => Mapped /\ BufferClean /\ Copied

LEMMA FilledSegments ==
  ASSUME Elf
  PROVE  /\ Filled \in SUBSET Nat /\ IsFiniteSet(Filled)
         /\ \A k \in Filled :
              /\ elf[k].paddr \in Nat
              /\ elf[k].memsz \in Nat \ {0} /\ elf[k].filesz \in Nat \ {0}
              /\ elf[k].filesz <= elf[k].memsz
<1>1. PICK n \in 1 .. MaxSegments : elf \in [1 .. n -> Segments]
  BY DEF Elf
<1>2. n \in Nat /\ 1 \in Int /\ n \in Int
  BY SizeAssumption
<1>3. Filled \in SUBSET (1 .. n)
  BY <1>1 DEF Filled
<1>4. IsFiniteSet(1 .. n)
  BY <1>2, FS_Interval
<1>5. IsFiniteSet(Filled)
  BY <1>3, <1>4, FS_Subset
<1>6. ASSUME NEW k \in Filled
      PROVE  /\ elf[k].paddr \in Nat
             /\ elf[k].memsz \in Nat \ {0} /\ elf[k].filesz \in Nat \ {0}
             /\ elf[k].filesz <= elf[k].memsz
  <2>1. elf[k] \in Segments /\ elf[k].memsz # 0 /\ elf[k].filesz # 0
    BY <1>1, <1>3 DEF Filled
  <2>2. /\ elf[k].paddr \in Addresses
        /\ elf[k].memsz \in 0 .. MaxSize /\ elf[k].filesz \in 0 .. MaxSize
        /\ elf[k].filesz <= elf[k].memsz
    BY <2>1 DEF Segments
  <2>3. Addresses \subseteq Nat /\ MaxSize \in Nat
    BY SizeAssumption
  <2>4. elf[k].memsz # 0 /\ elf[k].filesz # 0
    BY <2>1
  <2>5. elf[k].memsz \in Nat \ {0} /\ elf[k].filesz \in Nat \ {0}
    BY <2>2, <2>3, <2>4
  <2>6. QED
    BY <2>2, <2>3, <2>5
<1>7. QED
  BY <1>2, <1>3, <1>5, <1>6

\* FileOrder lists every segment that has bytes, once, in the order of the file.
LEMMA FileOrderIsOrder ==
  ASSUME Elf
  PROVE  /\ Cardinality(Filled) \in Nat
         /\ \A i \in 1 .. Cardinality(Filled) : FileOrder[i] \in Filled
         /\ \A i, j \in 1 .. Cardinality(Filled) : i < j => FileOrder[i] < FileOrder[j]
         /\ \A k \in Filled : \E i \in 1 .. Cardinality(Filled) : FileOrder[i] = k
<1>1. /\ Cardinality(Filled) \in Nat
      /\ \A k \in Filled : Place(k) \in 1 .. Cardinality(Filled)
      /\ \A j, k \in Filled : j < k => Place(j) < Place(k)
      /\ \A i \in 1 .. Cardinality(Filled) : \E k \in Filled : Place(k) = i
  BY FilledSegments, Ranks DEF Place
<1>2. \A i \in 1 .. Cardinality(Filled) : FileOrder[i] \in Filled /\ Place(FileOrder[i]) = i
  BY <1>1 DEF FileOrder
<1>3. \A k \in Filled : k \in Nat /\ Place(k) \in Nat
  BY <1>1, FilledSegments
<1>4. ASSUME NEW i \in 1 .. Cardinality(Filled), NEW j \in 1 .. Cardinality(Filled), i < j
      PROVE  FileOrder[i] < FileOrder[j]
  <2>1. ~(FileOrder[j] < FileOrder[i]) /\ FileOrder[i] # FileOrder[j]
    BY <1>1, <1>2, <1>4
  <2>2. FileOrder[i] \in Nat /\ FileOrder[j] \in Nat
    BY <1>2, <1>3
  <2>3. QED
    BY <2>1, <2>2
<1>5. ASSUME NEW k \in Filled
      PROVE  FileOrder[Place(k)] = k
  <2>1. /\ Place(k) \in 1 .. Cardinality(Filled)
        /\ FileOrder[Place(k)] \in Filled /\ Place(FileOrder[Place(k)]) = Place(k)
    BY <1>1, <1>2
  <2>2. ~(FileOrder[Place(k)] < k) /\ ~(k < FileOrder[Place(k)])
    BY <1>1, <1>3, <2>1
  <2>3. QED
    BY <1>3, <2>1, <2>2
<1>6. QED
  BY <1>1, <1>2, <1>4, <1>5

\* The words of a segment of a loadable file begin where it does and have room for it.
LEMMA SectionFits ==
  ASSUME Elf, Loadable, NEW k \in Filled
  PROVE  /\ FirstWord(elf[k].paddr) \in Nat
         /\ elf[k].paddr = WidthBytes * FirstWord(elf[k].paddr)
         /\ NumWords(elf[k].memsz) \in Nat \ {0}
         /\ elf[k].memsz <= WidthBytes * NumWords(elf[k].memsz)
         /\ WidthBytes * NumWords(elf[k].memsz) <= PreloadBufferSize
<1> DEFINE paddr == elf[k].paddr
           memsz == elf[k].memsz
           depth == 2 ^ Aw
           total == memsz + WidthBytes - 1
<1>1. /\ WidthBytes \in Nat \ {0} /\ depth \in Nat \ {0} /\ PreloadBufferSize \in Nat
      /\ paddr \in Nat /\ memsz \in Nat \ {0}
      /\ paddr % WidthBytes = 0 /\ paddr < depth
      /\ NumWords(memsz) * WidthBytes <= PreloadBufferSize
  BY SizeAssumption, FilledSegments DEF Loadable
<1>2. FirstWord(paddr) = (paddr % depth) \div WidthBytes /\ NumWords(memsz) = total \div WidthBytes
  BY DEF FirstWord, NumWords
<1>3. total \in Nat /\ total = memsz + WidthBytes - 1
  BY <1>1
<1> HIDE DEF paddr, memsz, depth, total
<1>4. paddr % depth = paddr
  BY <1>1, ModUnique, paddr = depth * 0 + paddr
<1>5. paddr = WidthBytes * (paddr \div WidthBytes) + (paddr % WidthBytes) /\ paddr \div WidthBytes \in Nat
  BY <1>1, DivMod
<1>6. /\ total = WidthBytes * (total \div WidthBytes) + (total % WidthBytes)
      /\ total \div WidthBytes \in Nat /\ total % WidthBytes \in 0 .. WidthBytes - 1
  BY <1>1, <1>3, DivMod
<1>7. memsz <= WidthBytes * NumWords(memsz) /\ NumWords(memsz) \in Nat
  BY <1>1, <1>2, <1>3, <1>6
<1>8. NumWords(memsz) # 0
  BY <1>1, <1>7
<1>9. FirstWord(paddr) \in Nat /\ paddr = WidthBytes * FirstWord(paddr)
  BY <1>1, <1>2, <1>4, <1>5
<1>10. WidthBytes * NumWords(memsz) <= PreloadBufferSize
  BY <1>1, <1>7
<1>11. QED
  BY <1>7, <1>8, <1>9, <1>10 DEF paddr, memsz

\* Segments of a loadable file begin at different addresses and share no word.
LEMMA SectionsApart ==
  ASSUME Elf, Loadable, NEW j \in Filled, NEW k \in Filled, j # k
  PROVE  elf[j].paddr # elf[k].paddr /\ SectionWords(j) \cap SectionWords(k) = {}
<1> DEFINE Apart(a, b) == elf[a].paddr + NumWords(elf[a].memsz) * WidthBytes <= elf[b].paddr
<1>1. Apart(j, k) \/ Apart(k, j)
  <2>1. j \in Nat /\ k \in Nat
    BY FilledSegments
  <2>2. j < k \/ k < j
    BY <2>1
  <2>3. QED
    BY <2>2 DEF Loadable
<1>2. ASSUME NEW a \in Filled, NEW b \in Filled, Apart(a, b)
      PROVE  elf[a].paddr # elf[b].paddr /\ SectionWords(a) \cap SectionWords(b) = {}
  <2> DEFINE fa == FirstWord(elf[a].paddr)
             fb == FirstWord(elf[b].paddr)
             na == NumWords(elf[a].memsz)
  <2>1. /\ fa \in Nat /\ fb \in Nat /\ na \in Nat \ {0} /\ WidthBytes \in Nat \ {0}
        /\ elf[a].paddr = WidthBytes * fa /\ elf[b].paddr = WidthBytes * fb
    BY SectionFits, SizeAssumption
  <2>2. elf[a].paddr + na * WidthBytes <= elf[b].paddr
    BY <1>2
  <2> HIDE DEF fa, fb, na
  <2>3. WidthBytes * (fa + na) <= WidthBytes * fb
    BY <2>1, <2>2
  <2>4. fa + na \in Int /\ fb \in Int
    BY <2>1
  <2>5. fa + na <= fb
    BY <2>1, <2>3, <2>4, Cancel
  <2>6. fa # fb
    BY <2>1, <2>5
  <2>7. elf[a].paddr # elf[b].paddr
    BY <2>6 DEF fa, fb
  <2>8. (fa .. fa + na - 1) \cap SectionWords(b) = {}
    BY <2>1, <2>5 DEF SectionWords, fb
  <2>9. QED
    BY <2>7, <2>8 DEF SectionWords, fa, na
<1>3. CASE Apart(j, k)
  BY <1>2, <1>3
<1>4. CASE Apart(k, j)
  <2>1. elf[k].paddr # elf[j].paddr /\ SectionWords(k) \cap SectionWords(j) = {}
    BY <1>2, <1>4
  <2>2. QED
    BY <2>1
<1>5. QED
  BY <1>1, <1>3, <1>4

LEMMA SameFile ==
  ASSUME elf' = elf
  PROVE  /\ Filled' = Filled /\ FileOrder' = FileOrder /\ Elf' = Elf /\ Loadable' = Loadable
         /\ \A k : SectionWords(k)' = SectionWords(k)
         /\ \A k, w : Image(k, w)' = Image(k, w)
  BY DEF Filled, FileOrder, Place, Elf, Loadable, SectionWords, Image

LEMMA InitLoadInv == Init => LoadInv
<1> SUFFICES ASSUME Init PROVE LoadInv
  OBVIOUS
<1>1. section_index = 0 /\ phase = "read" /\ 1 .. section_index = {}
  BY DEF Init
<1>2. Elf
  BY DEF Init, Elf
<1>3. Listed
  BY DEF Init, Listed
<1>4. Mapped /\ BufferClean
  BY DEF Init, Mapped, BufferClean
<1>5. Copied
  BY <1>1 DEF Init, Copied
<1>6. QED
  BY <1>2, <1>3, <1>4, <1>5 DEF LoadInv

\* read_elf lists the segments and, where no two of them begin together, keeps the bytes of all.
LEMMA ReadElfLoads ==
  ASSUME LoadInv, read_elf
  PROVE  LoadInv'
<1>1. /\ phase = "read" /\ phase' = "load" /\ elf' = elf
      /\ UNCHANGED <<section_index, buffer, mem>> /\ section_index = 0
  BY DEF read_elf, LoadInv, Listed
<1>2. /\ Filled' = Filled /\ FileOrder' = FileOrder /\ Elf' /\ Loadable' = Loadable
      /\ \A k : SectionWords(k)' = SectionWords(k)
      /\ \A k, w : Image(k, w)' = Image(k, w)
  BY <1>1, SameFile DEF LoadInv
<1> DEFINE N == Cardinality(Filled)
           First(address) == CHOOSE k \in Filled :
             elf[k].paddr = address /\ \A j \in Filled : elf[j].paddr = address => k <= j
<1>3. /\ sections' = [i \in DOMAIN FileOrder |-> <<elf[FileOrder[i]].paddr, elf[FileOrder[i]].memsz>>]
      /\ mems' = [address \in {elf[k].paddr : k \in Filled} |->
                    [b \in 1 .. elf[First(address)].filesz |-> Byte(First(address), b - 1)]]
  BY DEF read_elf
<1>4. DOMAIN FileOrder = 1 .. N /\ N \in Nat
  BY FileOrderIsOrder DEF FileOrder, LoadInv
<1>5. Listed'
  <2>1. sections' = [i \in 1 .. N |-> <<elf'[FileOrder'[i]].paddr, elf'[FileOrder'[i]].memsz>>]
    BY <1>1, <1>2, <1>3, <1>4
  <2>2. DOMAIN mems' = {elf'[k].paddr : k \in Filled'}
    BY <1>1, <1>2, <1>3
  <2>3. section_index' \in 0 .. N /\ Cardinality(Filled') = N
    BY <1>1, <1>2, <1>4
  <2>4. QED
    BY <1>1, <2>1, <2>2, <2>3 DEF Listed
<1>6. ASSUME Loadable PROVE Mapped'
  <2> SUFFICES ASSUME NEW k \in Filled
               PROVE  mems'[elf[k].paddr] = [b \in 1 .. elf[k].filesz |-> Byte(k, b - 1)]
    BY <1>1, <1>2 DEF Mapped, Byte
  <2>1. \A j \in Filled : elf[j].paddr = elf[k].paddr => j = k
    BY <1>6, SectionsApart DEF LoadInv
  <2>2. k <= k
    BY FilledSegments DEF LoadInv
  <2>3. First(elf[k].paddr) = k
    BY <2>1, <2>2
  <2> HIDE DEF First
  <2>4. QED
    BY <1>3, <2>3
<1>7. ASSUME Loadable PROVE BufferClean'
  BY <1>1, <1>2, <1>7 DEF LoadInv, BufferClean
<1>8. ASSUME Loadable PROVE Copied'
  BY <1>1, <1>2, <1>8 DEF LoadInv, Copied
<1>9. QED
  BY <1>2, <1>5, <1>6, <1>7, <1>8 DEF LoadInv

\* The next section of a loadable file: it fits, and what the copy finds behind the bytes of
\* the file is zero although the buffer was used before.
LEMMA NextSection ==
  ASSUME LoadInv, Loadable, LoadSection, NEW k, k = FileOrder[section_index + 1]
  PROVE  /\ k \in Filled /\ section_index \in 0 .. Cardinality(Filled) - 1
         /\ phase' = "load" /\ section_index' = section_index + 1
         /\ buffer' = [b \in 0 .. PreloadBufferSize - 1 |->
                         IF b < elf[k].filesz THEN Byte(k, b) ELSE buffer[b]]
         /\ mem' = Overwritten([w \in SectionWords(k) |-> Image(k, w)])
<1> DEFINE N == Cardinality(Filled)
           address == elf[k].paddr
           num_words == NumWords(elf[k].memsz)
<1>1. phase = "load" /\ section_index < Len(sections) /\ section_index' = section_index + 1
  BY DEF LoadSection, get_section
<1>2. /\ sections = [i \in 1 .. N |-> <<elf[FileOrder[i]].paddr, elf[FileOrder[i]].memsz>>]
      /\ section_index \in 0 .. N
  BY <1>1 DEF LoadInv, Listed
<1>3. N \in Nat /\ \A i \in 1 .. N : FileOrder[i] \in Filled
  BY FileOrderIsOrder DEF LoadInv
<1>4. Len(sections) = N
  BY <1>2, <1>3
<1>5. section_index \in 0 .. N - 1 /\ section_index + 1 \in 1 .. N
  BY <1>1, <1>2, <1>3, <1>4
<1>6. k \in Filled /\ sections[section_index + 1] = <<address, elf[k].memsz>>
  BY <1>2, <1>3, <1>5
<1>7. /\ sections[section_index + 1][1] = address
      /\ NumWords(sections[section_index + 1][2]) = num_words
  BY <1>6
<1>8. /\ num_words \in Nat \ {0} /\ WidthBytes \in Nat \ {0} /\ PreloadBufferSize \in Nat
      /\ FirstWord(address) \in Nat
      /\ elf[k].memsz <= WidthBytes * num_words /\ WidthBytes * num_words <= PreloadBufferSize
  BY <1>6, SectionFits, SizeAssumption DEF LoadInv
<1>9. /\ elf[k].filesz \in Nat \ {0} /\ elf[k].memsz \in Nat
      /\ elf[k].filesz <= elf[k].memsz
  BY <1>6, FilledSegments DEF LoadInv
<1>10. ~(num_words * WidthBytes > PreloadBufferSize)
  BY <1>8
<1>11. /\ phase' = phase
       /\ buffer' = read_section(address)
       /\ mem' = Overwritten([i \in FirstWord(address) .. FirstWord(address) + num_words - 1 |->
                    [j \in Lanes |-> buffer'[(i - FirstWord(address)) * WidthBytes + j]]])
  BY <1>7, <1>10 DEF LoadSection
<1>12. mems[address] = [b \in 1 .. elf[k].filesz |-> Byte(k, b - 1)] /\ BufferClean
  BY <1>1, <1>6 DEF LoadInv, Mapped
<1>13. buffer' = [b \in 0 .. PreloadBufferSize - 1 |->
                    IF b < elf[k].filesz THEN Byte(k, b) ELSE buffer[b]]
  <2>1. DOMAIN buffer = 0 .. PreloadBufferSize - 1 /\ Len(mems[address]) = elf[k].filesz
    BY <1>9, <1>12 DEF BufferClean
  <2>2. ASSUME NEW b \in 0 .. PreloadBufferSize - 1, b < elf[k].filesz
        PROVE  mems[address][b + 1] = Byte(k, b)
    <3>1. b + 1 \in 1 .. elf[k].filesz /\ (b + 1) - 1 = b
      BY <1>8, <1>9, <2>2
    <3>2. mems[address][b + 1] = Byte(k, (b + 1) - 1)
      BY <1>12, <3>1
    <3>3. QED
      BY <3>1, <3>2
  <2>3. QED
    BY <1>11, <2>1, <2>2 DEF read_section
<1>14. ASSUME NEW b \in 0 .. WidthBytes * num_words - 1, elf[k].filesz <= b
       PROVE  buffer[b] = Unwritten
  <2>1. b \in 0 .. PreloadBufferSize - 1
    BY <1>8
  <2>2. ASSUME NEW i \in 1 .. section_index
        PROVE  elf[FileOrder[i]].filesz <= b
    <3>1. i \in 1 .. N /\ i < section_index + 1
      BY <1>3, <1>5
    <3>2. FileOrder[i] \in Filled /\ FileOrder[i] < k
      BY <1>5, <3>1, FileOrderIsOrder DEF LoadInv
    <3>3. \/ elf[FileOrder[i]].filesz <= elf[k].filesz
          \/ elf[k].filesz = num_words * WidthBytes
      BY <1>6, <3>2 DEF Loadable
    <3>4. ~(elf[k].filesz = num_words * WidthBytes)
      BY <1>8, <1>9, <1>14
    <3>5. elf[FileOrder[i]].filesz \in Nat
      BY <3>2, FilledSegments DEF LoadInv
    <3>6. QED
      BY <1>8, <1>9, <1>14, <3>3, <3>4, <3>5
  <2>3. QED
    BY <1>1, <1>12, <2>1, <2>2 DEF BufferClean
<1>15. ASSUME NEW w \in SectionWords(k)
       PROVE  [j \in Lanes |-> buffer'[(w - FirstWord(address)) * WidthBytes + j]] = Image(k, w)
  <2>1. w - FirstWord(address) \in 0 .. num_words - 1
    BY <1>8 DEF SectionWords
  <2> SUFFICES ASSUME NEW j \in Lanes
               PROVE  buffer'[(w - FirstWord(address)) * WidthBytes + j] = Image(k, w)[j]
    BY DEF Image
  <2> DEFINE offset == (w - FirstWord(address)) * WidthBytes + j
  <2>2. j \in 0 .. WidthBytes - 1
    BY DEF Lanes
  <2>3. offset \in 0 .. num_words * WidthBytes - 1
    BY <1>8, <2>1, <2>2, Numbering
  <2>4. Image(k, w)[j] = IF offset < elf[k].filesz THEN Byte(k, offset) ELSE Unwritten
    BY DEF Image
  <2> HIDE DEF offset
  <2>5. offset \in 0 .. WidthBytes * num_words - 1 /\ offset \in 0 .. PreloadBufferSize - 1
    BY <1>8, <2>3
  <2>6. buffer'[offset] = IF offset < elf[k].filesz THEN Byte(k, offset) ELSE buffer[offset]
    BY <1>13, <2>5
  <2>7. ~(offset < elf[k].filesz) => elf[k].filesz <= offset
    BY <1>9, <2>5
  <2>8. buffer'[offset] = Image(k, w)[j]
    BY <1>14, <2>4, <2>5, <2>6, <2>7
  <2>9. QED
    BY <2>8 DEF offset
<1>16. mem' = Overwritten([w \in SectionWords(k) |-> Image(k, w)])
  <2>1. [i \in FirstWord(address) .. FirstWord(address) + num_words - 1 |->
           [j \in Lanes |-> buffer'[(i - FirstWord(address)) * WidthBytes + j]]]
        = [w \in SectionWords(k) |-> Image(k, w)]
    BY <1>15 DEF SectionWords
  <2>2. QED
    BY <1>11, <2>1
<1>17. QED
  BY <1>1, <1>5, <1>6, <1>11, <1>13, <1>16

LEMMA LoadSectionLoads ==
  ASSUME LoadInv, LoadSection
  PROVE  LoadInv'
<1> DEFINE n == section_index
           k == FileOrder[n + 1]
<1>1. /\ phase = "load" /\ phase' \in {"load", "aborted"} /\ UNCHANGED <<elf, sections, mems>>
      /\ n < Len(sections) /\ section_index' = n + 1
  BY DEF LoadSection, get_section
<1>2. /\ Filled' = Filled /\ FileOrder' = FileOrder /\ Elf' /\ Loadable' = Loadable
      /\ \A j : SectionWords(j)' = SectionWords(j)
      /\ \A j, w : Image(j, w)' = Image(j, w)
  BY <1>1, SameFile DEF LoadInv
<1>3. Listed'
  <2>1. Listed /\ Cardinality(Filled) \in Nat
    BY FileOrderIsOrder DEF LoadInv
  <2>2. Len(sections) = Cardinality(Filled) /\ n \in 0 .. Cardinality(Filled)
    BY <1>1, <2>1 DEF Listed
  <2>3. section_index' \in 0 .. Cardinality(Filled)
    BY <1>1, <2>1, <2>2
  <2>4. QED
    BY <1>1, <1>2, <2>1, <2>3 DEF Listed
<1>4. ASSUME Loadable PROVE Mapped' /\ BufferClean' /\ Copied'
  <2>1. /\ k \in Filled /\ n \in 0 .. Cardinality(Filled) - 1 /\ phase' = "load"
        /\ buffer' = [b \in 0 .. PreloadBufferSize - 1 |->
                         IF b < elf[k].filesz THEN Byte(k, b) ELSE buffer[b]]
        /\ mem' = Overwritten([w \in SectionWords(k) |-> Image(k, w)])
    BY <1>4, NextSection
  <2>2. Mapped /\ BufferClean /\ Copied
    BY <1>4 DEF LoadInv
  <2>3. Cardinality(Filled) \in Nat /\ elf[k].filesz \in Nat /\ PreloadBufferSize \in Nat
    BY <2>1, FileOrderIsOrder, FilledSegments, SizeAssumption DEF LoadInv
  <2>4. 1 .. n + 1 = (1 .. n) \cup {n + 1} /\ n + 1 \in 1 .. n + 1
    BY <2>1, <2>3
  <2>5. Mapped'
    BY <1>1, <1>2, <2>2 DEF Mapped, Byte
  <2>6. BufferClean'
    <3> SUFFICES ASSUME NEW b \in 0 .. PreloadBufferSize - 1,
                        \A i \in 1 .. n + 1 : elf[FileOrder[i]].filesz <= b
                 PROVE  buffer'[b] = Unwritten
      BY <1>1, <1>2, <2>1 DEF BufferClean, Unwritten
    <3>1. \A i \in 1 .. n : elf[FileOrder[i]].filesz <= b
      BY <2>4
    <3>2. buffer[b] = Unwritten
      BY <1>1, <2>2, <3>1 DEF BufferClean
    <3>3. elf[k].filesz <= b
      BY <2>4
    <3>4. ~(b < elf[k].filesz)
      BY <2>3, <3>3
    <3>5. QED
      BY <2>1, <3>2, <3>4
  <2>7. DOMAIN mem = UNION {SectionWords(FileOrder[i]) : i \in 1 .. n}
    BY <1>1, <2>2 DEF Copied
  <2>8. /\ DOMAIN mem' = SectionWords(k) \cup DOMAIN mem
        /\ \A w \in SectionWords(k) : mem'[w] = Image(k, w)
        /\ \A w \in DOMAIN mem \ SectionWords(k) : mem'[w] = mem[w]
    BY <2>1 DEF Overwritten
  <2>9. DOMAIN mem' = UNION {SectionWords(FileOrder[i]) : i \in 1 .. n + 1}
    BY <2>4, <2>7, <2>8
  <2>10. ASSUME NEW i \in 1 .. n + 1, NEW w \in SectionWords(FileOrder[i])
         PROVE  mem'[w] = Image(FileOrder[i], w)
    <3>1. CASE i = n + 1
      BY <2>8, <3>1
    <3>2. CASE i # n + 1
      <4>1. i \in 1 .. n /\ i < n + 1
        BY <2>1, <2>3, <3>2
      <4>2. /\ i \in 1 .. Cardinality(Filled) /\ n + 1 \in 1 .. Cardinality(Filled)
        BY <2>1, <2>3, <4>1
      <4>3. FileOrder[i] \in Filled /\ FileOrder[i] < k
        BY <4>1, <4>2, FileOrderIsOrder DEF LoadInv
      <4>4. FileOrder[i] \in Nat /\ k \in Nat
        BY <2>1, <4>3, FilledSegments DEF LoadInv
      <4>5. FileOrder[i] # k
        BY <4>3, <4>4
      <4>6. w \notin SectionWords(k)
        BY <1>4, <2>1, <4>3, <4>5, SectionsApart DEF LoadInv
      <4>7. w \in DOMAIN mem
        BY <2>7, <4>1
      <4>8. mem'[w] = mem[w]
        BY <2>8, <4>6, <4>7
      <4>9. QED
        BY <1>1, <2>2, <4>1, <4>8 DEF Copied
    <3>3. QED
      BY <3>1, <3>2
  <2>11. Copied'
    BY <1>1, <1>2, <2>1, <2>9, <2>10 DEF Copied
  <2>12. QED
    BY <2>5, <2>6, <2>11
<1>5. QED
  BY <1>2, <1>3, <1>4 DEF LoadInv

\* After the loading only the processor writes, and not before the run.
LEMMA RunningKeepsLoaded ==
  ASSUME LoadInv, LoadDone \/ ResetTick \/ Tick \/ UNCHANGED vars
  PROVE  LoadInv'
<1>1. /\ UNCHANGED <<elf, sections, mems, section_index, buffer>>
      /\ phase' \in {"read", "load"} => phase' = phase
      /\ phase = "read" => phase' = phase
      /\ phase = "load" => phase' = phase \/ section_index = Len(sections)
      /\ phase = "reset" => phase' \in {"reset", "run"}
      /\ phase = "run" => phase' \in {"run", "done"}
      /\ phase' = "reset" => phase \in {"load", "reset"} /\ mem' = mem
      /\ phase' \in {"read", "load"} => mem' = mem
  BY DEF LoadDone, ResetTick, Tick, vars, loader
<1>2. /\ Filled' = Filled /\ FileOrder' = FileOrder /\ Elf' /\ Loadable' = Loadable
      /\ \A j : SectionWords(j)' = SectionWords(j)
      /\ \A j, w : Image(j, w)' = Image(j, w)
  BY <1>1, SameFile DEF LoadInv
<1>3. Listed'
  <2>1. Listed /\ Cardinality(Filled) \in Nat
    BY FileOrderIsOrder DEF LoadInv
  <2>2. phase # "read" => Len(sections) = Cardinality(Filled)
    BY <2>1 DEF Listed
  <2>3. phase' = "read" <=> phase = "read"
    BY <1>1
  <2>4. phase' \in {"reset", "run", "done"} => phase # "read" /\ section_index = Cardinality(Filled)
    BY <1>1, <2>1, <2>2 DEF Listed, LoadDone, ResetTick, Tick, vars
  <2>5. QED
    BY <1>1, <1>2, <2>1, <2>3, <2>4 DEF Listed
<1>4. ASSUME Loadable PROVE Mapped' /\ BufferClean' /\ Copied'
  <2>1. Mapped /\ BufferClean /\ Copied
    BY <1>4 DEF LoadInv
  <2>2. Mapped'
    BY <1>1, <1>2, <2>1 DEF Mapped, Byte
  <2>3. BufferClean'
    BY <1>1, <1>2, <2>1 DEF BufferClean, Unwritten
  <2>4. Copied'
    BY <1>1, <1>2, <2>1 DEF Copied
  <2>5. QED
    BY <2>2, <2>3, <2>4
<1>5. QED
  BY <1>2, <1>3, <1>4 DEF LoadInv

LEMMA StepLoadInv == LoadInv /\ [Next]_vars => LoadInv'
  BY ReadElfLoads, LoadSectionLoads, RunningKeepsLoaded DEF Next

\* What the whole file gives for an address, the word and lane of the address hold.
LEMMA LoadInvMeansLinked == LoadInv => LoadedAsLinked
<1> SUFFICES ASSUME LoadInv, phase = "reset", Loadable,
                    NEW address \in 0 .. WidthBytes * 2 ^ Aw - 1
             PROVE  rdata(WordOf(address))[address % WidthBytes] = Linked(address)
  BY DEF LoadedAsLinked
<1> DEFINE depth == 2 ^ Aw
           word == address \div WidthBytes
           lane == address % WidthBytes
           N == Cardinality(Filled)
<1>1. WidthBytes \in Nat \ {0} /\ depth \in Nat \ {0} /\ WidthBytes * depth \in Nat
  BY SizeAssumption
<1> HIDE DEF depth
<1>2. address \in Nat /\ address < WidthBytes * depth
  BY <1>1 DEF depth
<1>3. address = WidthBytes * word + lane /\ word \in Nat /\ lane \in 0 .. WidthBytes - 1
  BY <1>1, <1>2, DivMod
<1>4. WordOf(address) = word
  <2> HIDE DEF word, lane
  <2>1. WidthBytes * word < WidthBytes * depth
    BY <1>1, <1>2, <1>3
  <2>2. word < depth
    <3>1. CASE depth <= word
      <4>1. WidthBytes * (word - depth) >= 0
        BY <1>1, <1>3, <3>1
      <4>2. QED
        BY <1>1, <1>3, <2>1, <4>1
    <3>2. QED
      BY <1>1, <1>3, <3>1
  <2>3. word \in 0 .. depth - 1 /\ word = depth * 0 + word
    BY <1>1, <1>3, <2>2
  <2>4. word % depth = word
    BY <1>1, <1>3, <2>3, ModUnique
  <2>5. QED
    BY <2>4 DEF WordOf, depth, word
<1> HIDE DEF word, lane
<1>5. /\ DOMAIN mem = UNION {SectionWords(FileOrder[i]) : i \in 1 .. N}
      /\ \A i \in 1 .. N : \A w \in SectionWords(FileOrder[i]) : mem[w] = Image(FileOrder[i], w)
  BY DEF LoadInv, Listed, Copied
<1>6. /\ \A i \in 1 .. N : FileOrder[i] \in Filled
      /\ \A k \in Filled : \E i \in 1 .. N : FileOrder[i] = k
  BY FileOrderIsOrder DEF LoadInv
<1>7. ASSUME NEW k \in Filled, word \in SectionWords(k)
      PROVE  /\ mem[word][lane] = IF address - elf[k].paddr < elf[k].filesz
                                  THEN Byte(k, address - elf[k].paddr) ELSE Unwritten
             /\ elf[k].paddr <= address /\ elf[k].paddr \in Nat
  <2> DEFINE f == FirstWord(elf[k].paddr)
             offset == (word - f) * WidthBytes + lane
  <2>1. mem[word] = Image(k, word)
    BY <1>5, <1>6, <1>7
  <2>2. lane \in Lanes
    BY <1>3 DEF Lanes
  <2>3. mem[word][lane] = IF offset < elf[k].filesz THEN Byte(k, offset) ELSE Unwritten
    BY <2>1, <2>2 DEF Image
  <2>4. f \in Nat /\ elf[k].paddr = WidthBytes * f /\ NumWords(elf[k].memsz) \in Nat
    BY SectionFits DEF LoadInv
  <2>5. word >= f
    BY <1>3, <1>7, <2>4 DEF SectionWords
  <2> HIDE DEF f
  <2>6. (word - f) * WidthBytes + lane = address - elf[k].paddr
    BY <1>1, <1>3, <2>4
  <2>7. WidthBytes * (word - f) >= 0
    BY <1>1, <1>3, <2>4, <2>5
  <2>8. elf[k].paddr <= address
    BY <1>1, <1>3, <2>4, <2>7
  <2>9. elf[k].paddr \in Nat
    BY <1>1, <2>4
  <2>10. QED
    BY <2>3, <2>6, <2>8, <2>9
<1>8. ASSUME NEW k \in Filled, address \in elf[k].paddr .. elf[k].paddr + elf[k].filesz - 1
      PROVE  word \in SectionWords(k)
  <2> DEFINE f == FirstWord(elf[k].paddr)
             m == NumWords(elf[k].memsz)
  <2>1. /\ f \in Nat /\ elf[k].paddr = WidthBytes * f /\ m \in Nat \ {0}
        /\ elf[k].memsz <= WidthBytes * m
    BY SectionFits DEF LoadInv
  <2>2. elf[k].filesz \in Nat /\ elf[k].memsz \in Nat /\ elf[k].filesz <= elf[k].memsz
    BY FilledSegments DEF LoadInv
  <2> HIDE DEF f, m
  <2>3. WidthBytes * f <= address /\ address < WidthBytes * f + WidthBytes * m
    BY <1>1, <1>2, <1>8, <2>1, <2>2
  <2>4. f <= word
    <3>1. CASE word + 1 <= f
      <4>1. WidthBytes * (f - (word + 1)) >= 0
        BY <1>1, <1>3, <2>1, <3>1
      <4>2. QED
        BY <1>1, <1>3, <2>1, <2>3, <4>1
    <3>2. QED
      BY <1>3, <2>1, <3>1
  <2>5. word < f + m
    <3>1. CASE f + m <= word
      <4>1. WidthBytes * (word - (f + m)) >= 0
        BY <1>1, <1>3, <2>1, <3>1
      <4>2. QED
        BY <1>1, <1>3, <2>1, <2>3, <4>1
    <3>2. QED
      BY <1>3, <2>1, <3>1
  <2>6. word \in f .. f + m - 1
    BY <1>3, <2>1, <2>4, <2>5
  <2>7. QED
    BY <2>6 DEF SectionWords, f, m
<1> DEFINE at == {k \in Filled : address \in elf[k].paddr .. elf[k].paddr + elf[k].filesz - 1}
<1>9. CASE at = {}
  <2>1. Linked(address) = Unwritten
    BY <1>9 DEF Linked
  <2>2. CASE word \notin DOMAIN mem
    <3>1. rdata(word)[lane] = Unwritten
      BY <1>3, <2>2 DEF rdata, Lanes
    <3>2. QED
      BY <1>4, <2>1, <3>1 DEF lane
  <2>3. CASE word \in DOMAIN mem
    <3>1. PICK k \in Filled : word \in SectionWords(k)
      BY <1>5, <1>6, <2>3
    <3>2. elf[k].filesz \in Nat /\ elf[k].paddr \in Nat /\ elf[k].paddr <= address
      BY <1>7, <3>1, FilledSegments DEF LoadInv
    <3>3. address \notin elf[k].paddr .. elf[k].paddr + elf[k].filesz - 1
      BY <1>9
    <3>4. ~(address - elf[k].paddr < elf[k].filesz)
      BY <1>2, <3>2, <3>3
    <3>5. mem[word][lane] = Unwritten
      BY <1>7, <3>1, <3>4
    <3>6. QED
      BY <1>4, <2>1, <2>3, <3>5 DEF rdata, lane
  <2>4. QED
    BY <2>2, <2>3
<1>10. CASE at # {}
  <2> DEFINE k == CHOOSE k \in at : TRUE
  <2>1. k \in at /\ Linked(address) = Byte(k, address - elf[k].paddr)
    BY <1>10 DEF Linked
  <2> HIDE DEF k
  <2>2. k \in Filled /\ address \in elf[k].paddr .. elf[k].paddr + elf[k].filesz - 1
    BY <2>1
  <2>3. word \in SectionWords(k)
    BY <1>8, <2>2
  <2>4. elf[k].filesz \in Nat /\ elf[k].paddr \in Nat
    BY <2>2, FilledSegments DEF LoadInv
  <2>5. address - elf[k].paddr < elf[k].filesz
    BY <1>2, <2>2, <2>4
  <2>6. mem[word][lane] = Byte(k, address - elf[k].paddr)
    BY <1>7, <2>2, <2>3, <2>5
  <2>7. word \in DOMAIN mem
    BY <1>5, <1>6, <2>2, <2>3
  <2>8. QED
    BY <1>4, <2>1, <2>6, <2>7 DEF rdata, lane
<1>11. QED
  BY <1>9, <1>10

\* The reset finds the program in the memory: every byte of every segment is in the word and
\* lane the processor reads its address from, and every other byte is zero, for every loadable
\* file, width of a word and size of the memory, although the buffer between the file and the
\* memory is never cleared.
THEOREM ProgramIsLoaded == Spec => []LoadedAsLinked
<1>1. Init => LoadInv
  BY InitLoadInv
<1>2. LoadInv /\ [Next]_vars => LoadInv'
  BY StepLoadInv
<1>3. LoadInv => LoadedAsLinked
  BY LoadInvMeansLinked
<1>4. QED
  BY <1>1, <1>2, <1>3, PTL DEF Spec

\* The list of sections and the map of contents are about the same addresses, the index never
\* passes the list, and the counters of the run stay where the code means them to be.
THEOREM TypeCorrect == Spec => []TypeOK
<1>1. Init => IInv /\ LoadInv
  BY InitIInv, InitLoadInv
<1>2. IInv /\ LoadInv /\ [Next]_vars => IInv' /\ LoadInv'
  BY StepIInv, StepLoadInv
<1>3. IInv /\ LoadInv => TypeOK
  <2> SUFFICES ASSUME IInv, LoadInv PROVE TypeOK
    OBVIOUS
  <2>1. /\ Cardinality(Filled) \in Nat
        /\ \A i \in 1 .. Cardinality(Filled) : FileOrder[i] \in Filled
        /\ \A k \in Filled : \E i \in 1 .. Cardinality(Filled) : FileOrder[i] = k
    BY FileOrderIsOrder DEF LoadInv
  <2>2. section_index \in 0 .. Len(sections) /\ DOMAIN mems = {s[1] : s \in ToSet(sections)}
    <3>1. CASE phase = "read"
      BY <3>1 DEF LoadInv, Listed, ToSet
    <3>2. CASE phase # "read"
      <4>1. /\ sections = [i \in 1 .. Cardinality(Filled) |->
                             <<elf[FileOrder[i]].paddr, elf[FileOrder[i]].memsz>>]
            /\ DOMAIN mems = {elf[k].paddr : k \in Filled}
            /\ section_index \in 0 .. Cardinality(Filled)
        BY <3>2 DEF LoadInv, Listed
      <4>2. Len(sections) = Cardinality(Filled)
        BY <2>1, <4>1
      <4>3. \A i \in 1 .. Cardinality(Filled) : sections[i][1] = elf[FileOrder[i]].paddr
        BY <4>1
      <4>4. {s[1] : s \in ToSet(sections)} = {elf[FileOrder[i]].paddr : i \in 1 .. Cardinality(Filled)}
        <5>1. DOMAIN sections = 1 .. Cardinality(Filled)
          BY <4>1
        <5>2. ToSet(sections) = {sections[i] : i \in 1 .. Cardinality(Filled)}
          BY <5>1 DEF ToSet
        <5>3. QED
          BY <4>3, <5>2
      <4>5. DOMAIN mems \subseteq {elf[FileOrder[i]].paddr : i \in 1 .. Cardinality(Filled)}
        BY <2>1, <4>1
      <4>6. {elf[FileOrder[i]].paddr : i \in 1 .. Cardinality(Filled)} \subseteq DOMAIN mems
        BY <2>1, <4>1
      <4>7. section_index \in 0 .. Len(sections)
        BY <4>1, <4>2
      <4>8. QED
        BY <4>4, <4>5, <4>6, <4>7
    <3>3. QED
      BY <3>1, <3>2
  <2>3. Limit \in Nat \ {0} /\ RUNMORETICKS \in Nat
    BY Lengths DEF IInv
  <2>4. phase \in {"run", "done"} => step_id \in 0 .. Limit
    BY <2>3 DEF IInv, CountedDown, Finished
  <2>5. remaining_before_stop \in -1 .. RUNMORETICKS /\ (got_stop_req <=> requested # -1)
    <3>1. CASE got_stop_req = FALSE
      BY <2>3, <3>1 DEF IInv, CountedDown
    <3>2. CASE got_stop_req = TRUE
      <4>1. phase \in {"run", "done"}
        BY <3>2 DEF IInv, BeforeRun
      <4>2. CASE phase = "run"
        BY <2>3, <3>2, <4>2 DEF IInv, CountedDown
      <4>3. CASE phase = "done"
        BY <2>3, <3>2, <4>3 DEF IInv, Finished
      <4>4. QED
        BY <4>1, <4>2, <4>3
    <3>3. QED
      BY <3>1, <3>2 DEF IInv
  <2>6. QED
    BY <2>2, <2>4, <2>5 DEF TypeOK, IInv
<1>4. QED
  BY <1>1, <1>2, <1>3, PTL DEF Spec
=============================================================================
