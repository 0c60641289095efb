------------------------------ MODULE TwinRuns ------------------------------
(***************************************************************************)
(* Vocabulary shared by the models of taint-carrying memories.             *)
(*                                                                         *)
(* Taint tracking makes a promise about pairs of executions: the OBSERVED  *)
(* run, whose signals the hardware sees, and a TWIN run that agrees with   *)
(* it on every input bit that carries no taint.  A signal of one clock     *)
(* cycle is a record [x, y, t]: its value in the observed run, its value   *)
(* in the twin run, and its taint.                                         *)
(*                                                                         *)
(* A word is the set of its bits that are 1 and a taint word the set of    *)
(* its tainted bits, so that bitwise OR is union.  The data that flow      *)
(* through a memory are opaque to it: they are represented only by the     *)
(* set of bits in which the two runs may differ.                           *)
(***************************************************************************)

\* Bits in which two words differ (bitwise XOR).
Differing(v, w) == (v \ w) \cup (w \ v)

\* Signals whose value is in D, with one taint bit for the whole signal (a one-bit
\* signal, or the OR-reduction of a taint word).  The runs disagree only under taint;
\* "over" admits taint on a signal in which they agree.
ReducedSignal(D, over) ==
  {s \in [x : D, y : D, t : BOOLEAN] : (s.x # s.y => s.t) /\ (s.t => over \/ s.x # s.y)}

\* Signals over a set B of bits, tainted bit by bit.
WordSignal(B, over) ==
  {s \in [x : SUBSET B, y : SUBSET B, t : SUBSET B] :
     /\ Differing(s.x, s.y) \subseteq s.t
     /\ over \/ s.t = Differing(s.x, s.y)}

\* The untainted signal that has the value v in both runs.
Constant(v, none) == [x |-> v, y |-> v, t |-> none]

(***************************************************************************)
(* Bits of a stored word in which the runs may differ after a cycle in     *)
(* which the observed run wrote the bits w1 and the twin the bits w2.      *)
(* Bits both wrote differ as the data do, bits neither wrote as before,    *)
(* and a bit only one run wrote holds unrelated data in the two runs.      *)
(***************************************************************************)
AfterWrite(old, w1, w2, data) ==
  (w1 \cap w2 \cap data) \cup (old \ (w1 \cup w2)) \cup Differing(w1, w2)
=============================================================================
