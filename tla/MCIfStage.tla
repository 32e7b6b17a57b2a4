----------------------------- MODULE MCIfStage -----------------------------
(* Instances of IfStage for TLC. *)
EXTENDS IfStage, TLC

AllPrograms == [Half -> BOOLEAN]

\* Only 32-bit instructions at word boundaries: what .option norvc assembles to.
\* The bits of their upper halfwords are data and may look like anything.
NorvcPrograms == {p \in AllPrograms : \A w \in Word : ~p[2 * w]}

Run(programs, targets, faulty, single) ==
  {[code |-> p, targets |-> targets, faulty |-> faulty, single |-> single] : p \in programs}

\* Any program from single-cycle memory, and .option norvc programs, with and
\* without a faulty last word, from memory that takes its time.
Supported == Run(AllPrograms, {2, 3}, {}, TRUE)
             \cup Run(NorvcPrograms, {2, 4}, {}, FALSE)
             \cup Run(NorvcPrograms, {2, 4}, {NWords - 1}, FALSE)
\* The other combinations.
Compressed == Run(AllPrograms, {}, {}, FALSE)
FaultyNorvc == Run(NorvcPrograms, {}, {1}, FALSE)
FaultyCompressed == Run(AllPrograms, {}, {1}, TRUE)
=============================================================================
