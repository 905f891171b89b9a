--------------------------- MODULE MCTrainingRun ----------------------------
(* Instances of TrainingRun for TLC: a loop that names its checkpoints     *)
(* after their step, and one that always writes to one name.               *)
EXTENDS TrainingRunInv

NamedByStep == [s \in 1 .. MaxSteps |-> s]
NamedAlike  == [s \in 1 .. MaxSteps |-> 1]
=============================================================================
