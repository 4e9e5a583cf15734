--------------------------- MODULE MCCalibration ---------------------------
(* Two processes and two controllers for TLC.                              *)
EXTENDS Calibration, FiniteSets, TLC

CONSTANTS p1, p2, c1, c2

MCProcesses == {p1, p2}
MCControllers == {c1, c2}
MCWorkDirs == {"here"}
Symmetry == Permutations(MCProcesses) \cup Permutations(MCControllers)

\* Bounds: there is a file of at most one controller in the working directory,
\* and with it there is one failure at most; once the blocks of a controller have
\* been mixed up, the mixtures are followed only as long as nothing else goes
\* wrong, and without such a file.
Copied == {n \in Names : file["here"][n] # Absent}
OneCopy == Copied # {} => Cardinality(Copied) = 1 /\ faults <= 1
MixedAlone == mixed # {} => Cardinality(mixed) = 1 /\ faults = 0 /\ Copied = {}
=============================================================================
