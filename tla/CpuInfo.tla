------------------------------ MODULE CpuInfo ------------------------------
(***************************************************************************)
(* affinity::cpu_info::getCpuInfo (affinity/cpuinfo/cpuinfo_posix.hpp):    *)
(* what the affinity manager is told of the machine that a /proc/cpuinfo   *)
(* describes.  A line is one of the three keys that are looked for, and    *)
(* its number.                                                             *)
(***************************************************************************)
EXTENDS Integers, Sequences
LOCAL INSTANCE SequencesExt

Keys == {"processor", "core id", "physical id"}

\* The local variables before the first line: no id is known.
Nothing == [key \in Keys |-> -1]

\* One pass of the loop: a processor is complete when all three ids are known, wherever its blank line is.
ReadLine(s, line) ==
    LET ids == [s.ids EXCEPT ![line.key] = line.value]
    IN  IF \A key \in Keys : ids[key] # -1
        THEN [ids |-> Nothing, found |-> Append(s.found, ids)]
        ELSE [s EXCEPT !.ids = ids]

Core(ids) == <<ids["physical id"], ids["core id"]>>
Before(a, b) == a[1] < b[1] \/ (a[1] = b[1] /\ a[2] < b[2])

\* The maps of physical_cpus and cores in their order: the number of processors of each core.
getCpuInfo(lines) ==
    LET found == FoldLeft(ReadLine, [ids |-> Nothing, found |-> << >>], lines).found
        cores == SetToSortSeq({Core(found[i]) : i \in DOMAIN found}, Before)
    IN  [c \in DOMAIN cores |-> Len(SelectSeq(found, LAMBDA ids : Core(ids) = cores[c]))]
=============================================================================
