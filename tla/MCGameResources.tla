-------------------------- MODULE MCGameResources --------------------------
(* Two games on small machines: as many processors as games on one core and *)
(* on two, a hybrid, more than enough, too few, and one that names no cores. *)
EXTENDS GameResources, CpuInfo, TLC

\* The lines of a processor, and of one on a machine that has no core ids.
Processor(p, core_id, physical_id) ==
    <<[key |-> "processor", value |-> p], [key |-> "physical id", value |-> physical_id], [key |-> "core id", value |-> core_id]>>
Plain(p) == <<[key |-> "processor", value |-> p]>>

MCTopologies ==
    {getCpuInfo(file) : file \in {
        Processor(0, 0, 0) \o Processor(1, 0, 0),
        Processor(0, 0, 1) \o Processor(1, 0, 0),
        Processor(0, 0, 0) \o Processor(1, 4, 0) \o Processor(2, 4, 0),
        Processor(0, 0, 0) \o Processor(1, 1, 0) \o Processor(2, 0, 0) \o Processor(3, 1, 0),
        Plain(0) \o Processor(1, 0, 0),
        Plain(0) \o Plain(1)}}

ASSUME CpuInfoRead == MCTopologies = {<<2>>, <<1, 1>>, <<1, 2>>, <<2, 2>>, <<1>>, << >>}

MCSymmetry == Permutations(Workers) \cup Permutations(Ids)
=============================================================================
