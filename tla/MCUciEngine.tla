---------------------------- MODULE MCUciEngine ----------------------------
(* UciEngine for TLC: a clock with moves per control, and nodes with        *)
(* -recover; a clock alone does nothing that the first does not.             *)
EXTENDS UciEngine

MCNumbers == [t \in {"1", "16", "128", "1024", "4096"} |->
                CASE t = "1" -> 1 [] t = "16" -> 16 [] t = "128" -> 128 [] t = "1024" -> 1024 [] t = "4096" -> 4096]

Hash == [name |-> "Hash", type |-> "spin", default |-> "16", min |-> "1", max |-> "1024", var |-> {}]
Chess960 == [name |-> "UCI_Chess960", type |-> "check", default |-> "false", min |-> "", max |-> "", var |-> {}]
Style == [name |-> "Style", type |-> "combo", default |-> "Normal", min |-> "", max |-> "", var |-> {"Normal", "Solid"}]

\* A value that is valid, and Chess960; none that can be sent, a combo among them; one that is no number; and a spin line
\* without its maximum.
MCConfigs == {
    [limit |-> "moves", recover |-> FALSE, frc |-> TRUE, offers |-> <<Hash, Chess960>>,
     options |-> <<[name |-> "Hash", value |-> "128"]>>],
    [limit |-> "nodes", recover |-> TRUE, frc |-> FALSE, offers |-> <<Hash, Style>>,
     options |-> <<[name |-> "Threads", value |-> "1"], [name |-> "Hash", value |-> "4096"], [name |-> "Style", value |-> "Solid"]>>],
    [limit |-> "time", recover |-> TRUE, frc |-> FALSE, offers |-> <<Hash>>,
     options |-> <<[name |-> "Hash", value |-> "max"]>>],
    [limit |-> "time", recover |-> TRUE, frc |-> FALSE, offers |-> <<Hash, [Hash EXCEPT !.max = ""]>>, options |-> << >>]}

NodesRecover == {[limit |-> "nodes", recover |-> TRUE, frc |-> FALSE, offers |-> << >>, options |-> << >>]}
=============================================================================
