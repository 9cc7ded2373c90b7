-------------------------- MODULE MCTopologyChain --------------------------
(* A sensor, two children of a SEMU, two of a REMU and an unpaired relay;   *)
(* two pairs of devices can be linked in more than one block.               *)
EXTENDS TopologyChain

Node(t, m, vi) == [t |-> t, m |-> m, vi |-> vi]
Sen   == Node("S", "a", -1)
Semu0 == Node("SM", "b", 0)
Semu1 == Node("SM", "b", 1)
Remu0 == Node("RM", "d", 0)
Remu1 == Node("RM", "d", 1)
Rel   == Node("R", "c", -1)

MCPool    == {Sen, Semu0, Semu1, Remu0, Remu1, Rel}
MCProfile == [m \in Devices |-> CASE m = "a" -> "S" [] m = "b" -> "SM" [] m = "c" -> "R" [] m = "d" -> "RM"]

Long   == <<Sen, Remu0, Semu0, Remu1, Semu1>>
Short  == <<Semu0, Remu0, Semu1>>
Broken == <<Sen, Semu0, Remu0>>
MCStarts == {[ver |-> 5, seeds |-> <<7, 8>>, chain |-> Long], [ver |-> 0, seeds |-> <<7>>, chain |-> Short],
             [ver |-> 5, seeds |-> <<0>>, chain |-> Broken]}
MCBackups == {Gone, [ver |-> 0, seeds |-> <<7>>, chain |-> Short]}
MCChains == {<<Semu0, Remu0, Remu1, Sen>>, <<Sen, Remu0, Semu0, Remu1, Sen>>}
=============================================================================
