---------------------------- MODULE MCConfigSeed -----------------------------
(* Files and defaults for TLC, and seeding by itself.                          *)
EXTENDS ConfigSeed

Leaf(s)  == [scalar |-> s]
Array(s) == [array |-> s]
Leaves   == {Leaf("null"), Leaf("wide"), Leaf("x"), Array(<< >>), Array(<<Leaf("x")>>),
             Array(<<Leaf("y"), Leaf("null")>>)}
Object(k, l, m) == [object |-> [f \in Field |-> CASE f = "k" -> k [] f = "l" -> l [] f = "m" -> m]]
Objects(values) == {Object(x, y, Missing) : x, y \in OrMissing(values)}
SeedFiles ==
  {[state |-> s, value |-> Leaf("x")] : s \in 
          {"missing", "nowhere", "unreadable", "over", "blank", "invalid"}}
  \cup {[state |-> "json", value |-> v] :
          v \in Leaves \cup Objects(Leaves \cup Objects({Leaf("null"), Array(<<Leaf("y")>>)}))}
Defaults ==
  {Object(Leaf("y"), Missing, Missing),
   Object(Array(<<Leaf("y"), Leaf("x")>>), Missing, Leaf("y")),
   Object(Missing, Object(Leaf("y"), Array(<<Leaf("y")>>), Missing), Missing)}

SeedInputs == [of : {"seed"}, file : SeedFiles, defaults : Defaults, writes : BOOLEAN]

SeedSpec == input \in SeedInputs /\ [][FALSE]_input
=============================================================================
