-------------------------------- MODULE MCPlugins ------------------------------
(* The plugins of RunAllTests and a MockSupportPlugin; a nested run with a *)
(* plugin of each kind that shares something with the outer one.           *)
EXTENDS Plugins

CONSTANTS sp, ml, mp, sp2, ml2, mp2

MCHome == [p \in Plugins |-> IF p \in {sp, ml, mp} THEN Default ELSE Inner]
MCStarts ==
  {[r \in Registries |-> IF r = Default THEN <<sp, ml, mp>> ELSE inner] :
     inner \in {<<>>, <<mp2, ml2>>}}
    \cup {[r \in Registries |-> <<>>]}
MCPointers == Permutations(Pointers)
===============================================================================
