------------------------------- MODULE MCMemLeak -------------------------------
EXTENDS MemLeak, TLC

(* Addresses are interchangeable: only equality of them is ever asked.     *)
Symmetry == Permutations(Addrs)

MCKinds == {"new", "malloc"}

(* The largest size that fills its freelist class to the last byte, and    *)
(* one that no freelist takes.                                             *)
MCSizes == {61, 5000}
===============================================================================
