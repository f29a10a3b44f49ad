-------------------------- MODULE MCCopyOnWriteBuffer --------------------------
(* Instances of CopyOnWriteBuffer: neither the objects of the two threads  *)
(* nor the bytes are told apart.                                           *)
EXTENDS CopyOnWriteBuffer

Alike == Permutations(Others) \cup Permutations(Bytes)

================================================================================
