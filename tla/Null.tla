---------------------------------- MODULE Null ----------------------------------
(* The null pointer: one constant for every pointer field of the kernel that  *)
(* may point nowhere.                                                         *)
CONSTANT NULL
=================================================================================
