-------------------------- MODULE MCStorageKernel --------------------------
(***************************************************************************)
(* Instances of the kernels: chains that share two connections to one      *)
(* database file, with legacy transactions on them.                        *)
(***************************************************************************)
EXTENDS StorageKernel

CONSTANTS f1, Nesters
OneFile == [k \in Kernels |-> f1]
Nesting == [c \in Chains |-> IF c \in Nesters THEN 2 ELSE 1]
=============================================================================
