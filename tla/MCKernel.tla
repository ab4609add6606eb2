------------------------------ MODULE MCKernel ------------------------------
(***************************************************************************)
(* A machine of 13 pages: page 0 and page 4 are reserved, 1 is free, 2 holds *)
(* the kernel's page table and 3 its stack; two processes have four pages    *)
(* each (one loaded, two for the heap, one for the stack).                   *)
(***************************************************************************)
EXTENDS Kernel

MCReserved == {0, 4}
MCKernelPages == {2, 3}
=============================================================================
