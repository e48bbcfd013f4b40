----------------------------- MODULE MCKernelBoot ----------------------------
(***************************************************************************)
(* Every machine of KernelBoot, with a panic message of two rows.          *)
(***************************************************************************)
EXTENDS KernelBoot
============================================================================
