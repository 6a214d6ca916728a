-------------------------- MODULE MCAddressSpace --------------------------
(***************************************************************************)
(* Instances of AddressSpace for TLC.                                       *)
(***************************************************************************)

EXTENDS AddressSpace

\* Used and available blocks in turn, as initialize() writes them: two blocks
\* for the kernel address space, eight for the general one, here four.
Block(available, base, pageCount) ==
  [available |-> available, base |-> base, pageCount |-> pageCount]

SmallList ==
  <<Block(FALSE, 0, 1), Block(TRUE, 1, 3), Block(FALSE, 4, 1), Block(TRUE, 5, 5)>>

KernelList == <<Block(FALSE, 0, 2), Block(TRUE, 2, 6)>>

=============================================================================
