--------------------------- MODULE MCAddressSpace ---------------------------
(***************************************************************************)
(* Bounds for AddressSpace: two slots, a payload of one page, a stack of    *)
(* two pages in the heap's way and a window of three pages.                  *)
(***************************************************************************)
EXTENDS AddressSpace

(* A program whose last segment contains the stack, as                      *)
(* service/hello/link.ld lays it out; the first process's payload does not. *)
ElfFiles == {1 .. STACK_TOP - 1}
=============================================================================
