-------------------------- MODULE MC_AddressSpace --------------------------
(***************************************************************************)
(* Small machines for AddressSpace: tables of four entries, pages of two   *)
(* bytes.  The memory ends so that the last byte of the bitmap has bits of *)
(* frames that do not exist, has few of them, or has none; it has a hole;  *)
(* the kernel lies in low memory or above it; the frame buffer lies apart  *)
(* or right behind the memory, and fills its last page or not.             *)
(***************************************************************************)
EXTENDS AddressSpace

Descriptor(type, start, pages) == [type |-> type, start |-> start, pages |-> pages]

(* 24, 29 and 31 frames. *)
Even  == <<Descriptor(7, 0, 3), Descriptor(2, 3, 2), Descriptor(7, 5, 17),
           Descriptor(0, 22, 2)>>
Odd   == <<Descriptor(2, 0, 3), Descriptor(7, 3, 24), Descriptor(0, 27, 2)>>
Full  == <<Descriptor(2, 0, 2), Descriptor(7, 2, 29)>>

(* 26 frames, of which four lie above the size of the memory. *)
Holed == <<Descriptor(2, 0, 2), Descriptor(7, 2, 20), Descriptor(7, 26, 4)>>

Low  == [first |-> 1, bytes |-> 2]
High == [first |-> 3, bytes |-> 3]

Screens == {[first |-> 40, bytes |-> 4], [first |-> 40, bytes |-> 5],
            [first |-> 32, bytes |-> 3]}

MCMachines ==
  {[map |-> m, kernel |-> Low, frameBuffer |-> s] : m \in {Odd, Full, Holed}, s \in Screens}
    \cup {[map |-> Even, kernel |-> High, frameBuffer |-> s] : s \in Screens}
=============================================================================
