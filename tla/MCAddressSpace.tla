--------------------------- MODULE MCAddressSpace ---------------------------
(* Small instance: five bytes of RAM at address 1, pages and allocation    *)
(* units of two bytes, images of up to four short segments.                *)
EXTENDS AddressSpace

Segment(v, m, f, fl) == [vaddr |-> v, memsz |-> m, filesz |-> f, flags |-> fl]

(* Text, data and bss segments at the start, the middle and the end of     *)
(* RAM, one below it, one across its end and one wholly past it.           *)
MCSegments ==
  {Segment(1, 1, 1, {"R", "X"}), Segment(1, 2, 1, {"R", "W"}),
   Segment(2, 2, 2, {"R"}),      Segment(3, 2, 0, {"R", "W"}),
   Segment(5, 1, 1, {"R", "W"}), Segment(0, 1, 1, {"R"}),
   Segment(5, 3, 2, {"R", "X"}), Segment(7, 1, 1, {"R", "W"})}

MCJunk == {{}, Flags}
=============================================================================
