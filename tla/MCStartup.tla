----------------------------- MODULE MCStartup -----------------------------
(* Small instance: room for one core with everything and a second one with *)
(* everything, only arguments, or nothing, depending on the image.         *)
EXTENDS Startup

Segment(v, m, f, fl) == [vaddr |-> v, memsz |-> m, filesz |-> f, flags |-> fl]

(* Text and data with a gap and bss; text only; an image with little room  *)
(* behind it, with less, and with none.                                    *)
MCImages ==
  {<<Segment(9, 1, 1, {"R", "X"}), Segment(11, 2, 1, {"R", "W"})>>,
   <<Segment(9, 2, 2, {"R", "X"})>>,
   <<Segment(9, 12, 1, {"R"})>>, <<Segment(9, 21, 1, {"R"})>>,
   <<Segment(9, 26, 1, {"R"})>>}
=============================================================================
