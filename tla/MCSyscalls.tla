---------------------------- MODULE MCSyscalls ----------------------------
(* Small instance: five bytes of RAM at address 1.  The image is a path    *)
(* with its NUL; the stack has one byte, and one more can be allocated.    *)
EXTENDS Syscalls

MCImage == <<1, 0>>

(* One file, "1", of two different bytes.                                  *)
MCDisk == [path \in {<<1>>} |-> <<1, 0>>]
=============================================================================
