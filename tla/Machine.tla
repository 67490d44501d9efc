------------------------------ MODULE Machine ------------------------------
(***************************************************************************)
(* What the pipeline (Core) and its abstract specification (Isa) share:    *)
(* the size of words and registers, the instructions and the memory map.   *)
(*                                                                         *)
(* Addresses are counted in words: pc + 1 is the next instruction and one  *)
(* load or store moves one word.  Sub-word accesses, bit-level decoding    *)
(* and the arithmetic are the subject of module Rv32i; here an instruction *)
(* is a record and the arithmetic is one addition.                         *)
(***************************************************************************)
EXTENDS Integers, FiniteSets

CONSTANTS
  WordMod,        \* number of words (2^32 in the program)
  NUMREGS,        \* registers; register 0 reads as zero (32)
  A0,             \* the register a system call returns in (10)
  PREFETCH_SIZE,  \* instructions one bus read brings in (8)
  RamAddr,        \* addresses of the RAM device
  WritableAddr,   \* those whose permissions admit a write
  CsrAddr,        \* addresses of the CSR device
  Buffers,        \* what a system call may write: sets of addresses
  Grants,         \* blocks sys_brk may take: sets of addresses
  Results,        \* values it may return or write (all words)
  Decode          \* the instruction each word stands for

Word == 0 .. WordMod - 1
Regs == 0 .. NUMREGS - 1

(* optype_t, and within a type the functions that execute tells apart.     *)
InstrKinds ==
  {<<"R", "ADD">>, <<"R", "bad">>, <<"I", "ADDI">>, <<"I", "LW">>,
   <<"I", "JALR">>, <<"I", "bad">>, <<"S", "SW">>, <<"S", "bad">>,
   <<"B", "BEQ">>, <<"B", "bad">>, <<"U", "LUI">>, <<"J", "JAL">>,
   <<"C", "ECALL">>, <<"Unknown", "bad">>}

Instr == [kind : InstrKinds, rd : Regs, rs1 : Regs, rs2 : Regs, imm : Int]

ASSUME MachineAssumption ==
  /\ WordMod \in Nat \ {0, 1}
  /\ NUMREGS \in Nat \ {0}
  /\ A0 \in Regs \ {0}
  /\ PREFETCH_SIZE \in Nat \ {0}
  /\ RamAddr \subseteq Word /\ CsrAddr \subseteq Word
  /\ WritableAddr \subseteq RamAddr
  /\ RamAddr \cap CsrAddr = {}
  /\ Buffers \subseteq SUBSET WritableAddr
  /\ Grants \subseteq SUBSET WritableAddr
  /\ Results \subseteq Word
  /\ Decode \in [Word -> Instr]

Wrap(x) == x % WordMod

(* bus_find_device: BUS_OK.                                                *)
Mapped(a) == a \in RamAddr \cup CsrAddr

(* The words one prefetch reads, or tries to.                              *)
Window(a) == a .. a + PREFETCH_SIZE - 1

(* REG_R and REG_W.                                                        *)
RegRead(r, x)     == IF x = 0 THEN 0 ELSE r[x]
RegWrite(r, x, v) == [r EXCEPT ![x] = IF x = 0 THEN 0 ELSE v]
=============================================================================
