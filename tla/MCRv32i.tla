------------------------------ MODULE MCRv32i ------------------------------
(***************************************************************************)
(* Registers of 30 bits, the widest TLC's integers allow: nothing in RV32I *)
(* but the width of a register depends on bits 30 and 31.  Immediates and  *)
(* values are those at which a sign, a carry or a field changes.           *)
(***************************************************************************)
EXTENDS Rv32i

MCXLEN == 30

MCValues == {0, 5, 2^15 + 2^7, 2^29 - 1, 2^29, 2^30 - 1}
MCPcs    == {4096, 2^30 - 4}

(* Destination and sources: apart, all set, the same one, and x0.          *)
Triples == {<<10, 21, 7>>, <<31, 31, 31>>, <<0, 5, 0>>}

Imms(o) ==
  CASE Format(o) = "R" -> {0}
    [] Format(o) = "S" -> {0, 21, -1, 2047, -2048}
    [] Format(o) = "B" -> {4, -2, 2048, 4094, -4096, -2732}
    [] Format(o) = "U" -> {0, 1, 2^19 - 1, 2^19, 2^20 - 1}
    [] Format(o) = "J" -> {4, -2, 2048, 2^20 - 2, -2^20, -699052}
    [] o \in ShiftI -> {0, 1, 13, 29}
    [] o \in {"ECALL", "FENCE"} -> {0}
    [] o = "EBREAK" -> {1}
    [] OTHER -> {0, 5, -1, 2047, -2048}

MCPrograms ==
  UNION {{[op |-> o, rd |-> r[1], rs1 |-> r[2], rs2 |-> r[3], imm |-> i] :
            r \in Triples, i \in Imms(o)} :
         o \in Mnemonics \cup Others}
=============================================================================
