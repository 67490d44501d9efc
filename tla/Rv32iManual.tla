---------------------------- MODULE Rv32iManual ----------------------------
(***************************************************************************)
(* What the RISC-V manual says of RV32I: the encoding of an instruction    *)
(* and its effect.  It is the reference of module Rv32i and models no code *)
(* of the emulator.  An instruction is a record: its mnemonic, registers   *)
(* and (signed) immediate, as an assembler gets them.                      *)
(***************************************************************************)
EXTENDS Integers

CONSTANT XLEN   \* the width of a register

ASSUME XlenAssumption == XLEN \in 21 .. 32

Word      == 0 .. 2^XLEN - 1
Wrap(x)   == x % 2^XLEN
Signed(x) == IF x < 2^(XLEN - 1) THEN x ELSE x - 2^XLEN
SignExtend(x, n) == IF x < 2^(n - 1) THEN x ELSE x - 2^n

Loads    == {"LB", "LH", "LW", "LBU", "LHU"}
Stores   == {"SB", "SH", "SW"}
Branches == {"BEQ", "BNE", "BLT", "BGE", "BLTU", "BGEU"}
AluI     == {"ADDI", "SLTI", "SLTIU", "XORI", "ORI", "ANDI"}
ShiftI   == {"SLLI", "SRLI", "SRAI"}
AluR     == {"ADD", "SUB", "SLL", "SLT", "SLTU", "XOR", "SRL", "SRA", "OR", "AND"}
WritesRd == Loads \cup AluI \cup ShiftI \cup AluR \cup {"LUI", "AUIPC", "JAL", "JALR"}
Mnemonics == WritesRd \cup Stores \cup Branches \cup {"FENCE", "ECALL", "EBREAK"}

\* What an assembler may be told besides: an instruction of the M extension,
\* one on the CSR file, and function codes that no instruction has.
Others == {"MUL", "CSRRW", "RESERVED", "BRANCH2", "LOAD3"}

----------------------------------------------------------------------------
Format(o) ==
  CASE o \in AluR \cup {"MUL", "RESERVED"} -> "R" [] o \in Stores -> "S"
    [] o \in Branches \cup {"BRANCH2"} -> "B" [] o \in {"LUI", "AUIPC"} -> "U"
    [] o = "JAL" -> "J" [] OTHER -> "I"

Opcode(o) ==
  CASE o = "LUI" -> 55 [] o = "AUIPC" -> 23 [] o = "JAL" -> 111 [] o = "JALR" -> 103
    [] o = "FENCE" -> 15 [] o \in {"ECALL", "EBREAK", "CSRRW"} -> 115
    [] o \in Loads \cup {"LOAD3"} -> 3 [] Format(o) = "S" -> 35 [] Format(o) = "B" -> 99
    [] Format(o) = "R" -> 51 [] OTHER -> 19

Funct3(o) ==
  CASE o \in {"BNE", "LH", "SH", "SLLI", "SLL", "CSRRW"} -> 1
    [] o \in {"LW", "SW", "SLTI", "SLT", "BRANCH2"} -> 2
    [] o \in {"SLTIU", "SLTU", "LOAD3"} -> 3
    [] o \in {"BLT", "LBU", "XORI", "XOR"} -> 4
    [] o \in {"BGE", "LHU", "SRLI", "SRAI", "SRL", "SRA"} -> 5
    [] o \in {"BLTU", "ORI", "OR"} -> 6
    [] o \in {"BGEU", "ANDI", "AND"} -> 7
    [] OTHER -> 0

Funct7(o) ==
  CASE o \in {"SUB", "SRA", "SRAI"} -> 32 [] o = "MUL" -> 1 [] o = "RESERVED" -> 64
    [] OTHER -> 0

(* Bits and the number they stand for; & | ^ of C.                         *)
Bit(x, k)   == (x \div 2^k) % 2
Octet(b, k) == b[k] + 2 * b[k + 1] + 4 * b[k + 2] + 8 * b[k + 3]
                 + 16 * b[k + 4] + 32 * b[k + 5] + 64 * b[k + 6] + 128 * b[k + 7]
Number(b)   == Octet(b, 0) + 2^8 * Octet(b, 8) + 2^16 * Octet(b, 16) + 2^24 * Octet(b, 24)

BitsWhere(P(_)) == Number([k \in 0 .. 31 |-> IF k < XLEN /\ P(k) THEN 1 ELSE 0])
And(x, y) == BitsWhere(LAMBDA k : Bit(x, k) = 1 /\ Bit(y, k) = 1)
Or(x, y)  == BitsWhere(LAMBDA k : Bit(x, k) = 1 \/ Bit(y, k) = 1)
Xor(x, y) == BitsWhere(LAMBDA k : Bit(x, k) # Bit(y, k))

(* The bit of the immediate that bit b of the word holds, or -1.           *)
ImmBit(f, b) ==
  CASE f = "I" /\ b >= 20 -> b - 20
    [] f = "S" /\ b \in 7 .. 11 -> b - 7
    [] f = "S" /\ b >= 25 -> b - 20
    [] f = "B" /\ b = 7 -> 11
    [] f = "B" /\ b \in 8 .. 11 -> b - 7
    [] f = "B" /\ b \in 25 .. 30 -> b - 20
    [] f = "B" /\ b = 31 -> 12
    [] f = "U" /\ b >= 12 -> b - 12
    [] f = "J" /\ b \in 12 .. 19 -> b
    [] f = "J" /\ b = 20 -> 11
    [] f = "J" /\ b \in 21 .. 30 -> b - 20
    [] f = "J" /\ b = 31 -> 20
    [] OTHER -> -1

(* The immediates an instruction can hold.                                 *)
Encodable(m) ==
  /\ m \in [op : Mnemonics \cup Others, rd : 0 .. 31, rs1 : 0 .. 31, rs2 : 0 .. 31, imm : Int]
  /\ CASE Format(m.op) = "R" -> TRUE
       [] m.op \in ShiftI      -> m.imm \in 0 .. 31
       [] Format(m.op) = "B"   -> m.imm \in -2^12 .. 2^12 - 2 /\ m.imm % 2 = 0
       [] Format(m.op) = "U"   -> m.imm \in 0 .. 2^20 - 1
       [] Format(m.op) = "J"   -> m.imm \in -2^20 .. 2^20 - 2 /\ m.imm % 2 = 0
       [] OTHER                -> m.imm \in -2^11 .. 2^11 - 1

(* The word, as its bits: the upper bits of a shift's immediate are its    *)
(* function code.                                                          *)
Assemble(m) ==
  LET o   == m.op
      imm == IF o \in ShiftI THEN m.imm + 32 * Funct7(o) ELSE m.imm
  IN  [b \in 0 .. 31 |->
        LET k == ImmBit(Format(o), b)
        IN  CASE k >= 0 -> Bit(imm, k)
              [] k < 0 /\ b < 7 -> Bit(Opcode(o), b)
              [] k < 0 /\ b \in 7 .. 11 -> Bit(m.rd, b - 7)
              [] k < 0 /\ b \in 12 .. 14 -> Bit(Funct3(o), b - 12)
              [] k < 0 /\ b \in 15 .. 19 -> Bit(m.rs1, b - 15)
              [] k < 0 /\ b \in 20 .. 24 -> Bit(m.rs2, b - 20)
              [] k < 0 /\ b >= 25 -> Bit(Funct7(o), b - 25)]

----------------------------------------------------------------------------
Arith(o, x, y) ==
  LET n == y % 32
  IN  CASE o \in {"ADD", "ADDI"}   -> Wrap(x + y)
        [] o = "SUB"               -> Wrap(x - y)
        [] o \in {"SLT", "SLTI"}   -> IF Signed(x) < Signed(y) THEN 1 ELSE 0
        [] o \in {"SLTU", "SLTIU"} -> IF x < y THEN 1 ELSE 0
        [] o \in {"XOR", "XORI"}   -> Xor(x, y)
        [] o \in {"OR", "ORI"}     -> Or(x, y)
        [] o \in {"AND", "ANDI"}   -> And(x, y)
        [] o \in {"SLL", "SLLI"}   -> IF n < XLEN THEN (x % 2^(XLEN - n)) * 2^n ELSE 0
        [] o \in {"SRL", "SRLI"}   -> IF n < XLEN THEN x \div 2^n ELSE 0
        [] o \in {"SRA", "SRAI"}   ->
             IF n < XLEN THEN Wrap(Signed(x) \div 2^n) ELSE Wrap(Signed(x) \div 2^(XLEN - 1))

Upper(imm) == (imm % 2^(XLEN - 12)) * 2^12

(* The value of rd; x and y are the registers, w the word in memory.       *)
RdValue(m, x, y, pc, w) ==
  CASE m.op \in AluR -> Arith(m.op, x, y)
    [] m.op \in AluI \cup ShiftI -> Arith(m.op, x, Wrap(m.imm))
    [] m.op = "LUI" -> Upper(m.imm)
    [] m.op = "AUIPC" -> Wrap(pc + Upper(m.imm))
    [] m.op \in {"JAL", "JALR"} -> Wrap(pc + 4)
    [] m.op = "LW"  -> w
    [] m.op = "LHU" -> w % 2^16
    [] m.op = "LBU" -> w % 2^8
    [] m.op = "LH"  -> Wrap(SignExtend(w % 2^16, 16))
    [] m.op = "LB"  -> Wrap(SignExtend(w % 2^8, 8))

Taken(o, x, y) ==
  CASE o = "BEQ" -> x = y [] o = "BNE" -> x # y
    [] o = "BLT" -> Signed(x) < Signed(y) [] o = "BGE" -> Signed(x) >= Signed(y)
    [] o = "BLTU" -> x < y [] o = "BGEU" -> x >= y

NextPc(m, x, y, pc) ==
  CASE m.op = "JAL" -> Wrap(pc + m.imm)
    [] m.op = "JALR" -> LET t == Wrap(x + m.imm) IN t - (t % 2)
    [] m.op \in Branches -> Wrap(pc + (IF Taken(m.op, x, y) THEN m.imm ELSE 4))
    [] OTHER -> Wrap(pc + 4)

(* The word in memory after a store of y.                                  *)
Stored(m, y, w) ==
  CASE m.op = "SW" -> y
    [] m.op = "SH" -> (w - (w % 2^16)) + (y % 2^16)
    [] m.op = "SB" -> (w - (w % 2^8)) + (y % 2^8)
    [] OTHER -> w
=============================================================================
