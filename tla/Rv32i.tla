------------------------------- MODULE Rv32i -------------------------------
(***************************************************************************)
(* One instruction of RV32I from the word in memory to its effect: the     *)
(* decoder, the arithmetic and the access widths of cpu.c, bit by bit.     *)
(* Module Core has the pipeline around it and module Bus the accesses that *)
(* fail; here every fetch, load and store succeeds.                        *)
(*                                                                         *)
(* XLEN is the width of a register, 32 in the program.                     *)
(***************************************************************************)
EXTENDS Rv32iManual

CONSTANTS
  Programs,   \* the instructions to execute, as their author wrote them
  Values,     \* what registers and memory hold
  Pcs         \* where the instruction is

ASSUME Rv32iAssumption ==
  /\ \A m \in Programs : Encodable(m)
  /\ Values \subseteq Word /\ Pcs \subseteq Word

VARIABLES
  asm,        \* history: the instruction that was assembled
  before,     \* history: registers, pc and the accessed word at its start
  state,
  instruction, dec, aluOut, registers, pc,
  mem,        \* the word at dec.memOffset
  cause       \* of the trap, if any

vars == <<asm, before, state, instruction, dec, aluOut, registers, pc, mem, cause>>

----------------------------------------------------------------------------
(* C on uint32_t and int32_t.                                              *)
Shl(x, n) == IF n < XLEN THEN (x % 2^(XLEN - n)) * 2^n ELSE 0
Shr(x, n) == IF n < XLEN THEN x \div 2^n ELSE 0
Flag(b)   == IF b THEN 1 ELSE 0

Field(i, lo, n) == Number([k \in 0 .. 31 |-> IF k < n THEN i[lo + k] ELSE 0])

AuipcIsUnknown ==   \* mutant
  [o \in 0 .. 127 |->
    CASE o \in {\b0000011, \b0010011, \b1100111} -> "I"
      [] o = \b0110111 -> "U" [] o = \b0100011 -> "S" [] o = \b0110011 -> "R"
      [] o = \b1100011 -> "B" [] o = \b1101111 -> "J" [] o = \b1110011 -> "C"
      [] OTHER -> "Unknown"]

(* decode_type_table.                                                      *)
decode_type_table ==
  [o \in 0 .. 127 |->
    CASE o \in {\b0000011, \b0010011, \b1100111} -> "I"
      [] o \in {\b0010111, \b0110111} -> "U"
      [] o = \b0100011 -> "S"
      [] o = \b0110011 -> "R"
      [] o = \b1100011 -> "B"
      [] o = \b1101111 -> "J"
      [] o = \b1110011 -> "C"
      [] OTHER -> "Unknown"]

(* opcode_t: opcode, funct3 and bit 5 of funct7.                           *)
OP == [
  LUI  |-> <<\b0110111, 0, 0>>, AUIPC |-> <<\b0010111, 0, 0>>,
  JAL  |-> <<\b1101111, 0, 0>>, JALR  |-> <<\b1100111, 0, 0>>,
  BEQ  |-> <<\b1100011, 0, 0>>, BNE   |-> <<\b1100011, 1, 0>>,
  BLT  |-> <<\b1100011, 4, 0>>, BGE   |-> <<\b1100011, 5, 0>>,
  BLTU |-> <<\b1100011, 6, 0>>, BGEU  |-> <<\b1100011, 7, 0>>,
  LB   |-> <<\b0000011, 0, 0>>, LH    |-> <<\b0000011, 1, 0>>,
  LW   |-> <<\b0000011, 2, 0>>, LBU   |-> <<\b0000011, 4, 0>>,
  LHU  |-> <<\b0000011, 5, 0>>,
  SB   |-> <<\b0100011, 0, 0>>, SH    |-> <<\b0100011, 1, 0>>,
  SW   |-> <<\b0100011, 2, 0>>,
  ADDI |-> <<\b0010011, 0, 0>>, SLTI  |-> <<\b0010011, 2, 0>>,
  SLTIU |-> <<\b0010011, 3, 0>>, XORI |-> <<\b0010011, 4, 0>>,
  ORI  |-> <<\b0010011, 6, 0>>, ANDI  |-> <<\b0010011, 7, 0>>,
  SLLI |-> <<\b0010011, 1, 0>>, SRLI  |-> <<\b0010011, 5, 0>>,
  SRAI |-> <<\b0010011, 5, 1>>,
  ADD  |-> <<\b0110011, 0, 0>>, SUB   |-> <<\b0110011, 0, 1>>,
  SLL  |-> <<\b0110011, 1, 0>>, SLT   |-> <<\b0110011, 2, 0>>,
  SLTU |-> <<\b0110011, 3, 0>>, XOR   |-> <<\b0110011, 4, 0>>,
  SRL  |-> <<\b0110011, 5, 0>>, SRA   |-> <<\b0110011, 5, 1>>,
  OR   |-> <<\b0110011, 6, 0>>, AND   |-> <<\b0110011, 7, 0>>]

Registers(m, x, y) ==
  [r \in 0 .. 31 |-> IF r = 0 THEN 0 ELSE IF r = m.rs1 THEN x
                     ELSE IF r = m.rs2 THEN y ELSE 0]

Init ==
  /\ asm \in Programs /\ pc \in Pcs /\ mem \in Values
  /\ \E x, y \in Values : registers = Registers(asm, x, y)
  /\ before = [registers |-> registers, pc |-> pc, mem |-> mem]
  /\ instruction = Assemble(asm)
  /\ state = "DECODE"
  /\ dec = [optype |-> "Unknown", opcode |-> 0, rd |-> 0, rs1v |-> 0, rs2v |-> 0,
            funct3 |-> 0, funct7 |-> 0, shamt |-> 0, imm12 |-> 0, imm20 |-> 0,
            isJump |-> FALSE, writeRd |-> FALSE, readMem |-> FALSE,
            writeMem |-> FALSE, memOffset |-> 0, jumpTarget |-> 0, bits |-> XLEN]
  /\ aluOut = 0 /\ cause = "none"

cause_trap(c) == state' = "TRAP" /\ cause' = c
Stage(s)      == state' = s /\ UNCHANGED cause

----------------------------------------------------------------------------
ImmSLikeI(i) == Field(i, 20, 12)   \* mutant

ImmS(i) == Field(i, 7, 5) + Field(i, 25, 7) * 2^5

ImmBKeepsBit0(i) ==   \* mutant
  Field(i, 31, 1) * 2^12 + Field(i, 25, 6) * 2^5 + Field(i, 8, 4) * 2 + Field(i, 7, 1) * 2^11

(* Only 12 bits are kept: the offset is halved.                            *)
ImmB(i) ==
  (Field(i, 31, 1) * 2^12 + Field(i, 25, 6) * 2^5 + Field(i, 8, 4) * 2
     + Field(i, 7, 1) * 2^11) \div 2

ImmJ(i) ==
  (Field(i, 31, 1) * 2^20 + Field(i, 21, 10) * 2 + Field(i, 20, 1) * 2^11
     + Field(i, 12, 8) * 2^12) \div 2

decode ==
  /\ state = "DECODE"
  /\ LET i == instruction
         type == decode_type_table[Field(i, 0, 7)]
     IN  /\ dec' = [dec EXCEPT
            !.isJump = FALSE, !.writeRd = FALSE, !.readMem = FALSE, !.writeMem = FALSE,
            !.opcode = Field(i, 0, 7), !.optype = type,
            !.rs1v = registers[Field(i, 15, 5)], !.rs2v = registers[Field(i, 20, 5)],
            !.funct3 = Field(i, 12, 3), !.shamt = Field(i, 20, 5), !.rd = Field(i, 7, 5),
            !.funct7 = IF type = "R" THEN Field(i, 25, 7) ELSE 0,
            !.imm12 = CASE type = "I" -> Field(i, 20, 12) [] type = "S" -> ImmS(i)
                        [] type = "B" -> ImmB(i) [] OTHER -> @,
            !.imm20 = CASE type = "U" -> Field(i, 12, 20) [] type = "J" -> ImmJ(i)
                        [] OTHER -> @]
         /\ IF type = "Unknown" THEN cause_trap("ILLEGAL_INSTRUCTION")
            ELSE Stage("EXECUTE")
  /\ UNCHANGED <<asm, before, instruction, aluOut, registers, pc, mem>>

----------------------------------------------------------------------------
op3 == <<dec.opcode, dec.funct3, dec.funct7 \div 32>>
op2 == <<dec.opcode, dec.funct3, 0>>
se12 == SignExtend(dec.imm12, 12)
se20ZeroExtended == dec.imm20   \* mutant
se20 == SignExtend(dec.imm20, 20)

ExecuteR ==
  /\ dec.optype = "R"
  /\ dec' = [dec EXCEPT !.writeRd = TRUE]
  /\ LET x == dec.rs1v
         y == dec.rs2v
         alu(v) == aluOut' = v /\ Stage("MEMORY")
     IN  \/ op3 = OP.ADD  /\ alu(Wrap(x + y))
         \/ op3 = OP.SUB  /\ alu(Wrap(x - y))
         \/ op3 = OP.SLL  /\ alu(Shl(x, y % 32))
         \/ op3 = OP.SLT  /\ alu(Flag(Signed(x) < Signed(y)))
         \/ op3 = OP.SLTU /\ alu(Flag(x < y))
         \/ op3 = OP.XOR  /\ alu(Xor(x, y))
         \/ op3 = OP.SRL  /\ alu(Shr(x, y % 32))
         \/ op3 = OP.SRA  /\ alu(Shr(x, y % 32))   \* (uint32_t)
         \/ op3 = OP.OR   /\ alu(Or(x, y))
         \/ op3 = OP.AND  /\ alu(And(x, y))
         \/ /\ \A n \in DOMAIN OP : op3 # OP[n]
            /\ UNCHANGED aluOut /\ cause_trap("ILLEGAL_INSTRUCTION")

(* decode cleared funct7, so that SRAI is out of reach.                    *)
ExecuteAluI ==
  /\ dec.optype = "I"
  /\ dec' = [dec EXCEPT !.writeRd = TRUE]
  /\ Stage("MEMORY")
  /\ LET x == dec.rs1v
         i == Wrap(se12)
     IN  \/ op3 = OP.ADDI  /\ aluOut' = Wrap(x + i)
         \/ op3 = OP.SLTI  /\ aluOut' = Flag(Signed(x) < se12)
         \/ op3 = OP.SLTIU /\ aluOut' = Flag(x < i)
         \/ op3 = OP.XORI  /\ aluOut' = Xor(x, i)
         \/ op3 = OP.ORI   /\ aluOut' = Or(x, i % 2^12)   \* &0xfff
         \/ op3 = OP.ANDI  /\ aluOut' = And(x, i)
         \/ op3 = OP.SLLI  /\ aluOut' = Shl(x, dec.shamt)
         \/ op3 = OP.SRLI  /\ aluOut' = Shr(x, dec.shamt)

(* memory_access overwrites what execute leaves in aluOut.                 *)
ExecuteLoad ==
  /\ dec.optype = "I"
  /\ \E n \in {"LB", "LBU", "LH", "LHU", "LW"} :
       /\ op3 = OP[n]
       /\ dec' = [dec EXCEPT !.writeRd = TRUE, !.readMem = TRUE,
                    !.memOffset = Wrap(dec.rs1v + se12),
                    !.bits = IF n = "LW" THEN XLEN
                             ELSE IF n \in {"LH", "LHU"} THEN 16 ELSE 8]
  /\ UNCHANGED aluOut /\ Stage("MEMORY")

ExecuteJalr ==
  /\ dec.optype = "I" /\ op3 = OP.JALR
  /\ dec' = [dec EXCEPT !.writeRd = TRUE, !.isJump = TRUE,
                        !.jumpTarget = Wrap(dec.rs1v + se12)]
  /\ aluOut' = Wrap(pc + 4) /\ Stage("MEMORY")

ExecuteS ==
  /\ dec.optype = "S"
  /\ \E n \in {"SB", "SH", "SW"} :
       /\ op2 = OP[n]
       /\ dec' = [dec EXCEPT !.writeMem = TRUE, !.memOffset = Wrap(dec.rs1v + se12),
                    !.bits = CASE n = "SB" -> 8 [] n = "SH" -> 16 [] n = "SW" -> XLEN]
  /\ aluOut' = dec.rs2v % 2^dec'.bits /\ Stage("MEMORY")

(* The assertions of I and S instructions.                                 *)
ExecuteAsserts ==
  /\ dec.optype \in {"I", "S"}
  /\ (IF dec.optype = "I" THEN op3 ELSE op2) \notin {OP[n] : n \in DOMAIN OP}
  /\ state' = "ABORTED" /\ UNCHANGED <<dec, aluOut, cause>>

ExecuteB ==
  /\ dec.optype = "B"
  /\ LET x == dec.rs1v
         y == dec.rs2v
     IN  \/ op2 = OP.BEQ  /\ aluOut' = Flag(x = y)
         \/ op2 = OP.BNE  /\ aluOut' = Flag(x # y)
         \/ op2 = OP.BLT  /\ aluOut' = Flag(Signed(x) < Signed(y))
         \/ op2 = OP.BLTU /\ aluOut' = Flag(x < y)
         \/ op2 = OP.BGE  /\ aluOut' = Flag(Signed(x) >= Signed(y))
         \/ op2 = OP.BGEU /\ aluOut' = Flag(x >= y)
         \/ (\A n \in DOMAIN OP : op2 # OP[n]) /\ UNCHANGED aluOut
  /\ dec' = [dec EXCEPT !.jumpTarget = Wrap(pc + se12 * 2), !.isJump = (aluOut' = 1)]
  /\ Stage("MEMORY")

ExecuteULowerBits ==   \* mutant
  /\ dec.optype = "U"
  /\ dec' = [dec EXCEPT !.writeRd = TRUE]
  /\ \/ dec.opcode = OP.LUI[1]   /\ aluOut' = Wrap(dec.imm20)
     \/ dec.opcode = OP.AUIPC[1] /\ aluOut' = Wrap(dec.imm20 + pc)
  /\ Stage("MEMORY")

ExecuteU ==
  /\ dec.optype = "U"
  /\ dec' = [dec EXCEPT !.writeRd = TRUE]
  /\ \/ dec.opcode = OP.LUI[1]   /\ aluOut' = Shl(dec.imm20, 12)
     \/ dec.opcode = OP.AUIPC[1] /\ aluOut' = Wrap(Shl(Wrap(se20), 12) + pc)
  /\ Stage("MEMORY")

ExecuteJ ==
  /\ dec.optype = "J"
  /\ dec' = [dec EXCEPT !.writeRd = TRUE, !.isJump = TRUE,
                        !.jumpTarget = Wrap(se20 * 2 + pc)]
  /\ aluOut' = Wrap(pc + 4) /\ Stage("MEMORY")

(* The opcode alone is compared with OP_ECALL.                             *)
ExecuteC ==
  /\ dec.optype = "C"
  /\ UNCHANGED <<dec, aluOut>> /\ cause_trap("ENV_CALL_UMODE")

execute ==
  /\ state = "EXECUTE"
  /\ \/ ExecuteR \/ ExecuteAluI \/ ExecuteLoad \/ ExecuteJalr \/ ExecuteS
     \/ ExecuteAsserts \/ ExecuteB \/ ExecuteU \/ ExecuteJ \/ ExecuteC
  /\ UNCHANGED <<asm, before, instruction, registers, pc, mem>>

----------------------------------------------------------------------------
(* read_ram_single and write_ram_single: the low bits of the word.         *)
memory_access ==
  /\ state = "MEMORY"
  /\ aluOut' = IF dec.readMem THEN mem % 2^dec.bits ELSE aluOut
  /\ mem' = IF dec.writeMem THEN (mem - (mem % 2^dec.bits)) + (aluOut % 2^dec.bits) ELSE mem
  /\ Stage("WRITEBACK")
  /\ UNCHANGED <<asm, before, instruction, dec, registers, pc>>

writeback ==
  /\ state = "WRITEBACK"
  /\ registers' = IF dec.writeRd /\ dec.rd # 0 THEN [registers EXCEPT ![dec.rd] = aluOut]
                  ELSE registers
  /\ pc' = IF dec.isJump THEN dec.jumpTarget ELSE Wrap(pc + 4)
  /\ Stage("FETCH")
  /\ UNCHANGED <<asm, before, instruction, dec, aluOut, mem>>

Next == decode \/ execute \/ memory_access \/ writeback
Spec == Init /\ [][Next]_vars

----------------------------------------------------------------------------
(* The fields of instr_t hold what decode and execute put into them: each  *)
(* is a bit field, and what does not fit would be lost (cpu.h).            *)
TypeOK ==
  /\ state \in {"DECODE", "EXECUTE", "MEMORY", "WRITEBACK", "FETCH", "TRAP", "ABORTED"}
  /\ dec.opcode \in 0 .. 127 /\ dec.rd \in 0 .. 31 /\ dec.shamt \in 0 .. 31
  /\ dec.funct3 \in 0 .. 7 /\ dec.funct7 \in 0 .. 127
  /\ dec.imm12 \in 0 .. 2^12 - 1 /\ dec.imm20 \in 0 .. 2^20 - 1
  /\ aluOut \in Word /\ pc \in Word /\ mem \in Word
  /\ dec.memOffset \in Word /\ dec.jumpTarget \in Word
  /\ \A r \in 0 .. 31 : registers[r] \in Word

Rs1   == before.registers[asm.rs1]
Rs2   == before.registers[asm.rs2]
Done  == state = "FETCH"
Ended == Done \/ state \in {"TRAP", "ABORTED"}
Value == RdValue(asm, Rs1, Rs2, before.pc, before.mem)
Computed ==
  registers = IF asm.op \in WritesRd /\ asm.rd # 0
              THEN [before.registers EXCEPT ![asm.rd] = Value] ELSE before.registers

(* Where the code loses a sign: it shifts right logically, cuts the         *)
(* immediate of ORI to 12 bits and extends no loaded byte or halfword.     *)
SignLost ==
  \/ asm.op \in {"SRA", "SRAI"} /\ Signed(Rs1) < 0
  \/ asm.op = "ORI" /\ asm.imm < 0
  \/ asm.op = "LB" /\ Bit(before.mem, 7) = 1
  \/ asm.op = "LH" /\ Bit(before.mem, 15) = 1

(* What an instruction of RV32I computes is what the manual says, and it   *)
(* changes no other register, except where SignLost.                       *)
Computes == Done /\ asm.op \in Mnemonics /\ ~SignLost => Computed

(* Jumps and taken branches go where the manual says, forwards and         *)
(* backwards and around the end of the address space; bit 0 of a JALR      *)
(* target is not cleared.                                                  *)
Jumps ==
  Done /\ asm.op \in Mnemonics =>
    \/ pc = NextPc(asm, Rs1, Rs2, before.pc)
    \/ asm.op = "JALR" /\ Wrap(Rs1 + asm.imm) % 2 = 1

(* A load or store accesses its address at its width, and a store leaves   *)
(* the rest of the word as it was.                                         *)
Accesses ==
  Done =>
    /\ dec.readMem = (asm.op \in Loads) /\ dec.writeMem = (asm.op \in Stores)
    /\ asm.op \in Loads \cup Stores => dec.memOffset = Wrap(Rs1 + asm.imm)
    /\ mem = Stored(asm, Rs2, before.mem)

(* ECALL and the encodings no instruction has trap, and nothing else does; *)
(* except FENCE, which is unknown, EBREAK, which acts as ECALL, and the    *)
(* CSR instructions, which the README lists as missing.                    *)
Traps ==
  Ended /\ asm.op \in (Mnemonics \cup {"RESERVED"}) \ {"FENCE", "EBREAK"} =>
    cause = CASE asm.op = "ECALL" -> "ENV_CALL_UMODE"
              [] asm.op = "RESERVED" -> "ILLEGAL_INSTRUCTION"
              [] OTHER -> "none"

(* "RV32I Base Instruction Set fully implemented" (README.md): no          *)
(* instruction that completes loses a sign (cases OP_SRA, OP_SRAI and      *)
(* OP_ORI of execute, and memory_access for LB and LH).                    *)
BaseSetImplemented == Done /\ asm.op \in Mnemonics => Computed
=============================================================================
