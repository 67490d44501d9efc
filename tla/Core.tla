-------------------------------- MODULE Core --------------------------------
(***************************************************************************)
(* One core: the five-stage pipeline of cpu.c, its prefetch buffer, its    *)
(* trap states, and the loop of cpu_thread that runs it (emulator.c).  One *)
(* action is one iteration of that loop: one call of core_cycle and, when  *)
(* that entered a trap, the call of trap_handler that follows at once.     *)
(***************************************************************************)
EXTENDS Machine

CONSTANTS
  Images,     \* contents RAM may have when the core starts
  Unwritten,  \* addresses nobody wrote yet: not readable
  InitPc,     \* e_entry of the image
  InitRegs,   \* registers at the start
  BADCODE     \* what a read of no device returns (0x0badc0de)

ASSUME CoreAssumption ==
  /\ Images \subseteq [RamAddr -> Word]
  /\ Unwritten \subseteq RamAddr
  /\ InitPc \in Word /\ BADCODE \in Word
  /\ InitRegs \in [Regs -> Word] /\ InitRegs[0] = 0

VARIABLES
  state, trap_state,           \* core_state_t, trap_state_t
  pc, registers,
  instruction, prefetch, prefetch_cnt,
  dec,                         \* instr_t: decoded instruction and its flags
  aluOut,
  trap_regs, mcause, mepc,
  mem, readable,               \* RAM, and the words of it that may be read
  busFree,                     \* FALSE: a failed write kept the bus mutex
  outcome,                     \* how the thread ended
  seen                         \* history: words since the last jump or trap

pipeline == <<instruction, prefetch, prefetch_cnt, dec, aluOut>>
trapRegs == <<trap_regs, mcause, mepc>>
memory   == <<mem, readable, seen>>
vars == <<state, trap_state, pc, registers, pipeline, trapRegs, memory, busFree,
          outcome>>

States     == {"FETCH", "DECODE", "EXECUTE", "MEMORY", "WRITEBACK", "TRAP"}
TrapStates == {"NONE", "ENTER", "HANDLE", "EXIT"}
Causes     == {"NO_CAUSE", "ILLEGAL_INSTRUCTION", "LOAD_ACCESS_FAULT",
               "STORE_ACCESS_FAULT", "ENV_CALL_UMODE"}

Decoded == [instr : Instr, rs1v : Word, rs2v : Word,
            isJump : BOOLEAN, writeRd : BOOLEAN, readMem : BOOLEAN,
            writeMem : BOOLEAN, memOffset : Word, jumpTarget : Word]

(* cpu_init, core_init and emulator_run: all zero but pc, x1, which holds  *)
(* an address of no device, and x2, the stack pointer.                     *)
Init ==
  /\ state = "FETCH" /\ trap_state = "NONE"
  /\ pc = InitPc
  /\ registers = InitRegs
  /\ instruction = 0 /\ prefetch = [j \in 0 .. PREFETCH_SIZE - 2 |-> 0]
  /\ prefetch_cnt = 0
  /\ dec = [instr |-> Decode[0], rs1v |-> 0, rs2v |-> 0,
            isJump |-> FALSE, writeRd |-> FALSE, readMem |-> FALSE,
            writeMem |-> FALSE, memOffset |-> 0, jumpTarget |-> 0]
  /\ aluOut = 0
  /\ trap_regs = [r \in Regs |-> 0] /\ mcause = "NO_CAUSE" /\ mepc = 0
  /\ mem \in Images
  /\ readable = RamAddr \ Unwritten
  /\ busFree = TRUE
  /\ outcome = "running"
  /\ seen = [a \in RamAddr |-> {mem[a]}]

----------------------------------------------------------------------------
(* _stage: the next stage, unless the stage trapped.                       *)
Next_(s) == state' = s /\ UNCHANGED <<trap_state, mcause>>

cause_trap(cause) == state' = "TRAP" /\ trap_state' = "ENTER" /\ mcause' = cause

Running(s) == outcome = "running" /\ state = s

FetchBuffered ==
  /\ Running("FETCH") /\ prefetch_cnt # 0
  /\ instruction' = prefetch[PREFETCH_SIZE - 1 - prefetch_cnt]
  /\ prefetch_cnt' = prefetch_cnt - 1
  /\ Next_("DECODE")
  /\ UNCHANGED <<pc, registers, prefetch, dec, aluOut, trap_regs, mepc, memory,
                 busFree, outcome>>

FetchRefillCountsItself ==   \* mutant
  /\ Running("FETCH") /\ prefetch_cnt = 0 /\ busFree
  /\ Window(pc) \subseteq readable
  /\ instruction' = mem[pc]
  /\ prefetch' = [j \in 0 .. PREFETCH_SIZE - 2 |-> mem[pc + 1 + j]]
  /\ prefetch_cnt' = PREFETCH_SIZE
  /\ Next_("DECODE")
  /\ UNCHANGED <<pc, registers, dec, aluOut, trap_regs, mepc, memory, busFree,
                 outcome>>

(* bus_read_multiple fills instruction and, behind it, prefetch.           *)
FetchRefill ==
  /\ Running("FETCH") /\ prefetch_cnt = 0 /\ busFree
  /\ Window(pc) \subseteq readable
  /\ instruction' = mem[pc]
  /\ prefetch' = [j \in 0 .. PREFETCH_SIZE - 2 |-> mem[pc + 1 + j]]
  /\ prefetch_cnt' = PREFETCH_SIZE - 1
  /\ Next_("DECODE")
  /\ UNCHANGED <<pc, registers, dec, aluOut, trap_regs, mepc, memory, busFree,
                 outcome>>

(* assert(false) after a failed read; the CSR device has no read function, *)
(* and calling it kills the process too.                                   *)
FetchFails ==
  /\ Running("FETCH") /\ prefetch_cnt = 0 /\ busFree
  /\ ~(Window(pc) \subseteq readable)
  /\ outcome' = IF pc \in CsrAddr THEN "aborted" ELSE "fetchFailed"
  /\ UNCHANGED <<state, trap_state, pc, registers, pipeline, trapRegs, memory,
                 busFree>>

decode ==
  /\ Running("DECODE")
  /\ LET i == Decode[instruction]
     IN  /\ dec' = [dec EXCEPT
                      !.instr = i,
                      !.rs1v = RegRead(registers, i.rs1),
                      !.rs2v = RegRead(registers, i.rs2),
                      !.isJump = FALSE, !.writeRd = FALSE,
                      !.readMem = FALSE, !.writeMem = FALSE]
         /\ IF i.kind[1] = "Unknown" THEN cause_trap("ILLEGAL_INSTRUCTION")
            ELSE Next_("EXECUTE")
  /\ UNCHANGED <<pc, registers, instruction, prefetch, prefetch_cnt, aluOut,
                 trap_regs, mepc, memory, busFree, outcome>>

----------------------------------------------------------------------------
(* execute, one definition for each optype.                                *)
kind    == dec.instr.kind
BaseImm == Wrap(dec.rs1v + dec.instr.imm)

ExecuteR ==
  /\ kind[1] = "R"
  /\ dec' = [dec EXCEPT !.writeRd = TRUE]
  /\ \/ kind[2] = "ADD" /\ aluOut' = Wrap(dec.rs1v + dec.rs2v) /\ Next_("MEMORY")
     \/ kind[2] = "bad" /\ UNCHANGED aluOut /\ cause_trap("ILLEGAL_INSTRUCTION")

ExecuteI ==
  /\ kind[1] = "I" /\ kind[2] # "bad"
  /\ \/ /\ kind[2] = "ADDI"
        /\ aluOut' = BaseImm
        /\ dec' = [dec EXCEPT !.writeRd = TRUE]
     \/ /\ kind[2] = "LW"
        /\ aluOut' = dec.rs2v
        /\ dec' = [dec EXCEPT !.writeRd = TRUE, !.readMem = TRUE, !.memOffset = BaseImm]
     \/ /\ kind[2] = "JALR"
        /\ aluOut' = Wrap(pc + 1)
        /\ dec' = [dec EXCEPT !.writeRd = TRUE, !.isJump = TRUE, !.jumpTarget = BaseImm]
  /\ Next_("MEMORY")

ExecuteS ==
  /\ kind = <<"S", "SW">>
  /\ aluOut' = dec.rs2v
  /\ dec' = [dec EXCEPT !.writeMem = TRUE, !.memOffset = BaseImm]
  /\ Next_("MEMORY")

(* No case for the unassigned funct3: aluOut is the last instruction's.    *)
ExecuteB ==
  /\ kind[1] = "B"
  /\ aluOut' = IF kind[2] = "bad" THEN aluOut
               ELSE IF dec.rs1v = dec.rs2v THEN 1 ELSE 0
  /\ dec' = [dec EXCEPT !.jumpTarget = Wrap(pc + dec.instr.imm),
                        !.isJump = (aluOut' = 1)]
  /\ Next_("MEMORY")

ExecuteU ==
  /\ kind[1] = "U"
  /\ aluOut' = Wrap(dec.instr.imm)
  /\ dec' = [dec EXCEPT !.writeRd = TRUE]
  /\ Next_("MEMORY")

ExecuteJ ==
  /\ kind[1] = "J"
  /\ aluOut' = Wrap(pc + 1)
  /\ dec' = [dec EXCEPT !.writeRd = TRUE, !.isJump = TRUE,
                        !.jumpTarget = Wrap(pc + dec.instr.imm)]
  /\ Next_("MEMORY")

ExecuteC ==
  /\ kind[1] = "C"
  /\ UNCHANGED <<dec, aluOut>>
  /\ cause_trap("ENV_CALL_UMODE")

execute ==
  /\ Running("EXECUTE")
  /\ ExecuteR \/ ExecuteI \/ ExecuteS \/ ExecuteB \/ ExecuteU \/ ExecuteJ \/ ExecuteC
  /\ UNCHANGED <<pc, registers, instruction, prefetch, prefetch_cnt, trap_regs,
                 mepc, memory, busFree, outcome>>

(* The assertions of execute: unassigned funct3 of I and S instructions.   *)
ExecuteAsserts ==
  /\ Running("EXECUTE")
  /\ kind \in {<<"I", "bad">>, <<"S", "bad">>}
  /\ outcome' = "aborted"
  /\ UNCHANGED <<state, trap_state, pc, registers, pipeline, trapRegs, memory,
                 busFree>>

----------------------------------------------------------------------------
(* memory_access.  The mmu answers a read it refuses with zero and drops a *)
(* write it refuses: the bus status stays BUS_OK and nothing traps.        *)
NoAccess ==
  /\ ~dec.readMem /\ ~dec.writeMem
  /\ Next_("WRITEBACK")
  /\ seen' = IF dec.isJump THEN [a \in RamAddr |-> {mem[a]}] ELSE seen
  /\ UNCHANGED <<aluOut, mem, readable>>

Load ==
  /\ dec.readMem /\ busFree
  /\ \/ /\ Mapped(dec.memOffset)
        /\ aluOut' = IF dec.memOffset \in readable THEN mem[dec.memOffset] ELSE 0
        /\ Next_("WRITEBACK")
     \/ /\ ~Mapped(dec.memOffset)
        /\ aluOut' = BADCODE
        /\ cause_trap("LOAD_ACCESS_FAULT")
  /\ UNCHANGED memory

Store ==
  /\ dec.writeMem /\ busFree
  /\ UNCHANGED aluOut
  /\ LET a == dec.memOffset
     IN  \/ /\ a \in WritableAddr
            /\ mem'      = [mem EXCEPT ![a] = aluOut]
            /\ readable' = readable \cup {a}
            /\ seen'     = [seen EXCEPT ![a] = @ \cup {aluOut}]
            /\ Next_("WRITEBACK")
         \/ /\ Mapped(a) /\ a \notin WritableAddr
            /\ UNCHANGED memory /\ Next_("WRITEBACK")
         \/ /\ ~Mapped(a)
            /\ UNCHANGED memory /\ cause_trap("STORE_ACCESS_FAULT")

memory_access ==
  /\ Running("MEMORY")
  /\ NoAccess \/ Load \/ Store
  /\ UNCHANGED <<pc, registers, instruction, prefetch, prefetch_cnt, dec,
                 trap_regs, mepc, busFree, outcome>>

NextPc == IF dec.isJump THEN dec.jumpTarget ELSE Wrap(pc + 1)

WritebackKeepsPrefetch ==   \* mutant
  /\ Running("WRITEBACK")
  /\ registers' = IF dec.writeRd THEN RegWrite(registers, dec.instr.rd, aluOut)
                  ELSE registers
  /\ pc' = NextPc
  /\ Next_("FETCH")
  /\ UNCHANGED <<pipeline, trap_regs, mepc, memory, busFree, outcome>>

writeback ==
  /\ Running("WRITEBACK")
  /\ registers' = IF dec.writeRd THEN RegWrite(registers, dec.instr.rd, aluOut)
                  ELSE registers
  /\ pc' = NextPc
  /\ prefetch_cnt' = IF dec.isJump THEN 0 ELSE prefetch_cnt
  /\ Next_("FETCH")
  /\ UNCHANGED <<instruction, prefetch, dec, aluOut, trap_regs, mepc, memory,
                 busFree, outcome>>

----------------------------------------------------------------------------
(* trap in state ENTER, followed by trap_handler in the same iteration.    *)
TrapEnter ==
  /\ Running("TRAP") /\ trap_state = "ENTER"
  /\ trap_state' = "HANDLE"
  /\ mepc' = pc
  /\ prefetch_cnt' = 0
  /\ UNCHANGED <<state, pc, registers, instruction, prefetch, dec, aluOut, mcause>>

(* trap_handler stops the core for every cause but a system call, and for  *)
(* exit, an unknown call and an open whose file name cannot be read.       *)
TrapStops ==
  /\ TrapEnter
  /\ trap_regs' = registers
  /\ outcome' = "exited"
  /\ UNCHANGED <<memory, busFree>>

(* The assertions of sys_write and of bus_write_multiple.                  *)
SyscallAborts ==
  /\ TrapEnter /\ mcause = "ENV_CALL_UMODE"
  /\ trap_regs' = registers
  /\ outcome' = "aborted"
  /\ UNCHANGED <<memory, busFree>>

(* A call that returns sets a0 of the saved registers.  Besides, sys_brk   *)
(* may take a block, which nobody has written then, ...                    *)
SyscallReturns ==
  /\ TrapEnter /\ mcause = "ENV_CALL_UMODE"
  /\ \E v \in Results : trap_regs' = [registers EXCEPT ![A0] = v]
  /\ \E G \in Grants \cup {{}} : readable' = readable \ G
  /\ seen' = [a \in RamAddr |-> {mem[a]}]
  /\ UNCHANGED <<mem, busFree, outcome>>

(* ... and sys_read and sys_fstat write a buffer.  bus_write_multiple      *)
(* keeps the mutex when the device refuses the write.                      *)
SyscallWrites ==
  /\ TrapEnter /\ mcause = "ENV_CALL_UMODE" /\ busFree
  /\ \E v \in Results : trap_regs' = [registers EXCEPT ![A0] = v]
  /\ \/ \E B \in Buffers : \E f \in [B -> Results] :
          /\ mem' = [a \in RamAddr |-> IF a \in B THEN f[a] ELSE mem[a]]
          /\ readable' = readable \cup B
          /\ UNCHANGED busFree
     \/ busFree' = FALSE /\ UNCHANGED <<mem, readable>>
  /\ seen' = [a \in RamAddr |-> {mem'[a]}]
  /\ UNCHANGED outcome

TrapHandledStays ==   \* mutant
  /\ Running("TRAP") /\ trap_state = "HANDLE"
  /\ trap_state' = "HANDLE"
  /\ UNCHANGED <<state, pc, registers, pipeline, trapRegs, memory, busFree, outcome>>

TrapHandled ==
  /\ Running("TRAP") /\ trap_state = "HANDLE"
  /\ trap_state' = "EXIT"
  /\ UNCHANGED <<state, pc, registers, pipeline, trapRegs, memory, busFree, outcome>>

TrapExitKeepsRegisters ==   \* mutant
  /\ Running("TRAP") /\ trap_state = "EXIT"
  /\ pc' = Wrap(mepc + 1)
  /\ trap_state' = "NONE" /\ state' = "FETCH"
  /\ prefetch_cnt' = 0
  /\ UNCHANGED <<registers, instruction, prefetch, dec, aluOut, trapRegs, memory,
                 busFree, outcome>>

TrapExit ==
  /\ Running("TRAP") /\ trap_state = "EXIT"
  /\ registers' = trap_regs
  /\ pc' = Wrap(mepc + 1)
  /\ trap_state' = "NONE" /\ state' = "FETCH"
  /\ prefetch_cnt' = 0
  /\ UNCHANGED <<instruction, prefetch, dec, aluOut, trapRegs, memory, busFree,
                 outcome>>

Fetch   == FetchBuffered \/ FetchRefill \/ FetchFails
Execute == execute \/ ExecuteAsserts
Trap    == TrapStops \/ SyscallAborts \/ SyscallReturns \/ SyscallWrites
           \/ TrapHandled \/ TrapExit

Next == Fetch \/ decode \/ Execute \/ memory_access \/ writeback \/ Trap

(* cpu_thread is a loop that nothing but the bus mutex suspends.           *)
Spec     == Init /\ [][Next]_vars
FairSpec == Spec /\ WF_vars(Next)

----------------------------------------------------------------------------
(* Every component of core_t keeps its range; in particular the prefetch   *)
(* counter never leaves its buffer and register 0 stays zero.              *)
TypeOK ==
  /\ state \in States /\ trap_state \in TrapStates
  /\ state = "TRAP" <=> trap_state # "NONE"
  /\ pc \in Word /\ mepc \in Word /\ instruction \in Word /\ aluOut \in Word
  /\ registers \in [Regs -> Word] /\ registers[0] = 0
  /\ trap_regs \in [Regs -> Word] /\ trap_regs[0] = 0
  /\ prefetch \in [0 .. PREFETCH_SIZE - 2 -> Word]
  /\ prefetch_cnt \in 0 .. PREFETCH_SIZE - 1
  /\ dec \in Decoded
  /\ mcause \in Causes
  /\ mem \in [RamAddr -> Word]
  /\ readable \subseteq RamAddr
  /\ busFree \in BOOLEAN
  /\ outcome \in {"running", "exited", "fetchFailed", "aborted"}
  /\ seen \in [RamAddr -> SUBSET Word]

(* The address of the k-th buffered word, when the core is in the middle   *)
(* of an instruction and when it is about to fetch the next one.           *)
BufferedAt(k) == IF state = "FETCH" THEN pc + k ELSE pc + 1 + k

(* What the prefetch buffer holds, and the instruction being executed, are *)
(* words memory held at the right addresses since the last jump or trap    *)
(* (fetch, and the flushes in writeback and trap).                         *)
PrefetchCoherent ==
  /\ \A k \in 0 .. prefetch_cnt - 1 :
       \/ state = "TRAP"
       \/ state = "WRITEBACK" /\ dec.isJump
       \/ /\ BufferedAt(k) \in RamAddr
          /\ prefetch[PREFETCH_SIZE - 1 - prefetch_cnt + k] \in seen[BufferedAt(k)]
  /\ state \in {"DECODE", "EXECUTE", "MEMORY"} =>
       pc \in RamAddr /\ instruction \in seen[pc]

(* The pipeline carries out the abstract machine: an instruction takes     *)
(* effect at once, in memory_access, and a system call when its handler    *)
(* returns.  Until writeback and the end of the trap, the effect on pc and *)
(* the registers is still on its way.                                      *)
Committed == state = "WRITEBACK"
InSyscall == state = "TRAP" /\ trap_state \in {"HANDLE", "EXIT"} /\ outcome = "running"

ArchPc   == IF Committed THEN NextPc
            ELSE IF InSyscall THEN Wrap(mepc + 1) ELSE pc
ArchRegs == IF Committed /\ dec.writeRd /\ dec.instr.rd # 0
            THEN [registers EXCEPT ![dec.instr.rd] = aluOut]
            ELSE IF InSyscall THEN trap_regs ELSE registers

Abstract == INSTANCE Isa WITH pc <- ArchPc, regs <- ArchRegs

ImplementsIsa == Abstract!IsaSpec

(* An instruction once fetched leaves the pipeline, or the thread ends:    *)
(* no stage waits for ever, whatever the bus does in a trap (core_cycle).  *)
InstructionsFinish ==
  outcome = "running" /\ state = "DECODE" ~> state = "FETCH" \/ outcome # "running"

(* fetch asserts that the read of the prefetch window does not fail; at    *)
(* least it does not where the instruction itself can be read.             *)
FetchNeverFails == outcome = "fetchFailed" => pc \notin readable

(* A core whose trap handler did not return false (cpu_thread: "core       *)
(* exiting") goes on to the next instruction.                              *)
HandledTrapsResume ==
  outcome = "running" /\ trap_state = "HANDLE"
    ~> state = "DECODE" \/ outcome # "running"
=============================================================================
