----------------------------- MODULE CoreProofs -----------------------------
(***************************************************************************)
(* The pipeline for every word size, number of registers, prefetch size,   *)
(* memory map, instruction table and program.                              *)
(*                                                                         *)
(* PrefetchCoherent is inductive together with the types and with          *)
(* SeenNow: what memory holds now is among what it held since the flush.   *)
(***************************************************************************)
EXTENDS Core, TLAPS

(* What memory holds now is among what it held since the last flush.       *)
SeenNow == \A a \in RamAddr : mem[a] \in seen[a]

(* What is inductive about the pipeline and its prefetch buffer.           *)
CoreInv == TypeOK /\ SeenNow /\ PrefetchCoherent

(* Addresses and results are cut to the width of a word.                   *)
LEMMA WrapType == \A x \in Int : Wrap(x) \in Word
BY MachineAssumption DEF Wrap, Word

(* Within RAM, adding one does not wrap.                                   *)
LEMMA WrapInside ==
  ASSUME NEW x \in Word, x + 1 \in RamAddr
  PROVE  Wrap(x + 1) = x + 1
BY MachineAssumption DEF Wrap, Word

(* core_init: all is zero, and the buffer is empty.                        *)
LEMMA InitInv == Init => CoreInv
<1> SUFFICES ASSUME Init PROVE CoreInv
  OBVIOUS
<1> USE DEF Init
<1>1. 0 \in Word /\ WordMod \in Nat /\ 0 \in Regs /\ PREFETCH_SIZE - 1 \in Nat
  BY MachineAssumption DEF Word, Regs
<1>2. mem \in [RamAddr -> Word]
  BY CoreAssumption
<1>3. seen \in [RamAddr -> SUBSET Word] /\ SeenNow
  BY <1>2 DEF SeenNow
<1>4. dec \in Decoded
  <2>1. Decode[0] \in Instr
    BY <1>1, MachineAssumption
  <2> QED
    BY <1>1, <2>1 DEF Decoded
<1>5. /\ registers \in [Regs -> Word] /\ registers[0] = 0
      /\ trap_regs \in [Regs -> Word] /\ trap_regs[0] = 0
      /\ prefetch \in [0 .. PREFETCH_SIZE - 2 -> Word]
  BY <1>1, CoreAssumption
<1>6. TypeOK
  BY <1>1, <1>2, <1>3, <1>4, <1>5, CoreAssumption
     DEF TypeOK, States, TrapStates, Causes
<1>7. PrefetchCoherent
  BY DEF PrefetchCoherent
<1> QED
  BY <1>3, <1>6, <1>7 DEF CoreInv

----------------------------------------------------------------------------
(* The actions, one lemma for each stage.                                  *)
LEMMA FetchInv == CoreInv /\ Fetch => CoreInv'
<1> SUFFICES ASSUME CoreInv, Fetch PROVE CoreInv'
  OBVIOUS
<1> USE DEF CoreInv
<1>0. pc \in Int /\ PREFETCH_SIZE \in Nat /\ PREFETCH_SIZE >= 1
      /\ prefetch_cnt \in 0 .. PREFETCH_SIZE - 1 /\ trap_state = "NONE"
  BY MachineAssumption DEF TypeOK, Word, Fetch, FetchBuffered, FetchRefill, FetchFails, Running
<1>1. CASE FetchBuffered
  <2> USE <1>1 DEF FetchBuffered, Running, Next_, memory
  <2>1. TypeOK'
    BY <1>0 DEF TypeOK, States
  <2>2. SeenNow'
    BY DEF SeenNow
  <2>3. /\ pc \in RamAddr
        /\ instruction' \in seen[pc]
    <3>1. /\ BufferedAt(0) \in RamAddr
          /\ prefetch[PREFETCH_SIZE - 1 - prefetch_cnt + 0] \in seen[BufferedAt(0)]
      BY <1>0 DEF PrefetchCoherent
    <3> QED
      BY <3>1, <1>0 DEF BufferedAt
  <2>4. ASSUME NEW k \in 0 .. prefetch_cnt' - 1
        PROVE  /\ BufferedAt(k)' \in RamAddr
               /\ prefetch'[PREFETCH_SIZE - 1 - prefetch_cnt' + k] \in seen'[BufferedAt(k)']
    <3>1. k + 1 \in 0 .. prefetch_cnt - 1
      BY <1>0
    <3>2. /\ BufferedAt(k + 1) \in RamAddr
          /\ prefetch[PREFETCH_SIZE - 1 - prefetch_cnt + (k + 1)] \in seen[BufferedAt(k + 1)]
      BY <3>1 DEF PrefetchCoherent
    <3>3. /\ BufferedAt(k)' = BufferedAt(k + 1)
          /\ PREFETCH_SIZE - 1 - prefetch_cnt' + k = PREFETCH_SIZE - 1 - prefetch_cnt + (k + 1)
      BY <1>0 DEF BufferedAt
    <3> QED
      BY <3>2, <3>3
  <2>5. PrefetchCoherent'
    BY <2>3, <2>4 DEF PrefetchCoherent
  <2> QED
    BY <2>1, <2>2, <2>5
<1>2. CASE FetchRefill
  <2> USE <1>2 DEF FetchRefill, Running, Next_, memory
  <2>0. \A k \in 0 .. PREFETCH_SIZE - 1 : pc + k \in RamAddr
    BY <1>0 DEF Window, TypeOK
  <2>00. pc \in RamAddr /\ \A j \in 0 .. PREFETCH_SIZE - 2 : pc + 1 + j \in RamAddr
    <3>1. pc + 0 \in RamAddr
      BY <1>0, <2>0
    <3>2. ASSUME NEW j \in 0 .. PREFETCH_SIZE - 2 PROVE pc + 1 + j \in RamAddr
      <4>1. j + 1 \in 0 .. PREFETCH_SIZE - 1 /\ pc + (j + 1) = pc + 1 + j
        BY <1>0
      <4> QED
        BY <4>1, <2>0
    <3> QED
      BY <1>0, <3>1, <3>2
  <2>1. TypeOK'
    <3>1. instruction' \in Word /\ prefetch' \in [0 .. PREFETCH_SIZE - 2 -> Word]
      BY <2>00 DEF TypeOK
    <3>2. prefetch_cnt' \in 0 .. PREFETCH_SIZE - 1 /\ state' \in States
      BY <1>0 DEF States
    <3> QED
      BY <3>1, <3>2, <1>0 DEF TypeOK
  <2>2. SeenNow'
    BY DEF SeenNow
  <2>3. pc \in RamAddr /\ instruction' \in seen[pc]
    BY <2>00 DEF SeenNow
  <2>4. ASSUME NEW k \in 0 .. prefetch_cnt' - 1
        PROVE  /\ BufferedAt(k)' \in RamAddr
               /\ prefetch'[PREFETCH_SIZE - 1 - prefetch_cnt' + k] \in seen'[BufferedAt(k)']
    <3>1. k \in 0 .. PREFETCH_SIZE - 2 /\ PREFETCH_SIZE - 1 - prefetch_cnt' + k = k
      BY <1>0
    <3>2. BufferedAt(k)' = pc + 1 + k /\ prefetch'[k] = mem[pc + 1 + k]
      BY <3>1 DEF BufferedAt
    <3> QED
      BY <2>00, <3>1, <3>2 DEF SeenNow
  <2>5. PrefetchCoherent'
    BY <2>3, <2>4 DEF PrefetchCoherent
  <2> QED
    BY <2>1, <2>2, <2>5
<1>3. CASE FetchFails
  <2> USE <1>3 DEF FetchFails, Running, pipeline, trapRegs, memory
  <2>1. TypeOK'
    BY DEF TypeOK
  <2>2. SeenNow' /\ PrefetchCoherent'
    BY <1>0 DEF SeenNow, PrefetchCoherent
  <2> QED
    BY <2>1, <2>2
<1> QED
  BY <1>1, <1>2, <1>3 DEF Fetch

(* decode and execute only build dec and aluOut, or begin a trap.          *)
LEMMA DecodeInv == CoreInv /\ decode => CoreInv'
<1> SUFFICES ASSUME CoreInv, decode PROVE CoreInv'
  OBVIOUS
<1> USE DEF CoreInv
<1>1. /\ state = "DECODE" /\ trap_state = "NONE"
      /\ UNCHANGED <<pc, registers, instruction, prefetch, prefetch_cnt, aluOut,
                     trap_regs, mepc, memory, busFree, outcome>>
      /\ \/ state' = "TRAP" /\ trap_state' = "ENTER" /\ mcause' \in Causes
         \/ state' = "EXECUTE" /\ trap_state' = "NONE" /\ mcause' \in Causes
  BY DEF decode, Running, TypeOK, cause_trap, Next_, Causes
<1>2. dec' \in Decoded
  <2> DEFINE i == Decode[instruction]
             v1 == RegRead(registers, i.rs1)
             v2 == RegRead(registers, i.rs2)
  <2>1. i \in Instr
    BY MachineAssumption DEF TypeOK
  <2>2. v1 \in Word /\ v2 \in Word
    <3>1. i.rs1 \in Regs /\ i.rs2 \in Regs
      BY <2>1 DEF Instr
    <3>2. 0 \in Word /\ registers \in [Regs -> Word]
      BY MachineAssumption DEF Word, TypeOK
    <3> HIDE DEF i
    <3> QED
      BY <3>1, <3>2 DEF RegRead
  <2>3. dec' = [dec EXCEPT !.instr = i, !.rs1v = v1, !.rs2v = v2,
                           !.isJump = FALSE, !.writeRd = FALSE,
                           !.readMem = FALSE, !.writeMem = FALSE]
    BY DEF decode
  <2>4. dec \in Decoded
    BY DEF TypeOK
  <2> HIDE DEF i, v1, v2
  <2> QED
    BY <2>1, <2>2, <2>3, <2>4 DEF Decoded
<1>3. TypeOK'
  BY <1>1, <1>2 DEF TypeOK, States, TrapStates, memory
<1>4. SeenNow' /\ PrefetchCoherent'
  BY <1>1 DEF SeenNow, PrefetchCoherent, BufferedAt, memory
<1> QED
  BY <1>3, <1>4

(* execute writes the decoded instruction and aluOut, never the buffer.    *)
LEMMA ExecuteInv == CoreInv /\ Execute => CoreInv'
<1> SUFFICES ASSUME CoreInv, Execute PROVE CoreInv'
  OBVIOUS
<1> USE DEF CoreInv
<1>1. CASE execute
  <2>0. dec \in Decoded /\ dec.instr \in Instr /\ pc \in Word /\ aluOut \in Word
        /\ dec.rs1v \in Word /\ dec.rs2v \in Word /\ dec.instr.imm \in Int
        /\ Word \subseteq Int /\ WordMod \in Nat /\ mcause \in Causes
    BY MachineAssumption DEF TypeOK, Decoded, Instr, Word
  <2>1. /\ BaseImm \in Word /\ Wrap(pc + 1) \in Word
        /\ Wrap(pc + dec.instr.imm) \in Word /\ Wrap(dec.rs1v + dec.rs2v) \in Word
        /\ Wrap(dec.instr.imm) \in Word
    <3>1. /\ dec.rs1v + dec.instr.imm \in Int /\ pc + 1 \in Int
          /\ pc + dec.instr.imm \in Int /\ dec.rs1v + dec.rs2v \in Int
      BY <2>0, MachineAssumption DEF Word
    <3> QED
      BY <3>1, <2>0, WrapType DEF BaseImm
  <2>2. /\ dec' \in Decoded /\ aluOut' \in Word
        /\ \/ state' = "TRAP" /\ trap_state' = "ENTER" /\ mcause' \in Causes
           \/ state' = "MEMORY" /\ UNCHANGED <<trap_state, mcause>>
    <3>1. CASE ExecuteR
      BY <3>1, <2>0, <2>1 DEF ExecuteR, cause_trap, Next_, Causes, Decoded
    <3>2. CASE ExecuteI
      BY <3>2, <2>0, <2>1 DEF ExecuteI, Next_, Decoded
    <3>3. CASE ExecuteS
      BY <3>3, <2>0, <2>1 DEF ExecuteS, Next_, Decoded
    <3>4. CASE ExecuteB
      <4> DEFINE j == (aluOut' = 1)
                 t == Wrap(pc + dec.instr.imm)
      <4>1. aluOut' \in Word
        <5>1. aluOut' \in {aluOut, 0, 1}
          BY <3>4 DEF ExecuteB
        <5>2. 0 \in Word /\ 1 \in Word
          BY MachineAssumption DEF Word
        <5> QED
          BY <5>1, <5>2, <2>0
      <4>2. j \in BOOLEAN /\ t \in Word
        BY <2>1
      <4>3. dec' = [dec EXCEPT !.jumpTarget = t, !.isJump = j]
        BY <3>4 DEF ExecuteB
      <4> HIDE DEF j, t
      <4>4. dec' \in Decoded
        BY <4>2, <4>3, <2>0 DEF Decoded
      <4> QED
        BY <3>4, <4>1, <4>4 DEF ExecuteB, Next_
    <3>5. CASE ExecuteU
      BY <3>5, <2>0, <2>1 DEF ExecuteU, Next_, Decoded
    <3>6. CASE ExecuteJ
      BY <3>6, <2>0, <2>1 DEF ExecuteJ, Next_, Decoded
    <3>7. CASE ExecuteC
      BY <3>7, <2>0 DEF ExecuteC, cause_trap, Causes
    <3> QED
      BY <1>1, <3>1, <3>2, <3>3, <3>4, <3>5, <3>6, <3>7 DEF execute
  <2>3. /\ state = "EXECUTE" /\ trap_state = "NONE"
        /\ UNCHANGED <<pc, registers, instruction, prefetch, prefetch_cnt,
                       trap_regs, mepc, memory, busFree, outcome>>
    BY <1>1 DEF execute, Running, TypeOK
  <2>4. TypeOK'
    BY <2>0, <2>2, <2>3 DEF TypeOK, States, TrapStates, memory
  <2>5. SeenNow' /\ PrefetchCoherent'
    BY <2>2, <2>3 DEF SeenNow, PrefetchCoherent, BufferedAt, memory
  <2> QED
    BY <2>4, <2>5
<1>2. CASE ExecuteAsserts
  <2> USE <1>2 DEF ExecuteAsserts, Running, pipeline, trapRegs, memory
  <2>1. TypeOK'
    BY DEF TypeOK
  <2>2. SeenNow' /\ PrefetchCoherent'
    BY DEF SeenNow, PrefetchCoherent, BufferedAt
  <2> QED
    BY <2>1, <2>2
<1> QED
  BY <1>1, <1>2 DEF Execute

(* memory_access: a store adds to what an address has held; a jump that is *)
(* about to flush the buffer forgets it.                                   *)
LEMMA MemoryInv == CoreInv /\ memory_access => CoreInv'
<1> SUFFICES ASSUME CoreInv, memory_access PROVE CoreInv'
  OBVIOUS
<1> USE DEF CoreInv
<1>0. /\ state = "MEMORY" /\ trap_state = "NONE"
      /\ UNCHANGED <<pc, registers, instruction, prefetch, prefetch_cnt, dec,
                     trap_regs, mepc, busFree, outcome>>
      /\ aluOut \in Word /\ mcause \in Causes
      /\ mem \in [RamAddr -> Word] /\ readable \subseteq RamAddr
      /\ seen \in [RamAddr -> SUBSET Word]
      /\ WritableAddr \subseteq RamAddr /\ 0 \in Word /\ BADCODE \in Word
  BY MachineAssumption, CoreAssumption DEF memory_access, Running, TypeOK, Word
<1>1. /\ aluOut' \in Word /\ mcause' \in Causes
      /\ mem' \in [RamAddr -> Word] /\ readable' \subseteq RamAddr
      /\ seen' \in [RamAddr -> SUBSET Word]
      /\ \/ state' = "TRAP" /\ trap_state' = "ENTER"
         \/ state' = "WRITEBACK" /\ trap_state' = "NONE"
      /\ SeenNow'
      /\ ~dec.isJump => \A a \in RamAddr : seen[a] \subseteq seen'[a]
  <2>1. CASE NoAccess
    <3> USE <2>1 DEF NoAccess, Next_
    <3>1. CASE dec.isJump
      BY <3>1, <1>0 DEF SeenNow
    <3>2. CASE ~dec.isJump
      BY <3>2, <1>0 DEF SeenNow
    <3> QED
      BY <3>1, <3>2
  <2>2. CASE Load
    <3>1. UNCHANGED <<mem, readable, seen>>
      BY <2>2 DEF Load, memory
    <3>2. /\ \/ state' = "TRAP" /\ trap_state' = "ENTER"
             \/ state' = "WRITEBACK" /\ trap_state' = "NONE"
          /\ mcause' \in Causes
      BY <2>2, <1>0 DEF Load, cause_trap, Next_, Causes
    <3>3. aluOut' \in Word
      <4>1. \/ aluOut' = BADCODE
            \/ aluOut' = 0
            \/ dec.memOffset \in readable /\ aluOut' = mem[dec.memOffset]
        BY <2>2 DEF Load
      <4> QED
        BY <4>1, <1>0
    <3> QED
      BY <3>1, <3>2, <3>3, <1>0 DEF SeenNow
  <2>3. CASE Store
    <3> DEFINE a == dec.memOffset
    <3>1. CASE /\ a \in WritableAddr
               /\ mem'      = [mem EXCEPT ![a] = aluOut]
               /\ readable' = readable \cup {a}
               /\ seen'     = [seen EXCEPT ![a] = @ \cup {aluOut}]
               /\ Next_("WRITEBACK") /\ aluOut' = aluOut
      <4> HIDE DEF a
      <4>1. /\ mem' \in [RamAddr -> Word] /\ readable' \subseteq RamAddr
            /\ seen' \in [RamAddr -> SUBSET Word]
        BY <3>1, <1>0
      <4>2. \A b \in RamAddr : mem'[b] \in seen'[b] /\ seen[b] \subseteq seen'[b]
        BY <3>1, <1>0 DEF SeenNow
      <4> QED
        BY <3>1, <4>1, <4>2, <1>0 DEF SeenNow, Next_
    <3>2. CASE /\ UNCHANGED memory /\ aluOut' = aluOut
               /\ Next_("WRITEBACK") \/ cause_trap("STORE_ACCESS_FAULT")
      BY <3>2, <1>0 DEF SeenNow, Next_, cause_trap, memory, Causes
    <3> QED
      BY <2>3, <3>1, <3>2 DEF Store
  <2> QED
    BY <2>1, <2>2, <2>3 DEF memory_access
<1>2. TypeOK'
  BY <1>0, <1>1 DEF TypeOK, States, TrapStates
<1>3. PrefetchCoherent'
  <2>1. CASE state' = "TRAP" \/ dec.isJump
    BY <2>1, <1>0, <1>1 DEF PrefetchCoherent
  <2>2. CASE state' = "WRITEBACK" /\ ~dec.isJump
    <3>1. ASSUME NEW k \in 0 .. prefetch_cnt' - 1
          PROVE  /\ BufferedAt(k)' \in RamAddr
                 /\ prefetch'[PREFETCH_SIZE - 1 - prefetch_cnt' + k]
                      \in seen'[BufferedAt(k)']
      BY <2>2, <1>0, <1>1 DEF PrefetchCoherent, BufferedAt
    <3> QED
      BY <2>2, <3>1 DEF PrefetchCoherent
  <2> QED
    BY <2>1, <2>2, <1>1
<1> QED
  BY <1>1, <1>2, <1>3

(* writeback: the buffer moves on with pc, or is emptied.                  *)
LEMMA WritebackInv == CoreInv /\ writeback => CoreInv'
<1> SUFFICES ASSUME CoreInv, writeback PROVE CoreInv'
  OBVIOUS
<1> USE DEF CoreInv
<1>0. /\ state = "WRITEBACK" /\ trap_state = "NONE" /\ pc \in Word /\ aluOut \in Word
      /\ dec \in Decoded /\ registers \in [Regs -> Word] /\ registers[0] = 0
      /\ 0 \in Word /\ 0 \in Regs /\ Word \subseteq Int
      /\ PREFETCH_SIZE \in Nat /\ PREFETCH_SIZE >= 1
      /\ prefetch_cnt \in 0 .. PREFETCH_SIZE - 1
  BY MachineAssumption DEF writeback, Running, TypeOK, Word, Regs
<1>1. /\ pc' = NextPc /\ state' = "FETCH"
      /\ prefetch_cnt' = IF dec.isJump THEN 0 ELSE prefetch_cnt
      /\ UNCHANGED <<trap_state, mcause, instruction, prefetch, dec, aluOut,
                     trap_regs, mepc, memory, busFree, outcome>>
  BY DEF writeback, Next_
<1>2. NextPc \in Word
  <2>1. pc + 1 \in Int /\ dec.jumpTarget \in Word
    BY <1>0 DEF Decoded
  <2> QED
    BY <2>1, WrapType DEF NextPc
<1>3. registers' \in [Regs -> Word] /\ registers'[0] = 0
  <2> DEFINE d == dec.instr.rd
  <2>1. d \in Regs
    BY <1>0 DEF Decoded, Instr
  <2>2. registers' = IF dec.writeRd THEN RegWrite(registers, d, aluOut) ELSE registers
    BY DEF writeback
  <2> HIDE DEF d
  <2> QED
    BY <1>0, <2>1, <2>2 DEF RegWrite
<1>4. TypeOK'
  BY <1>0, <1>1, <1>2, <1>3 DEF TypeOK, States, memory
<1>5. SeenNow'
  BY <1>1 DEF SeenNow, memory
<1>6. PrefetchCoherent'
  <2>1. CASE dec.isJump
    BY <2>1, <1>1 DEF PrefetchCoherent
  <2>2. CASE ~dec.isJump
    <3>1. ASSUME NEW k \in 0 .. prefetch_cnt - 1
          PROVE  /\ BufferedAt(k)' = BufferedAt(k)
                 /\ BufferedAt(k) \in RamAddr
                 /\ prefetch[PREFETCH_SIZE - 1 - prefetch_cnt + k] \in seen[BufferedAt(k)]
      <4>1. \A l \in 0 .. prefetch_cnt - 1 :
              /\ BufferedAt(l) \in RamAddr
              /\ prefetch[PREFETCH_SIZE - 1 - prefetch_cnt + l] \in seen[BufferedAt(l)]
        BY <2>2, <1>0 DEF PrefetchCoherent
      <4>2. pc + 1 \in RamAddr
        <5>1. 0 \in 0 .. prefetch_cnt - 1 /\ BufferedAt(0) = pc + 1
          BY <1>0 DEF BufferedAt
        <5> QED
          BY <4>1, <5>1
      <4>3. pc' = pc + 1
        BY <1>0, <1>1, <2>2, <4>2, WrapInside DEF NextPc
      <4>4. BufferedAt(k)' = BufferedAt(k)
        BY <1>0, <1>1, <4>3 DEF BufferedAt
      <4> QED
        BY <4>1, <4>4
    <3> QED
      BY <3>1, <1>1, <2>2 DEF PrefetchCoherent, memory
  <2> QED
    BY <2>1, <2>2
<1> QED
  BY <1>4, <1>5, <1>6

(* Traps: the buffer is empty when the core fetches again.                 *)
LEMMA TrapInv == CoreInv /\ Trap => CoreInv'
<1> SUFFICES ASSUME CoreInv, Trap PROVE CoreInv'
  OBVIOUS
<1> USE DEF CoreInv
<1>0. /\ state = "TRAP" /\ Word \subseteq Int /\ 0 \in Regs /\ pc \in Word /\ mepc \in Word
      /\ registers \in [Regs -> Word] /\ registers[0] = 0
      /\ trap_regs \in [Regs -> Word] /\ trap_regs[0] = 0
      /\ mem \in [RamAddr -> Word] /\ readable \subseteq RamAddr
      /\ seen \in [RamAddr -> SUBSET Word] /\ busFree \in BOOLEAN
      /\ 0 \in 0 .. PREFETCH_SIZE - 1
  BY MachineAssumption
     DEF Trap, TrapStops, SyscallAborts, SyscallReturns, SyscallWrites, TrapEnter,
         TrapHandled, TrapExit, Running, TypeOK, Word, Regs
<1>1. ASSUME TrapEnter,
             trap_regs' \in [Regs -> Word], trap_regs'[0] = 0,
             mem' \in [RamAddr -> Word], readable' \subseteq RamAddr,
             seen' \in [RamAddr -> SUBSET Word], SeenNow',
             busFree' \in BOOLEAN,
             outcome' \in {"running", "exited", "fetchFailed", "aborted"}
      PROVE  CoreInv'
  <2> USE <1>1 DEF TrapEnter, Running
  <2>1. TypeOK'
    BY <1>0 DEF TypeOK, TrapStates
  <2>2. PrefetchCoherent'
    BY DEF PrefetchCoherent
  <2> QED
    BY <2>1, <2>2
<1>2. ASSUME NEW v \in Results,
             trap_regs' = [registers EXCEPT ![A0] = v]
      PROVE  trap_regs' \in [Regs -> Word] /\ trap_regs'[0] = 0
  BY <1>0, <1>2, MachineAssumption
<1>3. CASE TrapStops \/ SyscallAborts
  <2>1. /\ TrapEnter /\ trap_regs' = registers /\ UNCHANGED <<mem, readable, seen, busFree>>
        /\ outcome' \in {"running", "exited", "fetchFailed", "aborted"}
    BY <1>3 DEF TrapStops, SyscallAborts, memory
  <2> QED
    BY <2>1, <1>0, <1>1 DEF SeenNow
<1>4. ASSUME mem' \in [RamAddr -> Word],
             seen' = [a \in RamAddr |-> {mem'[a]}]
      PROVE  seen' \in [RamAddr -> SUBSET Word] /\ SeenNow'
  BY <1>4 DEF SeenNow
<1>5. CASE SyscallReturns
  <2>1. PICK v \in Results : trap_regs' = [registers EXCEPT ![A0] = v]
    BY <1>5 DEF SyscallReturns
  <2>2. TrapEnter /\ mem' = mem /\ busFree' = busFree /\ outcome' = outcome
        /\ readable' \subseteq readable /\ seen' = [a \in RamAddr |-> {mem[a]}]
    BY <1>5 DEF SyscallReturns
  <2>3. seen' = [a \in RamAddr |-> {mem'[a]}] /\ mem' \in [RamAddr -> Word]
        /\ readable' \subseteq RamAddr
        /\ outcome' \in {"running", "exited", "fetchFailed", "aborted"}
    BY <2>2, <1>0 DEF TypeOK
  <2> QED
    BY <2>1, <2>2, <2>3, <1>0, <1>1, <1>2, <1>4
<1>6. CASE SyscallWrites
  <2>1. PICK v \in Results : trap_regs' = [registers EXCEPT ![A0] = v]
    BY <1>6 DEF SyscallWrites
  <2>2. /\ mem' \in [RamAddr -> Word] /\ readable' \subseteq RamAddr
        /\ busFree' \in BOOLEAN
    <3>1. CASE busFree' = FALSE /\ UNCHANGED <<mem, readable>>
      BY <3>1, <1>0
    <3>2. ASSUME NEW B \in Buffers, NEW f \in [B -> Results],
                 mem' = [a \in RamAddr |-> IF a \in B THEN f[a] ELSE mem[a]],
                 readable' = readable \cup B,
                 UNCHANGED busFree
          PROVE  /\ mem' \in [RamAddr -> Word] /\ readable' \subseteq RamAddr
                 /\ busFree' \in BOOLEAN
      <4>1. B \subseteq RamAddr /\ f \in [B -> Word]
        BY MachineAssumption
      <4> QED
        BY <3>2, <4>1, <1>0
    <3> QED
      BY <3>1, <3>2, <1>6 DEF SyscallWrites
  <2>3. /\ TrapEnter /\ seen' = [a \in RamAddr |-> {mem'[a]}]
        /\ outcome' \in {"running", "exited", "fetchFailed", "aborted"}
    BY <1>6 DEF SyscallWrites, TypeOK
  <2> QED
    BY <2>1, <2>2, <2>3, <1>1, <1>2, <1>4
<1>7. CASE TrapHandled
  <2> USE <1>7 DEF TrapHandled, Running, pipeline, trapRegs, memory
  <2>1. TypeOK'
    BY DEF TypeOK, TrapStates
  <2>2. SeenNow' /\ PrefetchCoherent'
    BY DEF SeenNow, PrefetchCoherent
  <2> QED
    BY <2>1, <2>2
<1>8. CASE TrapExit
  <2> USE <1>8 DEF TrapExit, Running, trapRegs, memory
  <2>0. pc' \in Word
    BY <1>0, WrapType
  <2>1. TypeOK'
    BY <1>0, <2>0 DEF TypeOK, States, TrapStates
  <2>2. SeenNow' /\ PrefetchCoherent'
    BY DEF SeenNow, PrefetchCoherent
  <2> QED
    BY <2>1, <2>2
<1> QED
  BY <1>3, <1>5, <1>6, <1>7, <1>8 DEF Trap

(* Every call of core_cycle keeps the invariant.                           *)
LEMMA NextInv == CoreInv /\ [Next]_vars => CoreInv'
<1> SUFFICES ASSUME CoreInv, [Next]_vars PROVE CoreInv'
  OBVIOUS
<1>1. CASE UNCHANGED vars
  BY <1>1 DEF vars, pipeline, trapRegs, memory, CoreInv, TypeOK, SeenNow,
              PrefetchCoherent, BufferedAt
<1> QED
  BY <1>1, FetchInv, DecodeInv, ExecuteInv, MemoryInv, WritebackInv, TrapInv DEF Next

(* The invariant holds in every reachable state.                           *)
THEOREM CoreInvariant == Spec => []CoreInv
BY InitInv, NextInv, PTL DEF Spec

(* The fields of core_t keep their ranges, and register 0 stays zero.      *)
THEOREM CoreTypes == Spec => []TypeOK
<1>1. CoreInv => TypeOK
  BY DEF CoreInv
<1> QED
  BY <1>1, CoreInvariant, PTL

(* The prefetch buffer is coherent: fetch hands out only words that memory *)
(* held at pc since the last jump or trap.                                 *)
THEOREM PrefetchIsCoherent == Spec => []PrefetchCoherent
<1>1. CoreInv => PrefetchCoherent
  BY DEF CoreInv
<1> QED
  BY <1>1, CoreInvariant, PTL
----------------------------------------------------------------------------
(***************************************************************************)
(* The pipeline implements the abstract machine of Isa.  The step that     *)
(* takes effect is memory_access, or a trap handler; what it does was      *)
(* worked out in the stages before.  StageInv says what each stage leaves  *)
(* for the next, so that the effect can be compared with the instruction   *)
(* that was fetched.                                                       *)
(***************************************************************************)
(* The flags execute leaves for the stages after it.                       *)
Flagged(jump, write, load, store) ==
  /\ dec.isJump = jump /\ dec.writeRd = write
  /\ dec.readMem = load /\ dec.writeMem = store

(* What decode leaves: the fields and the operands of the instruction.     *)
InstrDecoded == dec.instr = Decode[instruction]

(* With it, the values of the source registers.                            *)
Operands ==
  /\ InstrDecoded
  /\ dec.rs1v = registers[dec.instr.rs1] /\ dec.rs2v = registers[dec.instr.rs2]

(* What execute leaves: result, offset, target and flags.                  *)
Executed ==
  \/ /\ Flagged(FALSE, TRUE, FALSE, FALSE)
     /\ \/ kind = <<"R", "ADD">>  /\ aluOut = Wrap(dec.rs1v + dec.rs2v)
        \/ kind = <<"I", "ADDI">> /\ aluOut = BaseImm
        \/ kind = <<"U", "LUI">>  /\ aluOut = Wrap(dec.instr.imm)
  \/ /\ Flagged(FALSE, TRUE, TRUE, FALSE)
     /\ kind = <<"I", "LW">> /\ dec.memOffset = BaseImm
  \/ /\ Flagged(FALSE, FALSE, FALSE, TRUE)
     /\ kind = <<"S", "SW">> /\ dec.memOffset = BaseImm /\ aluOut = dec.rs2v
  \/ /\ Flagged(TRUE, TRUE, FALSE, FALSE)
     /\ aluOut = Wrap(pc + 1)
     /\ \/ kind = <<"I", "JALR">> /\ dec.jumpTarget = BaseImm
        \/ kind = <<"J", "JAL">>  /\ dec.jumpTarget = Wrap(pc + dec.instr.imm)
  \/ /\ Flagged(dec.isJump, FALSE, FALSE, FALSE)
     /\ dec.jumpTarget = Wrap(pc + dec.instr.imm)
     /\ \/ kind = <<"B", "BEQ">> /\ (dec.isJump <=> dec.rs1v = dec.rs2v)
        \/ kind = <<"B", "bad">>

(* The cause a trap gives is true of the instruction at pc.                *)
TrapReason ==
  \/ mcause = "ILLEGAL_INSTRUCTION" /\ kind \in {<<"R", "bad">>, <<"Unknown", "bad">>}
  \/ mcause = "ENV_CALL_UMODE" /\ kind = <<"C", "ECALL">>
  \/ /\ \/ mcause = "LOAD_ACCESS_FAULT" /\ kind = <<"I", "LW">>
        \/ mcause = "STORE_ACCESS_FAULT" /\ kind = <<"S", "SW">>
     /\ ~Mapped(Wrap(registers[dec.instr.rs1] + dec.instr.imm))

(* What each stage finds from the one before.                              *)
StageInv ==
  /\ state = "EXECUTE" =>
       Operands /\ Flagged(FALSE, FALSE, FALSE, FALSE) /\ kind # <<"Unknown", "bad">>
  /\ state = "MEMORY" => Operands /\ Executed
  /\ trap_state = "ENTER" =>
       pc \in RamAddr /\ instruction \in seen[pc] /\ InstrDecoded /\ TrapReason

(* The invariant of the refinement.                                        *)
RefinementInv == CoreInv /\ StageInv

----------------------------------------------------------------------------
(* The ranges the proofs below need, taken out of the type invariant.      *)
LEMMA Ranges ==
  ASSUME CoreInv
  PROVE  /\ dec \in Decoded /\ dec.instr \in Instr /\ kind \in InstrKinds
         /\ dec.instr.rd \in Regs /\ dec.instr.rs1 \in Regs /\ dec.instr.rs2 \in Regs
         /\ registers \in [Regs -> Word] /\ registers[0] = 0
         /\ trap_regs \in [Regs -> Word] /\ instruction \in Word
         /\ mem \in [RamAddr -> Word] /\ readable \subseteq RamAddr
         /\ seen \in [RamAddr -> SUBSET Word]
         /\ (state = "TRAP" <=> trap_state # "NONE")
         /\ state \in States /\ trap_state \in TrapStates
BY DEF CoreInv, TypeOK, Decoded, Instr, kind

(* decode reads both operands; register 0 holds the zero that REG_R would  *)
(* put in its place.                                                       *)
LEMMA DecodeStages == RefinementInv /\ decode => StageInv'
<1> SUFFICES ASSUME RefinementInv, decode PROVE StageInv'
  OBVIOUS
<1> DEFINE i == Decode[instruction]
           v1 == RegRead(registers, i.rs1)
           v2 == RegRead(registers, i.rs2)
<1>0. CoreInv
  BY DEF RefinementInv
<1>1. /\ state = "DECODE" /\ trap_state = "NONE"
      /\ UNCHANGED <<pc, registers, instruction, seen>>
      /\ pc \in RamAddr /\ instruction \in seen[pc]
      /\ registers[0] = 0 /\ dec \in Decoded
  BY <1>0, Ranges DEF decode, Running, memory, CoreInv, TypeOK, PrefetchCoherent
<1>2. /\ dec' = [dec EXCEPT !.instr = i, !.rs1v = v1, !.rs2v = v2,
                            !.isJump = FALSE, !.writeRd = FALSE,
                            !.readMem = FALSE, !.writeMem = FALSE]
      /\ \/ /\ i.kind[1] = "Unknown" /\ cause_trap("ILLEGAL_INSTRUCTION")
         \/ /\ i.kind[1] # "Unknown" /\ Next_("EXECUTE")
  BY DEF decode
<1>3. i \in Instr /\ i.kind \in InstrKinds
  BY <1>0, Ranges, MachineAssumption DEF Instr
<1>4. v1 = registers[i.rs1] /\ v2 = registers[i.rs2]
  BY <1>1 DEF RegRead
<1> HIDE DEF i, v1, v2
<1>5. /\ dec'.instr = i /\ dec'.rs1v = v1 /\ dec'.rs2v = v2
      /\ dec'.isJump = FALSE /\ dec'.writeRd = FALSE
      /\ dec'.readMem = FALSE /\ dec'.writeMem = FALSE
  BY <1>1, <1>2 DEF Decoded
<1>6. InstrDecoded' /\ Operands' /\ Flagged(FALSE, FALSE, FALSE, FALSE)'
  BY <1>1, <1>4, <1>5 DEF InstrDecoded, Operands, Flagged, i
<1>7. i.kind[1] = "Unknown" <=> i.kind = <<"Unknown", "bad">>
  BY <1>3 DEF InstrKinds
<1>8. CASE i.kind[1] = "Unknown"
  BY <1>1, <1>2, <1>5, <1>6, <1>7, <1>8 DEF StageInv, cause_trap, TrapReason, kind
<1>9. CASE i.kind[1] # "Unknown"
  BY <1>1, <1>2, <1>5, <1>6, <1>7, <1>9 DEF StageInv, Next_, kind
<1> QED
  BY <1>8, <1>9

(* execute: one case for each optype.                                      *)
LEMMA ExecuteStages == RefinementInv /\ Execute => StageInv'
<1> SUFFICES ASSUME RefinementInv, Execute PROVE StageInv'
  OBVIOUS
<1>0. CoreInv /\ StageInv
  BY DEF RefinementInv
<1>1. /\ state = "EXECUTE" /\ trap_state = "NONE"
      /\ UNCHANGED <<pc, registers, instruction, seen>>
      /\ pc \in RamAddr /\ instruction \in seen[pc]
      /\ Operands /\ Flagged(FALSE, FALSE, FALSE, FALSE)
      /\ kind \in InstrKinds /\ kind # <<"Unknown", "bad">>
  BY <1>0, Ranges
     DEF Execute, execute, ExecuteAsserts, Running, memory, pipeline, CoreInv, TypeOK,
         PrefetchCoherent, StageInv
<1>2. CASE ExecuteAsserts
  BY <1>2, <1>0 DEF ExecuteAsserts, StageInv, pipeline, trapRegs, memory, Operands,
     InstrDecoded, Flagged, Executed, TrapReason, kind, BaseImm
<1>3. CASE execute
  <2>0. dec \in Decoded
    BY <1>0, Ranges
  <2>1. ASSUME Next_("MEMORY"),
               dec'.instr = dec.instr, dec'.rs1v = dec.rs1v, dec'.rs2v = dec.rs2v,
               Executed'
        PROVE  StageInv'
    BY <2>1, <1>1 DEF Next_, StageInv, Operands, InstrDecoded
  <2>2. ASSUME NEW cause, cause_trap(cause), dec'.instr = dec.instr, TrapReason'
        PROVE  StageInv'
    BY <2>2, <1>1 DEF cause_trap, StageInv, Operands, InstrDecoded
  <2>3. CASE ExecuteR
    <3>1. /\ dec'.instr = dec.instr /\ dec'.rs1v = dec.rs1v /\ dec'.rs2v = dec.rs2v
          /\ kind' = kind /\ Flagged(FALSE, TRUE, FALSE, FALSE)'
      BY <2>0, <2>3, <1>1 DEF ExecuteR, Flagged, kind, Decoded
    <3>2. kind \in {<<"R", "ADD">>, <<"R", "bad">>}
      BY <1>1, <2>3 DEF ExecuteR, InstrKinds
    <3>3. CASE kind = <<"R", "ADD">>
      <4>1. aluOut' = Wrap(dec.rs1v + dec.rs2v) /\ Next_("MEMORY")
        BY <2>3, <3>3 DEF ExecuteR
      <4>2. Executed'
        BY <3>1, <3>3, <4>1 DEF Executed
      <4> QED
        BY <2>1, <3>1, <4>1, <4>2
    <3>4. CASE kind = <<"R", "bad">>
      <4>1. cause_trap("ILLEGAL_INSTRUCTION")
        BY <2>3, <3>4 DEF ExecuteR
      <4>2. TrapReason'
        BY <3>1, <3>4, <4>1 DEF TrapReason, cause_trap
      <4> QED
        BY <2>2, <3>1, <4>1, <4>2
    <3> QED
      BY <3>2, <3>3, <3>4
  <2>4. CASE ExecuteI
    <3>1. Next_("MEMORY") /\ kind[1] = "I"
      BY <2>4 DEF ExecuteI
    <3>2. CASE kind[2] = "ADDI" /\ aluOut' = BaseImm
               /\ dec' = [dec EXCEPT !.writeRd = TRUE]
      <4>1. /\ dec'.instr = dec.instr /\ dec'.rs1v = dec.rs1v /\ dec'.rs2v = dec.rs2v
            /\ kind' = kind /\ BaseImm' = BaseImm /\ Flagged(FALSE, TRUE, FALSE, FALSE)'
        BY <2>0, <3>2, <1>1 DEF Flagged, kind, BaseImm, Decoded
      <4>2. kind = <<"I", "ADDI">>
        BY <1>1, <3>1, <3>2 DEF InstrKinds
      <4> QED
        BY <2>1, <3>1, <3>2, <4>1, <4>2 DEF Executed
    <3>3. CASE /\ kind[2] = "LW"
               /\ dec' = [dec EXCEPT !.writeRd = TRUE, !.readMem = TRUE,
                                     !.memOffset = BaseImm]
      <4>1. /\ dec'.instr = dec.instr /\ dec'.rs1v = dec.rs1v /\ dec'.rs2v = dec.rs2v
            /\ kind' = kind /\ BaseImm' = BaseImm /\ Flagged(FALSE, TRUE, TRUE, FALSE)'
            /\ dec'.memOffset = BaseImm
        BY <2>0, <3>3, <1>1 DEF Flagged, kind, BaseImm, Decoded
      <4>2. kind = <<"I", "LW">>
        BY <1>1, <3>1, <3>3 DEF InstrKinds
      <4> QED
        BY <2>1, <3>1, <4>1, <4>2 DEF Executed
    <3>4. CASE /\ kind[2] = "JALR" /\ aluOut' = Wrap(pc + 1)
               /\ dec' = [dec EXCEPT !.writeRd = TRUE, !.isJump = TRUE,
                                     !.jumpTarget = BaseImm]
      <4>1. /\ dec'.instr = dec.instr /\ dec'.rs1v = dec.rs1v /\ dec'.rs2v = dec.rs2v
            /\ kind' = kind /\ BaseImm' = BaseImm /\ Flagged(TRUE, TRUE, FALSE, FALSE)'
            /\ dec'.jumpTarget = BaseImm
        BY <2>0, <3>4, <1>1 DEF Flagged, kind, BaseImm, Decoded
      <4>2. kind = <<"I", "JALR">>
        BY <1>1, <3>1, <3>4 DEF InstrKinds
      <4> QED
        BY <2>1, <3>1, <3>4, <4>1, <4>2, <1>1 DEF Executed
    <3> QED
      BY <2>4, <3>2, <3>3, <3>4 DEF ExecuteI
  <2>5. CASE ExecuteS
    <3>1. /\ dec'.instr = dec.instr /\ dec'.rs1v = dec.rs1v /\ dec'.rs2v = dec.rs2v
          /\ kind' = kind /\ BaseImm' = BaseImm /\ Flagged(FALSE, FALSE, FALSE, TRUE)'
          /\ dec'.memOffset = BaseImm
      BY <2>0, <2>5, <1>1 DEF ExecuteS, Flagged, kind, BaseImm, Decoded
    <3>2. kind = <<"S", "SW">> /\ aluOut' = dec.rs2v /\ Next_("MEMORY")
      BY <2>5 DEF ExecuteS
    <3> QED
      BY <2>1, <3>1, <3>2 DEF Executed
  <2>6. CASE ExecuteB
    <3> DEFINE taken  == (aluOut' = 1)
               target == Wrap(pc + dec.instr.imm)
    <3>1. dec' = [dec EXCEPT !.jumpTarget = target, !.isJump = taken]
          /\ Next_("MEMORY") /\ kind[1] = "B"
      BY <2>6 DEF ExecuteB
    <3>2. taken \in BOOLEAN
      OBVIOUS
    <3>3. kind[2] # "bad" => (taken <=> dec.rs1v = dec.rs2v)
      BY <2>6 DEF ExecuteB
    <3> HIDE DEF taken, target
    <3>4. /\ dec'.instr = dec.instr /\ dec'.rs1v = dec.rs1v /\ dec'.rs2v = dec.rs2v
          /\ kind' = kind /\ Flagged(dec.isJump, FALSE, FALSE, FALSE)'
          /\ dec'.jumpTarget = target /\ dec'.isJump = taken
      BY <2>0, <3>1, <3>2, <1>1 DEF Flagged, kind, Decoded
    <3>5. kind = <<"B", "BEQ">> \/ kind = <<"B", "bad">>
      BY <1>1, <3>1 DEF InstrKinds
    <3>6. target = Wrap(pc' + dec'.instr.imm)
      BY <1>1, <3>4 DEF target
    <3>7. kind' = <<"B", "BEQ">> => (dec'.isJump <=> dec'.rs1v = dec'.rs2v)
      <4>1. kind' = <<"B", "BEQ">> => kind[2] = "BEQ"
        BY <3>4
      <4>2. kind' = <<"B", "BEQ">> => (taken <=> dec.rs1v = dec.rs2v)
        BY <4>1, <3>3
      <4> QED
        BY <4>2, <3>4, Zenon
    <3>8. dec'.jumpTarget = Wrap(pc' + dec'.instr.imm)
      BY <3>4, <3>6
    <3>9. Executed'
      BY <3>4, <3>5, <3>7, <3>8, Zenon DEF Executed
    <3> QED
      BY <2>1, <3>1, <3>4, <3>9
  <2>7. CASE ExecuteU
    <3>1. /\ dec'.instr = dec.instr /\ dec'.rs1v = dec.rs1v /\ dec'.rs2v = dec.rs2v
          /\ kind' = kind /\ Flagged(FALSE, TRUE, FALSE, FALSE)'
      BY <2>0, <2>7, <1>1 DEF ExecuteU, Flagged, kind, Decoded
    <3>2. kind = <<"U", "LUI">> /\ aluOut' = Wrap(dec.instr.imm) /\ Next_("MEMORY")
      BY <1>1, <2>7 DEF ExecuteU, InstrKinds
    <3> QED
      BY <2>1, <3>1, <3>2 DEF Executed
  <2>8. CASE ExecuteJ
    <3>1. /\ dec'.instr = dec.instr /\ dec'.rs1v = dec.rs1v /\ dec'.rs2v = dec.rs2v
          /\ kind' = kind /\ Flagged(TRUE, TRUE, FALSE, FALSE)'
          /\ dec'.jumpTarget = Wrap(pc + dec.instr.imm)
      BY <2>0, <2>8, <1>1 DEF ExecuteJ, Flagged, kind, Decoded
    <3>2. kind = <<"J", "JAL">> /\ aluOut' = Wrap(pc + 1) /\ Next_("MEMORY")
      BY <1>1, <2>8 DEF ExecuteJ, InstrKinds
    <3> QED
      BY <2>1, <3>1, <3>2, <1>1 DEF Executed
  <2>9. CASE ExecuteC
    <3>1. kind = <<"C", "ECALL">> /\ kind' = kind /\ dec' = dec
          /\ cause_trap("ENV_CALL_UMODE")
      BY <1>1, <2>9 DEF ExecuteC, InstrKinds, kind
    <3>2. TrapReason'
      BY <3>1 DEF TrapReason, cause_trap
    <3> QED
      BY <2>2, <3>1, <3>2
  <2> QED
    BY <1>3, <2>3, <2>4, <2>5, <2>6, <2>7, <2>8, <2>9 DEF execute
<1> QED
  BY <1>2, <1>3 DEF Execute

(* memory_access traps only where no device is.                            *)
LEMMA MemoryStages == RefinementInv /\ memory_access => StageInv'
<1> SUFFICES ASSUME RefinementInv, memory_access PROVE StageInv'
  OBVIOUS
<1>0. CoreInv /\ StageInv
  BY DEF RefinementInv
<1>1. /\ state = "MEMORY" /\ trap_state = "NONE"
      /\ UNCHANGED <<pc, registers, instruction, dec>>
      /\ pc \in RamAddr /\ instruction \in seen[pc]
      /\ Operands /\ Executed
  BY <1>0, Ranges
     DEF memory_access, Running, CoreInv, TypeOK, PrefetchCoherent, StageInv
<1>2. \/ state' = "WRITEBACK" /\ trap_state' = "NONE"
      \/ /\ state' = "TRAP" /\ UNCHANGED memory /\ ~Mapped(dec.memOffset)
         /\ \/ dec.readMem /\ mcause' = "LOAD_ACCESS_FAULT"
            \/ dec.writeMem /\ mcause' = "STORE_ACCESS_FAULT"
  BY <1>1 DEF memory_access, NoAccess, Load, Store, Next_, cause_trap
<1>3. CASE state' = "WRITEBACK" /\ trap_state' = "NONE"
  BY <1>3 DEF StageInv
<1>4. CASE /\ state' = "TRAP" /\ UNCHANGED memory /\ ~Mapped(dec.memOffset)
           /\ \/ dec.readMem /\ mcause' = "LOAD_ACCESS_FAULT"
              \/ dec.writeMem /\ mcause' = "STORE_ACCESS_FAULT"
  <2>1. /\ dec.readMem  => kind = <<"I", "LW">> /\ dec.memOffset = BaseImm
        /\ dec.writeMem => kind = <<"S", "SW">> /\ dec.memOffset = BaseImm
    BY <1>1 DEF Executed, Flagged
  <2>2. BaseImm = Wrap(registers[dec.instr.rs1] + dec.instr.imm)
    BY <1>1 DEF Operands, BaseImm
  <2>3. TrapReason'
    BY <1>1, <1>4, <2>1, <2>2 DEF TrapReason, kind
  <2> QED
    BY <1>1, <1>4, <2>3 DEF StageInv, memory, Operands, InstrDecoded
<1> QED
  BY <1>2, <1>3, <1>4

(* The other steps leave no stage with something to hand on.               *)
LEMMA OtherStages ==
  RefinementInv /\ (Fetch \/ writeback \/ Trap \/ UNCHANGED vars) => StageInv'
<1> SUFFICES ASSUME RefinementInv, Fetch \/ writeback \/ Trap \/ UNCHANGED vars
             PROVE  StageInv'
  OBVIOUS
<1>0. CoreInv /\ StageInv /\ (state = "TRAP" <=> trap_state # "NONE")
  BY Ranges DEF RefinementInv
<1>1. CASE UNCHANGED vars \/ FetchFails
  BY <1>0, <1>1 DEF FetchFails, StageInv, vars, pipeline, trapRegs, memory, Operands,
     InstrDecoded, Flagged, Executed, TrapReason, kind, BaseImm
<1>2. CASE FetchBuffered \/ FetchRefill \/ writeback
  BY <1>0, <1>2 DEF FetchBuffered, FetchRefill, writeback, Running, Next_, StageInv
<1>3. CASE Trap
  BY <1>0, <1>3
     DEF Trap, TrapStops, SyscallAborts, SyscallReturns, SyscallWrites, TrapEnter,
         TrapHandled, TrapExit, Running, StageInv
<1> QED
  BY <1>1, <1>2, <1>3 DEF Fetch

(* The stages hand on what they should in every reachable state.           *)
THEOREM StagesInOrder == Spec => []RefinementInv
<1>1. Init => RefinementInv
  BY InitInv DEF RefinementInv, StageInv, Init
<1>2. RefinementInv /\ [Next]_vars => RefinementInv'
  <2>1. RefinementInv /\ [Next]_vars => CoreInv'
    BY NextInv DEF RefinementInv
  <2>2. RefinementInv /\ [Next]_vars => StageInv'
    BY DecodeStages, ExecuteStages, MemoryStages, OtherStages DEF Next
  <2> QED
    BY <2>1, <2>2 DEF RefinementInv
<1> QED
  BY <1>1, <1>2, PTL DEF Spec

----------------------------------------------------------------------------
(* An instruction that the abstract machine executes in one step.          *)
IsaStep(d) ==
  \/ Abstract!Compute(d) \/ Abstract!Load(d) \/ Abstract!Store(d) \/ Abstract!Jump(d)
  \/ Abstract!Branch(d) \/ Abstract!Ecall(d) \/ Abstract!Stop(d) \/ Abstract!Abort(d)

(* The instruction in hand is one that the abstract machine may execute.   *)
LEMMA ExecutedOne ==
  ASSUME outcome = "running", ArchPc = pc, pc \in RamAddr, instruction \in seen[pc],
         InstrDecoded, IsaStep(dec.instr)
  PROVE  Abstract!IsaNext
<1>1. instruction \in (IF ArchPc \in RamAddr THEN seen[ArchPc] ELSE {})
  OBVIOUS
<1>2. dec.instr = Decode[instruction]
  BY DEF InstrDecoded
<1> QED
  BY <1>1, <1>2 DEF Abstract!IsaNext, IsaStep

(* Where the architectural state is that of the pipeline registers.        *)
LEMMA ArchPlain ==
  ASSUME state # "WRITEBACK", ~InSyscall
  PROVE  ArchPc = pc /\ ArchRegs = registers
BY DEF ArchPc, ArchRegs, Committed

(* Stages that only prepare change nothing of it.                          *)
LEMMA SilentSteps ==
  ASSUME RefinementInv,
         \/ FetchBuffered \/ FetchRefill \/ decode \/ execute \/ writeback
         \/ TrapHandled \/ TrapExit \/ UNCHANGED vars
  PROVE  UNCHANGED Abstract!isaVars
<1>0. CoreInv
  BY DEF RefinementInv
<1>1. ASSUME UNCHANGED <<ArchPc, ArchRegs, mem, readable, seen, outcome>>
      PROVE  UNCHANGED Abstract!isaVars
  BY <1>1 DEF Abstract!isaVars
<1>2. CASE UNCHANGED vars
  BY <1>1, <1>2
     DEF vars, pipeline, trapRegs, memory, ArchPc, ArchRegs, Committed, InSyscall, NextPc
<1>3. CASE FetchBuffered \/ FetchRefill \/ decode \/ execute
  <2>1. /\ state \in {"FETCH", "DECODE", "EXECUTE"} /\ trap_state = "NONE"
        /\ UNCHANGED <<pc, registers, mem, readable, seen, outcome>>
    BY <1>0, <1>3, Ranges
       DEF FetchBuffered, FetchRefill, decode, execute, Running, memory
  <2>2. \/ state' \in {"DECODE", "EXECUTE", "MEMORY"} /\ trap_state' = "NONE"
        \/ state' = "TRAP" /\ trap_state' = "ENTER"
    BY <1>3, <2>1
       DEF FetchBuffered, FetchRefill, decode, execute, ExecuteR, ExecuteI, ExecuteS,
           ExecuteB, ExecuteU, ExecuteJ, ExecuteC, Next_, cause_trap
  <2>3. ArchPc = pc /\ ArchRegs = registers
    BY <2>1, ArchPlain DEF InSyscall
  <2>4. ArchPc' = pc' /\ ArchRegs' = registers'
    BY <2>2 DEF ArchPc, ArchRegs, Committed, InSyscall
  <2> QED
    BY <1>1, <2>1, <2>3, <2>4
<1>4. CASE writeback
  <2>1. /\ state = "WRITEBACK" /\ state' = "FETCH" /\ pc' = NextPc
        /\ UNCHANGED <<mem, readable, seen, outcome>>
        /\ registers' = IF dec.writeRd THEN RegWrite(registers, dec.instr.rd, aluOut)
                        ELSE registers
    BY <1>4 DEF writeback, Running, Next_, memory
  <2>2. ArchPc = NextPc /\ ArchPc' = pc'
    BY <2>1 DEF ArchPc, Committed, InSyscall
  <2>3. ArchRegs' = registers'
    BY <2>1 DEF ArchRegs, Committed, InSyscall
  <2>4. ArchRegs = registers'
    <3>1. /\ registers \in [Regs -> Word] /\ registers[0] = 0 /\ dec.instr.rd \in Regs
      BY <1>0, Ranges
    <3>2. dec.instr.rd = 0 => RegWrite(registers, dec.instr.rd, aluOut) = registers
      BY <3>1 DEF RegWrite
    <3>3. dec.instr.rd # 0 => RegWrite(registers, dec.instr.rd, aluOut)
                                = [registers EXCEPT ![dec.instr.rd] = aluOut]
      BY DEF RegWrite
    <3>4. ArchRegs = IF dec.writeRd /\ dec.instr.rd # 0
                     THEN [registers EXCEPT ![dec.instr.rd] = aluOut] ELSE registers
      BY <2>1 DEF ArchRegs, Committed, InSyscall
    <3> QED
      BY <2>1, <3>2, <3>3, <3>4
  <2> QED
    BY <1>1, <2>1, <2>2, <2>3, <2>4
<1>5. CASE TrapHandled
  BY <1>1, <1>5
     DEF TrapHandled, Running, pipeline, trapRegs, memory, ArchPc, ArchRegs, Committed,
         InSyscall
<1>6. CASE TrapExit
  BY <1>1, <1>6
     DEF TrapExit, Running, trapRegs, memory, ArchPc, ArchRegs, Committed, InSyscall
<1> QED
  BY <1>2, <1>3, <1>4, <1>5, <1>6

(* The read of the prefetch window fails: the thread dies.                 *)
LEMMA FetchFailure == FetchFails => Abstract!FetchDies
<1> SUFFICES ASSUME FetchFails PROVE Abstract!FetchDies
  OBVIOUS
<1>1. /\ outcome = "running" /\ state = "FETCH" /\ ~(Window(pc) \subseteq readable)
      /\ outcome' \in {"fetchFailed", "aborted"}
      /\ UNCHANGED <<state, pc, registers, mem, readable, seen>>
  BY DEF FetchFails, Running, memory
<1>2. ArchPc = pc /\ ArchRegs = registers /\ ArchPc' = pc' /\ ArchRegs' = registers'
  BY <1>1 DEF ArchPc, ArchRegs, Committed, InSyscall
<1> QED
  BY <1>1, <1>2 DEF Abstract!FetchDies, Abstract!Window, Window

(* An illegal funct3 fails an assertion in execute.                        *)
LEMMA Assertion == RefinementInv /\ ExecuteAsserts => Abstract!IsaNext
<1> SUFFICES ASSUME RefinementInv, ExecuteAsserts PROVE Abstract!IsaNext
  OBVIOUS
<1>1. /\ outcome = "running" /\ state = "EXECUTE" /\ trap_state = "NONE"
      /\ kind \in {<<"I", "bad">>, <<"S", "bad">>} /\ outcome' = "aborted"
      /\ UNCHANGED <<state, pc, registers, mem, readable, seen, trap_state>>
      /\ pc \in RamAddr /\ instruction \in seen[pc] /\ InstrDecoded
  BY Ranges
     DEF ExecuteAsserts, Running, memory, RefinementInv, CoreInv, PrefetchCoherent,
         StageInv, Operands
<1>2. ArchPc = pc /\ ArchRegs = registers /\ ArchPc' = pc' /\ ArchRegs' = registers'
  BY <1>1 DEF ArchPc, ArchRegs, Committed, InSyscall
<1>3. Abstract!Abort(dec.instr)
  BY <1>1, <1>2 DEF Abstract!Abort, kind
<1> QED
  BY <1>1, <1>2, <1>3, ExecutedOne DEF IsaStep

(* memory_access: the instruction takes effect, or it traps and nothing    *)
(* has happened yet.                                                       *)
LEMMA MemoryStep ==
  ASSUME RefinementInv, memory_access
  PROVE  Abstract!IsaNext \/ UNCHANGED Abstract!isaVars
<1> DEFINE d == dec.instr
           a == Wrap(registers[d.rs1] + d.imm)
<1>0. CoreInv /\ StageInv
  BY DEF RefinementInv
<1>1. /\ state = "MEMORY" /\ trap_state = "NONE" /\ outcome = "running"
      /\ UNCHANGED <<pc, registers, instruction, dec, outcome>>
      /\ pc \in RamAddr /\ instruction \in seen[pc] /\ InstrDecoded
      /\ dec.rs1v = registers[d.rs1] /\ dec.rs2v = registers[d.rs2]
      /\ Executed /\ (NoAccess \/ Load \/ Store)
  BY <1>0, Ranges
     DEF memory_access, Running, CoreInv, PrefetchCoherent, StageInv, Operands
<1>2. ArchPc = pc /\ ArchRegs = registers
  BY <1>1, ArchPlain DEF InSyscall
<1>3. ASSUME Next_("WRITEBACK")
      PROVE  /\ ArchPc' = IF dec.isJump THEN dec.jumpTarget ELSE Wrap(pc + 1)
             /\ ArchRegs' = IF dec.writeRd /\ d.rd # 0
                            THEN [registers EXCEPT ![d.rd] = aluOut'] ELSE registers
  <2>1. Committed' /\ ~InSyscall'
    BY <1>3 DEF Next_, Committed, InSyscall
  <2> QED
    BY <2>1, <1>1 DEF ArchPc, ArchRegs, NextPc
<1>4. BaseImm = a
  BY <1>1 DEF BaseImm
<1>5. CASE NoAccess
  <2>1. /\ ~dec.readMem /\ ~dec.writeMem /\ Next_("WRITEBACK")
        /\ seen' = IF dec.isJump THEN [b \in RamAddr |-> {mem[b]}] ELSE seen
        /\ UNCHANGED <<aluOut, mem, readable>>
    BY <1>5 DEF NoAccess
  <2>2. CASE ~dec.isJump /\ dec.writeRd
    <3>1. ArchPc' = Wrap(pc + 1) /\ seen' = seen
          /\ ArchRegs' = IF d.rd = 0 THEN registers ELSE [registers EXCEPT ![d.rd] = aluOut]
      BY <1>3, <2>1, <2>2
    <3>2. \/ kind = <<"R", "ADD">>  /\ aluOut = Wrap(dec.rs1v + dec.rs2v)
          \/ kind = <<"I", "ADDI">> /\ aluOut = a
          \/ kind = <<"U", "LUI">>  /\ aluOut = Wrap(d.imm)
      BY <1>1, <1>4, <2>1, <2>2 DEF Executed, Flagged
    <3>3. Abstract!FallThrough
      BY <1>1, <1>2, <3>1 DEF Abstract!FallThrough, Abstract!Wrap, Wrap
    <3>4. Abstract!Compute(d)
      BY <1>1, <1>2, <2>1, <3>1, <3>2, <3>3
         DEF Abstract!Compute, Abstract!Register, Abstract!Wrap, Wrap, kind
    <3> QED
      BY <1>1, <1>2, <3>4, ExecutedOne DEF IsaStep
  <2>3. CASE dec.isJump /\ dec.writeRd
    <3>1. /\ ArchPc' = dec.jumpTarget /\ seen' = [b \in RamAddr |-> {mem[b]}]
          /\ ArchRegs' = IF d.rd = 0 THEN registers ELSE [registers EXCEPT ![d.rd] = aluOut]
      BY <1>3, <2>1, <2>3
    <3>2. /\ aluOut = Wrap(pc + 1)
          /\ \/ kind = <<"I", "JALR">> /\ dec.jumpTarget = a
             \/ kind = <<"J", "JAL">>  /\ dec.jumpTarget = Wrap(pc + d.imm)
      BY <1>1, <1>4, <2>1, <2>3 DEF Executed, Flagged
    <3>3. Abstract!JumpTo(dec.jumpTarget)
      BY <1>1, <3>1 DEF Abstract!JumpTo
    <3>4. Abstract!Jump(d)
      BY <1>1, <1>2, <2>1, <3>1, <3>2, <3>3
         DEF Abstract!Jump, Abstract!Register, Abstract!Wrap, Wrap, kind
    <3> QED
      BY <1>1, <1>2, <3>4, ExecutedOne DEF IsaStep
  <2>4. CASE ~dec.writeRd
    <3>1. ArchRegs' = registers
      BY <1>3, <2>1, <2>4
    <3>2. /\ dec.jumpTarget = Wrap(pc + d.imm)
          /\ \/ kind = <<"B", "BEQ">> /\ (dec.isJump <=> dec.rs1v = dec.rs2v)
             \/ kind = <<"B", "bad">>
      BY <1>1, <2>1, <2>4 DEF Executed, Flagged
    <3>3. dec.isJump => Abstract!JumpTo(Wrap(pc + d.imm))
      BY <1>1, <1>3, <2>1, <3>2 DEF Abstract!JumpTo
    <3>4. ~dec.isJump => Abstract!FallThrough
      BY <1>1, <1>2, <1>3, <2>1 DEF Abstract!FallThrough, Abstract!Wrap, Wrap
    <3>5. Abstract!Branch(d)
      BY <1>1, <1>2, <2>1, <3>1, <3>2, <3>3, <3>4
         DEF Abstract!Branch, Abstract!Wrap, Wrap, kind
    <3> QED
      BY <1>1, <1>2, <3>5, ExecutedOne DEF IsaStep
  <2> QED
    BY <2>2, <2>3, <2>4
<1>6. CASE Load
  <2>1. /\ dec.readMem /\ UNCHANGED <<mem, readable, seen>>
        /\ \/ /\ Mapped(dec.memOffset) /\ Next_("WRITEBACK")
              /\ aluOut' = IF dec.memOffset \in readable THEN mem[dec.memOffset] ELSE 0
           \/ cause_trap("LOAD_ACCESS_FAULT")
    BY <1>6 DEF Load, memory
  <2>2. /\ kind = <<"I", "LW">> /\ dec.memOffset = a
        /\ dec.writeRd = TRUE /\ dec.isJump = FALSE
    BY <1>1, <1>4, <2>1 DEF Executed, Flagged
  <2>3. CASE /\ Mapped(a) /\ Next_("WRITEBACK")
             /\ aluOut' = IF a \in readable THEN mem[a] ELSE 0
    <3>1. ArchPc' = Wrap(pc + 1)
          /\ ArchRegs' = IF d.rd = 0 THEN registers ELSE [registers EXCEPT ![d.rd] = aluOut']
      BY <1>3, <2>2, <2>3
    <3>2. Abstract!FallThrough
      BY <1>1, <1>2, <2>1, <3>1 DEF Abstract!FallThrough, Abstract!Wrap, Wrap
    <3>3. Abstract!Load(d)
      BY <1>2, <2>1, <2>2, <2>3, <3>1, <3>2
         DEF Abstract!Load, Abstract!Register, Abstract!Wrap, Wrap, Abstract!Mapped,
             Mapped, kind
    <3> QED
      BY <1>1, <1>2, <3>3, ExecutedOne DEF IsaStep
  <2>4. CASE cause_trap("LOAD_ACCESS_FAULT")
    <3>1. ArchPc' = pc /\ ArchRegs' = registers
      BY <1>1, <2>4 DEF cause_trap, ArchPc, ArchRegs, Committed, InSyscall
    <3> QED
      BY <1>1, <1>2, <2>1, <3>1 DEF Abstract!isaVars
  <2> QED
    BY <2>1, <2>2, <2>3, <2>4
<1>7. CASE Store
  <2>1. dec.writeMem /\ aluOut' = aluOut
    BY <1>7 DEF Store
  <2>2. /\ kind = <<"S", "SW">> /\ dec.memOffset = a /\ aluOut = dec.rs2v
        /\ dec.writeRd = FALSE /\ dec.isJump = FALSE
    BY <1>1, <1>4, <2>1 DEF Executed, Flagged
  <2>3. CASE /\ Next_("WRITEBACK") /\ Mapped(a)
             /\ IF a \in WritableAddr
                THEN /\ mem'      = [mem EXCEPT ![a] = aluOut]
                     /\ readable' = readable \cup {a}
                     /\ seen'     = [seen EXCEPT ![a] = @ \cup {aluOut}]
                ELSE UNCHANGED <<mem, readable, seen>>
    <3>1. ArchPc' = Wrap(pc + 1) /\ ArchRegs' = registers
      BY <1>3, <2>2, <2>3
    <3>2. Abstract!Store(d)
      BY <1>1, <1>2, <2>2, <2>3, <3>1
         DEF Abstract!Store, Abstract!Wrap, Wrap, Abstract!Mapped, Mapped, kind
    <3> QED
      BY <1>1, <1>2, <3>2, ExecutedOne DEF IsaStep
  <2>4. CASE cause_trap("STORE_ACCESS_FAULT") /\ UNCHANGED memory
    <3>1. ArchPc' = pc /\ ArchRegs' = registers
      BY <1>1, <2>4 DEF cause_trap, ArchPc, ArchRegs, Committed, InSyscall
    <3> QED
      BY <1>1, <1>2, <2>4, <3>1 DEF Abstract!isaVars, memory
  <2>5. a \in WritableAddr => Mapped(a)
    BY MachineAssumption DEF Mapped
  <2> HIDE DEF a
  <2> QED
    BY <1>7, <2>2, <2>3, <2>4, <2>5 DEF Store, memory
<1> QED
  BY <1>1, <1>5, <1>6, <1>7

(* A trap handler that stops the core, or a system call with its effects.  *)
LEMMA TrapStep ==
  ASSUME RefinementInv, TrapStops \/ SyscallAborts \/ SyscallReturns \/ SyscallWrites
  PROVE  Abstract!IsaNext
<1> DEFINE d == dec.instr
<1>0. CoreInv /\ StageInv
  BY DEF RefinementInv
<1>1. /\ TrapEnter /\ outcome = "running" /\ state = "TRAP" /\ trap_state = "ENTER"
      /\ trap_state' = "HANDLE" /\ mepc' = pc
      /\ UNCHANGED <<state, pc, registers, instruction, dec, mcause>>
      /\ pc \in RamAddr /\ instruction \in seen[pc] /\ InstrDecoded /\ TrapReason
  BY <1>0
     DEF TrapStops, SyscallAborts, SyscallReturns, SyscallWrites, TrapEnter, Running,
         StageInv
<1>2. ArchPc = pc /\ ArchRegs = registers
  BY <1>1, ArchPlain DEF InSyscall
<1>3. mcause = "ENV_CALL_UMODE" => d.kind = <<"C", "ECALL">>
  BY <1>1 DEF TrapReason, kind
<1>4. outcome' # "running" => ArchPc' = pc /\ ArchRegs' = registers
  BY <1>1 DEF ArchPc, ArchRegs, Committed, InSyscall
<1>5. outcome' = "running" => ArchPc' = Wrap(pc + 1) /\ ArchRegs' = trap_regs'
  BY <1>1 DEF ArchPc, ArchRegs, Committed, InSyscall
<1>6. CASE TrapStops
  <2>1. outcome' = "exited" /\ UNCHANGED <<mem, readable, seen>>
    BY <1>6 DEF TrapStops, memory
  <2>2. \/ d.kind \in {<<"R", "bad">>, <<"C", "ECALL">>, <<"Unknown", "bad">>}
        \/ /\ d.kind \in {<<"I", "LW">>, <<"S", "SW">>}
           /\ ~Mapped(Wrap(registers[d.rs1] + d.imm))
    BY <1>1 DEF TrapReason, kind
  <2>3. Abstract!Stop(d)
    BY <1>2, <1>4, <2>1, <2>2
       DEF Abstract!Stop, Abstract!Mapped, Mapped, Abstract!Wrap, Wrap
  <2> QED
    BY <1>1, <1>2, <2>3, ExecutedOne DEF IsaStep
<1>7. CASE SyscallAborts
  <2>1. outcome' = "aborted" /\ UNCHANGED <<mem, readable, seen>>
        /\ d.kind = <<"C", "ECALL">>
    BY <1>3, <1>7 DEF SyscallAborts, memory
  <2>2. Abstract!Abort(d)
    BY <1>2, <1>4, <2>1 DEF Abstract!Abort
  <2> QED
    BY <1>1, <1>2, <2>2, ExecutedOne DEF IsaStep
<1>8. ASSUME d.kind = <<"C", "ECALL">>, outcome' = outcome,
             \E v \in Results : trap_regs' = [registers EXCEPT ![A0] = v],
             \/ \E G \in Grants \cup {{}} : readable' = readable \ G /\ UNCHANGED mem
             \/ \E B \in Buffers : \E f \in [B -> Results] :
                  /\ mem' = [b \in RamAddr |-> IF b \in B THEN f[b] ELSE mem[b]]
                  /\ readable' = readable \cup B,
             seen' = [b \in RamAddr |-> {mem'[b]}]
      PROVE  Abstract!IsaNext
  <2>1. ArchPc' = Wrap(ArchPc + 1) /\ UNCHANGED outcome
    BY <1>1, <1>2, <1>5, <1>8
  <2>2. \E v \in Results : ArchRegs' = [ArchRegs EXCEPT ![A0] = v]
    BY <1>1, <1>2, <1>5, <1>8
  <2>3. Abstract!Ecall(d)
    BY <2>1, <2>2, <1>8 DEF Abstract!Ecall, Abstract!Wrap, Wrap
  <2> QED
    BY <1>1, <1>2, <2>3, ExecutedOne DEF IsaStep
<1>9. CASE SyscallReturns
  <2>1. /\ mcause = "ENV_CALL_UMODE" /\ outcome' = outcome /\ mem' = mem
        /\ \E v \in Results : trap_regs' = [registers EXCEPT ![A0] = v]
        /\ \E G \in Grants \cup {{}} : readable' = readable \ G
        /\ seen' = [b \in RamAddr |-> {mem[b]}]
    BY <1>9 DEF SyscallReturns
  <2> QED
    BY <1>3, <1>8, <2>1
<1>10. CASE SyscallWrites
  <2>1. /\ mcause = "ENV_CALL_UMODE" /\ outcome' = outcome
        /\ \E v \in Results : trap_regs' = [registers EXCEPT ![A0] = v]
        /\ \/ UNCHANGED <<mem, readable>>
           \/ \E B \in Buffers : \E f \in [B -> Results] :
                /\ mem' = [b \in RamAddr |-> IF b \in B THEN f[b] ELSE mem[b]]
                /\ readable' = readable \cup B
        /\ seen' = [b \in RamAddr |-> {mem'[b]}]
    BY <1>10 DEF SyscallWrites
  <2>2. UNCHANGED <<mem, readable>> =>
          \E G \in Grants \cup {{}} : readable' = readable \ G /\ UNCHANGED mem
    OBVIOUS
  <2> QED
    BY <1>3, <1>8, <2>1, <2>2
<1> QED
  BY <1>6, <1>7, <1>9, <1>10

(* What the pipeline, its prefetch buffer and its traps do to registers,   *)
(* pc and memory is what the abstract machine does, one instruction at a   *)
(* time (core_cycle).                                                      *)
THEOREM CoreImplementsIsa == Spec => ImplementsIsa
<1>1. Init => Abstract!IsaInit
  <2> SUFFICES ASSUME Init PROVE Abstract!IsaInit
    OBVIOUS
  <2>1. state = "FETCH" /\ pc = InitPc /\ registers = InitRegs
        /\ mem \in Images /\ readable = RamAddr \ Unwritten
        /\ seen = [a \in RamAddr |-> {mem[a]}] /\ outcome = "running"
    BY DEF Init
  <2>2. ArchPc = pc /\ ArchRegs = registers
    BY <2>1, ArchPlain DEF InSyscall
  <2> QED
    BY <2>1, <2>2, CoreAssumption
       DEF Abstract!IsaInit, Abstract!Word, Abstract!Regs, Word, Regs
<1>2. RefinementInv /\ [Next]_vars => [Abstract!IsaNext]_(Abstract!isaVars)
  <2> SUFFICES ASSUME RefinementInv, [Next]_vars
               PROVE  Abstract!IsaNext \/ UNCHANGED Abstract!isaVars
    OBVIOUS
  <2>1. FetchFails => Abstract!IsaNext
    BY FetchFailure DEF Abstract!IsaNext
  <2> QED
    BY <2>1, SilentSteps, Assertion, MemoryStep, TrapStep
       DEF Next, Fetch, Execute, Trap
<1> QED
  BY <1>1, <1>2, StagesInOrder, PTL DEF Spec, ImplementsIsa, Abstract!IsaSpec
=============================================================================
