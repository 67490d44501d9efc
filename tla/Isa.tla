-------------------------------- MODULE Isa --------------------------------
(***************************************************************************)
(* What the core promises its guest: one instruction at a time, each       *)
(* either completes or stops the machine, and a system call changes        *)
(* nothing but the return register and memory.                             *)
(*                                                                         *)
(* Instructions need not be the ones memory holds now: seen[a] are the     *)
(* words a has held since the last jump or trap, and any of them may be    *)
(* executed.                                                               *)
(***************************************************************************)
EXTENDS Machine

VARIABLES pc, regs, mem, readable, seen, outcome

isaVars == <<pc, regs, mem, readable, seen, outcome>>

Outcomes == {"running", "exited", "fetchFailed", "aborted"}

IsaInit ==
  /\ pc \in Word
  /\ regs \in [Regs -> Word] /\ regs[0] = 0
  /\ mem \in [RamAddr -> Word]
  /\ readable \subseteq RamAddr
  /\ seen = [a \in RamAddr |-> {mem[a]}]
  /\ outcome = "running"

FallThrough == pc' = Wrap(pc + 1) /\ UNCHANGED <<seen, outcome>>
JumpTo(t)   == pc' = t /\ seen' = [a \in RamAddr |-> {mem[a]}] /\ UNCHANGED outcome
Register(x, v) == regs' = IF x = 0 THEN regs ELSE [regs EXCEPT ![x] = v]

Compute(d) ==
  /\ FallThrough /\ UNCHANGED <<mem, readable>>
  /\ \/ d.kind = <<"R", "ADD">>  /\ Register(d.rd, Wrap(regs[d.rs1] + regs[d.rs2]))
     \/ d.kind = <<"I", "ADDI">> /\ Register(d.rd, Wrap(regs[d.rs1] + d.imm))
     \/ d.kind = <<"U", "LUI">>  /\ Register(d.rd, Wrap(d.imm))

(* Reading what may not be read yields zero.                               *)
Load(d) ==
  /\ d.kind = <<"I", "LW">>
  /\ FallThrough /\ UNCHANGED <<mem, readable>>
  /\ LET a == Wrap(regs[d.rs1] + d.imm)
     IN  /\ Mapped(a)
         /\ Register(d.rd, IF a \in readable THEN mem[a] ELSE 0)

(* Writing what may not be written does nothing.                           *)
Store(d) ==
  /\ d.kind = <<"S", "SW">>
  /\ pc' = Wrap(pc + 1) /\ UNCHANGED <<regs, outcome>>
  /\ LET a == Wrap(regs[d.rs1] + d.imm)
         v == regs[d.rs2]
     IN  /\ Mapped(a)
         /\ IF a \in WritableAddr
            THEN /\ mem'      = [mem EXCEPT ![a] = v]
                 /\ readable' = readable \cup {a}
                 /\ seen'     = [seen EXCEPT ![a] = @ \cup {v}]
            ELSE UNCHANGED <<mem, readable, seen>>

Jump(d) ==
  /\ UNCHANGED <<mem, readable>>
  /\ \/ d.kind = <<"J", "JAL">>  /\ JumpTo(Wrap(pc + d.imm))
     \/ d.kind = <<"I", "JALR">> /\ JumpTo(Wrap(regs[d.rs1] + d.imm))
  /\ Register(d.rd, Wrap(pc + 1))

(* A branch with an unassigned funct3 may go either way.                   *)
Branch(d) ==
  /\ UNCHANGED <<regs, mem, readable>>
  /\ \/ /\ d.kind = <<"B", "BEQ">> /\ regs[d.rs1] = regs[d.rs2]
        /\ JumpTo(Wrap(pc + d.imm))
     \/ d.kind = <<"B", "BEQ">> /\ regs[d.rs1] # regs[d.rs2] /\ FallThrough
     \/ d.kind = <<"B", "bad">> /\ (JumpTo(Wrap(pc + d.imm)) \/ FallThrough)

(* A system call changes the return register and one buffer at most, or it *)
(* takes a block of memory away to hand it out afresh.                     *)
Ecall(d) ==
  /\ d.kind = <<"C", "ECALL">>
  /\ pc' = Wrap(pc + 1) /\ UNCHANGED outcome
  /\ \E v \in Results : regs' = [regs EXCEPT ![A0] = v]
  /\ \/ \E G \in Grants \cup {{}} : readable' = readable \ G /\ UNCHANGED mem
     \/ \E B \in Buffers : \E f \in [B -> Results] :
          /\ mem' = [a \in RamAddr |-> IF a \in B THEN f[a] ELSE mem[a]]
          /\ readable' = readable \cup B
  /\ seen' = [a \in RamAddr |-> {mem'[a]}]

(* The machine stops without having changed anything: illegal              *)
(* instructions, accesses to no device, and exit.                          *)
Stop(d) ==
  /\ \/ d.kind \in {<<"R", "bad">>, <<"C", "ECALL">>, <<"Unknown", "bad">>}
     \/ /\ d.kind \in {<<"I", "LW">>, <<"S", "SW">>}
        /\ ~Mapped(Wrap(regs[d.rs1] + d.imm))
  /\ outcome' = "exited"
  /\ UNCHANGED <<pc, regs, mem, readable, seen>>

(* The process dies on these instructions, and in some system calls.       *)
Abort(d) ==
  /\ d.kind \in {<<"I", "bad">>, <<"S", "bad">>, <<"C", "ECALL">>}
  /\ outcome' = "aborted"
  /\ UNCHANGED <<pc, regs, mem, readable, seen>>

(* It dies on a fetch too, but only with unreadable memory in sight.       *)
FetchDies ==
  /\ outcome = "running" /\ ~(Window(pc) \subseteq readable)
  /\ outcome' \in {"fetchFailed", "aborted"}
  /\ UNCHANGED <<pc, regs, mem, readable, seen>>

IsaNext ==
  \/ /\ outcome = "running"
     /\ \E w \in IF pc \in RamAddr THEN seen[pc] ELSE {} :
          LET d == Decode[w]
          IN  \/ Compute(d) \/ Load(d) \/ Store(d) \/ Jump(d) \/ Branch(d)
              \/ Ecall(d) \/ Stop(d) \/ Abort(d)
  \/ FetchDies

IsaSpec == IsaInit /\ [][IsaNext]_isaVars
=============================================================================
