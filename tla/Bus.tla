-------------------------------- MODULE Bus --------------------------------
(***************************************************************************)
(* The shared bus (bus.c), the state of its two devices (memory.c, csr.c)  *)
(* and the threads that use it: main, which sets the cores up and starts   *)
(* them one by one (emulator_run), and the cores.                          *)
(*                                                                         *)
(* One bus operation is a sequence of steps, because the mutex is taken    *)
(* and released in the middle of it and because callers look at            *)
(* bus->status after it was released.  What an operation finds at its      *)
(* address is one of Places; contents are left to the other modules.       *)
(***************************************************************************)
EXTENDS Naturals, Sequences

CONSTANTS
  NUMCORES,   \* cores the emulator runs (1 in config.h)
  SetupOps    \* bus operations of emulator_run for one core, in order

ASSUME BusAssumption ==
  /\ NUMCORES \in Nat \ {0}
  /\ SetupOps \in Seq({"write_single", "write_multiple"})

Main    == 0
Cores   == 1 .. NUMCORES
Threads == {Main} \cup Cores
Nobody  == NUMCORES + 1

(* No device; RAM that admits the access; RAM that denies it; CSR device.  *)
Places == {"none", "ram", "denied", "csr"}
Ops    == {"read_single", "read_multiple", "write_single", "write_multiple"}
Single(o) == o \in {"read_single", "write_single"}

VARIABLES
  owner,     \* who holds bus->mutex
  status,    \* bus->status
  ram, csr,  \* state of the two devices
  at,        \* where each thread is: between operations, or in which step
  op, place, \* the operation of each thread and what is at its address
  string,    \* the operation is one step of bus_read_string
  own,       \* history: the status each thread's operation ended with
  leaked,    \* history: a failed block write returned with the bus locked
  todo,      \* operations main has still to do for the core it sets up
  started,   \* cores that core_start was called for
  outcome    \* "running", or how the process died

devices == <<ram, csr>>
calls   == <<op, place, string>>
history == <<own, leaked>>
setup   == <<todo, started>>
vars    == <<owner, status, devices, at, calls, history, setup, outcome>>

Steps == {"idle", "lock", "find", "access", "finish", "unlock", "check", "done"}

Init ==
  /\ owner = Nobody
  /\ status = "BUS_OK"
  /\ ram = "READY" /\ csr = "READY"
  /\ at = [t \in Threads |-> "idle"]
  /\ op = [t \in Threads |-> "read_single"]
  /\ place = [t \in Threads |-> "none"]
  /\ string = [t \in Threads |-> FALSE]
  /\ own = [t \in Threads |-> "BUS_OK"] /\ leaked = FALSE
  /\ todo = SetupOps
  /\ started = 0
  /\ outcome = "running"

Running == outcome = "running"
At(t, s) == Running /\ at[t] = s
GoTo(t, s) == at' = [at EXCEPT ![t] = s]

----------------------------------------------------------------------------
(* The callers.                                                            *)
Call(t, o, p, str) ==
  /\ At(t, "idle")
  /\ GoTo(t, "lock")
  /\ op' = [op EXCEPT ![t] = o]
  /\ place' = [place EXCEPT ![t] = p]
  /\ string' = [string EXCEPT ![t] = str]
  /\ UNCHANGED <<owner, status, devices, history, started, outcome>>

(* emulator_run: the argument strings, then the pushes.  They go to fresh  *)
(* memory, or to address 0 when mmu_allocate had none.                     *)
SetUp ==
  /\ started < NUMCORES /\ todo # << >>
  /\ \E p \in {"ram", "none"} : Call(Main, Head(todo), p, FALSE)
  /\ todo' = Tail(todo)

StartEarly ==   \* mutant
  /\ Running /\ started < NUMCORES /\ todo = << >>   \* the last push still on
  /\ started' = started + 1
  /\ todo' = IF started' < NUMCORES THEN SetupOps ELSE << >>
  /\ UNCHANGED <<owner, status, devices, at, calls, history, outcome>>

StartOneMore ==   \* mutant
  /\ At(Main, "idle") /\ started <= NUMCORES /\ todo = << >>
  /\ started' = started + 1
  /\ todo' = IF started' < NUMCORES THEN SetupOps ELSE << >>
  /\ UNCHANGED <<owner, status, devices, at, calls, history, outcome>>

core_start ==
  /\ At(Main, "idle") /\ started < NUMCORES /\ todo = << >>
  /\ started' = started + 1
  /\ todo' = IF started' < NUMCORES THEN SetupOps ELSE << >>
  /\ UNCHANGED <<owner, status, devices, at, calls, history, outcome>>

(* core_join for every core.                                               *)
core_join ==
  /\ At(Main, "idle") /\ started = NUMCORES
  /\ \A c \in Cores : at[c] = "done"
  /\ GoTo(Main, "done")
  /\ UNCHANGED <<owner, status, devices, calls, history, setup, outcome>>

(* fetch, memory_access, and the system calls: sys_read and sys_fstat      *)
(* write, sys_write reads, sys_open reads byte after byte.                 *)
CoreCalls(c) ==
  /\ c <= started
  /\ \E p \in Places :
       \/ \E o \in Ops : Call(c, o, p, FALSE)
       \/ Call(c, "read_single", p, TRUE)
  /\ UNCHANGED todo

(* The guest exits, or a trap that is no system call ends the thread.      *)
CoreEnds(c) ==
  /\ c <= started /\ At(c, "idle")
  /\ GoTo(c, "done")
  /\ UNCHANGED <<owner, status, devices, calls, history, setup, outcome>>

----------------------------------------------------------------------------
(* One operation.                                                          *)
LockAlways(t) ==   \* mutant
  /\ At(t, "lock")
  /\ owner' = t
  /\ GoTo(t, "find")
  /\ UNCHANGED <<status, devices, calls, history, setup, outcome>>

Lock(t) ==
  /\ At(t, "lock") /\ owner = Nobody
  /\ owner' = t
  /\ GoTo(t, "find")
  /\ UNCHANGED <<status, devices, calls, history, setup, outcome>>

FindKeepsLock(t) ==   \* mutant
  /\ At(t, "find")
  /\ status' = IF place[t] = "none" THEN "BUS_ADDRESS_NOT_FOUND" ELSE "BUS_OK"
  /\ own' = [own EXCEPT ![t] = status']
  /\ GoTo(t, IF place[t] = "none" THEN "check" ELSE "access")
  /\ UNCHANGED <<owner, devices, leaked, calls, setup, outcome>>

(* bus_find_device, and the early return.                                  *)
Find(t) ==
  /\ At(t, "find")
  /\ status' = IF place[t] = "none" THEN "BUS_ADDRESS_NOT_FOUND" ELSE "BUS_OK"
  /\ own' = [own EXCEPT ![t] = status']
  /\ GoTo(t, IF place[t] = "none" THEN "unlock" ELSE "access")
  /\ UNCHANGED <<owner, devices, leaked, calls, setup, outcome>>

InRam(t) == place[t] \in {"ram", "denied"}

(* The assertion that the device is READY when a block is written.         *)
AssertionFails(t) ==
  /\ At(t, "access") /\ op[t] = "write_multiple"
  /\ (IF InRam(t) THEN ram ELSE csr) # "READY"
  /\ outcome' = "notReady"
  /\ UNCHANGED <<owner, status, devices, at, calls, history, setup>>

(* The CSR device leaves .read and .write NULL.                            *)
CallsNull(t) ==
  /\ At(t, "access") /\ place[t] = "csr"
  /\ \/ op[t] = "read_multiple"
     \/ op[t] = "write_multiple" /\ csr = "READY"
  /\ outcome' = "crashed"
  /\ UNCHANGED <<owner, status, devices, at, calls, history, setup>>

(* csr_mmio_read_single and csr_mmio_write_single.                         *)
AccessCsr(t) ==
  /\ At(t, "access") /\ place[t] = "csr"
  /\ Single(op[t])
  /\ csr' = "ERROR"
  /\ GoTo(t, "unlock")
  /\ UNCHANGED <<owner, status, ram, calls, history, setup, outcome>>

(* read_ram and write_ram, before and after the call of the mmu.           *)
AccessRam(t) ==
  /\ At(t, "access") /\ InRam(t)
  /\ op[t] = "write_multiple" => ram = "READY"
  /\ ram' = "BUSY"
  /\ GoTo(t, "finish")
  /\ UNCHANGED <<owner, status, csr, calls, history, setup, outcome>>

FinishKeepsLock(t) ==   \* mutant
  /\ At(t, "finish")
  /\ ram' = IF place[t] = "ram" THEN "READY" ELSE "ERROR"
  /\ status' = IF Single(op[t]) THEN status
               ELSE IF place[t] = "ram" THEN "BUS_OK" ELSE "BUS_DEVICE_FAILURE"
  /\ own' = [own EXCEPT ![t] = status']
  /\ leaked' = (leaked \/ (place[t] = "denied" /\ op[t] = "write_multiple"))
  /\ GoTo(t, IF place[t] = "denied" THEN "check" ELSE "unlock")
  /\ UNCHANGED <<owner, csr, calls, setup, outcome>>

(* Single accesses do not look at the result.  A failed block write        *)
(* returns without unlocking.                                              *)
Finish(t) ==
  /\ At(t, "finish")
  /\ ram' = IF place[t] = "ram" THEN "READY" ELSE "ERROR"
  /\ status' = IF Single(op[t]) THEN status
               ELSE IF place[t] = "ram" THEN "BUS_OK" ELSE "BUS_DEVICE_FAILURE"
  /\ own' = [own EXCEPT ![t] = status']
  /\ LET failed == place[t] = "denied" /\ op[t] = "write_multiple"
     IN  /\ GoTo(t, IF failed THEN "check" ELSE "unlock")
         /\ leaked' = (leaked \/ failed)
  /\ UNCHANGED <<owner, csr, calls, setup, outcome>>

Unlock(t) ==
  /\ At(t, "unlock")
  /\ owner' = Nobody
  /\ GoTo(t, "check")
  /\ UNCHANGED <<status, devices, calls, history, setup, outcome>>

(* The caller looks at bus->status, without the mutex: bus_read_string     *)
(* goes on while it is BUS_OK, memory_access and sys_open let the core     *)
(* run on, or end it.  fetch looks at the count it got.                    *)
Goes(t) ==
  /\ At(t, "check")
  /\ \/ /\ t = Main \/ status = "BUS_OK" \/ ~Single(op[t])
        /\ GoTo(t, "idle") /\ UNCHANGED place
     \/ /\ t # Main /\ status # "BUS_OK" /\ Single(op[t])
        /\ GoTo(t, "done") /\ UNCHANGED place
     \/ /\ string[t] /\ status = "BUS_OK"
        /\ GoTo(t, "lock")
        /\ \E p \in Places : place' = [place EXCEPT ![t] = p]
  /\ UNCHANGED <<owner, status, devices, op, string, history, setup, outcome>>

(* fetch asserts that it got the instructions.                             *)
FetchFails(t) ==
  /\ At(t, "check") /\ op[t] = "read_multiple" /\ own[t] # "BUS_OK"
  /\ outcome' = "noInstruction"
  /\ UNCHANGED <<owner, status, devices, at, calls, history, setup>>

(* The steps of an operation, which no thread stops in the middle of.      *)
Step(t) ==
  \/ Lock(t) \/ Find(t) \/ AssertionFails(t) \/ CallsNull(t) \/ AccessCsr(t)
  \/ AccessRam(t) \/ Finish(t) \/ Unlock(t) \/ Goes(t) \/ FetchFails(t)

Next ==
  \/ SetUp \/ core_start \/ core_join
  \/ \E c \in Cores : CoreCalls(c) \/ CoreEnds(c)
  \/ \E t \in Threads : Step(t)

Spec     == Init /\ [][Next]_vars
FairSpec == Spec /\ \A t \in Threads : WF_vars(Step(t))

----------------------------------------------------------------------------
(* The state of bus, devices and threads keeps its types; main starts each *)
(* core once and none that does not exist (the loop of emulator_run).      *)
TypeOK ==
  /\ owner \in Threads \cup {Nobody}
  /\ status \in {"BUS_OK", "BUS_ADDRESS_NOT_FOUND", "BUS_DEVICE_FAILURE"}
  /\ ram \in {"READY", "BUSY", "ERROR"} /\ csr \in {"READY", "ERROR"}
  /\ at \in [Threads -> Steps]
  /\ op \in [Threads -> Ops] /\ place \in [Threads -> Places]
  /\ string \in [Threads -> BOOLEAN]
  /\ own \in [Threads -> {"BUS_OK", "BUS_ADDRESS_NOT_FOUND", "BUS_DEVICE_FAILURE"}]
  /\ leaked \in BOOLEAN
  /\ todo \in Seq(Ops)
  /\ started \in 0 .. NUMCORES
  /\ outcome \in {"running", "notReady", "crashed", "noInstruction"}

(* The mutex serialises the devices: RAM is busy only while some thread is *)
(* in the middle of an access and owns the bus, and no second thread is    *)
(* past its lock (bus_begin_read, bus_begin_write).                        *)
BusyUnderLock ==
  /\ ram = "BUSY" => \E t \in Threads : owner = t /\ at[t] = "finish"
  /\ \A t \in Threads : at[t] \in {"find", "access", "finish", "unlock"} => owner = t

(* A caller that looks at bus->status after its operation released the     *)
(* mutex sees the status of its own operation (memory_access, sys_open,    *)
(* bus_read_string).  True of one core: main does not touch the bus once   *)
(* it started the last core.                                               *)
StatusIsOwn == \A t \in Threads : at[t] = "check" => status = own[t]

(* A thread that holds the bus lets go of it, or a block write failed, or  *)
(* the process is dead.                                                    *)
BusIsReleased ==
  \A t \in Threads :
    owner = t ~> owner # t \/ leaked \/ ~Running

(* An operation once called returns to its caller, unless a block write    *)
(* left the bus locked or the process is dead.                             *)
CallsReturn ==
  \A t \in Threads :
    at[t] = "lock" ~> at[t] \in {"check", "idle", "done"} \/ leaked \/ ~Running

(* When the assertion of bus_write_multiple that its device is READY fails *)
(* (bus.c:175), the last access to that device was refused: it is never    *)
(* another thread's access in progress that the assertion meets.           *)
NotReadyMeansRefused ==
  outcome = "notReady" =>
    \E t \in Threads : /\ owner = t
                       /\ at[t] = "access" /\ op[t] = "write_multiple"
                       /\ (IF InRam(t) THEN ram ELSE csr) = "ERROR"
=============================================================================
