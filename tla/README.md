# A verification of criscv

criscv is an emulator for RISC-V (RV32I) in C.  It reads an ELF file into
emulated memory, gives every core a stack and arguments, and runs each core in
a thread of its own until the guest exits.  This directory holds TLA+ models of
it, configurations that check them with TLC, and proofs checked with TLAPS.
Paths below are relative to the emulator's sources (`src/`); line numbers are
those of the modelled commit and are listed definition by definition under
`map` in `PROJECT.json`.

Contents: [the system](#the-system), [the modules](#the-modules),
[the runs](#the-runs), [what the code does wrong](#where-the-code-departs-from-its-documentation),
[fairness](#fairness), [the proofs](#the-proofs),
[what is not modelled](#not-modelled), [plan](#plan).

## The system

| Component | State | Operations | Correct when |
|---|---|---|---|
| Mmu (`mmu.c`) | base, size, allocation pointer, a permission word per byte, dirty flag per page, last error | `mmu_init`, `mmu_setperm`, `mmu_add_memory`, `mmu_allocate(_raw)`, `mmu_check_access`, `mmu_write_from`, `mmu_read_into` | arrays cover the memory; a byte is readable only after it was written; a block is handed out once; a page written to its end is dirty |
| ELF loader (`elf32.c`) | none | `elf_load` | every segment ends up with its own permissions |
| Core (`cpu.c`, `cpu.h`) | stage, trap state, pc, registers, prefetch buffer and counter, decoded instruction, `aluOut`, saved registers | `core_init`, `core_cycle`: `fetch`, `decode`, `execute`, `memory_access`, `writeback`, `trap` | what it executes is what memory holds at pc; an instruction takes effect once and wholly; it computes what the manual says |
| CSR file (`csr.c`) | one word per register; `mcause` and `mepc` are in use | read/write/clear | the trap returns to the instruction behind the call |
| Bus (`bus.c`, `bus.h`) | mutex, `status`, list of devices | single, multiple and string transfers | one thread at a time is at a device; each operation gives the mutex back; a caller sees its own status |
| RAM device (`memory.c`) | READY, BUSY, ERROR | single and block transfers to the mmu | not ready only after a refusal |
| CSR device (`csr.c`) | READY, ERROR | single transfers, which all fail | |
| Core threads (`emulator.c`) | one thread per core; `main` waits | `emulator_run`, `core_start`, `cpu_thread`, `trap_handler`, `core_join` | a core whose trap was handled goes on; `main` leaves the bus alone when cores run |
| System calls (`syscall.c`) | host files; the saved registers of the core | read, write, open, close, fstat, lseek, brk, exit | only a0 and the buffer change; results say what happened; output and paths are the guest's; the streams of the emulator stay open; the break is memory the guest has |
| Start (`main.c`, `emulator.c`) | `emu->elf`, the core being set up | `main`, `emulator_init`, `load_file`, `emulator_load_elf`, `emulator_run` | cores start on a whole image with whole arguments; `main` does not block itself |
| Configuration, build | | `config.h`, `Makefile` | |

How they interact:

- `main` calls the loader, which calls the mmu directly.  Then `emulator_run`
  sets up one core after another: it allocates from the mmu, writes the
  argument strings and the initial stack **through the bus**, and starts the
  core's thread.  With more than one core it goes on setting up the second
  while the first already runs.
- A core's thread calls `core_cycle` in a loop.  Fetches, loads and stores go
  through the bus to the RAM device and on to the mmu.  After a cycle that
  entered a trap the thread calls `trap_handler`, which runs the system call;
  system calls use the bus too, and `sys_brk` the mmu's allocator.
- The only synchronisation is the bus mutex.  `bus->status` is written while
  the mutex is held and read by callers after it was released.

What is hard about it, line by line, is the list `hazards` in `PROJECT.json`.
The main groups are:

1. *Stale instructions*: the buffer of prefetched instructions must be flushed
   whenever pc does not just advance; stores over prefetched words are not seen.
2. *Traps in three steps*, with a handler in the middle that works on saved
   registers, which the last step copies back.
3. *Refusals*: an access the mmu refuses leaves a state behind in the device,
   the status and the mutex, each on a path of its own.
4. *Permissions that depend on history*: read-after-write memory, blocks that
   are granted anew, memory that is extended.
5. *Threads*: operations of two cores and of `main` interleave.
6. *Unchecked results*: of the allocator, of block transfers, of `load_file`, of
   host calls; buffers that are not initialised.
7. *Bits*: immediates scattered over the instruction word, sign extension,
   shifts, wrap-around.

## The modules

| Module | Models | Extends |
|---|---|---|
| `Mmu` | `mmu.c`: every function as an operator on the record `mmu_t` | |
| `AddressSpace` | the life of that memory: `elf_load`, the allocations of `emulator_run` and `sys_brk`, guest reads and writes through the RAM device | `Mmu` |
| `Machine` | what `Core` and `Isa` share: words, registers, instructions, memory map | |
| `Core` | the pipeline, the prefetch buffer, traps, and the loop of `cpu_thread` | `Machine` |
| `Isa` | *abstract specification* of `Core`: one instruction at a time | `Machine` |
| `Bus` | the bus, its devices' states, `main` and the threads of the cores | |
| `Syscalls` | every system call, with memory contents, the bus and the files of the host | `Mmu` |
| `Startup` | `main` to the last `core_join`: loader, allocator, bus and running cores together | `Mmu` |
| `Rv32iManual` | *reference*: encoding and meaning of RV32I, after the RISC-V manual; models no code | |
| `Rv32i` | decoding and execution of one instruction, bit by bit | `Rv32iManual` |
| `MmuProofs`, `AddressSpaceProofs`, `CoreProofs`, `BusProofs`, `SyscallsProofs`, `StartupProofs`, `StartupMemory`, `Rv32iProofs` | theorems | the modules they are about |
| `MCAddressSpace`, `MCCore`, `MCBus`, `MCSyscalls`, `MCStartup`, `MCRv32i` | small instances | |

### Mmu and AddressSpace

The permission word of a byte is a set of flags; the bytes themselves are left
out, since no property tells two contents apart, and the history variable
`written` says which offsets were written since they were last granted.
`claimed` holds what segments and allocated blocks occupy, `beyond` the part of
it that segments took by extending the memory and the allocator has not handed
out since.  While the image is
loaded no other thread exists, and later there is one core, so each call is one
action: `LoadInside`, `LoadBeyond` and `LoadFails` are one iteration of the loop
of `elf_load` (all its calls: `mmu_add_memory`, `mmu_write_from`,
`mmu_setperm`), split by whether the segment fits in memory; `Run` is the
transition to `emulator_run`; `Allocate`, `BrkQuery`, `BrkRequest`, `Write` and
`Read` are what happens then.  Growing memory reallocates the permission array
by *bytes*; the words that are lost, and those that were never initialised, take
any value in `Junk`.  A `mmu_allocate` that finds no memory returns 0, and as no
caller looks at that, the action goes on.

### Machine, Core and Isa

Addresses are counted in words, an instruction is a record that `Decode` gives
for a word, and the arithmetic is one addition: this module is about control.
One action is one iteration of the loop of `cpu_thread`: one stage of
`core_cycle` and, when it enters a trap, the call of `trap_handler` that follows
in the same iteration (`TrapStops`, `SyscallAborts`, `SyscallReturns`,
`SyscallWrites`).  `dec` keeps its fields between instructions, as the code
does: `decode` resets four flags only, and a branch with an unassigned function
code uses the `aluOut` of the instruction before it.  A system call is the
nondeterministic choice of what it may do to the core: return a value, write a
buffer, take a block of memory, stop the core, abort the process, or leave the
bus locked (`busFree`).

`Isa` is what a guest may rely on: an instruction takes effect at once or the
machine stops.  The one liberty it takes is the instruction it executes: any
word that its address has held since the last jump or trap (`seen`), because
the prefetch buffer may be older than a store.  `Core` implements it under a
refinement mapping that places the effect of an instruction in `memory_access`
and that of a system call in its handler: from there to `writeback`, or to the
end of the trap, pc and registers are read off the pipeline.

### Bus

A bus operation is a sequence of steps (`Lock`, `Find`, `AccessRam`, `Finish`,
`Unlock`, and `Goes`, where the caller looks at the status), since the mutex is
taken and released within it.  What is found at the address is one of four
places: no device, RAM that admits the access, RAM that refuses it, the CSR
device.  Callers are `main` (`SetUp`, `core_start`, `core_join`) and the cores
(`CoreCalls`, with repetition for `bus_read_string`; `CoreEnds`).  `own` is a
history variable with the status each thread's operation ended with, `leaked`
says that a block write returned without giving the mutex back.

### Syscalls

One core runs and `main` waits, so that a system call, from the ECALL to its
result in the saved registers, is one action; it ends with `call # none`, and
`Resume` is the end of the trap that gives the result to the guest.  Between
calls the guest loads and stores bytes anywhere in RAM.  `bus` is the state a
transfer goes through: the `mmu`, the bytes (`data`), the device's state, the
bus status, and whether the mutex is free.  `BlockWritten`, `BlockRead`,
`SingleRead`, `SingleWritten` and `StringsAt` are the bus operations with what
they leave behind when the mmu refuses; a buffer that is not filled holds any
bytes.  The host is external: `read` and `write` may be short or fail, `open`
takes the lowest free descriptor or fails, `lseek` takes a 64-bit offset.  A
`read` transfers at most `MaxTransfer` bytes (0x7ffff000 on Linux), and a host
has fewer than `WordMod` descriptors: a count or a descriptor that a register
cannot tell from -1 would pass for an error, and `ReadDelivers` would not hold
for every size.  Every
way in which a call ends the core or the process is an action of its own
(`Exits`, `WriteAsserts`, `TransferDies`, `ReadWithoutBuffer`, `OpenOverruns`).
`bus_read_string` has no bound: `StringsAt` holds strings up to the end of RAM,
whatever the size of the buffer.  A path longer than the buffer of `sys_open`
overwrites what lies behind it, so that the call either does not return
(`OpenOverruns`, after which the process is not followed) or returns as others
do (`sys_open`); no property says that paths fit, and `PathIsGuests` holds for
them at any length.
Histories: `wrote` (which bytes the guest, its image or `sys_read` put into
memory), `granted` (which memory the guest was given) and `told` (where a file
stands, by the results alone).

### Startup

Where the components meet.  `main` goes through `at`: every call it makes is an
action, with every outcome: `emulator_init` and `load_file` fail, assertions
abort, NULL pointers are followed, an argument is missing.  `emulator_run` sets
up core after core (`setup`): three calls of `mmu_allocate`, two block writes and
six single ones through the bus, `core_start`.  A bus operation holds the mutex
and is one action; `mmu_allocate` takes no lock and is three (`Ask`, `Bump`,
`Grant`), for `main` as for a core inside `sys_brk`.  A core that runs may be
refused an access, which leaves the device in ERROR, on which `main`'s next block
write asserts, or lose the mutex, which stops `main`.  A byte of memory is what
`main` put there: a byte of the image, of an argument, of a pushed word.  Guests
do not write over these in the model: nothing is claimed for a guest that does.

### Rv32i and Rv32iManual

`Rv32iManual` assembles an instruction into its 32 bits and says what it does,
directly in terms of signed and unsigned numbers.  `Rv32i` translates `decode`
and `execute`: masks, shifts, bit fields and casts.  The initial states are all
instructions of `Programs` with values of registers and memory; `asm` and
`before` remember what was assembled and the state before it, so that the
properties compare the result with the manual.  The manual part is never
derived from the emulator.  Numbers are built from their bits as four bytes
(`Number`) and `&`, `|` and `^` bit by bit (`BitsWhere`), without recursion, so
that theorems can be proved about them.  `Programs` may hold any instruction an
assembler takes (`Encodable`), and a register any number of bits from 21, the
longest immediate, to the program's 32.

## The runs

| Run | Checks | Shows |
|---|---|---|
| `address_space` | `TypeOK`, `ReadsSeeWrites`, `ClaimedBelowPointer`, `PageEndsAreDirty`, `ClaimedKept` | a read that is admitted sees written bytes only; no allocation takes memory in use, also after the memory was extended, but for the segment that extended it; a page written up to its end is dirty |
| `core` | `TypeOK`, `PrefetchCoherent`, `ImplementsIsa`, `InstructionsFinish` | whatever is executed was at pc since the last jump or trap; the pipeline implements the abstract machine; each instruction leaves it |
| `bus` | `TypeOK`, `StatusIsOwn`, `CallsReturn` | with one core, as configured: a caller sees its own status though it reads it unlocked; operations return, unless a block write leaked the mutex |
| `bus_two_cores` | `BusyUnderLock`, `NotReadyMeansRefused`, `BusIsReleased` | with two cores: mutual exclusion at the devices; the assertion that a device is ready fails after a refusal only; no path but the refused block write keeps the mutex |
| `syscalls` | `TypeOK`, `ReadDelivers`, `OutputIsGuests`, `PositionAsReported`, `StdStreamsOpen`, `PathIsGuests`, `GuestMemoryKept` | a read that returns has put what it reports into readable memory; output and paths are what the guest wrote; results locate the file; the emulator's streams survive; nothing but the named buffer changes in the guest's memory |
| `startup` | `TypeOK`, `BlocksDisjoint`, `ImageInPlace`, `StartsWithArguments`, `MainReachesCore` | a second core is set up while the first runs: image and arguments of both stay intact; blocks overlap only once two threads were in `mmu_allocate` together; `main` does not block itself |
| `rv32i` | `TypeOK`, `Computes`, `Jumps`, `Accesses`, `Traps` | every RV32I instruction has the effect the manual gives it, with the exceptions the properties name |

Five more runs check one property each that a comment, an assertion or the
README of the emulator claims and that TLC refutes; see the next section.

### Bounds, and why they are enough

- `address_space`: five bytes of RAM, pages and allocation units of two bytes,
  eight segments (start, middle and end of RAM, below it, across its end, past
  it; with and without data; writable or not), images of any number of them in
  ascending order.  Rounding, page boundaries, exhaustion, gaps and the lost
  permissions all happen.  The code has no step that depends on a larger
  distance than an allocation unit or a page, and the theorems remove the bound.
  No counter is capped: memory is finite and grows by segments only.
- `core`: fourteen words, one for each kind of instruction, each of them also a
  datum and an address; all 2744 programs of three instructions followed by a
  jump back, so that programs loop, modify themselves, fall into data and
  jump into the middle of what is buffered.  A prefetch of three words (eight
  in the program) wraps its counter more than once within a program; three
  registers; addresses that are writable, read-only, not yet written, the CSR
  device's, and nobody's.
- `bus`: the eight operations `main` makes for a core, then a core with every
  operation on every place, without a limit on their number (about 1700
  states).  `bus_two_cores`: two cores and `main`, whose set-up is shortened to
  one operation of each kind (about 379 000 states).
- `syscalls`: five bytes of RAM, two values of a byte, an image that is itself a
  path and its NUL, a stack of one byte and room for one block of `sys_brk`;
  buffers of three bytes for paths and output, so that paths fit exactly, are
  too long by one and by two bytes, run out of RAM and cross memory that may not
  be read; one file of two bytes, one descriptor beyond the three streams (open
  fails when it is taken), words of ten values so that a seek by 9 is one by
  -1.  `MaxPos` bounds the positions seeks may reach: one turn of the word.
  About 1 050 000 states.
- `startup`: two cores, five images that leave room for both cores, for one, for
  arguments without a stack, or for nothing; sizes that are not multiples of
  the allocation unit; an argument that is there or missing.  Memory bounds the
  calls of `sys_brk` that succeed.  About 270 000 states.
- `rv32i`: registers of 30 bits, the widest TLC's integers allow; the theorems
  include the 32 bits of the program, and every instruction and operand.
  Immediates and operands are those at which a sign, a carry or a field changes,
  including the alternating patterns that expose swapped bits; destination and
  sources are apart, all the same, or x0; pc is also the last word of memory.
  Besides the base set the programs hold MUL, CSRRW and three encodings that no
  instruction has.

`CHECK_DEADLOCK FALSE` is set everywhere: images run out, cores exit, processes
die and a leaked mutex stops everyone.  Where such a stop must not happen, a
liveness property says so.

## Where the code departs from its documentation

| Run (property) | What TLC finds |
|---|---|
| `earlier_segments` (`LoadKeepsEarlierSegments`) | `mmu_add_memory` reallocates the permission array by bytes, not words (`mmu.c:95`): extending memory destroys the permissions of segments loaded before |
| `program_break` (`BreakIsGranted`) | `sys_brk` subtracts its argument from itself (`syscall.c:109`): it allocates 0x100 bytes and confirms any break |
| `fetch_window` (`FetchNeverFails`) | `assert(false)` in `fetch` (`cpu.c:84`) is reached by a readable instruction less than eight words away from memory that is not |
| `trap_resumes` (`HandledTrapsResume`) | a refused block write returns with the mutex held (`bus.c:179`); the system call succeeds and the core's next fetch waits for ever |
| `base_set` (`BaseSetImplemented`) | "RV32I Base Instruction Set fully implemented": LB and LH do not extend the sign, SRA and SRAI shift logically, ORI cuts its immediate |

Other departures that a comment or an assertion bears on, without a run: the
page in which a write ends is not marked dirty (`mmu.c:190`; `PageEndsAreDirty`
says what is); `assert(dev->state == READY)` fails after a refused access
(`bus.c:175`; `NotReadyMeansRefused`, `WriteAsserts`); a guest may write to
descriptor 0 though the comment says stdout and stderr (`syscall.c:35`); a seek
by a negative offset goes forward by almost 2^32 (`syscall.c:99`,
`PositionAsReported`); a path without an end in 256 bytes overruns the buffer
(`OpenOverruns`, and `sys_open` where the call returns all the same); 42 is
pushed as "argc" though two arguments are set up (`emulator.c:259`), and
`StartsWithArguments` takes that number as it is (`Pushed`); `main` runs the
emulator although the file could not be read (`main.c:42`); with more than one
core the allocation pointer is shared without a lock (`BlocksDisjoint`).

Other departures are part of the models and visible in the properties'
exceptions, without a run of their own: segments without the write flag are
writable (`AfterWrite`); extending memory does not move the allocation pointer
(`AddBeyond`), and each extension loses words of the permission array, a second
one also those it never had room for (`PermRoom`); FENCE is unknown and EBREAK
acts as ECALL (`Traps`); bit 0 of a JALR target is kept (`Jumps`); instructions
of the M extension execute as those of the base set with the same function code
(`ExecuteR`); a load the mmu refuses yields zero and a store it refuses is
dropped, without a trap (`Load`, `Store`).

## Fairness

`Core`: weak fairness of `Next`.  `cpu_thread` is a loop without any wait but
the bus mutex; where the mutex is lost (`busFree` false), the stages that need
it are disabled, so that fairness promises nothing there, which is what
`HandledTrapsResume` fails on.

`Bus`: weak fairness of `Step(t)` for each thread: a thread inside an operation
does not stop.  Nothing obliges a thread to call or to exit, and nothing is
assumed about who gets the mutex.  A thread waiting for it need not get it when
others keep taking it (pthread mutexes are not fair), which is why `CallsReturn`
is checked with one core only and `BusIsReleased` with two.

`Startup`: weak fairness of `main`'s steps together with its calls of
`mmu_allocate`: one thread that never waits but for the mutex.  Once a core runs
the mutex can be lost, so that `MainReachesCore` promises the first core only.

`AddressSpace`, `Syscalls` and `Rv32i` state no liveness: their actions are single
calls that the environment makes.

## The proofs

Assumptions are those the modules declare on their constants
(`MmuAssumption`, `AddressSpaceAssumption`, `MachineAssumption`,
`CoreAssumption`, `BusAssumption`, `SyscallsAssumption`, `StartupAssumption`,
`XlenAssumption`, `Rv32iAssumption`); TLC evaluates each on the instances it
runs.  Almost no property of a run is inductive as it stands.  The
strengthenings were checked with TLC as invariants of the run before they were
proved.

- `MmuProofs`: each function of the mmu keeps `mmu_t` well formed (`MmuOK`), a
  rounded size covers the requested one, and what a write does to the
  permissions of each byte.
- `AddressSpaceProofs`: `Safe`, the conjunction of `TypeOK`, `RawInv` and
  `ClaimedBelowPointer`, is inductive (`SafetyInvariant`).  `ReadsSeeWrites`
  speaks of the reads the mmu admits; its byte-wise form `RawInv` (a readable
  byte was written) is what a step can be checked against.  `ClaimedKept` is not
  an invariant but follows for each step from `ClaimedBelowPointer`: an
  allocation starts at the pointer, above everything in use.  Both except
  `beyond`, the segments that extended the memory, above which the pointer was
  not moved.  `ReadsSeeWrites` is stated for images that fit in RAM
  (`NeverExtended`); after an extension the permissions are heap contents, as
  the run `earlier_segments` shows.  `PagesMarked` is about the dirty flags
  (`PageEndsAreDirty`): `PagesInv` adds that written bytes lie in the memory and
  that every byte of it has a flag, also after it grew; the pages
  `mmu_write_from` marks then include each one whose end was written.
- `CoreProofs`: `CoreInv` is `TypeOK`, `SeenNow` and `PrefetchCoherent`.
  `SeenNow` (what memory holds now is among what it held since the flush) is
  needed where a refill or a flush starts the history anew.  The theorems hold
  for every prefetch size, memory map, instruction table and program.  Further,
  `Core` implements `Isa` (`CoreImplementsIsa`): its initial states map to those
  of `Isa`, and every step to a step of `Isa` or a stutter.
  An instruction takes effect in `memory_access`, but what it does was worked
  out in earlier stages; `StageInv` (`StagesInOrder`) carries that along: after
  `decode` the fields and operands are those of the word fetched, after
  `execute` the result, target and flags belong to its kind, and a trap that was
  entered has the cause it gives.  `writeback` stores the destination register
  and pc one stage later, so the mapping (`ArchRegs`, `ArchPc`) shows them early.
- `BusProofs`: `BusInv` is `TypeOK` and `BusyUnderLock`, inductive together,
  for any number of cores.  `NotReadyMeansRefused` is inductive relative to them
  (`BusSafe`): mutual exclusion is what makes ERROR the only state other than
  READY that the holder of the mutex can meet.  `OneCoreSeesItsStatus` is
  `StatusIsOwn` for `NUMCORES = 1`, the value `config.h` sets, and for it only:
  callers look at the status without the mutex.  `TurnsInv` says that main is
  not inside an operation once the core was started, nor the core before, so
  that nobody writes the status in between.
- `SyscallsProofs`: `SysInv` is inductive (`CallsAreSafe`) and gives the types
  and the six other properties of the run.  Its parts about memory are what
  those properties lack: what may be written may be read or is RAW, hence
  readable after a write (`ReadDelivers`); what may be read holds what `wrote`
  recorded (`OutputIsGuests`, `PathIsGuests`); what was handed out lies below
  the allocation pointer, so that `sys_brk` takes no block the guest has
  (`GuestMemoryKept`, an action property).
- `StartupProofs`, `StartupMemory`: the set-up for any number of cores, images
  and sizes, with every interleaving of main and the cores that run.
  `StartInv` holds the types, what each pending call of `mmu_allocate` was made
  for, and main's order of work; the number of words pushed tells where the
  block of a stack is, which no variable keeps.  On it rest three invariants
  about memory.  `ImageInv`: the allocation pointer, every block asked for and
  every stack lie past the image, also when calls overlap, since a pointer that
  goes back goes to an address that was asked for.  `BlocksInv`: as long as no
  two calls overlapped, at most one is pending and its block is above all
  others.  `PartsInv`: the parts given to the cores (stack and strings) are
  blocks of main's, apart from each other and from the one main holds, and
  contain what was written so far.  They give `ImageInPlace`, `BlocksDisjoint`
  and `StartsWithArguments`.

- `Rv32iProofs`: the five properties of `Rv32i` for registers of 21 to 32 bits,
  every instruction an assembler takes, every register number, immediate and
  word.  They speak of the end of an instruction, so none is inductive;
  `InstrInv` (`InstrInvariant`) says what is known in between.  After `decode`
  the codes, registers and immediate in `instr_t` are those the instruction was
  assembled from (`Parsed`); after `execute` the flags, the access, the target
  and the result are the manual's (`Executed`), or the trap is the right one
  (`Trapped`); after `memory_access` the loaded value and the stored word are
  (`Accessed`).  Three groups of lemmas carry the steps: a field of an assembled
  word is the part it was made from, for each format and each split of an
  immediate (`WordFieldsHold`, `WordImmediatesHold`); the sign extensions of
  `execute` undo the cuts of `decode` (`Extend12`, `Half12`, `Half20`,
  `UpperKept`); and its arithmetic on unsigned words is the manual's on signed
  numbers (`SignedWrap`, `ArithmeticShift`, `ShiftsInWord`, `LogicInWord`).
  Powers of two are taken from a table (`PowersHold`, `WidthsHold`), as the
  provers do not reason about `2^n` for a variable n.

Only model-checked: everything under fairness (`InstructionsFinish`,
`CallsReturn`, `BusIsReleased`, `MainReachesCore`), since liveness and `ENABLED`
are out of the prover's reach.  What TLC refutes has no theorem.

## Not modelled

- What `struct stat` holds (any bytes), modes and flags of `open` (it may create
  the file or not; contents are read-only here, as `sys_write` reaches the three
  streams only), and files longer than a word can count.
- `load_into_ram`: never called.  The layout of the ELF header.
- Guests of `Startup` that write over another core's arguments.
- The CSR file but for `mcause` and `mepc`: the other registers are never used.
- Tracing and register dumps (`CPU_TRACE`, `MEM_TRACE`): compiled out, output only.
- Video: `config.h` mentions it, the repository has no code of it.
- The example guest programs and the Makefiles.  `NDEBUG` is not defined by the
  build, hence assertions are modelled as aborting.
- The weak-memory effects of reading `bus->status` without the mutex: with one
  core (the configured number) there is no second thread to race with.

## Plan

Every invariant and every action property of the runs is proved.  What is left:

1. An abstract allocator (a set of disjoint grants) that `AddressSpace`
   implements; `ClaimedKept` and `ClaimedBelowPointer` say the same property by
   property.
2. The effect of concurrent guests on each other's memory in `Startup`, which
   leaves out guests that write over another core's arguments.
