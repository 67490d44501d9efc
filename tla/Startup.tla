------------------------------ MODULE Startup ------------------------------
(***************************************************************************)
(* From main to the last core_join: emulator_init, load_file, elf_load and *)
(* emulator_run, which gives every core a stack and its arguments and      *)
(* starts it.  Here loader, allocator, bus and cores meet: with more than  *)
(* one core (NUMCORES) the ones that run use the bus and call sys_brk      *)
(* while main still sets up the next.                                      *)
(*                                                                         *)
(* A bus operation is one step, as it holds the mutex (see Bus);           *)
(* mmu_allocate takes no lock and is three.  A byte of memory is what main *)
(* put there.  Guests read, write and fail, but not over these bytes.      *)
(***************************************************************************)
EXTENDS Mmu, Sequences

CONSTANTS
  NumCores,    \* NUMCORES
  StackSize,   \* STACK_SIZE
  BrkStep,     \* what sys_brk allocates for a request (0x100)
  WordBytes,   \* sizeof(uint32_t)
  Images,      \* ELF files: the PT_LOAD segments of each
  Argv0,       \* bytes of the program name main gives to the guest
  Argv1,       \* sizes of argv[2] with its NUL; NoArg without one
  NoArg

Segments == [vaddr : Nat, memsz : Nat, filesz : Nat, flags : SUBSET {"R", "W", "X"}]

(* Images that fit in RAM; AddressSpace has the others.                    *)
ASSUME StartupAssumption ==
  /\ NumCores \in Nat \ {0} /\ WordBytes \in Nat \ {0} /\ BrkStep \in Nat
  /\ StackSize \in Nat /\ StackSize >= 6 * WordBytes
  /\ StackSize < Base
  /\ \A img \in Images :
       /\ img \in Seq(Segments)
       /\ \A k \in DOMAIN img :
            /\ Base <= img[k].vaddr /\ img[k].filesz <= img[k].memsz
            /\ img[k].vaddr + img[k].memsz <= Base + RamSize
            /\ \A j \in 1 .. k - 1 : img[j].vaddr + img[j].memsz <= img[k].vaddr
  /\ Argv0 \in Nat /\ NoArg \notin Nat /\ Argv1 \subseteq Nat \cup {NoArg}

VARIABLES
  mmu,      \* the mmu_t of the emulator
  mem,      \* what main wrote to a byte of memory
  bus,      \* READY or ERROR: state of the RAM device; "held": the mutex is lost
  at,       \* where main is
  setup,    \* the core main is at, from 1, and how far (segments, pushes)
  image,    \* the file main reads
  elf,      \* emu->elf: "unset", or "loaded"
  argv1,    \* size of the guest's argument
  core,     \* per core: state, x2 and the addresses of its arguments
  request,  \* per thread: its call of mmu_allocate
  blocks,   \* history: blocks handed out, until there was a race
  raced     \* history: two calls of mmu_allocate have overlapped

vars == <<mmu, mem, bus, at, setup, image, elf, argv1, core, request, blocks, raced>>
held == <<image, argv1>>

Cores   == 1 .. NumCores
Main    == 0
Threads == Cores \cup {Main}
This    == setup.core

BusAddresses == Base .. Base + RamSize - 1   \* those of the RAM device

NoRequest == [stage |-> "none", at |-> 0, size |-> 0]
Blank     == <<"none", 0>>

Init ==
  /\ mmu = MmuInit("MMU_OK")
  /\ mem = [i \in 0 .. RamSize - 1 |-> Blank]
  /\ bus = "READY"
  /\ at = "init" /\ setup = [core |-> 1, done |-> 0]
  /\ image \in Images /\ argv1 \in Argv1
  /\ elf = "unset"
  /\ core = [c \in Cores |-> [state |-> "none", sp |-> 0, av0 |-> 0, av1 |-> 0]]
  /\ request = [t \in Threads |-> NoRequest]
  /\ blocks = {} /\ raced = FALSE

----------------------------------------------------------------------------
(* main up to emulator_run.                                                *)
Goes(from, to) == at = from /\ at' = to

(* An assertion, or a NULL pointer that is followed.                       *)
Dies(from) ==
  /\ Goes(from, "died")
  /\ UNCHANGED <<mmu, mem, bus, setup, elf, core, request, blocks, raced, held>>

(* Without memory or video, the emulator or its mmu is NULL and is used    *)
(* all the same.                                                           *)
emulator_init ==
  \/ /\ Goes("init", "file")
     /\ UNCHANGED <<mmu, mem, bus, setup, elf, core, request, blocks, raced, held>>
  \/ Dies("init")

(* It returns NULL for a file that cannot be opened, or without memory;    *)
(* main then runs the emulator with emu->elf as malloc left it.  It        *)
(* asserts that the file can be read and is not empty.                     *)
load_file ==
  \/ /\ Goes("file", "segments") \/ Goes("file", "run")
     /\ UNCHANGED <<mmu, mem, bus, setup, elf, core, request, blocks, raced, held>>
  \/ Dies("file")

LoadSegment ==
  /\ at = "segments" /\ setup.done < Len(image)
  /\ LET seg == image[setup.done + 1]
         m   == AddInside(mmu, seg.vaddr, seg.memsz, FreshPerm)
     IN  /\ mmu' = SetPerm(WriteFrom(m, seg.vaddr, seg.filesz),
                           seg.vaddr, seg.filesz, ElfPerm(seg.flags))
         /\ mem' = [i \in DOMAIN mem |->
                      IF i \in Span(seg.vaddr, seg.filesz)
                      THEN <<"image", i>> ELSE mem[i]]
  /\ setup' = [setup EXCEPT !.done = @ + 1]
  /\ UNCHANGED <<bus, at, elf, core, request, blocks, raced, held>>

(* elf_load without memory returns NULL, which emulator_load_elf follows;  *)
(* other classes of files and an entry point of 0 fail assertions.         *)
elf_load ==
  \/ LoadSegment
  \/ /\ setup.done = Len(image)
     /\ Goes("segments", "run")
     /\ elf' = "loaded" /\ setup' = [setup EXCEPT !.done = 0]
     /\ UNCHANGED <<mmu, mem, bus, core, request, blocks, raced, held>>
  \/ setup.done \in {0, Len(image)} /\ Dies("segments")

----------------------------------------------------------------------------
(* mmu_allocate by any thread: it reads the allocation pointer, sets it,   *)
(* and sets the permissions of the block.                                  *)
Stage(t, stage) == request[t].stage = stage

Ask(t, n) ==
  /\ Stage(t, "none")
  /\ request' = [request EXCEPT ![t] =
                   IF CanAllocate(mmu, n)
                   THEN [stage |-> "asked", at |-> mmu.curr_vaddr, size |-> n]
                   ELSE [stage |-> "done", at |-> 0, size |-> n]]
  /\ raced' = (raced \/ \E u \in Threads : Stage(u, "asked") \/ Stage(u, "bumped"))
  /\ UNCHANGED <<mmu, mem, bus, at, setup, elf, core, blocks, held>>

Bump(t) ==
  /\ Stage(t, "asked")
  /\ mmu' = [mmu EXCEPT !.curr_vaddr = request[t].at + Aligned(request[t].size)]
  /\ request' = [request EXCEPT ![t].stage = "bumped"]
  /\ UNCHANGED <<mem, bus, at, setup, elf, core, blocks, raced, held>>

Grant(t) ==
  /\ Stage(t, "bumped")
  /\ mmu' = SetPerm(mmu, request[t].at, request[t].size, FreshPerm)
  /\ blocks' = IF raced THEN {}
               ELSE blocks \cup {[owner |-> t, at |-> request[t].at, size |-> request[t].size]}
  /\ request' = [request EXCEPT ![t].stage = "done"]
  /\ UNCHANGED <<mem, bus, at, setup, elf, core, raced, held>>

Alive == at \notin {"died", "returned"}
mmu_allocate(t) == Alive /\ (Bump(t) \/ Grant(t))

Answered == Stage(Main, "done") /\ request' = [request EXCEPT ![Main] = NoRequest]

----------------------------------------------------------------------------
(* emulator_run.  What main writes is bytes, all or none of them.          *)
Written(v, bytes) ==
  IF v \in BusAddresses
  THEN /\ mmu' = WriteFrom(mmu, v, Len(bytes))
       /\ mem' = IF WriteOK(mmu, v, Len(bytes))
                 THEN [i \in DOMAIN mem |->
                         IF i \in Span(v, Len(bytes)) THEN bytes[i - (v - Base) + 1]
                         ELSE mem[i]]
                 ELSE mem
  ELSE UNCHANGED <<mmu, mem>>

DeviceAfterKeepsMutex(v, n, refused) ==   \* mutant
  IF v \notin BusAddresses THEN refused
  ELSE IF WriteOK(mmu, v, n) THEN "READY" ELSE refused

DeviceAfter(v, n, refused) ==
  IF v \notin BusAddresses THEN bus
  ELSE IF WriteOK(mmu, v, n) THEN "READY" ELSE refused

(* Without a file the entry point is read through a wild pointer.          *)
cpu_init ==
  \/ /\ Goes("run", "stack")
     /\ UNCHANGED <<mmu, mem, bus, setup, elf, core, request, blocks, raced, held>>
  \/ elf = "unset" /\ Dies("run")

AskStack == at = "stack" /\ Ask(Main, StackSize)

core_init ==
  /\ Goes("stack", "argv0") /\ Answered
  /\ core' = [core EXCEPT ![This].sp = request[Main].at + StackSize]
  /\ UNCHANGED <<mmu, mem, bus, setup, elf, blocks, raced, held>>

Bytes(name, n) == [j \in 1 .. n |-> <<name, j>>]

(* bus_write_multiple of an argument: it asserts that the device is READY, *)
(* and one that is refused keeps the mutex.                                *)
Argument(name, n) ==
  LET v == request[Main].at IN
  /\ Answered /\ bus # "held"
  /\ v \in BusAddresses => bus = "READY"
  /\ Written(v, Bytes(name, n))
  /\ bus' = DeviceAfter(v, n, "held")
  /\ UNCHANGED <<elf, blocks, raced, held>>

AskArgv0 == at = "argv0" /\ Ask(Main, Argv0)

WriteArgv0 ==
  /\ Goes("argv0", "argv1") /\ Argument("argv0", Argv0)
  /\ core' = [core EXCEPT ![This].av0 = request[Main].at]
  /\ UNCHANGED setup

(* strlen of a missing argument dies.                                      *)
AskArgv1 ==
  \/ at = "argv1" /\ argv1 # NoArg /\ Ask(Main, argv1)
  \/ argv1 = NoArg /\ Dies("argv1")

WriteArgv1 ==
  /\ Goes("argv1", "push") /\ Argument("argv1", argv1)
  /\ core' = [core EXCEPT ![This].av1 = request[Main].at]
  /\ setup' = [setup EXCEPT !.done = 0]

(* A refused access of a guest left the device in ERROR.                   *)
WriteAsserts ==
  /\ Stage(Main, "done") /\ request[Main].at \in BusAddresses /\ bus = "ERROR"
  /\ Dies("argv0") \/ Dies("argv1")

(* What is pushed: auxp, envp, the end of argv, argv[1], argv[0], argc.    *)
Pushed(c) == <<0, 0, 0, core[c].av1, core[c].av0, 42>>

Word(value) == [j \in 1 .. WordBytes |-> <<"word", value>>]

SlotAtPointer(sp) == sp   \* mutant

(* A push writes below the stack pointer.                                  *)
Slot(sp) == sp - WordBytes

push ==
  /\ at = "push" /\ setup.done < 6 /\ bus # "held"
  /\ Written(Slot(core[This].sp), Word(Pushed(This)[setup.done + 1]))
  /\ bus' = DeviceAfter(Slot(core[This].sp), WordBytes, "ERROR")
  /\ core' = [core EXCEPT ![This].sp = @ - WordBytes]
  /\ setup' = [setup EXCEPT !.done = @ + 1]
  /\ UNCHANGED <<at, elf, request, blocks, raced, held>>

(* The result of pthread_create is not looked at.                          *)
core_start ==
  /\ setup.done = 6
  /\ \E started \in {"running", "unstarted"} :
       core' = [core EXCEPT ![This].state = started]
  /\ \/ This < NumCores /\ Goes("push", "stack")
        /\ setup' = [core |-> This + 1, done |-> 0]
     \/ This = NumCores /\ Goes("push", "join")
        /\ setup' = [core |-> 1, done |-> 0]
  /\ UNCHANGED <<mmu, mem, bus, elf, request, blocks, raced, held>>

(* Joining a thread that never was is undefined: it may return or die.     *)
core_join ==
  /\ core[This].state # "running" /\ at = "join"
  /\ \/ This < NumCores /\ Goes("join", "join")
        /\ setup' = [setup EXCEPT !.core = This + 1]
     \/ This = NumCores /\ Goes("join", "returned")
        /\ UNCHANGED setup
     \/ core[This].state = "unstarted" /\ Goes("join", "died")
        /\ UNCHANGED setup
  /\ UNCHANGED <<mmu, mem, bus, elf, core, request, blocks, raced, held>>

MainSteps ==
  \/ emulator_init \/ load_file \/ elf_load
  \/ cpu_init \/ AskStack \/ core_init
  \/ AskArgv0 \/ WriteArgv0 \/ AskArgv1 \/ WriteArgv1 \/ WriteAsserts
  \/ push \/ core_start \/ core_join

----------------------------------------------------------------------------
(* A core that runs.                                                       *)
Runs(c) == Alive /\ core[c].state = "running"

(* Its accesses leave the device READY or, refused, ERROR; a refused block *)
(* write keeps the mutex.                                                  *)
GuestAccess(c) ==
  /\ Runs(c) /\ Stage(c, "none") /\ bus # "held"
  /\ bus' \in {"READY", "ERROR", "held"}
  /\ UNCHANGED <<mmu, mem, at, setup, elf, core, request, blocks, raced, held>>

sys_brk(c) ==
  /\ Runs(c)
  /\ \/ Ask(c, BrkStep)
     \/ /\ Stage(c, "done")
        /\ request' = [request EXCEPT ![c] = NoRequest]
        /\ UNCHANGED <<mmu, mem, bus, at, setup, elf, core, blocks, raced, held>>

CoreEnds(c) ==
  /\ Runs(c) /\ Stage(c, "none")
  /\ core' = [core EXCEPT ![c].state = "ended"]
  /\ UNCHANGED <<mmu, mem, bus, at, setup, elf, request, blocks, raced, held>>

Next ==
  \/ MainSteps
  \/ \E t \in Threads : mmu_allocate(t)
  \/ \E c \in Cores : GuestAccess(c) \/ sys_brk(c) \/ CoreEnds(c)

(* main never waits but for the mutex; it is not said who gets that.       *)
Spec == Init /\ [][Next]_vars /\ WF_vars(MainSteps \/ mmu_allocate(Main))

----------------------------------------------------------------------------
(* The mmu stays well formed although two threads write its allocation     *)
(* pointer, and each core is set up before it runs.                        *)
TypeOK ==
  /\ MmuOK(mmu) /\ mmu.size = RamSize
  /\ bus \in {"READY", "ERROR", "held"}
  /\ setup \in [core : Cores, done : Nat]
  /\ elf \in {"unset", "loaded"} /\ raced \in BOOLEAN
  /\ \A c \in Cores : c > This /\ at \notin {"join", "returned", "died"} => core[c].state = "none"
  /\ \A b \in blocks : b.owner \in Threads

Overlap(v, n, w, k) == Span(v, n) \cap Span(w, k) # {}

(* Blocks handed out by mmu_allocate lie apart from each other, whoever    *)
(* asked, unless two threads once were in it together: emulator_run and    *)
(* sys_brk share its unlocked pointer, and once it has gone back, even     *)
(* calls that do not overlap return the same memory.                       *)
BlocksDisjoint ==
  ~raced => \A b1, b2 \in blocks :
              b1 # b2 => ~Overlap(b1.at, b1.size, b2.at, b2.size)

(* The image a core runs is wholly in memory, with its permissions, from   *)
(* the start of the first core on: no block, not even one handed out in a  *)
(* race, no argument and no push lands on it (elf_load, emulator_run).     *)
(* The exception is a file that load_file could not read, which main       *)
(* ignores.                                                                *)
ImageInPlace ==
  elf = "loaded" =>
    \A k \in DOMAIN image :
      \A i \in Span(image[k].vaddr, image[k].filesz) :
        mem[i] = <<"image", i>> /\ mmu.perm[i] = ElfPerm(image[k].flags)

Holds(v, bytes) ==
  \A j \in DOMAIN bytes :
    LET i == v - Base + j - 1 IN
    i \in DOMAIN mem /\ mem[i] = bytes[j] /\ "READ" \in mmu.perm[i]

(* A core that was set up finds argc, argv and the strings where x2 says,  *)
(* readable and intact, inside its own blocks, however the others were set *)
(* up since and whatever they allocate.  Where memory ran out the pointer  *)
(* is NULL, or x2 is outside of RAM: never half of it (emulator_run looks  *)
(* at none of the results).                                                *)
StartsWithArguments ==
  \A c \in Cores : core[c].state # "none" /\ ~raced =>
    LET sp == core[c].sp IN
    /\ \/ sp + 6 * WordBytes = StackSize
       \/ /\ [owner |-> Main, at |-> sp + 6 * WordBytes - StackSize,
              size |-> StackSize] \in blocks
          /\ \A k \in 1 .. 6 : Holds(sp + (6 - k) * WordBytes, Word(Pushed(c)[k]))
    /\ core[c].av0 = 0 \/ Holds(core[c].av0, Bytes("argv0", Argv0))
    /\ core[c].av1 = 0 \/ Holds(core[c].av1, Bytes("argv1", argv1))

(* main does not block itself: while no core runs yet, every path through  *)
(* the set-up, with or without memory, a file or an argument, ends at the  *)
(* start of the first core or with the end of the process (emulator_run's  *)
(* bus operations give the mutex back also when they find no device).      *)
MainReachesCore == <>(at = "died" \/ core[1].state # "none")
=============================================================================
